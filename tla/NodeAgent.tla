----------------------------- MODULE NodeAgent -----------------------------
(***************************************************************************)
(* The node agents and their hosts: the life of the agent process          *)
(* (node-agent/src/main.rs), the rpc-server child it owns                  *)
(* (inference/rpc.rs) and the heartbeats it broadcasts                     *)
(* (network/discovery.rs).  An rpc-server the agent did not stop outlives  *)
(* it and keeps the port.                                                  *)
(***************************************************************************)
EXTENDS Integers, FiniteSets

CONSTANTS
  NodeId,      \* one agent per host, with a node_id that is stable
  Addr,        \* addresses hosts can have
  PowerFails,  \* may hosts lose their power?
  Moves        \* may a host come back with another address?

\* A heartbeat as the orchestrator gets it: the payload and its source address.
Message == [node : NodeId, addr : Addr, rpc : BOOLEAN]

VARIABLES
  power,      \* is the host up?
  address,    \* the host's address
  agent,      \* the agent process: "off", or how far main() has come
  announces,  \* does it announce an rpc_port other than 0?
  child,      \* its rpc-server child: "none", "running", "exited"
  orphan,     \* does an earlier agent's rpc-server still run?
  wire        \* heartbeats under way to the orchestrator

hosts == <<power, address, agent, announces, child, orphan>>
agentVars == <<power, address, agent, announces, child, orphan, wire>>

AgentTypeOK ==
  /\ power \in [NodeId -> BOOLEAN]
  /\ address \in [NodeId -> Addr]
  /\ agent \in [NodeId -> {"off", "register", "registered", "serve"}]
  /\ announces \in [NodeId -> BOOLEAN]
  /\ child \in [NodeId -> {"none", "running", "exited"}]
  /\ orphan \in [NodeId -> BOOLEAN]
  /\ wire \subseteq Message

AgentInit ==
  /\ power = [n \in NodeId |-> TRUE]
  /\ address \in {f \in [NodeId -> Addr] : \A m, n \in NodeId : f[m] = f[n] => m = n}
  /\ agent = [n \in NodeId |-> "off"]
  /\ announces = [n \in NodeId |-> FALSE]
  /\ child = [n \in NodeId |-> "none"]
  /\ orphan = [n \in NodeId |-> FALSE]
  /\ wire = {}

\* An rpc-server, whoever started it, accepts connections on n's rpc port.
RpcListens(n) == power[n] /\ (child[n] = "running" \/ orphan[n])

\* The gRPC port is open only once main() has got past the registration.
GrpcListens(n) == power[n] /\ agent[n] = "serve"

-----------------------------------------------------------------------------
\* main() up to the registration, with or without --enable-rpc.  The port is
\* announced whatever became of the child: the spawn may fail, and the child cannot
\* bind an orphan's port.
StartAgent(n, enable) ==
  /\ power[n]
  /\ agent[n] = "off"
  /\ agent' = [agent EXCEPT ![n] = "register"]
  /\ announces' = [announces EXCEPT ![n] = enable]
  /\ \E c \in IF ~enable THEN {"none"}
              ELSE IF orphan[n] THEN {"none", "exited"} ELSE {"none", "running"} :
       child' = [child EXCEPT ![n] = c]
  /\ UNCHANGED <<power, address, orphan, wire>>

\* The registration request has been answered with success.
Registered(n) ==
  /\ agent[n] = "register"
  /\ agent' = [agent EXCEPT ![n] = "registered"]
  /\ UNCHANGED <<power, address, announces, child, orphan, wire>>

\* Without an orchestrator address, on a failure or after the response, the
\* agent goes on to serve.  It does not try to register again.
Serve(n) ==
  /\ agent[n] \in {"register", "registered"}
  /\ agent' = [agent EXCEPT ![n] = "serve"]
  /\ UNCHANGED <<power, address, announces, child, orphan, wire>>

Broadcast(n) ==
  /\ agent[n] # "off"
  /\ wire' = wire \cup {[node |-> n, addr |-> address[n], rpc |-> announces[n]]}
  /\ UNCHANGED hosts

\* The rpc-server dies by itself.  Nothing notices: start() is not called again.
ChildExit(n) ==
  /\ child[n] = "running"
  /\ child' = [child EXCEPT ![n] = "exited"]
  /\ UNCHANGED <<power, address, agent, announces, orphan, wire>>

OrphanExit(n) ==
  /\ orphan[n]
  /\ orphan' = [orphan EXCEPT ![n] = FALSE]
  /\ UNCHANGED <<power, address, agent, announces, child, wire>>

\* Faulty variant: the cleanup does not stop the rpc-server.
ShutdownKeepsChild(n) ==
  /\ agent[n] = "serve"
  /\ agent' = [agent EXCEPT ![n] = "off"]
  /\ UNCHANGED <<power, address, announces, child, orphan, wire>>

\* While serving, a signal or the end of the gRPC server leads to the cleanup,
\* which kills the child.
Shutdown(n) ==
  /\ agent[n] = "serve"
  /\ agent' = [agent EXCEPT ![n] = "off"]
  /\ child' = [child EXCEPT ![n] = "none"]
  /\ UNCHANGED <<power, address, announces, orphan, wire>>

\* The process goes without running any of its cleanup.
Vanish(n) ==
  /\ agent' = [agent EXCEPT ![n] = "off"]
  /\ child' = [child EXCEPT ![n] = "none"]
  /\ orphan' = [orphan EXCEPT ![n] = @ \/ child[n] = "running"]

\* SIGTERM before the signal handlers are installed, that is before main()
\* polls shutdown_signal(): the default action ends the process.
Terminate(n) ==
  /\ agent[n] \in {"register", "registered"}
  /\ Vanish(n)
  /\ UNCHANGED <<power, address, announces, wire>>

\* SIGKILL, or a crash of the agent itself.
Crash(n) ==
  /\ agent[n] # "off"
  /\ Vanish(n)
  /\ UNCHANGED <<power, address, announces, wire>>

PowerOff(n) ==
  /\ PowerFails
  /\ power[n]
  /\ power' = [power EXCEPT ![n] = FALSE]
  /\ agent' = [agent EXCEPT ![n] = "off"]
  /\ child' = [child EXCEPT ![n] = "none"]
  /\ orphan' = [orphan EXCEPT ![n] = FALSE]
  /\ UNCHANGED <<address, announces, wire>>

PowerOn(n) ==
  /\ ~power[n]
  /\ power' = [power EXCEPT ![n] = TRUE]
  /\ \E a \in IF Moves THEN Addr \ {address[m] : m \in NodeId \ {n}} ELSE {address[n]} :
       address' = [address EXCEPT ![n] = a]
  /\ UNCHANGED <<agent, announces, child, orphan, wire>>

\* The network delivers a heartbeat or loses it.
Take(m) ==
  /\ m \in wire
  /\ wire' = wire \ {m}
  /\ UNCHANGED hosts

LifeCycle(n) ==
  \/ \E enable \in BOOLEAN : StartAgent(n, enable)
  \/ Serve(n)
  \/ Broadcast(n)
  \/ ChildExit(n)
  \/ OrphanExit(n)
  \/ Shutdown(n)
  \/ Terminate(n)
  \/ Crash(n)
  \/ PowerOff(n)
  \/ PowerOn(n)

AgentNext ==
  \/ \E n \in NodeId : LifeCycle(n) \/ Registered(n)
  \/ \E m \in wire : Take(m)

AgentSpec == AgentInit /\ [][AgentNext]_agentVars

-----------------------------------------------------------------------------
(* Properties.                                                             *)

\* Nothing of an agent is left on a host without its process or without power,
\* except an orphan on a powered host, and at most one rpc-server holds the
\* port: what main(), its cleanup and the children's lives add up to.
HostConsistent ==
  /\ AgentTypeOK
  /\ \A n \in NodeId :
       /\ agent[n] = "off" => child[n] = "none"
       /\ ~power[n] => agent[n] = "off" /\ ~orphan[n]
       /\ ~(orphan[n] /\ child[n] = "running")
       /\ agent[n] # "off" /\ ~announces[n] => child[n] = "none"

=============================================================================
