------------------------------ MODULE Cluster ------------------------------
(***************************************************************************)
(* The orchestrator's registry together with the agents it is about: the   *)
(* open environment of Discovery is replaced by NodeAgent.  A heartbeat is *)
(* handled when the network delivers it, a registration when the agent     *)
(* sends it, and a probe is answered by what listens on the probed         *)
(* address.                                                                *)
(***************************************************************************)
EXTENDS Discovery

CONSTANTS
  PowerFails, Moves,   \* the parameters of NodeAgent
  Lossy                \* may the network lose a heartbeat?

\* The messages Discovery is open to include those the agents send.
ASSUME EnvironmentAssumption == Rpc = BOOLEAN /\ TRUE \in Hardware

VARIABLES power, address, agent, announces, child, orphan, wire

Agents == INSTANCE NodeAgent

agentVars == <<power, address, agent, announces, child, orphan, wire>>
clusterVars == <<vars, agentVars>>

ClusterInit == Init /\ Agents!AgentInit

\* What a connection attempt to the probed endpoint meets.  A full backlog or
\* a slow host lets it time out; an address no host has never answers.
NetworkAnswers(a, rpc) ==
  LET up == {n \in NodeId : power[n] /\ address[n] = a}
  IN  IF up = {} THEN {"busy"}
      ELSE IF \E n \in up : IF rpc THEN Agents!RpcListens(n) ELSE Agents!GrpcListens(n)
        THEN {"open", "busy"}
        ELSE {"refused"}

-----------------------------------------------------------------------------
(* Steps of both sides.                                                    *)

Deliver(m) ==
  /\ Agents!Take(m)
  /\ HandleDiscovery(m.node, m.addr, m.rpc)

\* Nobody listens on the UDP port, or the network drops the message.
Lose(m) ==
  /\ Lossy \/ udp # "bound"
  /\ Agents!Take(m)
  /\ UNCHANGED vars

\* The registration carries the hardware summary the agent collected.
Register(n) ==
  /\ Agents!Registered(n)
  /\ RegisterNode(n, address[n], announces[n], TRUE)

AnswerFromNetwork ==
  /\ probe # NoProbe
  /\ \E answer \in NetworkAnswers(probe.addr, probe.rpc) : AnswerProbe(answer)
  /\ UNCHANGED agentVars

(* Steps of one side.                                                      *)

Host(n) ==
  /\ Agents!LifeCycle(n)
  /\ UNCHANGED vars

Service == Start \/ Stop \/ PruneDeadNodes \/ Tick \/ StartRound \/ FinishProbe

Orchestrator ==
  /\ Service
  /\ UNCHANGED agentVars

ClusterNext ==
  \/ \E m \in wire : Deliver(m) \/ Lose(m)
  \/ \E n \in NodeId : Register(n) \/ Host(n)
  \/ AnswerFromNetwork
  \/ Orchestrator

ClusterSpec == ClusterInit /\ [][ClusterNext]_clusterVars

-----------------------------------------------------------------------------
(* Fairness: the orchestrator's tasks run; an agent past its start goes on  *)
(* to serve and broadcasts every 5 seconds, and a broadcast is heard in the *)
(* end.  Nothing is assumed of failures, operators, getters and the clock.  *)

MonitorStep(A) == A /\ UNCHANGED agentVars

ClusterFairness ==
  /\ WF_clusterVars(MonitorStep(Start))
  /\ WF_clusterVars(MonitorStep(StartRound))
  /\ WF_clusterVars(AnswerFromNetwork)
  /\ WF_clusterVars(MonitorStep(FinishProbe))
  /\ WF_clusterVars(\E m \in wire : Lose(m))
  /\ \A n \in NodeId :
       /\ WF_clusterVars(Agents!Broadcast(n) /\ UNCHANGED vars)
       /\ \A a \in Addr, r \in BOOLEAN :
            LET m == [node |-> n, addr |-> a, rpc |-> r]
            IN  SF_clusterVars(Deliver(m))

FairClusterSpec == ClusterSpec /\ ClusterFairness

\* In addition the clock advances and somebody polls the status of the cluster,
\* as the dashboard does every 3 seconds.
PolledClusterSpec ==
  /\ FairClusterSpec
  /\ WF_clusterVars(MonitorStep(Tick))
  /\ WF_clusterVars(MonitorStep(PruneDeadNodes))

-----------------------------------------------------------------------------
(* Properties.                                                             *)

\* Whatever starts, signals, crashes and power failures come between, the host of
\* an agent is left as its life says (main.rs, rpc.rs): no rpc-server child without
\* its agent, no second rpc-server on the port, nothing on a host without power.
HostConsistent == Agents!HostConsistent

\* The monitor listens to heartbeats and its service is up.
Attentive == running /\ udp = "bound"

\* On this host nothing of ArcFlare is left, but the host is up.
Down(n) == power[n] /\ agent[n] = "off" /\ ~orphan[n]

\* A node whose process has crashed or stopped for good leaves the registry and
\* stays out of it, late heartbeats and registrations notwithstanding, if its host
\* keeps its address (~Moves): "drop nodes whose port is actively closed"
\* (check_all_nodes), without any getter.
CrashedNodeLeaves ==
  \A n \in NodeId : <>[](running /\ Down(n)) => <>[](n \notin Listed)

\* What the node announces can be connected to.
Reachable(n) ==
  /\ agent[n] = "serve"
  /\ IF announces[n] THEN Agents!RpcListens(n) ELSE Agents!GrpcListens(n)

\* The agent sends its heartbeats, but the rpc-server it announces is gone: the child
\* has exited, or never came up beside an orphan that has gone since.
RpcGone(n) == power[n] /\ agent[n] = "serve" /\ announces[n] /\ ~Agents!RpcListens(n)

\* Heartbeats tell the monitor which port to probe, and no more: they neither keep a node
\* listed whose rpc-server is gone nor wear off its failures, so that it is dropped again
\* and again, though the next heartbeat lists it anew.  Without them (~Attentive) an
\* entry may go on being probed at the gRPC port of an earlier run of the agent, which
\* answers (_handle_discovery, check_all_nodes).
ClosedNodeDropped ==
  \A n \in NodeId : <>[](Attentive /\ RpcGone(n)) => []<>(n \notin Listed)

\* A serving node is listed again and again, whatever removed it: a stale
\* answer, a prune, a restart of the agent (_handle_discovery).
ServingNodeListed ==
  \A n \in NodeId : <>[](Attentive /\ Reachable(n)) => []<>(n \in Listed)

\* Once a node stays reachable the monitor stops dropping it: answers from
\* before, objects held from before and heartbeats from before wear off, and a
\* busy node is not taken for a dead one (_probe, check_all_nodes).
ReachableNodeKept ==
  \A n \in NodeId :
    <>[](Attentive /\ Reachable(n)) => <>[][~MonitorDrops(n)]_clusterVars

-----------------------------------------------------------------------------
(* What the documentation says and the code does not do.                   *)

\* "When a node disappears" it leaves the cluster (README.md:275): a host that
\* has lost its power for good is dropped in the end.
PoweredOffNodeLeaves ==
  \A n \in NodeId : <>[](running /\ ~power[n]) => <>[](n \notin Listed)
=============================================================================
