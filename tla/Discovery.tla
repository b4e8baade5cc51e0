----------------------------- MODULE Discovery -----------------------------
(***************************************************************************)
(* The orchestrator's node registry and its health monitor:                *)
(* DiscoveryService of orchestrator/src/arcflare/cluster/discovery.py and  *)
(* the handlers of api/management.py that write to it.                     *)
(*                                                                         *)
(* The service runs on one asyncio loop, so a handler is atomic up to its  *)
(* next await.  The only await between two uses of the registry is the     *)
(* probe of check_all_nodes: UDP messages, registrations and prunes run    *)
(* while it is pending, and the round goes on with the NodeInfo objects of *)
(* the snapshot it took, which may have left the registry meanwhile.       *)
(*                                                                         *)
(* The environment is open: any message, registration and probe answer may *)
(* come at any time.  Cluster.tla composes this module with the agents.    *)
(***************************************************************************)
EXTENDS Integers, FiniteSets

CONSTANTS
  NodeId,                 \* identifiers agents announce themselves with
  Addr,                   \* addresses messages and registrations come from
  Rpc,                    \* announced rpc_port: TRUE = a port, FALSE = 0
  Hardware,               \* does a registration carry a hardware summary?
  HEALTH_FAIL_THRESHOLD,  \* failed probes in a row before a node is dropped
  HEARTBEAT_TIMEOUT,      \* ticks of silence before a node may be pruned
  Absent,                 \* no registry entry; no detached object
  NoProbe                 \* the monitor awaits no probe

ASSUME ThresholdAssumption == HEALTH_FAIL_THRESHOLD \in Nat \ {0}
ASSUME TimeoutAssumption == HEARTBEAT_TIMEOUT \in Nat
ASSUME FlagsAssumption == Rpc \subseteq BOOLEAN /\ Hardware \subseteq BOOLEAN

Answer == {"open", "refused", "busy"}   \* _probe: True, False, None
Ages == 0 .. HEARTBEAT_TIMEOUT + 1      \* ticks since last_seen, saturating

\* Equal ages above the timeout are all alike to the pruner.
NodeInfo == [addr : Addr, rpc : BOOLEAN, hardware : BOOLEAN,
             failures : 0 .. HEALTH_FAIL_THRESHOLD,
             status : {"alive", "degraded"}, age : Ages]

\* What the monitor still uses of an object that left the registry.
Object == [addr : Addr, rpc : BOOLEAN, failures : 0 .. HEALTH_FAIL_THRESHOLD]

\* The probe awaited: the node, the endpoint read before the await, and the
\* answer once the connection attempt has been decided ("none" before).
Probe == [node : NodeId, addr : Addr, rpc : BOOLEAN, answer : Answer \cup {"none"}]

ASSUME AbsentAssumption == Absent \notin NodeInfo /\ Absent \notin Object
ASSUME NoProbeAssumption == NoProbe \notin Probe

VARIABLES
  running,      \* DiscoveryService._running
  udp,          \* the UDP endpoint: "unbound", "bound", "failed", "closed"
  nodes,        \* the registry: node_id -> NodeInfo, or Absent
  before,       \* insertion order of the registry: pairs of identifiers
  todo,         \* entries of the round's snapshot still to be probed
  snapshot,     \* the snapshot's order
  probe,        \* the probe the round awaits, or NoProbe
  detached,     \* object the round holds that is no longer the entry, or Absent
  refused       \* history: refused checks of an identifier in a row (capped)

registry == <<nodes, before>>
round == <<todo, snapshot, probe>>
service == <<running, udp>>
vars == <<running, udp, nodes, before, todo, snapshot, probe, detached, refused>>

-----------------------------------------------------------------------------
Listed == {n \in NodeId : nodes[n] # Absent}

\* Identifiers of the snapshot objects the round has not finished with.
Held == todo \cup (IF probe = NoProbe THEN {} ELSE {probe.node})

ObjectOf(info) == [addr |-> info.addr, rpc |-> info.rpc, failures |-> info.failures]

\* The object the round's snapshot has for n.
HeldObject(n) == IF detached[n] = Absent THEN ObjectOf(nodes[n]) ELSE detached[n]

\* The entries of ids leave the registry: the round keeps the objects it holds.
Detach(ids) ==
  detached' = [n \in NodeId |-> IF n \in ids \cap Held \cap Listed /\ detached[n] = Absent
                                  THEN ObjectOf(nodes[n])
                                  ELSE detached[n]]

\* dict insertion and deletion, as far as iteration order is concerned.
Without(ids) == {p \in before : p[1] \notin ids /\ p[2] \notin ids}
InsertLast(n) == IF n \in Listed THEN before ELSE before \cup (Listed \X {n})

TypeOK ==
  /\ running \in BOOLEAN
  /\ udp \in {"unbound", "bound", "failed", "closed"}
  /\ nodes \in [NodeId -> NodeInfo \cup {Absent}]
  /\ before \subseteq NodeId \X NodeId
  /\ todo \subseteq NodeId
  /\ snapshot \subseteq NodeId \X NodeId
  /\ probe \in Probe \cup {NoProbe}
  /\ detached \in [NodeId -> Object \cup {Absent}]
  /\ refused \in [NodeId -> 0 .. HEALTH_FAIL_THRESHOLD]

Init ==
  /\ running = TRUE
  /\ udp = "unbound"
  /\ nodes = [n \in NodeId |-> Absent]
  /\ before = {}
  /\ todo = {}
  /\ snapshot = {}
  /\ probe = NoProbe
  /\ detached = [n \in NodeId |-> Absent]
  /\ refused = [n \in NodeId |-> 0]

-----------------------------------------------------------------------------
(* Life cycle of the service.                                              *)

\* The UDP port is bound, or taken: then agents must register over HTTP.
Start ==
  /\ udp = "unbound"
  /\ running' = TRUE
  /\ udp' \in {"bound", "failed"}
  /\ UNCHANGED <<registry, round, detached, refused>>

\* Shutdown; a round in progress is not interrupted.
Stop ==
  /\ running
  /\ udp # "unbound"
  /\ running' = FALSE
  /\ udp' = IF udp = "bound" THEN "closed" ELSE udp
  /\ UNCHANGED <<registry, round, detached, refused>>

-----------------------------------------------------------------------------
(* Messages and registrations.                                             *)

\* Faulty variant: heartbeats of nodes that are not listed are ignored.
HandleDiscoveryOfListed(n, a, r) ==
  /\ udp = "bound"
  /\ n \in Listed
  /\ nodes' = [nodes EXCEPT ![n] = [@ EXCEPT !.rpc = r, !.status = "alive", !.age = 0]]
  /\ UNCHANGED <<service, before, round, detached, refused>>

\* Faulty variant: a heartbeat clears the failures.
HandleDiscoveryForgives(n, a, r) ==
  /\ udp = "bound"
  /\ nodes' = [nodes EXCEPT ![n] =
       IF n \notin Listed
         THEN [addr |-> a, rpc |-> r, hardware |-> FALSE,
               failures |-> 0, status |-> "alive", age |-> 0]
         ELSE [@ EXCEPT !.rpc = r, !.status = "alive", !.age = 0, !.failures = 0]]
  /\ before' = InsertLast(n)
  /\ UNCHANGED <<service, round, detached, refused>>

\* A heartbeat adds an unknown node, without hardware; of a known one it
\* refreshes last_seen, status and rpc_port, and neither address nor failures.
HandleDiscovery(n, a, r) ==
  /\ udp = "bound"
  /\ nodes' = [nodes EXCEPT ![n] =
       IF n \notin Listed
         THEN [addr |-> a, rpc |-> r, hardware |-> FALSE,
               failures |-> 0, status |-> "alive", age |-> 0]
         ELSE [@ EXCEPT !.rpc = r, !.status = "alive", !.age = 0]]
  /\ before' = InsertLast(n)
  /\ UNCHANGED <<service, round, detached, refused>>

\* A registration puts a new NodeInfo in the registry, in the place of the old
\* one; only the hardware summary survives when the request carries none.
RegisterNode(n, a, r, h) ==
  /\ running
  /\ nodes' = [nodes EXCEPT ![n] =
       [addr |-> a, rpc |-> r,
        hardware |-> h \/ (n \in Listed /\ nodes[n].hardware),
        failures |-> 0, status |-> "alive", age |-> 0]]
  /\ before' = InsertLast(n)
  /\ Detach({n})
  /\ UNCHANGED <<service, round, refused>>

\* Every getter that lists nodes or endpoints first drops the silent ones.
PruneDeadNodes ==
  LET dead == {n \in Listed : nodes[n].age > HEARTBEAT_TIMEOUT}
  IN  /\ dead # {}
      /\ nodes' = [n \in NodeId |-> IF n \in dead THEN Absent ELSE nodes[n]]
      /\ before' = Without(dead)
      /\ Detach(dead)
      /\ UNCHANGED <<service, round, refused>>

Tick ==
  /\ nodes' = [n \in NodeId |->
       IF n \in Listed /\ nodes[n].age <= HEARTBEAT_TIMEOUT
         THEN [nodes[n] EXCEPT !.age = @ + 1]
         ELSE nodes[n]]
  /\ UNCHANGED <<service, before, round, detached, refused>>

-----------------------------------------------------------------------------
(* The health monitor.                                                     *)

Earliest(ids, order) == {n \in ids : \A m \in ids : <<m, n>> \notin order}

\* The loop reaches its next entry: read the endpoint of the held object and
\* start the probe.  Without one left, the round is over.
ProbeNext(rest, order) ==
  IF rest = {}
    THEN todo' = {} /\ snapshot' = {} /\ probe' = NoProbe
    ELSE \E n \in Earliest(rest, order) :
           LET o == HeldObject(n)
           IN  /\ todo' = rest \ {n}
               /\ snapshot' = order
               /\ probe' = [node |-> n, addr |-> o.addr, rpc |-> o.rpc, answer |-> "none"]

StartRound ==
  /\ running
  /\ probe = NoProbe
  /\ Listed # {}
  /\ ProbeNext(Listed, before)
  /\ UNCHANGED <<service, registry, detached, refused>>

\* The connection attempt is accepted, refused, or neither within 2 seconds.
AnswerProbe(answer) ==
  /\ probe # NoProbe
  /\ probe.answer = "none"
  /\ probe' = [probe EXCEPT !.answer = answer]
  /\ UNCHANGED <<service, registry, todo, snapshot, detached, refused>>

\* Faulty variant: a probe that times out counts as a refused one.
FinishedBusyAsRefused(n, answer) ==
  /\ probe # NoProbe
  /\ probe.node = n
  /\ answer = IF probe.answer = "busy" THEN "refused" ELSE probe.answer

Finished(n, answer) ==
  /\ probe # NoProbe
  /\ probe.node = n
  /\ probe.answer = answer

\* Faulty variant: the round works on copies of the entries.
UpdateHeldOnCopy(n, info) == nodes' = nodes

\* The held object of n has been updated; it is the entry unless detached.
UpdateHeld(n, info) ==
  nodes' = IF detached[n] = Absent THEN [nodes EXCEPT ![n] = info] ELSE nodes

Release(n) == detached' = [detached EXCEPT ![n] = Absent]

FinishOpen(n) ==
  /\ Finished(n, "open")
  /\ UpdateHeld(n, [nodes[n] EXCEPT !.failures = 0, !.age = 0, !.status = "alive"])
  /\ Release(n)
  /\ refused' = [refused EXCEPT ![n] = 0]
  /\ ProbeNext(todo, snapshot)
  /\ UNCHANGED <<service, before>>

\* Faulty variant: an inconclusive probe leaves the failure count as it is.
FinishBusyKeepsFailures(n) ==
  /\ Finished(n, "busy")
  /\ UpdateHeld(n, [nodes[n] EXCEPT !.age = 0])
  /\ Release(n)
  /\ refused' = [refused EXCEPT ![n] = 0]
  /\ ProbeNext(todo, snapshot)
  /\ UNCHANGED <<service, before>>

\* Inconclusive: assumed alive, but the status is left as it is.
FinishBusy(n) ==
  /\ Finished(n, "busy")
  /\ UpdateHeld(n, [nodes[n] EXCEPT !.failures = 0, !.age = 0])
  /\ Release(n)
  /\ refused' = [refused EXCEPT ![n] = 0]
  /\ ProbeNext(todo, snapshot)
  /\ UNCHANGED <<service, before>>

CountRefused(n) ==
  refused' = [refused EXCEPT ![n] = IF @ < HEALTH_FAIL_THRESHOLD THEN @ + 1 ELSE @]

\* Faulty variant: the threshold is compared with the failures before this one.
FinishRefusedLate(n) ==
  /\ Finished(n, "refused")
  /\ HeldObject(n).failures < HEALTH_FAIL_THRESHOLD
  /\ UpdateHeld(n, [nodes[n] EXCEPT !.failures = @ + 1, !.status = "degraded"])
  /\ Release(n)
  /\ CountRefused(n)
  /\ ProbeNext(todo, snapshot)
  /\ UNCHANGED <<service, before>>

\* Refused below the threshold: the held object counts one more failure.
FinishRefused(n) ==
  /\ Finished(n, "refused")
  /\ HeldObject(n).failures + 1 < HEALTH_FAIL_THRESHOLD
  /\ UpdateHeld(n, [nodes[n] EXCEPT !.failures = @ + 1, !.status = "degraded"])
  /\ Release(n)
  /\ CountRefused(n)
  /\ ProbeNext(todo, snapshot)
  /\ UNCHANGED <<service, before>>

\* The held object reaches the threshold: the entry the registry now has under
\* its identifier is deleted, whether or not it is that object.
DropNode(n) ==
  /\ Finished(n, "refused")
  /\ HeldObject(n).failures + 1 >= HEALTH_FAIL_THRESHOLD
  /\ n \in Listed
  /\ nodes' = [nodes EXCEPT ![n] = Absent]
  /\ before' = Without({n})
  /\ Release(n)
  /\ CountRefused(n)
  /\ ProbeNext(todo, snapshot)
  /\ UNCHANGED service

\* Faulty variant: nothing catches the KeyError, and the monitor's task is over.
AbortRoundUncaught(n) ==
  /\ Finished(n, "refused")
  /\ HeldObject(n).failures + 1 >= HEALTH_FAIL_THRESHOLD
  /\ n \notin Listed
  /\ CountRefused(n)
  /\ UNCHANGED <<service, registry, round, detached>>

\* The same when the entry was pruned during the probe: the deletion raises
\* KeyError, health_loop catches it, and the rest of the round is lost.
AbortRound(n) ==
  /\ Finished(n, "refused")
  /\ HeldObject(n).failures + 1 >= HEALTH_FAIL_THRESHOLD
  /\ n \notin Listed
  /\ ProbeNext({}, {})
  /\ detached' = [m \in NodeId |-> Absent]
  /\ CountRefused(n)
  /\ UNCHANGED <<service, registry>>

FinishProbe == \E n \in NodeId :
  FinishOpen(n) \/ FinishBusy(n) \/ FinishRefused(n) \/ DropNode(n) \/ AbortRound(n)

Next ==
  \/ Start
  \/ Stop
  \/ \E n \in NodeId, a \in Addr, r \in Rpc : HandleDiscovery(n, a, r)
  \/ \E n \in NodeId, a \in Addr, r \in Rpc, h \in Hardware : RegisterNode(n, a, r, h)
  \/ PruneDeadNodes
  \/ Tick
  \/ StartRound
  \/ \E answer \in Answer : AnswerProbe(answer)
  \/ FinishProbe

Spec == Init /\ [][Next]_vars

\* The monitor's task keeps running: its sleep ends, a probe times out, and the
\* loop body is resumed.  Nothing is assumed of messages, getters or the clock.
MonitorFairness ==
  /\ WF_vars(StartRound)
  /\ WF_vars(\E answer \in Answer : AnswerProbe(answer))
  /\ WF_vars(FinishProbe)

FairSpec == Spec /\ MonitorFairness
-----------------------------------------------------------------------------
(* Properties.                                                             *)

Removed(n) == n \in Listed /\ nodes'[n] = Absent
MonitorDrops(n) == Removed(n) /\ probe # NoProbe /\ probe' # probe

\* An entry never stays listed with the failures that should have dropped it,
\* and neither does an object the round holds: each refused check is counted
\* against the threshold when it happens (check_all_nodes, line 126).
FailuresBelowThreshold ==
  /\ \A n \in Listed : nodes[n].failures < HEALTH_FAIL_THRESHOLD
  /\ \A n \in NodeId : detached[n] # Absent =>
       detached[n].failures < HEALTH_FAIL_THRESHOLD

\* An identifier leaves the registry only when its last HEALTH_FAIL_THRESHOLD
\* checks were all refused, or when its entry has been silent for longer than
\* HEARTBEAT_TIMEOUT: however messages, registrations and prunes interleave with
\* a round that works on replaced objects (check_all_nodes, _prune_dead_nodes).
LeavesOnlyWhenDownOrSilent ==
  [][\A n \in NodeId : Removed(n) =>
       \/ refused'[n] = HEALTH_FAIL_THRESHOLD
       \/ nodes[n].age > HEARTBEAT_TIMEOUT]_vars

\* While the monitor runs, every node that stays listed is probed again and
\* again: a round that a KeyError cuts short starves nobody (health_loop).
EveryNodeProbed ==
  \A n \in NodeId :
    (n \in Listed) ~> (n \notin Listed \/ ~running \/ (probe # NoProbe /\ probe.node = n))

-----------------------------------------------------------------------------
(* The inductive invariant.                                                *)

\* The round can resolve each object it still needs: it is the registry's
\* entry, or it was detached when the entry went.
HeldResolvable ==
  /\ probe = NoProbe => todo = {}
  /\ probe # NoProbe => probe.node \notin todo
  /\ \A n \in Held : detached[n] = Absent => n \in Listed

\* An object's failures are refused checks of its identifier, the last ones; an
\* entry that replaced a held object has none yet.
FailuresWereRefused ==
  \A n \in NodeId :
    /\ n \in Listed => nodes[n].failures <= refused[n]
    /\ detached[n] # Absent => detached[n].failures <= refused[n]
    /\ detached[n] # Absent /\ n \in Listed => nodes[n].failures = 0

\* Registry, round and history agree in every reachable state, which is what
\* the safety properties follow from (check_all_nodes with the handlers that
\* run during its await).
RegistryInv ==
  /\ TypeOK
  /\ HeldResolvable
  /\ FailuresBelowThreshold
  /\ FailuresWereRefused
=============================================================================
