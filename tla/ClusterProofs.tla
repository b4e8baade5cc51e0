--------------------------- MODULE ClusterProofs ---------------------------
(***************************************************************************)
(* The registry and the agents it is about, for every set of nodes,        *)
(* addresses, threshold and timeout: RegistryInv is an inductive invariant *)
(* of the open Discovery, a node leaves the registry only when it is down  *)
(* or silent, and what the lives of its agents leave on a host is          *)
(* consistent.  The registry composed with the agents implements both, so  *)
(* that what is proved of either holds in the cluster.                     *)
(***************************************************************************)
EXTENDS Cluster, TLAPS

(***************************************************************************)
(* The helpers of the actions.                                             *)
(***************************************************************************)

\* ProbeNext leaves a well-typed round that holds nothing but entries of rest,
\* and does not have the node it probes among those still to be probed.
LEMMA ProbeNextRound ==
  ASSUME TypeOK, NEW rest \in SUBSET NodeId, NEW order \in SUBSET (NodeId \X NodeId),
         \A n \in rest : detached[n] = Absent => n \in Listed,
         ProbeNext(rest, order)
  PROVE  /\ todo' \subseteq NodeId
         /\ snapshot' \subseteq NodeId \X NodeId
         /\ probe' \in Probe \cup {NoProbe}
         /\ probe' = NoProbe => todo' = {}
         /\ probe' # NoProbe => probe'.node \notin todo'
         /\ Held' \subseteq rest
<1>1. CASE rest = {}
  BY <1>1 DEF ProbeNext, Held
<1>2. CASE rest # {}
  <2>1. PICK n \in Earliest(rest, order) :
          /\ todo' = rest \ {n}
          /\ snapshot' = order
          /\ probe' = [node |-> n, addr |-> HeldObject(n).addr,
                       rpc |-> HeldObject(n).rpc, answer |-> "none"]
    BY <1>2 DEF ProbeNext
  <2>2. n \in rest /\ n \in NodeId
    BY DEF Earliest
  <2>3. HeldObject(n).addr \in Addr /\ HeldObject(n).rpc \in BOOLEAN
    BY <2>2 DEF HeldObject, ObjectOf, TypeOK, Listed, Object, NodeInfo
  <2>4. probe' \in Probe
    BY <2>1, <2>2, <2>3 DEF Probe
  <2>5. probe'.node = n /\ probe' # NoProbe
    BY <2>1, <2>4, NoProbeAssumption
  <2> QED
    BY <2>1, <2>2, <2>4, <2>5 DEF Held
<1> QED
  BY <1>1, <1>2

\* Detaching keeps the types, and gives each held entry of ids an object.
LEMMA DetachObjects ==
  ASSUME TypeOK, NEW ids \in SUBSET NodeId, Detach(ids)
  PROVE  /\ detached' \in [NodeId -> Object \cup {Absent}]
         /\ \A n \in NodeId : \/ /\ n \in ids \cap Held \cap Listed
                                 /\ detached[n] = Absent
                                 /\ detached'[n] = ObjectOf(nodes[n])
                                 /\ detached'[n] # Absent
                              \/ /\ n \notin ids \cap Held \cap Listed \/ detached[n] # Absent
                                 /\ detached'[n] = detached[n]
<1>1. \A n \in Listed : ObjectOf(nodes[n]) \in Object /\ ObjectOf(nodes[n]) # Absent
  <2> SUFFICES ASSUME NEW n \in Listed
               PROVE  ObjectOf(nodes[n]) \in Object
    BY AbsentAssumption
  <2>1. nodes[n] \in NodeInfo
    BY DEF Listed, TypeOK
  <2> QED
    BY <2>1 DEF ObjectOf, Object, NodeInfo
<1> QED
  BY <1>1 DEF Detach, TypeOK, Listed

\* A NodeInfo is an entry, never the mark of an absent one.
LEMMA EntryPresent == \A info \in NodeInfo : info # Absent
  BY AbsentAssumption

(***************************************************************************)
(* The initial state and the actions of the handlers.                      *)
(***************************************************************************)

LEMMA InitInv == Init => RegistryInv
  BY ThresholdAssumption
  DEF Init, RegistryInv, TypeOK, HeldResolvable, FailuresBelowThreshold, FailuresWereRefused,
      Held, Listed

\* Starting, stopping and answering a probe touch no entry and no object.
LEMMA ServiceInv ==
  ASSUME RegistryInv, Start \/ Stop \/ \E answer \in Answer : AnswerProbe(answer)
  PROVE  RegistryInv'
<1>1. CASE Start \/ Stop
  BY <1>1 DEF RegistryInv, TypeOK, HeldResolvable, FailuresBelowThreshold,
      FailuresWereRefused, Held, Listed, Start, Stop, registry, round
<1>2. CASE \E answer \in Answer : AnswerProbe(answer)
  <2>1. PICK answer \in Answer : AnswerProbe(answer)
    BY <1>2
  <2>2. probe \in Probe /\ probe' = [probe EXCEPT !.answer = answer]
    BY <2>1 DEF AnswerProbe, RegistryInv, TypeOK
  <2>3. probe' \in Probe /\ probe'.node = probe.node
    BY <2>2 DEF Probe
  <2>4. probe' # NoProbe /\ Held' = Held
    BY <2>1, <2>3, NoProbeAssumption DEF AnswerProbe, Held
  <2> QED
    BY <2>1, <2>3, <2>4 DEF RegistryInv, TypeOK, HeldResolvable, FailuresBelowThreshold,
       FailuresWereRefused, Listed, AnswerProbe, registry, service
<1> QED
  BY <1>1, <1>2

LEMMA HandleDiscoveryInv ==
  ASSUME RegistryInv, NEW n \in NodeId, NEW a \in Addr, NEW r \in Rpc, HandleDiscovery(n, a, r)
  PROVE  RegistryInv' /\ Listed \subseteq Listed'
<1> USE ThresholdAssumption, TimeoutAssumption, FlagsAssumption
<1> USE DEF RegistryInv
<1>1. nodes'[n] \in NodeInfo
  <2>1. CASE n \notin Listed
    BY <2>1 DEF HandleDiscovery, TypeOK, NodeInfo, Ages
  <2>2. CASE n \in Listed
    <3>1. nodes[n] \in NodeInfo /\ r \in BOOLEAN
      BY <2>2 DEF TypeOK, Listed
    <3>2. nodes'[n] = [nodes[n] EXCEPT !.rpc = r, !.status = "alive", !.age = 0]
      BY <2>2 DEF HandleDiscovery, TypeOK
    <3>3. 0 \in Ages
      BY DEF Ages
    <3> QED
      BY <3>1, <3>2, <3>3 DEF NodeInfo
  <2> QED
    BY <2>1, <2>2
<1>2. nodes' = [nodes EXCEPT ![n] = nodes'[n]]
  BY DEF HandleDiscovery, TypeOK
<1>3. nodes'[n].failures = IF n \in Listed THEN nodes[n].failures ELSE 0
  BY DEF HandleDiscovery, TypeOK, Listed, NodeInfo
<1>4. Listed' = Listed \cup {n}
  BY <1>1, <1>2, EntryPresent DEF Listed, TypeOK
<1>5. TypeOK'
  BY <1>1, <1>2 DEF HandleDiscovery, TypeOK, InsertLast, Listed, service, round
<1>6. HeldResolvable'
  BY <1>4 DEF HandleDiscovery, HeldResolvable, Held, round
<1>7. FailuresBelowThreshold'
  BY <1>2, <1>3, <1>4 DEF HandleDiscovery, FailuresBelowThreshold, TypeOK, Listed
<1>8. FailuresWereRefused'
  BY <1>2, <1>3, <1>4 DEF HandleDiscovery, FailuresWereRefused, TypeOK, Listed
<1> QED
  BY <1>4, <1>5, <1>6, <1>7, <1>8

\* The object a registration or a prune detaches keeps its failures.
LEMMA DetachInv ==
  ASSUME RegistryInv, NEW ids \in SUBSET NodeId, Detach(ids), UNCHANGED <<round, refused>>,
         \A m \in NodeId : m \notin ids => nodes'[m] = nodes[m],
         \A m \in NodeId : m \in ids /\ nodes'[m] # Absent => nodes'[m].failures = 0
  PROVE  HeldResolvable' /\ FailuresBelowThreshold' /\ FailuresWereRefused'
<1> USE ThresholdAssumption DEF RegistryInv
<1>1. \A m \in Listed : ObjectOf(nodes[m]).failures = nodes[m].failures
  BY DEF ObjectOf
<1>2. /\ \A m \in NodeId : \/ /\ m \in ids \cap Held \cap Listed
                              /\ detached[m] = Absent
                              /\ detached'[m] = ObjectOf(nodes[m])
                              /\ detached'[m] # Absent
                           \/ /\ m \notin ids \cap Held \cap Listed \/ detached[m] # Absent
                              /\ detached'[m] = detached[m]
  BY DetachObjects
<1>3. Held' = Held /\ Held \subseteq NodeId
  BY DEF Held, round, TypeOK, Probe
<1>4. HeldResolvable'
  BY <1>2, <1>3 DEF HeldResolvable, Listed, round
<1>5. FailuresBelowThreshold'
  BY <1>1, <1>2 DEF FailuresBelowThreshold, Listed
<1>6. FailuresWereRefused'
  <2> SUFFICES ASSUME NEW m \in NodeId
               PROVE  /\ m \in Listed' => nodes'[m].failures <= refused[m]
                      /\ detached'[m] # Absent => detached'[m].failures <= refused[m]
                      /\ detached'[m] # Absent /\ m \in Listed' => nodes'[m].failures = 0
    BY DEF FailuresWereRefused
  <2>1. refused[m] \in Nat
    BY DEF TypeOK
  <2>2. CASE m \in ids
    BY <1>1, <1>2, <2>1, <2>2 DEF FailuresWereRefused, Listed
  <2>3. CASE m \notin ids
    BY <1>1, <1>2, <2>1, <2>3 DEF FailuresWereRefused, Listed
  <2> QED
    BY <2>2, <2>3
<1> QED
  BY <1>4, <1>5, <1>6

LEMMA RegisterNodeInv ==
  ASSUME RegistryInv, NEW n \in NodeId, NEW a \in Addr, NEW r \in Rpc, NEW h \in Hardware,
         RegisterNode(n, a, r, h)
  PROVE  RegistryInv' /\ Listed \subseteq Listed'
<1> USE ThresholdAssumption, TimeoutAssumption, FlagsAssumption
<1> USE DEF RegistryInv
<1>1. (h \/ (n \in Listed /\ nodes[n].hardware)) \in BOOLEAN
  OBVIOUS
<1>2. nodes'[n] \in NodeInfo /\ nodes'[n].failures = 0
  BY <1>1 DEF RegisterNode, TypeOK, NodeInfo, Ages
<1>3. nodes' = [nodes EXCEPT ![n] = nodes'[n]]
  BY DEF RegisterNode, TypeOK
<1>4. HeldResolvable' /\ FailuresBelowThreshold' /\ FailuresWereRefused'
  <2>1. Detach({n}) /\ UNCHANGED <<round, refused>>
    BY DEF RegisterNode
  <2> QED
    BY <1>2, <1>3, <2>1, DetachInv DEF TypeOK
<1>5. TypeOK'
  BY <1>2, <1>3, DetachObjects DEF RegisterNode, TypeOK, InsertLast, Listed, service, round
<1>6. Listed \subseteq Listed'
  BY <1>2, <1>3, EntryPresent DEF Listed, TypeOK
<1> QED
  BY <1>4, <1>5, <1>6

LEMMA PruneInv == ASSUME RegistryInv, PruneDeadNodes PROVE RegistryInv'
<1> USE DEF RegistryInv
<1> DEFINE dead == {n \in Listed : nodes[n].age > HEARTBEAT_TIMEOUT}
<1>1. /\ nodes' = [n \in NodeId |-> IF n \in dead THEN Absent ELSE nodes[n]]
      /\ before' = Without(dead)
      /\ Detach(dead)
      /\ UNCHANGED <<service, round, refused>>
  BY DEF PruneDeadNodes
<1>2. dead \in SUBSET NodeId
  BY DEF Listed
<1> HIDE DEF dead
<1>3. HeldResolvable' /\ FailuresBelowThreshold' /\ FailuresWereRefused'
  BY <1>1, <1>2, DetachInv
<1>4. TypeOK'
  BY <1>1, <1>2, DetachObjects DEF TypeOK, Without, service, round
<1> QED
  BY <1>3, <1>4

LEMMA TickInv == ASSUME RegistryInv, Tick PROVE RegistryInv' /\ Listed \subseteq Listed'
<1> USE ThresholdAssumption, TimeoutAssumption
<1> USE DEF RegistryInv
<1>1. \A n \in NodeId :
        /\ n \in Listed => nodes'[n] \in NodeInfo /\ nodes'[n].failures = nodes[n].failures
        /\ n \notin Listed => nodes'[n] = Absent
  <2> SUFFICES ASSUME NEW n \in NodeId
               PROVE  /\ n \in Listed => nodes'[n] \in NodeInfo
                                          /\ nodes'[n].failures = nodes[n].failures
                      /\ n \notin Listed => nodes'[n] = Absent
    OBVIOUS
  <2>1. CASE n \in Listed
    BY <2>1 DEF Tick, TypeOK, Listed, NodeInfo, Ages
  <2>2. CASE n \notin Listed
    BY <2>2 DEF Tick, Listed
  <2> QED
    BY <2>1, <2>2
<1>2. Listed' = Listed
  BY <1>1, EntryPresent DEF Listed
<1>3. TypeOK'
  <2>1. nodes' \in [NodeId -> NodeInfo \cup {Absent}]
    BY <1>1 DEF Tick
  <2> QED
    BY <2>1 DEF Tick, TypeOK, service, round
<1>4. HeldResolvable'
  BY <1>2 DEF Tick, HeldResolvable, Held, round
<1>5. FailuresBelowThreshold'
  BY <1>1, <1>2 DEF Tick, FailuresBelowThreshold, Listed
<1>6. FailuresWereRefused'
  BY <1>1, <1>2 DEF Tick, FailuresWereRefused
<1> QED
  BY <1>2, <1>3, <1>4, <1>5, <1>6

(***************************************************************************)
(* The actions of the monitor.                                             *)
(***************************************************************************)

LEMMA StartRoundInv == ASSUME RegistryInv, StartRound PROVE RegistryInv'
<1> USE DEF RegistryInv
<1>1. /\ probe = NoProbe
      /\ ProbeNext(Listed, before)
      /\ UNCHANGED <<service, registry, detached, refused>>
  BY DEF StartRound
<1>2. Listed \in SUBSET NodeId /\ before \in SUBSET (NodeId \X NodeId)
  BY DEF Listed, TypeOK
<1>3. /\ todo' \subseteq NodeId
      /\ snapshot' \subseteq NodeId \X NodeId
      /\ probe' \in Probe \cup {NoProbe}
      /\ probe' = NoProbe => todo' = {}
      /\ probe' # NoProbe => probe'.node \notin todo'
      /\ Held' \subseteq Listed
  BY <1>1, <1>2, ProbeNextRound
<1>4. TypeOK'
  BY <1>1, <1>3 DEF TypeOK, service, registry
<1>5. HeldResolvable'
  BY <1>1, <1>3 DEF HeldResolvable, Listed, registry
<1>6. FailuresBelowThreshold' /\ FailuresWereRefused'
  BY <1>1 DEF FailuresBelowThreshold, FailuresWereRefused, Listed, registry
<1> QED
  BY <1>4, <1>5, <1>6

\* Going on to the next entry keeps the round in order: the entry of the
\* finished probe is the only one the step may have taken from the registry.
LEMMA GoOnInv ==
  ASSUME RegistryInv, NEW n \in NodeId, probe # NoProbe, probe.node = n,
         Release(n), ProbeNext(todo, snapshot),
         \A m \in NodeId : m # n => nodes'[m] = nodes[m]
  PROVE  /\ HeldResolvable'
         /\ todo' \subseteq NodeId /\ snapshot' \subseteq NodeId \X NodeId
         /\ probe' \in Probe \cup {NoProbe}
         /\ detached' \in [NodeId -> Object \cup {Absent}]
         /\ detached'[n] = Absent
         /\ \A m \in NodeId : m # n => detached'[m] = detached[m]
<1> USE DEF RegistryInv
<1>1. todo \in SUBSET NodeId /\ snapshot \in SUBSET (NodeId \X NodeId) /\ n \notin todo
  BY DEF TypeOK, HeldResolvable
<1>2. \A m \in todo : detached[m] = Absent => m \in Listed
  BY DEF HeldResolvable, Held
<1>3. /\ todo' \subseteq NodeId
      /\ snapshot' \subseteq NodeId \X NodeId
      /\ probe' \in Probe \cup {NoProbe}
      /\ probe' = NoProbe => todo' = {}
      /\ probe' # NoProbe => probe'.node \notin todo'
      /\ Held' \subseteq todo
  BY <1>1, <1>2, ProbeNextRound
<1>4. /\ detached' \in [NodeId -> Object \cup {Absent}]
      /\ detached'[n] = Absent
      /\ \A m \in NodeId : m # n => detached'[m] = detached[m]
  BY DEF Release, TypeOK
<1>5. HeldResolvable'
  BY <1>1, <1>2, <1>3, <1>4 DEF HeldResolvable, Listed
<1> QED
  BY <1>3, <1>4, <1>5

\* A conclusive or inconclusive answer clears the failures of the held object.
LEMMA FinishAliveInv ==
  ASSUME RegistryInv, NEW n \in NodeId, FinishOpen(n) \/ FinishBusy(n)
  PROVE  RegistryInv' /\ Listed \subseteq Listed'
<1> USE ThresholdAssumption, TimeoutAssumption
<1> USE DEF RegistryInv
<1>1. /\ probe # NoProbe /\ probe.node = n
      /\ Release(n) /\ ProbeNext(todo, snapshot)
      /\ refused' = [refused EXCEPT ![n] = 0]
      /\ UNCHANGED <<service, before>>
  BY DEF FinishOpen, FinishBusy, Finished
<1>2. n \in Held
  BY <1>1 DEF Held
<1>3. refused' \in [NodeId -> 0 .. HEALTH_FAIL_THRESHOLD]
  <2>1. 0 \in 0 .. HEALTH_FAIL_THRESHOLD
    OBVIOUS
  <2> QED
    BY <1>1, <2>1 DEF TypeOK
<1>4. CASE detached[n] = Absent
  <2>1. nodes[n] \in NodeInfo /\ n \in Listed
    BY <1>2, <1>4 DEF HeldResolvable, TypeOK, Listed
  <2>2. PICK info \in NodeInfo : info.failures = 0 /\ nodes' = [nodes EXCEPT ![n] = info]
    <3>1. CASE FinishOpen(n)
      <4> DEFINE i == [nodes[n] EXCEPT !.failures = 0, !.age = 0, !.status = "alive"]
      <4>1. 0 \in Ages /\ 0 \in 0 .. HEALTH_FAIL_THRESHOLD
        BY DEF Ages
      <4>2. i \in NodeInfo /\ i.failures = 0
        BY <2>1, <4>1 DEF NodeInfo
      <4> QED
        BY <3>1, <1>4, <4>2 DEF FinishOpen, UpdateHeld
    <3>2. CASE FinishBusy(n)
      <4> DEFINE i == [nodes[n] EXCEPT !.failures = 0, !.age = 0]
      <4>1. 0 \in Ages /\ 0 \in 0 .. HEALTH_FAIL_THRESHOLD
        BY DEF Ages
      <4>2. i \in NodeInfo /\ i.failures = 0
        BY <2>1, <4>1 DEF NodeInfo
      <4> QED
        BY <3>2, <1>4, <4>2 DEF FinishBusy, UpdateHeld
    <3> QED
      BY <3>1, <3>2
  <2>3. nodes'[n] = info /\ \A m \in NodeId : m # n => nodes'[m] = nodes[m]
    BY <2>2 DEF TypeOK
  <2>4. /\ HeldResolvable'
        /\ todo' \subseteq NodeId /\ snapshot' \subseteq NodeId \X NodeId
        /\ probe' \in Probe \cup {NoProbe}
        /\ detached' \in [NodeId -> Object \cup {Absent}]
        /\ detached'[n] = Absent
        /\ \A m \in NodeId : m # n => detached'[m] = detached[m]
    BY <1>1, <2>3, GoOnInv
  <2>5. TypeOK'
    BY <1>1, <1>3, <2>2, <2>4 DEF TypeOK, service
  <2>6. FailuresBelowThreshold'
    BY <2>2, <2>3, <2>4 DEF FailuresBelowThreshold, Listed
  <2>7. FailuresWereRefused'
    BY <1>1, <2>2, <2>3, <2>4 DEF FailuresWereRefused, Listed, TypeOK
  <2>8. Listed \subseteq Listed'
    BY <2>3, EntryPresent DEF Listed
  <2> QED
    BY <2>4, <2>5, <2>6, <2>7, <2>8
<1>5. CASE detached[n] # Absent
  <2>1. nodes' = nodes
    BY <1>5 DEF FinishOpen, FinishBusy, UpdateHeld
  <2>2. /\ HeldResolvable'
        /\ todo' \subseteq NodeId /\ snapshot' \subseteq NodeId \X NodeId
        /\ probe' \in Probe \cup {NoProbe}
        /\ detached' \in [NodeId -> Object \cup {Absent}]
        /\ detached'[n] = Absent
        /\ \A m \in NodeId : m # n => detached'[m] = detached[m]
    BY <1>1, <2>1, GoOnInv
  <2>3. TypeOK'
    BY <1>1, <1>3, <2>1, <2>2 DEF TypeOK, service
  <2>4. FailuresBelowThreshold'
    BY <2>1, <2>2 DEF FailuresBelowThreshold, Listed
  <2>5. FailuresWereRefused'
    BY <1>1, <1>5, <2>1, <2>2 DEF FailuresWereRefused, Listed, TypeOK
  <2>6. Listed \subseteq Listed'
    BY <2>1 DEF Listed
  <2> QED
    BY <2>2, <2>3, <2>4, <2>5, <2>6
<1> QED
  BY <1>4, <1>5

\* One more refused check is counted, up to the cap.
LEMMA CountRefusedUp ==
  ASSUME TypeOK, NEW n \in NodeId, CountRefused(n)
  PROVE  /\ refused' \in [NodeId -> 0 .. HEALTH_FAIL_THRESHOLD]
         /\ \A m \in NodeId : m # n => refused'[m] = refused[m]
         /\ refused'[n] >= refused[n]
         /\ refused'[n] = HEALTH_FAIL_THRESHOLD \/ refused'[n] = refused[n] + 1
<1>1. refused[n] \in 0 .. HEALTH_FAIL_THRESHOLD
  BY DEF TypeOK
<1>2. refused'[n] = IF refused[n] < HEALTH_FAIL_THRESHOLD THEN refused[n] + 1 ELSE refused[n]
  BY DEF CountRefused, TypeOK
<1>3. refused'[n] \in 0 .. HEALTH_FAIL_THRESHOLD
  BY <1>1, <1>2, ThresholdAssumption
<1>4. refused' = [refused EXCEPT ![n] = refused'[n]]
  BY DEF CountRefused, TypeOK
<1> QED
  BY <1>1, <1>2, <1>3, <1>4, ThresholdAssumption DEF TypeOK

LEMMA FinishRefusedInv ==
  ASSUME RegistryInv, NEW n \in NodeId, FinishRefused(n)
  PROVE  RegistryInv' /\ Listed \subseteq Listed'
<1> USE ThresholdAssumption
<1> USE DEF RegistryInv
<1>1. /\ probe # NoProbe /\ probe.node = n
      /\ HeldObject(n).failures + 1 < HEALTH_FAIL_THRESHOLD
      /\ Release(n) /\ ProbeNext(todo, snapshot)
      /\ CountRefused(n)
      /\ UNCHANGED <<service, before>>
  BY DEF FinishRefused, Finished
<1>2. n \in Held
  BY <1>1 DEF Held
<1>3. /\ refused' \in [NodeId -> 0 .. HEALTH_FAIL_THRESHOLD]
      /\ \A m \in NodeId : m # n => refused'[m] = refused[m]
      /\ refused'[n] >= refused[n]
      /\ refused'[n] = HEALTH_FAIL_THRESHOLD \/ refused'[n] = refused[n] + 1
  BY <1>1, CountRefusedUp
<1>4. refused[n] \in Nat /\ refused'[n] \in Nat
  BY <1>3 DEF TypeOK
<1>5. CASE detached[n] = Absent
  <2>1. nodes[n] \in NodeInfo /\ n \in Listed
    BY <1>2, <1>5 DEF HeldResolvable, TypeOK, Listed
  <2>2. nodes[n].failures \in Nat /\ nodes[n].failures + 1 < HEALTH_FAIL_THRESHOLD
    BY <1>1, <1>5, <2>1 DEF HeldObject, ObjectOf, NodeInfo
  <2> DEFINE info == [nodes[n] EXCEPT !.failures = @ + 1, !.status = "degraded"]
  <2>3. info.failures = nodes[n].failures + 1
    BY <2>1 DEF NodeInfo
  <2>4. info \in NodeInfo
    <3>1. nodes[n].failures + 1 \in 0 .. HEALTH_FAIL_THRESHOLD
      BY <2>2
    <3> QED
      BY <2>1, <3>1 DEF NodeInfo
  <2>5. nodes' = [nodes EXCEPT ![n] = info]
    BY <1>5 DEF FinishRefused, UpdateHeld
  <2> HIDE DEF info
  <2>6. nodes'[n] = info /\ \A m \in NodeId : m # n => nodes'[m] = nodes[m]
    BY <2>5 DEF TypeOK
  <2>7. /\ HeldResolvable'
        /\ todo' \subseteq NodeId /\ snapshot' \subseteq NodeId \X NodeId
        /\ probe' \in Probe \cup {NoProbe}
        /\ detached' \in [NodeId -> Object \cup {Absent}]
        /\ detached'[n] = Absent
        /\ \A m \in NodeId : m # n => detached'[m] = detached[m]
    BY <1>1, <2>6, GoOnInv
  <2>8. TypeOK'
    BY <1>1, <1>3, <2>4, <2>5, <2>7 DEF TypeOK, service
  <2>9. FailuresBelowThreshold'
    BY <2>2, <2>3, <2>6, <2>7 DEF FailuresBelowThreshold, Listed
  <2>10. nodes[n].failures <= refused[n]
    BY <2>1 DEF FailuresWereRefused
  <2>11. nodes'[n].failures <= refused'[n]
    BY <1>3, <1>4, <2>2, <2>3, <2>6, <2>10
  <2>12. FailuresWereRefused'
    BY <1>3, <2>6, <2>7, <2>11 DEF FailuresWereRefused, Listed
  <2>13. Listed \subseteq Listed'
    BY <2>4, <2>6, EntryPresent DEF Listed
  <2> QED
    BY <2>7, <2>8, <2>9, <2>12, <2>13
<1>6. CASE detached[n] # Absent
  <2>1. nodes' = nodes
    BY <1>6 DEF FinishRefused, UpdateHeld
  <2>2. /\ HeldResolvable'
        /\ todo' \subseteq NodeId /\ snapshot' \subseteq NodeId \X NodeId
        /\ probe' \in Probe \cup {NoProbe}
        /\ detached' \in [NodeId -> Object \cup {Absent}]
        /\ detached'[n] = Absent
        /\ \A m \in NodeId : m # n => detached'[m] = detached[m]
    BY <1>1, <2>1, GoOnInv
  <2>3. TypeOK'
    BY <1>1, <1>3, <2>1, <2>2 DEF TypeOK, service
  <2>4. FailuresBelowThreshold'
    BY <2>1, <2>2 DEF FailuresBelowThreshold, Listed
  <2>5. n \in Listed => nodes[n].failures <= refused'[n]
    BY <1>4, <1>6 DEF FailuresWereRefused
  <2>6. FailuresWereRefused'
    BY <1>3, <2>1, <2>2, <2>5 DEF FailuresWereRefused, Listed
  <2>7. Listed \subseteq Listed'
    BY <2>1 DEF Listed
  <2> QED
    BY <2>2, <2>3, <2>4, <2>6, <2>7
<1> QED
  BY <1>5, <1>6

\* Dropping an entry, or finding it gone, leaves no failures behind.
LEMMA DropOrAbortInv ==
  ASSUME RegistryInv, NEW n \in NodeId, DropNode(n) \/ AbortRound(n)
  PROVE  RegistryInv'
<1> USE ThresholdAssumption
<1> USE DEF RegistryInv
<1>1. /\ probe # NoProbe /\ probe.node = n /\ CountRefused(n) /\ UNCHANGED service
  BY DEF DropNode, AbortRound, Finished
<1>2. /\ refused' \in [NodeId -> 0 .. HEALTH_FAIL_THRESHOLD]
      /\ \A m \in NodeId : m # n => refused'[m] = refused[m]
      /\ refused'[n] >= refused[n]
  BY <1>1, CountRefusedUp
<1>3. refused[n] \in Nat /\ refused'[n] \in Nat
  BY <1>2 DEF TypeOK
<1>4. CASE DropNode(n)
  <2>1. /\ Release(n) /\ ProbeNext(todo, snapshot)
        /\ nodes' = [nodes EXCEPT ![n] = Absent] /\ before' = Without({n})
    BY <1>4 DEF DropNode
  <2>2. nodes'[n] = Absent /\ \A m \in NodeId : m # n => nodes'[m] = nodes[m]
    BY <2>1 DEF TypeOK
  <2>3. /\ HeldResolvable'
        /\ todo' \subseteq NodeId /\ snapshot' \subseteq NodeId \X NodeId
        /\ probe' \in Probe \cup {NoProbe}
        /\ detached' \in [NodeId -> Object \cup {Absent}]
        /\ detached'[n] = Absent
        /\ \A m \in NodeId : m # n => detached'[m] = detached[m]
    BY <1>1, <2>1, <2>2, GoOnInv
  <2>4. TypeOK'
    BY <1>1, <1>2, <2>1, <2>3 DEF TypeOK, Without, service
  <2>5. FailuresBelowThreshold' /\ FailuresWereRefused'
    BY <1>2, <2>2, <2>3 DEF FailuresBelowThreshold, FailuresWereRefused, Listed
  <2> QED
    BY <2>3, <2>4, <2>5
<1>5. CASE AbortRound(n)
  <2>1. /\ todo' = {} /\ snapshot' = {} /\ probe' = NoProbe
        /\ detached' = [m \in NodeId |-> Absent]
        /\ UNCHANGED <<service, registry>>
    BY <1>5 DEF AbortRound, ProbeNext
  <2>2. TypeOK'
    BY <1>2, <2>1 DEF TypeOK, service, registry
  <2>3. HeldResolvable'
    BY <2>1 DEF HeldResolvable, Held
  <2>4. nodes' = nodes /\ n \notin Listed
    BY <1>5, <2>1 DEF AbortRound, registry
  <2>5. FailuresBelowThreshold'
    BY <2>1, <2>4 DEF FailuresBelowThreshold, Listed
  <2>6. FailuresWereRefused'
    BY <1>2, <2>1, <2>4 DEF FailuresWereRefused, Listed
  <2> QED
    BY <2>2, <2>3, <2>5, <2>6
<1> QED
  BY <1>4, <1>5

(***************************************************************************)
(* The theorems.                                                           *)
(***************************************************************************)

LEMMA StepInv == RegistryInv /\ [Next]_vars => RegistryInv'
<1> SUFFICES ASSUME RegistryInv, [Next]_vars
             PROVE  RegistryInv'
  OBVIOUS
<1>1. CASE Start \/ Stop \/ \E answer \in Answer : AnswerProbe(answer)
  BY <1>1, ServiceInv
<1>2. CASE \E n \in NodeId, a \in Addr, r \in Rpc : HandleDiscovery(n, a, r)
  BY <1>2, HandleDiscoveryInv
<1>3. CASE \E n \in NodeId, a \in Addr, r \in Rpc, h \in Hardware : RegisterNode(n, a, r, h)
  BY <1>3, RegisterNodeInv
<1>4. CASE PruneDeadNodes
  BY <1>4, PruneInv
<1>5. CASE Tick
  BY <1>5, TickInv
<1>6. CASE StartRound
  BY <1>6, StartRoundInv
<1>7. CASE FinishProbe
  BY <1>7, FinishAliveInv, FinishRefusedInv, DropOrAbortInv DEF FinishProbe
<1>8. CASE UNCHANGED vars
  BY <1>8 DEF vars, RegistryInv, TypeOK, HeldResolvable, FailuresBelowThreshold,
              FailuresWereRefused, Held, Listed
<1> QED
  BY <1>1, <1>2, <1>3, <1>4, <1>5, <1>6, <1>7, <1>8 DEF Next

\* Registry, round and history agree in every reachable state: the round can
\* always resolve the objects it holds, no entry stays listed at the threshold,
\* and every failure counted is a refused check (check_all_nodes).
THEOREM RegistryCorrect == Spec => []RegistryInv
<1>1. Init => RegistryInv
  BY InitInv
<1>2. RegistryInv /\ [Next]_vars => RegistryInv'
  BY StepInv
<1> QED
  BY <1>1, <1>2, PTL DEF Spec

\* One step takes a node from the registry only when its last checks were all
\* refused, or its entry is silent for longer than the timeout.
LEMMA RemovalStep ==
  ASSUME RegistryInv, [Next]_vars, NEW n \in NodeId, Removed(n)
  PROVE  refused'[n] = HEALTH_FAIL_THRESHOLD \/ nodes[n].age > HEARTBEAT_TIMEOUT
<1> USE ThresholdAssumption
<1> USE DEF RegistryInv
<1>1. n \in Listed /\ nodes'[n] = Absent /\ nodes[n] \in NodeInfo
  BY DEF Removed, Listed, TypeOK
<1>2. CASE PruneDeadNodes
  <2> DEFINE dead == {m \in Listed : nodes[m].age > HEARTBEAT_TIMEOUT}
  <2>1. nodes' = [m \in NodeId |-> IF m \in dead THEN Absent ELSE nodes[m]]
    BY <1>2 DEF PruneDeadNodes
  <2>2. n \in dead
    BY <1>1, <2>1 DEF Listed
  <2> QED
    BY <2>2
<1>3. CASE \E m \in NodeId : DropNode(m)
  <2>1. PICK m \in NodeId : DropNode(m)
    BY <1>3
  <2>2. m = n
    BY <1>1, <2>1 DEF DropNode, TypeOK, Listed
  <2>3. /\ probe # NoProbe /\ probe.node = n /\ CountRefused(n)
        /\ HeldObject(n).failures + 1 >= HEALTH_FAIL_THRESHOLD
    BY <2>1, <2>2 DEF DropNode, Finished
  <2>4. HeldObject(n).failures \in Nat /\ HeldObject(n).failures <= refused[n]
    <3>1. CASE detached[n] = Absent
      BY <1>1, <3>1 DEF HeldObject, ObjectOf, FailuresWereRefused, NodeInfo
    <3>2. CASE detached[n] # Absent
      BY <3>2 DEF HeldObject, FailuresWereRefused, TypeOK, Object
    <3> QED
      BY <3>1, <3>2
  <2>5. refused[n] \in Nat /\ refused'[n] \in 0 .. HEALTH_FAIL_THRESHOLD
    BY <2>3, CountRefusedUp DEF TypeOK
  <2>6. refused'[n] = HEALTH_FAIL_THRESHOLD \/ refused'[n] = refused[n] + 1
    BY <2>3, CountRefusedUp
  <2> QED
    BY <2>3, <2>4, <2>5, <2>6
<1>4. CASE ~PruneDeadNodes /\ ~(\E m \in NodeId : DropNode(m))
  <2>1. CASE Listed \subseteq Listed'
    BY <1>1, <2>1 DEF Listed
  <2>2. CASE nodes' = nodes
    BY <1>1, <2>2 DEF Listed
  <2>3. CASE \E m \in NodeId, a \in Addr, r \in Rpc : HandleDiscovery(m, a, r)
    BY <2>1, <2>3, HandleDiscoveryInv
  <2>4. CASE \E m \in NodeId, a \in Addr, r \in Rpc, h \in Hardware : RegisterNode(m, a, r, h)
    BY <2>1, <2>4, RegisterNodeInv
  <2>5. CASE Tick
    BY <2>1, <2>5, TickInv
  <2>6. CASE \E m \in NodeId : FinishOpen(m) \/ FinishBusy(m)
    BY <2>1, <2>6, FinishAliveInv
  <2>7. CASE \E m \in NodeId : FinishRefused(m)
    BY <2>1, <2>7, FinishRefusedInv
  <2>8. CASE \/ Start \/ Stop \/ StartRound
             \/ \E answer \in Answer : AnswerProbe(answer)
             \/ \E m \in NodeId : AbortRound(m)
             \/ UNCHANGED vars
    BY <2>2, <2>8 DEF Start, Stop, StartRound, AnswerProbe, AbortRound, registry, vars
  <2> QED
    BY <1>4, <2>3, <2>4, <2>5, <2>6, <2>7, <2>8 DEF Next, FinishProbe
<1> QED
  BY <1>2, <1>3, <1>4

\* An identifier leaves the registry only when its last HEALTH_FAIL_THRESHOLD
\* checks were all refused or its entry was silent beyond HEARTBEAT_TIMEOUT,
\* whatever ran during the monitor's awaits.
THEOREM LeavesJustified == Spec => LeavesOnlyWhenDownOrSilent
<1>1. RegistryInv /\ [Next]_vars =>
        [\A n \in NodeId : Removed(n) =>
           \/ refused'[n] = HEALTH_FAIL_THRESHOLD
           \/ nodes[n].age > HEARTBEAT_TIMEOUT]_vars
  BY RemovalStep
<1> QED
  BY <1>1, RegistryCorrect, PTL DEF Spec, LeavesOnlyWhenDownOrSilent

-----------------------------------------------------------------------------
(* The cluster.                                                            *)

\* What the agents put on the wire, and would put in a registration, is among
\* the messages Discovery is open to.
SendersInv ==
  /\ address \in [NodeId -> Addr]
  /\ agent \in [NodeId -> {"off", "register", "registered", "serve"}]
  /\ announces \in [NodeId -> BOOLEAN]
  /\ \A n \in NodeId : agent[n] # "off" => announces[n] \in Rpc
  /\ wire \subseteq [node : NodeId, addr : Addr, rpc : Rpc]

LEMMA SendersInit == ClusterInit => SendersInv
  BY DEF ClusterInit, Agents!AgentInit, SendersInv

\* One step of a host's life cycle, or the end of its registration.
LEMMA SendersHost ==
  ASSUME SendersInv, NEW n \in NodeId, Agents!LifeCycle(n) \/ Agents!Registered(n)
  PROVE  SendersInv'
<1> USE EnvironmentAssumption DEF SendersInv
<1>1. CASE \E enable \in BOOLEAN : Agents!StartAgent(n, enable)
  BY <1>1 DEF Agents!StartAgent
<1>2. CASE Agents!Serve(n) \/ Agents!Registered(n)
  BY <1>2 DEF Agents!Serve, Agents!Registered
<1>3. CASE Agents!Broadcast(n)
  BY <1>3 DEF Agents!Broadcast, Agents!hosts
<1>4. CASE Agents!ChildExit(n) \/ Agents!OrphanExit(n)
  BY <1>4 DEF Agents!ChildExit, Agents!OrphanExit
<1>5. CASE Agents!Shutdown(n)
  BY <1>5 DEF Agents!Shutdown
<1>6. CASE Agents!Terminate(n) \/ Agents!Crash(n)
  BY <1>6 DEF Agents!Terminate, Agents!Crash, Agents!Vanish
<1>7. CASE Agents!PowerOff(n)
  BY <1>7 DEF Agents!PowerOff
<1>8. CASE Agents!PowerOn(n)
  BY <1>8 DEF Agents!PowerOn
<1> QED
  BY <1>1, <1>2, <1>3, <1>4, <1>5, <1>6, <1>7, <1>8 DEF Agents!LifeCycle

LEMMA SendersStep == SendersInv /\ [ClusterNext]_clusterVars => SendersInv'
<1> SUFFICES ASSUME SendersInv, [ClusterNext]_clusterVars
             PROVE  SendersInv'
  OBVIOUS
<1>1. CASE \E m \in wire : Deliver(m) \/ Lose(m)
  BY <1>1 DEF Deliver, Lose, Agents!Take, Agents!hosts, SendersInv
<1>2. CASE \E n \in NodeId : Register(n) \/ Host(n)
  BY <1>2, SendersHost DEF Register, Host
<1>3. CASE AnswerFromNetwork \/ Orchestrator \/ UNCHANGED clusterVars
  BY <1>3 DEF AnswerFromNetwork, Orchestrator, clusterVars, agentVars, SendersInv
<1> QED
  BY <1>1, <1>2, <1>3 DEF ClusterNext

\* Each step of the cluster is a step of Discovery or changes none of its
\* variables.
LEMMA ClusterStepIsRegistryStep ==
  ASSUME SendersInv, [ClusterNext]_clusterVars
  PROVE  [Next]_vars
<1>1. CASE \E m \in wire : Deliver(m)
  <2>1. PICK m \in wire : Deliver(m)
    BY <1>1
  <2>2. m.node \in NodeId /\ m.addr \in Addr /\ m.rpc \in Rpc
    BY <2>1 DEF SendersInv
  <2>3. HandleDiscovery(m.node, m.addr, m.rpc)
    BY <2>1 DEF Deliver
  <2> QED
    BY <2>2, <2>3 DEF Next
<1>2. CASE \E n \in NodeId : Register(n)
  <2>1. PICK n \in NodeId : Register(n)
    BY <1>2
  <2>2. agent[n] # "off" /\ RegisterNode(n, address[n], announces[n], TRUE)
    BY <2>1 DEF Register, Agents!Registered
  <2>3. address[n] \in Addr /\ announces[n] \in Rpc /\ TRUE \in Hardware
    BY <2>2, EnvironmentAssumption DEF SendersInv
  <2> QED
    BY <2>2, <2>3 DEF Next
<1>3. CASE AnswerFromNetwork
  <2>1. PICK answer \in NetworkAnswers(probe.addr, probe.rpc) : AnswerProbe(answer)
    BY <1>3 DEF AnswerFromNetwork
  <2>2. answer \in Answer
    BY <2>1 DEF NetworkAnswers, Answer
  <2> QED
    BY <2>1, <2>2 DEF Next
<1>4. CASE Orchestrator
  BY <1>4 DEF Orchestrator, Service, Next
<1>5. CASE \/ \E m \in wire : Lose(m)
           \/ \E n \in NodeId : Host(n)
           \/ UNCHANGED clusterVars
  BY <1>5 DEF Lose, Host, clusterVars
<1> QED
  BY <1>1, <1>2, <1>3, <1>4, <1>5 DEF ClusterNext

\* Agents, hosts and network do nothing to the registry that Discovery's open
\* environment does not allow for, by the way the composition is written: what is
\* proved of Discovery holds of the cluster.
LEMMA ClusterImplementsRegistry == ClusterSpec => Spec
<1>1. ClusterInit => Init /\ SendersInv
  BY SendersInit DEF ClusterInit
<1>2. SendersInv /\ [ClusterNext]_clusterVars => SendersInv' /\ [Next]_vars
  BY SendersStep, ClusterStepIsRegistryStep
<1> QED
  BY <1>1, <1>2, PTL DEF ClusterSpec, Spec

\* In the cluster, too, a node leaves the registry only when its last checks
\* were all refused or it has been silent beyond the timeout.
THEOREM ClusterLeavesJustified == ClusterSpec => LeavesOnlyWhenDownOrSilent
  BY ClusterImplementsRegistry, LeavesJustified

-----------------------------------------------------------------------------
(* The hosts.                                                              *)

LEMMA AgentInitInv == Agents!AgentInit => HostConsistent
  BY DEF Agents!AgentInit, HostConsistent, Agents!HostConsistent, Agents!AgentTypeOK,
         Agents!Message

\* Each step of one host or of the network keeps HostConsistent.
LEMMA AgentStepInv == HostConsistent /\ [Agents!AgentNext]_agentVars => HostConsistent'
<1> SUFFICES ASSUME HostConsistent, [Agents!AgentNext]_agentVars
             PROVE  HostConsistent'
  OBVIOUS
<1> USE DEF HostConsistent, Agents!HostConsistent, Agents!AgentTypeOK
<1>1. ASSUME NEW n \in NodeId, NEW enable \in BOOLEAN, Agents!StartAgent(n, enable)
      PROVE  HostConsistent'
  <2>1. PICK c \in IF ~enable THEN {"none"}
                   ELSE IF orphan[n] THEN {"none", "exited"} ELSE {"none", "running"} :
          child' = [child EXCEPT ![n] = c]
    BY <1>1 DEF Agents!StartAgent
  <2>2. enable \in BOOLEAN /\ c \in {"none", "running", "exited"}
    OBVIOUS
  <2>3. Agents!AgentTypeOK'
    BY <1>1, <2>1, <2>2 DEF Agents!StartAgent
  <2> QED
    BY <1>1, <2>1, <2>2, <2>3 DEF Agents!StartAgent
<1>2. ASSUME NEW n \in NodeId, Agents!Registered(n) \/ Agents!Serve(n) PROVE HostConsistent'
  BY <1>2 DEF Agents!Registered, Agents!Serve
<1>3. ASSUME NEW n \in NodeId, Agents!Broadcast(n) PROVE HostConsistent'
  BY <1>3 DEF Agents!Broadcast, Agents!hosts, Agents!Message
<1>4. ASSUME NEW n \in NodeId,
             Agents!ChildExit(n) \/ Agents!OrphanExit(n) \/ Agents!Shutdown(n)
      PROVE  HostConsistent'
  <2>1. CASE Agents!ChildExit(n)
    BY <2>1 DEF Agents!ChildExit
  <2>2. CASE Agents!OrphanExit(n)
    BY <2>2 DEF Agents!OrphanExit
  <2>3. CASE Agents!Shutdown(n)
    BY <2>3 DEF Agents!Shutdown
  <2> QED
    BY <1>4, <2>1, <2>2, <2>3
<1>5. ASSUME NEW n \in NodeId, Agents!Terminate(n) \/ Agents!Crash(n) PROVE HostConsistent'
  <2>1. Agents!Vanish(n) /\ agent[n] # "off" /\ UNCHANGED <<power, address, announces, wire>>
    BY <1>5 DEF Agents!Terminate, Agents!Crash
  <2>2. orphan' \in [NodeId -> BOOLEAN]
    BY <2>1 DEF Agents!Vanish
  <2> QED
    BY <2>1, <2>2 DEF Agents!Vanish
<1>6. ASSUME NEW n \in NodeId, Agents!PowerOff(n) PROVE HostConsistent'
  BY <1>6 DEF Agents!PowerOff
<1>7. ASSUME NEW n \in NodeId, Agents!PowerOn(n) PROVE HostConsistent'
  <2>1. PICK a \in Addr : address' = [address EXCEPT ![n] = a]
    BY <1>7 DEF Agents!PowerOn
  <2> QED
    BY <1>7, <2>1 DEF Agents!PowerOn
<1>8. ASSUME NEW m \in wire, Agents!Take(m) PROVE HostConsistent'
  BY <1>8 DEF Agents!Take, Agents!hosts
<1>9. CASE UNCHANGED agentVars
  BY <1>9 DEF agentVars
<1> QED
  BY <1>1, <1>2, <1>3, <1>4, <1>5, <1>6, <1>7, <1>8, <1>9
     DEF Agents!AgentNext, Agents!LifeCycle

\* Each step of the cluster is a step of the hosts or changes none of their
\* variables.
LEMMA ClusterStepIsHostStep ==
  ASSUME [ClusterNext]_clusterVars
  PROVE  [Agents!AgentNext]_agentVars
<1>1. CASE \E m \in wire : Deliver(m) \/ Lose(m)
  BY <1>1 DEF Deliver, Lose, Agents!AgentNext
<1>2. CASE \E n \in NodeId : Register(n) \/ Host(n)
  BY <1>2 DEF Register, Host, Agents!AgentNext
<1>3. CASE AnswerFromNetwork \/ Orchestrator \/ UNCHANGED clusterVars
  BY <1>3 DEF AnswerFromNetwork, Orchestrator, clusterVars
<1> QED
  BY <1>1, <1>2, <1>3 DEF ClusterNext

\* Whatever order starts, signals, crashes and power failures come in, a host
\* never has two rpc-servers on one port, nor a child without its agent; and
\* registry, network and registrations do nothing to a host that its agent's life
\* does not allow for.
THEOREM ClusterHostsConsistent == ClusterSpec => []HostConsistent
<1>1. ClusterInit => HostConsistent
  BY AgentInitInv DEF ClusterInit
<1>2. HostConsistent /\ [ClusterNext]_clusterVars => HostConsistent'
  BY AgentStepInv, ClusterStepIsHostStep
<1> QED
  BY <1>1, <1>2, PTL DEF ClusterSpec
=============================================================================
