---------------------------- MODULE HealthTiming ----------------------------
(***************************************************************************)
(* The clock of the health monitor against the clock of the pruner         *)
(* (orchestrator/src/arcflare/cluster/discovery.py), in seconds.           *)
(*                                                                         *)
(* The nodes were registered over HTTP and no UDP heartbeat reaches the    *)
(* orchestrator ("nodes must register manually"), so only the monitor      *)
(* refreshes last_seen.  All nodes are alive: a probe succeeds at once or, *)
(* with the backlog of the rpc-server taken, times out after a while.  The *)
(* monitor probes one node after the other and then sleeps; getters prune  *)
(* at any moment.                                                          *)
(***************************************************************************)
EXTENDS Integers

CONSTANTS
  MAX_NODES,          \* bound of the number of nodes
  PROBE_TIMEOUT,      \* timeout of a probe (2 in the code)
  HEALTH_INTERVAL,    \* sleep between two rounds (10)
  HEARTBEAT_TIMEOUT   \* silence after which a node is pruned (15)

ASSUME TimingAssumption ==
  /\ MAX_NODES \in Nat \ {0}
  /\ PROBE_TIMEOUT \in Nat
  /\ HEALTH_INTERVAL \in Nat
  /\ HEARTBEAT_TIMEOUT \in Nat

VARIABLES
  N,          \* number of nodes, 1 .. N in the registry's order; it never changes
  listed,     \* nodes in the registry
  age,        \* seconds since last_seen; equal above the timeout
  position,   \* the node being probed; N + 1 while the monitor sleeps
  timer       \* seconds since this probe or this sleep began

timingVars == <<N, listed, age, position, timer>>

Nodes == 1 .. N
Ages == 0 .. HEARTBEAT_TIMEOUT + 1
Asleep == position = N + 1

TimingTypeOK ==
  /\ N \in 1 .. MAX_NODES
  /\ listed \subseteq Nodes
  /\ age \in [Nodes -> Ages]
  /\ position \in 1 .. N + 1
  /\ timer \in Nat
  /\ timer <= IF Asleep THEN HEALTH_INTERVAL ELSE PROBE_TIMEOUT

\* All have just registered; the monitor is anywhere in its round.
TimingInit ==
  /\ N \in 1 .. MAX_NODES
  /\ listed = Nodes
  /\ age = [n \in Nodes |-> 0]
  /\ position \in 1 .. N + 1
  /\ timer = 0

\* A second passes, unless the probe's timeout or the sleep is over.
Second ==
  /\ timer < IF Asleep THEN HEALTH_INTERVAL ELSE PROBE_TIMEOUT
  /\ timer' = timer + 1
  /\ age' = [n \in Nodes |-> IF age[n] <= HEARTBEAT_TIMEOUT THEN age[n] + 1 ELSE age[n]]
  /\ UNCHANGED <<N, listed, position>>

\* True, or None after the timeout: last_seen is now, and the next one's turn.
ProbeEnds ==
  /\ position \in listed
  /\ age' = [age EXCEPT ![position] = 0]
  /\ position' = position + 1
  /\ timer' = 0
  /\ UNCHANGED <<N, listed>>

\* Faulty variant: a registry that has changed makes the round start again.
SkipPrunedRestarts ==
  /\ ~Asleep
  /\ position \notin listed
  /\ position' = IF listed = {} THEN position + 1
                 ELSE CHOOSE p \in listed : \A q \in listed : p <= q
  /\ timer' = 0
  /\ UNCHANGED <<N, listed, age>>

\* A node that was pruned before the round began is not in its snapshot and costs no
\* time; one that is pruned during the round is still probed, which may take as long as
\* any probe (Second), but its entry is gone.
SkipPruned ==
  /\ ~Asleep
  /\ position \notin listed
  /\ position' = position + 1
  /\ timer' = 0
  /\ UNCHANGED <<N, listed, age>>

WakeUp ==
  /\ Asleep
  /\ timer = HEALTH_INTERVAL
  /\ position' = 1
  /\ timer' = 0
  /\ UNCHANGED <<N, listed, age>>

Prune ==
  /\ \E n \in listed : age[n] > HEARTBEAT_TIMEOUT
  /\ listed' = {n \in listed : age[n] <= HEARTBEAT_TIMEOUT}
  /\ UNCHANGED <<N, age, position, timer>>

TimingNext == Second \/ ProbeEnds \/ SkipPruned \/ WakeUp \/ Prune

TimingSpec == TimingInit /\ [][TimingNext]_timingVars

-----------------------------------------------------------------------------
(* Properties.                                                             *)

\* A node probed in this round is as old as the probes since; one still to be
\* probed as the rest of the last round, the sleep, and this round so far.
AgeBound(n) ==
  IF n < position
    THEN (position - 1 - n) * PROBE_TIMEOUT + timer
    ELSE (N - n) * PROBE_TIMEOUT + HEALTH_INTERVAL + (position - 1) * PROBE_TIMEOUT + timer

\* However many nodes there are, and whichever are pruned on the way, no probe
\* waits for more than the probes before it and one sleep (check_all_nodes and
\* health_loop are sequential): a listed node's silence has that bound.
AgesBounded == \A n \in listed : age[n] <= AgeBound(n)

\* The heartbeat timeout covers a round of probes that all time out, and the
\* sleep after it.
RoundFits == HEALTH_INTERVAL + N * PROBE_TIMEOUT <= HEARTBEAT_TIMEOUT

\* "A busy-but-alive node (its probe times out while serving) is kept"
\* (README.md:274): with as many nodes as RoundFits allows for no getter ever prunes
\* one.  With more of them the pruner removes live nodes.
BusyNodeKept == RoundFits => listed = Nodes

\* The inductive invariant: what the clocks allow for, and what follows for the
\* registry (check_all_nodes, health_loop, _prune_dead_nodes).
TimingInv == TimingTypeOK /\ AgesBounded /\ BusyNodeKept
=============================================================================
