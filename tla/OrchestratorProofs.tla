------------------------- MODULE OrchestratorProofs -------------------------
(***************************************************************************)
(* What is proved of two parts of the orchestrator that stand alone.  The  *)
(* clocks of monitor and pruner, for every number of nodes and all times:  *)
(* busy nodes are spared as long as a round of N probes and a sleep fit    *)
(* into the heartbeat timeout.  And the shared llama-server, for every set *)
(* of requests, configurations and processes: ServerInv is inductive, the  *)
(* manager implements ModelServer, a clean shutdown leaves no process, and *)
(* as long as no ensure() is interrupted, its True means what it says.     *)
(* The two share no variable, only this file.                              *)
(***************************************************************************)
EXTENDS HealthTiming, LlamaServer, TLAPS

-----------------------------------------------------------------------------
(* HealthTiming.                                                           *)

\* What the clocks allow for, with or without the pruner.
Clocks == TimingTypeOK /\ AgesBounded

LEMMA Products ==
  ASSUME NEW a \in Int, NEW b \in Int, NEW p \in Nat, a <= b
  PROVE  a * p <= b * p
<1>1. PICK d \in Nat : b = a + d
  <2>1. b - a \in Nat /\ b = a + (b - a)
    OBVIOUS
  <2> QED
    BY <2>1
<1>2. d * p \in Nat
  OBVIOUS
<1>3. b * p = a * p + d * p
  BY <1>1
<1>4. a * p \in Int
  OBVIOUS
<1> QED
  BY <1>2, <1>3, <1>4

\* While the clocks agree and a round fits no node is older than the timeout.
LEMMA NobodyExpires ==
  ASSUME RoundFits, Clocks
  PROVE  \A n \in listed : age[n] <= HEARTBEAT_TIMEOUT
<1> SUFFICES ASSUME NEW n \in listed
             PROVE  age[n] <= HEARTBEAT_TIMEOUT
  OBVIOUS
<1>0. N \in Nat \ {0}
  BY TimingAssumption DEF Clocks, TimingTypeOK
<1> USE TimingAssumption, <1>0
<1>1. /\ n \in Int /\ 1 <= n /\ n <= N /\ age[n] \in Int /\ age[n] <= AgeBound(n)
      /\ position \in Int /\ 1 <= position /\ position <= N + 1 /\ timer \in Nat
      /\ timer <= IF Asleep THEN HEALTH_INTERVAL ELSE PROBE_TIMEOUT
  BY DEF Clocks, AgesBounded, TimingTypeOK, Nodes, Ages
<1> DEFINE P == PROBE_TIMEOUT
<1>2. N * P \in Int /\ HEALTH_INTERVAL + N * P <= HEARTBEAT_TIMEOUT
  BY DEF RoundFits
<1>3. CASE n < position
  <2>1. (position - 1 - n) * P <= (N - 1) * P
    BY <1>1, <1>3, Products
  <2>2. (position - 1 - n) * P \in Int /\ (N - 1) * P \in Int /\ (N - 1) * P + P = N * P
    BY <1>1
  <2>3. age[n] <= (position - 1 - n) * P + timer
    BY <1>1, <1>3 DEF AgeBound
  <2>4. timer <= HEALTH_INTERVAL + P
    BY <1>1
  <2>5. CASE Asleep
    <3>1. (N - 1) * P <= N * P
      BY Products
    <3>2. timer <= HEALTH_INTERVAL
      BY <1>1, <2>5
    <3> QED
      BY <1>1, <1>2, <2>1, <2>2, <2>3, <3>1, <3>2
  <2>6. CASE ~Asleep
    <3>1. timer <= P
      BY <1>1, <2>6
    <3> QED
      BY <1>1, <1>2, <2>1, <2>2, <2>3, <3>1
  <2> QED
    BY <2>5, <2>6
<1>4. CASE ~(n < position)
  <2>1. timer <= P
    BY <1>1, <1>4 DEF Asleep
  <2>2. (N - n) * P + (position - 1) * P = (N - n + position - 1) * P
    BY <1>1
  <2>3. (N - n + position - 1) * P <= (N - 1) * P
    BY <1>1, <1>4, Products
  <2>4. /\ (N - n) * P \in Int /\ (position - 1) * P \in Int
        /\ (N - 1) * P \in Int /\ (N - 1) * P + P = N * P
    BY <1>1
  <2>5. age[n] <= (N - n) * P + HEALTH_INTERVAL + (position - 1) * P + timer
    BY <1>1, <1>4 DEF AgeBound
  <2> QED
    BY <1>1, <1>2, <2>1, <2>2, <2>3, <2>4, <2>5
<1> QED
  BY <1>3, <1>4

LEMMA ClocksInit == TimingInit => Clocks
<1> SUFFICES ASSUME TimingInit PROVE Clocks
  OBVIOUS
<1> USE TimingAssumption DEF TimingInit
<1>0. N \in Nat \ {0}
  OBVIOUS
<1> USE <1>0
<1>1. TimingTypeOK /\ listed = Nodes
  BY DEF TimingTypeOK, Ages, Asleep, Nodes
<1>2. ASSUME NEW n \in Nodes PROVE age[n] <= AgeBound(n)
  <2>1. /\ n \in Int /\ 1 <= n /\ n <= N
        /\ position \in Int /\ 1 <= position /\ timer = 0 /\ age[n] = 0
    BY <1>2 DEF Nodes
  <2>2. CASE n < position
    <3>1. (position - 1 - n) * PROBE_TIMEOUT \in Nat
      BY <2>1, <2>2
    <3> QED
      BY <2>1, <2>2, <3>1 DEF AgeBound
  <2>3. CASE ~(n < position)
    <3>1. (N - n) * PROBE_TIMEOUT \in Nat /\ (position - 1) * PROBE_TIMEOUT \in Nat
      BY <2>1
    <3> QED
      BY <2>1, <2>3, <3>1 DEF AgeBound
  <2> QED
    BY <2>2, <2>3
<1> QED
  BY <1>1, <1>2 DEF Clocks, AgesBounded

LEMMA ClocksStep == Clocks /\ [TimingNext]_timingVars => Clocks'
<1> SUFFICES ASSUME Clocks, [TimingNext]_timingVars
             PROVE  Clocks'
  OBVIOUS
<1>0. N' = N /\ N \in Nat \ {0} /\ N \in 1 .. MAX_NODES /\ Nodes' = Nodes
  <2>1. N' = N
    BY DEF TimingNext, Second, ProbeEnds, SkipPruned, WakeUp, Prune, timingVars
  <2> QED
    BY <2>1, TimingAssumption DEF Clocks, TimingTypeOK, Nodes
<1> USE TimingAssumption, <1>0
<1> DEFINE P == PROBE_TIMEOUT
<1>1. /\ listed \subseteq Nodes /\ age \in [Nodes -> Ages]
      /\ position \in Int /\ 1 <= position /\ position <= N + 1 /\ timer \in Nat
      /\ timer <= IF Asleep THEN HEALTH_INTERVAL ELSE P
      /\ \A n \in Nodes : n \in Int /\ 1 <= n /\ n <= N /\ age[n] \in Nat
      /\ \A n \in listed : n \in Nodes /\ age[n] <= AgeBound(n)
  BY DEF Clocks, AgesBounded, TimingTypeOK, Nodes, Ages
<1>2. CASE Second
  <2>1. \A n \in Nodes : age'[n] <= age[n] + 1 /\ age'[n] \in Ages
    BY <1>1, <1>2 DEF Second, Ages
  <2>2. TimingTypeOK'
    <3>1. age' \in [Nodes -> Ages]
      BY <1>2, <2>1 DEF Second
    <3> QED
      BY <1>1, <1>2, <3>1 DEF Second, TimingTypeOK, Asleep
  <2>3. ASSUME NEW n \in listed PROVE age'[n] <= AgeBound(n)'
    <3>1. AgeBound(n)' = AgeBound(n) + 1 /\ AgeBound(n) \in Int
      BY <1>1, <1>2 DEF Second, AgeBound
    <3>2. age'[n] \in Int
      BY <1>1, <2>1 DEF Ages
    <3> QED
      BY <1>1, <2>1, <3>1, <3>2
  <2> QED
    BY <1>2, <2>2, <2>3 DEF Second, Clocks, AgesBounded
<1>3. CASE ProbeEnds \/ SkipPruned
  <2>1. /\ position <= N /\ position' = position + 1 /\ timer' = 0 /\ timer <= P
        /\ listed' = listed /\ position \in Nodes
    BY <1>1, <1>3 DEF ProbeEnds, SkipPruned, Nodes, Asleep
  <2>2. /\ age' \in [Nodes -> Ages]
        /\ \A n \in Nodes : n # position => age'[n] = age[n]
        /\ position \in listed => age'[position] = 0
    <3>1. 0 \in Ages
      BY DEF Ages
    <3>2. CASE ProbeEnds
      BY <1>1, <2>1, <3>1, <3>2 DEF ProbeEnds
    <3>3. CASE SkipPruned
      BY <1>1, <3>3 DEF SkipPruned
    <3> QED
      BY <1>3, <3>2, <3>3
  <2>3. TimingTypeOK'
    BY <1>1, <2>1, <2>2 DEF TimingTypeOK, Asleep
  <2>4. ASSUME NEW n \in listed PROVE age'[n] <= AgeBound(n)'
    <3>1. CASE n = position
      BY <1>1, <2>1, <2>2, <3>1 DEF AgeBound
    <3>2. CASE n < position
      <4>1. AgeBound(n) = (position - 1 - n) * P + timer
        BY <3>2 DEF AgeBound
      <4>2. AgeBound(n)' = (position - n) * P
        BY <1>1, <2>1, <3>2 DEF AgeBound
      <4>3. (position - n) * P = (position - 1 - n) * P + P
        BY <1>1
      <4>4. (position - 1 - n) * P \in Int
        BY <1>1
      <4>5. age'[n] = age[n] /\ age[n] <= AgeBound(n)
        BY <1>1, <2>2, <3>2
      <4> QED
        BY <1>1, <2>1, <4>1, <4>2, <4>3, <4>4, <4>5
    <3>3. CASE position < n
      <4>1. AgeBound(n) = (N - n) * P + HEALTH_INTERVAL + (position - 1) * P + timer
        BY <1>1, <3>3 DEF AgeBound
      <4>2. AgeBound(n)' = (N - n) * P + HEALTH_INTERVAL + position * P
        BY <1>1, <2>1, <3>3 DEF AgeBound
      <4>3. position * P = (position - 1) * P + P
        BY <1>1
      <4>4. (N - n) * P \in Int /\ (position - 1) * P \in Int
        BY <1>1
      <4>5. age'[n] = age[n] /\ age[n] <= AgeBound(n)
        BY <1>1, <2>2, <3>3
      <4> QED
        BY <1>1, <2>1, <4>1, <4>2, <4>3, <4>4, <4>5
    <3> QED
      BY <1>1, <3>1, <3>2, <3>3
  <2> QED
    BY <2>1, <2>3, <2>4 DEF Clocks, AgesBounded
<1>4. CASE WakeUp
  <2>1. /\ position = N + 1 /\ timer = HEALTH_INTERVAL /\ position' = 1 /\ timer' = 0
        /\ age' = age /\ listed' = listed
    BY <1>4 DEF WakeUp, Asleep
  <2>2. TimingTypeOK'
    BY <1>1, <2>1 DEF TimingTypeOK, Asleep
  <2>3. ASSUME NEW n \in listed PROVE age'[n] <= AgeBound(n)'
    <3>1. AgeBound(n) = (N - n) * P + HEALTH_INTERVAL
      BY <1>1, <2>1 DEF AgeBound
    <3>2. AgeBound(n)' = (N - n) * P + HEALTH_INTERVAL
      BY <1>1, <2>1 DEF AgeBound
    <3> QED
      BY <1>1, <2>1, <3>1, <3>2
  <2> QED
    BY <2>1, <2>2, <2>3 DEF Clocks, AgesBounded
<1>5. CASE Prune
  BY <1>1, <1>5 DEF Prune, Clocks, AgesBounded, TimingTypeOK, AgeBound, Asleep
<1>6. CASE UNCHANGED timingVars
  BY <1>6 DEF timingVars, Clocks, AgesBounded, TimingTypeOK, AgeBound, Asleep
<1> QED
  BY <1>2, <1>3, <1>4, <1>5, <1>6 DEF TimingNext

LEMMA TimingInitInv == TimingInit => TimingInv
  BY ClocksInit DEF TimingInit, TimingInv, Clocks, BusyNodeKept

\* Only a prune takes a node off the list, and there is none to take.
LEMMA TimingStepInv == TimingInv /\ [TimingNext]_timingVars => TimingInv'
<1> SUFFICES ASSUME TimingInv, [TimingNext]_timingVars PROVE TimingInv'
  OBVIOUS
<1>1. Clocks /\ Clocks'
  BY ClocksStep DEF TimingInv, Clocks
<1>2. N' = N /\ (RoundFits' <=> RoundFits) /\ Nodes' = Nodes
  BY DEF TimingNext, Second, ProbeEnds, SkipPruned, WakeUp, Prune, timingVars, RoundFits, Nodes
<1>3. ASSUME RoundFits PROVE listed' = Nodes
  <2>1. listed = Nodes
    BY <1>3 DEF TimingInv, BusyNodeKept
  <2>2. CASE Prune
    <3>1. \A n \in listed : age[n] <= HEARTBEAT_TIMEOUT
      BY <1>1, <1>3, NobodyExpires
    <3> QED
      BY <2>1, <2>2, <3>1 DEF Prune
  <2>3. CASE ~Prune
    BY <2>1, <2>3 DEF TimingNext, Second, ProbeEnds, SkipPruned, WakeUp, timingVars
  <2> QED
    BY <2>2, <2>3
<1> QED
  BY <1>1, <1>2, <1>3 DEF TimingInv, Clocks, BusyNodeKept

\* The silence of a listed node is bounded by a round and a sleep, and nobody is pruned
\* if these fit into the timeout, for any number of nodes and all times.
THEOREM AgesCorrect == TimingSpec => []TimingInv
<1>1. TimingInit => TimingInv
  BY TimingInitInv
<1>2. TimingInv /\ [TimingNext]_timingVars => TimingInv'
  BY TimingStepInv
<1> QED
  BY <1>1, <1>2, PTL DEF TimingSpec

\* A busy node is never pruned if the interval and the timeouts of a round of N
\* probes fit into the heartbeat timeout: with 10, 2 and 15 seconds, two nodes.
THEOREM BusyKept == TimingSpec => []BusyNodeKept
<1>1. TimingInv => BusyNodeKept
  BY DEF TimingInv
<1> QED
  BY <1>1, AgesCorrect, PTL

-----------------------------------------------------------------------------
(* LlamaServer.                                                            *)

LEMMA InitInv == Init => ServerInv
  BY NullsAssumption DEF Init, ServerInv, TypeOK, Critical, Location, ProcessState

\* Of a request that waits for the lock: nobody holds it, it is up.
LEMMA EnsureInv ==
  ASSUME ServerInv, NEW r \in Request,
         Reuse(r) \/ StopOld(r) \/ NothingToStop(r)
  PROVE  ServerInv'
<1> USE NullsAssumption
<1> USE DEF ServerInv, TypeOK, Critical, Location, ProcessState
<1>1. holder = NoRequest /\ pc[r] = "waiting" /\ ahead' \subseteq Request \X Request
  BY DEF Reuse, StopOld, NothingToStop, Acquire, Waiting, NotAhead
<1>2. CASE Reuse(r)
  BY <1>1, <1>2 DEF Reuse, Go, manager, processes
<1>3. CASE StopOld(r)
  <2>1. proc \in Slot /\ proc' = proc /\ config' = config /\ holder' = r
    BY <1>3 DEF StopOld, ProcSeemsAlive, manager
  <2>2. /\ server' \in [Slot -> ProcessState]
        /\ \A s \in Slot : s # proc => server'[s] = server[s]
        /\ server'[proc] # "free"
    BY <1>3, <2>1 DEF StopOld, Signal
  <2> QED
    BY <1>1, <1>3, <2>1, <2>2 DEF StopOld, Go
<1>4. CASE NothingToStop(r)
  <2>1. /\ server' \in [Slot -> ProcessState]
        /\ \A s \in Slot : server'[s] = "free"
        /\ proc' = NoProc /\ config' = NoConfig /\ holder' = r
    BY <1>4 DEF NothingToStop, Forget, ProcSeemsAlive
  <2> QED
    BY <1>1, <1>4, <2>1 DEF NothingToStop, Go, Forget
<1> QED
  BY <1>2, <1>3, <1>4

\* Of the request that holds the lock.
LEMMA LockedInv ==
  ASSUME ServerInv, NEW r \in Request,
         \/ Stopped(r) \/ Spawn(r) \/ SpawnFails(r)
         \/ HealthOk(r) \/ Granted(r) \/ HealthDied(r) \/ HealthTimeout(r) \/ GaveUp(r)
  PROVE  ServerInv'
<1> USE NullsAssumption
<1> USE DEF ServerInv, TypeOK, Critical, Location, ProcessState
<1>1. holder = r /\ want[r] \in Config /\ service = "up"
  BY DEF Stopped, Spawn, SpawnFails, HealthOk, Granted, HealthDied, HealthTimeout, GaveUp
<1>2. CASE Stopped(r) \/ HealthDied(r) \/ GaveUp(r)
  <2>1. /\ server' \in [Slot -> ProcessState]
        /\ \A s \in Slot : server'[s] = "free"
        /\ proc' = NoProc /\ config' = NoConfig
    BY <1>2 DEF Stopped, HealthDied, GaveUp, Forget, ProcSeemsAlive
  <2>2. CASE Stopped(r)
    BY <1>1, <2>1, <2>2 DEF Stopped, Go, Forget, queue
  <2>3. CASE HealthDied(r) \/ GaveUp(r)
    BY <1>1, <2>1, <2>3 DEF HealthDied, GaveUp, Go, Leave, Forget
  <2> QED
    BY <1>2, <2>2, <2>3
<1>3. CASE Spawn(r)
  <2>1. PICK s \in Slot :
          /\ server[s] = "free"
          /\ server' = [server EXCEPT ![s] = "loading"]
          /\ serves' = [serves EXCEPT ![s] = want[r]]
          /\ proc' = s
    BY <1>3 DEF Spawn
  <2>2. proc = NoProc
    BY <1>3 DEF Spawn
  <2>3. /\ server' \in [Slot -> ProcessState]
        /\ \A t \in Slot : t # s => server'[t] = "free"
        /\ server'[s] = "loading" /\ serves'[s] = want[r]
    BY <2>1, <2>2
  <2> QED
    BY <1>1, <1>3, <2>1, <2>2, <2>3 DEF Spawn, Go, queue
<1>4. CASE SpawnFails(r)
  BY <1>1, <1>4 DEF SpawnFails, Leave, Go, manager, processes
<1>5. CASE HealthOk(r)
  <2>1. server[proc] = "healthy"
    BY <1>5 DEF HealthOk
  <2> QED
    BY <1>1, <1>5, <2>1 DEF HealthOk, Go, queue, manager, processes
<1>6. CASE HealthTimeout(r)
  <2>1. proc \in Slot /\ proc' = proc /\ config' = config
    BY <1>6 DEF HealthTimeout, ProcSeemsAlive, manager
  <2>2. /\ server' \in [Slot -> ProcessState]
        /\ \A s \in Slot : s # proc => server'[s] = server[s]
        /\ server'[proc] # "free"
    BY <1>6, <2>1 DEF HealthTimeout, Signal
  <2> QED
    BY <1>1, <1>6, <2>1, <2>2 DEF HealthTimeout, Go, queue
<1>7. CASE Granted(r)
  <2>1. server[proc] \in {"healthy", "zombie", "reaped"}
    BY <1>7 DEF Granted
  <2> QED
    BY <1>1, <1>7, <2>1 DEF Granted, Leave, Go, manager, processes
<1> QED
  BY <1>2, <1>3, <1>4, <1>5, <1>6, <1>7

\* Of requests outside of the lock, and of clients that go away.
LEMMA UnlockedInv ==
  ASSUME ServerInv, NEW r \in Request,
         \/ Connect(r) \/ StreamEnds(r) \/ StreamBreaks(r) \/ Fallback(r)
         \/ Cancel(r) \/ \E c \in Config : Arrive(r, c)
  PROVE  ServerInv'
<1> USE NullsAssumption
<1> USE DEF ServerInv, TypeOK, Critical, Location, ProcessState
<1>1. CASE \E c \in Config : Arrive(r, c)
  <2>1. PICK c \in Config : Arrive(r, c)
    BY <1>1
  <2>2. ahead' \subseteq Request \X Request
    BY <2>1 DEF Arrive, Waiting
  <2> QED
    BY <2>1, <2>2 DEF Arrive, Go, manager, processes
<1>2. CASE Connect(r)
  <2>1. source' \in [Request -> Slot \cup {NoProc}] /\ pc'[r] \in {"streaming", "failed"}
    BY <1>2 DEF Connect, Go
  <2>2. pc' = [pc EXCEPT ![r] = pc'[r]]
    BY <1>2 DEF Connect, Go
  <2> QED
    BY <1>2, <2>1, <2>2 DEF Connect, queue, manager, processes
<1>3. CASE StreamEnds(r) \/ Fallback(r)
  BY <1>3 DEF StreamEnds, Fallback, End, Go, queue, manager, processes
<1>4. CASE StreamBreaks(r)
  BY <1>4 DEF StreamBreaks, Go, queue, manager, processes
<1>5. CASE Cancel(r)
  <2>1. /\ ahead' \subseteq Request \X Request
        /\ holder' = IF holder = r THEN NoRequest ELSE holder
        /\ interrupted' = (interrupted \/ holder = r)
    BY <1>5 DEF Cancel, NotAhead
  <2>2. \A q \in Request : q # r => pc'[q] = pc[q] /\ want'[q] = want[q]
    BY <1>5 DEF Cancel, End, Go
  <2>3. pc'[r] = "idle" /\ UNCHANGED <<proc, config, server, serves, service>>
    BY <1>5 DEF Cancel, End, Go, manager, processes
  <2>4. TypeOK'
    BY <1>5, <2>1 DEF Cancel, End, Go, manager, processes
  <2>5. \A q \in Request : pc'[q] \in Critical <=> holder' = q
    BY <2>1, <2>2, <2>3
  <2>6. \A q \in Request : q # r =>
          /\ pc'[q] = "spawning" => proc = NoProc
          /\ pc'[q] \in {"health", "answered", "stopping", "giving_up"} => proc # NoProc
          /\ pc'[q] \in {"health", "answered"} => config = want'[q]
          /\ pc'[q] = "answered" => server[proc] \in {"healthy", "zombie", "reaped"}
          /\ pc'[q] # "idle" => want'[q] \in Config /\ service = "up"
    BY <2>2
  <2>7. ~interrupted' /\ holder' = NoRequest => ~interrupted /\ holder = NoRequest
    BY <2>1
  <2> QED
    BY <2>3, <2>4, <2>5, <2>6, <2>7
<1> QED
  BY <1>1, <1>2, <1>3, <1>4, <1>5

\* Of the processes and of the shutdown.
LEMMA ProcessInv ==
  ASSUME ServerInv, (\E s \in Slot : Process(s)) \/ Shutdown \/ ShutdownDone
  PROVE  ServerInv'
<1> USE NullsAssumption
<1> USE DEF ServerInv, TypeOK, Critical, Location, ProcessState
<1>1. CASE \E s \in Slot : Process(s)
  <2>1. PICK s \in Slot : Process(s)
    BY <1>1
  <2>2. /\ UNCHANGED <<pc, want, ahead, holder, proc, config, serves, source, service, interrupted>>
        /\ s = proc
        /\ server'[s] \in {"healthy", "zombie", "reaped"}
        /\ server' = [server EXCEPT ![s] = server'[s]]
    BY <2>1 DEF Process, Loaded, Crash, Dies, Reap, queue, manager
  <2> QED
    BY <2>2
<1>2. CASE Shutdown
  <2>1. /\ server' \in [Slot -> ProcessState]
        /\ \A s \in Slot : s # proc => server'[s] = "free"
        /\ proc # NoProc => server'[proc] # "free"
    BY <1>2 DEF Shutdown, Signal, ProcSeemsAlive
  <2> QED
    BY <1>2, <2>1 DEF Shutdown, queue, manager
<1>3. CASE ShutdownDone
  <2>1. /\ server' \in [Slot -> ProcessState]
        /\ \A s \in Slot : server'[s] = "free"
        /\ proc' = NoProc /\ config' = NoConfig
    BY <1>3 DEF ShutdownDone, Forget, ProcSeemsAlive
  <2>2. \A r \in Request : pc[r] = "idle"
    BY <1>3 DEF ShutdownDone
  <2> QED
    BY <1>3, <2>1, <2>2 DEF ShutdownDone, Forget, queue
<1> QED
  BY <1>1, <1>2, <1>3

LEMMA StepInv == ServerInv /\ [Next]_vars => ServerInv'
<1> SUFFICES ASSUME ServerInv, [Next]_vars
             PROVE  ServerInv'
  OBVIOUS
<1>1. CASE \E r \in Request : Step(r) \/ Cancel(r) \/ \E c \in Config : Arrive(r, c)
  BY <1>1, EnsureInv, LockedInv, UnlockedInv DEF Step
<1>2. CASE (\E s \in Slot : Process(s)) \/ Shutdown \/ ShutdownDone
  BY <1>2, ProcessInv
<1>3. CASE UNCHANGED vars
  BY <1>3 DEF vars, ServerInv, TypeOK
<1> QED
  BY <1>1, <1>2, <1>3 DEF Next

\* One coroutine at a time is inside ensure()'s lock, and the handle it works on
\* is of the only llama-server there is.
THEOREM ServerCorrect == Spec => []ServerInv
<1>1. Init => ServerInv
  BY InitInv
<1>2. ServerInv /\ [Next]_vars => ServerInv'
  BY StepInv
<1> QED
  BY <1>1, <1>2, PTL DEF Spec

\* After a clean shutdown no llama-server of the manager is alive, whatever was
\* cancelled or crashed before.
THEOREM ShutdownClean == Spec => []NoServerAfterShutdown
<1>1. ServerInv => NoServerAfterShutdown
  BY NullsAssumption DEF ServerInv, TypeOK, NoServerAfterShutdown, Alive
<1> QED
  BY <1>1, ServerCorrect, PTL

(***************************************************************************)
(* The manager implements ModelServer.                                     *)
(***************************************************************************)

\* The running configuration is the handle's, as long as its process is alive.
HandleRuns ==
  RunningConfig = IF proc # NoProc /\ Alive(proc) THEN config ELSE NoConfig

LEMMA RunningOfHandle == ServerInv => HandleRuns
<1> SUFFICES ASSUME ServerInv PROVE HandleRuns
  OBVIOUS
<1> USE DEF ServerInv, TypeOK, HandleRuns
<1>1. \A s \in Slot : Alive(s) => s = proc
  BY DEF Alive
<1>2. CASE \E s \in Slot : Alive(s)
  <2>1. (CHOOSE s \in Slot : Alive(s)) = proc /\ proc \in Slot /\ Alive(proc)
    BY <1>1, <1>2
  <2>2. proc # NoProc
    BY <2>1, NullsAssumption
  <2> QED
    BY <1>2, <2>1, <2>2 DEF RunningConfig
<1>3. CASE ~(\E s \in Slot : Alive(s))
  BY <1>3 DEF RunningConfig
<1> QED
  BY <1>2, <1>3

\* A step that keeps the handle and its configuration can only end the life of
\* the process.
LEMMA SameHandle ==
  ASSUME HandleRuns, HandleRuns', proc' = proc, config' = config,
         proc # NoProc /\ Alive(proc)' => Alive(proc)
  PROVE  RunningConfig' = RunningConfig \/ RunningConfig' = NoConfig
<1>1. RunningConfig = IF proc # NoProc /\ Alive(proc) THEN config ELSE NoConfig
  BY DEF HandleRuns
<1>2. RunningConfig' = IF proc' # NoProc /\ Alive(proc)' THEN config' ELSE NoConfig
  BY DEF HandleRuns
<1> QED
  BY <1>1, <1>2

LEMMA ModelStep ==
  ASSUME ServerInv, HandleRuns, HandleRuns', [Next]_vars
  PROVE  [Model!ModelNext]_RunningConfig
<1> USE NullsAssumption
<1>1. RunningConfig = IF proc # NoProc /\ Alive(proc) THEN config ELSE NoConfig
  BY DEF HandleRuns
<1>2. RunningConfig' = IF proc' # NoProc /\ Alive(proc)' THEN config' ELSE NoConfig
  BY DEF HandleRuns
<1>3. CASE RunningConfig' = RunningConfig \/ RunningConfig' = NoConfig
  BY <1>3 DEF Model!ModelNext, Model!Unload
<1>4. CASE \E r \in Request : Spawn(r)
  <2>1. PICK r \in Request : Spawn(r)
    BY <1>4
  <2>2. proc = NoProc /\ config' = want[r] /\ want[r] \in Config
    BY <2>1 DEF Spawn, ServerInv
  <2>3. RunningConfig = NoConfig
    BY <1>1, <2>2
  <2> QED
    BY <1>2, <2>2, <2>3 DEF Model!ModelNext, Model!Load
<1>5. CASE \/ \E r \in Request : NothingToStop(r) \/ Stopped(r) \/ HealthDied(r) \/ GaveUp(r)
           \/ ShutdownDone
  <2>1. proc' = NoProc
    BY <1>5 DEF NothingToStop, Stopped, HealthDied, GaveUp, ShutdownDone, Forget
  <2> QED
    BY <1>2, <1>3, <2>1
<1>6. CASE \/ \E r \in Request : StopOld(r) \/ HealthTimeout(r)
           \/ Shutdown
  <2>1. proc' = proc /\ config' = config
    BY <1>6 DEF StopOld, HealthTimeout, Shutdown, manager
  <2>2. CASE server' = server
    BY <1>1, <1>2, <1>3, <2>1, <2>2 DEF Alive
  <2>3. CASE server' = [server EXCEPT ![proc] =
               IF @ \in {"loading", "healthy"} THEN "dying" ELSE @]
    <3>1. proc # NoProc => proc \in Slot
      BY DEF ServerInv, TypeOK
    <3>2. proc # NoProc /\ Alive(proc)' => Alive(proc)
      BY <2>1, <2>3, <3>1 DEF Alive, ServerInv, TypeOK
    <3> QED
      BY <1>3, <2>1, <3>2, SameHandle
  <2> QED
    BY <1>6, <2>2, <2>3 DEF StopOld, HealthTimeout, Shutdown, Signal
<1>7. CASE \E s \in Slot : Process(s)
  <2>1. PICK s \in Slot : Process(s)
    BY <1>7
  <2>2. /\ proc' = proc /\ config' = config
        /\ server' = [server EXCEPT ![s] = server'[s]]
        /\ server'[s] \in {"loading", "healthy", "dying"}
             => server[s] \in {"loading", "healthy", "dying"}
    BY <2>1 DEF Process, Loaded, Crash, Dies, Reap, manager, ServerInv, TypeOK
  <2>3. proc # NoProc /\ Alive(proc)' => Alive(proc)
    BY <2>2 DEF Alive, ServerInv, TypeOK
  <2> QED
    BY <1>3, <2>2, <2>3, SameHandle
<1>8. CASE \/ \E r \in Request :
                \/ Reuse(r) \/ SpawnFails(r) \/ HealthOk(r) \/ Granted(r) \/ Connect(r)
                \/ StreamEnds(r) \/ StreamBreaks(r) \/ Fallback(r) \/ Cancel(r)
                \/ \E c \in Config : Arrive(r, c)
           \/ UNCHANGED vars
  <2>1. proc' = proc /\ config' = config /\ server' = server
    BY <1>8 DEF Reuse, SpawnFails, HealthOk, Granted, Connect, StreamEnds, StreamBreaks, Fallback,
                Cancel, Arrive, manager, processes, vars
  <2>2. Alive(proc)' = Alive(proc)
    BY <2>1 DEF Alive
  <2> QED
    BY <1>1, <1>2, <1>3, <2>1, <2>2
<1> QED
  BY <1>4, <1>5, <1>6, <1>7, <1>8 DEF Next, Step

\* Requests for other models, cancellations and crashes notwithstanding, a model
\* server is only started when the one before is gone.
THEOREM ImplementsModelServer == Spec => OneModelAtATime
<1>1. Init => Model!ModelInit
  BY DEF Init, RunningConfig, Alive, Model!ModelInit
<1>2. ServerInv /\ HandleRuns /\ HandleRuns' /\ [Next]_vars =>
        [Model!ModelNext]_RunningConfig
  BY ModelStep
<1> QED
  BY <1>1, <1>2, RunningOfHandle, ServerCorrect, PTL DEF Spec, OneModelAtATime, Model!ModelSpec

(***************************************************************************)
(* The promise of ensure().                                                *)
(***************************************************************************)

LEMMA GrantStep ==
  ASSUME ~interrupted, ServerInv, [Next]_vars, NEW r \in Request, NewlyGranted(r)
  PROVE  WasReady(r)
<1> USE NullsAssumption DEF ServerInv, TypeOK, NewlyGranted, WasReady
<1>1. PICK q \in Request : Reuse(q) \/ Granted(q)
  BY DEF Next, Step, Arrive, StopOld, NothingToStop, Stopped, Spawn, SpawnFails, HealthOk,
         HealthDied, HealthTimeout, GaveUp, Connect, StreamEnds, StreamBreaks, Fallback, Cancel,
         End, Leave, Go, Process, Loaded, Crash, Dies, Reap, Shutdown, ShutdownDone, vars
<1>2. q = r
  BY <1>1 DEF Reuse, Granted, Leave, Go
<1>3. CASE Reuse(r)
  <2>1. /\ holder = NoRequest /\ proc # NoProc /\ server[proc] # "reaped"
        /\ config = want[r] /\ pc[r] = "waiting"
    BY <1>3 DEF Reuse, Acquire, ProcSeemsAlive, Waiting
  <2> QED
    BY <2>1
<1>4. CASE Granted(r)
  <2>1. pc[r] = "answered"
    BY <1>4 DEF Granted
  <2>2. server[proc] \in {"healthy", "zombie", "reaped"} /\ config = want[r]
        /\ serves[proc] = config
    BY <2>1
  <2> QED
    BY <2>1, <2>2
<1> QED
  BY <1>1, <1>2, <1>3, <1>4

\* As long as no client goes away in the middle of ensure(), its True means what
\* it says: the server of the wanted configuration has been ready.
THEOREM EnsureKeepsPromise == Spec => PromiseKept
<1>1. ServerInv /\ [Next]_vars =>
        [~interrupted => \A r \in Request : NewlyGranted(r) => WasReady(r)]_vars
  BY GrantStep
<1> QED
  BY <1>1, ServerCorrect, PTL DEF Spec, PromiseKept
=============================================================================
