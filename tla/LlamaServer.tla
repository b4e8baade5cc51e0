---------------------------- MODULE LlamaServer ----------------------------
(***************************************************************************)
(* The persistent llama-server and the requests that share it:             *)
(* LlamaServerManager of orchestrator/src/arcflare/inference/              *)
(* llama_server.py, used by InferencePipeline.run_stream (mode 1).         *)
(*                                                                         *)
(* A request calls ensure(), which holds an asyncio lock over all its      *)
(* awaits, and then streams from the server's port without the lock.  The  *)
(* client may go away at any await: the request's coroutine is cancelled   *)
(* there, which except Exception does not catch.                           *)
(***************************************************************************)
EXTENDS Integers, FiniteSets

CONSTANTS
  Request,      \* coroutines that may be inside run_stream
  Config,       \* (model_path, sorted rpc_endpoints)
  Slot,         \* identities of server processes, more than there are requests
  NoConfig, NoProc, NoRequest

ASSUME NullsAssumption ==
  NoConfig \notin Config /\ NoProc \notin Slot /\ NoRequest \notin Request

VARIABLES
  pc,        \* where each request is
  want,      \* the configuration it asked for
  ahead,     \* pairs of waiting requests: the lock is first come, first served
  holder,    \* who holds the lock, or NoRequest
  proc,      \* LlamaServerManager._proc
  config,    \* LlamaServerManager._config
  server,    \* the server processes, as the system and the event loop see them
  serves,    \* the configuration a process was started with
  source,    \* the process a request streams from
  service,   \* the orchestrator: "up", "stopping" (in stop()), "down"
  interrupted   \* history: has a request been cancelled while it held the lock?

manager == <<proc, config>>
processes == <<server, serves>>
queue == <<ahead, holder>>
vars == <<pc, want, ahead, holder, proc, config, server, serves, source, service, interrupted>>

\* Locations of a request.  Those in Critical are awaits under the lock.
Critical == {"stopping", "spawning", "health", "answered", "giving_up"}
Location == {"idle", "waiting", "granted", "streaming", "failed"} \cup Critical

\* A process is "dying" after SIGTERM, "zombie" when it has ended and the event
\* loop does not know yet, "reaped" when its returncode is set.
ProcessState == {"free", "loading", "healthy", "dying", "zombie", "reaped"}
Alive(s) == server[s] \in {"loading", "healthy", "dying"}
Waiting == {r \in Request : pc[r] = "waiting"}

\* _proc is not None and _proc.returncode is None
ProcSeemsAlive == proc # NoProc /\ server[proc] # "reaped"

TypeOK ==
  /\ pc \in [Request -> Location]
  /\ want \in [Request -> Config \cup {NoConfig}]
  /\ ahead \subseteq Request \X Request
  /\ holder \in Request \cup {NoRequest}
  /\ proc \in Slot \cup {NoProc}
  /\ config \in Config \cup {NoConfig}
  /\ server \in [Slot -> ProcessState]
  /\ serves \in [Slot -> Config \cup {NoConfig}]
  /\ source \in [Request -> Slot \cup {NoProc}]
  /\ service \in {"up", "stopping", "down"}
  /\ interrupted \in BOOLEAN

Init ==
  /\ pc = [r \in Request |-> "idle"]
  /\ want = [r \in Request |-> NoConfig]
  /\ ahead = {}
  /\ holder = NoRequest
  /\ proc = NoProc
  /\ config = NoConfig
  /\ server = [s \in Slot |-> "free"]
  /\ serves = [s \in Slot |-> NoConfig]
  /\ source = [r \in Request |-> NoProc]
  /\ service = "up"
  /\ interrupted = FALSE

Go(r, location) == pc' = [pc EXCEPT ![r] = location]
NotAhead(r) == {p \in ahead : r \notin {p[1], p[2]}}

\* The end of the locked block.
Leave(r, location) ==
  /\ Go(r, location)
  /\ holder' = NoRequest
  /\ UNCHANGED ahead

-----------------------------------------------------------------------------
(* ensure()                                                                *)

Arrive(r, c) ==
  /\ service = "up"
  /\ pc[r] = "idle"
  /\ Go(r, "waiting")
  /\ want' = [want EXCEPT ![r] = c]
  /\ ahead' = ahead \cup (Waiting \X {r})
  /\ UNCHANGED <<holder, manager, processes, source, service, interrupted>>

\* The lock goes to the first one waiting.
Acquire(r) ==
  /\ holder = NoRequest
  /\ r \in Waiting
  /\ \A q \in Waiting : <<q, r>> \notin ahead
  /\ ahead' = NotAhead(r)

\* The right server seems to run: True at once, nothing else is looked at.
Reuse(r) ==
  /\ Acquire(r)
  /\ ProcSeemsAlive
  /\ config = want[r]
  /\ Go(r, "granted")
  /\ UNCHANGED <<want, holder, manager, processes, source, service, interrupted>>

\* terminate(); a process that has ended already gets no signal.
Signal ==
  server' = [server EXCEPT ![proc] =
    IF @ \in {"loading", "healthy"} THEN "dying" ELSE @]

\* Another configuration: stop the old server first, and wait for its end.
StopOld(r) ==
  /\ Acquire(r)
  /\ ProcSeemsAlive
  /\ config # want[r]
  /\ holder' = r
  /\ Go(r, "stopping")
  /\ Signal
  /\ UNCHANGED <<want, manager, serves, source, service, interrupted>>

\* _proc and _config are cleared; what the handle told of the process is lost.
Forget ==
  /\ proc' = NoProc
  /\ config' = NoConfig
  /\ server' = [s \in Slot |-> IF s = proc /\ server[s] = "reaped" THEN "free" ELSE server[s]]
  /\ UNCHANGED serves

NothingToStop(r) ==
  /\ Acquire(r)
  /\ ~ProcSeemsAlive
  /\ holder' = r
  /\ Go(r, "spawning")
  /\ Forget
  /\ UNCHANGED <<want, source, service, interrupted>>

\* Faulty variant: the old server's end is not awaited.
StoppedAtOnce(r) ==
  /\ pc[r] = "stopping"
  /\ Go(r, "spawning")
  /\ Forget
  /\ UNCHANGED <<want, queue, source, service, interrupted>>

\* wait() returns, after a kill() if SIGTERM took more than 10 seconds.
Stopped(r) ==
  /\ pc[r] = "stopping"
  /\ ~ProcSeemsAlive
  /\ Go(r, "spawning")
  /\ Forget
  /\ UNCHANGED <<want, queue, source, service, interrupted>>

\* A new process is not one that a broken stream still remembers.
Spawn(r) ==
  /\ pc[r] = "spawning"
  /\ \E s \in Slot :
       /\ server[s] = "free"
       /\ \A q \in Request : source[q] # s
       /\ server' = [server EXCEPT ![s] = "loading"]
       /\ serves' = [serves EXCEPT ![s] = want[r]]
       /\ proc' = s
  /\ config' = want[r]
  /\ Go(r, "health")
  /\ UNCHANGED <<want, queue, source, service, interrupted>>

\* No binary, or create_subprocess_exec raises: the caller falls back.
SpawnFails(r) ==
  /\ pc[r] = "spawning"
  /\ Leave(r, "failed")
  /\ UNCHANGED <<want, manager, processes, source, service, interrupted>>

\* Faulty variant: any answer will do, a 503 of a server that loads as well.
HealthOkAnyAnswer(r) ==
  /\ pc[r] = "health"
  /\ ProcSeemsAlive
  /\ \E s \in Slot : server[s] \in {"loading", "healthy"}
  /\ Go(r, "answered")
  /\ UNCHANGED <<want, queue, manager, processes, source, service, interrupted>>

\* /health answers 200, whichever process holds the port; the returncode was looked at
\* before the request.
HealthOk(r) ==
  /\ pc[r] = "health"
  /\ ProcSeemsAlive
  /\ \E s \in Slot : server[s] = "healthy"
  /\ Go(r, "answered")
  /\ UNCHANGED <<want, queue, manager, processes, source, service, interrupted>>

\* The coroutine gets the answer: True, and nobody looks at the process again.
Granted(r) ==
  /\ pc[r] = "answered"
  /\ Leave(r, "granted")
  /\ UNCHANGED <<want, manager, processes, source, service, interrupted>>

\* The process has died while loading.
HealthDied(r) ==
  /\ pc[r] = "health"
  /\ ~ProcSeemsAlive
  /\ Leave(r, "failed")
  /\ Forget
  /\ UNCHANGED <<want, source, service, interrupted>>

\* Faulty variant: a server that never gets healthy is awaited for ever.
HealthTimeoutNever(r) == pc[r] = "health" /\ FALSE /\ UNCHANGED vars

\* Not healthy within 240 seconds: stop it.
HealthTimeout(r) ==
  /\ pc[r] = "health"
  /\ ProcSeemsAlive
  /\ Go(r, "giving_up")
  /\ Signal
  /\ UNCHANGED <<want, queue, manager, serves, source, service, interrupted>>

\* Faulty variant: the server that did not get healthy is only told to end.
GaveUpAtOnce(r) ==
  /\ pc[r] = "giving_up"
  /\ Leave(r, "failed")
  /\ Forget
  /\ UNCHANGED <<want, source, service, interrupted>>

GaveUp(r) ==
  /\ pc[r] = "giving_up"
  /\ ~ProcSeemsAlive
  /\ Leave(r, "failed")
  /\ Forget
  /\ UNCHANGED <<want, source, service, interrupted>>

-----------------------------------------------------------------------------
(* stream_completion() and the end of the request.                         *)

\* The request reaches whatever listens on the port; a server that still loads
\* answers with an error, and without one the connection fails.
Connect(r) ==
  /\ pc[r] = "granted"
  /\ \/ \E s \in Slot :
          /\ server[s] = "healthy"
          /\ source' = [source EXCEPT ![r] = s]
          /\ Go(r, "streaming")
     \/ /\ \A s \in Slot : server[s] # "healthy"
        /\ Go(r, "failed")
        /\ UNCHANGED source
  /\ UNCHANGED <<want, queue, manager, processes, service, interrupted>>

\* The request's data is dropped with its coroutine.
End(r) ==
  /\ Go(r, "idle")
  /\ want' = [want EXCEPT ![r] = NoConfig]
  /\ source' = [source EXCEPT ![r] = NoProc]

StreamEnds(r) ==
  /\ pc[r] = "streaming"
  /\ server[source[r]] \in {"healthy", "dying"}
  /\ End(r)
  /\ UNCHANGED <<queue, manager, processes, service, interrupted>>

\* The server goes away under the stream, answers with an error, or is silent for 600
\* seconds.
StreamBreaks(r) ==
  /\ pc[r] = "streaming"
  /\ Go(r, "failed")
  /\ source' = [source EXCEPT ![r] = NoProc]
  /\ UNCHANGED <<want, queue, manager, processes, service, interrupted>>

\* The other modes of run_stream answer, which need no llama-server.
Fallback(r) ==
  /\ pc[r] = "failed"
  /\ End(r)
  /\ UNCHANGED <<queue, manager, processes, service, interrupted>>

\* The client goes away: CancelledError at the request's await.  The lock is
\* released, everything else stays as it is.  A process that is being created
\* is closed by asyncio.
Cancel(r) ==
  /\ pc[r] # "idle"
  /\ End(r)
  /\ ahead' = NotAhead(r)
  /\ holder' = IF holder = r THEN NoRequest ELSE holder
  /\ interrupted' = (interrupted \/ holder = r)
  /\ UNCHANGED <<manager, processes, service>>

-----------------------------------------------------------------------------
(* The processes.                                                          *)

Loaded(s) ==
  /\ server[s] = "loading"
  /\ server' = [server EXCEPT ![s] = "healthy"]
  /\ UNCHANGED <<pc, want, queue, manager, serves, source, service, interrupted>>

Crash(s) ==
  /\ server[s] \in {"loading", "healthy"}
  /\ server' = [server EXCEPT ![s] = "zombie"]
  /\ UNCHANGED <<pc, want, queue, manager, serves, source, service, interrupted>>

Dies(s) ==
  /\ server[s] = "dying"
  /\ server' = [server EXCEPT ![s] = "zombie"]
  /\ UNCHANGED <<pc, want, queue, manager, serves, source, service, interrupted>>

\* The event loop learns of the end.
Reap(s) ==
  /\ server[s] = "zombie"
  /\ server' = [server EXCEPT ![s] = IF s = proc THEN "reaped" ELSE "free"]
  /\ UNCHANGED <<pc, want, queue, manager, serves, source, service, interrupted>>

-----------------------------------------------------------------------------
(* Shutdown: main.lifespan calls stop() when the requests have ended.      *)

Shutdown ==
  /\ service = "up"
  /\ \A r \in Request : pc[r] = "idle"
  /\ service' = "stopping"
  /\ IF ProcSeemsAlive THEN Signal ELSE UNCHANGED server
  /\ UNCHANGED <<pc, want, queue, manager, serves, source, interrupted>>

\* Faulty variant: the orchestrator exits while the server still ends.
ShutdownDoneAtOnce ==
  /\ service = "stopping"
  /\ service' = "down"
  /\ Forget
  /\ UNCHANGED <<pc, want, queue, source, interrupted>>

ShutdownDone ==
  /\ service = "stopping"
  /\ ~ProcSeemsAlive
  /\ service' = "down"
  /\ Forget
  /\ UNCHANGED <<pc, want, queue, source, interrupted>>

-----------------------------------------------------------------------------
\* What a request's coroutine does when its await ends.
Step(r) ==
  \/ Reuse(r) \/ StopOld(r) \/ NothingToStop(r) \/ Stopped(r)
  \/ Spawn(r) \/ SpawnFails(r)
  \/ HealthOk(r) \/ Granted(r) \/ HealthDied(r) \/ HealthTimeout(r) \/ GaveUp(r)
  \/ Connect(r) \/ StreamEnds(r) \/ StreamBreaks(r) \/ Fallback(r)

Process(s) == Loaded(s) \/ Crash(s) \/ Dies(s) \/ Reap(s)

Next ==
  \/ \E r \in Request : Step(r) \/ Cancel(r) \/ \E c \in Config : Arrive(r, c)
  \/ \E s \in Slot : Process(s)
  \/ Shutdown
  \/ ShutdownDone

Spec == Init /\ [][Next]_vars

\* The event loop resumes coroutines whose await is over (each await of theirs
\* has a timeout), the kill after SIGTERM works, and the loop reaps children.
\* Whether a model ever loads is left open.
Fairness ==
  /\ \A r \in Request : WF_vars(Step(r))
  /\ \A s \in Slot : WF_vars(Dies(s)) /\ WF_vars(Reap(s))
  /\ WF_vars(ShutdownDone)

FairSpec == Spec /\ Fairness

-----------------------------------------------------------------------------
(* Properties.                                                             *)

\* The configuration of the running server.
RunningConfig ==
  IF \E s \in Slot : Alive(s)
    THEN serves[CHOOSE s \in Slot : Alive(s)]
    ELSE NoConfig

Model == INSTANCE ModelServer WITH loaded <- RunningConfig

\* Requests, cancellations and crashes in any order, a model server is started
\* only when the one before is gone: two never fight for the port and the
\* memory of the nodes (ensure, _stop_locked).
OneModelAtATime == Model!ModelSpec

\* At most one coroutine is between the lock and its release, and the manager's
\* handle is of the only process there is: nothing is started behind it, and
\* what it forgets has ended (_start_locked, _stop_locked).  Unless a request was
\* cancelled while it held the lock, a server the manager keeps has become healthy.
ServerInv ==
  /\ TypeOK
  /\ \A r \in Request : pc[r] \in Critical <=> holder = r
  /\ \A s \in Slot : s # proc => server[s] = "free"
  /\ proc = NoProc <=> config = NoConfig
  /\ proc # NoProc => server[proc] # "free" /\ serves[proc] = config
  /\ \A r \in Request : pc[r] = "spawning" => proc = NoProc
  /\ \A r \in Request : pc[r] \in {"health", "answered", "stopping", "giving_up"} => proc # NoProc
  /\ \A r \in Request : pc[r] \in {"health", "answered"} => config = want[r]
  /\ \A r \in Request : pc[r] = "answered" => server[proc] \in {"healthy", "zombie", "reaped"}
  /\ \A r \in Request : pc[r] # "idle" => want[r] \in Config /\ service = "up"
  /\ service = "down" => proc = NoProc
  /\ ~interrupted /\ holder = NoRequest /\ service = "up" /\ proc # NoProc =>
       server[proc] \in {"healthy", "zombie", "reaped"}

\* A clean shutdown leaves no model server behind (main.lifespan: "so it isn't
\* orphaned on restart"), whatever requests were cancelled before.
NoServerAfterShutdown == service = "down" => \A s \in Slot : ~Alive(s)

\* Every request ends: neither a queue of requests for other models nor a server
\* that never gets healthy or dies holds one up for ever.
EveryRequestEnds == \A r \in Request : pc[r] # "idle" ~> pc[r] = "idle"

\* ensure() returns True only for a server that has been ready for the request's
\* configuration, and may have crashed since - as long as no request has been
\* cancelled between the lock and its release.
WasReady(r) ==
  /\ \/ server[proc] \in {"healthy", "zombie"}
     \/ server[proc] = "reaped" /\ pc[r] = "answered"
  /\ serves[proc] = want[r]
NewlyGranted(r) == pc[r] # "granted" /\ pc'[r] = "granted"
PromiseKept ==
  [][~interrupted => \A r \in Request : NewlyGranted(r) => WasReady(r)]_vars

-----------------------------------------------------------------------------
(* What the documentation says and the code does not do.                   *)

\* "Returns True if ready" (llama_server.py:59), whatever was cancelled before.
GrantedServerWasReady ==
  [][\A r \in Request : NewlyGranted(r) => WasReady(r)]_vars
=============================================================================
