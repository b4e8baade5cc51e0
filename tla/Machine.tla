------------------------------ MODULE Machine ------------------------------
(***************************************************************************)
(* The machine under a node agent, and the calls that tune, inspect and     *)
(* occupy it: tuning/, overclocking/, hardware/, drivers/check.rs and their *)
(* handlers in network/grpc_server.rs.  A handler runs its commands one     *)
(* after the other without an await, so that it keeps a worker thread of    *)
(* the runtime until its reply, and handlers on two workers interleave.     *)
(***************************************************************************)
EXTENDS Integers, Sequences, SequencesExt, FiniteSets

CONSTANTS
  Call,     \* calls, each made at most once
  Asks,     \* what each of them may ask for
  Device,   \* block devices that do not rotate
  Offers,   \* the I/O schedulers that each of them accepts
  Machines, \* what the system may show of its GPUs when the agent starts
  CHANGES,  \* how often that may change
  WORKERS   \* threads of the runtime

\* Drivers in /sys/module, a command that works, a line of lspci.
Signs == {"nvidia-smi", "nouveau", "amdgpu", "radeon", "i915", "VGA"}

\* The knobs of a TuningRequest in the order of apply_tuning.
ORDER == <<"governor", "hugepages", "swappiness", "scheduler", "thp", "numa">>

\* What there is one of in the kernel.
Kernel == {"governor", "hugepages", "swappiness", "thp", "numa", "turbo"}

\* A TuningRequest has values for some of the knobs, the other calls have none.
ASSUME MachineAssumption ==
  /\ WORKERS \in Nat \ {0}
  /\ CHANGES \in Nat
  /\ Machines \subseteq SUBSET Signs
  /\ Device \cap (Kernel \cup {"core"}) = {}
  /\ \A c \in Call : \A a \in Asks[c] :
       /\ a.kind \in {"tune", "safe", "aggressive", "custom", "audit", "work"}
       /\ \A k \in DOMAIN a.asks : a.kind = "tune" /\ k \in {ORDER[i] : i \in DOMAIN ORDER}

VARIABLES
  settings, \* of the kernel, and the scheduler of each device
  call,     \* the handlers
  agent,    \* main's detection, then the broadcaster
  report,   \* the GPUs of the HardwareReport made at the start
  shown,    \* the signs there are
  changed,  \* how often they have changed
  ready,    \* tasks that wait for a worker
  running   \* tasks on one

machineVars == <<settings, call, agent, report, shown, changed, ready, running>>

Broadcaster == "broadcaster"

Untuned ==
  [k \in Kernel \cup Device |->
     CASE k = "governor" -> "powersave"
       [] k = "hugepages" -> 0
       [] k = "swappiness" -> 60
       [] k = "thp" -> "madvise"
       [] k = "numa" -> 1
       [] k = "turbo" -> "on"
       [] OTHER -> "bfq"]

\* A call that has not been made.
NoCall ==
  [at |-> "idle",    \* where its handler is
   kind |-> "none",  \* tune, safe, aggressive, custom, audit or work
   asks |-> <<>>,    \* the knobs of a TuningRequest and their values
   todo |-> {},      \* those it has not tried
   left |-> Device,  \* the devices it has not tried
  applied |-> FALSE,\* a write to one of them returned Ok
   told |-> {},      \* changes of the reply
   errors |-> {},    \* errors of the reply
   made |-> {},      \* what it has really written
   alone |-> TRUE,   \* no other call was in flight during it
   found |-> {},     \* drivers of the reply
   seen |-> {}]      \* the signs there were during it

InFlight(c) == call[c].at \notin {"idle", "replied"}

MachineInit ==
  /\ settings = Untuned
  /\ call = [c \in Call |-> NoCall]
  /\ agent = "nvidia"
  /\ report = {}
  /\ shown \in Machines
  /\ changed = 0
  /\ ready = <<>>
  /\ running = {}

-----------------------------------------------------------------------------
(* The runtime.                                                            *)

Schedule ==
  /\ ready # <<>>
  /\ Cardinality(running) < WORKERS
  /\ running' = running \cup {Head(ready)}
  /\ ready' = Tail(ready)
  /\ UNCHANGED <<settings, call, agent, report, shown, changed>>

\* Where a handler begins.
Entry(kind) ==
  CASE kind = "tune" -> "tune"
    [] kind \in {"safe", "aggressive"} -> "governor"
    [] kind = "audit" -> "nvidia-smi"
    [] kind = "custom" -> "reply"
    [] kind = "work" -> "work"

\* A call that has just come.
NewCall(a) ==
  [NoCall EXCEPT
     !.at = Entry(a.kind), !.kind = a.kind, !.asks = a.asks, !.todo = DOMAIN a.asks,
     !.alone = \A c \in Call : ~InFlight(c), !.seen = shown]

\* The agent serves after it has detected its hardware.
Begin(c) ==
  /\ call[c] = NoCall
  /\ agent \in {"asleep", "due"}
  /\ \E a \in Asks[c] :
       call' = [d \in Call |->
         IF d = c THEN NewCall(a)
         ELSE IF InFlight(d) THEN [call[d] EXCEPT !.alone = FALSE] ELSE call[d]]
  /\ ready' = Append(ready, c)
  /\ UNCHANGED <<settings, agent, report, shown, changed, running>>

On(c, at) == c \in running /\ call[c].at = at

Reply(c) ==
  /\ On(c, "reply")
  /\ call' = [call EXCEPT ![c].at = "replied"]
  /\ running' = running \ {c}
  /\ UNCHANGED <<settings, agent, report, shown, changed, ready>>

\* Reading temperatures and clocks, or a benchmark: it changes nothing, and takes
\* its time.
Work(c) ==
  /\ On(c, "work")
  /\ call' = [call EXCEPT ![c].at = "reply"]
  /\ UNCHANGED <<settings, agent, report, shown, changed, ready, running>>

-----------------------------------------------------------------------------
(* apply_tuning: every knob that is asked for is tried, whatever became of   *)
(* the ones before it.                                                      *)

machineUnchanged == UNCHANGED <<agent, report, shown, changed, ready, running>>

\* The kernel allocates as many huge pages as it can.
Given(k, v) == IF k = "hugepages" THEN 0 .. v ELSE {v}

\* Writing the empty string opens the file and writes nothing, without an error; these
\* two knobs are texts of the request, empty by default.
Silent(k, v) == k \in {"scheduler", "thp"} /\ v = ""

\* A knob is set to v.
Knob(k, v) == \E w \in Given(k, v) : settings' = [settings EXCEPT ![k] = w]

\* It is k's turn: no knob before it is left.
AtKnob(c, k) ==
  /\ On(c, "tune")
  /\ k \in call[c].todo
  /\ \A i, j \in DOMAIN ORDER : i < j /\ ORDER[j] = k => ORDER[i] \notin call[c].todo

\* Faulty variant: the first error ends the request.
TuneKnobOrStop(c) ==
  /\ \E k \in call[c].todo \ {"scheduler"} :
       /\ AtKnob(c, k)
       /\ \/ /\ ~Silent(k, call[c].asks[k])
             /\ Knob(k, call[c].asks[k])
             /\ call' = [call EXCEPT ![c].told = @ \cup {k}, ![c].made = @ \cup {k},
                                     ![c].todo = @ \ {k}]
          \/ /\ Silent(k, call[c].asks[k])
             /\ call' = [call EXCEPT ![c].told = @ \cup {k}, ![c].todo = @ \ {k}]
             /\ UNCHANGED settings
          \/ /\ call' = [call EXCEPT ![c].errors = @ \cup {k}, ![c].todo = {}]
             /\ UNCHANGED settings
  /\ machineUnchanged

TuneKnob(c) ==
  /\ \E k \in call[c].todo \ {"scheduler"} :
       /\ AtKnob(c, k)
       /\ \/ /\ ~Silent(k, call[c].asks[k])
             /\ Knob(k, call[c].asks[k])
             /\ call' = [call EXCEPT ![c].told = @ \cup {k}, ![c].made = @ \cup {k},
                                     ![c].todo = @ \ {k}]
          \/ /\ Silent(k, call[c].asks[k])
             /\ call' = [call EXCEPT ![c].told = @ \cup {k}, ![c].todo = @ \ {k}]
             /\ UNCHANGED settings
          \/ /\ call' = [call EXCEPT ![c].errors = @ \cup {k}, ![c].todo = @ \ {k}]
             /\ UNCHANGED settings
  /\ machineUnchanged

AtScheduler(c) == AtKnob(c, "scheduler")

\* Faulty variant: a device that refuses is tried again.
TuneDeviceAgain(c) ==
  /\ AtScheduler(c)
  /\ \E d \in call[c].left :
       \/ /\ call[c].asks["scheduler"] \in Offers[d]
          /\ settings' = [settings EXCEPT ![d] = call[c].asks["scheduler"]]
          /\ call' = [call EXCEPT ![c].left = @ \ {d}, ![c].made = @ \cup {d},
                                  ![c].applied = TRUE]
       \/ /\ Silent("scheduler", call[c].asks["scheduler"])
          /\ call' = [call EXCEPT ![c].left = @ \ {d}, ![c].applied = TRUE]
          /\ UNCHANGED settings
       \/ /\ call[c].asks["scheduler"] \notin Offers[d]
          /\ call' = [call EXCEPT ![c].left = @ \ {d}]
          /\ UNCHANGED settings
       \/ /\ call[c].asks["scheduler"] \in Offers[d]
          /\ call' = [call EXCEPT ![c].left = Device]
          /\ UNCHANGED settings
  /\ machineUnchanged

\* A device is set to the scheduler if the kernel accepts it, the empty text is found
\* among the schedulers of every device, and any device may refuse: a text that is only
\* part of a name is found as well, and the kernel knows no such scheduler.
TuneDevice(c) ==
  /\ AtScheduler(c)
  /\ \E d \in call[c].left :
       \/ /\ call[c].asks["scheduler"] \in Offers[d]
          /\ settings' = [settings EXCEPT ![d] = call[c].asks["scheduler"]]
          /\ call' = [call EXCEPT ![c].left = @ \ {d}, ![c].made = @ \cup {d},
                                  ![c].applied = TRUE]
       \/ /\ Silent("scheduler", call[c].asks["scheduler"])
          /\ call' = [call EXCEPT ![c].left = @ \ {d}, ![c].applied = TRUE]
          /\ UNCHANGED settings
       \/ /\ call' = [call EXCEPT ![c].left = @ \ {d}]
          /\ UNCHANGED settings
  /\ machineUnchanged

\* One device is enough.
TuneScheduler(c) ==
  /\ AtScheduler(c) /\ call[c].left = {}
  /\ \/ /\ call[c].applied
        /\ call' = [call EXCEPT ![c].told = @ \cup {"scheduler"},
                                ![c].todo = @ \ {"scheduler"}]
     \/ /\ ~call[c].applied
        /\ call' = [call EXCEPT ![c].errors = @ \cup {"scheduler"},
                                ![c].todo = @ \ {"scheduler"}]
  /\ UNCHANGED settings /\ machineUnchanged

TuneEnds(c) ==
  /\ On(c, "tune") /\ call[c].todo = {}
  /\ call' = [call EXCEPT ![c].at = "reply"]
  /\ UNCHANGED settings /\ machineUnchanged

-----------------------------------------------------------------------------
(* Performance modes.  Every mode is answered with applied, and the          *)
(* aggressive one starts with the safe one, whose message it drops.         *)

Safe(c) ==
  \/ /\ On(c, "governor")
     /\ \/ /\ settings' = [settings EXCEPT !["governor"] = "performance"]
           /\ call' = [call EXCEPT ![c].told = @ \cup {"governor"},
                                   ![c].made = @ \cup {"governor"}, ![c].at = "no_turbo"]
        \/ call' = [call EXCEPT ![c].at = "no_turbo"] /\ UNCHANGED settings
     /\ machineUnchanged
  \/ /\ On(c, "no_turbo")
     /\ \E at \in {"max_perf"} \cup (IF settings["turbo"] = "on" THEN {"turbo"} ELSE {}) :
          call' = [call EXCEPT ![c].at = at]
     /\ UNCHANGED settings /\ machineUnchanged
  \/ /\ On(c, "turbo")
     /\ \/ /\ settings' = [settings EXCEPT !["turbo"] = "off"]
           /\ call' = [call EXCEPT ![c].told = @ \cup {"turbo"},
                                   ![c].made = @ \cup {"turbo"}, ![c].at = "max_perf"]
        \/ /\ call' = [call EXCEPT ![c].told = @ \cup {"turbo"}, ![c].at = "max_perf"]
           /\ UNCHANGED settings
     /\ machineUnchanged
  \/ /\ On(c, "max_perf")
     /\ call' = [call EXCEPT
          ![c].told = IF call[c].kind = "safe" THEN @ ELSE {},
          ![c].at = IF call[c].kind = "safe" THEN "reply" ELSE "intel-undervolt"]
     /\ UNCHANGED settings /\ machineUnchanged

\* Each tool that answers is told what to do, and the reply says that it did.
Tool(c, at, says, next) ==
  /\ On(c, at)
  /\ \E told \in {{}, {says}} :
       call' = [call EXCEPT ![c].told = @ \cup told, ![c].at = next]
  /\ UNCHANGED settings /\ machineUnchanged

\* Of the undervolt only the first command is looked at.
Aggressive(c) ==
  \/ /\ On(c, "intel-undervolt")
     /\ \E at \in {"core", "ryzenadj"} : call' = [call EXCEPT ![c].at = at]
     /\ UNCHANGED settings /\ machineUnchanged
  \/ /\ On(c, "core")
     /\ \E done \in {{}, {"core"}} :
          call' = [call EXCEPT ![c].told = @ \cup done, ![c].made = @ \cup done,
                               ![c].at = "cache"]
     /\ UNCHANGED settings /\ machineUnchanged
  \/ /\ On(c, "cache")
     /\ call' = [call EXCEPT ![c].told = @ \cup {"cache"}, ![c].at = "ryzenadj"]
     /\ UNCHANGED settings /\ machineUnchanged
  \/ Tool(c, "ryzenadj", "TDP", "overclock")
  \/ Tool(c, "overclock", "NVIDIA", "reply")

-----------------------------------------------------------------------------
(* The driver audit and the detection.                                      *)

\* A sign is looked for; what is noted, and what comes next, if it is there or not.
Look(c, at, sign, there, absent) ==
  /\ On(c, at)
  /\ LET case == IF sign \in shown THEN there ELSE absent IN
       call' = [call EXCEPT ![c].found = @ \cup case.notes, ![c].at = case.next]
  /\ UNCHANGED settings /\ machineUnchanged

Then(next) == [notes |-> {}, next |-> next]
Note(entry, next) == [notes |-> {entry}, next |-> next]

\* Faulty variant: without amdgpu the legacy driver is taken for granted.
AuditSkipsRadeon(c) ==
  \/ Look(c, "nvidia-smi", "nvidia-smi", Note("proprietary", "amd"), Then("nouveau"))
  \/ Look(c, "nouveau", "nouveau", Note("nouveau", "amd"), Then("amd"))
  \/ Look(c, "amd", "amdgpu", Note("amdgpu", "i915"), Note("legacy", "i915"))
  \/ Look(c, "i915", "i915", Note("i915", "reply"), Then("reply"))

\* check_amd asks for amdgpu twice.
Audit(c) ==
  \/ Look(c, "nvidia-smi", "nvidia-smi", Note("proprietary", "amd"), Then("nouveau"))
  \/ Look(c, "nouveau", "nouveau", Note("nouveau", "amd"), Then("amd"))
  \/ Look(c, "amd", "amdgpu", Then("amdgpu"), Then("radeon"))
  \/ Look(c, "radeon", "radeon", Then("amdgpu"), Then("i915"))
  \/ Look(c, "amdgpu", "amdgpu", Note("amdgpu", "i915"), Note("legacy", "i915"))
  \/ Look(c, "i915", "i915", Note("i915", "reply"), Then("reply"))

Detects(at, sign, vendor, next, otherwise) ==
  /\ agent = at
  /\ agent' = IF sign \in shown THEN next ELSE otherwise
  /\ report' = IF sign \in shown THEN report \cup vendor ELSE report
  /\ UNCHANGED <<settings, call, shown, changed, ready, running>>

\* gpu::detect, before the agent serves and sends heartbeats.
Detect ==
  \/ Detects("nvidia", "nvidia-smi", {"NVIDIA"}, "amd", "amd")
  \/ Detects("amd", "amdgpu", {}, "lspci", "i915")
  \/ Detects("lspci", "VGA", {"AMD"}, "i915", "i915")
  \/ Detects("i915", "i915", {"Intel"}, "asleep", "asleep")

\* A driver is loaded or unloaded, a command installed or removed.  Only audits
\* look: the bound lets it happen while one is going on or to come.
Change ==
  /\ changed < CHANGES
  /\ \E c \in Call : call[c].kind = "audit" /\ InFlight(c)
  /\ \E s \in Signs : shown' = IF s \in shown THEN shown \ {s} ELSE shown \cup {s}
  /\ changed' = changed + 1
  /\ call' = [c \in Call |->
       IF InFlight(c) THEN [call[c] EXCEPT !.seen = @ \cup shown'] ELSE call[c]]
  /\ UNCHANGED <<settings, agent, report, ready, running>>

-----------------------------------------------------------------------------
\* The broadcaster sleeps, and needs a worker for its next heartbeat.
WakeUp ==
  /\ agent = "asleep"
  /\ agent' = "due"
  /\ ready' = Append(ready, Broadcaster)
  /\ UNCHANGED <<settings, call, report, shown, changed, running>>

Heartbeat ==
  /\ Broadcaster \in running
  /\ agent' = "asleep"
  /\ running' = running \ {Broadcaster}
  /\ UNCHANGED <<settings, call, report, shown, changed, ready>>

CallStep(c) ==
  \/ TuneKnob(c) \/ TuneDevice(c) \/ TuneScheduler(c) \/ TuneEnds(c)
  \/ Safe(c) \/ Aggressive(c) \/ Audit(c) \/ Work(c) \/ Reply(c)

MachineNext ==
  \/ \E c \in Call : Begin(c) \/ CallStep(c)
  \/ Detect \/ WakeUp \/ Heartbeat \/ Schedule \/ Change

MachineSpec == MachineInit /\ [][MachineNext]_machineVars

\* Commands end, threads run, the timer of the broadcaster fires.
FairMachineSpec ==
  /\ MachineSpec
  /\ WF_machineVars(Detect) /\ WF_machineVars(WakeUp) /\ WF_machineVars(Heartbeat)
  /\ WF_machineVars(Schedule)
  /\ \A c \in Call : WF_machineVars(CallStep(c))

-----------------------------------------------------------------------------
(* Properties.                                                             *)

\* What a reply reports though nobody has looked whether it was done.
Unchecked == {"turbo", "cache", "TDP", "NVIDIA"}

\* The change k of a reply was really written: on a device at least, for the scheduler.
WasMade(c, k) == IF k = "scheduler" THEN call[c].made \cap Device # {} ELSE k \in call[c].made

\* The machine is as the call asked for.
AsAsked(c, k) ==
  IF k = "scheduler"
    THEN \E d \in Device : settings[d] = call[c].asks[k]
    ELSE settings[k] \in Given(k, call[c].asks[k])

\* A tuning reply accounts for every knob of the request, whichever of them fail, and
\* "applied" means that none of them did.  What a reply reports was written, and if no
\* other call was in flight the machine is now so: with three exceptions, which are all
\* there are.  The two modes take some changes for granted; a scheduler or THP mode that
\* is the empty text is reported though nothing was written; and of the huge pages that
\* are reported as allocated the kernel may have given fewer (apply_tuning, the modes).
RepliesAreTrue ==
  \A c \in Call :
    call[c].at = "reply" =>
      /\ call[c].kind = "tune" =>
           /\ call[c].told \cup call[c].errors = DOMAIN call[c].asks
           /\ call[c].told \cap call[c].errors = {}
      /\ \A k \in call[c].told \ Unchecked :
           Silent(k, call[c].asks[k]) \/ WasMade(c, k)
      /\ call[c].alone =>
           \A k \in call[c].told \cap DOMAIN call[c].asks :
             Silent(k, call[c].asks[k]) \/ AsAsked(c, k)

\* The signs an entry of the driver report stands for, and its vendor.
SignsOf(entry) ==
  CASE entry = "proprietary" -> {"nvidia-smi"}
    [] entry = "legacy" -> {"amdgpu", "radeon"}
    [] OTHER -> {entry}
Vendor(entry) ==
  CASE entry \in {"proprietary", "nouveau"} -> "NVIDIA"
    [] entry \in {"amdgpu", "legacy"} -> "AMD"
    [] entry = "i915" -> "Intel"

\* The driver report names no driver of a vendor that showed no sign of itself while
\* the audit ran, though it looks at the system several times, and no vendor twice;
\* and as long as nothing has changed it has a driver for every GPU the agent has
\* reported at its start, which the detection finds in other ways (audit, detect).
AuditFitsDetection ==
  \A c \in Call :
    call[c].kind = "audit" /\ call[c].at = "reply" =>
      /\ \A e \in call[c].found : SignsOf(e) \cap call[c].seen # {}
      /\ \A e, f \in call[c].found : Vendor(e) = Vendor(f) => e = f
      /\ changed = 0 => report \subseteq {Vendor(e) : e \in call[c].found}

\* Handlers that block their worker hold up the others and the broadcaster only for
\* a while: every call is answered, and the heartbeats go on.
TasksGoOn ==
  /\ \A c \in Call : InFlight(c) ~> call[c].at = "replied"
  /\ []<>(agent = "due")
  /\ []<>(agent = "asleep")
=============================================================================
