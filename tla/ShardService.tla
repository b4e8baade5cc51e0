---------------------------- MODULE ShardService ----------------------------
(***************************************************************************)
(* The one shard of a node agent, and the calls that load, use and unload   *)
(* it at the same time (inference/model.rs, inference/forward.rs and their  *)
(* handlers in network/grpc_server.rs).  Every call runs on a thread of its *)
(* own; a call that waits for the RwLock is suspended, and dropped when its *)
(* client goes away.                                                        *)
(***************************************************************************)
EXTENDS Integers, Sequences, SequencesExt

CONSTANTS
  Call,   \* calls a client may have in flight
  Slot,   \* room in memory: one for each model that fits
  NoModel \* not a Slot

ASSUME SlotAssumption == NoModel \notin Slot

VARIABLES
  pc,      \* where each call is; "idle" before and after
  op,      \* what it was called for
  mine,    \* the model a load or a prompt has loaded, the one a pass works on
  failed,  \* it ends with an error
  backend, \* the process-wide LlamaBackend: "none", "starting", "ready"
  cell,    \* CURRENT_SHARD has been initialised
  shard,   \* what is in it
  memory,  \* the models in memory
  holders, \* who holds the lock of the cell, or was handed it and not woken yet
  queue    \* who waits for it

lockVars == <<holders, queue>>
shardVars == <<pc, op, mine, failed, backend, cell, shard, memory, holders, queue>>

Ops == {"load", "pass", "unload", "generate"}

ShardTypeOK ==
  /\ pc \in [Call -> {"idle", "backend", "init", "open", "loading", "create", "cell",
                      "request", "lock", "compute", "reply"}]
  /\ op \in [Call -> Ops \cup {"none"}]
  /\ mine \in [Call -> Slot \cup {NoModel}]
  /\ failed \in [Call -> BOOLEAN]
  /\ backend \in {"none", "starting", "ready"}
  /\ cell \in BOOLEAN
  /\ shard \in Slot \cup {NoModel}
  /\ memory \subseteq Slot
  /\ holders \subseteq Call
  /\ queue \in Seq(Call)

ShardInit ==
  /\ pc = [c \in Call |-> "idle"]
  /\ op = [c \in Call |-> "none"]
  /\ mine = [c \in Call |-> NoModel]
  /\ failed = [c \in Call |-> FALSE]
  /\ backend = "none"
  /\ cell = FALSE
  /\ shard = NoModel
  /\ memory = {}
  /\ holders = {}
  /\ queue = <<>>

-----------------------------------------------------------------------------
(* The lock: tokio's RwLock, which serves readers and writers in the order   *)
(* in which they came.                                                      *)

Writes(c) == op[c] # "pass"

Compatible(H) == \A c, d \in H : c = d \/ ~(Writes(c) \/ Writes(d))

First(q, n) == {q[i] : i \in 1 .. n}

\* Faulty variant: readers overtake the writers that wait.
HandOverToReaders(H, q) ==
  LET readers == {i \in DOMAIN q : ~Writes(q[i])}
  IN  IF readers = {} \/ \E c \in H : Writes(c)
        THEN \E n \in {0, 1} \cap 0 .. Len(q) :
               /\ n = 1 <=> q # <<>> /\ H = {}
               /\ holders' = H \cup First(q, n)
               /\ queue' = SubSeq(q, n + 1, Len(q))
        ELSE /\ holders' = H \cup {q[i] : i \in readers}
             /\ queue' = SelectSeq(q, Writes)

\* As many of those who wait as can hold it together, the first of them first.
HandOver(H, q) ==
  \E n \in 0 .. Len(q) :
    /\ Compatible(H \cup First(q, n))
    /\ n < Len(q) => ~Compatible(H \cup First(q, n + 1))
    /\ holders' = H \cup First(q, n)
    /\ queue' = SubSeq(q, n + 1, Len(q))

Unlock(c) == HandOver(holders \ {c}, queue)

-----------------------------------------------------------------------------
Go(c, to) == pc' = [pc EXCEPT ![c] = to]

Ends(c, error) == Go(c, "reply") /\ failed' = [failed EXCEPT ![c] = error]

Begin(c) ==
  /\ pc[c] = "idle"
  /\ op' \in {[op EXCEPT ![c] = o] : o \in Ops}
  /\ Go(c, IF op'[c] = "unload" THEN "cell" ELSE "backend")
  /\ UNCHANGED <<mine, failed, backend, cell, shard, memory, holders, queue>>

AfterBackend(c) == IF op[c] = "pass" THEN "cell" ELSE "open"

\* get_or_try_init: the first call initialises the backend, the others block
\* until it is there or the attempt has failed.
HaveBackend(c) ==
  /\ pc[c] = "backend" /\ backend = "ready"
  /\ Go(c, AfterBackend(c))
  /\ UNCHANGED <<op, mine, failed, backend, cell, shard, memory, holders, queue>>

StartBackend(c) ==
  /\ pc[c] = "backend" /\ backend = "none"
  /\ backend' = "starting"
  /\ Go(c, "init")
  /\ UNCHANGED <<op, mine, failed, cell, shard, memory, holders, queue>>

BackendStarts(c) ==
  /\ pc[c] = "init"
  /\ backend' = "ready"
  /\ Go(c, AfterBackend(c))
  /\ UNCHANGED <<op, mine, failed, cell, shard, memory, holders, queue>>

BackendFails(c) ==
  /\ pc[c] = "init"
  /\ backend' = "none"
  /\ Ends(c, TRUE)
  /\ UNCHANGED <<op, mine, cell, shard, memory, holders, queue>>

-----------------------------------------------------------------------------
\* load_from_file fills memory next to the shard that is loaded.
OpenModel(c) ==
  /\ pc[c] = "open"
  /\ \E m \in Slot \ memory :
       /\ mine' = [mine EXCEPT ![c] = m]
       /\ memory' = memory \cup {m}
  /\ Go(c, "loading")
  /\ UNCHANGED <<op, failed, backend, cell, shard, holders, queue>>

\* There is no such file, or not enough memory.
LoadFails(c) ==
  /\ pc[c] \in {"open", "loading"}
  /\ memory' = memory \ {mine[c]}
  /\ mine' = [mine EXCEPT ![c] = NoModel]
  /\ Ends(c, TRUE)
  /\ UNCHANGED <<op, backend, cell, shard, holders, queue>>

ModelLoaded(c) ==
  /\ pc[c] = "loading"
  /\ Go(c, IF op[c] = "load" THEN "create" ELSE "compute")
  /\ UNCHANGED <<op, mine, failed, backend, cell, shard, memory, holders, queue>>

\* CURRENT_SHARD.get_or_init
CreateCell(c) ==
  /\ pc[c] = "create"
  /\ cell' = TRUE
  /\ Go(c, "request")
  /\ UNCHANGED <<op, mine, failed, backend, shard, memory, holders, queue>>

\* CURRENT_SHARD.get: without a cell there is nothing to unload, and no model to use.
FindCell(c) ==
  /\ pc[c] = "cell"
  /\ IF cell THEN Go(c, "request") /\ UNCHANGED failed ELSE Ends(c, op[c] = "pass")
  /\ UNCHANGED <<op, mine, backend, cell, shard, memory, holders, queue>>

Request(c) ==
  /\ pc[c] = "request"
  /\ HandOver(holders, Append(queue, c))
  /\ Go(c, "lock")
  /\ UNCHANGED <<op, mine, failed, backend, cell, shard, memory>>

\* The new shard, or none, takes the place of the old one, which is freed.
Replace(c) ==
  /\ pc[c] = "lock" /\ c \in holders /\ Writes(c)
  /\ shard' = mine[c]
  /\ memory' = memory \ {shard}
  /\ mine' = [mine EXCEPT ![c] = NoModel]
  /\ Unlock(c)
  /\ Ends(c, FALSE)
  /\ UNCHANGED <<op, backend, cell>>

\* Faulty variant: the pass keeps the model and lets go of the guard.
EnterPassUnlocks(c) ==
  /\ pc[c] = "lock" /\ c \in holders /\ ~Writes(c)
  /\ shard # NoModel
  /\ mine' = [mine EXCEPT ![c] = shard]
  /\ Unlock(c)
  /\ Go(c, "compute")
  /\ UNCHANGED <<op, failed, backend, cell, shard, memory>>

\* The guard is kept until the pass is over.
EnterPass(c) ==
  /\ pc[c] = "lock" /\ c \in holders /\ ~Writes(c)
  /\ shard # NoModel
  /\ mine' = [mine EXCEPT ![c] = shard]
  /\ Go(c, "compute")
  /\ UNCHANGED <<op, failed, backend, cell, shard, memory, holders, queue>>

NoShardLoaded(c) ==
  /\ pc[c] = "lock" /\ c \in holders /\ ~Writes(c)
  /\ shard = NoModel
  /\ Unlock(c)
  /\ Ends(c, TRUE)
  /\ UNCHANGED <<op, mine, backend, cell, shard, memory>>

PassEnds(c) ==
  /\ pc[c] = "compute" /\ op[c] = "pass"
  /\ mine' = [mine EXCEPT ![c] = NoModel]
  /\ Unlock(c)
  /\ \E error \in BOOLEAN : Ends(c, error)
  /\ UNCHANGED <<op, backend, cell, shard, memory>>

\* A prompt is answered by a model loaded for it, whatever shard there is.
GenerateEnds(c) ==
  /\ pc[c] = "compute" /\ op[c] = "generate"
  /\ memory' = memory \ {mine[c]}
  /\ mine' = [mine EXCEPT ![c] = NoModel]
  /\ \E error \in BOOLEAN : Ends(c, error)
  /\ UNCHANGED <<op, backend, cell, shard, holders, queue>>

Reply(c) ==
  /\ pc[c] = "reply"
  /\ Go(c, "idle")
  /\ op' = [op EXCEPT ![c] = "none"]
  /\ failed' = [failed EXCEPT ![c] = FALSE]
  /\ UNCHANGED <<mine, backend, cell, shard, memory, holders, queue>>

\* Faulty variant: the place in the queue goes, the lock handed over stays.
CancelKeepsLock(c) ==
  /\ pc[c] = "lock"
  /\ IF c \in holders
       THEN UNCHANGED lockVars
       ELSE \E i \in DOMAIN queue : queue[i] = c /\ HandOver(holders, RemoveAt(queue, i))
  /\ memory' = memory \ {mine[c]}
  /\ mine' = [mine EXCEPT ![c] = NoModel]
  /\ Go(c, "idle")
  /\ op' = [op EXCEPT ![c] = "none"]
  /\ UNCHANGED <<failed, backend, cell, shard>>

\* The handler is dropped where it is suspended, with its model and its place in
\* the queue, also when it has been handed the lock and does not know yet.
Cancel(c) ==
  /\ pc[c] = "lock"
  /\ IF c \in holders
       THEN Unlock(c)
       ELSE \E i \in DOMAIN queue : queue[i] = c /\ HandOver(holders, RemoveAt(queue, i))
  /\ memory' = memory \ {mine[c]}
  /\ mine' = [mine EXCEPT ![c] = NoModel]
  /\ Go(c, "idle")
  /\ op' = [op EXCEPT ![c] = "none"]
  /\ UNCHANGED <<failed, backend, cell, shard>>

\* The code of a call that has begun.
CallStep(c) ==
  \/ HaveBackend(c) \/ StartBackend(c) \/ BackendStarts(c) \/ BackendFails(c)
  \/ OpenModel(c) \/ LoadFails(c) \/ ModelLoaded(c)
  \/ CreateCell(c) \/ FindCell(c) \/ Request(c)
  \/ Replace(c) \/ EnterPass(c) \/ NoShardLoaded(c) \/ PassEnds(c) \/ GenerateEnds(c)
  \/ Reply(c)

ShardNext == \E c \in Call : Begin(c) \/ CallStep(c) \/ Cancel(c)

ShardSpec == ShardInit /\ [][ShardNext]_shardVars

\* Every thread runs, every load and every pass comes to an end.
FairShardSpec == ShardSpec /\ \A c \in Call : WF_shardVars(CallStep(c))
-----------------------------------------------------------------------------
(* Properties.                                                             *)

Passes(c) == pc[c] = "compute" /\ op[c] = "pass"

LockAgrees ==
  /\ Compatible(holders)
  /\ \A c \in holders : pc[c] = "lock" \/ Passes(c)
  /\ \A i \in DOMAIN queue : pc[queue[i]] = "lock" /\ queue[i] \notin holders
  /\ \A i, j \in DOMAIN queue : queue[i] = queue[j] => i = j
  /\ \A c \in Call :
       /\ pc[c] = "lock" => c \in holders \/ \E i \in DOMAIN queue : queue[i] = c
       /\ Passes(c) => c \in holders
  /\ queue # <<>> => ~Compatible(holders \cup {queue[1]})

Owns(c) == op[c] # "pass" /\ mine[c] # NoModel

MemoryAccounted ==
  /\ \A m \in Slot : m \in memory <=> m = shard \/ \E c \in Call : Owns(c) /\ mine[c] = m
  /\ \A c \in Call :
       /\ Owns(c) => mine[c] # shard
       /\ Passes(c) => mine[c] = shard /\ shard # NoModel
  /\ \A c, d \in Call : Owns(c) /\ Owns(d) /\ mine[c] = mine[d] => c = d

\* Which calls have a model of their own, and who may meet the cell.
CallsAgree ==
  \A c \in Call :
    /\ pc[c] = "idle" <=> op[c] = "none"
    /\ pc[c] \in {"backend", "init"} => op[c] # "unload"
    /\ pc[c] \in {"open", "loading", "create"} => op[c] \in {"load", "generate"}
    /\ pc[c] = "create" => op[c] = "load"
    /\ pc[c] \in {"cell", "request", "lock"} => op[c] # "generate"
    /\ pc[c] = "cell" => op[c] # "load"
    /\ pc[c] = "compute" => op[c] \in {"pass", "generate"}
    /\ Owns(c) <=> \/ pc[c] \in {"loading", "create"}
                   \/ pc[c] \in {"request", "lock"} /\ op[c] = "load"
                   \/ pc[c] = "compute" /\ op[c] = "generate"
    /\ op[c] = "pass" /\ ~Passes(c) => mine[c] = NoModel
    /\ pc[c] \in {"request", "lock"} \/ Passes(c) => cell
    /\ pc[c] = "init" => backend = "starting"
    /\ \A d \in Call : pc[c] = "init" /\ pc[d] = "init" => c = d

NothingWithoutCell == ~cell => shard = NoModel

\* Lock, cell, memory and calls agree whenever a call fails, ends or is dropped:
\* nobody who waits is forgotten or passed over, the backend is started by one
\* call at a time, and every model in memory is the shard or belongs to exactly
\* one call (load_shard_model, unload_current_shard, run_forward_pass).
ShardInv ==
  /\ ShardTypeOK
  /\ LockAgrees
  /\ MemoryAccounted
  /\ CallsAgree
  /\ NothingWithoutCell

Status(c) ==
  CASE pc[c] = "idle" -> "idle"
    [] pc[c] = "reply" -> IF failed[c] THEN "failed" ELSE "done"
    [] pc[c] # "idle" /\ pc[c] # "reply" -> IF Passes(c) THEN "using" ELSE "called"

Register ==
  INSTANCE ShardRegister
    WITH Shard <- Slot, NoShard <- NoModel,
         call <- [c \in Call |->
                    [op |-> op[c], status |-> Status(c),
                     uses |-> IF Passes(c) THEN mine[c] ELSE NoModel]]

\* To those who call it the node is a register that holds one shard: a load that
\* is answered has replaced the shard at one moment of the call, one that failed or
\* was cancelled never does, also not later, and a pass works from its beginning to
\* its end on a shard that is loaded, whoever loads and unloads at the same time.
RegisterImplemented == Register!RegisterSpec

\* Once the backend has been started every call comes to its end: no reader or
\* writer waits for ever, though any call may be cancelled while it waits and
\* others keep coming (the fair queue of the RwLock, the guards' scopes).
EveryCallEnds ==
  <>(backend = "ready") => \A c \in Call : pc[c] # "idle" ~> pc[c] = "idle"
=============================================================================
