--------------------------- MODULE ShardRegister ---------------------------
(***************************************************************************)
(* What a node agent promises about its one shard to those who call it:     *)
(* every call takes effect at one moment between its beginning and its end, *)
(* or not at all, and the shard does not change under a forward pass.       *)
(***************************************************************************)
CONSTANTS Call, Shard, NoShard

VARIABLES
  shard, \* the loaded shard
  call   \* what each call wants, how far it is, and the shard it uses

Idle == [op |-> "none", status |-> "idle", uses |-> NoShard]

RegisterInit ==
  /\ shard = NoShard
  /\ call = [c \in Call |-> Idle]

InUse == \E c \in Call : call[c].status = "using"

Invoke(c) ==
  /\ call[c] = Idle
  /\ \E op \in {"load", "pass", "unload", "generate"} :
       call' = [call EXCEPT ![c] = [Idle EXCEPT !.op = op, !.status = "called"]]
  /\ UNCHANGED shard

\* The one moment at which a load or an unload has its effect.
Write(c) ==
  /\ call[c].op \in {"load", "unload"} /\ call[c].status = "called"
  /\ ~InUse
  /\ shard' \in IF call[c].op = "load" THEN Shard \ {shard} ELSE {NoShard}
  /\ call' = [call EXCEPT ![c].status = "done"]

\* A forward pass begins with the shard that is loaded, and holds on to it.
Use(c) ==
  /\ call[c].op = "pass" /\ call[c].status = "called"
  /\ shard # NoShard
  /\ call' = [call EXCEPT ![c].status = "using", ![c].uses = shard]
  /\ UNCHANGED shard

\* A pass ends, or a prompt is answered, with a model of its own.
Finish(c) ==
  /\ \/ call[c].status = "using" /\ call[c].uses = shard
     \/ call[c].op = "generate" /\ call[c].status = "called"
  /\ call' = [call EXCEPT ![c].status = "done", ![c].uses = NoShard]
  /\ UNCHANGED shard

\* A call that fails has had no effect.
Fail(c) ==
  /\ call[c].status \in {"called", "using"}
  /\ call' = [call EXCEPT ![c].status = "failed", ![c].uses = NoShard]
  /\ UNCHANGED shard

\* The caller hears of the end, or has gone away before the call had an effect.
Return(c) ==
  /\ call[c].status \in {"called", "done", "failed"}
  /\ call' = [call EXCEPT ![c] = Idle]
  /\ UNCHANGED shard

RegisterNext ==
  \E c \in Call :
    Invoke(c) \/ Write(c) \/ Use(c) \/ Finish(c) \/ Fail(c) \/ Return(c)

RegisterSpec == RegisterInit /\ [][RegisterNext]_<<shard, call>>
=============================================================================
