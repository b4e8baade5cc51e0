------------------------------ MODULE Pipeline ------------------------------
(***************************************************************************)
(* InferencePipeline.run_stream (orchestrator/src/arcflare/inference/      *)
(* pipeline.py): the chain of inference modes a request falls through, the *)
(* one-shot llama-cli process, and the gRPC connections and shard loads    *)
(* that requests share.                                                    *)
(*                                                                         *)
(* What happens inside a mode is left open here: mode 1 is the module      *)
(* LlamaServer, the ForwardStream call of mode 3 the module ForwardStream. *)
(***************************************************************************)
EXTENDS Integers, Sequences, FiniteSets

CONSTANTS
  Request,     \* coroutines that may be inside run_stream
  Node,        \* node ids
  NodeLists,   \* what discovery_service.get_nodes() may return: sequences of nodes
  LayerCounts  \* what _get_model_layer_count may return

ASSUME PipelineAssumption ==
  /\ LayerCounts \subseteq Nat \ {0}
  /\ NodeLists \subseteq Seq(Node)
  /\ <<>> \in NodeLists
  /\ \A list \in NodeLists : \A i, j \in DOMAIN list : list[i] = list[j] => i = j

\* The modes, in the order they are tried.
Server == 1
Cli == 2
Grpc == 3
Stub == 4

VARIABLES
  hasCli,      \* is there a llama-cli binary?  The first lookup is cached
  layers,      \* layers of the model
  modelFile,   \* is there a .gguf file in the models directory now?
  connections, \* InferencePipeline.node_connections: never removed
  pc,          \* where each request is
  found,       \* did the request find a model file when it began?
  list,        \* the nodes with an address and a gRPC port that it was given
  at,          \* its position in that list
  loaded,      \* positions whose load_shard has succeeded
  child,       \* its llama-cli process
  answer,      \* the parts of its answer: the mode, and is the part whole?
  outcome      \* how its last run ended

setup == <<hasCli, layers>>
locals == <<found, list, at, loaded>>
pipelineVars ==
  <<setup, modelFile, connections, pc, locals, child, answer, outcome>>

Location ==
  {"idle", "server", "spawning", "cli", "emitting", "reaping", "connecting",
   "reconnecting", "loading", "grpc", "stub"}

AnswerPart == [mode : Server .. Stub, whole : BOOLEAN]

PipelineTypeOK ==
  /\ {hasCli, modelFile} \subseteq BOOLEAN
  /\ layers \in LayerCounts
  /\ connections \subseteq Node
  /\ pc \in [Request -> Location]
  /\ found \in [Request -> BOOLEAN]
  /\ list \in [Request -> NodeLists]
  /\ at \in [Request -> Nat]
  /\ loaded \in [Request -> SUBSET Nat]
  /\ \A r \in Request : at[r] \in 1 .. Len(list[r]) + 1 /\ loaded[r] \subseteq DOMAIN list[r]
  /\ child \in [Request -> {"none", "running", "killed", "exited"}]
  /\ answer \in [Request -> Seq(AnswerPart)]
  /\ outcome \in [Request -> {"none", "answered", "cancelled"}]

PipelineInit ==
  /\ hasCli \in BOOLEAN
  /\ layers \in LayerCounts
  /\ modelFile \in BOOLEAN
  /\ connections = {}
  /\ pc = [r \in Request |-> "idle"]
  /\ found = [r \in Request |-> FALSE]
  /\ list = [r \in Request |-> <<>>]
  /\ at = [r \in Request |-> 1]
  /\ loaded = [r \in Request |-> {}]
  /\ child = [r \in Request |-> "none"]
  /\ answer = [r \in Request |-> <<>>]
  /\ outcome = [r \in Request |-> "none"]

Go(r, location) == pc' = [pc EXCEPT ![r] = location]

\* Faulty variant: the place in the list outlives the list.
OverKeepsPlace(r) ==
  /\ Go(r, "idle")
  /\ found' = [found EXCEPT ![r] = FALSE]
  /\ list' = [list EXCEPT ![r] = <<>>]
  /\ loaded' = [loaded EXCEPT ![r] = {}]
  /\ UNCHANGED at

\* The coroutine is over, and its locals with it.
Over(r) ==
  /\ Go(r, "idle")
  /\ found' = [found EXCEPT ![r] = FALSE]
  /\ list' = [list EXCEPT ![r] = <<>>]
  /\ at' = [at EXCEPT ![r] = 1]
  /\ loaded' = [loaded EXCEPT ![r] = {}]

-----------------------------------------------------------------------------
(* The chain.  A mode that fails, by an exception or by not being there,    *)
(* hands the request to the next one; one that ends ends the request.       *)

AfterCli(nodes) == IF nodes # <<>> THEN "connecting" ELSE "stub"
AfterServer(file, nodes) == IF file /\ hasCli THEN "spawning" ELSE AfterCli(nodes)

\* The llama-server binary is looked for anew by each request: it may have come or gone.
Arrive(r) ==
  /\ pc[r] = "idle"
  /\ \E nodes \in NodeLists, available \in BOOLEAN :
       /\ list' = [list EXCEPT ![r] = nodes]
       /\ Go(r, IF modelFile /\ available THEN "server" ELSE AfterServer(modelFile, nodes))
  /\ found' = [found EXCEPT ![r] = modelFile]
  /\ UNCHANGED <<at, loaded>>
  /\ child' = [child EXCEPT ![r] = "none"]
  /\ answer' = [answer EXCEPT ![r] = <<>>]
  /\ outcome' = [outcome EXCEPT ![r] = "none"]
  /\ UNCHANGED <<setup, modelFile, connections>>

\* A piece of text of a mode reaches the caller: a part of the answer that is not
\* whole yet.
Part(r, mode) ==
  IF answer[r] # <<>> /\ answer[r][Len(answer[r])].mode = mode
    THEN answer[r]
    ELSE Append(answer[r], [mode |-> mode, whole |-> FALSE])

Emits(r, mode) ==
  /\ answer' = [answer EXCEPT ![r] = Part(r, mode)]
  /\ UNCHANGED <<setup, modelFile, connections, pc, locals, child, outcome>>

\* The mode ends without an exception, and its part of the answer is whole.
Completes(r, mode) ==
  answer' = [answer EXCEPT ![r] = [Part(r, mode) EXCEPT ![Len(Part(r, mode))].whole = TRUE]]

\* Faulty variant: the request goes on after a mode that has ended.
EndsGoesOn(r, mode) ==
  /\ Completes(r, mode)
  /\ IF mode = Stub
       THEN Over(r) /\ outcome' = [outcome EXCEPT ![r] = "answered"]
       ELSE Go(r, "stub") /\ UNCHANGED <<locals, outcome>>
  /\ UNCHANGED <<setup, modelFile, connections, child>>

Ends(r, mode) ==
  /\ Completes(r, mode)
  /\ Over(r)
  /\ outcome' = [outcome EXCEPT ![r] = "answered"]
  /\ UNCHANGED <<setup, modelFile, connections, child>>

Moves(r, location) ==
  /\ Go(r, location)
  /\ UNCHANGED <<setup, modelFile, connections, locals, child, answer, outcome>>

ServerMode(r) ==
  /\ pc[r] = "server"
  /\ Emits(r, Server) \/ Ends(r, Server) \/ Moves(r, AfterServer(found[r], list[r]))

StubMode(r) ==
  /\ pc[r] = "stub"
  /\ Emits(r, Stub) \/ Ends(r, Stub)

-----------------------------------------------------------------------------
(* Mode 2: one llama-cli process per request.                              *)

CliSpawns(r) ==
  /\ pc[r] = "spawning"
  /\ child' = [child EXCEPT ![r] = "running"]
  /\ Go(r, "cli")
  /\ UNCHANGED <<setup, modelFile, connections, locals, answer, outcome>>

CliSpawnFails(r) == pc[r] = "spawning" /\ Moves(r, AfterCli(list[r]))

\* The process ends, of itself or of SIGKILL, and the event loop sets returncode.
CliExits(r) ==
  /\ child[r] \in {"running", "killed"}
  /\ child' = [child EXCEPT ![r] = "exited"]
  /\ UNCHANGED <<setup, modelFile, connections, pc, locals, answer, outcome>>

\* communicate() returns: with status 0 the output follows.
CliReturns(r) ==
  /\ pc[r] = "cli"
  /\ child[r] = "exited"
  /\ Moves(r, "emitting") \/ Moves(r, AfterCli(list[r]))

CliEmits(r) ==
  /\ pc[r] = "emitting"
  /\ Emits(r, Cli) \/ Ends(r, Cli)

\* finally: a child without a returncode is killed and waited for.
Kill(r) == child' = [child EXCEPT ![r] = IF @ = "running" THEN "killed" ELSE @]

\* Faulty variant: the output is waited for as long as it takes.
CliTimeoutNever(r) == pc[r] = "cli" /\ FALSE /\ UNCHANGED pipelineVars

\* wait_for gives up after 600 seconds.
CliTimeout(r) ==
  /\ pc[r] = "cli"
  /\ Kill(r)
  /\ Go(r, "reaping")
  /\ UNCHANGED <<setup, modelFile, connections, locals, answer, outcome>>

\* proc.wait() returns: on to the next mode, or the cancellation goes on.
Reaped(r) ==
  /\ pc[r] = "reaping"
  /\ child[r] = "exited"
  /\ IF outcome[r] = "cancelled"
       THEN Over(r) /\ UNCHANGED <<setup, modelFile, connections, child, answer, outcome>>
       ELSE Moves(r, AfterCli(list[r]))

CliMode(r) ==
  \/ CliSpawns(r) \/ CliSpawnFails(r) \/ CliReturns(r) \/ CliEmits(r)
  \/ CliTimeout(r) \/ Reaped(r)

-----------------------------------------------------------------------------
(* Mode 3: the nodes.                                                      *)

AtNode(r) == list[r][at[r]]
Connecting(r) == pc[r] \in {"connecting", "reconnecting"} /\ at[r] <= Len(list[r])

\* _connect_to_nodes asks a node that has no connection; the answer comes later,
\* and another request may have connected to it meanwhile.
Connect(r) ==
  /\ Connecting(r)
  /\ \/ UNCHANGED connections                            \* connected, or no answer
     \/ AtNode(r) \notin connections /\ connections' = connections \cup {AtNode(r)}
  /\ at' = [at EXCEPT ![r] = @ + 1]
  /\ UNCHANGED <<setup, modelFile, pc, found, list, loaded, child, answer, outcome>>

\* run_stream goes on with any connection, also to a node that is not in its
\* list; _distributed_inference looks the model up and connects once more.  The
\* layer count needs the file again, unless it is cached.
AfterConnecting(r) ==
  IF pc[r] = "connecting"
    THEN {IF connections # {} /\ modelFile THEN "reconnecting" ELSE "stub"}
    ELSE {"loading"} \cup (IF modelFile THEN {} ELSE {"stub"})

Connected(r) ==
  /\ pc[r] \in {"connecting", "reconnecting"}
  /\ at[r] > Len(list[r])
  /\ at' = [at EXCEPT ![r] = 1]
  /\ \E location \in AfterConnecting(r) : Go(r, location)
  /\ UNCHANGED <<setup, modelFile, connections, found, list, loaded, child, answer, outcome>>

\* The layers the node at a position of a list of n is given.
SliceWithoutRest(n, i) == LET per == layers \div n IN (i - 1) * per .. i * per - 1

Slice(n, i) ==
  LET per == layers \div n
      first == (i - 1) * per
      num == IF i = n THEN layers - first ELSE per
  IN  first .. first + num - 1

\* load_shard on the next node, which a node without connection is not asked.
LoadShard(r) ==
  /\ pc[r] = "loading"
  /\ at[r] <= Len(list[r])
  /\ \/ UNCHANGED loaded
     \/ AtNode(r) \in connections /\ loaded' = [loaded EXCEPT ![r] = @ \cup {at[r]}]
  /\ at' = [at EXCEPT ![r] = @ + 1]
  /\ UNCHANGED <<setup, modelFile, connections, pc, found, list, child, answer, outcome>>

\* One loaded shard is enough to go on.
ShardsLoaded(r) ==
  /\ pc[r] = "loading"
  /\ at[r] > Len(list[r])
  /\ Moves(r, IF loaded[r] # {} THEN "grpc" ELSE "stub")

\* ForwardStream to one connected node.
GrpcMode(r) ==
  /\ pc[r] = "grpc"
  /\ Emits(r, Grpc) \/ Ends(r, Grpc) \/ Moves(r, "stub")

NodesMode(r) == Connect(r) \/ Connected(r) \/ LoadShard(r) \/ ShardsLoaded(r) \/ GrpcMode(r)

-----------------------------------------------------------------------------
\* Faulty variant: only a timeout kills the child.
CancelLeavesChild(r) ==
  /\ pc[r] # "idle"
  /\ outcome' = [outcome EXCEPT ![r] = "cancelled"]
  /\ Over(r)
  /\ UNCHANGED <<setup, modelFile, connections, child, answer>>

\* The caller goes away: CancelledError at the await, GeneratorExit at the yield.
\* While llama-cli runs the finally block still waits for it, unless that is
\* cancelled as well.
Cancel(r) ==
  /\ pc[r] # "idle"
  /\ outcome' = [outcome EXCEPT ![r] = "cancelled"]
  /\ Kill(r)
  /\ IF pc[r] = "cli" /\ child[r] = "running"
       THEN Go(r, "reaping") /\ UNCHANGED locals
       ELSE Over(r)
  /\ UNCHANGED <<setup, modelFile, connections, answer>>

\* Somebody adds or removes the model file.
ModelFileChanges ==
  /\ modelFile' = ~modelFile
  /\ UNCHANGED <<setup, connections, pc, locals, child, answer, outcome>>

Step(r) == ServerMode(r) \/ CliMode(r) \/ NodesMode(r) \/ StubMode(r)

PipelineNext ==
  \/ ModelFileChanges
  \/ \E r \in Request : Arrive(r) \/ Step(r) \/ CliExits(r) \/ Cancel(r)

PipelineSpec == PipelineInit /\ [][PipelineNext]_pipelineVars

\* A coroutine that can go on does, and every await of the modes ends by itself
\* or by its timeout; a process that is killed ends.
PipelineFairness ==
  \A r \in Request :
    /\ WF_pipelineVars(Step(r))
    /\ WF_pipelineVars(child[r] = "killed" /\ CliExits(r))

FairPipelineSpec == PipelineSpec /\ PipelineFairness

-----------------------------------------------------------------------------
(* Properties.                                                             *)

\* Whatever fails on the way, the parts of an answer come from later and later
\* modes, only the last of them is whole, and an answered request has one that
\* is: no mode speaks twice or after another has ended, and no request ends as
\* answered with a cut-off text alone (run_stream).
AnswerIsWhole ==
  \A r \in Request :
    /\ \A i \in 1 .. Len(answer[r]) - 1 :
         answer[r][i].mode < answer[r][i + 1].mode /\ ~answer[r][i].whole
    /\ outcome[r] = "answered" => answer[r] # <<>> /\ answer[r][Len(answer[r])].whole

\* No llama-cli outlives its request: it has ended or SIGKILL is on its way, on
\* an answer, on a timeout and on a cancellation ("always reap the child").
NoChildLeft ==
  \A r \in Request :
    pc[r] \notin {"cli", "reaping"} => child[r] # "running"

\* When every node of the list has loaded its shard the shards are the whole
\* model and do not overlap, also with fewer layers than nodes.
SlicesCoverModel ==
  \A r \in Request :
    LET n == Len(list[r]) IN
    pc[r] = "grpc" /\ loaded[r] = 1 .. n =>
      \A layer \in 0 .. layers - 1 : Cardinality({i \in 1 .. n : layer \in Slice(n, i)}) = 1

\* Every request ends, whatever its nodes, processes and caller do.
EveryRequestIsOver == \A r \in Request : pc[r] # "idle" ~> pc[r] = "idle"
=============================================================================
