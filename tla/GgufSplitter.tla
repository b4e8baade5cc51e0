--------------------------- MODULE GgufSplitter ---------------------------
(***************************************************************************)
(* gguf-splitter (tools/gguf-splitter/src/main.rs): which tensors go to     *)
(* which shard, where their data ends up in it, and what runs that fail or  *)
(* are killed half-way leave in the output directory for the runs after     *)
(* them.  A model is what the header tells of it: its list of tensors with  *)
(* their layers and offsets, and the end of the data (GgufFile reads it).   *)
(***************************************************************************)
EXTENDS Integers, Sequences, SequencesExt, FiniteSets

CONSTANTS
  Models,         \* model files: [layer |-> <<...>>, offset |-> <<...>>, end |-> n]
  LayersPerShard, \* values of --layers-per-shard, and of a node config
  ALIGN           \* alignment of a tensor's data, 32 in GGUF

\* The layer of a tensor whose name does not start with "blk.<n>.".
NoLayer == -1

Tensor(m) == DOMAIN m.layer
HasLayers(m) == \E t \in Tensor(m) : m.layer[t] # NoLayer

\* What the format says of a model file: data is aligned and does not overlap.  A
\* file that was cut short may end before the data of its last tensors.
ASSUME SplitAssumption ==
  /\ ALIGN \in Nat \ {0}
  /\ LayersPerShard \subseteq Nat
  /\ \A m \in Models :
       /\ m.layer \in Seq(Nat \cup {NoLayer})
       /\ m.offset \in [Tensor(m) -> Nat]
       /\ \A t \in Tensor(m) : m.offset[t] % ALIGN = 0
       /\ \A t, u \in Tensor(m) : m.offset[t] = m.offset[u] => t = u
       /\ m.end \in Int

\* A file whose header cannot be read.
Unreadable == [layer |-> <<>>, offset |-> <<>>, end |-> 0]

-----------------------------------------------------------------------------
(* The plan.                                                               *)

CountLayers(m) == IF HasLayers(m) THEN 1 + Max({m.layer[t] : t \in Tensor(m)}) ELSE 0

CeilDiv(a, b) == (a + b - 1) \div b

\* A quarter of the layers, unless the options say otherwise.
DefaultLayersPerShard(m) == CeilDiv(CountLayers(m), 4)

NumShards(m, n) == CeilDiv(CountLayers(m), n)

FirstLayer(n, i) == (i - 1) * n

LastLayerTooFar(m, n, i) == Min({FirstLayer(n, i) + n, CountLayers(m) - 1})

LastLayer(m, n, i) == Min({FirstLayer(n, i) + n - 1, CountLayers(m) - 1})

\* The tensors without a layer go with the last shard.
ShardTensors(m, n, i) ==
  {t \in Tensor(m) : \/ m.layer[t] \in FirstLayer(n, i) .. LastLayer(m, n, i)
                     \/ m.layer[t] = NoLayer /\ i = NumShards(m, n)}

-----------------------------------------------------------------------------
(* A shard's layout.                                                       *)

\* The gap to the next tensor, or to the end of the file.
DataSize(m, t) ==
  LET later == {m.offset[u] : u \in {v \in Tensor(m) : m.offset[v] > m.offset[t]}}
  IN  (IF later = {} THEN m.end ELSE Min(later)) - m.offset[t]

\* All of it is in the file.
DataPresent(m, t) == DataSize(m, t) >= 0 /\ m.offset[t] + DataSize(m, t) <= m.end

ListedOrder(T) == SetToSortSeq(T, LAMBDA t, u : t < u)

\* sort_by_key: the k-th has k - 1 of them before it.
Before(m, T, t) == {u \in T : m.offset[u] < m.offset[t]}
InFileOrder(m, T) ==
  [k \in 1 .. Cardinality(T) |-> CHOOSE t \in T : Cardinality(Before(m, T, t)) = k - 1]

AlignUp(x) == CeilDiv(x, ALIGN) * ALIGN

\* new_offsets: aligned, one after the other, in the order of the source file.
NewOffsets(m, T) ==
  LET order == InFileOrder(m, T)
      cur[k \in 1 .. Len(order)] ==
        IF k = 1 THEN 0 ELSE AlignUp(cur[k - 1] + DataSize(m, order[k - 1]))
  IN  [t \in T |-> cur[CHOOSE k \in 1 .. Len(order) : order[k] = t]]

-----------------------------------------------------------------------------
VARIABLES
  model,    \* the source file of this run
  perShard, \* layers_per_shard
  command,  \* --list-tensors, --split, or neither: "plan"
  force,    \* --force
  pc,       \* where the run is
  shard,    \* the shard it is at
  next,     \* the next tensor of that shard, in file order
  found,    \* the shards that existed when the run began
  wrote,    \* the shards this run has created or truncated
  files     \* the output directory

splitVars == <<model, perShard, command, force, pc, shard, next, found, wrote, files>>

Empty == <<>>

\* A shard file: whose it is, has its header been written, its table of offsets,
\* and where data really is.
File(m, n) ==
  [model |-> m, perShard |-> n, header |-> FALSE, table |-> Empty, at |-> Empty, length |-> 0]

\* f with v at x, which need not be there yet.
Put(f, x, v) == [y \in DOMAIN f \cup {x} |-> IF y = x THEN v ELSE f[y]]

\* One file name per shard a model could need.
Shard == UNION {1 .. CountLayers(m) : m \in Models}

Exists(i) == i \in DOMAIN files

\* The list needs no options; layers_per_shard of 0 is refused; a model without
\* layers has no shard.
FirstPc(m, n, c) ==
  CASE m = Unreadable -> "failure"
    [] m # Unreadable /\ c = "list" -> "success"
    [] m # Unreadable /\ c # "list" /\ n = 0 -> "failure"
    [] m # Unreadable /\ c = "plan" /\ n > 0 -> "plan"
    [] OTHER -> IF NumShards(m, n) = 0 THEN "success" ELSE "check"

\* A node config may say how many, and means 10 if it does not.
NodeConfig == LayersPerShard \cup {10}

Options(m) ==
  IF m = Unreadable THEN {0} ELSE LayersPerShard \cup NodeConfig \cup {DefaultLayersPerShard(m)}

SplitTypeOK ==
  /\ model \in Models \cup {Unreadable}
  /\ perShard \in Options(model)
  /\ command \in {"list", "plan", "split"}
  /\ force \in BOOLEAN
  /\ pc \in {"plan", "check", "create", "table", "data", "success", "failure"}
  /\ shard \in Nat
  /\ next \in Nat
  /\ found \subseteq Shard
  /\ wrote \subseteq Shard
  /\ DOMAIN files \subseteq Shard
  /\ \A i \in DOMAIN files :
       /\ files[i].model \in Models
       /\ DOMAIN files[i].at \subseteq Tensor(files[i].model)

\* The first run, on a file that holds m.
FirstRunOn(m) ==
  /\ model = m
  /\ perShard \in Options(m)
  /\ command \in {"list", "plan", "split"}
  /\ force \in BOOLEAN
  /\ pc = FirstPc(m, perShard, command)
  /\ shard = 1
  /\ next = 1
  /\ found = {}
  /\ wrote = {}
  /\ files = Empty

SplitInit == \E m \in Models \cup {Unreadable} : FirstRunOn(m)

\* The tool is run again in the same directory, on a file that holds m.
RunOn(m) ==
  /\ pc \in {"success", "failure"}
  /\ model' = m
  /\ perShard' \in Options(m)
  /\ command' \in {"list", "plan", "split"}
  /\ force' \in BOOLEAN
  /\ pc' = FirstPc(m, perShard', command')
  /\ shard' = 1
  /\ next' = 1
  /\ found' = DOMAIN files
  /\ wrote' = {}
  /\ UNCHANGED files

Rerun == \E m \in Models \cup {Unreadable} : RunOn(m)

\* Without --split the plan goes to split_plan.json, which no run reads.
WritePlan ==
  /\ pc = "plan"
  /\ pc' = "success"
  /\ UNCHANGED <<model, perShard, command, force, shard, next, found, wrote, files>>

Tens == ShardTensors(model, perShard, shard)
Order == InFileOrder(model, Tens)

\* Faulty variant: a shard that is there already is kept, as if to resume.
CheckExistsResumes ==
  /\ pc = "check"
  /\ IF Exists(shard) /\ ~force
       THEN IF shard = NumShards(model, perShard)
              THEN pc' = "success" /\ UNCHANGED shard
              ELSE shard' = shard + 1 /\ UNCHANGED pc
       ELSE pc' = "create" /\ UNCHANGED shard
  /\ UNCHANGED <<model, perShard, command, force, next, found, wrote, files>>

\* Faulty variant: the last shard is looked for, as the sign of an earlier split.
CheckLastExists ==
  /\ pc = "check"
  /\ pc' = IF Exists(NumShards(model, perShard)) /\ ~force THEN "failure" ELSE "create"
  /\ UNCHANGED <<model, perShard, command, force, shard, next, found, wrote, files>>

\* path.exists() && !args.force
CheckExists ==
  /\ pc = "check"
  /\ pc' = IF Exists(shard) /\ ~force THEN "failure" ELSE "create"
  /\ UNCHANGED <<model, perShard, command, force, shard, next, found, wrote, files>>

\* File::create truncates what is there.
Create ==
  /\ pc = "create"
  /\ files' = Put(files, shard, File(model, perShard))
  /\ wrote' = wrote \cup {shard}
  /\ pc' = "table"
  /\ UNCHANGED <<model, perShard, command, force, shard, next, found>>

\* The header, the metadata, the table of tensors and the padding after it.
WriteTable ==
  /\ pc = "table"
  /\ files' = [files EXCEPT ![shard].header = TRUE,
                            ![shard].table = NewOffsets(model, Tens)]
  /\ next' = 1
  /\ pc' = "data"
  /\ UNCHANGED <<model, perShard, command, force, shard, found, wrote>>

\* Faulty variant: data is written in the order of the table.
WriteDataAsListed ==
  /\ pc = "data"
  /\ next \in 1 .. Len(Order)
  /\ LET t == ListedOrder(Tens)[next] IN
       files' = [files EXCEPT ![shard].at = Put(@, t, files[shard].length),
                              ![shard].length = @ + DataSize(model, t)]
  /\ next' = next + 1
  /\ UNCHANGED <<model, perShard, command, force, pc, shard, found, wrote>>

\* A tensor's data is appended to the file as it is, without padding.  The slice
\* of a tensor that goes beyond the end of the file panics.
WriteData ==
  /\ pc = "data"
  /\ next \in 1 .. Len(Order)
  /\ DataPresent(model, Order[next])
  /\ LET t == Order[next] IN
       files' = [files EXCEPT ![shard].at = Put(@, t, files[shard].length),
                              ![shard].length = @ + DataSize(model, t)]
  /\ next' = next + 1
  /\ UNCHANGED <<model, perShard, command, force, pc, shard, found, wrote>>

\* Faulty variant: one shard too many.
NextShardTooFar ==
  /\ pc = "data"
  /\ next > Len(Order)
  /\ IF shard > NumShards(model, perShard)
       THEN pc' = "success" /\ UNCHANGED shard
       ELSE pc' = "check" /\ shard' = shard + 1
  /\ UNCHANGED <<model, perShard, command, force, next, found, wrote, files>>

NextShard ==
  /\ pc = "data"
  /\ next > Len(Order)
  /\ IF shard = NumShards(model, perShard)
       THEN pc' = "success" /\ UNCHANGED shard
       ELSE pc' = "check" /\ shard' = shard + 1
  /\ UNCHANGED <<model, perShard, command, force, next, found, wrote, files>>

\* A write fails, the process panics, or it is killed.
Abort ==
  /\ pc \notin {"success", "failure"}
  /\ pc' = "failure"
  /\ UNCHANGED <<model, perShard, command, force, shard, next, found, wrote, files>>

\* The steps of one run.
RunStep ==
  WritePlan \/ CheckExists \/ Create \/ WriteTable \/ WriteData \/ NextShard \/ Abort

SplitNext == RunStep \/ Rerun

SplitSpec == SplitInit /\ [][SplitNext]_splitVars

-----------------------------------------------------------------------------
(* Properties.                                                             *)

\* A shard file that a reader finds complete.  Where the numbers of the layers have
\* a gap it may be one without a tensor.
Whole(i) ==
  /\ Exists(i)
  /\ files[i].header
  /\ DOMAIN files[i].at = DOMAIN files[i].table
  /\ DOMAIN files[i].table = ShardTensors(files[i].model, files[i].perShard, i)

\* A run that succeeds leaves every shard of its plan whole and made by this
\* plan from this model, whatever earlier runs left half-written or of another
\* plan in the directory (main's loop over the shards).
SuccessIsWhole ==
  pc = "success" /\ command = "split" =>
    \A i \in 1 .. NumShards(model, perShard) :
      Whole(i) /\ files[i].model = model /\ files[i].perShard = perShard

\* And every tensor of a model with layers is in exactly one of its shards
\* (get_shard_tensor_indices, for the plan main prints).
EveryTensorOnce ==
  pc = "success" /\ command = "split" /\ HasLayers(model) =>
    \A t \in Tensor(model) :
      \E i \in 1 .. NumShards(model, perShard) :
        \A j \in 1 .. NumShards(model, perShard) : t \in DOMAIN files[j].table <=> i = j

\* The table of a shard points at the data: in every file, however far it was
\* written, a tensor's data begins where its offset says, though new_offsets are
\* aligned and the data is appended without padding (write_shard).
TablePointsAtData ==
  \A i \in DOMAIN files :
    \A t \in DOMAIN files[i].at : files[i].at[t] = files[i].table[t]

\* Without --force a run touches no shard it has found, also when it fails at
\* the second or a later one ("Use --force to overwrite"), and neither does a run
\* that only lists or plans.
FoundShardsSurvive == ~force \/ command # "split" => found \cap wrote = {}
=============================================================================
