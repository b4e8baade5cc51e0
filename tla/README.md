# ArcFlare in TLA+

This directory specifies ArcFlare, a distributed LLM inference system for old
hardware, in TLA+: the node registry and its health monitor, the node agents and
their child processes, the persistent model server, the chain of inference modes,
the token stream from a node, the one shard a node keeps for all callers, the
distribution of a model's layers, the tool that splits model files, byte by byte
where it reads them, and the tuning, auditing and detection of the machine under
an agent. TLC checks the modules on small instances; TLAPS checks
proofs that hold for every value of the constants.

Paths are relative to the repository; `discovery.py` stands for
`orchestrator/src/arcflare/cluster/discovery.py`, and so on for unique names.

## 1. The system

| Component | Source | State | Operations |
|---|---|---|---|
| Node registry | `discovery.py` | `nodes`: node_id → NodeInfo (address, ports, hardware, status, failures, last_seen) | UDP heartbeats, getters that prune |
| Health monitor | `discovery.py` | the round's snapshot, the probe awaited | `check_all_nodes`, `health_loop` |
| Management API | `management.py` | none of its own | `register_node`, getters, status |
| Orchestrator life cycle | `main.py` | the background tasks | start of the tasks, shutdown |
| Model server manager | `llama_server.py` | `_proc`, `_config`, the lock, the process | `ensure`, `stream_completion`, `stop` |
| Inference pipeline | `pipeline.py` | `node_connections`, the manager | `run_stream` with four modes |
| gRPC client | `grpc_client.py` | channel and stub | connect, load, stream, close |
| Partitioning | `partition.py` | none (an algorithm) | `calculate_partition` |
| Topology | `topology.py` | latencies | `get_fastest_path` (no caller) |
| Node agent | `node-agent/src/main.rs` | its progress, its children | start, register, serve, clean up |
| rpc-server owner | `inference/rpc.rs` | the child handle | start, stop |
| Broadcaster | `network/discovery.rs` | shutdown flag | a heartbeat every 5 s |
| gRPC service | `network/grpc_server.rs` | statistics | the handlers of every call below |
| Shard state | `inference/model.rs`, `forward.rs`, `shard.rs` | the llama backend, `CURRENT_SHARD` under its RwLock, the models in memory | load, pass, unload, generate |
| GGUF splitter | `tools/gguf-splitter` | files | plan and write shards |
| Hardware, drivers | `hardware/*`, `drivers/check.rs` | the report made at the start | detect, audit, benchmark |
| Tuning, overclocking | `tuning/*`, `overclocking/*` | the operating system's settings | `apply_tuning`, the performance modes, `monitor_stats` |
| Dashboard, CLI, generated code | `api/dashboard.py`, `cli/`, `arcflare_pb2*` | none | presentation |

How they interact:

* An agent starts its `llama-rpc-server` child, announces itself by UDP
  broadcast every 5 seconds and registers once over HTTP.
* The orchestrator's event loop runs the UDP handler, the HTTP handlers and the
  monitor as coroutines over one dictionary. The monitor takes a snapshot of the
  entries and awaits one TCP probe after the other; everything else runs
  meanwhile and may replace or delete the entries the snapshot refers to.
* A request reads the endpoints from the registry (which prunes it), has
  `ensure()` start or reuse the one `llama-server` with these endpoints, and
  streams from its port. The client may go away at any await.
* When the server fails or is missing, the request falls through a one-shot
  `llama-cli`, a gRPC stream from one node, and a stub text. The connections to
  the nodes are shared by all requests; a node's generation runs on a thread of
  its own and reaches the request through a channel, a network and a generator.
* The calls to a node meet at two things: the shard in its RwLock, and the
  operating system, which handlers read and write with blocking commands on the
  worker threads that also run the broadcaster.

What is hard: stale objects across awaits, an exception in the middle of a
round, probes that say nothing, two clocks (monitor and pruner) that must fit,
late and lost heartbeats, agents that die without their cleanup, hosts that
lose power or come back elsewhere, requests cancelled while they hold the lock
of a process that starts or stops, children that must be reaped on every way out,
a thread that blocks on a channel nobody reads, answers cut off half-way that must
not pass for whole ones, files left half-written by a run that was killed, a
search for the beginning of a table in bytes that may mislead it, handlers dropped
in a queue for a lock, and several handlers that change one kernel.

What makes each component correct:

| Component | Properties |
|---|---|
| Registry and monitor | consistent across awaits; a node leaves only for refused checks or silence; nobody is starved of probes |
| Agents and network | what stays on a host fits what the agent did; crashed nodes leave, serving ones come back |
| Model server manager | one server, for one configuration; `ensure()` says True only when it is ready; nothing stays after the shutdown; no request waits for ever |
| Pipeline | an answer ends with a whole part, modes in order; no child is left; the slices cover the model |
| ForwardStream | a normal end means a complete answer; the generation thread gets free |
| Partitioning | every layer on one node, none beyond the model where the shares suffice, more to the more capable |
| Shard state | callers see a register: one moment of effect or none, no change under a pass; memory is accounted for; every call ends |
| Tuning and audit | a reply accounts for what was asked and claims nothing undone; the audit agrees with the detection; blocking handlers do not stop the agent |
| Splitter | the header is read right however the file was cut; every tensor in one shard, offsets that point at the data, no half-written shard after a success |

## 2. Modules

| Module | What it is |
|---|---|
| `Discovery` | registry and monitor in an open environment: any message, registration, prune or probe answer at any time |
| `NodeAgent` | the agents, their hosts, children and heartbeats |
| `Cluster` | both composed, with the network between them |
| `ClusterProofs` | the theorems about these three |
| `HealthTiming` | the clocks of monitor and pruner, in time units |
| `LlamaServer` | `LlamaServerManager` and the requests that share it |
| `ModelServer` | what the manager promises: one configuration at a time |
| `OrchestratorProofs` | the theorems about `HealthTiming` and `LlamaServer`, which share no variable |
| `Partition`, `PartitionProofs` | `calculate_partition` with its loops |
| `Pipeline`, `PipelineProofs` | `run_stream`: the four modes, `llama-cli` children, connections, shard loads |
| `ForwardStream` | one streaming call from the generating thread on a node to the caller |
| `ShardService`, `ShardServiceProofs` | the shard of a node, its RwLock and the calls that share it |
| `ShardRegister` | what the node promises its callers: a register of one shard |
| `GgufSplitter`, `GgufSplitterProofs` | `gguf-splitter`, run again and again in one directory: plan, layout, files |
| `GgufFile`, `GgufFileProofs` | the same tool on the bytes of its input and its shards |
| `Machine` | tuning, performance modes, audit, detection and the runtime's worker threads |
| `GrpcServerProofs` | the theorems about `ForwardStream` and `Machine`, which share no variable |
| `MC*` | the instances for TLC; the `.cfg` files give the constants |

`Cluster` composes `Discovery` and `NodeAgent`; `GgufFile` extends `GgufSplitter`
and gives it the model that is read from a file. `ShardService` implements
`ShardRegister`, as `LlamaServer` does `ModelServer`. `LlamaServer` is mode 1 and
`ForwardStream` the stream of mode 3 of `Pipeline`, which leaves open what
happens inside them: a mode emits text, ends, or fails.

Definitions named in comments as *faulty variants* are wrong versions of the
definition that follows them. No behaviour uses them; each was put in the place
of the right one to see that the property of a run then fails.

### Discovery

An asyncio handler is atomic up to its next await, so an action is a handler, and
`check_all_nodes` is one action for each resumption after a probe: `StartRound`,
then `FinishOpen`, `FinishBusy`, `FinishRefused`, `DropNode` or `AbortRound`,
each of which goes on to start the next probe (`ProbeNext`).

| State | Code |
|---|---|
| `nodes` | `DiscoveryService.nodes`; `Absent` where there is no key |
| `before` | the dictionary's insertion order, which the snapshot iterates in |
| `todo`, `snapshot`, `probe` | the rest of `list(self.nodes.items())`, its order, and the awaited probe with the endpoint read before it |
| `detached` | the snapshot's object of a node where it is no longer the registry's entry; only what the round still uses of it |
| `running`, `udp` | `_running`, the transport |
| `refused` | history only: how many checks of an identifier in a row were refused |

NodeInfo keeps what decisions depend on: the address, whether there is an
rpc_port, whether hardware is known, failures, status, and the age of last_seen.
Ages saturate one above the timeout; beyond it the pruner sees no difference.
A failed registration (validation, 503) changes nothing and is left out, and so
is a malformed heartbeat.

### NodeAgent and Cluster

`main()` is a sequence of three stages in which other things can happen:
the registration request, the time after it, and serving. SIGTERM before the
serving stage is `Terminate` (its handlers are not installed yet, so nothing is
cleaned up), later it is `Shutdown`. A child that was not stopped becomes the
host's `orphan` and keeps the port; the next agent's own child then exits.
`wire` is a set: heartbeats may be delivered late, in any order, or lost.

`Cluster` replaces the open environment: `Deliver`, `Register` and
`AnswerFromNetwork` are joint steps of both modules. A probe is answered by what
listens on the probed address at the moment of the answer: a listening port
accepts or lets the probe time out (backlog of 1), a powered host without
listener refuses, an address without host never answers.

### HealthTiming

Only the times matter here, in half seconds (so that 2, 10 and 15 seconds have
room for steps in between). Nodes are alive but no heartbeat reaches the
orchestrator: the case in which `start()` could not bind the UDP port and says
"Nodes must register manually", or in which broadcasts do not cross the network.
There are `N` of them, any number up to `MAX_NODES`. A node that is pruned during
a round is in its snapshot and still probed, which takes its time.

### LlamaServer

A request is at one of the awaits of `run_stream` → `ensure` →
`stream_completion`. The lock is first come, first served (`ahead`, `holder`).
`Cancel` ends a request at any await, as `CancelledError` passes every
`except Exception`: the lock is released, the process and the handle stay.
Processes are separate from what the event loop knows of them (`zombie` →
`reaped`). `Slot` has more members than there are requests, so a name is free
whenever a process is created; `ServerInv` shows that only one is in use.
The answer of `/health` and the coroutine that gets it are two moments (`HealthOk`,
then `Granted`): `_wait_healthy` does not look at `returncode` again in between.
`StreamBreaks` is every end of a stream by an error: of the server, of HTTP, or the
timeout of 600 s.

### Partition

Each turn of an adjustment loop is a step. Scores are the input. The code's
shares are floating point: `int(num_layers * share)` may be one less than the
exact quotient when that is a whole number (`int(49 * (1 / 49))` is 0); `low` is
the set of scores for which this happens, any set of them.

### Pipeline

A request is at one of the awaits of `run_stream` and the generators it calls.

| State | Code |
|---|---|
| `hasCli`, `layers` | the lookup of `llama-cli`, cached for good; the layer count. The `llama-server` binary is looked for by each request (`Arrive`) |
| `modelFile` | what `_find_model` would find now; it may come and go |
| `connections` | `node_connections`, to which every request adds |
| `list`, `at`, `loaded` | a request's `alive` list, its place in the loops over it, the nodes that have loaded |
| `child` | the request's `llama-cli` process and whether `returncode` is set |
| `answer` | history: the modes that spoke, in order, and whether each part is whole |
| `outcome` | history: how the request ended |

Mode 2 is `CliSpawns`, then `CliReturns` (with the output, or an error that leads
to the next mode), `CliTimeout`, and `Reaped` for the `finally` block, in which
`Cancel` may hit once more. In mode 3 the connections are made twice, as
`run_stream` and `_distributed_inference` both call `_connect_to_nodes`.

### ForwardStream

| State | Code |
|---|---|
| `task` | the closure of `spawn_blocking`: loading, sampling, in `blocking_send`, at the end mark |
| `channel` | the `mpsc` channel (32 in the code): tokens by number, `EndMark`, `Failure` |
| `handler` | the `try_stream!` generator: before the request, relaying, between requests, dropped |
| `transit`, `status` | HTTP/2: responses under way, and the status that follows them |
| `client`, `answer` | `NodeGrpcClient.forward_stream` with its caller |

Nothing cancels the task: `SendRefused` is how it learns that the receiver is
gone. `Deadline`, `GoAway` and `Disconnect` may happen at any moment. An empty
prompt takes the forward pass, whose one response counts as one token; that its
logits are raw floats which the caller decodes as text is not modelled.

### ShardService

Every action is the code of one call between two places where another thread can
be seen: `LlamaBackend::init` in its `OnceCell`, `load_from_file`, the cell
`CURRENT_SHARD`, its RwLock, the computation, the reply.

| State | Code |
|---|---|
| `backend` | the `OnceCell` of the backend: one call initialises it, the others block; a failure lets the next one try |
| `cell`, `shard` | `CURRENT_SHARD` (`OnceCell<RwLock<Option<LoadedShard>>>`) |
| `mine` | a model a load or a prompt has loaded and not handed over; under a pass, the one it works on |
| `memory` | the models in memory; a `Slot` stands for room for one more |
| `holders`, `queue` | tokio's RwLock: first come, first served, readers together |

Only the wait for the lock is an await at which a handler can be dropped
(`Cancel`): then its model is freed and its place in the queue given up, or the
lock passed on if it had been handed over already. A forward pass keeps the read
guard until it is over. A call that arrives without a cell finds nothing to unload
(a success) or no shard to use (an error).

`ShardRegister` is what this looks like from outside: `Invoke`, one moment `Write`
or `Use`, `Finish` or `Fail`, `Return`; the shard does not change while a pass uses
it, and a call that failed or went away has had no effect.

### GgufSplitter and GgufFile

In `GgufSplitter` a model is its list of tensors with layer and offset, and the
end of its data. A run checks for a shard file, creates it, writes the table, then
the data tensor by tensor; `Abort` ends it anywhere, and `Rerun` starts the next
run with other options, another command (`--list-tensors`, `--split`, or the plan)
and maybe another model. `files` is the output directory: each file has its table
of offsets and where data really is. The code computes shares of layers as `f64`;
for `u32` counts the quotients' ceilings are those of `CeilDiv`. Options are
numbers of layers, from the command line or a node config, which means 10 if it
does not say.

`GgufFile` has the tool on bytes. `Written` makes a file of metadata, table and
data; any number of bytes may be missing from its end. `Read` is the code: header,
`skip_value` over each pair (`Skip`), the search for the first tensor's name
(`TableStart`), the entries, the layer numbers. Bytes are numbers. TLC's integers
are too short for a u64, so integers of `HUGE` or more are all read as `HUGE`. It is
a constant: with 2^64 `U64` is exactly the code's, and the theorems hold for that as
for every other value. TLC has 2^22, larger than any of its files.

| Definition | Code |
|---|---|
| `SkipValue`, `SkipList`, `Skip` | `skip_value`; the recursion into arrays is a function of the depth, of which no array has more than its file has bytes |
| `AfterPair`, `MetadataEnd` | the loop over the pairs of key and value |
| `LooksLikeName`, `Window`, `TableStart` | the search, from 32 bytes before the end of the metadata to 32 after it |
| `Entry`, `Table`, `LayerOf` | the loop over the tensors, `get_layer_id` with what `parse::<u32>` takes: digits after at most one `+`, up to the largest u32 |
| `Rank`, `TableOrder`, `ShardBytes` | the order of a shard's table, and the file `write_shard` writes |
| `Values`, `IsValue`, `IsGguf` | the format (external): which values there are, and what a model file is |

`HeaderRead` compares what the tool works on with what was written (`Held`).
`ShardsReadBack` says that each shard of a split that has succeeded is, byte for
byte, the model file it should be (`ShardGguf`), and that `Read` finds in it the
plan's tensors, the offsets and the end of the data.

Both have one exception. The search begins before the end of the metadata, and
what it finds there may pass for a tensor's name (`Ambiguous`). The file and each of
its shards have to be looked at for themselves, because a length that ends the
metadata reaches as far into the table as it says: if the metadata end in the number
12 as a u64, the text of that length ends four bytes into the first name. With
`embd.w` first nothing in it looks like a name; in the shard that begins with
`blk.0.w` something does (`Delayed` in `MCGgufFile`). The shard is then still a right
model file, but the splitter itself would misread it.

### Machine

A handler of tuning, overclocking or audit runs its commands one after the other
without an await: it keeps its worker (`running`) from `Begin` to `Reply`, and two
of them interleave command by command. `settings` are the kernel's: a write may
fail, and huge pages may be granted in part. Writing an empty text succeeds and writes
nothing (`Silent`): an empty `scheduler` passes the check of io.rs:25, which is by
substring, and an empty `thp_mode` is not checked (kernel.rs:24). A scheduler is any
text, which the kernel may refuse. The aggressive mode tells the undervolting tool
core, cache and apply in turn, of which only the first is checked. `told`, `errors` and `found` are what
the reply will say, `made`, `alone` and `seen` are history. `Change` loads or
unloads a driver during an audit, which looks at `/sys/module` and at commands
several times. `Detect` is `gpu::detect` before the agent serves; the broadcaster
is one more task in need of a worker.

Temperatures, clocks, the benchmark's figures and the CPU and memory parts of the
report are values nothing depends on: these calls are `Work`, which takes its time
and changes nothing.

## 3. Runs

Passing runs:

| Run | Checks | Bounds |
|---|---|---|
| `discovery` | `RegistryInv`, `LeavesOnlyWhenDownOrSilent`, `EveryNodeProbed` | 2 nodes, threshold 3 as in the code, timeout 1 tick, 1 address |
| `cluster` | `HostConsistent`, `CrashedNodeLeaves`, `ClosedNodeDropped`, `ServingNodeListed`, `ReachableNodeKept` | 1 node, 1 address, threshold 2, agents with and without rpc-server, power failures, lossy network |
| `ages_bounded` | `TimingInv` | up to 4 nodes: two fit into the timeout, of more the pruner does remove some; 2, 10 and 15 s in half seconds |
| `llama_server` | `ServerInv`, `NoServerAfterShutdown`, `OneModelAtATime`, `PromiseKept`, `EveryRequestEnds` | 2 requests, 2 configurations, 3 process names |
| `partition` | `EveryLayerPlaced`, `ExactWhenSharesSuffice`, `CapableNodesGetMore`, `NothingGivenBack`, `PartitionEnds` | 3 nodes, scores 1, 2, 3, 20, five layer counts, every rounding |
| `forward_stream` | `StreamInv`, `NormalEndIsComplete`, `GenerationEnds` | 5 tokens, channel of 2, network of 2 |
| `shard_service` | `ShardInv`, `RegisterImplemented` (refinement), `EveryCallEnds` | 3 calls at a time, again and again, memory for 3 models |
| `gguf_splitter` | `SplitTypeOK`, `SuccessIsWhole`, `EveryTensorOnce`, `TablePointsAtData`, `FoundShardsSurvive`, `HeaderRead`, `ShardsReadBack` | 5 files (three layers; two of which one has no tensor; one; none; one whose shard is ambiguous), all but the last cut anywhere in the header, 0, 2 or 10 layers per shard or the default; `HUGE` is 2^22 |
| `machine` | `RepliesAreTrue`, `AuditFitsDetection`, `TasksGoOn` | 2 calls, each once, 2 workers, 2 devices, every knob, mode and audit, one change of a driver |
| `pipeline` | `PipelineTypeOK`, `AnswerIsWhole`, `NoChildLeft`, `SlicesCoverModel`, `EveryRequestIsOver` | 2 requests, no nodes or two, 1 or 3 layers |

What they show: `about` in `PROJECT.json` says it in a sentence each. Why the
bounds are enough:

* Two nodes suffice for what a round can do to another node (order of the
  snapshot, the rest lost when a deletion fails), and threshold 3 for a count that
  is reset half-way. The safety of `Discovery` and of `NodeAgent` in the cluster is
  proved for every number of nodes; one node shows what its own environment can do
  to it.
* Of two requests one holds the lock or streams while the other waits, is
  cancelled or replaces the server; the theorems hold for any number.
* Five tokens are more than a channel, a network and the token in the sender's
  hand hold, so that a sender blocks; `StreamInv` is proved for any sizes.
* In `gguf_splitter` the tensors are listed in another order than their data is
  stored, one has no layer, and the last size is not aligned; a second model in
  the same directory makes shards of different origin. The number of runs is not
  bounded; a later run is given one of two files, whole (`LaterFiles`), as what a
  file does to the reading is seen in the first run. `ALIGN` is 8 instead of 32 to
  keep the paddings short; the window of the search is the code's.
* Three calls are the least in which one holds the lock, one waits and one comes
  after it, as it takes to be passed over; with memory for three, every one of them
  can have a model. `ShardInv` and the refinement are proved for any number.
* In `machine` two calls interleave in each pair of kinds, and more knobs than one
  can meet; a third call of the same kinds would interleave with each of them in
  the same way. A driver changes at most once, and only while an audit looks.
* A host that comes back at another address takes part in the proofs of
  `NodeAgent` and `Cluster`, which hold for any number of hosts and addresses; the
  run has one address.
* Two requests share connections in `pipeline`; three layers do not divide by
  two, and one layer is less than the nodes there are.

Deadlock is checked everywhere but in `llama_server` (the orchestrator ends),
`partition` (the function returns) and `forward_stream` (the call is over).

Runs that show a disagreement between the code and what is said of it:

| Run | Property | What happens |
|---|---|---|
| `powered_off` | `PoweredOffNodeLeaves` | probes of a host that is off time out, and a timeout refreshes last_seen: the node is never dropped. Checked under `PolledClusterSpec`, in which the clock advances and somebody polls |
| `granted_not_ready` | `GrantedServerWasReady` | a request cancelled in the health wait leaves a handle that the next `ensure()` takes for a ready server |

### What the models also describe

These are consequences of the code that the models contain, but about which no
run of its own is kept:

* A getter that prunes an entry during its third refused probe makes `del` raise
  KeyError; the rest of the round is skipped (`AbortRound`). `EveryNodeProbed`
  shows that this starves nobody.
* `DropNode` deletes the entry that is registered now, by the failures of the
  object the round holds. A registration during the probe resets the count of
  the new object only, so an entry that failed no probe itself may be dropped.
* An inconclusive probe resets the failures and not the status: a node may count
  as degraded without failures.
* A node known again by a heartbeat has no hardware record until it registers,
  which it does once per start. A heartbeat does not update the address, so that
  a node that moved is probed at its old one, where nobody answers: if it crashes
  before it registers again it stays listed. `CrashedNodeLeaves` is about hosts
  that keep their address; with `Moves` and a second address TLC refutes it.
* An agent whose rpc-server could not be spawned announces the port anyway; one
  that gets SIGTERM before the handlers are installed orphans its child. The orphan
  keeps the port open, so that the crash is hidden from the monitor and the node
  stays listed: `CrashedNodeLeaves` is about hosts without one, and
  `HostConsistent` says only which processes there may be.
* A node whose rpc-server has gone while its agent runs on is dropped by three refused
  checks and listed anew by the next heartbeat, again and again (`ClosedNodeDropped`).
* Three busy nodes whose heartbeats do not arrive make a round and a sleep of
  16 s, and the pruner removes after 15; `RoundFits` is the exact condition, and
  `BusyNodeKept` what it ensures.
* `ensure()` releases the lock before `stream_completion` connects. In between
  another request may replace the server, and the first one streams from a
  server of the other's model.
* When a server fails in the middle of an answer, the caller gets the cut-off
  text followed by the whole answer of a later mode (`AnswerIsWhole` says this is
  all that can happen).
* README.md:245-251 puts gRPC before the local `llama-cli`, and pipeline.py:44-45
  calls it "Used only if llama-server is absent"; `run_stream` tries it second,
  also after a server that failed.
* Two requests that connect to the same node at the same time open two channels,
  and the one overwritten in `node_connections` is not closed. An entry is never
  refreshed or removed.
* A load counts as a success when one node has loaded, and the stream then goes
  to any connected node, which may not be that one.
* `_get_model_layer_count` runs a subprocess without await and raises when the
  model file has gone.
* Shards of an earlier plan with more shards stay in the output directory. A
  model without layers is a success with no shards, and a `general.alignment`
  other than 32 is ignored.
* The search for the table begins 32 bytes before the end of the metadata. A last
  pair whose key begins at one of the offsets tried and has a "." in it
  (`llama.vocab_size`, say) is taken for the first tensor's name; `Ambiguous` is
  that case, and `Lookalike` an instance. It may be the case of a shard and not of
  the file it was made of (`Delayed`).
* The last tensor of a file that was cut short is whatever is left of it
  (main.rs:438 takes the rest of the file for its size), and the run succeeds.
* The minimum of one layer per node is never compensated: four layers on nodes
  with scores 1, 1 and 20 make five, beyond the end of the model, although
  partition.py:56 says "Adjust to match total layer count".
* Loading a shard fills memory next to the one it replaces, and every prompt loads
  a model of its own: a node may hold as many models as it has calls.
* A request's load and its use of the shard are two calls; another request's load
  may come between them. The register allows it, and nothing tells the caller.
* Calls that wait for the backend block their threads in the `OnceCell`; a start
  that never returns keeps all of them (`EveryCallEnds` is conditional on it).
* Every performance mode answers "applied". The aggressive one begins with the safe
  one and nothing undoes it. What an undervolting tool, a power limit or the turbo
  switch was told counts as done (`Unchecked`), and so does a number of huge pages
  of which the kernel may have given fewer ("N allocated", tuning/mod.rs:21).
* A tuning request with an empty scheduler or THP mode, the default of the message, is
  told that it was set, though nothing was written (`Silent`). `RepliesAreTrue` names
  these exceptions; that there are no others is what it says.
* README.md:313 lists "Governor tweaks, hugepages, IO scheduler" for the safe mode;
  safe.rs sets the governor, the turbo switch and `max_perf_pct`.
* Two tuning calls at a time leave a mix of both; only a call without another one
  in flight finds the machine as it reports (`alone`).
* check.rs:27 and 29 compare the AMD driver with "amdgpu" and "radeon", but no entry
  reads so ("amdgpu (...)"): neither recommendation is ever made. `up_to_date` is
  always true.

## 4. Fairness

* `MonitorFairness`: the monitor's task is resumed when its sleep, its probe
  (2 s timeout) or its step is due. `main.py` keeps a reference to the task, and
  `health_loop` catches what `check_all_nodes` raises.
* `ClusterFairness` adds that `start()` runs, that an agent's broadcaster sends
  (its socket was bound), that a heartbeat on the wire is lost in the end, and
  that one sent again and again is at some time delivered (strong fairness):
  the network loses heartbeats, not all of them. Hosts, operators, getters and
  the clock are not assumed to do anything.
* `Fairness` of `LlamaServer`: coroutines whose await is over are resumed, and
  each of their awaits has a timeout; SIGTERM followed by SIGKILL ends a process;
  the event loop reaps it. That a model ever loads is not assumed.
* `FairPartitionSpec`: the function is executed.
* `StreamFairness`: the generating thread runs, the client's deadline of 300 s
  expires, and the node learns that a call was given up (an HTTP/2 reset, or an error
  of the TCP connection; the server of grpc_server.rs:410 configures no keepalive). That the consumer reads what arrives, or that the response stream
  is polled, is not assumed.
* `FairShardSpec`: every thread runs, every load, pass and backend start that goes
  on comes to its end. That a call is made or dropped is not assumed.
* `FairMachineSpec`: commands end, a free worker takes the task that waits longest,
  the broadcaster's timer fires. That calls come is not assumed.
* `PipelineFairness`: a coroutine that can go on does, each await of the modes
  ends by itself or by its timeout (server: see `LlamaServer`; `llama-cli` 600 s,
  connect 5 s, load 120 s, stream 300 s), and a process that got SIGKILL ends.
  That `llama-cli` ends of itself is not assumed.

## 5. Proofs

| Theorem | Statement | Argument |
|---|---|---|
| `RegistryCorrect` | `Spec => []RegistryInv` | inductive |
| `LeavesJustified` | `Spec => LeavesOnlyWhenDownOrSilent` | from `RegistryInv` |
| `ClusterLeavesJustified` | the same guarantee for the cluster | by a lemma: its steps are those of `Discovery`, or leave the registry alone |
| `ClusterHostsConsistent` | `ClusterSpec => []HostConsistent` | a step of the cluster is one of `NodeAgent` or leaves it alone |
| `AgesCorrect` | `TimingSpec => []TimingInv` | inductive |
| `BusyKept` | `TimingSpec => []BusyNodeKept`: with as many nodes as `RoundFits` allows for none is pruned | from `AgesBounded` |
| `ServerCorrect`, `ShutdownClean` | `ServerInv`, `NoServerAfterShutdown` always | `ServerInv` is inductive |
| `ImplementsModelServer` | `Spec => OneModelAtATime` | `ServerInv`: only one process |
| `EnsureKeepsPromise` | `Spec => PromiseKept` | from `ServerInv` |
| `LayersPlaced`, `ExactPartition`, `CapabilityRespected`, `ExcessIsFinal` | the properties of `Partition`, always | `PartitionInv` is inductive |
| `ShardCorrect` | `ShardSpec => []ShardInv` | inductive |
| `RegisterRefined` | `ShardSpec => RegisterImplemented` | each step is one of `ShardRegister` or a stutter |
| `PipelineTyped`, `AnswersAreWhole`, `ChildrenAreReaped` | `PipelineTypeOK`, `AnswerIsWhole`, `NoChildLeft` always | `PipelineInv` is inductive |
| `ModelIsCovered` | `PipelineSpec => []SlicesCoverModel` | division: with `per` layers a node, layer x is that of node x \div per + 1, or of the last |
| `SplitTyped`, `SuccessMeansWhole`, `OffsetsPointAtData`, `NothingIsOverwritten` | `SplitTypeOK`, `SuccessIsWhole`, `TablePointsAtData`, `FoundShardsSurvive`, of `FileSpec` | `SplitInv` is inductive for `SplitSpec`; by a lemma the runs on files are runs on what they hold |
| `TensorsAreSplit` | `FileSpec => []EveryTensorOnce` | `SplitInv`, and the shards' ranges of layers are disjoint and exhaust them |
| `HeaderIsRead` | `FileSpec => []HeaderRead` | reading undoes writing, for every file of the format and every cut |
| `ShardsAreFiles` | `FileSpec => []ShardsReadBack` | `LaidOut` and `SplitInv`; the shard is a file of the format, so that the same reading applies |
| `MachineAgrees` | `MachineSpec => []MachineInv` | inductive |
| `RepliesTellTheTruth`, `AuditAgrees` | `RepliesAreTrue` with its three exceptions, and `AuditFitsDetection`, always | from `MachineInv` |
| `StreamAgrees` | `StreamSpec => []StreamInv` | inductive |
| `AnswersAreComplete` | `StreamSpec => []NormalEndIsComplete` | a conjunct of `StreamInv` |

`RegistryInv` needs more than the bound on failures it implies. That an object's
failures are refused checks of its identifier (`FailuresWereRefused`) is kept by
a registration during a probe only because the new entry starts at 0 while the
round's object counts on; and that the round can resolve what it holds
(`HeldResolvable`) is what makes "the object" of a step defined at all.

`AgesBounded` says of a node still to be probed that its silence is the rest of
the last round, the sleep, and this round so far. `RoundFits` (a round and a sleep
fit into the timeout: N probes of 2 s and 10 s into 15 s) is then exactly what
keeps busy nodes listed; the smallest N without it is 3.

`ServerInv` says that every process but the manager's own is gone. It is kept
because `_proc` is forgotten only where `returncode` is set, and that is so
although a cancellation may leave the locked block at every await. `interrupted`
remembers whether that has happened: until then a kept server has been healthy,
which is the last conjunct and what `PromiseKept` needs.

`PartitionInv` has the sum of the counts as a recursive function. Its equations,
the sums' monotony and the extremes of the scores are proved by the least
counterexample (`NatMin`): `Interval` states induction with a set in the place of
the predicate. That the second loop takes no turn follows from the shares: an
excess needs a node below a whole share, then the least capable one is below it
too and has the minimum of one layer.

`StreamInv` has the answer, the responses under way and the channel as one
sequence cut into three: each item is the number after the one before
(`AnswerInOrder`, `TransitInOrder`, `ChannelInOrder`). `NothingLost` counts them
against what the task has made as long as nothing failed, and the end mark, which
only a task that is done has sent, turns the count into completeness. `Phases`
ties the places of task, response stream and client together.

`ShardInv` has four parts that need each other. `LockAgrees` describes the lock:
who holds it may hold it together, who waits waits for a reason (the first in the
queue cannot join the holders), and nobody is in both or twice in the queue. It is
proved by lemmas on the queue as a set (`HandOverAgrees`, `AppendAgrees`,
`RemoveAgrees`) and one on any change of the lock by one call (`LockChange`).
`CallsAgree` says which calls may be where and own a model, `MemoryAccounted` that
the models in memory are the shard and what the calls own. That `Replace` frees the
old shard while nobody uses it follows from the lock: a pass holds it, a writer
holds it alone. The same fact makes `Replace` a `Write` of the register.

`PipelineInv` adds to the properties what a mode must not find: as long as the
request goes on every part of its answer is cut off and of a mode already tried
(`NothingWholeYet`), a stream begins only after a load (`SomethingLoaded`), and a
request that is over leaves its place and its loads to no later one
(`NothingKept`). `PartAdded` and `PartCompleted` are the facts about answers that
every mode needs, so that each mode is `Emits`, `Ends` or `Moves`.

`SplitInv` follows the loops of the tool. `LoopOK`: the shards before the one in
hand are whole and of this plan, whatever earlier runs have left. `DataOK`: of that
one, the data of the tensors before `next` is there, where the table says, and the
file ends where the last of them ends. The next tensor then begins at its offset
for a reason the code relies on without saying so: it appends the data without
padding and computes the offsets with it, and the two agree only because tensors
are aligned in the source and a tensor's size is taken as the distance to the next
one, hence a multiple of the alignment unless the tensor is the last
(`OffsetsLeaveNoGaps`). The order of the
data is stated by rank, and the offsets as a recursive function whose equations
`CurExists` proves for the finite order at hand. `TouchedOK` says which files a run
found and wrote. `OneShardPerTensor` is about the plan alone: a tensor with
a layer is in the shard that is the layer's quotient, one without in the last.

`GgufFileProofs` is about data: what the readers return for every input. It has no
state to keep invariant, but recursion, and its argument is that of a parser.

* `Iterate` and `IteratesIf` say that a function computed step by step has the
  values its definition gives; `UpTo` is the induction over its steps, with a set
  in the place of the predicate.
* `Has(d, at, s)` is "d has the bytes s at this offset, as far as it goes". Each part
  of the format has a pair of lemmas, one that takes `Has` apart (`HasConcat`,
  `Flatten`, `TextRead`, `NumberRead`, `InfoHas`) and one that says where the reader
  is afterwards (`ValueRead`, `PairRead`, `EntryRead`). In a file that ends before
  the part does, the reader has refused it or is beyond the end (`Skipped`):
  `skip_value` does not look, but nothing that reads after it finds anything.
* A value may be an array of arrays. `SkipReads` follows from the depth and from the
  length, which grows with it; `MetadataRead` and `TableRead` put the pairs and the
  entries together.
* The search finds the table where it begins (`TableStartIs`). Before it nothing looks
  like a name in the whole file, by `~Ambiguous`, so nothing does in a part of it
  (`LooksMonotone`). The first name has one of the marks and is found if all of it is
  there (`NameFound`); if it is cut, nothing after its beginning is (`NothingInName`:
  names have no byte 0, lengths do), and the default is the end of the metadata, the
  same place. A shard may have no tensors: then only zeros follow (`NothingInZeros`).
* For the shards, `LaidOut` keeps that a file whose header was written has the table
  of its plan. `OffsetsShrink` shows that an offset in the shard is at most the one
  in the source, hence a number that can be written; `TableOrderSorts`, by the same
  lemma on ranks as the order of the data (`RanksSort`), that each tensor is in the
  table once; `Rearranged` and `PartReadBack` that reading part of the tensors in
  another order gives them back.

`MachineInv` is about calls that interleave at every command. `Accounted`: told,
failed and still to do are disjoint and together what was asked. `ToldWasMade`
ties an answer to what the call itself did, unless the text was empty (`Silent`) or
nothing is checked (`Unchecked`), `Holds` to the settings as they are,
for a call that was `alone` so far. That other calls do not disturb `Holds` is
`NobodyElse`: of two in flight neither is alone. For the audit, `FoundWasSeen`
keeps a sign for each entry although drivers may come and go between two looks,
and `ShownIsFound` and `ReportOK` describe, as long as nothing has changed, what the
audit and the detection at the start have each found of what there is; compared,
they give `AuditFitsDetection`.

Assumptions are those on the constants, named in the modules: thresholds and
times are naturals (the threshold not 0), the null values are not members of the
sets they extend, the cluster's messages are among those `Discovery` is open to.
A list of nodes has no node twice, as it comes from a dictionary, and a model has
a layer (`PipelineAssumption`). Offsets in a model file are aligned and distinct,
layers are numbers or absent (`SplitAssumption`), and what is read of a file is one
of the models. `FileAssumption` has the format besides: values are those of the
types `skip_value` knows, lists of values of one type; there is a tensor at least;
names are ASCII without byte 0, of 1 to 255 bytes, with one of the marks the search
looks for, and say the layer; numbers are below `HUGE` and fit their fields of 32 or 64
bits (`IsGguf`, `Size32`, `Size`; `NumberAssumption` is that `HUGE` is at least 256).
With `HUGE` 2^64 no number of the format is excluded. (A file without tensors that
is cut inside its last value would be read as an empty model; `IsGguf` leaves it
out.) Devices are not among the kernel's own settings nor named "core", and
only a tuning request asks for knobs, those that the handler knows
(`MachineAssumption`).

Only model-checked:

* the liveness properties (`EveryNodeProbed`, `CrashedNodeLeaves`, `ClosedNodeDropped`,
  `ServingNodeListed`, `ReachableNodeKept`, `EveryRequestEnds`, `PartitionEnds`,
  `GenerationEnds`, `EveryCallEnds`, `TasksGoOn`, `EveryRequestIsOver`), as
  liveness under fairness is out of the prover's reach;
* the disagreements of section 3.

Every invariant and every action property of the passing runs is a theorem, and so
are the refinements (`OneModelAtATime`, `RegisterImplemented`). The
modules proved about have recursive functions and folds, no `RECURSIVE` operators;
induction over what these compute is over a set of numbers, as in `Interval` and
`UpTo`, since the library's theorems with an operator as parameter cannot be used.

## 6. Assumptions of the models

* A TCP connection to a closed port of a host that is up is refused at once. A
  firewall that drops it would make the probe inconclusive (as for a host that
  is off).
* The node_id is stable and distinct, as `main.rs` builds it.
* gRPC ports are not shared by hosts; the address alone tells them apart.
* A heartbeat is one message; the payload does not change while an agent runs.
* uvicorn ends or cancels the open requests before the shutdown part of
  `lifespan` runs.
* The orchestrator is not restarted.
* gRPC and HTTP/2 deliver the responses of a call in order and without loss, up to
  the point where the connection breaks.
* Tensor data in a model file is aligned and does not overlap, as the format says
  (`SplitAssumption`); names are ASCII; one run of the splitter at a time.
* tokio's RwLock serves in the order of arrival, as its documentation says, and its
  runtime has several threads. Tasks are taken in the order in which they became
  ready; that a worker may prefer the task it has just woken is left out.
* A dropped handler is dropped at an await, and blocking code is not interrupted.

## 7. Not modelled, and the plan

Not modelled: the dashboard and CLI (presentation), the OpenAI formatting around
`run_stream`, generated code, the agent's own gRPC client (no caller), the values
that detection, benchmark and monitoring read (temperatures, clocks, sizes), the
contents of `split_plan.json` (nothing reads it), and `Topology` (no caller).

The order of the work was: `Discovery` (the state everything else depends on),
`NodeAgent` and `Cluster` (what the environment can really do), `HealthTiming`,
`LlamaServer`, `Partition`, `ForwardStream`, each with its proofs, then
`GgufSplitter` and `Pipeline`, then `ShardService` with its proofs, `GgufFile` and
`Machine`, the proofs of `Pipeline`, `GgufSplitter` and `Machine`, and those of
`GgufFile`. Next, in
this order:

1. `Pipeline` over the registry: addresses of the connections, nodes that move or
   restart, channels that are opened twice; and over `ShardRegister`, for two
   requests that replace each other's shards.
2. A restart of the orchestrator in `LlamaServer`: a server left behind by a
   killed orchestrator answers `/health` for the new one.
3. Proofs: safety of the composition of item 1.
4. `Topology`: `get_fastest_path` against a reference definition of shortest
   paths.
