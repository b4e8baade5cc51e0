--------------------------- MODULE PipelineProofs ---------------------------
(***************************************************************************)
(* What a request that falls through the modes may end with, for any       *)
(* number of requests, nodes and layers.                                   *)
(*                                                                         *)
(* AnswerIsWhole is not inductive: that an answer has one whole part, its  *)
(* last, rests on the parts that are there before the mode ends.           *)
(* NothingWholeYet says what they are: of modes whose turn has come, and   *)
(* cut off.                                                                *)
(***************************************************************************)
EXTENDS Pipeline, FiniteSetTheorems, SequenceTheorems, TLAPS

\* The mode whose turn it is at a location.
Turn(location) ==
  CASE location = "server" -> Server
    [] location \in {"spawning", "cli", "emitting", "reaping"} -> Cli
    [] location \in {"connecting", "reconnecting", "loading", "grpc"} -> Grpc
    [] OTHER -> Stub

\* Parts of modes up to this one, all of them cut off.
CutOff(parts, mode) == \A i \in 1 .. Len(parts) : parts[i].mode <= mode /\ ~parts[i].whole

\* Parts of later and later modes, of which only the last may be whole.
InOrder(parts) ==
  \A i \in 1 .. Len(parts) - 1 : parts[i].mode < parts[i + 1].mode /\ ~parts[i].whole

NothingWholeYet ==
  \A r \in Request :
    pc[r] # "idle" => CutOff(answer[r], Turn(pc[r])) /\ outcome[r] # "answered"

\* ForwardStream follows at least one load.
SomethingLoaded == \A r \in Request : pc[r] = "grpc" => loaded[r] # {}

\* A request that is over leaves nothing to the next one.
NothingKept == \A r \in Request : pc[r] = "idle" => at[r] = 1 /\ loaded[r] = {}

PipelineInv ==
  /\ PipelineTypeOK
  /\ AnswerIsWhole
  /\ NothingWholeYet
  /\ NoChildLeft
  /\ SomethingLoaded
  /\ NothingKept

-----------------------------------------------------------------------------
(* The parts of an answer.                                                 *)

\* One more piece of text of a mode leaves an answer in order and cut off, with a
\* part of that mode at its end.
LEMMA PartAdded ==
  ASSUME PipelineTypeOK, NEW r \in Request, NEW mode \in Server .. Stub,
         InOrder(answer[r]), CutOff(answer[r], mode)
  PROVE  /\ Part(r, mode) \in Seq(AnswerPart)
         /\ InOrder(Part(r, mode))
         /\ CutOff(Part(r, mode), mode)
         /\ Len(Part(r, mode)) \in Nat \ {0}
<1> DEFINE a == answer[r]
           p == [mode |-> mode, whole |-> FALSE]
<1>1. a \in Seq(AnswerPart) /\ Len(a) \in Nat /\ (a # <<>> => Len(a) # 0)
  BY EmptySeq DEF PipelineTypeOK
<1>2. \A i \in 1 .. Len(a) : a[i] \in AnswerPart
  BY <1>1, ElementOfSeq
<1>3. p \in AnswerPart
  BY DEF AnswerPart
<1>4. CASE a # <<>> /\ a[Len(a)].mode = mode
  <2>1. Part(r, mode) = a
    BY <1>4 DEF Part
  <2> QED
    BY <1>1, <1>4, <2>1
<1>5. CASE ~(a # <<>> /\ a[Len(a)].mode = mode)
  <2>1. Part(r, mode) = Append(a, p)
    BY <1>5 DEF Part
  <2>2. /\ Append(a, p) \in Seq(AnswerPart)
        /\ Len(Append(a, p)) = Len(a) + 1
        /\ \A i \in 1 .. Len(a) : Append(a, p)[i] = a[i]
        /\ Append(a, p)[Len(a) + 1] = p
    BY <1>1, <1>3, AppendProperties
  <2>3. \A i \in 1 .. Len(a) : a[i].mode \in Int /\ a[i].mode <= mode /\ ~a[i].whole
    BY <1>2 DEF CutOff, AnswerPart, Server, Stub
  <2>4. Len(a) # 0 => a[Len(a)].mode < mode
    <3>1. SUFFICES ASSUME Len(a) # 0 PROVE a[Len(a)].mode < mode
      OBVIOUS
    <3>2. Len(a) \in 1 .. Len(a) /\ a # <<>>
      BY <1>1, <3>1, EmptySeq
    <3> QED
      BY <1>5, <2>3, <3>2 DEF Server, Stub
  <2>5. InOrder(Append(a, p))
    BY <1>1, <2>2, <2>3, <2>4 DEF InOrder
  <2>6. CutOff(Append(a, p), mode)
    BY <1>1, <2>2, <2>3 DEF CutOff, Server, Stub
  <2> QED
    BY <1>1, <2>1, <2>2, <2>5, <2>6
<1> QED
  BY <1>4, <1>5

\* When the mode ends, the answer is in order and its last part is whole.
LEMMA PartCompleted ==
  ASSUME NEW a \in Seq(AnswerPart), Len(a) \in Nat \ {0}, InOrder(a)
  PROVE  LET b == [a EXCEPT ![Len(a)].whole = TRUE]
         IN  b \in Seq(AnswerPart) /\ b # <<>> /\ InOrder(b) /\ b[Len(b)].whole
<1> DEFINE n == Len(a)
           e == [a[n] EXCEPT !.whole = TRUE]
           b == [a EXCEPT ![n] = e]
<1>1. n \in 1 .. n /\ a[n] \in AnswerPart
  BY ElementOfSeq
<1>2. e \in AnswerPart /\ e.mode = a[n].mode /\ e.whole
  BY <1>1 DEF AnswerPart
<1>3. /\ b \in Seq(AnswerPart)
      /\ Len(b) = n
      /\ \A i \in 1 .. n : b[i] = IF i = n THEN e ELSE a[i]
  BY <1>1, <1>2, ExceptSeq
<1>4. b # <<>>
  BY <1>3, EmptySeq
<1>5. InOrder(b)
  BY <1>2, <1>3 DEF InOrder
<1> QED
  BY <1>1, <1>2, <1>3, <1>4, <1>5

-----------------------------------------------------------------------------
(* The invariant.                                                          *)

\* The initial states satisfy it.
LEMMA PipelineInitInv == PipelineInit => PipelineInv
<1> SUFFICES ASSUME PipelineInit PROVE PipelineInv
  OBVIOUS
<1> USE PipelineAssumption DEF PipelineInit
<1>1. <<>> \in Seq(AnswerPart) /\ Len(<<>>) = 0
  BY EmptySeq
<1>2. PipelineTypeOK
  BY <1>1 DEF PipelineTypeOK, Location
<1>3. AnswerIsWhole /\ NothingWholeYet /\ NoChildLeft /\ SomethingLoaded /\ NothingKept
  BY <1>1 DEF AnswerIsWhole, NothingWholeYet, NoChildLeft, SomethingLoaded, NothingKept
<1> QED
  BY <1>2, <1>3 DEF PipelineInv

\* When its coroutine is over, a request's locals are what they were at first.
LEMMA OverLocals ==
  ASSUME PipelineTypeOK, NEW r \in Request, Over(r)
  PROVE  /\ pc' \in [Request -> Location] /\ pc'[r] = "idle"
         /\ found' \in [Request -> BOOLEAN]
         /\ list' \in [Request -> NodeLists]
         /\ at' \in [Request -> Nat] /\ loaded' \in [Request -> SUBSET Nat]
         /\ \A q \in Request :
              at'[q] \in 1 .. Len(list'[q]) + 1 /\ loaded'[q] \subseteq DOMAIN list'[q]
         /\ at'[r] = 1 /\ loaded'[r] = {}
         /\ \A q \in Request \ {r} : pc'[q] = pc[q] /\ at'[q] = at[q] /\ loaded'[q] = loaded[q]
<1>1. Len(<<>>) = 0
  BY EmptySeq
<1> QED
  BY <1>1, PipelineAssumption DEF Over, Go, PipelineTypeOK, Location

\* A piece of text.
LEMMA EmitsInv ==
  ASSUME PipelineInv, NEW r \in Request, NEW mode \in Server .. Stub, pc[r] # "idle",
         Turn(pc[r]) = mode, Emits(r, mode)
  PROVE  PipelineInv'
<1> USE DEF PipelineInv
<1>1. InOrder(answer[r]) /\ CutOff(answer[r], mode) /\ outcome[r] # "answered"
  BY DEF AnswerIsWhole, NothingWholeYet, InOrder
<1>2. Part(r, mode) \in Seq(AnswerPart) /\ InOrder(Part(r, mode)) /\ CutOff(Part(r, mode), mode)
  BY <1>1, PartAdded
<1>3. answer' = [answer EXCEPT ![r] = Part(r, mode)]
      /\ UNCHANGED <<hasCli, layers, modelFile, connections, pc, found, list, at,
                     loaded, child, outcome>>
  BY DEF Emits, setup, locals
<1> HIDE DEF PipelineInv
<1>4. PipelineTypeOK'
  BY <1>2, <1>3 DEF PipelineTypeOK, PipelineInv
<1>5. AnswerIsWhole'
  BY <1>1, <1>2, <1>3 DEF AnswerIsWhole, InOrder, PipelineTypeOK, PipelineInv
<1>6. NothingWholeYet'
  BY <1>2, <1>3 DEF NothingWholeYet, PipelineTypeOK, PipelineInv
<1>7. NoChildLeft' /\ SomethingLoaded' /\ NothingKept'
  BY <1>3 DEF NoChildLeft, SomethingLoaded, NothingKept, PipelineInv
<1> QED
  BY <1>4, <1>5, <1>6, <1>7 DEF PipelineInv

\* A mode that ends ends the request.
LEMMA EndsInv ==
  ASSUME PipelineInv, NEW r \in Request, NEW mode \in Server .. Stub,
         pc[r] \notin {"idle", "cli", "reaping"}, Turn(pc[r]) = mode, Ends(r, mode)
  PROVE  PipelineInv'
<1> DEFINE p == Part(r, mode)
           w == [p EXCEPT ![Len(p)].whole = TRUE]
<1>1. InOrder(answer[r]) /\ CutOff(answer[r], mode)
  BY DEF AnswerIsWhole, NothingWholeYet, InOrder, PipelineInv
<1>2. w \in Seq(AnswerPart) /\ w # <<>> /\ InOrder(w) /\ w[Len(w)].whole
  BY <1>1, PartAdded, PartCompleted DEF PipelineInv
<1>3. /\ answer' = [answer EXCEPT ![r] = w]
      /\ outcome' = [outcome EXCEPT ![r] = "answered"]
      /\ UNCHANGED <<hasCli, layers, modelFile, connections, child>>
      /\ Over(r)
  BY DEF Ends, Completes, setup
<1> HIDE DEF w, p
<1>4. PipelineTypeOK'
  BY <1>2, <1>3, OverLocals DEF PipelineTypeOK, PipelineInv
<1>5. AnswerIsWhole'
  BY <1>2, <1>3 DEF AnswerIsWhole, InOrder, PipelineTypeOK, PipelineInv
<1>6. /\ pc'[r] = "idle" /\ at'[r] = 1 /\ loaded'[r] = {}
      /\ \A q \in Request \ {r} : pc'[q] = pc[q] /\ at'[q] = at[q] /\ loaded'[q] = loaded[q]
  BY <1>3, OverLocals DEF PipelineInv
<1>7. NothingWholeYet'
  BY <1>3, <1>6 DEF NothingWholeYet, PipelineTypeOK, PipelineInv
<1>8. NoChildLeft' /\ SomethingLoaded' /\ NothingKept'
  BY <1>3, <1>6 DEF NoChildLeft, SomethingLoaded, NothingKept, PipelineTypeOK, PipelineInv
<1> QED
  BY <1>4, <1>5, <1>7, <1>8 DEF PipelineInv

\* The next mode, or the next step of this one: the parts there are stay cut off.
LEMMA MovesInv ==
  ASSUME PipelineInv, NEW r \in Request, NEW location \in Location \ {"idle"},
         pc[r] # "idle", Turn(pc[r]) <= Turn(location), child[r] # "running",
         location = "grpc" => loaded[r] # {}, Moves(r, location)
  PROVE  PipelineInv'
<1>1. /\ pc' = [pc EXCEPT ![r] = location]
      /\ UNCHANGED <<hasCli, layers, modelFile, connections, found, list, at,
                     loaded, child, answer, outcome>>
  BY DEF Moves, Go, setup, locals
<1>2. PipelineTypeOK'
  BY <1>1 DEF PipelineTypeOK, PipelineInv
<1>3. AnswerIsWhole'
  BY <1>1 DEF AnswerIsWhole, PipelineInv
<1>4. NothingWholeYet'
  <2>1. \A i \in 1 .. Len(answer[r]) :
          answer[r][i].mode \in Int /\ answer[r][i].mode <= Turn(pc[r]) /\ ~answer[r][i].whole
    <3> TAKE i \in 1 .. Len(answer[r])
    <3>1. answer[r][i] \in AnswerPart
      BY ElementOfSeq DEF PipelineTypeOK, PipelineInv
    <3> QED
      BY <3>1 DEF NothingWholeYet, CutOff, AnswerPart, Server, Stub, PipelineInv
  <2>2. Turn(pc[r]) \in Int /\ Turn(location) \in Int
    BY DEF Turn, Server, Cli, Grpc, Stub
  <2>3. CutOff(answer[r], Turn(location))
    BY <2>1, <2>2 DEF CutOff
  <2> QED
    BY <1>1, <2>3 DEF NothingWholeYet, PipelineTypeOK, PipelineInv
<1>5. NoChildLeft' /\ SomethingLoaded' /\ NothingKept'
  BY <1>1 DEF NoChildLeft, SomethingLoaded, NothingKept, PipelineTypeOK, PipelineInv
<1> QED
  BY <1>2, <1>3, <1>4, <1>5 DEF PipelineInv

\* A request begins with an empty answer.
LEMMA ArriveInv == ASSUME PipelineInv, NEW r \in Request, Arrive(r) PROVE PipelineInv'
<1>1. PICK nodes \in NodeLists, available \in BOOLEAN :
        /\ list' = [list EXCEPT ![r] = nodes]
        /\ Go(r, IF modelFile /\ available THEN "server" ELSE AfterServer(modelFile, nodes))
  BY DEF Arrive
<1>2. PICK location \in {"server", "spawning", "connecting", "stub"} :
        pc' = [pc EXCEPT ![r] = location]
  <2>1. \A file : AfterServer(file, nodes) \in {"spawning", "connecting", "stub"}
    BY DEF AfterServer, AfterCli
  <2> QED
    BY <1>1, <2>1 DEF Go
<1>3. /\ found' = [found EXCEPT ![r] = modelFile]
      /\ child' = [child EXCEPT ![r] = "none"]
      /\ answer' = [answer EXCEPT ![r] = <<>>]
      /\ outcome' = [outcome EXCEPT ![r] = "none"]
      /\ UNCHANGED <<hasCli, layers, modelFile, connections, at, loaded>>
      /\ pc[r] = "idle"
  BY DEF Arrive, setup
<1>4. <<>> \in Seq(AnswerPart) /\ Len(<<>>) = 0
  BY EmptySeq
<1>5. at[r] = 1 /\ loaded[r] = {}
  BY <1>3 DEF NothingKept, PipelineInv
<1>6. PipelineTypeOK'
  BY <1>1, <1>2, <1>3, <1>4, <1>5 DEF PipelineTypeOK, Location, PipelineInv
<1>7. AnswerIsWhole'
  BY <1>3, <1>4 DEF AnswerIsWhole, PipelineTypeOK, PipelineInv
<1>8. NothingWholeYet' /\ NoChildLeft'
  BY <1>2, <1>3, <1>4 DEF NothingWholeYet, CutOff, NoChildLeft, PipelineTypeOK, PipelineInv
<1>9. SomethingLoaded' /\ NothingKept'
  BY <1>2, <1>3 DEF SomethingLoaded, NothingKept, PipelineTypeOK, PipelineInv
<1> QED
  BY <1>6, <1>7, <1>8, <1>9 DEF PipelineInv

\* The child may be killed, and the request be over or wait for it.
LEMMA KillInv ==
  ASSUME PipelineInv, NEW r \in Request, pc[r] # "idle", Kill(r),
         outcome' \in {outcome, [outcome EXCEPT ![r] = "cancelled"]},
         \/ /\ Go(r, "reaping") /\ UNCHANGED <<found, list, at, loaded>>
            /\ pc[r] \in {"cli", "reaping"}
         \/ Over(r),
         UNCHANGED <<hasCli, layers, modelFile, connections, answer>>
  PROVE  PipelineInv'
<1>1. /\ \/ pc'[r] = "idle" /\ at'[r] = 1 /\ loaded'[r] = {}
         \/ pc'[r] = "reaping" /\ at'[r] = at[r] /\ loaded'[r] = loaded[r] /\ Turn(pc[r]) = Turn(pc'[r])
      /\ \A q \in Request \ {r} : pc'[q] = pc[q] /\ at'[q] = at[q] /\ loaded'[q] = loaded[q]
      /\ pc' \in [Request -> Location]
      /\ found' \in [Request -> BOOLEAN]
      /\ list' \in [Request -> NodeLists]
      /\ at' \in [Request -> Nat] /\ loaded' \in [Request -> SUBSET Nat]
      /\ \A q \in Request :
           at'[q] \in 1 .. Len(list'[q]) + 1 /\ loaded'[q] \subseteq DOMAIN list'[q]
  <2>1. CASE Over(r)
    BY <2>1, OverLocals DEF PipelineInv
  <2>2. CASE Go(r, "reaping") /\ UNCHANGED <<found, list, at, loaded>> /\ pc[r] \in {"cli", "reaping"}
    BY <2>2 DEF Go, Turn, Location, PipelineTypeOK, PipelineInv
  <2> QED
    BY <2>1, <2>2
<1>2. /\ child' \in [Request -> {"none", "running", "killed", "exited"}]
      /\ child'[r] # "running"
      /\ \A q \in Request \ {r} : child'[q] = child[q]
  BY DEF Kill, PipelineTypeOK, PipelineInv
<1>3. /\ outcome' \in [Request -> {"none", "answered", "cancelled"}]
      /\ outcome[r] # "answered" /\ outcome'[r] # "answered"
      /\ \A q \in Request \ {r} : outcome'[q] = outcome[q]
  BY DEF NothingWholeYet, PipelineTypeOK, PipelineInv
<1>4. PipelineTypeOK'
  BY <1>1, <1>2, <1>3 DEF PipelineTypeOK, PipelineInv
<1>5. AnswerIsWhole'
  BY <1>3 DEF AnswerIsWhole, PipelineInv
<1>6. NothingWholeYet'
  BY <1>1, <1>3 DEF NothingWholeYet, PipelineInv
<1>7. NoChildLeft' /\ NothingKept' /\ SomethingLoaded'
  BY <1>1, <1>2 DEF NoChildLeft, SomethingLoaded, NothingKept, PipelineInv
<1> QED
  BY <1>4, <1>5, <1>6, <1>7 DEF PipelineInv

\* Wherever its caller drops it.
LEMMA CancelInv == ASSUME PipelineInv, NEW r \in Request, Cancel(r) PROVE PipelineInv'
<1>1. CASE pc[r] = "cli" /\ child[r] = "running"
  BY <1>1, KillInv DEF Cancel, locals, setup
<1>2. CASE ~(pc[r] = "cli" /\ child[r] = "running")
  BY <1>2, KillInv DEF Cancel, setup
<1> QED
  BY <1>1, <1>2

\* The modes whose inside is left open.
LEMMA ModesInv ==
  ASSUME PipelineInv, NEW r \in Request, ServerMode(r) \/ StubMode(r) \/ GrpcMode(r)
  PROVE  PipelineInv'
<1> USE DEF Server, Cli, Grpc, Stub
<1>0. child[r] = "running" => pc[r] \in {"cli", "reaping"}
  BY DEF NoChildLeft, PipelineInv
<1>1. CASE ServerMode(r)
  <2>1. AfterServer(found[r], list[r]) \in {"spawning", "connecting", "stub"}
    BY DEF AfterServer, AfterCli
  <2>2. Turn(pc[r]) = Server /\ pc[r] = "server"
    BY <1>1 DEF ServerMode, Turn
  <2>3. CASE Moves(r, AfterServer(found[r], list[r]))
    BY <1>0, <2>1, <2>2, <2>3, MovesInv DEF Turn, Location
  <2>4. CASE Emits(r, Server) \/ Ends(r, Server)
    BY <2>2, <2>4, EmitsInv, EndsInv
  <2> QED
    BY <1>1, <2>3, <2>4 DEF ServerMode
<1>2. CASE StubMode(r)
  <2>1. Turn(pc[r]) = Stub /\ pc[r] = "stub"
    BY <1>2 DEF StubMode, Turn
  <2> QED
    BY <1>2, <2>1, EmitsInv, EndsInv DEF StubMode
<1>3. CASE GrpcMode(r)
  <2>1. Turn(pc[r]) = Grpc /\ pc[r] = "grpc"
    BY <1>3 DEF GrpcMode, Turn
  <2>2. CASE Moves(r, "stub")
    BY <1>0, <2>1, <2>2, MovesInv DEF Turn, Location
  <2>3. CASE Emits(r, Grpc) \/ Ends(r, Grpc)
    BY <2>1, <2>3, EmitsInv, EndsInv
  <2> QED
    BY <1>3, <2>2, <2>3 DEF GrpcMode
<1> QED
  BY <1>1, <1>2, <1>3

\* The llama-cli process.
LEMMA CliInv == ASSUME PipelineInv, NEW r \in Request, CliMode(r) PROVE PipelineInv'
<1> USE DEF Server, Cli, Grpc, Stub
<1>0. /\ AfterCli(list[r]) \in {"connecting", "stub"}
      /\ pc[r] \notin {"cli", "reaping"} => child[r] # "running"
  BY DEF AfterCli, NoChildLeft, PipelineInv
<1>1. CASE CliSpawns(r)
  <2>1. PipelineTypeOK'
    BY <1>1 DEF CliSpawns, Go, setup, locals, PipelineTypeOK, Location, PipelineInv
  <2>2. AnswerIsWhole'
    BY <1>1 DEF CliSpawns, AnswerIsWhole, PipelineInv
  <2>3. NothingWholeYet'
    BY <1>1 DEF CliSpawns, Go, NothingWholeYet, Turn, PipelineTypeOK, PipelineInv
  <2>4. NoChildLeft' /\ SomethingLoaded' /\ NothingKept'
    BY <1>1 DEF CliSpawns, Go, locals, NoChildLeft, SomethingLoaded, NothingKept,
                PipelineTypeOK, PipelineInv
  <2> QED
    BY <2>1, <2>2, <2>3, <2>4 DEF PipelineInv
<1>2. CASE CliSpawnFails(r) \/ CliReturns(r)
  <2>1. PICK location \in {"emitting", "connecting", "stub"} : Moves(r, location)
    BY <1>0, <1>2 DEF CliSpawnFails, CliReturns
  <2>2. pc[r] \in {"spawning", "cli"} /\ child[r] # "running"
    BY <1>0, <1>2 DEF CliSpawnFails, CliReturns
  <2> QED
    BY <2>1, <2>2, MovesInv DEF Turn, Location
<1>3. CASE CliEmits(r)
  BY <1>3, EmitsInv, EndsInv DEF CliEmits, Turn
<1>4. CASE CliTimeout(r)
  BY <1>4, KillInv DEF CliTimeout, setup, locals
<1>5. CASE Reaped(r)
  <2>1. CASE outcome[r] = "cancelled"
    BY <1>5, <2>1, KillInv DEF Reaped, setup, Kill, PipelineTypeOK, PipelineInv
  <2>2. CASE outcome[r] # "cancelled"
    BY <1>0, <1>5, <2>2, MovesInv DEF Reaped, Turn, Location
  <2> QED
    BY <2>1, <2>2
<1> QED
  BY <1>1, <1>2, <1>3, <1>4, <1>5 DEF CliMode

\* The connections and the loads.
LEMMA NodesInv == ASSUME PipelineInv, NEW r \in Request, NodesMode(r) PROVE PipelineInv'
<1> USE DEF Server, Cli, Grpc, Stub
<1>0. /\ Len(list[r]) \in Nat /\ DOMAIN list[r] = 1 .. Len(list[r])
      /\ pc[r] \notin {"cli", "reaping"} => child[r] # "running"
  BY PipelineAssumption DEF NoChildLeft, PipelineTypeOK, PipelineInv
<1>1. CASE Connect(r) \/ LoadShard(r)
  <2>1. /\ pc[r] \in {"connecting", "reconnecting", "loading"}
        /\ at[r] <= Len(list[r])
        /\ at' = [at EXCEPT ![r] = @ + 1]
        /\ connections' \subseteq Node
        /\ loaded' \in {loaded, [loaded EXCEPT ![r] = @ \cup {at[r]}]}
        /\ UNCHANGED <<hasCli, layers, modelFile, pc, found, list, child, answer, outcome>>
    BY <1>0, <1>1, ElementOfSeq, PipelineAssumption
       DEF Connect, Connecting, LoadShard, AtNode, setup, PipelineTypeOK, PipelineInv
  <2>2. PipelineTypeOK'
    <3>1. at[r] \in 1 .. Len(list[r]) /\ at \in [Request -> Nat] /\ at[r] + 1 \in Nat
      BY <1>0, <2>1 DEF PipelineTypeOK, PipelineInv
    <3>2. \A q \in Request : at'[q] \in 1 .. Len(list'[q]) + 1
      <4>1. at'[r] \in 1 .. Len(list'[r]) + 1
        BY <1>0, <2>1, <3>1
      <4>2. \A q \in Request \ {r} : at'[q] = at[q] /\ list'[q] = list[q]
        BY <2>1, <3>1
      <4> QED
        BY <4>1, <4>2 DEF PipelineTypeOK, PipelineInv
    <3>3. loaded' \in [Request -> SUBSET Nat]
      <4>1. loaded \in [Request -> SUBSET Nat] /\ loaded[r] \cup {at[r]} \in SUBSET Nat
        BY <3>1 DEF PipelineTypeOK, PipelineInv
      <4> QED
        BY <2>1, <4>1
    <3>4. \A q \in Request : loaded'[q] \subseteq DOMAIN list'[q]
      <4>1. loaded'[r] \subseteq DOMAIN list'[r]
        <5>1. loaded[r] \subseteq DOMAIN list[r] /\ at[r] \in DOMAIN list[r] /\ list' = list
          BY <1>0, <2>1, <3>1 DEF PipelineTypeOK, PipelineInv
        <5>2. loaded'[r] \in {loaded[r], loaded[r] \cup {at[r]}}
          BY <2>1 DEF PipelineTypeOK, PipelineInv
        <5> QED
          BY <5>1, <5>2
      <4>2. \A q \in Request \ {r} : loaded'[q] = loaded[q] /\ list'[q] = list[q]
        BY <2>1 DEF PipelineTypeOK, PipelineInv
      <4> QED
        BY <4>1, <4>2 DEF PipelineTypeOK, PipelineInv
    <3>5. at' \in [Request -> Nat]
      BY <2>1, <3>1
    <3> QED
      BY <2>1, <3>2, <3>3, <3>4, <3>5 DEF PipelineTypeOK, PipelineInv
  <2>3. AnswerIsWhole' /\ NothingWholeYet' /\ NoChildLeft'
    BY <2>1 DEF AnswerIsWhole, NothingWholeYet, NoChildLeft, PipelineInv
  <2>4. SomethingLoaded' /\ NothingKept'
    BY <2>1 DEF SomethingLoaded, NothingKept, PipelineTypeOK, PipelineInv
  <2> QED
    BY <2>2, <2>3, <2>4 DEF PipelineInv
<1>2. CASE Connected(r)
  <2>1. PICK location \in {"reconnecting", "loading", "stub"} : Go(r, location)
    BY <1>2 DEF Connected, AfterConnecting
  <2>2. /\ pc[r] \in {"connecting", "reconnecting"}
        /\ at' = [at EXCEPT ![r] = 1]
        /\ UNCHANGED <<hasCli, layers, modelFile, connections, found, list, loaded,
                       child, answer, outcome>>
    BY <1>2 DEF Connected, setup
  <2>3. PipelineTypeOK'
    BY <1>0, <2>1, <2>2, PipelineAssumption DEF Go, PipelineTypeOK, Location, PipelineInv
  <2>4. AnswerIsWhole'
    BY <2>2 DEF AnswerIsWhole, PipelineInv
  <2>5. NothingWholeYet'
    <3>1. \A i \in 1 .. Len(answer[r]) :
            answer[r][i].mode \in Int /\ answer[r][i].mode <= Grpc /\ ~answer[r][i].whole
      <4> TAKE i \in 1 .. Len(answer[r])
      <4>1. answer[r][i] \in AnswerPart
        BY ElementOfSeq DEF PipelineTypeOK, PipelineInv
      <4> QED
        BY <2>2, <4>1 DEF NothingWholeYet, CutOff, Turn, AnswerPart, PipelineInv
    <3>2. CutOff(answer[r], Turn(location))
      BY <3>1 DEF CutOff, Turn
    <3> QED
      BY <2>1, <2>2, <3>2 DEF Go, NothingWholeYet, PipelineTypeOK, PipelineInv
  <2>6. NoChildLeft' /\ SomethingLoaded' /\ NothingKept'
    BY <1>0, <2>1, <2>2 DEF Go, NoChildLeft, SomethingLoaded, NothingKept, PipelineTypeOK, PipelineInv
  <2> QED
    BY <2>3, <2>4, <2>5, <2>6 DEF PipelineInv
<1>3. CASE ShardsLoaded(r)
  <2>1. pc[r] = "loading" /\ Moves(r, IF loaded[r] # {} THEN "grpc" ELSE "stub")
    BY <1>3 DEF ShardsLoaded
  <2>2. CASE loaded[r] # {}
    BY <1>0, <2>1, <2>2, MovesInv DEF Turn, Location
  <2>3. CASE loaded[r] = {}
    BY <1>0, <2>1, <2>3, MovesInv DEF Turn, Location
  <2> QED
    BY <2>2, <2>3
<1>4. CASE GrpcMode(r)
  BY <1>4, ModesInv
<1> QED
  BY <1>1, <1>2, <1>3, <1>4 DEF NodesMode

\* Every step keeps it.
LEMMA PipelineStepInv == PipelineInv /\ [PipelineNext]_pipelineVars => PipelineInv'
<1> SUFFICES ASSUME PipelineInv, [PipelineNext]_pipelineVars PROVE PipelineInv'
  OBVIOUS
<1>1. CASE ModelFileChanges
  <2>1. /\ modelFile' \in BOOLEAN
        /\ UNCHANGED <<hasCli, layers, connections, pc, found, list, at, loaded,
                       child, answer, outcome>>
    BY <1>1 DEF ModelFileChanges, setup, locals
  <2> QED
    BY <2>1 DEF PipelineInv, PipelineTypeOK, AnswerIsWhole, NothingWholeYet, NoChildLeft,
                SomethingLoaded, NothingKept
<1>2. ASSUME NEW r \in Request, CliExits(r) PROVE PipelineInv'
  <2>1. /\ child' = [child EXCEPT ![r] = "exited"]
        /\ UNCHANGED <<hasCli, layers, modelFile, connections, pc, found, list, at,
                       loaded, answer, outcome>>
    BY <1>2 DEF CliExits, setup, locals
  <2> QED
    BY <2>1 DEF PipelineInv, PipelineTypeOK, AnswerIsWhole, NothingWholeYet, NoChildLeft,
                SomethingLoaded, NothingKept
<1>3. CASE UNCHANGED pipelineVars
  BY <1>3 DEF pipelineVars, setup, locals, PipelineInv, PipelineTypeOK, AnswerIsWhole,
              NothingWholeYet, NoChildLeft, SomethingLoaded, NothingKept
<1> QED
  BY <1>1, <1>2, <1>3, ArriveInv, CancelInv, ModesInv, CliInv, NodesInv DEF PipelineNext, Step

-----------------------------------------------------------------------------
(* The slices of the layers.                                               *)

\* With at least one node, each layer is in the slice of exactly one of them; with
\* fewer layers than nodes that is the last one.
LEMMA OneSlicePerLayer ==
  ASSUME NEW n \in Nat \ {0}, layers \in Nat, NEW layer \in 0 .. layers - 1
  PROVE  Cardinality({i \in 1 .. n : layer \in Slice(n, i)}) = 1
<1> DEFINE per == layers \div n
<1>1. per \in Nat /\ n * per <= layers
  OBVIOUS
<1> HIDE DEF per
<1>2. \A i \in 1 .. n - 1 : Slice(n, i) = (i - 1) * per .. i * per - 1
  <2> TAKE i \in 1 .. n - 1
  <2> DEFINE first == (i - 1) * per
             after == i * per
  <2>1. Slice(n, i) = first .. first + per - 1
    BY DEF Slice, per
  <2>2. first \in Int /\ after \in Int /\ first + per = after
    BY <1>1
  <2> HIDE DEF first, after
  <2>3. first + per - 1 = after - 1
    BY <1>1, <2>2
  <2>4. Slice(n, i) = first .. after - 1
    BY <2>1, <2>3
  <2> QED
    BY <2>4 DEF first, after
<1>3. Slice(n, n) = (n - 1) * per .. layers - 1
  <2> DEFINE first == (n - 1) * per
  <2>1. Slice(n, n) = first .. first + (layers - first) - 1
    BY DEF Slice, per
  <2>2. first \in Int
    BY <1>1
  <2> HIDE DEF first
  <2>3. first + (layers - first) - 1 = layers - 1
    BY <2>2
  <2> QED
    BY <2>1, <2>3 DEF first
<1>4. \A i, j \in 1 .. n : i < j => i * per <= (j - 1) * per
  BY <1>1
<1>5. \E i \in 1 .. n : layer \in Slice(n, i)
  <2>1. CASE layer >= (n - 1) * per
    BY <1>1, <1>3, <2>1
  <2>2. CASE layer < (n - 1) * per
    <3>1. per # 0
      BY <1>1, <2>2
    <3> DEFINE k == layer \div per
    <3>2. k \in Nat /\ k * per <= layer /\ layer < (k + 1) * per
      BY <1>1, <3>1
    <3> HIDE DEF k
    <3>3. k < n - 1
      BY <1>1, <2>2, <3>1, <3>2
    <3>4. k + 1 \in 1 .. n - 1 /\ (k + 1) - 1 = k
      BY <3>2, <3>3
    <3>5. layer \in k * per .. (k + 1) * per - 1
      BY <1>1, <3>2
    <3>6. Slice(n, k + 1) = k * per .. (k + 1) * per - 1
      BY <1>2, <3>4
    <3>7. layer \in Slice(n, k + 1)
      BY <3>5, <3>6
    <3>8. k + 1 \in 1 .. n
      BY <3>4
    <3> QED
      BY <3>7, <3>8
  <2> QED
    BY <1>1, <2>1, <2>2
<1>6. \A i, j \in 1 .. n : i < j => ~(layer \in Slice(n, i) /\ layer \in Slice(n, j))
  <2> SUFFICES ASSUME NEW i \in 1 .. n, NEW j \in 1 .. n, i < j, layer \in Slice(n, i),
                      layer \in Slice(n, j)
               PROVE  FALSE
    OBVIOUS
  <2>1. layer < i * per
    BY <1>1, <1>2
  <2>2. layer >= (j - 1) * per
    <3>1. CASE j = n
      BY <1>1, <1>3, <3>1
    <3>2. CASE j # n
      <4>1. j \in 1 .. n - 1
        BY <3>2
      <4>2. Slice(n, j) = (j - 1) * per .. j * per - 1
        BY <1>2, <4>1
      <4> QED
        BY <1>1, <4>2
    <3> QED
      BY <3>1, <3>2
  <2>3. i * per <= (j - 1) * per /\ i * per \in Int /\ (j - 1) * per \in Int
    BY <1>1, <1>4
  <2> QED
    BY <2>1, <2>2, <2>3
<1>7. PICK i \in 1 .. n : {j \in 1 .. n : layer \in Slice(n, j)} = {i}
  BY <1>5, <1>6
<1> QED
  BY <1>7, FS_Singleton

\* Who comes to ForwardStream has a node in its list.
LEMMA SlicesOK == PipelineInv => SlicesCoverModel
<1> SUFFICES ASSUME PipelineInv, NEW r \in Request, pc[r] = "grpc",
                    NEW layer \in 0 .. layers - 1
             PROVE  Cardinality({i \in 1 .. Len(list[r]) : layer \in Slice(Len(list[r]), i)}) = 1
  BY DEF SlicesCoverModel
<1>1. loaded[r] # {} /\ loaded[r] \subseteq DOMAIN list[r] /\ list[r] \in Seq(Node)
  BY PipelineAssumption DEF PipelineInv, SomethingLoaded, PipelineTypeOK
<1>2. Len(list[r]) \in Nat \ {0}
  BY <1>1
<1>3. layers \in Nat
  BY PipelineAssumption DEF PipelineInv, PipelineTypeOK
<1> QED
  BY <1>2, <1>3, OneSlicePerLayer

-----------------------------------------------------------------------------
(* The theorems.                                                           *)

\* PipelineInv holds throughout.
LEMMA PipelineCorrect == PipelineSpec => []PipelineInv
  BY PipelineInitInv, PipelineStepInv, PTL DEF PipelineSpec

\* A request's place in its list of nodes and what it has loaded always belong to
\* that list, also after the request before it was dropped (run_stream's locals).
THEOREM PipelineTyped == PipelineSpec => []PipelineTypeOK
<1>1. PipelineInv => PipelineTypeOK
  BY DEF PipelineInv
<1> QED
  BY <1>1, PipelineCorrect, PTL

\* Whichever modes fail, and however often, the parts of an answer are in the order
\* of the modes, only the last can be whole, and an answered request has one.
THEOREM AnswersAreWhole == PipelineSpec => []AnswerIsWhole
<1>1. PipelineInv => AnswerIsWhole
  BY DEF PipelineInv
<1> QED
  BY <1>1, PipelineCorrect, PTL

\* No llama-cli runs on after its request, however that ends.
THEOREM ChildrenAreReaped == PipelineSpec => []NoChildLeft
<1>1. PipelineInv => NoChildLeft
  BY DEF PipelineInv
<1> QED
  BY <1>1, PipelineCorrect, PTL

\* For any number of nodes and of layers, the slices of nodes that have all loaded
\* theirs are the whole model and do not overlap.
THEOREM ModelIsCovered == PipelineSpec => []SlicesCoverModel
<1>1. PipelineInv => SlicesCoverModel
  BY SlicesOK
<1> QED
  BY <1>1, PipelineCorrect, PTL
=============================================================================
