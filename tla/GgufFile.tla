------------------------------ MODULE GgufFile ------------------------------
(***************************************************************************)
(* The splitter on the bytes of its files: how main() of                   *)
(* tools/gguf-splitter/src/main.rs finds the list of tensors in a GGUF     *)
(* file, of which a part may be missing, and how write_shard puts one into *)
(* a shard.  A file is the sequence of its bytes; offsets count from 0.    *)
(***************************************************************************)
EXTENDS GgufSplitter

CONSTANTS
  Files,      \* what a run may be given: [gguf |-> what was written, cut |-> bytes missing]
  LaterFiles, \* those of them a run after the first may be given
  Values,     \* values of metadata: scalars, texts, and lists of values
  NameMarks,  \* byte strings of which a tensor's name has one: ".", "weight", ...
  HUGE        \* numbers from here on are read as this one; none, if it is 2^64

\* The length of a name is below it.
ASSUME NumberAssumption == HUGE \in Nat /\ HUGE >= 256

MAGIC == <<71, 71, 85, 70>>
TEXT == 8
LIST == 9

-----------------------------------------------------------------------------
(* Writing.                                                                *)

\* What of a number does not go into four bytes.
High(n) == (n \div 65536) \div 65536

\* n as a little-endian number: a u32, and a u64.
Bytes32(n) ==
  LET m == n \div 65536 IN <<n % 256, (n \div 256) % 256, m % 256, (m \div 256) % 256>>
Bytes(n, width) == IF width = 4 THEN Bytes32(n) ELSE Bytes32(n) \o Bytes32(High(n))

Text(bytes) == Bytes(Len(bytes), 8) \o bytes

\* An entry of the table.
TensorInfo(t, offset) ==
  Text(t.name) \o Bytes(Len(t.dims), 4)
    \o FlattenSeq([i \in DOMAIN t.dims |-> Bytes(t.dims[i], 8)])
    \o Bytes(t.type, 4) \o Bytes(offset, 8)

Zeros(n) == [i \in 1 .. n |-> 0]

\* A whole file of version 3: metadata, a table of tensors and its padding, and
\* data, of which only the size matters.
Gguf(pairs, metadata, table, size) ==
  LET header == MAGIC \o Bytes(3, 4) \o Bytes(Len(table), 8) \o Bytes(pairs, 8)
                  \o metadata \o FlattenSeq(table)
  IN  header \o Zeros(AlignUp(Len(header)) - Len(header) + size)

-----------------------------------------------------------------------------
(* Reading.  An offset is Refused when a reader has returned an error.     *)

Refused == -1

Fits(d, at, n) == at # Refused /\ at + n <= Len(d)

\* The bytes from offset at on.
Slice(d, at, n) == SubSeq(d, at + 1, at + n)

\* The number with byte b below n, of which n counts the 256s.
Above(n, b) == Min({HUGE, b + 256 * n})

\* The four bytes at an offset as a number, below one that begins with high.
Number(d, at, high) ==
  Above(Above(Above(Above(high, d[at + 4]), d[at + 3]), d[at + 2]), d[at + 1])
U32(d, at) == Number(d, at, 0)
U64(d, at) == Number(d, at, Number(d, at + 4, 0))

Fixed == {0, 1, 2, 3, 4, 5, 6, 7, 10, 11, 12}
FixedSize ==
  [t \in Fixed |-> CASE t \in {0, 1, 7} -> 1
                    [] t \in {2, 3} -> 2
                    [] t \in {4, 5, 6} -> 4
                    [] t \in {10, 11, 12} -> 8]

Offset == Nat \cup {Refused}

\* Faulty variant: the type of an array's elements is not read for each of them,
\* only its size, as if there were no arrays of strings.
SkipFixed(d) ==
  [type \in Nat |-> [at \in Offset |->
     CASE type \in Fixed -> at + FixedSize[type]
       [] type = TEXT /\ Fits(d, at, 8) -> at + 8 + U64(d, at)
       [] type = LIST /\ Fits(d, at, 12) -> at + 12 + 8 * U64(d, at + 4)
       [] OTHER -> Refused]]

\* The offset after the elements of an array, each of which s skips.
SkipList(d, at, s) ==
  LET element[i \in 0 .. U64(d, at + 4)] ==
        IF i = 0 THEN at + 12 ELSE s[U32(d, at)][element[i - 1]]
  IN  element[U64(d, at + 4)]

\* skip_value: the offset after a value of some type at an offset, where s skips
\* the elements of an array.  It may lie beyond the end of the file, which the
\* next reader notices.
SkipValue(d, s) ==
  [type \in Nat |-> [at \in Offset |->
     CASE type \in Fixed /\ at # Refused -> at + FixedSize[type]
       [] type = TEXT /\ Fits(d, at, 8) -> at + 8 + U64(d, at)
       [] type = LIST /\ Fits(d, at, 12) -> SkipList(d, at, s)
       [] OTHER -> Refused]]

\* No array is nested deeper than the file has bytes.
SkipNone == [type \in Nat |-> [at \in Offset |-> Refused]]
Skip(d) ==
  LET skip[depth \in 0 .. Len(d)] ==
        IF depth = 0 THEN SkipNone ELSE SkipValue(d, skip[depth - 1])
  IN  skip[Len(d)]

\* The offset after the pair of a key and its value, and after all of them.
AfterPair(d, key) ==
  LET type == key + 8 + U64(d, key)
  IN  IF Fits(d, key, 8) /\ Fits(d, type, 4)
        THEN Skip(d)[U32(d, type)][type + 4]
        ELSE Refused

MetadataEnd(d) ==
  LET after[k \in 0 .. U64(d, 16)] == IF k = 0 THEN 24 ELSE AfterPair(d, after[k - 1])
  IN  after[U64(d, 16)]

Occurs(mark, text) ==
  \E i \in 0 .. Len(text) - Len(mark) : SubSeq(text, i + 1, i + Len(mark)) = mark

\* What begins at an offset may be a tensor's name.
NameLength == 1 .. 255
LooksLikeName(d, at) ==
  /\ Fits(d, at, 8)
  /\ U64(d, at) \in NameLength
  /\ Fits(d, at + 8, U64(d, at))
  /\ \E mark \in NameMarks : Occurs(mark, Slice(d, at + 8, U64(d, at)))

\* Every fourth offset from 32 before the end of the metadata to 32 after it.
Window(best) ==
  LET first == Max({best - 32, 0}) IN {c \in first .. best + 31 : (c - first) % 4 = 0}

\* tensor_info_start: the first name that is found there.
TableStart(d, best) ==
  LET names == {c \in Window(best) : LooksLikeName(d, c)}
  IN  IF names = {} THEN best ELSE Min(names)

\* from_utf8; what is not ASCII does not occur.
IsText(bytes) == \A i \in DOMAIN bytes : bytes[i] < 128

\* One entry of the table, and the offset after it.
Entry(d, at) ==
  LET dims == at + 8 + U64(d, at)
      rest == dims + 4 + 8 * U32(d, dims)
      name == Slice(d, at + 8, U64(d, at))
  IN  IF Fits(d, at, 8) /\ Fits(d, at + 8, U64(d, at)) /\ IsText(name)
           /\ Fits(d, dims, 4) /\ Fits(d, rest, 12)
        THEN [name |-> name,
              dims |-> [i \in 1 .. U32(d, dims) |-> U64(d, dims + 8 * i - 4)],
              type |-> U32(d, rest),
              offset |-> U64(d, rest + 4),
              after |-> rest + 12]
        ELSE [after |-> Refused]

Table(d, start) ==
  LET entry[k \in 1 .. U64(d, 8)] ==
        Entry(d, IF k = 1 THEN start ELSE entry[k - 1].after)
  IN  entry

BLK == <<98, 108, 107, 46>>
DOT == 46
PLUS == <<43>>
IsDigit(b) == b \in 48 .. 57

\* get_layer_id: the number in blk.<n>., which may have a plus and is a u32.
LayerOf(name) ==
  LET rest == SubSeq(name, 5, Len(name))
      text == SubSeq(rest, 1, SelectInSeq(rest, LAMBDA b : b = DOT) - 1)
      digits == IF IsPrefix(PLUS, text) THEN Tail(text) ELSE text
      n == FoldLeft(LAMBDA m, b : 10 * m + b - 48, 0, digits)
  IN  IF /\ IsPrefix(BLK, name)
         /\ digits # <<>> /\ \A i \in DOMAIN digits : IsDigit(digits[i])
         /\ High(n) = 0
        THEN n
        ELSE NoLayer

\* main() up to the plan.
Read(d) ==
  LET header == Fits(d, 0, 24) /\ Slice(d, 0, 4) = MAGIC
      start == TableStart(d, MetadataEnd(d))
      table == Table(d, start)
      n == U64(d, 8)
      after == IF n = 0 THEN start ELSE table[n].after
  IN  IF header /\ MetadataEnd(d) # Refused /\ after # Refused
        THEN [layer |-> [k \in 1 .. n |-> LayerOf(table[k].name)],
              offset |-> [k \in 1 .. n |-> table[k].offset],
              end |-> Len(d) - AlignUp(after)]
        ELSE Unreadable

-----------------------------------------------------------------------------
(* The splitter on files.                                                  *)

VARIABLE file  \* what the run was given

fileVars == <<splitVars, file>>

\* A value, and a key with its value.
ValueBytes(v) ==
  CASE v.type \in Fixed -> v.bytes
    [] v.type = TEXT -> Text(v.bytes)
    [] v.type = LIST -> Bytes(v.of, 4) \o Bytes(Len(v.parts), 8) \o FlattenSeq(v.parts)

Pair(p) == Text(p.key) \o Bytes(p.value.type, 4) \o ValueBytes(p.value)

Metadata(g) == [k \in DOMAIN g.metadata |-> Pair(g.metadata[k])]
TableOf(g) == [k \in DOMAIN g.tensors |-> TensorInfo(g.tensors[k], g.tensors[k].offset)]

\* The file as it was written, and what there is of it.
Written(g) == Gguf(Len(g.metadata), FlattenSeq(Metadata(g)), TableOf(g), g.size)

Present(f) == SubSeq(Written(f.gguf), 1, Len(Written(f.gguf)) - f.cut)

\* What the tool reads of it.
Contents(f) == Read(Present(f))

\* What the format says of values: numbers have 64 or 32 bits.  The parts of a list are values of one type.
Byte == 0 .. 255
Ascii == 1 .. 127
Size == {n \in Nat : n < HUGE /\ High(High(n)) = 0}
Size32 == {n \in Size : High(n) = 0}
IsValue(v) ==
  \/ v.type \in Fixed /\ v.bytes \in Seq(Byte) /\ Len(v.bytes) = FixedSize[v.type]
  \/ v.type = TEXT /\ v.bytes \in Seq(Byte) /\ Len(v.bytes) \in Size
  \/ /\ v.type = LIST
     /\ v.of \in Fixed \cup {TEXT, LIST}
     /\ v.parts \in Seq(Seq(Byte)) /\ Len(v.parts) \in Size
     /\ \A k \in DOMAIN v.parts : \E u \in Values : u.type = v.of /\ v.parts[k] = ValueBytes(u)

\* And of a model file: it has tensors, whose names are text in which main.rs
\* recognizes a name, and which says what layer they are of.
IsGguf(g) ==
  /\ Len(g.metadata) \in Size
  /\ g.metadata \in Seq([key : Seq(Byte), value : Values])
  /\ \A k \in DOMAIN g.metadata : Len(g.metadata[k].key) \in Size
  /\ Len(g.tensors) \in Size
  /\ g.tensors # <<>>
  /\ g.tensors \in Seq([layer : Nat \cup {NoLayer}, name : Seq(Ascii), dims : Seq(Size),
                         type : Size32, offset : Size])
  /\ \A k \in DOMAIN g.tensors :
       LET t == g.tensors[k] IN
       /\ t.layer = LayerOf(t.name)
       /\ Len(t.name) \in NameLength
       /\ \E mark \in NameMarks : Occurs(mark, t.name)
       /\ Len(t.dims) \in Size32
  /\ g.size \in Nat

ASSUME FileAssumption ==
  /\ NameMarks \subseteq Seq(Byte)
  /\ \A v \in Values : IsValue(v)
  /\ \A g \in {f.gguf : f \in Files} : IsGguf(g)
  /\ \A f \in Files : f.cut \in 0 .. Len(Written(f.gguf))
  /\ \A f \in Files : Contents(f) \in Models \cup {Unreadable}
  /\ LaterFiles \subseteq Files

FileInit ==
  /\ file \in Files
  /\ \E m \in {Contents(file)} : FirstRunOn(m)

FileNext ==
  \/ RunStep /\ UNCHANGED file
  \/ \E f \in LaterFiles : \E m \in {Contents(f)} : RunOn(m) /\ file' = f

FileSpec == FileInit /\ [][FileNext]_fileVars

-----------------------------------------------------------------------------
(* Shards as files.                                                        *)

\* The order of a shard's table: by layer, the tensors without a layer last.
Rank(t) == IF model.layer[t] = NoLayer THEN CountLayers(model) ELSE model.layer[t]
Earlier(T, t) == {u \in T : Rank(u) < Rank(t) \/ (Rank(u) = Rank(t) /\ u < t)}
TableOrder(T) ==
  [k \in 1 .. Cardinality(T) |-> CHOOSE t \in T : Cardinality(Earlier(T, t)) = k - 1]

\* Faulty variant: the offsets are written in the order of the source file.
ShardBytesInFileOrder(i) ==
  LET d == Present(file)
      start == TableStart(d, MetadataEnd(d))
      order == TableOrder(DOMAIN files[i].table)
      offset == InFileOrder(model, DOMAIN files[i].table)
  IN  Gguf(U64(d, 16), Slice(d, 24, start - 24),
           [k \in DOMAIN order |->
              TensorInfo(Table(d, start)[order[k]], files[i].table[offset[k]])],
           files[i].length)

\* Shard i as this run has written it: raw_metadata is everything before the table.
ShardBytes(i) ==
  LET d == Present(file)
      start == TableStart(d, MetadataEnd(d))
      order == TableOrder(DOMAIN files[i].table)
  IN  Gguf(U64(d, 16), Slice(d, 24, start - 24),
           [k \in DOMAIN order |-> TensorInfo(Table(d, start)[order[k]], files[i].table[order[k]])],
           files[i].length)

-----------------------------------------------------------------------------
(* Properties.                                                             *)

TableBegin(g) == 24 + Len(FlattenSeq(Metadata(g)))
TableEnd(g) == TableBegin(g) + Len(FlattenSeq(TableOf(g)))

\* What a file holds, if the whole table is there.
Held(f) ==
  IF Len(Present(f)) < TableEnd(f.gguf)
    THEN Unreadable
    ELSE [layer |-> [k \in DOMAIN f.gguf.tensors |-> f.gguf.tensors[k].layer],
          offset |-> [k \in DOMAIN f.gguf.tensors |-> f.gguf.tensors[k].offset],
          end |-> Len(Present(f)) - AlignUp(TableEnd(f.gguf))]

\* Something that ends the metadata passes for the name of a tensor.
Ambiguous(g) ==
  \E at \in Window(TableBegin(g)) : at < TableBegin(g) /\ LooksLikeName(Written(g), at)

\* A run works on the tensors its file holds, and a file that ends anywhere before
\* the end of its table is refused: skip_value does not look at the end of the file
\* and the search for the table goes back into the metadata, and yet neither shows,
\* unless the metadata itself ends in something like a tensor's name.
HeaderRead == model = Held(file) \/ Ambiguous(file.gguf)

\* What shard i should be: a model file of the same metadata, of the tensors of the
\* plan, and of data as long as what was written.
ShardGguf(i) ==
  LET order == TableOrder(DOMAIN files[i].table)
  IN  [metadata |-> file.gguf.metadata,
       tensors |-> [k \in DOMAIN order |->
                      [file.gguf.tensors[order[k]] EXCEPT !.offset = files[i].table[order[k]]]],
       size |-> files[i].length]

\* The shards are model files again, and what the tool finds in one of them is the
\* tensors of the plan at the offsets write_shard has computed, and the data up to
\* its end.  The metadata that are no name before the first tensor of the file may
\* be one before the first tensor of the shard.
ShardsReadBack ==
  pc = "success" /\ command = "split" /\ ~Ambiguous(file.gguf) =>
    \A i \in 1 .. NumShards(model, perShard) :
      LET back == Read(ShardBytes(i))
      IN  /\ ShardBytes(i) = Written(ShardGguf(i))
          /\ ~Ambiguous(ShardGguf(i)) =>
               /\ {<<back.layer[t], back.offset[t]>> : t \in Tensor(back)}
                    = {<<model.layer[t], files[i].table[t]>> : t \in DOMAIN files[i].table}
               /\ back.end = files[i].length
=============================================================================
