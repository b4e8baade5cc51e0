----------------------------- MODULE MCGgufFile -----------------------------
(* A model of three layers whose tensors are listed in another order than      *)
(* their data is stored, with one tensor outside the layers and metadata of    *)
(* every kind; a small one without its first layer; one whose metadata ends in *)
(* what passes for a tensor's name, and one whose shard's do; and one without  *)
(* layers.                                                                     *)
EXTENDS GgufFile

KeyValue(key, value) == [key |-> key, value |-> value]
TextOf(bytes) == [type |-> TEXT, bytes |-> bytes]
Scalar(type, bytes) == [type |-> type, bytes |-> bytes]
ListOf(type, values) ==
  [type |-> LIST, of |-> type, parts |-> [i \in DOMAIN values |-> ValueBytes(values[i])]]

\* blk.<n>.w (one of them blk.+1.w), and w.o for a tensor outside the layers.
Name(n) == IF n = NoLayer THEN <<119, 46, 111>> ELSE BLK \o <<48 + n, DOT, 119>>

Info(n, dims, offset) ==
  [layer |-> n, name |-> Name(n), dims |-> dims, type |-> 2, offset |-> offset]

Strings == <<TextOf(<<105, 46>>), TextOf(<<>>)>>
Inner == <<ListOf(0, <<Scalar(0, <<5>>), Scalar(0, <<0>>), Scalar(0, <<0>>)>>),
           ListOf(2, <<Scalar(2, <<7, 0>>)>>)>>

Arch == KeyValue(<<97, 46, 98>>, TextOf(<<108, 108>>))
Words == KeyValue(<<116>>, ListOf(TEXT, Strings))
Nested == KeyValue(<<110>>, ListOf(LIST, Inner))
Flag == KeyValue(<<98, 46, 99>>, Scalar(7, <<1>>))
Count == KeyValue(<<99>>, Scalar(10, Bytes(4, 8)))
Version == KeyValue(<<103, 46, 118>>, Scalar(4, Bytes(2, 4)))
\* The length of a text that ends with the fourth byte of a name.
Limit == KeyValue(<<109>>, Scalar(10, Bytes(12, 8)))
\* Its key has four bytes, and so begins in the window.
Vocabulary == KeyValue(<<108, 46, 118, 111>>, Scalar(4, Bytes(9, 4)))

MCValues ==
  {p.value : p \in {Arch, Words, Nested, Flag, Count, Version, Limit, Vocabulary}}
    \cup {Strings[1], Strings[2], Inner[1], Inner[2]}
    \cup {Scalar(0, <<5>>), Scalar(0, <<0>>), Scalar(2, <<7, 0>>)}

Layered ==
  [metadata |-> <<Arch, Words, Nested, Flag, Count, Version>>,
   tensors |-> <<Info(2, <<2>>, 16), Info(NoLayer, <<1, 1>>, 0), Info(0, <<1000000>>, 32), Info(1, <<>>, 24)>>,
   size |-> 37]
Small ==
  [metadata |-> <<Version>>,
   tensors |-> <<[Info(1, <<3>>, 0) EXCEPT !.name = BLK \o <<43, 49, DOT, 119>>],
                 Info(NoLayer, <<1>>, 8)>>,
   size |-> 11]
Lookalike ==
  [metadata |-> <<Arch, Vocabulary>>, tensors |-> <<Info(0, <<1>>, 0)>>, size |-> 4]
\* embd.w and blk.0.w: the first four bytes of one have no mark, those of the other do.
Delayed ==
  [metadata |-> <<Limit>>,
   tensors |-> <<[Info(NoLayer, <<1>>, 0) EXCEPT !.name = <<101, 109, 98, 100, DOT, 119>>],
                 Info(0, <<1>>, 8)>>,
   size |-> 12]
Flat == [metadata |-> <<Flag>>, tensors |-> <<Info(NoLayer, <<2>>, 0)>>, size |-> 3]

MCGgufs == {Layered, Small, Lookalike, Flat}

MCNameMarks == {<<DOT>>, <<110, 111, 114, 109>>}

\* The first run may be given any of them with any part of its header missing, or
\* some of its data; a run after it the first two, whole.
MCFiles ==
  {f \in [gguf : MCGgufs, cut : 0 .. 500] :
     f.cut <= Len(Written(f.gguf)) /\ (f.cut <= f.gguf.size => f.cut \in {0, 4, 20})}
    \cup [gguf : {Delayed}, cut : {0}]
MCLaterFiles == [gguf : {Layered, Small}, cut : {0}]

\* What these files hold, their data cut or not, and what the third is taken for.
MCModels ==
  {[layer |-> [t \in DOMAIN g.tensors |-> g.tensors[t].layer],
    offset |-> [t \in DOMAIN g.tensors |-> g.tensors[t].offset],
    end |-> n] : g \in MCGgufs \cup {Delayed}, n \in -7 .. 37}
=============================================================================
