--------------------------- MODULE GgufFileProofs ---------------------------
(***************************************************************************)
(* What the splitter reads of a file, for all files IsGguf describes and   *)
(* whatever is missing of them.  A recursive function is reasoned about by *)
(* the sets its values are in: Iterate and IteratesIf say that it has the  *)
(* values its definition gives, UpTo is the induction.                     *)
(***************************************************************************)
EXTENDS GgufSplitterProofs

-----------------------------------------------------------------------------
(* Recursion.                                                              *)

\* A function that is computed from its first value step by step.
Iterates(f, X, a, n, step) ==
  f \in [0 .. n -> X] /\ f[0] = a /\ \A k \in 1 .. n : f[k] = step[k][f[k - 1]]

\* Such a recursive function has those values.
LEMMA Iterate ==
  ASSUME NEW X, NEW a \in X, NEW n \in Nat, NEW step, step \in [1 .. n -> [X -> X]]
  PROVE  \E f : Iterates(f, X, a, n, step)
<1> DEFINE Steps(f, j) ==
             f \in [0 .. j -> X] /\ f[0] = a /\ \A k \in 1 .. j : f[k] = step[k][f[k - 1]]
           S == {j \in 0 .. n : \E f : Steps(f, j)}
<1>1. 0 \in S
  <2>1. Steps([k \in 0 .. 0 |-> a], 0)
    OBVIOUS
  <2> HIDE DEF Steps
  <2> QED
    BY <2>1
<1>2. ASSUME NEW i \in 1 .. n, i - 1 \in S PROVE i \in S
  <2>1. PICK f : Steps(f, i - 1)
    BY <1>2
  <2> DEFINE g == [k \in 0 .. i |-> IF k = i THEN step[i][f[i - 1]] ELSE f[k]]
  <2>2. i - 1 \in 0 .. i - 1 /\ f[i - 1] \in X
    BY <2>1
  <2>3. step[i][f[i - 1]] \in X
    BY <2>2
  <2>4. g \in [0 .. i -> X] /\ g[0] = a
    BY <2>1, <2>3
  <2>5. \A k \in 0 .. i - 1 : g[k] = f[k]
    OBVIOUS
  <2>6. g[i] = step[i][f[i - 1]]
    OBVIOUS
  <2> HIDE DEF g
  <2>7. \A k \in 1 .. i : g[k] = step[k][g[k - 1]]
    <3> TAKE k \in 1 .. i
    <3>1. CASE k = i
      BY <2>2, <2>5, <2>6, <3>1
    <3>2. CASE k # i
      <4>1. k \in 1 .. i - 1 /\ k \in 0 .. i - 1 /\ k - 1 \in 0 .. i - 1
        BY <3>2
      <4> QED
        BY <2>1, <2>5, <4>1
    <3> QED
      BY <3>1, <3>2
  <2>8. Steps(g, i)
    BY <2>4, <2>7
  <2> HIDE DEF Steps
  <2> QED
    BY <2>8
<1> HIDE DEF S
<1>3. n \in S
  BY <1>1, <1>2, UpTo
<1> QED
  BY <1>3 DEF S, Iterates

\* A function that is given by its first value and each value's successor.
LEMMA IteratesIf ==
  ASSUME NEW X, NEW a \in X, NEW n \in Nat, NEW step, step \in [1 .. n -> [X -> X]],
         NEW f, f = [k \in 0 .. n |-> f[k]], f[0] = a,
         \A k \in 1 .. n : f[k - 1] \in X => f[k] = step[k][f[k - 1]]
  PROVE  Iterates(f, X, a, n, step)
<1> DEFINE S == {j \in 0 .. n : \A k \in 0 .. j : f[k] \in X}
<1>1. 0 \in S
  OBVIOUS
<1>2. ASSUME NEW i \in 1 .. n, i - 1 \in S PROVE i \in S
  <2>1. f[i - 1] \in X
    BY <1>2
  <2>2. step[i][f[i - 1]] \in X
    BY <2>1
  <2>3. f[i] \in X
    BY <2>1, <2>2
  <2>4. \A k \in 0 .. i - 1 : f[k] \in X
    BY <1>2
  <2>5. \A k \in 0 .. i : k = i \/ k \in 0 .. i - 1
    OBVIOUS
  <2>6. \A k \in 0 .. i : f[k] \in X
    BY <2>3, <2>4, <2>5
  <2> QED
    BY <2>6
<1>3. n \in S
  <2> HIDE DEF S
  <2> QED
    BY <1>1, <1>2, UpTo
<1>4. \A k \in 0 .. n : f[k] \in X
  BY <1>3
<1>5. \A k \in 1 .. n : f[k] = step[k][f[k - 1]]
  <2> TAKE k \in 1 .. n
  <2>1. k - 1 \in 0 .. n
    OBVIOUS
  <2> QED
    BY <1>4, <2>1
<1>6. f \in [0 .. n -> X]
  <2> DEFINE g == [k \in 0 .. n |-> f[k]]
  <2>1. g \in [0 .. n -> X]
    BY <1>4
  <2> QED
    BY <2>1
<1> QED
  BY <1>5, <1>6 DEF Iterates

-----------------------------------------------------------------------------
(* Bytes.                                                                  *)

\* What the numerals of the format stand for.
LEMMA ByteIs == \A b : b \in Byte <=> b \in Nat /\ b < 256
  BY DEF Byte

LEMMA HugeIs == HUGE \in Nat /\ HUGE >= 256
  BY NumberAssumption

LEMMA HighIsNat == \A n \in Nat : High(n) \in Nat
  BY DEF High

LEMMA HighOfSmall == \A n \in Nat : n < 65536 => High(n) = 0
<1> TAKE n \in Nat
<1> HAVE n < 65536
<1>1. n \div 65536 = 0
  OBVIOUS
<1>2. 0 \div 65536 = 0
  OBVIOUS
<1> QED
  BY <1>1, <1>2 DEF High

LEMMA SizeIs == \A n : n \in Size <=> n \in Nat /\ n < HUGE /\ High(High(n)) = 0
  BY DEF Size

LEMMA SizeNat == \A n \in Size : n \in Nat
  BY SizeIs

LEMMA Size32Is == \A n : n \in Size32 <=> n \in Size /\ High(n) = 0
  BY DEF Size32

\* A number below 256 can be written in four bytes.
LEMMA ByteIsSize == \A n \in Nat : n < 256 => n \in Size /\ n \in Size32
<1> TAKE n \in Nat
<1> HAVE n < 256
<1>1. High(n) = 0 /\ High(0) = 0 /\ n < HUGE
  BY HighOfSmall, HugeIs
<1> QED
  BY <1>1, SizeIs, Size32Is

\* d, as far as it goes, has the bytes s from offset at on.
Has(d, at, s) == \A i \in 1 .. Len(s) : at + i <= Len(d) => d[at + i] = s[i]

\* Two byte strings after one another.
LEMMA ConcatOK ==
  \A s, t \in Seq(Byte) : s \o t \in Seq(Byte) /\ Len(s \o t) = Len(s) + Len(t)
<1> TAKE s, t \in Seq(Byte)
<1> QED
  BY ConcatProperties

LEMMA LenIsNat == \A s \in Seq(Byte) : Len(s) \in Nat
  BY LenProperties

\* One after the other.
LEMMA HasConcat ==
  ASSUME NEW d \in Seq(Byte), NEW at \in Nat, NEW s \in Seq(Byte), NEW t \in Seq(Byte),
         Has(d, at, s \o t)
  PROVE  Has(d, at, s) /\ Has(d, at + Len(s), t)
<1>1. /\ Len(s \o t) = Len(s) + Len(t) /\ Len(s) \in Nat /\ Len(t) \in Nat /\ Len(d) \in Nat
      /\ \A i \in 1 .. Len(s) + Len(t) :
           (s \o t)[i] = IF i <= Len(s) THEN s[i] ELSE t[i - Len(s)]
  BY ConcatProperties, LenProperties
<1>2. \A i \in 1 .. Len(s) + Len(t) : at + i <= Len(d) => d[at + i] = (s \o t)[i]
  BY <1>1 DEF Has
<1>3. Has(d, at, s)
  BY <1>1, <1>2 DEF Has
<1>4. ASSUME NEW i \in 1 .. Len(t), at + Len(s) + i <= Len(d)
      PROVE  d[at + Len(s) + i] = t[i]
  <2>1. /\ Len(s) + i \in 1 .. Len(s) + Len(t) /\ ~(Len(s) + i <= Len(s))
        /\ (Len(s) + i) - Len(s) = i
        /\ at + (Len(s) + i) = at + Len(s) + i
    BY <1>1
  <2>2. d[at + (Len(s) + i)] = (s \o t)[Len(s) + i]
    BY <1>2, <1>4, <2>1
  <2> QED
    BY <1>1, <2>1, <2>2
<1> QED
  BY <1>3, <1>4 DEF Has

\* A number without its last byte.
LEMMA QuotientIs ==
  \A n \in Nat : /\ n % 256 \in Byte /\ n \div 256 \in Nat /\ n \div 65536 \in Nat
                 /\ n = (n % 256) + 256 * (n \div 256)
                 /\ n \div 65536 = (n \div 256) \div 256
                 /\ n \div 256 <= n /\ n \div 65536 <= n
<1> TAKE n \in Nat
<1> DEFINE a == n \div 256
           b == n \div 65536
           c == a \div 256
<1>1. a \in Nat /\ 256 * a <= n /\ n < 256 * a + 256 /\ n % 256 = n - 256 * a
  OBVIOUS
<1>2. b \in Nat /\ 65536 * b <= n /\ n < 65536 * b + 65536
  OBVIOUS
<1>3. n % 256 \in Nat /\ n % 256 < 256
  OBVIOUS
<1> HIDE DEF a, b
<1>4. c \in Nat /\ 256 * c <= a /\ a < 256 * c + 256
  BY <1>1
<1> HIDE DEF c
<1>5. b = c
  BY <1>1, <1>2, <1>4
<1>6. n = (n % 256) + 256 * a /\ a <= n /\ b <= n
  BY <1>1, <1>2
<1> QED
  BY <1>1, <1>2, <1>3, <1>5, <1>6, ByteIs DEF a, b, c

\* A number in so many bytes, and back.
LEMMA Bytes32OK ==
  ASSUME NEW n \in Nat
  PROVE  Bytes32(n) \in Seq(Byte) /\ Len(Bytes32(n)) = 4
<1> DEFINE m == n \div 65536
<1>1. m \in Nat /\ n \div 256 \in Nat /\ n % 256 \in Byte
  BY QuotientIs
<1>2. m \div 256 \in Nat /\ m % 256 \in Byte /\ (n \div 256) % 256 \in Byte
  BY <1>1, QuotientIs
<1>3. (m \div 256) % 256 \in Byte
  BY <1>2, QuotientIs
<1> DEFINE a == n % 256
           b == (n \div 256) % 256
           c == m % 256
           e == (m \div 256) % 256
<1>4. Bytes32(n) = <<a, b, c, e>>
  BY DEF Bytes32
<1>5. a \in Byte /\ b \in Byte /\ c \in Byte /\ e \in Byte
  BY <1>1, <1>2, <1>3
<1> HIDE DEF a, b, c, e
<1> QED
  BY <1>4, <1>5

LEMMA BytesOK ==
  ASSUME NEW n \in Nat, NEW width \in {4, 8}
  PROVE  Bytes(n, width) \in Seq(Byte) /\ Len(Bytes(n, width)) = width
<1> DEFINE a == Bytes32(n)
           b == Bytes32(High(n))
<1>1. a \in Seq(Byte) /\ Len(a) = 4 /\ b \in Seq(Byte) /\ Len(b) = 4
  BY Bytes32OK, HighIsNat
<1> HIDE DEF a, b
<1>2. a \o b \in Seq(Byte) /\ Len(a \o b) = 8
  <2>1. a \o b \in Seq(Byte) /\ Len(a \o b) = Len(a) + Len(b)
    BY <1>1, ConcatOK
  <2> QED
    BY <1>1, <2>1
<1> QED
  BY <1>1, <1>2 DEF Bytes, a, b

\* A byte and what is above it are a number again.
LEMMA AboveIs ==
  /\ \A n, b \in Nat : Above(n, b) \in Nat
  /\ \A n, b \in Nat : Above(n, b) = IF b + 256 * n < HUGE THEN b + 256 * n ELSE HUGE
<1> SUFFICES ASSUME NEW n \in Nat, NEW b \in Nat
             PROVE  /\ Above(n, b) \in Nat
                    /\ Above(n, b) = IF b + 256 * n < HUGE THEN b + 256 * n ELSE HUGE
  OBVIOUS
<1> DEFINE x == b + 256 * n
<1>1. x \in Nat /\ HUGE \in Nat
  BY HugeIs
<1>2. Above(n, b) = Min({HUGE, x})
  BY DEF Above
<1> HIDE DEF x
<1>3. Min({HUGE, x}) = IF x < HUGE THEN x ELSE HUGE
  BY <1>1 DEF Min
<1> QED
  BY <1>1, <1>2, <1>3 DEF x

LEMMA AboveRead ==
  ASSUME NEW n \in Nat, n < HUGE
  PROVE  Above(n \div 256, n % 256) = n
<1>1. n % 256 \in Nat /\ n \div 256 \in Nat /\ n = (n % 256) + 256 * (n \div 256)
  BY QuotientIs, ByteIs
<1> QED
  BY <1>1, AboveIs

\* Four bytes that were written are read again.
LEMMA Read32 ==
  ASSUME NEW d \in Seq(Byte), NEW at \in Nat, NEW n \in Nat, n < HUGE,
         Has(d, at, Bytes32(n)), at + 4 <= Len(d)
  PROVE  Number(d, at, High(n)) = n
<1> DEFINE m == n \div 65536
<1>1. /\ n \div 256 \in Nat /\ n \div 256 < HUGE /\ m \in Nat /\ m < HUGE
      /\ m = (n \div 256) \div 256
  BY QuotientIs, HugeIs
<1>2. /\ m \div 256 \in Nat /\ m \div 256 < HUGE
      /\ High(n) = (m \div 256) \div 256
  BY <1>1, QuotientIs, HugeIs DEF High
<1>3. \A i \in 1 .. 4 : d[at + i] = Bytes32(n)[i]
  <2>1. Len(Bytes32(n)) = 4 /\ Len(d) \in Nat
    BY Bytes32OK, LenIsNat
  <2> QED
    BY <2>1 DEF Has
<1>4. /\ d[at + 1] = n % 256 /\ d[at + 2] = (n \div 256) % 256
      /\ d[at + 3] = m % 256 /\ d[at + 4] = (m \div 256) % 256
  <2> DEFINE a == n % 256
             b == (n \div 256) % 256
             c == m % 256
             e == (m \div 256) % 256
  <2>1. Bytes32(n) = <<a, b, c, e>>
    BY DEF Bytes32
  <2>2. 1 \in 1 .. 4 /\ 2 \in 1 .. 4 /\ 3 \in 1 .. 4 /\ 4 \in 1 .. 4
    OBVIOUS
  <2> HIDE DEF a, b, c, e
  <2>3. d[at + 1] = a /\ d[at + 2] = b /\ d[at + 3] = c /\ d[at + 4] = e
    BY <1>3, <2>1, <2>2
  <2> QED
    BY <2>3 DEF a, b, c, e
<1> HIDE DEF m
<1>5. Above(High(n), d[at + 4]) = m \div 256
  BY <1>2, <1>4, AboveRead
<1>6. Above(m \div 256, d[at + 3]) = m
  BY <1>1, <1>4, AboveRead
<1>7. Above(m, d[at + 2]) = n \div 256
  BY <1>1, <1>4, AboveRead
<1>8. Above(n \div 256, d[at + 1]) = n
  BY <1>4, AboveRead
<1> QED
  BY <1>5, <1>6, <1>7, <1>8 DEF Number

\* A number that was written is read again, where all its bytes are there.
LEMMA NumberRead ==
  ASSUME NEW d \in Seq(Byte), NEW at \in Nat
  PROVE  /\ \A n \in Size32 : Has(d, at, Bytes(n, 4)) /\ at + 4 <= Len(d) => U32(d, at) = n
         /\ \A n \in Size : Has(d, at, Bytes(n, 8)) /\ at + 8 <= Len(d) => U64(d, at) = n
<1>1. ASSUME NEW n \in Size32, Has(d, at, Bytes(n, 4)), at + 4 <= Len(d) PROVE U32(d, at) = n
  <2>1. n \in Nat /\ n < HUGE /\ High(n) = 0 /\ Bytes(n, 4) = Bytes32(n)
    BY SizeIs, Size32Is DEF Bytes
  <2>2. Number(d, at, High(n)) = n
    BY <1>1, <2>1, Read32
  <2> QED
    BY <2>1, <2>2 DEF U32
<1>2. ASSUME NEW n \in Size, Has(d, at, Bytes(n, 8)), at + 8 <= Len(d) PROVE U64(d, at) = n
  <2> DEFINE h == High(n)
  <2>1. n \in Nat /\ n < HUGE /\ h \in Nat /\ High(h) = 0
    BY SizeIs, HighIsNat
  <2>2. h < HUGE
    <3>1. n \div 65536 \in Nat /\ n \div 65536 <= n
      BY <2>1, QuotientIs
    <3>2. High(n) <= n \div 65536
      BY <3>1, QuotientIs DEF High
    <3> QED
      BY <2>1, <3>1, <3>2, HugeIs
  <2> HIDE DEF h
  <2>3. Bytes(n, 8) = Bytes32(n) \o Bytes32(h)
    BY DEF Bytes, h
  <2>4. /\ Bytes32(n) \in Seq(Byte) /\ Len(Bytes32(n)) = 4
        /\ Bytes32(h) \in Seq(Byte) /\ Len(Bytes32(h)) = 4
    BY <2>1, Bytes32OK
  <2>5. Has(d, at, Bytes32(n)) /\ Has(d, at + 4, Bytes32(h))
    <3>1. Has(d, at, Bytes32(n)) /\ Has(d, at + Len(Bytes32(n)), Bytes32(h))
      BY <1>2, <2>3, <2>4, HasConcat
    <3> QED
      BY <2>4, <3>1
  <2>6. at + 4 \in Nat /\ at + 4 + 4 <= Len(d) /\ at + 4 <= Len(d)
    BY <1>2, LenIsNat
  <2>7. Number(d, at + 4, 0) = h
    <3>1. Number(d, at + 4, High(h)) = h
      BY <2>1, <2>2, <2>5, <2>6, Read32
    <3> QED
      BY <2>1, <3>1
  <2>8. Number(d, at, h) = n
    BY <2>1, <2>5, <2>6, Read32 DEF h
  <2> QED
    BY <2>7, <2>8 DEF U64
<1> QED
  BY <1>1, <1>2

\* What a reader returns is a number.
LEMMA NumberIsNat ==
  ASSUME NEW d \in Seq(Byte), NEW at \in Nat, at + 4 <= Len(d), NEW high \in Nat
  PROVE  Number(d, at, high) \in Nat
<1>1. at + 1 \in 1 .. Len(d) /\ at + 2 \in 1 .. Len(d) /\ at + 3 \in 1 .. Len(d) /\ at + 4 \in 1 .. Len(d)
  BY LenIsNat
<1>2. d[at + 1] \in Nat /\ d[at + 2] \in Nat /\ d[at + 3] \in Nat /\ d[at + 4] \in Nat
  BY <1>1, ByteIs
<1>3. Above(high, d[at + 4]) \in Nat
  BY <1>2, AboveIs
<1>4. Above(Above(high, d[at + 4]), d[at + 3]) \in Nat
  BY <1>2, <1>3, AboveIs
<1>5. Above(Above(Above(high, d[at + 4]), d[at + 3]), d[at + 2]) \in Nat
  BY <1>2, <1>4, AboveIs
<1> QED
  BY <1>2, <1>5, AboveIs DEF Number

\* Pieces one after the other: each of them begins where the one before it ends.
Offsets(off, at, parts) ==
  /\ off \in [0 .. Len(parts) -> Nat]
  /\ off[0] = at
  /\ \A k \in 1 .. Len(parts) : off[k] = off[k - 1] + Len(parts[k])
  /\ off[Len(parts)] = at + Len(FlattenSeq(parts))

\* No pieces, no bytes.
LEMMA FlattenEmpty ==
  \A parts \in Seq(Seq(Byte)) : Len(parts) = 0 =>
    parts = <<>> /\ FlattenSeq(parts) = <<>> /\ Len(FlattenSeq(parts)) = 0
<1> SUFFICES ASSUME NEW parts \in Seq(Seq(Byte)), Len(parts) = 0
             PROVE  parts = <<>> /\ FlattenSeq(parts) = <<>> /\ Len(FlattenSeq(parts)) = 0
  OBVIOUS
<1>1. parts = <<>>
  BY EmptySeq
<1>2. FlattenSeq(parts) = <<>>
  BY <1>1 DEF FlattenSeq
<1> QED
  BY <1>1, <1>2

\* The bytes of pieces, piece by piece.
LEMMA FlattenSteps ==
  ASSUME NEW parts \in Seq(Seq(Byte)), parts # <<>>
  PROVE  \E f \in [1 .. Len(parts) -> Seq(Byte)] :
           /\ f[1] = parts[1]
           /\ \A k \in 2 .. Len(parts) : f[k] = f[k - 1] \o parts[k]
           /\ FlattenSeq(parts) = f[Len(parts)]
<1> DEFINE n == Len(parts)
           X == Seq(Byte)
           step == [k \in 1 .. n |-> [s \in X |-> s \o parts[k]]]
           Is(f) == f = [i \in 1 .. n |-> IF i = 1 THEN parts[i] ELSE f[i - 1] \o parts[i]]
<1>1. n \in Nat \ {0} /\ \A k \in 1 .. n : parts[k] \in X
  BY EmptySeq
<1>2. FlattenSeq(parts) = (CHOOSE f : Is(f))[n]
  BY <1>1 DEF FlattenSeq
<1>3. <<>> \in X /\ \A s \in X : <<>> \o s = s
  BY EmptySeq, ConcatEmptySeq
<1>4. \A s, t \in X : s \o t \in X
  BY ConcatProperties
<1> HIDE DEF X, n
<1>5. step \in [1 .. n -> [X -> X]]
  BY <1>1, <1>4
<1>16. \A k \in 1 .. n, s \in X : step[k][s] = s \o parts[k]
  OBVIOUS
<1> HIDE DEF step
<1>6. PICK f \in [0 .. n -> X] : f[0] = <<>> /\ \A k \in 1 .. n : f[k] = step[k][f[k - 1]]
  <2> DEFINE e == <<>>
  <2>1. n \in Nat /\ e \in X
    BY <1>1, <1>3
  <2> HIDE DEF e
  <2>2. \E f : Iterates(f, X, e, n, step)
    BY <1>5, <2>1, Iterate
  <2> QED
    BY <2>2 DEF Iterates, e
<1>7. \A k \in 1 .. n : f[k] = f[k - 1] \o parts[k] /\ f[k] \in X /\ f[k - 1] \in X
  <2> TAKE k \in 1 .. n
  <2>1. k - 1 \in 0 .. n /\ k \in 0 .. n
    BY <1>1
  <2> QED
    BY <1>6, <1>16, <2>1
<1>8. f[1] = parts[1]
  <2>1. 1 \in 1 .. n /\ 1 - 1 = 0
    BY <1>1
  <2>2. f[1] = <<>> \o parts[1]
    BY <1>6, <1>7, <2>1
  <2> QED
    BY <1>1, <1>3, <2>1, <2>2
<1> DEFINE g == [k \in 1 .. n |-> f[k]]
<1>9. Is(g)
  <2>1. \A i \in 1 .. n : g[i] = IF i = 1 THEN parts[i] ELSE g[i - 1] \o parts[i]
    <3> TAKE i \in 1 .. n
    <3>1. g[i] = f[i] /\ (i # 1 => i - 1 \in 1 .. n /\ g[i - 1] = f[i - 1])
      BY <1>1
    <3> HIDE DEF g
    <3> QED
      BY <1>7, <1>8, <3>1
  <2> QED
    BY <2>1
<1> DEFINE h == CHOOSE f1 : Is(f1)
<1>10. Is(h)
  BY <1>9
<1> HIDE DEF h, g
<1>11. \A i \in 1 .. n : h[i] = IF i = 1 THEN parts[i] ELSE h[i - 1] \o parts[i]
  BY <1>10
<1> DEFINE S == {j \in 0 .. n : \A k \in 1 .. j : h[k] \in X}
<1>12. n \in S
  <2>1. 0 \in S
    BY <1>1
  <2>2. ASSUME NEW i \in 1 .. n, i - 1 \in S PROVE i \in S
    <3>1. h[i] \in X
      <4>1. parts[i] \in X /\ h[i] = IF i = 1 THEN parts[i] ELSE h[i - 1] \o parts[i]
        BY <1>1, <1>11
      <4>2. i # 1 => h[i - 1] \in X
        <5>1. i # 1 => i - 1 \in 1 .. i - 1
          BY <1>1
        <5> QED
          BY <2>2, <5>1
      <4> QED
        BY <1>4, <4>1, <4>2
    <3> QED
      BY <1>1, <2>2, <3>1
  <2> HIDE DEF S
  <2> QED
    BY <1>1, <2>1, <2>2, UpTo
<1>13. h \in [1 .. n -> X]
  BY <1>10, <1>12
<1>14. h[1] = parts[1] /\ \A k \in 2 .. n : h[k] = h[k - 1] \o parts[k]
  <2>1. 1 \in 1 .. n /\ \A k \in 2 .. n : k \in 1 .. n /\ k # 1
    BY <1>1
  <2> QED
    BY <1>11, <2>1
<1>15. FlattenSeq(parts) = h[n]
  BY <1>2 DEF h
<1> QED
  BY <1>13, <1>14, <1>15 DEF X, n

\* Where each piece begins, and that a file that has them all has each of them.
LEMMA Flatten ==
  ASSUME NEW parts \in Seq(Seq(Byte))
  PROVE  /\ FlattenSeq(parts) \in Seq(Byte)
         /\ \E off : Offsets(off, 0, parts)
         /\ \A d \in Seq(Byte), at \in Nat : Has(d, at, FlattenSeq(parts)) =>
              \E off : /\ Offsets(off, at, parts)
                       /\ \A k \in 1 .. Len(parts) : Has(d, off[k - 1], parts[k])
<1> DEFINE n == Len(parts)
           X == Seq(Byte)
           all == FlattenSeq(parts)
<1>1. CASE parts = <<>>
  <2>1. all = <<>> /\ Len(parts) = 0 /\ all \in X /\ Len(all) = 0
    BY <1>1, EmptySeq DEF FlattenSeq
  <2>2. \A at \in Nat : Offsets([k \in 0 .. 0 |-> at], at, parts)
    BY <2>1 DEF Offsets
  <2> QED
    BY <2>1, <2>2
<1>2. CASE parts # <<>>
  <2>1. n \in Nat \ {0} /\ \A k \in 1 .. n : parts[k] \in X /\ Len(parts[k]) \in Nat
    BY <1>2, EmptySeq, LenProperties
  <2>2. PICK f \in [1 .. n -> X] :
          /\ f[1] = parts[1]
          /\ \A k \in 2 .. n : f[k] = f[k - 1] \o parts[k]
          /\ all = f[n]
    BY <1>2, FlattenSteps
  <2> HIDE DEF n, X, all
  <2>3. \A k \in 1 .. n : f[k] \in X /\ Len(f[k]) \in Nat
    BY <2>2, LenProperties DEF X
  <2>4. all \in X
    BY <2>1, <2>2
  <2>5. \A k \in 2 .. n : Len(f[k]) = Len(f[k - 1]) + Len(parts[k])
    <3> TAKE k \in 2 .. n
    <3>1. k - 1 \in 1 .. n /\ k \in 1 .. n
      BY <2>1
    <3> QED
      <4>1. f[k - 1] \in Seq(Byte) /\ parts[k] \in Seq(Byte) /\ f[k] = f[k - 1] \o parts[k]
        BY <2>1, <2>2, <2>3, <3>1 DEF X
      <4> QED
        BY <4>1, ConcatOK
  <2>6. ASSUME NEW at \in Nat
        PROVE  \E off : /\ Offsets(off, at, parts)
                        /\ \A k \in 1 .. n : off[k] = at + Len(f[k])
    <3> DEFINE off == [k \in 0 .. n |-> IF k = 0 THEN at ELSE at + Len(f[k])]
    <3>1. off \in [0 .. n -> Nat] /\ off[0] = at
      BY <2>1, <2>3
    <3>2. \A k \in 1 .. n : off[k] = at + Len(f[k])
      OBVIOUS
    <3> HIDE DEF off
    <3>3. ASSUME NEW k \in 1 .. n PROVE off[k] = off[k - 1] + Len(parts[k])
      <4>1. CASE k = 1
        <5>1. off[1] = at + Len(f[1]) /\ off[1 - 1] = at /\ f[1] = parts[1]
          <6>1. 1 \in 1 .. n /\ 1 - 1 = 0
            BY <2>1
          <6>2. off[1] = at + Len(f[1])
            BY <3>2, <6>1
          <6> QED
            BY <2>2, <3>1, <6>1, <6>2
        <5>2. off[1] = off[1 - 1] + Len(parts[1])
          BY <5>1
        <5> QED
          BY <4>1, <5>2
      <4>2. CASE k # 1
        <5>1. k \in 2 .. n /\ k - 1 \in 1 .. n
          BY <2>1, <4>2
        <5>2. off[k] = at + Len(f[k]) /\ off[k - 1] = at + Len(f[k - 1])
          BY <3>2, <5>1
        <5>3. Len(f[k]) = Len(f[k - 1]) + Len(parts[k])
          BY <2>5, <5>1
        <5>4. Len(f[k - 1]) \in Nat /\ Len(parts[k]) \in Nat
          BY <2>1, <2>3, <5>1
        <5> DEFINE a == Len(f[k - 1])
                   b == Len(parts[k])
        <5>5. a \in Nat /\ b \in Nat /\ off[k] = at + (a + b) /\ off[k - 1] = at + a
          BY <5>2, <5>3, <5>4
        <5> HIDE DEF a, b
        <5>6. off[k] = off[k - 1] + b
          BY <5>5
        <5> QED
          BY <5>6 DEF b
      <4> QED
        BY <4>1, <4>2
    <3>4. off[n] = at + Len(all)
      BY <2>1, <2>2, <3>2
    <3>5. Offsets(off, at, parts)
      BY <3>1, <3>3, <3>4 DEF Offsets, n, all
    <3> QED
      BY <3>2, <3>5
  <2>7. ASSUME NEW d \in X, NEW at \in Nat, Has(d, at, all)
        PROVE  \E off : /\ Offsets(off, at, parts)
                        /\ \A k \in 1 .. n : Has(d, off[k - 1], parts[k])
    <3>1. PICK off : /\ Offsets(off, at, parts)
                     /\ \A k \in 1 .. n : off[k] = at + Len(f[k])
      BY <2>6
    <3> DEFINE S == {j \in 0 .. n - 1 : Has(d, at, f[n - j])}
    <3>2. n - 1 \in S /\ \A j \in 0 .. n - 1 : j \in S
      <4>1. 0 \in S
        BY <2>1, <2>2, <2>7
      <4>2. ASSUME NEW i \in 1 .. n - 1, i - 1 \in S PROVE i \in S
        <5>1. /\ n - (i - 1) \in 2 .. n /\ n - i \in 1 .. n /\ (n - (i - 1)) - 1 = n - i
              /\ n - (i - 1) \in 1 .. n
          BY <2>1
        <5>2. f[n - (i - 1)] = f[n - i] \o parts[n - (i - 1)]
          BY <2>2, <5>1
        <5>3. Has(d, at, f[n - i])
          <6>1. f[n - i] \in Seq(Byte) /\ parts[n - (i - 1)] \in Seq(Byte) /\ d \in Seq(Byte)
            BY <2>1, <2>3, <2>7, <5>1 DEF X
          <6>2. Has(d, at, f[n - i] \o parts[n - (i - 1)])
            BY <4>2, <5>2
          <6> QED
            BY <2>7, <6>1, <6>2, HasConcat
        <5> QED
          BY <2>1, <5>3
      <4> HIDE DEF S
      <4>3. ASSUME NEW j \in 0 .. n - 1 PROVE j \in S
        <5>1. \A i \in 1 .. j : i - 1 \in S => i \in S
          BY <2>1, <4>2
        <5> QED
          BY <4>1, <5>1, UpTo
      <4> QED
        BY <2>1, <4>3
    <3>3. \A k \in 1 .. n : Has(d, at, f[k])
      <4> TAKE k \in 1 .. n
      <4>1. n - k \in 0 .. n - 1 /\ n - (n - k) = k
        BY <2>1
      <4> QED
        BY <3>2, <4>1
    <3>4. ASSUME NEW k \in 1 .. n PROVE Has(d, off[k - 1], parts[k])
      <4>1. CASE k = 1
        BY <2>1, <2>2, <3>1, <3>3, <4>1 DEF Offsets
      <4>2. CASE k # 1
        <5>1. k \in 2 .. n /\ k - 1 \in 1 .. n
          BY <2>1, <4>2
        <5>2. Has(d, at, f[k - 1] \o parts[k])
          BY <2>2, <3>3, <5>1
        <5>3. Has(d, at + Len(f[k - 1]), parts[k])
          <6>1. f[k - 1] \in Seq(Byte) /\ parts[k] \in Seq(Byte) /\ d \in Seq(Byte)
            BY <2>1, <2>3, <2>7, <5>1 DEF X
          <6> QED
            BY <2>7, <5>2, <6>1, HasConcat
        <5> QED
          BY <3>1, <5>1, <5>3
      <4> QED
        BY <4>1, <4>2
    <3> QED
      BY <3>1, <3>4
  <2>8. \E off : Offsets(off, 0, parts)
    BY <2>6
  <2> QED
    BY <2>4, <2>7, <2>8 DEF n, X, all
<1> QED
  BY <1>1, <1>2

-----------------------------------------------------------------------------
(* Values.                                                                 *)

\* The bytes of a text.
LEMMA TextOK ==
  ASSUME NEW s \in Seq(Byte), Len(s) \in Size
  PROVE  Text(s) \in Seq(Byte) /\ Len(Text(s)) = 8 + Len(s)
<1> DEFINE n == Bytes(Len(s), 8)
<1>1. n \in Seq(Byte) /\ Len(n) = 8
  BY BytesOK
<1> HIDE DEF n
<1>2. n \o s \in Seq(Byte) /\ Len(n \o s) = 8 + Len(s)
  BY <1>1, ConcatOK
<1> QED
  BY <1>2 DEF Text, n

\* A text is its length and its bytes.
LEMMA TextRead ==
  ASSUME NEW d \in Seq(Byte), NEW at \in Nat, NEW s \in Seq(Byte), Len(s) \in Size,
         Has(d, at, Text(s))
  PROVE  (at + 8 <= Len(d) => U64(d, at) = Len(s)) /\ Has(d, at + 8, s)
<1> DEFINE n == Bytes(Len(s), 8)
<1>1. n \in Seq(Byte) /\ Len(n) = 8
  BY BytesOK
<1>2. Has(d, at, n \o s)
  BY DEF Text
<1> HIDE DEF n
<1>3. Has(d, at, n) /\ Has(d, at + Len(n), s)
  BY <1>1, <1>2, HasConcat
<1>4. ASSUME at + 8 <= Len(d) PROVE U64(d, at) = Len(s)
  BY <1>3, <1>4, NumberRead DEF n
<1> QED
  BY <1>1, <1>3, <1>4

\* The bytes of a list before its parts.
ListHead(v) == Bytes(v.of, 4) \o Bytes(Len(v.parts), 8)

\* The sizes of the scalars.
LEMMA FixedIs ==
  /\ Fixed \subseteq Nat
  /\ TEXT \in Nat /\ LIST \in Nat /\ TEXT \notin Fixed /\ LIST \notin Fixed /\ TEXT # LIST
  /\ \A t \in Fixed : FixedSize[t] \in Nat /\ FixedSize[t] >= 1
<1>1. \A t \in Fixed : FixedSize[t] \in {1, 2, 4, 8}
  BY DEF Fixed, FixedSize
<1>2. Fixed \subseteq Nat /\ TEXT \notin Fixed /\ LIST \notin Fixed
  BY DEF Fixed, TEXT, LIST
<1> QED
  BY <1>1, <1>2 DEF TEXT, LIST

\* A type is a number that can be written.
LEMMA TypeIsSmall == Fixed \cup {TEXT, LIST} \subseteq Size32
<1>1. \A n \in Fixed \cup {TEXT, LIST} : n \in Nat /\ n < 256
  BY DEF Fixed, TEXT, LIST
<1> QED
  BY <1>1, ByteIsSize

\* Those bytes, and what is read of them.
LEMMA ListHeadOK ==
  ASSUME NEW v \in Values, v.type = LIST
  PROVE  /\ v.of \in Size32 /\ Len(v.parts) \in Size /\ v.parts \in Seq(Seq(Byte))
         /\ ListHead(v) \in Seq(Byte) /\ Len(ListHead(v)) = 12
         /\ ValueBytes(v) = ListHead(v) \o FlattenSeq(v.parts)
<1>1. IsValue(v)
  BY FileAssumption
<1>2. v.of \in Fixed \cup {TEXT, LIST} /\ v.parts \in Seq(Seq(Byte)) /\ Len(v.parts) \in Size
  BY <1>1, FixedIs DEF IsValue
<1>3. v.of \in Size32 /\ v.of \in Nat /\ Len(v.parts) \in Nat
  BY <1>2, TypeIsSmall, Size32Is, SizeNat
<1> DEFINE a == Bytes(v.of, 4)
           b == Bytes(Len(v.parts), 8)
           c == FlattenSeq(v.parts)
<1>4. a \in Seq(Byte) /\ Len(a) = 4 /\ b \in Seq(Byte) /\ Len(b) = 8
  BY <1>2, <1>3, BytesOK
<1>5. ValueBytes(v) = a \o b \o c
  BY FixedIs DEF ValueBytes
<1>6. ListHead(v) = a \o b
  BY DEF ListHead
<1> HIDE DEF a, b, c
<1>7. a \o b \in Seq(Byte) /\ Len(a \o b) = 12
  <2>1. a \o b \in Seq(Byte) /\ Len(a \o b) = Len(a) + Len(b)
    BY <1>4, ConcatOK
  <2> QED
    BY <1>4, <2>1
<1> QED
  BY <1>2, <1>3, <1>5, <1>6, <1>7 DEF c

\* A value is a sequence of bytes.
LEMMA ValueOK ==
  ASSUME NEW v \in Values
  PROVE  /\ ValueBytes(v) \in Seq(Byte) /\ Len(ValueBytes(v)) >= 1
         /\ v.type \in Fixed \cup {TEXT, LIST} /\ v.type \in Nat
<1>1. IsValue(v)
  BY FileAssumption
<1>2. v.type \in Fixed \cup {TEXT, LIST}
  BY <1>1 DEF IsValue
<1>3. CASE v.type \in Fixed
  <2>1. ValueBytes(v) = v.bytes
    BY <1>3, FixedIs DEF ValueBytes
  <2>2. v.bytes \in Seq(Byte) /\ Len(v.bytes) = FixedSize[v.type]
    BY <1>1, <1>3, FixedIs DEF IsValue
  <2> QED
    BY <1>2, <1>3, <2>1, <2>2, FixedIs
<1>4. CASE v.type = TEXT
  <2>1. ValueBytes(v) = Text(v.bytes)
    BY <1>4, FixedIs DEF ValueBytes
  <2>2. v.bytes \in Seq(Byte) /\ Len(v.bytes) \in Size
    BY <1>1, <1>4, FixedIs DEF IsValue
  <2>3. Text(v.bytes) \in Seq(Byte) /\ Len(Text(v.bytes)) = 8 + Len(v.bytes)
    BY <2>2, TextOK
  <2> QED
    BY <1>2, <1>4, <2>1, <2>2, <2>3, FixedIs, SizeIs
<1>5. CASE v.type = LIST
  <2> DEFINE a == ListHead(v)
             c == FlattenSeq(v.parts)
  <2>1. a \in Seq(Byte) /\ Len(a) = 12 /\ v.parts \in Seq(Seq(Byte)) /\ ValueBytes(v) = a \o c
    BY <1>5, ListHeadOK
  <2>2. c \in Seq(Byte)
    BY <2>1, Flatten
  <2> HIDE DEF a, c
  <2>3. a \o c \in Seq(Byte) /\ Len(a \o c) = 12 + Len(c) /\ Len(c) \in Nat
    BY <2>1, <2>2, ConcatOK, LenIsNat
  <2> QED
    BY <1>2, <1>5, <2>1, <2>3, FixedIs
<1> QED
  BY <1>2, <1>3, <1>4, <1>5

\* Offsets of pieces grow, up to the end of the last one.
LEMMA OffsetsGrow ==
  ASSUME NEW parts \in Seq(Seq(Byte)), NEW at \in Nat, NEW off, Offsets(off, at, parts)
  PROVE  /\ \A k \in 0 .. Len(parts) : off[k] \in Nat /\ at <= off[k] /\ off[k] <= off[Len(parts)]
         /\ \A k \in 1 .. Len(parts) : Len(parts[k]) \in Nat
<1> DEFINE n == Len(parts)
<1>1. n \in Nat /\ \A k \in 1 .. n : Len(parts[k]) \in Nat
  BY LenProperties
<1>2. off \in [0 .. n -> Nat] /\ off[0] = at /\ \A k \in 1 .. n : off[k] = off[k - 1] + Len(parts[k])
  BY DEF Offsets
<1> HIDE DEF n
<1> DEFINE S == {j \in 0 .. n : at <= off[j]}
           T == {j \in 0 .. n : off[n - j] <= off[n]}
<1>3. ASSUME NEW j \in 0 .. n PROVE j \in S
  <2>1. 0 \in S
    BY <1>1, <1>2
  <2>2. ASSUME NEW i \in 1 .. j, i - 1 \in S PROVE i \in S
    <3>1. i \in 1 .. n /\ i - 1 \in 0 .. n /\ i \in 0 .. n
      BY <1>1
    <3>2. off[i] = off[i - 1] + Len(parts[i]) /\ off[i - 1] \in Nat /\ Len(parts[i]) \in Nat
      BY <1>1, <1>2, <3>1
    <3>3. at <= off[i - 1]
      BY <2>2
    <3> DEFINE m == Len(parts[i])
    <3> HIDE DEF m
    <3>4. at <= off[i - 1] + m
      BY <3>2, <3>3 DEF m
    <3> QED
      BY <3>1, <3>2, <3>4 DEF m
  <2> HIDE DEF S
  <2> QED
    BY <1>1, <2>1, <2>2, UpTo
<1>4. ASSUME NEW j \in 0 .. n PROVE j \in T
  <2>1. 0 \in T
    BY <1>1, <1>2
  <2>2. ASSUME NEW i \in 1 .. j, i - 1 \in T PROVE i \in T
    <3> DEFINE k == n - (i - 1)
    <3>1. i \in 0 .. n /\ k \in 1 .. n /\ k - 1 \in 0 .. n /\ k - 1 = n - i /\ n \in 0 .. n /\ k \in 0 .. n
      BY <1>1
    <3>2. off[k] <= off[n]
      BY <2>2
    <3> HIDE DEF k
    <3>3. off[k] = off[k - 1] + Len(parts[k]) /\ off[k - 1] \in Nat /\ Len(parts[k]) \in Nat
      BY <1>1, <1>2, <3>1
    <3>4. off[n] \in Nat
      BY <1>2, <3>1
    <3> DEFINE m == Len(parts[k])
    <3> HIDE DEF m
    <3>6. off[k - 1] + m <= off[n] /\ m \in Nat /\ off[k - 1] \in Nat
      BY <3>2, <3>3 DEF m
    <3>5. off[k - 1] <= off[n]
      BY <3>4, <3>6
    <3> QED
      BY <3>1, <3>5
  <2> HIDE DEF T
  <2> QED
    BY <1>1, <2>1, <2>2, UpTo
<1>5. ASSUME NEW k \in 0 .. n PROVE off[k] \in Nat /\ at <= off[k] /\ off[k] <= off[n]
  <2>1. n - k \in 0 .. n /\ n - (n - k) = k
    BY <1>1
  <2> QED
    BY <1>2, <1>3, <1>4, <2>1
<1> QED
  BY <1>1, <1>5 DEF n

-----------------------------------------------------------------------------
(* skip_value.                                                             *)

\* What SkipValue makes of itself.
Skips == [Nat -> [Offset -> Offset]]

\* Offsets, and the one that is none.
LEMMA OffsetIs == \A at : at \in Offset <=> at \in Nat \/ at = Refused
  BY DEF Offset, Refused

LEMMA RefusedIs == Refused \notin Nat /\ Refused \in Int
  BY DEF Refused

\* The readers of numbers return numbers.
LEMMA U32IsNat ==
  ASSUME NEW d \in Seq(Byte), NEW at \in Nat, at + 4 <= Len(d)
  PROVE  U32(d, at) \in Nat
  BY NumberIsNat DEF U32

LEMMA U64IsNat ==
  ASSUME NEW d \in Seq(Byte), NEW at \in Nat, at + 8 <= Len(d)
  PROVE  U64(d, at) \in Nat
<1>1. at + 4 \in Nat /\ at + 4 + 4 <= Len(d) /\ at + 4 <= Len(d)
  BY LenIsNat
<1>2. Number(d, at + 4, 0) \in Nat
  BY <1>1, NumberIsNat
<1> QED
  BY <1>1, <1>2, NumberIsNat DEF U64

\* The offsets before and after each element of an array.
LEMMA SkipListIs ==
  ASSUME NEW d \in Seq(Byte), NEW at \in Nat, at + 12 <= Len(d), NEW s \in Skips
  PROVE  \E e : /\ Iterates(e, Offset, at + 12, U64(d, at + 4),
                            [i \in 1 .. U64(d, at + 4) |-> s[U32(d, at)]])
                /\ SkipList(d, at, s) = e[U64(d, at + 4)]
<1> DEFINE n == U64(d, at + 4)
           t == U32(d, at)
           a == at + 12
           step == [i \in 1 .. n |-> s[t]]
           Is(e) == e = [i \in 0 .. n |-> IF i = 0 THEN a ELSE s[t][e[i - 1]]]
           e == CHOOSE e1 : Is(e1)
<1>1. Len(d) \in Nat
  BY LenIsNat
<1>2. n \in Nat /\ t \in Nat
  <2>1. at + 4 \in Nat /\ (at + 4) + 8 <= Len(d) /\ at + 4 <= Len(d)
    BY <1>1
  <2> QED
    BY <2>1, U32IsNat, U64IsNat
<1>3. a \in Offset
  BY OffsetIs
<1>4. SkipList(d, at, s) = e[n]
  BY DEF SkipList
<1> HIDE DEF n, t, a
<1>5. step \in [1 .. n -> [Offset -> Offset]]
  BY <1>2 DEF Skips
<1>6. \A i \in 1 .. n : step[i] = s[t]
  OBVIOUS
<1> HIDE DEF step
<1>7. \E f : Iterates(f, Offset, a, n, step)
  BY <1>2, <1>3, <1>5, Iterate
<1>8. \E f : Is(f)
  <2>1. PICK f : Iterates(f, Offset, a, n, step)
    BY <1>7
  <2>2. f \in [0 .. n -> Offset] /\ f[0] = a /\ \A k \in 1 .. n : f[k] = s[t][f[k - 1]]
    BY <2>1, <1>6 DEF Iterates
  <2>3. \A i \in 0 .. n : f[i] = IF i = 0 THEN a ELSE s[t][f[i - 1]]
    <3>1. \A i \in 0 .. n : i = 0 \/ i \in 1 .. n
      BY <1>2
    <3> QED
      BY <2>2, <3>1
  <2>4. Is(f)
    BY <2>2, <2>3
  <2> QED
    BY <2>4
<1>9. Is(e)
  BY <1>8
<1> HIDE DEF e
<1>10. e = [k \in 0 .. n |-> e[k]] /\ e[0] = a /\ \A k \in 1 .. n : e[k] = s[t][e[k - 1]]
  <2>1. 0 \in 0 .. n /\ \A k \in 1 .. n : k \in 0 .. n /\ k # 0
    BY <1>2
  <2> QED
    BY <1>9, <2>1
<1>11. Iterates(e, Offset, a, n, step)
  <2>1. \A k \in 1 .. n : e[k - 1] \in Offset => e[k] = step[k][e[k - 1]]
    BY <1>6, <1>10
  <2> QED
    BY <1>2, <1>3, <1>5, <1>10, <2>1, IteratesIf
<1> QED
  BY <1>4, <1>11 DEF n, t, a, step

\* And so the skipping of an array ends at an offset.
LEMMA SkipListOK ==
  ASSUME NEW d \in Seq(Byte), NEW at \in Nat, at + 12 <= Len(d), NEW s \in Skips
  PROVE  SkipList(d, at, s) \in Offset
<1>1. U64(d, at + 4) \in Nat
  <2>1. at + 4 \in Nat /\ (at + 4) + 8 <= Len(d)
    BY LenIsNat
  <2> QED
    BY <2>1, U64IsNat
<1>2. PICK e : /\ Iterates(e, Offset, at + 12, U64(d, at + 4),
                            [i \in 1 .. U64(d, at + 4) |-> s[U32(d, at)]])
               /\ SkipList(d, at, s) = e[U64(d, at + 4)]
  BY SkipListIs
<1>3. e \in [0 .. U64(d, at + 4) -> Offset]
  BY <1>2 DEF Iterates
<1> QED
  BY <1>1, <1>2, <1>3

\* And that of a value.
LEMMA SkipValueOK ==
  ASSUME NEW d \in Seq(Byte), NEW s \in Skips
  PROVE  SkipValue(d, s) \in Skips
<1> SUFFICES ASSUME NEW type \in Nat, NEW at \in Offset
             PROVE  (CASE type \in Fixed /\ at # Refused -> at + FixedSize[type]
                       [] type = TEXT /\ Fits(d, at, 8) -> at + 8 + U64(d, at)
                       [] type = LIST /\ Fits(d, at, 12) -> SkipList(d, at, s)
                       [] OTHER -> Refused) \in Offset
  BY DEF SkipValue, Skips
<1>1. ASSUME type \in Fixed, at # Refused PROVE at + FixedSize[type] \in Offset
  BY <1>1, FixedIs, OffsetIs
<1>2. ASSUME Fits(d, at, 8) PROVE at + 8 + U64(d, at) \in Offset
  <2>1. at \in Nat /\ at + 8 <= Len(d)
    BY <1>2, OffsetIs DEF Fits
  <2>2. U64(d, at) \in Nat
    BY <2>1, U64IsNat
  <2> QED
    BY <2>1, <2>2, OffsetIs
<1>3. ASSUME Fits(d, at, 12) PROVE SkipList(d, at, s) \in Offset
  BY <1>3, OffsetIs, SkipListOK DEF Fits
<1>4. Refused \in Offset
  BY OffsetIs
<1> QED
  BY <1>1, <1>2, <1>3, <1>4, FixedIs

\* skip_value at each depth.
SkipAt(d, f) ==
  Iterates(f, Skips, SkipNone, Len(d), [k \in 1 .. Len(d) |-> [s \in Skips |-> SkipValue(d, s)]])

\* The function Skip is made of, and its values.
LEMMA SkipIs ==
  ASSUME NEW d \in Seq(Byte)
  PROVE  \E f : SkipAt(d, f) /\ Skip(d) = f[Len(d)]
<1> DEFINE n == Len(d)
           step == [k \in 1 .. n |-> [s \in Skips |-> SkipValue(d, s)]]
           Is(f) == f = [depth \in 0 .. n |->
                             IF depth = 0 THEN SkipNone ELSE SkipValue(d, f[depth - 1])]
           g == CHOOSE f : Is(f)
<1>1. n \in Nat
  BY LenIsNat
<1>2. Skip(d) = g[n]
  BY DEF Skip
<1> HIDE DEF n
<1>5. SkipNone \in Skips
  BY OffsetIs DEF SkipNone, Skips
<1>6. step \in [1 .. n -> [Skips -> Skips]]
  BY SkipValueOK
<1>7. \A k \in 1 .. n, s \in Skips : step[k][s] = SkipValue(d, s)
  OBVIOUS
<1> HIDE DEF step
<1>8. \E f : Is(f)
  <2>1. PICK f : Iterates(f, Skips, SkipNone, n, step)
    BY <1>1, <1>5, <1>6, Iterate
  <2>2. f \in [0 .. n -> Skips] /\ f[0] = SkipNone /\ \A k \in 1 .. n : f[k] = step[k][f[k - 1]]
    BY <2>1 DEF Iterates
  <2>3. ASSUME NEW k \in 0 .. n PROVE f[k] = IF k = 0 THEN SkipNone ELSE SkipValue(d, f[k - 1])
    <3>1. CASE k = 0
      BY <2>2, <3>1
    <3>2. CASE k # 0
      <4>1. k \in 1 .. n /\ k - 1 \in 0 .. n
        BY <1>1, <3>2
      <4> QED
        BY <1>7, <2>2, <3>2, <4>1
    <3> QED
      BY <3>1, <3>2
  <2>4. Is(f)
    BY <2>2, <2>3
  <2> QED
    BY <2>4
<1>9. Is(g)
  BY <1>8
<1> HIDE DEF g
<1>10. /\ g = [k \in 0 .. n |-> g[k]] /\ g[0] = SkipNone
       /\ \A k \in 1 .. n : g[k] = SkipValue(d, g[k - 1])
  <2>1. 0 \in 0 .. n /\ \A k \in 1 .. n : k \in 0 .. n /\ k # 0
    BY <1>1
  <2> QED
    BY <1>9, <2>1
<1>11. \A k \in 1 .. n : g[k - 1] \in Skips => g[k] = step[k][g[k - 1]]
  BY <1>7, <1>10
<1>12. Iterates(g, Skips, SkipNone, n, step)
  BY <1>1, <1>5, <1>6, <1>10, <1>11, IteratesIf
<1> QED
  BY <1>2, <1>12 DEF SkipAt, n, step

\* At each depth it takes the one below for the elements of an array.
LEMMA SkipAtIs ==
  ASSUME NEW d \in Seq(Byte), NEW f, SkipAt(d, f)
  PROVE  /\ \A k \in 0 .. Len(d) : f[k] \in Skips
         /\ f[0] = SkipNone
         /\ \A k \in 1 .. Len(d) : f[k - 1] \in Skips /\ f[k] = SkipValue(d, f[k - 1])
<1>1. Len(d) \in Nat
  BY LenIsNat
<1>2. f \in [0 .. Len(d) -> Skips] /\ f[0] = SkipNone
  BY DEF SkipAt, Iterates
<1>3. \A k \in 1 .. Len(d) : k - 1 \in 0 .. Len(d)
  BY <1>1
<1>4. \A k \in 1 .. Len(d) : f[k] = SkipValue(d, f[k - 1])
  BY <1>2, <1>3 DEF SkipAt, Iterates
<1> QED
  BY <1>2, <1>3, <1>4

\* An error stays an error.
LEMMA SkipRefused ==
  ASSUME NEW d \in Seq(Byte), NEW f, SkipAt(d, f), NEW k \in 0 .. Len(d), NEW type \in Nat
  PROVE  f[k][type][Refused] = Refused
<1>1. Refused \in Offset /\ ~Fits(d, Refused, 8) /\ ~Fits(d, Refused, 12)
  BY OffsetIs DEF Fits
<1>2. CASE k = 0
  BY <1>1, <1>2, SkipAtIs DEF SkipNone
<1>3. CASE k # 0
  <2>1. f[k] = SkipValue(d, f[k - 1])
    BY <1>3, LenIsNat, SkipAtIs
  <2> QED
    BY <1>1, <2>1 DEF SkipValue
<1> QED
  BY <1>2, <1>3

\* What a reader of v at an offset of d returns: the offset after it or an error, and
\* no error when v is all there.
Skipped(d, at, bytes, after, enough) ==
  /\ after \in {Refused, at + Len(bytes)}
  /\ enough /\ at + Len(bytes) <= Len(d) => after = at + Len(bytes)

\* An array is skipped when its elements are, one level below.
LEMMA ListRead ==
  ASSUME NEW d \in Seq(Byte), NEW f, SkipAt(d, f), NEW k \in 1 .. Len(d),
         \A u \in Values, pos \in Nat : Has(d, pos, ValueBytes(u)) =>
           Skipped(d, pos, ValueBytes(u), f[k - 1][u.type][pos], Len(ValueBytes(u)) <= k - 1),
         NEW v \in Values, v.type = LIST, NEW at \in Nat, Has(d, at, ValueBytes(v)),
         at + 12 <= Len(d)
  PROVE  Skipped(d, at, ValueBytes(v), SkipList(d, at, f[k - 1]), Len(ValueBytes(v)) <= k)
<1> DEFINE n == Len(v.parts)
           all == FlattenSeq(v.parts)
           s == f[k - 1]
           head == ListHead(v)
<1>1. /\ n \in Nat /\ n \in Size /\ v.parts \in Seq(Seq(Byte)) /\ v.of \in Size32 /\ v.of \in Nat
      /\ head \in Seq(Byte) /\ Len(head) = 12
      /\ ValueBytes(v) = head \o all
      /\ all \in Seq(Byte) /\ Len(d) \in Nat
  BY ListHeadOK, Flatten, Size32Is, SizeIs, LenIsNat
<1>2. /\ Has(d, at, head) /\ Has(d, at + 12, all)
  <2>1. Has(d, at, head \o all)
    BY <1>1
  <2> HIDE DEF head, all
  <2>2. Has(d, at, head) /\ Has(d, at + Len(head), all)
    BY <1>1, <2>1, HasConcat
  <2> QED
    BY <1>1, <2>2
<1>3. U32(d, at) = v.of /\ U64(d, at + 4) = n
  <2> DEFINE a == Bytes(v.of, 4)
             b == Bytes(n, 8)
  <2>1. a \in Seq(Byte) /\ Len(a) = 4 /\ b \in Seq(Byte)
    BY <1>1, BytesOK
  <2>2. head = a \o b
    BY DEF ListHead
  <2> HIDE DEF head, a, b, n
  <2>3. Has(d, at, a) /\ Has(d, at + Len(a), b)
    BY <1>2, <2>1, <2>2, HasConcat
  <2>4. at + 4 \in Nat /\ at + 4 <= Len(d) /\ (at + 4) + 8 <= Len(d)
    BY <1>1
  <2>5. Has(d, at + 4, b)
    BY <2>1, <2>3
  <2>6. U32(d, at) = v.of
    BY <1>1, <2>3, <2>4, NumberRead DEF a
  <2>7. U64(d, at + 4) = n
    BY <1>1, <2>4, <2>5, NumberRead DEF b
  <2> QED
    BY <2>6, <2>7 DEF U32, U64
<1>4. s \in Skips /\ s[v.of][Refused] = Refused
  <2>1. k - 1 \in 0 .. Len(d)
    BY <1>1
  <2> QED
    <3>1. f[k - 1] \in Skips
      BY <2>1, SkipAtIs
    <3>2. f[k - 1][v.of][Refused] = Refused
      BY <1>1, <2>1, SkipRefused
    <3> QED
      BY <3>1, <3>2
<1>5. PICK e : /\ Iterates(e, Offset, at + 12, n, [i \in 1 .. n |-> s[v.of]])
               /\ SkipList(d, at, s) = e[n]
  <2> HIDE DEF s, n
  <2> QED
    BY <1>3, <1>4, SkipListIs
<1>6. e[0] = at + 12 /\ \A i \in 1 .. n : e[i] = s[v.of][e[i - 1]]
  BY <1>5 DEF Iterates
<1>7. PICK off : /\ Offsets(off, at + 12, v.parts)
                 /\ \A i \in 1 .. n : Has(d, off[i - 1], v.parts[i])
  <2>1. at + 12 \in Nat
    OBVIOUS
  <2> QED
    BY <1>1, <1>2, <2>1, Flatten
<1>8. /\ \A i \in 0 .. n : off[i] \in Nat /\ at + 12 <= off[i] /\ off[i] <= off[n]
      /\ \A i \in 1 .. n : Len(v.parts[i]) \in Nat /\ off[i] = off[i - 1] + Len(v.parts[i])
      /\ off[0] = at + 12
      /\ off[n] = (at + 12) + Len(all)
  <2>1. at + 12 \in Nat
    OBVIOUS
  <2> QED
    BY <1>1, <1>7, <2>1, OffsetsGrow DEF Offsets
<1>9. at + Len(ValueBytes(v)) = off[n] /\ Len(ValueBytes(v)) = 12 + Len(all) /\ Len(all) \in Nat
  <2>1. Len(all) \in Nat
    BY <1>1, LenIsNat
  <2> HIDE DEF head, all
  <2>2. Len(head \o all) = 12 + Len(all)
    BY <1>1, ConcatOK
  <2> DEFINE m == Len(all)
  <2>3. m \in Nat /\ off[n] = (at + 12) + m /\ Len(ValueBytes(v)) = 12 + m
    BY <1>1, <1>8, <2>1, <2>2
  <2> HIDE DEF m
  <2>4. at + (12 + m) = off[n]
    BY <2>3
  <2> QED
    BY <2>1, <2>3, <2>4 DEF m
<1>10. \A i \in 1 .. n : \E u \in Values : u.type = v.of /\ v.parts[i] = ValueBytes(u)
  <2>1. IsValue(v)
    BY FileAssumption
  <2>2. DOMAIN v.parts = 1 .. n
    BY <1>1
  <2> QED
    BY <2>1, <2>2, FixedIs DEF IsValue
<1> DEFINE Enough == Len(ValueBytes(v)) <= k /\ off[n] <= Len(d)
           S == {j \in 0 .. n : e[j] \in {Refused, off[j]} /\ (Enough => e[j] = off[j])}
<1> HIDE DEF n, all, s, head
<1>11. 0 \in S
  BY <1>1, <1>6, <1>8
<1>12. ASSUME NEW i \in 1 .. n, i - 1 \in S PROVE i \in S
  <2>1. PICK u \in Values : u.type = v.of /\ v.parts[i] = ValueBytes(u)
    BY <1>10
  <2> DEFINE m == Len(v.parts[i])
             pos == off[i - 1]
  <2>2. i - 1 \in 0 .. n /\ i \in 0 .. n
    BY <1>1
  <2>3. pos \in Nat /\ m \in Nat /\ off[i] = pos + m /\ at + 12 <= pos /\ off[i] <= off[n]
    BY <1>8, <2>2
  <2>4. Has(d, pos, ValueBytes(u))
    BY <1>7, <2>1
  <2>5. Skipped(d, pos, ValueBytes(u), s[v.of][pos], m <= k - 1)
    BY <2>1, <2>3, <2>4 DEF s
  <2>6. e[i - 1] \in {Refused, pos} /\ (Enough => e[i - 1] = pos)
    BY <1>12
  <2>7. e[i] = s[v.of][e[i - 1]]
    BY <1>6
  <2>8. /\ s[v.of][pos] \in {Refused, pos + m}
        /\ m <= k - 1 /\ pos + m <= Len(d) => s[v.of][pos] = pos + m
    BY <2>1, <2>5 DEF Skipped
  <2> HIDE DEF m, pos
  <2>9. Enough => m <= k - 1 /\ pos + m <= Len(d)
    <3> DEFINE len == Len(ValueBytes(v))
               size == Len(d)
               end == off[n]
    <3>1. /\ len \in Nat /\ size \in Nat /\ k \in Nat /\ end \in Nat
          /\ end = at + len /\ pos + m <= end /\ at + 12 <= pos
      BY <1>1, <1>8, <1>9, <2>2, <2>3, ValueOK, LenIsNat
    <3> HIDE DEF len, size, end
    <3>2. 12 + m <= len
      BY <2>3, <3>1
    <3>3. len <= k /\ end <= size => m <= k - 1 /\ pos + m <= size
      BY <2>3, <3>1, <3>2
    <3> QED
      BY <3>3 DEF len, size, end
  <2>10. e[i] \in {Refused, off[i]}
    BY <1>4, <2>3, <2>6, <2>7, <2>8
  <2>11. Enough => e[i] = off[i]
    <3> HIDE DEF Enough
    <3> QED
      BY <2>3, <2>6, <2>7, <2>8, <2>9
  <2> QED
    BY <2>2, <2>10, <2>11
<1>13. n \in S
  <2> HIDE DEF S
  <2> QED
    BY <1>1, <1>11, <1>12, UpTo
<1> QED
  BY <1>5, <1>9, <1>13 DEF Skipped, s

\* A value of Values is skipped at any depth that is large enough for its bytes.
LEMMA ValueRead ==
  ASSUME NEW d \in Seq(Byte), NEW f, SkipAt(d, f), NEW k \in 0 .. Len(d),
         NEW v \in Values, NEW at \in Nat, Has(d, at, ValueBytes(v))
  PROVE  Skipped(d, at, ValueBytes(v), f[k][v.type][at], Len(ValueBytes(v)) <= k)
<1> DEFINE Reads(j) ==
             \A u \in Values, pos \in Nat : Has(d, pos, ValueBytes(u)) =>
               Skipped(d, pos, ValueBytes(u), f[j][u.type][pos], Len(ValueBytes(u)) <= j)
           S == {j \in 0 .. k : Reads(j)}
<1>1. Len(d) \in Nat /\ k \in Nat
  BY LenIsNat
<1>2. Reads(0)
  <2> SUFFICES ASSUME NEW u \in Values, NEW pos \in Nat
               PROVE  Skipped(d, pos, ValueBytes(u), f[0][u.type][pos], Len(ValueBytes(u)) <= 0)
    OBVIOUS
  <2>1. f[0][u.type][pos] = Refused
    <3>1. u.type \in Nat /\ pos \in Offset
      BY ValueOK, OffsetIs
    <3>2. f[0] = SkipNone
      BY SkipAtIs
    <3> QED
      BY <3>1, <3>2 DEF SkipNone
  <2>2. ~(Len(ValueBytes(u)) <= 0)
    BY ValueOK, LenIsNat
  <2> QED
    BY <2>1, <2>2 DEF Skipped
<1>3. ASSUME NEW i \in 1 .. k, Reads(i - 1) PROVE Reads(i)
  <2> SUFFICES ASSUME NEW u \in Values, NEW pos \in Nat, Has(d, pos, ValueBytes(u))
               PROVE  Skipped(d, pos, ValueBytes(u), f[i][u.type][pos], Len(ValueBytes(u)) <= i)
    OBVIOUS
  <2>1. i \in 1 .. Len(d)
    BY <1>1
  <2>2. f[i] = SkipValue(d, f[i - 1])
    BY <2>1, SkipAtIs
  <2>3. IsValue(u) /\ u.type \in Nat /\ u.type \in Fixed \cup {TEXT, LIST}
    BY FileAssumption, ValueOK
  <2>4. pos \in Offset /\ pos # Refused
    BY OffsetIs, RefusedIs
  <2>5. CASE u.type \in Fixed
    <3>1. ValueBytes(u) = u.bytes /\ Len(u.bytes) = FixedSize[u.type]
      BY <2>3, <2>5, FixedIs DEF ValueBytes, IsValue
    <3>2. f[i][u.type][pos] = pos + FixedSize[u.type]
      BY <2>2, <2>3, <2>4, <2>5, FixedIs DEF SkipValue
    <3> QED
      BY <3>1, <3>2 DEF Skipped
  <2>6. CASE u.type = TEXT
    <3>1. /\ ValueBytes(u) = Text(u.bytes) /\ u.bytes \in Seq(Byte) /\ Len(u.bytes) \in Size
          /\ u.type \notin Fixed /\ u.type # LIST
      BY <2>3, <2>6, FixedIs DEF ValueBytes, IsValue
    <3>2. Len(ValueBytes(u)) = 8 + Len(u.bytes) /\ Len(u.bytes) \in Nat
      BY <3>1, TextOK, SizeIs
    <3>3. pos + 8 <= Len(d) => U64(d, pos) = Len(u.bytes)
      BY <3>1, TextRead
    <3>4. CASE pos + 8 <= Len(d)
      <4>1. f[i][u.type][pos] = pos + 8 + U64(d, pos)
        BY <2>2, <2>3, <2>4, <2>6, <3>1, <3>4 DEF SkipValue, Fits
      <4> DEFINE m == Len(u.bytes)
      <4>2. m \in Nat /\ Len(ValueBytes(u)) = 8 + m /\ f[i][u.type][pos] = pos + 8 + m
        BY <3>2, <3>3, <3>4, <4>1
      <4> HIDE DEF m
      <4>3. f[i][u.type][pos] = pos + Len(ValueBytes(u))
        BY <4>2
      <4> QED
        BY <4>3 DEF Skipped
    <3>5. CASE ~(pos + 8 <= Len(d))
      <4>1. f[i][u.type][pos] = Refused
        BY <2>2, <2>3, <2>4, <2>6, <3>1, <3>5 DEF SkipValue, Fits
      <4> DEFINE m == Len(u.bytes)
      <4>2. m \in Nat /\ Len(ValueBytes(u)) = 8 + m
        BY <3>2
      <4> HIDE DEF m
      <4>3. ~(pos + Len(ValueBytes(u)) <= Len(d))
        BY <1>1, <3>5, <4>2
      <4> QED
        BY <4>1, <4>3 DEF Skipped
    <3> QED
      BY <3>4, <3>5
  <2>7. CASE u.type = LIST
    <3>1. u.type \notin Fixed /\ u.type # TEXT
      BY <2>7, FixedIs
    <3>2. CASE pos + 12 <= Len(d)
      <4>1. f[i][u.type][pos] = SkipList(d, pos, f[i - 1])
        BY <2>2, <2>3, <2>4, <2>7, <3>1, <3>2 DEF SkipValue, Fits
      <4>2. Skipped(d, pos, ValueBytes(u), SkipList(d, pos, f[i - 1]), Len(ValueBytes(u)) <= i)
        BY <1>3, <2>1, <2>7, <3>2, ListRead
      <4> QED
        BY <4>1, <4>2
    <3>3. CASE ~(pos + 12 <= Len(d))
      <4>1. f[i][u.type][pos] = Refused
        BY <2>2, <2>3, <2>4, <2>7, <3>1, <3>3 DEF SkipValue, Fits
      <4> DEFINE a == ListHead(u)
                 c == FlattenSeq(u.parts)
      <4>2. a \in Seq(Byte) /\ Len(a) = 12 /\ u.parts \in Seq(Seq(Byte)) /\ ValueBytes(u) = a \o c
        BY <2>7, ListHeadOK
      <4>3. c \in Seq(Byte)
        BY <4>2, Flatten
      <4> HIDE DEF a, c
      <4>4. Len(ValueBytes(u)) = Len(a) + Len(c) /\ Len(c) \in Nat
        BY <4>2, <4>3, ConcatOK, LenIsNat
      <4> DEFINE m == Len(c)
      <4>5. Len(ValueBytes(u)) = 12 + m /\ m \in Nat
        BY <4>2, <4>4
      <4> HIDE DEF m
      <4>6. ~(pos + Len(ValueBytes(u)) <= Len(d))
        BY <1>1, <3>3, <4>5
      <4> QED
        BY <4>1, <4>6 DEF Skipped
    <3> QED
      BY <3>2, <3>3
  <2> QED
    BY <2>3, <2>5, <2>6, <2>7
<1>4. k \in S
  <2> HIDE DEF Reads
  <2>1. 0 \in S /\ \A i \in 1 .. k : i - 1 \in S => i \in S
    BY <1>1, <1>2, <1>3
  <2> HIDE DEF S
  <2> QED
    BY <1>1, <2>1, UpTo
<1> QED
  BY <1>4

\* skip_value as it is called.
LEMMA SkipReads ==
  ASSUME NEW d \in Seq(Byte), NEW v \in Values, NEW at \in Nat, Has(d, at, ValueBytes(v))
  PROVE  Skipped(d, at, ValueBytes(v), Skip(d)[v.type][at], TRUE)
<1>1. PICK f : SkipAt(d, f) /\ Skip(d) = f[Len(d)]
  BY SkipIs
<1>2. Len(d) \in Nat /\ Len(d) \in 0 .. Len(d) /\ Len(ValueBytes(v)) \in Nat
  BY LenIsNat, ValueOK
<1>3. Skipped(d, at, ValueBytes(v), f[Len(d)][v.type][at], Len(ValueBytes(v)) <= Len(d))
  BY <1>1, <1>2, ValueRead
<1>4. at + Len(ValueBytes(v)) <= Len(d) => Len(ValueBytes(v)) <= Len(d)
  BY <1>2
<1> QED
  BY <1>1, <1>3, <1>4 DEF Skipped

-----------------------------------------------------------------------------
(* Metadata.                                                               *)

\* A key with its value.
IsPair(p) ==
  p \in [key : Seq(Byte), value : Values] /\ Len(p.key) \in Size

\* Its bytes.
LEMMA PairOK ==
  ASSUME NEW p, IsPair(p)
  PROVE  /\ Pair(p) \in Seq(Byte)
         /\ Len(Pair(p)) = 12 + Len(p.key) + Len(ValueBytes(p.value))
         /\ Len(Pair(p)) >= 13
<1> DEFINE a == Text(p.key)
           b == Bytes(p.value.type, 4)
           c == ValueBytes(p.value)
           m == Len(p.key)
           n == Len(c)
<1>1. p.key \in Seq(Byte) /\ m \in Size /\ m \in Nat /\ p.value \in Values
  BY SizeIs DEF IsPair
<1>2. a \in Seq(Byte) /\ Len(a) = 8 + m
  BY <1>1, TextOK
<1>3. b \in Seq(Byte) /\ Len(b) = 4
  BY <1>1, ValueOK, TypeIsSmall, BytesOK
<1>4. c \in Seq(Byte) /\ n >= 1 /\ n \in Nat
  BY <1>1, ValueOK, LenIsNat
<1>5. Pair(p) = a \o b \o c
  BY DEF Pair
<1> HIDE DEF a, b, c, m
<1>6. a \o b \in Seq(Byte) /\ Len(a \o b) = Len(a) + Len(b)
  BY <1>2, <1>3, ConcatOK
<1>7. a \o b \o c \in Seq(Byte) /\ Len(a \o b \o c) = Len(a \o b) + n
  BY <1>4, <1>6, ConcatOK
<1> HIDE DEF n
<1>8. Len(Pair(p)) = 12 + m + n /\ Len(Pair(p)) >= 13
  BY <1>1, <1>2, <1>3, <1>4, <1>5, <1>6, <1>7
<1> QED
  BY <1>5, <1>7, <1>8 DEF m, n, c

\* The offset after a pair is found, or the pair is not all there.
LEMMA PairRead ==
  ASSUME NEW d \in Seq(Byte), NEW p, IsPair(p), NEW at \in Nat, Has(d, at, Pair(p))
  PROVE  Skipped(d, at, Pair(p), AfterPair(d, at), TRUE)
<1> DEFINE a == Text(p.key)
           b == Bytes(p.value.type, 4)
           c == ValueBytes(p.value)
           m == Len(p.key)
           n == Len(c)
           len == Len(d)
           type == at + 8 + m
<1>1. p.key \in Seq(Byte) /\ m \in Size /\ m \in Nat /\ p.value \in Values /\ len \in Nat
  BY SizeIs, LenIsNat DEF IsPair
<1>2. a \in Seq(Byte) /\ Len(a) = 8 + m
  BY <1>1, TextOK
<1>3. b \in Seq(Byte) /\ Len(b) = 4 /\ p.value.type \in Size32
  BY <1>1, ValueOK, TypeIsSmall, BytesOK
<1>4. c \in Seq(Byte) /\ n >= 1 /\ n \in Nat
  BY <1>1, ValueOK, LenIsNat
<1>5. Has(d, at, a \o b \o c)
  BY DEF Pair
<1>6. Len(Pair(p)) = 12 + m + n
  BY PairOK
<1>7. Has(d, at, a) /\ Has(d, type, b) /\ Has(d, type + 4, c) /\ type \in Nat /\ type + 4 \in Nat
  <2> HIDE DEF a, b, c, m
  <2>1. a \o b \in Seq(Byte) /\ Len(a \o b) = Len(a) + Len(b)
    BY <1>2, <1>3, ConcatOK
  <2>2. Has(d, at, a \o b) /\ Has(d, at + Len(a \o b), c)
    BY <1>4, <1>5, <2>1, HasConcat
  <2>3. Has(d, at, a) /\ Has(d, at + Len(a), b)
    BY <1>2, <1>3, <2>2, HasConcat
  <2>4. at + Len(a) = type /\ at + Len(a \o b) = type + 4 /\ type \in Nat /\ type + 4 \in Nat
    BY <1>1, <1>2, <1>3, <2>1
  <2> QED
    BY <2>2, <2>3, <2>4
<1>8. at + 8 <= len => U64(d, at) = m
  BY <1>1, <1>7, TextRead
<1>9. type + 4 <= len => U32(d, type) = p.value.type
  <2> HIDE DEF type
  <2>1. ASSUME type + 4 <= Len(d) PROVE U32(d, type) = p.value.type
    BY <1>3, <1>7, <2>1, NumberRead
  <2> QED
    BY <2>1 DEF U32
<1>10. Skipped(d, type + 4, c, Skip(d)[p.value.type][type + 4], TRUE)
  <2>1. type + 4 \in Nat
    BY <1>7
  <2> HIDE DEF type
  <2> QED
    BY <1>1, <1>7, <2>1, SkipReads
<1>11. at + Len(Pair(p)) = (type + 4) + n
  <2>1. at + (12 + m + n) = (type + 4) + n
    <3> HIDE DEF m, n
    <3> QED
      BY <1>1, <1>4
  <2> QED
    BY <1>6, <2>1
<1>12. at # Refused /\ type # Refused
  BY <1>7, RefusedIs
<1> HIDE DEF a, b, c, m, len
<1>13. CASE at + 8 <= len /\ type + 4 <= len
  <2>1. U64(d, at) = m /\ U32(d, type) = p.value.type
    BY <1>8, <1>9, <1>13
  <2>2. Fits(d, at, 8) /\ Fits(d, type, 4)
    BY <1>12, <1>13 DEF Fits, len
  <2>3. AfterPair(d, at) = Skip(d)[p.value.type][type + 4]
    BY <2>1, <2>2 DEF AfterPair
  <2> QED
    BY <1>10, <1>11, <2>3 DEF Skipped, len
<1>14. CASE ~(at + 8 <= len /\ type + 4 <= len)
  <2>1. AfterPair(d, at) = Refused
    <3>1. CASE ~(at + 8 <= len)
      BY <3>1 DEF AfterPair, Fits, len
    <3>2. CASE at + 8 <= len /\ ~(type + 4 <= len)
      <4>1. U64(d, at) = m /\ ~Fits(d, at + 8 + m, 4)
        BY <1>8, <3>2 DEF Fits, len
      <4> QED
        BY <4>1 DEF AfterPair
    <3> QED
      BY <1>14, <3>1, <3>2
  <2>2. ~(at + Len(Pair(p)) <= len)
    BY <1>1, <1>4, <1>11, <1>14
  <2> QED
    BY <2>1, <2>2 DEF Skipped, len
<1> QED
  BY <1>13, <1>14

\* In any case it is an offset.
LEMMA AfterPairOK ==
  ASSUME NEW d \in Seq(Byte), NEW key \in Offset
  PROVE  AfterPair(d, key) \in Offset
<1> DEFINE type == key + 8 + U64(d, key)
<1>1. CASE Fits(d, key, 8) /\ Fits(d, type, 4)
  <2>1. key \in Nat /\ key + 8 <= Len(d)
    BY <1>1, OffsetIs DEF Fits
  <2>2. U64(d, key) \in Nat
    BY <2>1, U64IsNat
  <2>3. type \in Nat /\ type + 4 <= Len(d) /\ type + 4 \in Offset
    BY <1>1, <2>1, <2>2, OffsetIs DEF Fits
  <2>4. U32(d, type) \in Nat
    BY <2>3, U32IsNat
  <2>5. Skip(d) \in Skips
    <3>1. PICK f : SkipAt(d, f) /\ Skip(d) = f[Len(d)]
      BY SkipIs
    <3> QED
      BY <3>1, SkipAtIs, LenIsNat
  <2>6. Skip(d)[U32(d, type)][type + 4] \in Offset
    BY <2>3, <2>4, <2>5 DEF Skips
  <2>7. AfterPair(d, key) = Skip(d)[U32(d, type)][type + 4]
    BY <1>1 DEF AfterPair
  <2> QED
    BY <2>6, <2>7
<1>2. CASE ~(Fits(d, key, 8) /\ Fits(d, type, 4))
  BY <1>2, OffsetIs DEF AfterPair
<1> QED
  BY <1>1, <1>2

\* The offsets before and after each pair.
LEMMA MetadataEndIs ==
  ASSUME NEW d \in Seq(Byte), NEW n \in Nat, U64(d, 16) = n
  PROVE  \E e : /\ e \in [0 .. n -> Offset]
                /\ e[0] = 24 /\ \A k \in 1 .. n : e[k] = AfterPair(d, e[k - 1])
                /\ MetadataEnd(d) = e[n]
<1> DEFINE a == 24
           step == [k \in 1 .. n |-> [key \in Offset |-> AfterPair(d, key)]]
           Is(e) == e = [k \in 0 .. n |-> IF k = 0 THEN a ELSE AfterPair(d, e[k - 1])]
           e == CHOOSE e1 : Is(e1)
<1>1. MetadataEnd(d) = e[n]
  BY DEF MetadataEnd
<1>2. a \in Offset
  BY OffsetIs
<1>3. a = 24
  OBVIOUS
<1> HIDE DEF a
<1>4. step \in [1 .. n -> [Offset -> Offset]]
  BY AfterPairOK
<1>5. \A k \in 1 .. n, key \in Offset : step[k][key] = AfterPair(d, key)
  OBVIOUS
<1> HIDE DEF step
<1>6. \E f : Is(f)
  <2>1. PICK f : Iterates(f, Offset, a, n, step)
    BY <1>2, <1>4, Iterate
  <2>2. f \in [0 .. n -> Offset] /\ f[0] = a /\ \A k \in 1 .. n : f[k] = step[k][f[k - 1]]
    BY <2>1 DEF Iterates
  <2>3. \A k \in 0 .. n : f[k] = IF k = 0 THEN a ELSE AfterPair(d, f[k - 1])
    <3> TAKE k \in 0 .. n
    <3>1. k = 0 \/ (k \in 1 .. n /\ k - 1 \in 0 .. n /\ k # 0)
      OBVIOUS
    <3> QED
      BY <1>5, <2>2, <3>1
  <2>4. Is(f)
    BY <2>2, <2>3
  <2> QED
    BY <2>4
<1>7. Is(e)
  BY <1>6
<1> HIDE DEF e
<1>8. e = [k \in 0 .. n |-> e[k]] /\ e[0] = a /\ \A k \in 1 .. n : e[k] = AfterPair(d, e[k - 1])
  <2>1. 0 \in 0 .. n /\ \A k \in 1 .. n : k \in 0 .. n /\ k # 0
    OBVIOUS
  <2> QED
    BY <1>7, <2>1
<1>9. Iterates(e, Offset, a, n, step)
  <2>1. \A k \in 1 .. n : e[k - 1] \in Offset => e[k] = step[k][e[k - 1]]
    BY <1>5, <1>8
  <2> QED
    BY <1>2, <1>4, <1>8, <2>1, IteratesIf
<1> QED
  BY <1>1, <1>3, <1>8, <1>9 DEF Iterates

\* What follows the metadata is found, or it is not all there.
LEMMA MetadataRead ==
  ASSUME NEW d \in Seq(Byte), NEW ps, Len(ps) \in Nat, DOMAIN ps = 1 .. Len(ps),
         \A k \in DOMAIN ps : IsPair(ps[k]),
         NEW parts \in Seq(Seq(Byte)), parts = [k \in DOMAIN ps |-> Pair(ps[k])],
         Has(d, 24, FlattenSeq(parts)), U64(d, 16) = Len(ps)
  PROVE  Skipped(d, 24, FlattenSeq(parts), MetadataEnd(d), TRUE)
<1> DEFINE n == Len(ps)
           a == 24
<1>1. n \in Nat /\ Len(parts) = n /\ \A k \in 1 .. n : parts[k] = Pair(ps[k]) /\ IsPair(ps[k])
  OBVIOUS
<1>2. PICK e : /\ e \in [0 .. n -> Offset]
               /\ e[0] = a /\ \A k \in 1 .. n : e[k] = AfterPair(d, e[k - 1])
               /\ MetadataEnd(d) = e[n]
  BY MetadataEndIs
<1>3. a \in Nat /\ Has(d, a, FlattenSeq(parts)) /\ a = 24
  OBVIOUS
<1> HIDE DEF a
<1>4. PICK off : /\ Offsets(off, a, parts)
                 /\ \A k \in 1 .. Len(parts) : Has(d, off[k - 1], parts[k])
  BY <1>3, Flatten
<1>5. /\ \A i \in 0 .. n : off[i] \in Nat /\ off[i] <= off[n]
      /\ \A i \in 1 .. n : Len(parts[i]) \in Nat /\ off[i] = off[i - 1] + Len(parts[i])
      /\ off[0] = a
      /\ off[n] = a + Len(FlattenSeq(parts))
  BY <1>1, <1>3, <1>4, OffsetsGrow DEF Offsets
<1> DEFINE S == {j \in 0 .. n : e[j] \in {Refused, off[j]} /\ (off[n] <= Len(d) => e[j] = off[j])}
<1> HIDE DEF n
<1>6. 0 \in S
  BY <1>1, <1>2, <1>5
<1>7. ASSUME NEW i \in 1 .. n, i - 1 \in S PROVE i \in S
  <2>1. i - 1 \in 0 .. n /\ i \in 0 .. n
    BY <1>1
  <2>2. off[i - 1] \in Nat /\ Has(d, off[i - 1], Pair(ps[i])) /\ IsPair(ps[i])
    BY <1>1, <1>4, <1>5, <2>1
  <2>3. Skipped(d, off[i - 1], Pair(ps[i]), AfterPair(d, off[i - 1]), TRUE)
    BY <2>2, PairRead
  <2>4. off[i - 1] + Len(Pair(ps[i])) = off[i] /\ off[i] <= off[n] /\ off[i] \in Nat /\ off[n] \in Nat
    <3>1. n \in 0 .. n
      BY <1>1
    <3> QED
      BY <1>1, <1>5, <2>1, <3>1
  <2>5. AfterPair(d, off[i - 1]) \in {Refused, off[i]}
    BY <2>3, <2>4 DEF Skipped
  <2>6. off[n] <= Len(d) => AfterPair(d, off[i - 1]) = off[i]
    <3>1. off[n] <= Len(d) => off[i] <= Len(d)
      BY <2>4, LenIsNat
    <3> QED
      BY <2>3, <2>4, <3>1 DEF Skipped
  <2>7. AfterPair(d, Refused) = Refused
    BY DEF AfterPair, Fits
  <2>8. e[i - 1] \in {Refused, off[i - 1]} /\ (off[n] <= Len(d) => e[i - 1] = off[i - 1])
    BY <1>7
  <2>9. e[i] = AfterPair(d, e[i - 1])
    BY <1>2
  <2> QED
    BY <2>1, <2>5, <2>6, <2>7, <2>8, <2>9
<1>8. n \in S
  <2> HIDE DEF S
  <2> QED
    BY <1>1, <1>6, <1>7, UpTo
<1> QED
  BY <1>2, <1>3, <1>5, <1>8 DEF Skipped

-----------------------------------------------------------------------------
(* The table of tensors.                                                   *)

\* The bytes from one offset to another.
LEMMA SliceOK ==
  ASSUME NEW d \in Seq(Byte), NEW at \in Nat, NEW n \in Nat, at + n <= Len(d)
  PROVE  /\ Slice(d, at, n) \in Seq(Byte) /\ Len(Slice(d, at, n)) = n
         /\ \A i \in 1 .. n : Slice(d, at, n)[i] = d[at + i]
<1> DEFINE p == Slice(d, at, n)
<1>1. \A i \in at + 1 .. at + n : d[i] \in Byte
  <2>1. Len(d) \in Nat /\ \A i \in at + 1 .. at + n : i \in 1 .. Len(d)
    BY LenIsNat
  <2> QED
    BY <2>1
<1>2. at + 1 \in Int /\ at + n \in Int
  OBVIOUS
<1>3. /\ p \in Seq(Byte)
      /\ Len(p) = IF at + 1 <= at + n THEN (at + n) - (at + 1) + 1 ELSE 0
      /\ \A i \in 1 .. (at + n) - (at + 1) + 1 : p[i] = d[(at + 1) + i - 1]
  BY <1>1, <1>2, SubSeqProperties DEF Slice
<1> HIDE DEF p
<1>4. /\ (at + n) - (at + 1) + 1 = n /\ \A i \in 1 .. n : (at + 1) + i - 1 = at + i
      /\ (IF at + 1 <= at + n THEN n ELSE 0) = n
  OBVIOUS
<1>5. Len(p) = n
  BY <1>3, <1>4
<1>6. \A i \in 1 .. n : p[i] = d[at + i]
  BY <1>3, <1>4
<1> QED
  BY <1>3, <1>5, <1>6 DEF p

\* Byte strings of one length that agree in every byte.
LEMMA SameBytes ==
  ASSUME NEW s \in Seq(Byte), NEW t \in Seq(Byte), Len(s) = Len(t),
         \A i \in 1 .. Len(s) : s[i] = t[i]
  PROVE  s = t
<1>1. s = [i \in 1 .. Len(s) |-> s[i]] /\ t = [i \in 1 .. Len(s) |-> t[i]]
  OBVIOUS
<1> QED
  BY <1>1

\* What a slice of a file has.
LEMMA SliceRead ==
  ASSUME NEW d \in Seq(Byte), NEW s \in Seq(Byte), NEW at \in Nat, Has(d, at, s),
         at + Len(s) <= Len(d)
  PROVE  Slice(d, at, Len(s)) = s
<1> DEFINE n == Len(s)
           p == Slice(d, at, n)
<1>1. n \in Nat /\ Len(d) \in Nat /\ at + n <= Len(d)
  BY LenIsNat
<1>2. \A i \in 1 .. n : d[at + i] = s[i]
  <2> TAKE i \in 1 .. n
  <2>1. at + i <= Len(d)
    BY <1>1
  <2> QED
    BY <2>1 DEF Has
<1>3. p \in Seq(Byte) /\ Len(p) = n /\ \A i \in 1 .. n : p[i] = d[at + i]
  BY <1>1, SliceOK
<1> HIDE DEF p
<1>4. p = s
  BY <1>2, <1>3, SameBytes
<1> QED
  BY <1>4 DEF p

\* The bytes of the dimensions.
DimBytes(dims) == [i \in DOMAIN dims |-> Bytes(dims[i], 8)]

\* Eight for each of them.
LEMMA DimsOK ==
  ASSUME NEW dims \in Seq(Size)
  PROVE  /\ DimBytes(dims) \in Seq(Seq(Byte)) /\ Len(DimBytes(dims)) = Len(dims)
         /\ \A i \in 1 .. Len(dims) : DimBytes(dims)[i] = Bytes(dims[i], 8) /\ Len(DimBytes(dims)[i]) = 8
         /\ FlattenSeq(DimBytes(dims)) \in Seq(Byte)
         /\ \A off : \A at \in Nat : Offsets(off, at, DimBytes(dims)) =>
              \A i \in 0 .. Len(dims) : off[i] = at + 8 * i
<1> DEFINE b == DimBytes(dims)
           n == Len(dims)
<1>1. n \in Nat /\ DOMAIN dims = 1 .. n /\ \A i \in 1 .. n : dims[i] \in Nat
  <2>1. n \in Nat /\ DOMAIN dims = 1 .. n /\ \A i \in 1 .. n : dims[i] \in Size
    BY LenProperties
  <2> QED
    BY <2>1, SizeNat
<1>2. \A i \in 1 .. n : b[i] = Bytes(dims[i], 8) /\ Len(b[i]) = 8 /\ b[i] \in Seq(Byte)
  BY <1>1, BytesOK DEF DimBytes
<1>3. b \in Seq(Seq(Byte)) /\ Len(b) = n
  <2>1. b = [i \in 1 .. n |-> b[i]]
    BY <1>1 DEF DimBytes
  <2> QED
    BY <1>1, <1>2, <2>1
<1>4. FlattenSeq(b) \in Seq(Byte)
  BY <1>3, Flatten
<1> HIDE DEF b, n
<1>5. ASSUME NEW off, NEW at \in Nat, Offsets(off, at, b), NEW k \in 0 .. n
      PROVE  off[k] = at + 8 * k
  <2> DEFINE S == {j \in 0 .. n : off[j] = at + 8 * j}
  <2>1. off[0] = at /\ \A i \in 1 .. n : off[i] = off[i - 1] + 8
    BY <1>2, <1>3, <1>5 DEF Offsets
  <2>2. 0 \in S
    BY <1>1, <2>1
  <2>3. ASSUME NEW i \in 1 .. k, i - 1 \in S PROVE i \in S
    <3>1. i \in 1 .. n /\ i \in 0 .. n
      BY <1>1
    <3>2. off[i] = (at + 8 * (i - 1)) + 8
      BY <2>1, <2>3, <3>1
    <3> QED
      BY <3>1, <3>2
  <2> HIDE DEF S
  <2>4. k \in S
    BY <1>1, <2>2, <2>3, UpTo
  <2> QED
    BY <2>4 DEF S
<1> QED
  BY <1>2, <1>3, <1>4, <1>5 DEF b, n

\* They are read as they were written.
LEMMA DimsRead ==
  ASSUME NEW dims \in Seq(Size)
  PROVE  /\ Len(FlattenSeq(DimBytes(dims))) = 8 * Len(dims)
         /\ \A d \in Seq(Byte), at \in Nat :
              Has(d, at, FlattenSeq(DimBytes(dims))) /\ at + 8 * Len(dims) <= Len(d) =>
                \A i \in 1 .. Len(dims) : U64(d, at + 8 * i - 8) = dims[i]
<1> DEFINE b == DimBytes(dims)
           n == Len(dims)
<1>1. n \in Nat /\ \A i \in 1 .. n : dims[i] \in Size
  BY LenProperties
<1>2. /\ b \in Seq(Seq(Byte)) /\ Len(b) = n /\ FlattenSeq(b) \in Seq(Byte)
      /\ \A i \in 1 .. n : b[i] = Bytes(dims[i], 8)
      /\ \A off : \A at \in Nat : Offsets(off, at, b) => \A i \in 0 .. n : off[i] = at + 8 * i
  BY DimsOK
<1> HIDE DEF b, n
<1>3. Len(FlattenSeq(b)) = 8 * n
  <2> DEFINE m == Len(FlattenSeq(b))
  <2>1. PICK off : Offsets(off, 0, b)
    BY <1>2, Flatten
  <2>2. off[n] = 0 + m /\ m \in Nat
    BY <1>2, <2>1, LenIsNat DEF Offsets
  <2>3. off[n] = 0 + 8 * n
    <3>1. n \in 0 .. n /\ 0 \in Nat
      BY <1>1
    <3> QED
      BY <1>2, <2>1, <3>1
  <2> HIDE DEF m
  <2>4. m = 8 * n
    BY <1>1, <2>2, <2>3
  <2> QED
    BY <2>4 DEF m
<1>4. ASSUME NEW d \in Seq(Byte), NEW at \in Nat, Has(d, at, FlattenSeq(b)),
             at + 8 * n <= Len(d), NEW i \in 1 .. n
      PROVE  U64(d, at + 8 * i - 8) = dims[i]
  <2>1. PICK off : /\ Offsets(off, at, b)
                   /\ \A k \in 1 .. Len(b) : Has(d, off[k - 1], b[k])
    BY <1>2, <1>4, Flatten
  <2>2. off[i - 1] = at + 8 * (i - 1) /\ Has(d, off[i - 1], b[i])
    BY <1>1, <1>2, <2>1
  <2> DEFINE pos == at + 8 * i - 8
             len == Len(d)
  <2>3. pos \in Nat /\ pos + 8 <= len /\ pos = at + 8 * (i - 1)
    BY <1>1, <1>4, LenIsNat
  <2> HIDE DEF pos, len
  <2>4. Has(d, pos, Bytes(dims[i], 8))
    BY <1>2, <2>2, <2>3
  <2>5. U64(d, pos) = dims[i]
    BY <1>1, <2>3, <2>4, NumberRead DEF len
  <2> QED
    BY <2>5 DEF U64, pos
<1> QED
  BY <1>3, <1>4 DEF b, n

\* What an entry of the table says of a tensor, but for the offset.
IsInfo(t) ==
  /\ t.name \in Seq(Byte) /\ Len(t.name) \in Size /\ IsText(t.name)
  /\ t.dims \in Seq(Size) /\ Len(t.dims) \in Size32
  /\ t.type \in Size32

\* The bytes of an entry, up to the dimensions and with them.
InfoHead(t) == Text(t.name) \o Bytes(Len(t.dims), 4)
InfoBody(t) == InfoHead(t) \o FlattenSeq(DimBytes(t.dims))

\* The bytes of an entry and of its parts.
LEMMA InfoOK ==
  ASSUME NEW t, IsInfo(t), NEW offset \in Size
  PROVE  /\ InfoHead(t) \in Seq(Byte) /\ Len(InfoHead(t)) = 12 + Len(t.name)
         /\ InfoBody(t) \in Seq(Byte) /\ Len(InfoBody(t)) = 12 + Len(t.name) + 8 * Len(t.dims)
         /\ TensorInfo(t, offset) = InfoBody(t) \o Bytes(t.type, 4) \o Bytes(offset, 8)
         /\ TensorInfo(t, offset) \in Seq(Byte)
         /\ Len(TensorInfo(t, offset)) = 24 + Len(t.name) + 8 * Len(t.dims)
<1> DEFINE m == Len(t.name)
           n == Len(t.dims)
           a == Text(t.name)
           b == Bytes(n, 4)
           c == FlattenSeq(DimBytes(t.dims))
           e == Bytes(t.type, 4)
           o == Bytes(offset, 8)
<1>1. /\ m \in Nat /\ n \in Nat /\ n \in Size32 /\ t.dims \in Seq(Size)
      /\ t.type \in Size32 /\ t.type \in Nat /\ offset \in Nat
  BY SizeNat, Size32Is DEF IsInfo
<1>2. a \in Seq(Byte) /\ Len(a) = 8 + m
  BY TextOK DEF IsInfo
<1>3. b \in Seq(Byte) /\ Len(b) = 4
  BY <1>1, BytesOK
<1>4. c \in Seq(Byte) /\ Len(c) = 8 * n
  BY <1>1, DimsOK, DimsRead
<1>5. e \in Seq(Byte) /\ Len(e) = 4 /\ o \in Seq(Byte) /\ Len(o) = 8
  BY <1>1, BytesOK
<1>6. InfoHead(t) = a \o b /\ InfoBody(t) = InfoHead(t) \o c
  BY DEF InfoHead, InfoBody
<1>7. TensorInfo(t, offset) = InfoBody(t) \o e \o o
  BY DEF TensorInfo, InfoBody, InfoHead, DimBytes
<1> HIDE DEF a, b, c, e, o, m, n
<1>8. InfoHead(t) \in Seq(Byte) /\ Len(InfoHead(t)) = 12 + m
  <2>1. a \o b \in Seq(Byte) /\ Len(a \o b) = Len(a) + Len(b)
    BY <1>2, <1>3, ConcatOK
  <2> QED
    BY <1>1, <1>2, <1>3, <1>6, <2>1
<1>9. InfoBody(t) \in Seq(Byte) /\ Len(InfoBody(t)) = 12 + m + 8 * n
  <2>1. InfoHead(t) \o c \in Seq(Byte) /\ Len(InfoHead(t) \o c) = Len(InfoHead(t)) + Len(c)
    BY <1>4, <1>8, ConcatOK
  <2> QED
    BY <1>1, <1>4, <1>6, <1>8, <2>1
<1>10. TensorInfo(t, offset) \in Seq(Byte) /\ Len(TensorInfo(t, offset)) = 24 + m + 8 * n
  <2> DEFINE x == InfoBody(t)
             y == x \o e
  <2>1. x \in Seq(Byte) /\ Len(x) = 12 + m + 8 * n
    BY <1>9
  <2> HIDE DEF x
  <2>2. y \in Seq(Byte) /\ Len(y) = Len(x) + Len(e)
    BY <1>5, <2>1, ConcatOK
  <2> HIDE DEF y
  <2>3. y \o o \in Seq(Byte) /\ Len(y \o o) = Len(y) + Len(o)
    BY <1>5, <2>2, ConcatOK
  <2>4. Len(y \o o) = 24 + m + 8 * n
    BY <1>1, <1>5, <2>1, <2>2, <2>3
  <2> QED
    BY <1>7, <2>3, <2>4 DEF x, y
<1> QED
  BY <1>7, <1>8, <1>9, <1>10 DEF m, n, e, o

\* Where the parts of an entry are.
LEMMA InfoHas ==
  ASSUME NEW d \in Seq(Byte), NEW at \in Nat, NEW t, IsInfo(t), NEW offset \in Size,
         Has(d, at, TensorInfo(t, offset))
  PROVE  LET dims == at + 8 + Len(t.name)
             rest == dims + 4 + 8 * Len(t.dims)
         IN  /\ Has(d, at, Text(t.name))
             /\ Has(d, dims, Bytes(Len(t.dims), 4))
             /\ Has(d, dims + 4, FlattenSeq(DimBytes(t.dims)))
             /\ Has(d, rest, Bytes(t.type, 4))
             /\ Has(d, rest + 4, Bytes(offset, 8))
<1> DEFINE m == Len(t.name)
           n == Len(t.dims)
           a == Text(t.name)
           b == Bytes(n, 4)
           c == FlattenSeq(DimBytes(t.dims))
           e == Bytes(t.type, 4)
           o == Bytes(offset, 8)
           x == InfoHead(t)
           y == InfoBody(t)
<1>1. /\ m \in Nat /\ n \in Nat /\ n \in Size32 /\ t.dims \in Seq(Size)
      /\ t.type \in Size32 /\ t.type \in Nat /\ offset \in Nat
  BY SizeNat, Size32Is DEF IsInfo
<1>2. /\ a \in Seq(Byte) /\ Len(a) = 8 + m
      /\ b \in Seq(Byte) /\ Len(b) = 4
      /\ c \in Seq(Byte) /\ Len(c) = 8 * n
      /\ e \in Seq(Byte) /\ Len(e) = 4
      /\ o \in Seq(Byte) /\ Len(o) = 8
  <2>1. a \in Seq(Byte) /\ Len(a) = 8 + m
    BY TextOK DEF IsInfo
  <2>2. c \in Seq(Byte) /\ Len(c) = 8 * n
    BY <1>1, DimsOK, DimsRead
  <2> QED
    BY <1>1, <2>1, <2>2, BytesOK
<1>3. /\ x \in Seq(Byte) /\ Len(x) = 12 + m
      /\ y \in Seq(Byte) /\ Len(y) = 12 + m + 8 * n
  BY InfoOK
<1>4. x = a \o b /\ y = x \o c /\ TensorInfo(t, offset) = (y \o e) \o o
  BY InfoOK DEF InfoHead, InfoBody
<1> HIDE DEF a, b, c, e, o, m, n, x, y
<1>5. y \o e \in Seq(Byte) /\ Len(y \o e) = Len(y) + Len(e)
  BY <1>2, <1>3, ConcatOK
<1> DEFINE z == y \o e
<1>6. Has(d, at, z \o o)
  BY <1>4
<1>7. z \in Seq(Byte) /\ Len(z) = 16 + m + 8 * n
  BY <1>1, <1>2, <1>3, <1>5
<1> HIDE DEF z
<1>8. Has(d, at, z) /\ Has(d, at + Len(z), o)
  BY <1>2, <1>6, <1>7, HasConcat
<1>9. Has(d, at, y \o e)
  BY <1>8 DEF z
<1>10. Has(d, at, y) /\ Has(d, at + Len(y), e)
  BY <1>2, <1>3, <1>9, HasConcat
<1>11. Has(d, at, x) /\ Has(d, at + Len(x), c)
  BY <1>2, <1>3, <1>4, <1>10, HasConcat
<1>12. Has(d, at, a) /\ Has(d, at + Len(a), b)
  BY <1>2, <1>4, <1>11, HasConcat
<1> DEFINE dims == at + 8 + m
           rest == dims + 4 + 8 * n
<1>13. at + Len(a) = dims /\ at + Len(x) = dims + 4 /\ at + Len(y) = rest /\ at + Len(z) = rest + 4
  BY <1>1, <1>2, <1>3, <1>7
<1>14. /\ Has(d, at, a) /\ Has(d, dims, b) /\ Has(d, dims + 4, c) /\ Has(d, rest, e)
       /\ Has(d, rest + 4, o)
  <2> HIDE DEF dims, rest
  <2> QED
    BY <1>8, <1>10, <1>11, <1>12, <1>13
<1> QED
  BY <1>14 DEF a, b, c, e, o, m, n

\* What Entry returns of a tensor.
Full(t, offset, after) ==
  [name |-> t.name, dims |-> t.dims, type |-> t.type, offset |-> offset, after |-> after]

\* An entry is read as it was written, or refused if a part of it is missing.
LEMMA EntryRead ==
  ASSUME NEW d \in Seq(Byte), NEW at \in Nat, NEW t, IsInfo(t), NEW offset \in Size,
         Has(d, at, TensorInfo(t, offset))
  PROVE  Entry(d, at) = IF at + Len(TensorInfo(t, offset)) <= Len(d)
                          THEN Full(t, offset, at + Len(TensorInfo(t, offset)))
                          ELSE [after |-> Refused]
<1> DEFINE m == Len(t.name)
           n == Len(t.dims)
           len == Len(d)
           dims == at + 8 + m
           rest == dims + 4 + 8 * n
           end == at + Len(TensorInfo(t, offset))
<1>1. m \in Nat /\ m \in Size /\ n \in Nat /\ n \in Size32 /\ len \in Nat
  BY SizeIs, Size32Is, LenIsNat DEF IsInfo
<1>2. end = rest + 12
  <2> DEFINE l == Len(TensorInfo(t, offset))
  <2>1. l = 24 + m + 8 * n
    BY InfoOK
  <2>2. at + l = rest + 12
    <3> HIDE DEF l, m, n
    <3> QED
      BY <1>1, <2>1
  <2> QED
    BY <2>2
<1>3. /\ Has(d, at, Text(t.name)) /\ Has(d, dims, Bytes(n, 4))
      /\ Has(d, dims + 4, FlattenSeq(DimBytes(t.dims)))
      /\ Has(d, rest, Bytes(t.type, 4)) /\ Has(d, rest + 4, Bytes(offset, 8))
  BY InfoHas
<1>4. at + 8 <= len => U64(d, at) = m
  BY <1>1, <1>3, TextRead DEF IsInfo
<1>5. Has(d, at + 8, t.name) /\ t.name \in Seq(Byte) /\ IsText(t.name)
  BY <1>1, <1>3, TextRead DEF IsInfo
<1> HIDE DEF m, n, len, end
<1>6. dims \in Nat /\ rest \in Nat /\ rest + 4 \in Nat /\ dims + 4 \in Nat /\ at + 8 \in Nat
  BY <1>1
<1> HIDE DEF dims, rest
<1>7. dims = at + 8 + m /\ rest = dims + 4 + 8 * n
  BY DEF dims, rest
<1>8. dims + 4 <= len => U32(d, dims) = n
  BY <1>1, <1>3, <1>6, NumberRead DEF U32, len
<1>9. at # Refused /\ at + 8 # Refused /\ dims # Refused /\ rest # Refused
  BY <1>6, RefusedIs
<1>10. CASE rest + 12 <= len
  <2>1. /\ at + 8 <= len /\ at + 8 + m <= len /\ dims + 4 <= len /\ rest + 4 <= len
        /\ (rest + 4) + 8 <= len /\ (dims + 4) + 8 * n <= len
    BY <1>1, <1>6, <1>7, <1>10
  <2>2. U64(d, at) = m /\ U32(d, dims) = n
    BY <1>4, <1>8, <2>1
  <2>3. U32(d, rest) = t.type
    <3>1. t.type \in Size32
      BY DEF IsInfo
    <3> QED
      BY <1>3, <1>6, <2>1, <3>1, NumberRead DEF U32, len
  <2>4. U64(d, rest + 4) = offset
    BY <1>3, <1>6, <2>1, NumberRead DEF U64, len
  <2>5. Slice(d, at + 8, m) = t.name
    BY <1>5, <1>6, <2>1, SliceRead DEF m, len
  <2>6. [i \in 1 .. n |-> U64(d, dims + 8 * i - 4)] = t.dims
    <3>1. t.dims \in Seq(Size)
      BY DEF IsInfo
    <3>2. \A i \in 1 .. n : U64(d, (dims + 4) + 8 * i - 8) = t.dims[i]
      BY <1>3, <1>6, <2>1, <3>1, DimsRead DEF n, len
    <3>3. \A i \in 1 .. n : (dims + 4) + 8 * i - 8 = dims + 8 * i - 4
      BY <1>1, <1>6
    <3>4. \A i \in 1 .. n : U64(d, dims + 8 * i - 4) = t.dims[i]
      BY <3>2, <3>3
    <3>5. t.dims = [i \in 1 .. n |-> t.dims[i]]
      BY <3>1 DEF n
    <3> QED
      BY <3>4, <3>5
  <2>7. /\ Fits(d, at, 8) /\ Fits(d, at + 8, m) /\ Fits(d, dims, 4) /\ Fits(d, rest, 12)
    BY <1>9, <1>10, <2>1 DEF Fits, len
  <2>8. Entry(d, at) = [name |-> t.name, dims |-> t.dims, type |-> t.type, offset |-> offset,
                        after |-> rest + 12]
    BY <1>5, <1>7, <2>2, <2>3, <2>4, <2>5, <2>6, <2>7 DEF Entry
  <2> QED
    BY <1>2, <1>10, <2>8 DEF Full, end, len
<1>11. CASE ~(rest + 12 <= len)
  <2>1. Entry(d, at) = [after |-> Refused]
    <3>1. CASE ~Fits(d, at, 8)
      BY <3>1 DEF Entry
    <3>2. CASE Fits(d, at, 8)
      <4>1. U64(d, at) = m
        BY <1>4, <3>2 DEF Fits, len
      <4>2. CASE ~Fits(d, dims, 4)
        BY <1>7, <4>1, <4>2 DEF Entry
      <4>3. CASE Fits(d, dims, 4)
        <5>1. U32(d, dims) = n /\ ~Fits(d, rest, 12)
          BY <1>8, <1>11, <4>3 DEF Fits, len
        <5> QED
          BY <1>7, <4>1, <5>1 DEF Entry
      <4> QED
        BY <4>2, <4>3
    <3> QED
      BY <3>1, <3>2
  <2> QED
    BY <1>2, <1>11, <2>1 DEF end, len
<1> QED
  BY <1>10, <1>11

\* After an entry that was refused nothing is read.
LEMMA EntryRefused ==
  ASSUME NEW d
  PROVE  Entry(d, Refused) = [after |-> Refused]
BY DEF Entry, Fits

\* The offset after an entry, or none.
LEMMA EntryAfter ==
  ASSUME NEW d \in Seq(Byte), NEW at \in Offset
  PROVE  Entry(d, at).after \in Offset
<1> DEFINE dims == at + 8 + U64(d, at)
           rest == dims + 4 + 8 * U32(d, dims)
           ok == /\ Fits(d, at, 8) /\ Fits(d, at + 8, U64(d, at))
                 /\ IsText(Slice(d, at + 8, U64(d, at))) /\ Fits(d, dims, 4) /\ Fits(d, rest, 12)
<1>1. CASE ok
  <2>1. at \in Nat /\ at + 8 <= Len(d)
    BY <1>1, OffsetIs DEF Fits
  <2>2. U64(d, at) \in Nat
    BY <2>1, U64IsNat
  <2>3. dims \in Nat
    BY <2>1, <2>2
  <2>4. dims + 4 <= Len(d)
    BY <1>1 DEF Fits
  <2>5. U32(d, dims) \in Nat
    <3> HIDE DEF dims
    <3> QED
      BY <2>3, <2>4, U32IsNat
  <2>6. rest + 12 \in Nat
    <3> HIDE DEF dims
    <3> QED
      BY <2>3, <2>5
  <2>7. Entry(d, at).after = rest + 12
    BY <1>1 DEF Entry
  <2> QED
    BY <2>6, <2>7, OffsetIs
<1>2. CASE ~ok
  <2>1. Entry(d, at).after = Refused
    BY <1>2 DEF Entry
  <2> QED
    BY <2>1, OffsetIs
<1> QED
  BY <1>1, <1>2

\* The entries, one after the other.
LEMMA TableIs ==
  ASSUME NEW d \in Seq(Byte), NEW n \in Nat \ {0}, U64(d, 8) = n, NEW start \in Nat
  PROVE  /\ Table(d, start)[1] = Entry(d, start)
         /\ \A k \in 2 .. n : Table(d, start)[k] = Entry(d, Table(d, start)[k - 1].after)
<1> DEFINE X == {Entry(d, at) : at \in Offset}
           At(k, e) == IF k = 1 THEN start ELSE e.after
           step == [k \in 1 .. n |-> [e \in X |-> Entry(d, At(k, e))]]
           a == Entry(d, Refused)
           Is(e) == e = [k \in 1 .. n |-> Entry(d, IF k = 1 THEN start ELSE e[k - 1].after)]
           e == CHOOSE e1 : Is(e1)
<1>1. Table(d, start) = e
  BY DEF Table
<1>2. a \in X /\ \A x \in X : x.after \in Offset
  BY EntryAfter, OffsetIs
<1>3. start \in Offset
  BY OffsetIs
<1>4. \A at \in Offset : Entry(d, at) \in X
  OBVIOUS
<1> HIDE DEF X, a
<1>5. step \in [1 .. n -> [X -> X]]
  BY <1>2, <1>3, <1>4
<1>6. \A k \in 1 .. n, x \in X : step[k][x] = Entry(d, At(k, x))
  OBVIOUS
<1> HIDE DEF step
<1>7. PICK f : Iterates(f, X, a, n, step)
  BY <1>2, <1>5, Iterate
<1>8. f \in [0 .. n -> X] /\ \A k \in 1 .. n : f[k] = step[k][f[k - 1]]
  BY <1>7 DEF Iterates
<1> DEFINE g == [k \in 1 .. n |-> f[k]]
<1>9. \A k \in 1 .. n : g[k] = Entry(d, IF k = 1 THEN start ELSE g[k - 1].after)
  <2> TAKE k \in 1 .. n
  <2>1. k - 1 \in 0 .. n /\ (k # 1 => k - 1 \in 1 .. n)
    OBVIOUS
  <2>2. f[k] = Entry(d, At(k, f[k - 1]))
    BY <1>6, <1>8, <2>1
  <2>3. g[k] = f[k] /\ (k # 1 => g[k - 1] = f[k - 1])
    BY <2>1
  <2> QED
    BY <2>2, <2>3
<1>10. Is(g)
  BY <1>9
<1>11. Is(e)
  <2> HIDE DEF g
  <2> QED
    BY <1>10
<1> HIDE DEF e
<1>12. \A k \in 1 .. n : e[k] = Entry(d, IF k = 1 THEN start ELSE e[k - 1].after)
  BY <1>11
<1>13. 1 \in 1 .. n /\ \A k \in 2 .. n : k \in 1 .. n /\ k # 1
  OBVIOUS
<1> QED
  BY <1>1, <1>12, <1>13

\* The bytes of a table, and what may be in one.
InfoBytes(n, ts, os) == [k \in 1 .. n |-> TensorInfo(ts[k], os[k])]

IsTable(n, ts, os) ==
  n \in Size /\ \A k \in 1 .. n : IsInfo(ts[k]) /\ os[k] \in Size

\* Each entry is a sequence of bytes.
LEMMA InfosOK ==
  ASSUME NEW n, NEW ts, NEW os, IsTable(n, ts, os)
  PROVE  /\ InfoBytes(n, ts, os) \in Seq(Seq(Byte)) /\ Len(InfoBytes(n, ts, os)) = n
         /\ n \in Nat
<1>1. n \in Nat
  BY SizeNat DEF IsTable
<1>2. \A k \in 1 .. n : TensorInfo(ts[k], os[k]) \in Seq(Byte)
  BY InfoOK DEF IsTable
<1>3. InfoBytes(n, ts, os) \in [1 .. n -> Seq(Byte)]
  BY <1>2 DEF InfoBytes
<1> QED
  BY <1>1, <1>3
\* The whole table is read, or refused if it is not all there.
LEMMA TableRead ==
  ASSUME NEW d \in Seq(Byte), NEW n, NEW ts, NEW os, IsTable(n, ts, os), n # 0, U64(d, 8) = n,
         NEW at \in Nat, Has(d, at, FlattenSeq(InfoBytes(n, ts, os)))
  PROVE  LET table == Table(d, at)
             end == at + Len(FlattenSeq(InfoBytes(n, ts, os)))
         IN  IF end <= Len(d)
               THEN /\ table[n].after = end
                    /\ \A k \in 1 .. n : \E after \in Nat : table[k] = Full(ts[k], os[k], after)
               ELSE table[n].after = Refused
<1> DEFINE table == Table(d, at)
           parts == InfoBytes(n, ts, os)
           end == at + Len(FlattenSeq(parts))
<1>0. n \in Nat \ {0} /\ \A k \in 1 .. n : IsInfo(ts[k]) /\ os[k] \in Size
  BY InfosOK DEF IsTable
<1>1. /\ table[1] = Entry(d, at)
      /\ \A k \in 2 .. n : table[k] = Entry(d, table[k - 1].after)
  BY <1>0, TableIs
<1>2. /\ parts \in Seq(Seq(Byte)) /\ Len(parts) = n
      /\ \A k \in 1 .. n : parts[k] = TensorInfo(ts[k], os[k])
  BY InfosOK DEF InfoBytes
<1> HIDE DEF parts
<1>3. PICK off : /\ Offsets(off, at, parts)
                 /\ \A k \in 1 .. Len(parts) : Has(d, off[k - 1], parts[k])
  BY <1>2, Flatten DEF parts
<1>4. /\ \A i \in 0 .. n : off[i] \in Nat /\ off[i] <= off[n]
      /\ \A i \in 1 .. n : Len(parts[i]) \in Nat /\ off[i] = off[i - 1] + Len(parts[i])
      /\ off[0] = at
      /\ off[n] = end
  BY <1>2, <1>3, OffsetsGrow DEF Offsets
<1>5. ASSUME NEW k \in 1 .. n
      PROVE  Entry(d, off[k - 1]) = IF off[k] <= Len(d) THEN Full(ts[k], os[k], off[k])
                                                       ELSE [after |-> Refused]
  <2>1. k - 1 \in 0 .. n
    BY <1>0
  <2>2. off[k - 1] \in Nat /\ Has(d, off[k - 1], TensorInfo(ts[k], os[k]))
    BY <1>2, <1>3, <1>4, <2>1
  <2>3. off[k] = off[k - 1] + Len(TensorInfo(ts[k], os[k]))
    BY <1>2, <1>4
  <2> QED
    BY <1>0, <2>2, <2>3, EntryRead
<1> DEFINE Is(k) == IF off[k] <= Len(d) THEN table[k] = Full(ts[k], os[k], off[k])
                                        ELSE table[k].after = Refused
           S == {j \in 0 .. n : j = 0 \/ Is(j)}
<1> HIDE DEF table, end, parts
<1>6. ASSUME NEW i \in 1 .. n, i - 1 \in S PROVE Is(i)
  <2>1. CASE i = 1
    <3>1. table[i] = Entry(d, off[i - 1])
      BY <1>1, <1>4, <2>1
    <3> QED
      BY <1>5, <3>1 DEF Full
  <2>2. CASE i # 1
    <3>1. i \in 2 .. n /\ i - 1 \in 1 .. n /\ i - 1 \in 0 .. n /\ i \in 0 .. n /\ i - 1 # 0
      BY <1>0, <2>2
    <3>2. table[i] = Entry(d, table[i - 1].after) /\ Is(i - 1)
      BY <1>1, <1>6, <3>1
    <3>3. CASE off[i - 1] <= Len(d)
      <4>1. table[i - 1].after = off[i - 1]
        BY <3>2, <3>3 DEF Full
      <4> QED
        BY <1>5, <3>2, <4>1 DEF Full
    <3>4. CASE ~(off[i - 1] <= Len(d))
      <4>1. table[i].after = Refused
        BY <3>2, <3>4, EntryRefused
      <4>2. off[i] = off[i - 1] + Len(parts[i]) /\ off[i - 1] \in Nat /\ Len(parts[i]) \in Nat
        BY <1>4, <3>1
      <4>3. ~(off[i] <= Len(d))
        BY <3>4, <4>2, LenIsNat
      <4> QED
        BY <4>1, <4>3
    <3> QED
      BY <3>3, <3>4
  <2> QED
    BY <2>1, <2>2
<1>7. ASSUME NEW k \in 1 .. n PROVE Is(k)
  <2>1. 0 \in S /\ \A i \in 1 .. k : i - 1 \in S => i \in S
    BY <1>0, <1>6
  <2> HIDE DEF S
  <2>2. k \in S
    BY <1>0, <2>1, UpTo
  <2> QED
    BY <2>2 DEF S
<1>8. CASE end <= Len(d)
  <2>1. \A k \in 1 .. n : off[k] <= Len(d) /\ off[k] \in Nat
    <3> TAKE k \in 1 .. n
    <3>1. k \in 0 .. n /\ n \in 0 .. n
      BY <1>0
    <3> QED
      BY <1>4, <1>8, <3>1, LenIsNat
  <2>2. \A k \in 1 .. n : table[k] = Full(ts[k], os[k], off[k])
    BY <1>7, <2>1
  <2>3. table[n].after = end
    <3>1. table[n] = Full(ts[n], os[n], off[n])
      BY <1>0, <2>2
    <3> QED
      BY <1>4, <3>1 DEF Full
  <2> QED
    BY <1>8, <2>1, <2>2, <2>3 DEF table, end, parts
<1>9. CASE ~(end <= Len(d))
  <2>1. Is(n)
    BY <1>0, <1>7
  <2>2. table[n].after = Refused
    BY <1>4, <1>9, <2>1
  <2> QED
    BY <1>9, <2>2 DEF table, end, parts
<1> QED
  BY <1>8, <1>9

-----------------------------------------------------------------------------
(* The search for the table.                                               *)

\* The offsets main.rs looks at.
LEMMA WindowIs ==
  ASSUME NEW best \in Nat
  PROVE  /\ Window(best) \subseteq Nat
         /\ best = 24 \/ best >= 32 => best \in Window(best)
<1> DEFINE S == {best - 32, 0}
           first == Max(S)
<1>1. /\ first \in S /\ first >= best - 32 /\ first >= 0
  <2>1. \E x \in S : \A y \in S : x >= y
    <3>1. CASE best >= 32
      <4>1. best - 32 \in S /\ \A y \in S : best - 32 >= y
        BY <3>1
      <4> QED
        BY <4>1
    <3>2. CASE ~(best >= 32)
      <4>1. 0 \in S /\ \A y \in S : 0 >= y
        BY <3>2
      <4> QED
        BY <4>1
    <3> QED
      BY <3>1, <3>2
  <2>2. first = CHOOSE x \in S : \A y \in S : x >= y
    BY DEF Max
  <2> HIDE DEF first
  <2> QED
    BY <2>1, <2>2
<1> HIDE DEF first
<1>2. first \in Nat /\ (best >= 32 => first = best - 32) /\ (best < 32 => first = 0)
  BY <1>1
<1>3. Window(best) = {c \in first .. best + 31 : (c - first) % 4 = 0}
  BY DEF Window, first
<1>4. Window(best) \subseteq Nat
  BY <1>2, <1>3
<1>5. ASSUME best = 24 \/ best >= 32 PROVE best \in Window(best)
  <2>1. (best - first) % 4 = 0
    BY <1>2, <1>5
  <2>2. best \in first .. best + 31
    BY <1>2
  <2> QED
    BY <1>3, <2>1, <2>2
<1> QED
  BY <1>4, <1>5

\* The name of a tensor as main.rs looks for it.
IsName(name) ==
  /\ name \in Seq(Byte) /\ Len(name) \in NameLength
  /\ \A i \in 1 .. Len(name) : name[i] # 0
  /\ \E mark \in NameMarks : Occurs(mark, name)

\* What bounds the length of a name.
LEMMA SmallIs ==
  /\ \A n : n \in NameLength => n \in Nat /\ n \in Size
  /\ HUGE \in Nat /\ HUGE \notin NameLength
<1>1. \A n : n \in NameLength => n \in Nat /\ n < 256
  BY DEF NameLength
<1> QED
  BY <1>1, ByteIsSize, HugeIs

\* The bytes of a u64, one by one.
LEMMA EightBytes ==
  ASSUME NEW d, NEW c \in Nat
  PROVE  U64(d, c) =
           Above(Above(Above(Above(Above(Above(Above(Above(0, d[c + 8]), d[c + 7]), d[c + 6]),
             d[c + 5]), d[c + 4]), d[c + 3]), d[c + 2]), d[c + 1])
<1>1. (c + 4) + 1 = c + 5 /\ (c + 4) + 2 = c + 6 /\ (c + 4) + 3 = c + 7 /\ (c + 4) + 4 = c + 8
  OBVIOUS
<1> QED
  BY <1>1 DEF U64, Number

\* With its last byte a number is too long for a name.
LEMMA LongIsLarge ==
  ASSUME NEW d \in Seq(Byte), NEW c \in Nat, c + 8 <= Len(d), d[c + 8] # 0
  PROVE  U64(d, c) >= 256
<1> DEFINE b == [i \in 1 .. 8 |-> d[c + i]]
<1>1. /\ b[1] \in Nat /\ b[2] \in Nat /\ b[3] \in Nat /\ b[4] \in Nat
      /\ b[5] \in Nat /\ b[6] \in Nat /\ b[7] \in Nat /\ b[8] \in Nat
  <2>1. \A i \in 1 .. 8 : c + i \in 1 .. Len(d)
    BY LenIsNat
  <2>2. \A i \in 1 .. 8 : d[c + i] \in Byte
    BY <2>1
  <2>3. \A i \in 1 .. 8 : b[i] \in Nat
    BY <2>2, ByteIs
  <2> HIDE DEF b
  <2> QED
    BY <2>3
<1>2. \A n \in Nat \ {0}, x \in Nat : Above(n, x) >= 256 /\ Above(n, x) \in Nat \ {0}
  <2> TAKE n \in Nat \ {0}, x \in Nat
  <2>1. Above(n, x) = IF x + 256 * n < HUGE THEN x + 256 * n ELSE HUGE
    BY AboveIs
  <2>2. x + 256 * n >= 256 /\ x + 256 * n \in Nat
    OBVIOUS
  <2> QED
    BY <2>1, <2>2, HugeIs
<1>3. \A x \in Nat \ {0} : Above(0, x) \in Nat \ {0}
  <2> TAKE x \in Nat \ {0}
  <2>1. Above(0, x) = IF x + 256 * 0 < HUGE THEN x + 256 * 0 ELSE HUGE
    BY AboveIs
  <2> QED
    BY <2>1, HugeIs
<1> DEFINE n8 == Above(0, b[8])
           n7 == Above(n8, b[7])
           n6 == Above(n7, b[6])
           n5 == Above(n6, b[5])
           n4 == Above(n5, b[4])
           n3 == Above(n4, b[3])
           n2 == Above(n3, b[2])
<1>4. U64(d, c) = Above(n2, b[1])
  <2>1. /\ b[1] = d[c + 1] /\ b[2] = d[c + 2] /\ b[3] = d[c + 3] /\ b[4] = d[c + 4]
        /\ b[5] = d[c + 5] /\ b[6] = d[c + 6] /\ b[7] = d[c + 7] /\ b[8] = d[c + 8]
    OBVIOUS
  <2> QED
    BY <2>1, EightBytes
<1>5. b[8] # 0
  OBVIOUS
<1> HIDE DEF b
<1>6. n8 \in Nat \ {0}
  <2>1. b[8] \in Nat \ {0}
    BY <1>1, <1>5
  <2> QED
    BY <1>3, <2>1
<1> HIDE DEF n8
<1>7. n7 \in Nat \ {0}
  BY <1>1, <1>2, <1>6
<1> HIDE DEF n7
<1>8. n6 \in Nat \ {0}
  BY <1>1, <1>2, <1>7
<1> HIDE DEF n6
<1>9. n5 \in Nat \ {0}
  BY <1>1, <1>2, <1>8
<1> HIDE DEF n5
<1>10. n4 \in Nat \ {0}
  BY <1>1, <1>2, <1>9
<1> HIDE DEF n4
<1>11. n3 \in Nat \ {0}
  BY <1>1, <1>2, <1>10
<1> HIDE DEF n3
<1>12. n2 \in Nat \ {0}
  BY <1>1, <1>2, <1>11
<1> HIDE DEF n2
<1> QED
  BY <1>1, <1>2, <1>4, <1>12

\* When an offset looks like the beginning of a name.
LEMMA NameIs ==
  ASSUME NEW name, IsName(name)
  PROVE  name \in Seq(Byte) /\ Len(name) \in NameLength /\ Len(name) \in Nat /\ Len(name) \in Size
<1>1. name \in Seq(Byte) /\ Len(name) \in NameLength
  BY DEF IsName
<1> QED
  BY <1>1, SmallIs

\* A name is found where it begins.
LEMMA NameFound ==
  ASSUME NEW d \in Seq(Byte), NEW at \in Nat, NEW name, IsName(name), Has(d, at, Text(name)),
         at + 8 + Len(name) <= Len(d)
  PROVE  LooksLikeName(d, at)
<1> DEFINE m == Len(name)
           len == Len(d)
<1>1. name \in Seq(Byte) /\ m \in Nat /\ m \in NameLength /\ m \in Size /\ len \in Nat
  BY NameIs, LenIsNat
<1>2. at + 8 <= len /\ at + 8 \in Nat /\ at # Refused /\ at + 8 # Refused
  <2> HIDE DEF m, len
  <2>1. at + 8 + m <= len
    BY DEF m, len
  <2> QED
    BY <1>1, <2>1, RefusedIs
<1>3. U64(d, at) = m /\ Has(d, at + 8, name)
  BY <1>1, <1>2, TextRead
<1>4. Slice(d, at + 8, m) = name
  BY <1>1, <1>2, <1>3, SliceRead
<1>5. Fits(d, at, 8) /\ Fits(d, at + 8, m)
  BY <1>2 DEF Fits
<1> HIDE DEF m
<1> QED
  BY <1>1, <1>3, <1>4, <1>5 DEF LooksLikeName, IsName

\* In a name that is cut, and behind it, there is no other.
LEMMA NothingInName ==
  ASSUME NEW d \in Seq(Byte), NEW at \in Nat, NEW name, IsName(name), Has(d, at, Text(name)),
         ~(at + 8 + Len(name) <= Len(d)), NEW c \in Nat, c > at
  PROVE  ~LooksLikeName(d, c)
<1> SUFFICES ASSUME LooksLikeName(d, c) PROVE FALSE
  OBVIOUS
<1> DEFINE m == Len(name)
           len == Len(d)
           i == c - at
<1>1. name \in Seq(Byte) /\ m \in Nat /\ m \in Size /\ len \in Nat
  BY NameIs, LenIsNat
<1>2. c + 8 <= len /\ U64(d, c) \in NameLength
  BY DEF LooksLikeName, Fits
<1>3. i \in 1 .. m /\ (at + 8) + i = c + 8
  <2> HIDE DEF m, len
  <2>1. ~(at + 8 + m <= len)
    BY DEF m, len
  <2> QED
    BY <1>1, <1>2, <2>1
<1>4. Has(d, at + 8, name)
  BY <1>1, TextRead
<1>5. d[c + 8] = name[i]
  <2>1. (at + 8) + i <= len
    BY <1>2, <1>3
  <2>2. d[(at + 8) + i] = name[i]
    BY <1>3, <1>4, <2>1 DEF Has
  <2> QED
    BY <1>3, <2>2
<1>6. name[i] # 0
  BY <1>3 DEF IsName
<1>7. 8 \in 1 .. 8 /\ d[c + 8] # 0
  BY <1>5, <1>6
<1>8. U64(d, c) >= 256
  BY <1>2, <1>7, LongIsLarge
<1>9. \A u \in NameLength : ~(u >= 256)
  BY DEF NameLength
<1> QED
  BY <1>2, <1>8, <1>9, Zenon

\* In zeros there is none.
LEMMA NothingInZeros ==
  ASSUME NEW d \in Seq(Byte), NEW best \in Nat, \A i \in 1 .. Len(d) : i > best => d[i] = 0,
         NEW c \in Nat, c >= best
  PROVE  ~LooksLikeName(d, c)
<1> SUFFICES ASSUME LooksLikeName(d, c) PROVE FALSE
  OBVIOUS
<1>1. c + 8 <= Len(d) /\ Len(d) \in Nat /\ U64(d, c) \in NameLength
  BY LenIsNat DEF LooksLikeName, Fits
<1>2. ASSUME NEW i \in 1 .. 8 PROVE d[c + i] = 0
  <2>1. c + i \in 1 .. Len(d) /\ c + i > best
    BY <1>1
  <2> QED
    BY <2>1
<1>3. Above(0, 0) = 0
  BY AboveIs, HugeIs
<1>4. U64(d, c) = 0
  BY <1>2, <1>3, EightBytes
<1> QED
  BY <1>1, <1>4 DEF NameLength

\* What is found in a part of a file is found in the file.
LEMMA LooksMonotone ==
  ASSUME NEW d \in Seq(Byte), NEW w \in Seq(Byte), Len(d) <= Len(w),
         \A i \in 1 .. Len(d) : d[i] = w[i],
         NEW c \in Nat, LooksLikeName(d, c)
  PROVE  LooksLikeName(w, c)
<1> DEFINE n == U64(d, c)
           s == Slice(d, c + 8, n)
<1>1. Len(d) \in Nat /\ Len(w) \in Nat /\ c # Refused /\ c + 8 # Refused
  BY LenIsNat, RefusedIs
<1>2. n \in NameLength /\ c + 8 <= Len(d) /\ (c + 8) + n <= Len(d)
  BY DEF LooksLikeName, Fits
<1>3. U64(w, c) = n
  <2>1. \A i \in 1 .. 8 : c + i \in 1 .. Len(d)
    BY <1>1, <1>2
  <2>2. \A i \in 1 .. 8 : d[c + i] = w[c + i]
    BY <2>1
  <2> QED
    BY <2>2, EightBytes
<1> HIDE DEF n
<1>4. c + 8 \in Nat /\ n \in Nat
  BY <1>2, SmallIs
<1>5. s \in Seq(Byte) /\ Len(s) = n /\ \A i \in 1 .. n : s[i] = d[(c + 8) + i]
  BY <1>2, <1>4, SliceOK
<1>6. Has(w, c + 8, s)
  <2>1. \A i \in 1 .. n : (c + 8) + i \in 1 .. Len(d)
    BY <1>1, <1>2, <1>4
  <2> QED
    BY <1>5, <2>1 DEF Has
<1> HIDE DEF s
<1>7. (c + 8) + n <= Len(w) /\ c + 8 <= Len(w)
  BY <1>1, <1>2, <1>4
<1>8. Slice(w, c + 8, n) = s
  BY <1>4, <1>5, <1>6, <1>7, SliceRead
<1>9. \E mark \in NameMarks : Occurs(mark, s)
  BY DEF LooksLikeName, s, n
<1>10. Fits(w, c, 8) /\ Fits(w, c + 8, n)
  BY <1>1, <1>7 DEF Fits
<1> QED
  BY <1>2, <1>3, <1>8, <1>9, <1>10 DEF LooksLikeName

\* The search finds the table where it begins: whatever is missing.
LEMMA TableStartIs ==
  ASSUME NEW d \in Seq(Byte), NEW best \in Nat, best = 24 \/ best >= 32,
         NEW name, IsName(name), Has(d, best, Text(name)),
         \A at \in Window(best) : at < best => ~LooksLikeName(d, at)
  PROVE  TableStart(d, best) = best
<1> DEFINE names == {c \in Window(best) : LooksLikeName(d, c)}
<1>1. TableStart(d, best) = IF names = {} THEN best ELSE Min(names)
  BY DEF TableStart
<1>2. names \subseteq Nat /\ best <= best /\ best \in Window(best) /\ \A c \in names : c >= best
  BY WindowIs
<1>3. CASE best + 8 + Len(name) <= Len(d)
  <2>1. best \in names
    BY <1>2, <1>3, NameFound
  <2>2. \A x \in names : (\A y \in names : x <= y) <=> x = best
    BY <1>2, <2>1
  <2>3. Min(names) = CHOOSE x \in names : \A y \in names : x <= y
    BY DEF Min
  <2> HIDE DEF names
  <2>4. Min(names) \in names /\ \A y \in names : Min(names) <= y
    BY <2>1, <2>2, <2>3
  <2>5. Min(names) = best
    BY <2>2, <2>4
  <2> QED
    BY <1>1, <2>1, <2>5
<1>4. CASE ~(best + 8 + Len(name) <= Len(d))
  <2>1. \A c \in names : c = best
    BY <1>2, <1>4, NothingInName
  <2>2. CASE names = {}
    BY <1>1, <2>2
  <2>3. CASE names # {}
    <3>1. names = {best}
      BY <2>1, <2>3
    <3>2. Min(names) = CHOOSE x \in names : \A y \in names : x <= y
      BY DEF Min
    <3> HIDE DEF names
    <3>3. Min(names) \in names
      BY <1>2, <3>1, <3>2
    <3> QED
      BY <1>1, <2>3, <3>1, <3>3
  <2> QED
    BY <2>2, <2>3
<1> QED
  BY <1>3, <1>4

-----------------------------------------------------------------------------
(* Whole files.                                                            *)

\* Alignment adds, and to a number.
LEMMA AlignUpOK ==
  ASSUME NEW x \in Nat
  PROVE  AlignUp(x) \in Nat /\ x <= AlignUp(x)
<1>1. ALIGN \in Nat \ {0}
  BY SplitAssumption
<1>2. CeilDiv(x, ALIGN) \in Nat /\ x <= CeilDiv(x, ALIGN) * ALIGN
  BY <1>1, Ceiling
<1> DEFINE q == CeilDiv(x, ALIGN)
<1> HIDE DEF q
<1>3. q * ALIGN \in Nat
  BY <1>1, <1>2 DEF q
<1> QED
  BY <1>2, <1>3 DEF AlignUp, q

\* Padding.
LEMMA ZerosOK ==
  ASSUME NEW n \in Nat
  PROVE  Zeros(n) \in Seq(Byte) /\ Len(Zeros(n)) = n
<1>1. 0 \in Byte
  BY ByteIs
<1>2. Zeros(n) \in [1 .. n -> Byte]
  BY <1>1 DEF Zeros
<1> QED
  BY <1>2

\* Four bytes.
LEMMA MagicIs == MAGIC \in Seq(Byte) /\ Len(MAGIC) = 4
<1>1. 71 \in Byte /\ 85 \in Byte /\ 70 \in Byte
  BY ByteIs
<1> QED
  BY <1>1 DEF MAGIC

\* What is where in a file.
LEMMA GgufHas ==
  ASSUME NEW pairs \in Size, NEW metadata \in Seq(Byte), NEW table \in Seq(Seq(Byte)),
         Len(table) \in Size, NEW size \in Nat
  PROVE  LET w == Gguf(pairs, metadata, table, size)
             begin == 24 + Len(metadata)
             end == begin + Len(FlattenSeq(table))
         IN  /\ w \in Seq(Byte) /\ Len(w) = AlignUp(end) + size /\ begin \in Nat /\ end \in Nat
             /\ \A i \in 1 .. Len(w) : i > end => w[i] = 0
             /\ \A d \in Seq(Byte) : Has(d, 0, w) =>
                  /\ Has(d, 0, MAGIC)
                  /\ Has(d, 8, Bytes(Len(table), 8)) /\ Has(d, 16, Bytes(pairs, 8))
                  /\ Has(d, 24, metadata) /\ Has(d, begin, FlattenSeq(table))
<1> DEFINE a == MAGIC
           b == Bytes(3, 4)
           c == Bytes(Len(table), 8)
           e == Bytes(pairs, 8)
           t == FlattenSeq(table)
           h1 == a \o b
           h2 == h1 \o c
           h3 == h2 \o e
           h4 == h3 \o metadata
           header == h4 \o t
           m == Len(metadata)
           k == Len(t)
           begin == 24 + m
           end == begin + k
           pad == AlignUp(end) - end + size
           z == Zeros(pad)
<1>1. 3 \in Nat /\ pairs \in Nat /\ Len(table) \in Nat
  BY SizeNat
<1>2. /\ a \in Seq(Byte) /\ Len(a) = 4 /\ b \in Seq(Byte) /\ Len(b) = 4
      /\ c \in Seq(Byte) /\ Len(c) = 8 /\ e \in Seq(Byte) /\ Len(e) = 8
  BY <1>1, MagicIs, BytesOK
<1>3. t \in Seq(Byte) /\ k \in Nat /\ m \in Nat
  BY Flatten, LenIsNat
<1> HIDE DEF a, b, c, e, t
<1>4. h1 \in Seq(Byte) /\ Len(h1) = 8
  <2>1. a \o b \in Seq(Byte) /\ Len(a \o b) = Len(a) + Len(b)
    BY <1>2, ConcatOK
  <2> QED
    BY <1>2, <2>1
<1> HIDE DEF h1
<1>5. h2 \in Seq(Byte) /\ Len(h2) = 16
  <2>1. h1 \o c \in Seq(Byte) /\ Len(h1 \o c) = Len(h1) + Len(c)
    BY <1>2, <1>4, ConcatOK
  <2> QED
    BY <1>2, <1>4, <2>1
<1> HIDE DEF h2
<1>6. h3 \in Seq(Byte) /\ Len(h3) = 24
  <2>1. h2 \o e \in Seq(Byte) /\ Len(h2 \o e) = Len(h2) + Len(e)
    BY <1>2, <1>5, ConcatOK
  <2> QED
    BY <1>2, <1>5, <2>1
<1> HIDE DEF h3
<1>7. h4 \in Seq(Byte) /\ Len(h4) = begin
  <2>1. h3 \o metadata \in Seq(Byte) /\ Len(h3 \o metadata) = Len(h3) + Len(metadata)
    BY <1>6, ConcatOK
  <2> QED
    BY <1>6, <2>1
<1> HIDE DEF h4
<1>8. begin \in Nat /\ end \in Nat
  BY <1>3
<1>9. header \in Seq(Byte) /\ Len(header) = end
  <2>1. h4 \o t \in Seq(Byte) /\ Len(h4 \o t) = Len(h4) + Len(t)
    BY <1>3, <1>7, ConcatOK
  <2> QED
    BY <1>7, <2>1
<1>10. pad \in Nat /\ end + pad = AlignUp(end) + size
  <2>1. AlignUp(end) \in Nat /\ end <= AlignUp(end)
    BY <1>8, AlignUpOK
  <2> HIDE DEF end
  <2> QED
    BY <1>8, <2>1
<1>11. z \in Seq(Byte) /\ Len(z) = pad
  BY <1>10, ZerosOK
<1>12. Gguf(pairs, metadata, table, size) = header \o z
  <2>1. Gguf(pairs, metadata, table, size)
          = header \o Zeros(AlignUp(Len(header)) - Len(header) + size)
    BY DEF Gguf, header, h4, h3, h2, h1, a, b, c, e, t
  <2> QED
    BY <1>9, <2>1
<1> HIDE DEF header, z, pad, end, begin, m
<1>13. header \o z \in Seq(Byte) /\ Len(header \o z) = AlignUp(end) + size
  <2>1. header \o z \in Seq(Byte) /\ Len(header \o z) = Len(header) + Len(z)
    BY <1>9, <1>11, ConcatOK
  <2> QED
    BY <1>9, <1>10, <1>11, <2>1
<1>14. \A i \in 1 .. Len(header \o z) : i > end => (header \o z)[i] = 0
  <2> TAKE i \in 1 .. Len(header \o z)
  <2> HAVE i > end
  <2>1. i \in Nat /\ i - end \in 1 .. pad
    BY <1>8, <1>10, <1>13
  <2>2. (header \o z)[i] = z[i - end]
    BY <1>9, <1>11, <1>13, <2>1, ConcatProperties
  <2>3. z[i - end] = 0
    BY <1>11, <2>1 DEF z, Zeros
  <2> QED
    BY <2>2, <2>3
<1>15. ASSUME NEW d \in Seq(Byte), Has(d, 0, header \o z)
       PROVE  /\ Has(d, 0, a) /\ Has(d, 8, c) /\ Has(d, 16, e)
              /\ Has(d, 24, metadata) /\ Has(d, begin, t)
  <2>1. Has(d, 0, header)
    BY <1>9, <1>11, <1>15, HasConcat
  <2>2. Has(d, 0, h4) /\ Has(d, begin, t)
    <3>1. Has(d, 0, h4 \o t) /\ 0 + Len(h4) = begin
      BY <1>7, <1>8, <2>1 DEF header
    <3>2. Has(d, 0, h4) /\ Has(d, 0 + Len(h4), t)
      BY <1>3, <1>7, <3>1, HasConcat
    <3> QED
      BY <3>1, <3>2
  <2>3. Has(d, 0, h3) /\ Has(d, 24, metadata)
    <3>1. Has(d, 0, h3 \o metadata) /\ 0 + Len(h3) = 24
      BY <1>6, <2>2 DEF h4
    <3>2. Has(d, 0, h3) /\ Has(d, 0 + Len(h3), metadata)
      BY <1>6, <3>1, HasConcat
    <3> QED
      BY <3>1, <3>2
  <2>4. Has(d, 0, h2) /\ Has(d, 16, e)
    <3>1. Has(d, 0, h2 \o e) /\ 0 + Len(h2) = 16
      BY <1>5, <2>3 DEF h3
    <3>2. Has(d, 0, h2) /\ Has(d, 0 + Len(h2), e)
      BY <1>2, <1>5, <3>1, HasConcat
    <3> QED
      BY <3>1, <3>2
  <2>5. Has(d, 0, h1) /\ Has(d, 8, c)
    <3>1. Has(d, 0, h1 \o c) /\ 0 + Len(h1) = 8
      BY <1>4, <2>4 DEF h2
    <3>2. Has(d, 0, h1) /\ Has(d, 0 + Len(h1), c)
      BY <1>2, <1>4, <3>1, HasConcat
    <3> QED
      BY <3>1, <3>2
  <2>6. Has(d, 0, a)
    <3>1. Has(d, 0, a \o b)
      BY <2>5 DEF h1
    <3> QED
      BY <1>2, <3>1, HasConcat
  <2> QED
    BY <2>2, <2>3, <2>4, <2>5, <2>6
<1> QED
  BY <1>8, <1>12, <1>13, <1>14, <1>15 DEF a, c, e, t, begin, end, m

\* The bytes of each pair of the metadata, and what may be in it.
MetaBytes(ps) == [k \in DOMAIN ps |-> Pair(ps[k])]

IsMeta(ps) ==
  Len(ps) \in Size /\ DOMAIN ps = 1 .. Len(ps) /\ \A k \in DOMAIN ps : IsPair(ps[k])

\* They are a sequence of bytes.
LEMMA MetaOK ==
  ASSUME NEW ps, IsMeta(ps)
  PROVE  LET bytes == FlattenSeq(MetaBytes(ps))
         IN  /\ MetaBytes(ps) \in Seq(Seq(Byte)) /\ bytes \in Seq(Byte) /\ Len(bytes) \in Nat
             /\ 24 + Len(bytes) = 24 \/ 24 + Len(bytes) >= 32
<1> DEFINE n == Len(ps)
           parts == MetaBytes(ps)
           bytes == FlattenSeq(parts)
           m == Len(bytes)
<1>1. n \in Nat /\ DOMAIN ps = 1 .. n /\ \A k \in 1 .. n : IsPair(ps[k])
  BY SizeIs DEF IsMeta
<1>2. \A k \in 1 .. n : parts[k] = Pair(ps[k]) /\ parts[k] \in Seq(Byte) /\ Len(parts[k]) >= 13
  BY <1>1, PairOK DEF MetaBytes
<1>3. parts \in Seq(Seq(Byte)) /\ Len(parts) = n
  <2>1. parts = [k \in 1 .. n |-> parts[k]]
    BY <1>1 DEF MetaBytes
  <2> QED
    BY <1>1, <1>2, <2>1
<1>4. bytes \in Seq(Byte) /\ m \in Nat
  BY <1>3, Flatten, LenIsNat
<1> HIDE DEF n, parts
<1>5. PICK off : Offsets(off, 0, parts)
  BY <1>3, Flatten
<1>6. /\ \A k \in 0 .. n : off[k] \in Nat /\ off[k] <= off[n]
      /\ \A k \in 1 .. n : off[k] = off[k - 1] + Len(parts[k]) /\ Len(parts[k]) \in Nat
      /\ off[0] = 0 /\ off[n] = 0 + m
  BY <1>3, <1>5, OffsetsGrow DEF Offsets
<1>7. m = 0 \/ m >= 13
  <2>1. CASE n = 0
    BY <1>4, <1>6, <2>1
  <2>2. CASE n # 0
    <3>1. 1 \in 1 .. n /\ 1 \in 0 .. n /\ 1 - 1 = 0
      BY <1>1, <2>2
    <3>2. off[1] = off[0] + Len(parts[1]) /\ Len(parts[1]) >= 13 /\ off[1] <= off[n]
      BY <1>2, <1>6, <3>1
    <3>3. Len(parts[1]) \in Nat /\ off[1] \in Nat
      BY <1>6, <3>1
    <3> HIDE DEF m
    <3>4. off[1] >= 13
      BY <1>6, <3>2, <3>3
    <3> QED
      BY <1>4, <1>6, <3>2, <3>3, <3>4
  <2> QED
    BY <2>1, <2>2
<1>8. 24 + m = 24 \/ 24 + m >= 32
  <2> HIDE DEF m
  <2> QED
    BY <1>4, <1>7
<1> QED
  BY <1>3, <1>4, <1>8 DEF parts

\* d is a part of w from its beginning on.
IsPart(d, w) == Len(d) <= Len(w) /\ \A i \in 1 .. Len(d) : d[i] = w[i]

\* The metadata that ps stand for, and the offset after it and after the table.
MetaEnd(ps) == 24 + Len(FlattenSeq(MetaBytes(ps)))
InfoEnd(ps, n, ts, os) == MetaEnd(ps) + Len(FlattenSeq(InfoBytes(n, ts, os)))

\* A file of this metadata and this table, with data of some size.
FileOf(ps, n, ts, os, size) ==
  Gguf(Len(ps), FlattenSeq(MetaBytes(ps)), InfoBytes(n, ts, os), size)

\* Nothing before the table passes for a name.
Plain(w, best) == \A at \in Window(best) : at < best => ~LooksLikeName(w, at)

\* The offsets after metadata and table.
LEMMA EndsAreNat ==
  ASSUME NEW ps, IsMeta(ps), NEW n, NEW ts, NEW os, IsTable(n, ts, os)
  PROVE  /\ MetaEnd(ps) \in Nat /\ InfoEnd(ps, n, ts, os) \in Nat
         /\ 24 <= MetaEnd(ps) /\ MetaEnd(ps) <= InfoEnd(ps, n, ts, os)
<1> DEFINE a == Len(FlattenSeq(MetaBytes(ps)))
           b == Len(FlattenSeq(InfoBytes(n, ts, os)))
<1>1. a \in Nat /\ b \in Nat
  BY MetaOK, InfosOK, Flatten, LenIsNat
<1>2. MetaEnd(ps) = 24 + a /\ InfoEnd(ps, n, ts, os) = (24 + a) + b
  BY DEF MetaEnd, InfoEnd
<1> HIDE DEF a, b
<1> QED
  BY <1>1, <1>2

\* A whole file.
LEMMA FileOfIs ==
  ASSUME NEW ps, IsMeta(ps), NEW n, NEW ts, NEW os, IsTable(n, ts, os), NEW size \in Nat
  PROVE  LET w == FileOf(ps, n, ts, os, size)
         IN  /\ w \in Seq(Byte) /\ Len(w) \in Nat
             /\ Len(w) = AlignUp(InfoEnd(ps, n, ts, os)) + size
             /\ InfoEnd(ps, n, ts, os) <= Len(w)
<1> DEFINE meta == FlattenSeq(MetaBytes(ps))
           infos == InfoBytes(n, ts, os)
           pairs == Len(ps)
           w == FileOf(ps, n, ts, os, size)
           end == InfoEnd(ps, n, ts, os)
<1>1. pairs \in Size /\ meta \in Seq(Byte) /\ infos \in Seq(Seq(Byte)) /\ Len(infos) \in Size
  BY MetaOK, InfosOK DEF IsMeta, IsTable
<1>2. w = Gguf(pairs, meta, infos, size)
  BY DEF FileOf
<1>3. end = (24 + Len(meta)) + Len(FlattenSeq(infos)) /\ end \in Nat
  BY EndsAreNat DEF InfoEnd, MetaEnd
<1> HIDE DEF meta, infos, pairs, w, end
<1>4. w \in Seq(Byte) /\ Len(w) = AlignUp(end) + size
  BY <1>1, <1>2, <1>3, GgufHas
<1>5. AlignUp(end) \in Nat /\ end <= AlignUp(end)
  BY <1>3, AlignUpOK
<1> DEFINE len == Len(w)
           up == AlignUp(end)
<1>6. len \in Nat /\ end <= len
  <2>1. len = up + size /\ up \in Nat /\ end <= up
    BY <1>4, <1>5
  <2> HIDE DEF len, up
  <2> QED
    BY <1>3, <2>1
<1> QED
  BY <1>4, <1>6 DEF w, end

\* What the tool finds in a part of a file that has the numbers of its header.
LEMMA HeaderFound ==
  ASSUME NEW ps, IsMeta(ps), NEW n, NEW ts, NEW os, IsTable(n, ts, os),
         n # 0 => IsName(ts[1].name),
         NEW size \in Nat, NEW d \in Seq(Byte), 24 <= Len(d),
         IsPart(d, FileOf(ps, n, ts, os, size)),
         Plain(FileOf(ps, n, ts, os, size), MetaEnd(ps))
  PROVE  /\ Slice(d, 0, 4) = MAGIC /\ U64(d, 8) = n /\ U64(d, 16) = Len(ps)
         /\ Has(d, 24, FlattenSeq(MetaBytes(ps)))
         /\ Has(d, MetaEnd(ps), FlattenSeq(InfoBytes(n, ts, os)))
         /\ MetadataEnd(d) \in {Refused, MetaEnd(ps)}
         /\ MetaEnd(ps) <= Len(d) => MetadataEnd(d) = MetaEnd(ps)
         /\ TableStart(d, MetaEnd(ps)) = MetaEnd(ps)
<1> DEFINE w == FileOf(ps, n, ts, os, size)
           meta == FlattenSeq(MetaBytes(ps))
           infos == InfoBytes(n, ts, os)
           best == MetaEnd(ps)
<1>1. /\ meta \in Seq(Byte) /\ MetaBytes(ps) \in Seq(Seq(Byte))
      /\ infos \in Seq(Seq(Byte)) /\ Len(infos) = n /\ n \in Nat /\ n \in Size
      /\ Len(ps) \in Size /\ Len(ps) \in Nat /\ Len(d) \in Nat
      /\ FlattenSeq(infos) \in Seq(Byte)
  <2>1. Len(ps) \in Size /\ n \in Size
    BY DEF IsMeta, IsTable
  <2>2. Len(ps) \in Nat /\ Len(d) \in Nat
    BY <2>1, SizeNat, LenIsNat
  <2>3. meta \in Seq(Byte) /\ MetaBytes(ps) \in Seq(Seq(Byte))
    BY MetaOK
  <2>4. infos \in Seq(Seq(Byte)) /\ Len(infos) = n /\ n \in Nat
    BY InfosOK
  <2>5. FlattenSeq(infos) \in Seq(Byte)
    BY <2>4, Flatten
  <2> QED
    BY <2>1, <2>2, <2>3, <2>4, <2>5
<1>2. best \in Nat /\ (best = 24 \/ best >= 32) /\ best = 24 + Len(meta)
  BY EndsAreNat, MetaOK DEF MetaEnd
<1>3. w = Gguf(Len(ps), meta, infos, size)
  BY DEF FileOf
<1> HIDE DEF w, meta, infos, best
<1>4. /\ w \in Seq(Byte)
      /\ \A i \in 1 .. Len(w) : i > best + Len(FlattenSeq(infos)) => w[i] = 0
      /\ Has(d, 0, w) => /\ Has(d, 0, MAGIC)
                         /\ Has(d, 8, Bytes(n, 8)) /\ Has(d, 16, Bytes(Len(ps), 8))
                         /\ Has(d, 24, meta) /\ Has(d, best, FlattenSeq(infos))
  BY <1>1, <1>2, <1>3, GgufHas
<1>5. Has(d, 0, w)
  <2>1. Len(w) \in Nat
    BY <1>4, LenIsNat
  <2>2. \A i \in 1 .. Len(d) : d[i] = w[i]
    BY DEF IsPart, w
  <2>3. \A i \in 1 .. Len(w) : 0 + i <= Len(d) => i \in 1 .. Len(d) /\ 0 + i = i
    BY <1>1, <2>1
  <2> QED
    BY <2>2, <2>3 DEF Has
<1>6. Slice(d, 0, 4) = MAGIC
  <2>1. 0 \in Nat /\ 0 + Len(MAGIC) <= Len(d) /\ Len(MAGIC) = 4
    BY <1>1, MagicIs
  <2> QED
    BY <1>4, <1>5, <2>1, MagicIs, SliceRead
<1>7. U64(d, 8) = n /\ U64(d, 16) = Len(ps)
  <2>1. 8 \in Nat /\ 16 \in Nat /\ 8 + 8 <= Len(d) /\ 16 + 8 <= Len(d)
    BY <1>1
  <2>2. U64(d, 8) = n
    BY <1>1, <1>4, <1>5, <2>1, NumberRead
  <2>3. U64(d, 16) = Len(ps)
    BY <1>1, <1>4, <1>5, <2>1, NumberRead
  <2> QED
    BY <2>2, <2>3 DEF U64
<1>8. Skipped(d, 24, meta, MetadataEnd(d), TRUE)
  <2>1. /\ DOMAIN ps = 1 .. Len(ps) /\ \A k \in DOMAIN ps : IsPair(ps[k])
    BY DEF IsMeta
  <2>2. MetaBytes(ps) = [k \in DOMAIN ps |-> Pair(ps[k])]
    BY DEF MetaBytes
  <2>3. Has(d, 24, FlattenSeq(MetaBytes(ps)))
    BY <1>4, <1>5 DEF meta
  <2>4. Skipped(d, 24, FlattenSeq(MetaBytes(ps)), MetadataEnd(d), TRUE)
    BY <1>1, <1>7, <2>1, <2>2, <2>3, MetadataRead
  <2> QED
    BY <2>4 DEF meta
<1>9. MetadataEnd(d) \in {Refused, best} /\ (best <= Len(d) => MetadataEnd(d) = best)
  BY <1>2, <1>8 DEF Skipped
<1>10. ASSUME NEW at \in Window(best), at < best PROVE ~LooksLikeName(d, at)
  <2>1. at \in Nat
    BY <1>2, WindowIs
  <2>2. ~LooksLikeName(w, at)
    BY <1>10 DEF Plain, w, best
  <2>3. Len(d) <= Len(w) /\ \A i \in 1 .. Len(d) : d[i] = w[i]
    BY DEF IsPart, w
  <2> QED
    BY <1>4, <2>1, <2>2, <2>3, LooksMonotone
<1>11. ASSUME n # 0 PROVE TableStart(d, best) = best
  <2>1. 1 \in 1 .. n
    BY <1>1, <1>11
  <2>2. IsInfo(ts[1]) /\ os[1] \in Size /\ infos[1] = TensorInfo(ts[1], os[1])
    BY <2>1 DEF IsTable, infos, InfoBytes
  <2>3. PICK off : /\ Offsets(off, best, infos)
                   /\ \A k \in 1 .. Len(infos) : Has(d, off[k - 1], infos[k])
    BY <1>1, <1>2, <1>4, <1>5, Flatten
  <2>4. off[0] = best /\ 1 - 1 = 0
    BY <2>3 DEF Offsets
  <2>5. Has(d, best, TensorInfo(ts[1], os[1]))
    BY <1>1, <2>1, <2>2, <2>3, <2>4
  <2>6. Has(d, best, Text(ts[1].name))
    BY <1>2, <2>2, <2>5, InfoHas
  <2> QED
    BY <1>2, <1>10, <1>11, <2>6, TableStartIs
<1>12. ASSUME n = 0 PROVE TableStart(d, best) = best
  <2>1. Len(infos) = 0
    BY <1>1, <1>12
  <2>2. Len(FlattenSeq(infos)) = 0
    BY <1>1, <2>1, FlattenEmpty
  <2>3. ASSUME NEW at \in Window(best), at >= best PROVE ~LooksLikeName(d, at)
    <3>1. at \in Nat
      BY <1>2, WindowIs
    <3>2. \A i \in 1 .. Len(d) : i > best => d[i] = 0
      <4> TAKE i \in 1 .. Len(d)
      <4>1. Len(d) <= Len(w) /\ d[i] = w[i] /\ Len(w) \in Nat
        BY <1>4, LenIsNat DEF IsPart, w
      <4>2. i \in 1 .. Len(w)
        BY <1>1, <4>1
      <4> QED
        BY <1>2, <1>4, <2>2, <4>1, <4>2
    <3> QED
      BY <1>2, <2>3, <3>1, <3>2, NothingInZeros
  <2>4. \A at \in Window(best) : ~LooksLikeName(d, at)
    <3> TAKE at \in Window(best)
    <3>1. at \in Nat
      BY <1>2, WindowIs
    <3> QED
      BY <1>2, <1>10, <2>3, <3>1
  <2> QED
    BY <2>4 DEF TableStart
<1> QED
  BY <1>4, <1>5, <1>6, <1>7, <1>9, <1>11, <1>12 DEF meta, infos, best

\* A part of a file is read as what was written, or refused if a part of its header
\* is missing.
LEMMA ReadBack ==
  ASSUME NEW ps, IsMeta(ps), NEW n, NEW ts, NEW os, IsTable(n, ts, os),
         n # 0 => IsName(ts[1].name), NEW size \in Nat, NEW d \in Seq(Byte),
         n # 0 \/ InfoEnd(ps, n, ts, os) <= Len(d),
         IsPart(d, FileOf(ps, n, ts, os, size)),
         Plain(FileOf(ps, n, ts, os, size), MetaEnd(ps))
  PROVE  Read(d) = IF InfoEnd(ps, n, ts, os) <= Len(d)
                     THEN [layer |-> [k \in 1 .. n |-> LayerOf(ts[k].name)],
                           offset |-> [k \in 1 .. n |-> os[k]],
                           end |-> Len(d) - AlignUp(InfoEnd(ps, n, ts, os))]
                     ELSE Unreadable
<1> DEFINE best == MetaEnd(ps)
           end == InfoEnd(ps, n, ts, os)
           infos == InfoBytes(n, ts, os)
<1>1. best \in Nat /\ end \in Nat /\ 24 <= best /\ best <= end /\ Len(d) \in Nat
      /\ n \in Nat /\ infos \in Seq(Seq(Byte)) /\ end = best + Len(FlattenSeq(infos))
  BY EndsAreNat, LenIsNat, InfosOK DEF InfoEnd
<1> HIDE DEF best, end, infos
<1>2. CASE ~(24 <= Len(d))
  <2>1. ~Fits(d, 0, 24)
    BY <1>1, <1>2 DEF Fits
  <2>2. Read(d) = Unreadable
    BY <2>1 DEF Read
  <2>3. ~(end <= Len(d))
    BY <1>1, <1>2
  <2> QED
    BY <2>2, <2>3 DEF end
<1>3. CASE 24 <= Len(d)
  <2>1. /\ Slice(d, 0, 4) = MAGIC /\ U64(d, 8) = n /\ Has(d, best, FlattenSeq(infos))
        /\ MetadataEnd(d) \in {Refused, best} /\ (best <= Len(d) => MetadataEnd(d) = best)
        /\ TableStart(d, best) = best
    BY <1>3, HeaderFound DEF best, infos
  <2>2. Fits(d, 0, 24)
    BY <1>1, <1>3, RefusedIs DEF Fits
  <2> DEFINE table == Table(d, best)
  <2>3. n # 0 => IF end <= Len(d)
                  THEN /\ table[n].after = end
                       /\ \A k \in 1 .. n : \E after \in Nat : table[k] = Full(ts[k], os[k], after)
                  ELSE table[n].after = Refused
    <3>1. n # 0 => IF best + Len(FlattenSeq(infos)) <= Len(d)
                     THEN /\ table[n].after = best + Len(FlattenSeq(infos))
                          /\ \A k \in 1 .. n : \E after \in Nat : table[k] = Full(ts[k], os[k], after)
                     ELSE table[n].after = Refused
      BY <1>1, <2>1, TableRead DEF infos
    <3> HIDE DEF table
    <3> QED
      BY <1>1, <3>1
  <2>4. CASE MetadataEnd(d) = Refused
    <3>1. Read(d) = Unreadable
      BY <2>4 DEF Read
    <3>2. ~(end <= Len(d))
      BY <1>1, <2>1, <2>4, RefusedIs
    <3> QED
      BY <3>1, <3>2 DEF end
  <2>5. CASE MetadataEnd(d) = best
    <3> DEFINE last == IF n = 0 THEN best ELSE table[n].after
    <3>1. Read(d) = IF last # Refused
                      THEN [layer |-> [k \in 1 .. n |-> LayerOf(table[k].name)],
                            offset |-> [k \in 1 .. n |-> table[k].offset],
                            end |-> Len(d) - AlignUp(last)]
                      ELSE Unreadable
      <4>1. best # Refused
        BY <1>1, RefusedIs
      <4> QED
        BY <2>1, <2>2, <2>5, <4>1 DEF Read
    <3> HIDE DEF table
    <3>2. CASE end <= Len(d)
      <4>1. last = end /\ end # Refused
        <5>1. n = 0 => best = end
          <6>1. n = 0 => Len(infos) = 0
            BY InfosOK DEF infos
          <6>2. n = 0 => Len(FlattenSeq(infos)) = 0
            BY <1>1, <6>1, FlattenEmpty
          <6> QED
            BY <1>1, <6>2
        <5> QED
          BY <1>1, <2>3, <3>2, <5>1, RefusedIs
      <4>2. \A k \in 1 .. n : table[k].name = ts[k].name /\ table[k].offset = os[k]
        <5> TAKE k \in 1 .. n
        <5>1. n # 0
          BY <1>1
        <5>2. \E after \in Nat : table[k] = Full(ts[k], os[k], after)
          BY <2>3, <3>2, <5>1
        <5> QED
          BY <5>2 DEF Full
      <4> HIDE DEF last
      <4> QED
        BY <3>1, <3>2, <4>1, <4>2 DEF end
    <3>3. CASE ~(end <= Len(d))
      BY <2>3, <3>1, <3>3 DEF end
    <3> QED
      BY <3>2, <3>3
  <2> QED
    BY <2>1, <2>4, <2>5
<1> QED
  BY <1>2, <1>3

\* The characters of a name.
LEMMA AsciiIs == \A b \in Ascii : b \in Byte /\ b # 0 /\ b < 128
  BY SMT DEF Ascii, Byte

\* A file as the lemmas describe it.
OffsetsOf(g) == [k \in 1 .. Len(g.tensors) |-> g.tensors[k].offset]

\* What IsGguf says, in the terms of the lemmas.
LEMMA GgufIs ==
  ASSUME NEW g, IsGguf(g)
  PROVE  /\ IsMeta(g.metadata) /\ IsTable(Len(g.tensors), g.tensors, OffsetsOf(g))
         /\ Len(g.tensors) # 0 /\ g.size \in Nat
         /\ DOMAIN g.tensors = 1 .. Len(g.tensors)
         /\ \A k \in 1 .. Len(g.tensors) :
              /\ g.tensors[k].layer = LayerOf(g.tensors[k].name)
              /\ IsName(g.tensors[k].name)
         /\ Written(g) = FileOf(g.metadata, Len(g.tensors), g.tensors, OffsetsOf(g), g.size)
         /\ TableBegin(g) = MetaEnd(g.metadata)
         /\ TableEnd(g) = InfoEnd(g.metadata, Len(g.tensors), g.tensors, OffsetsOf(g))
<1> DEFINE ps == g.metadata
           ts == g.tensors
           n == Len(ts)
           P == [key : Seq(Byte), value : Values]
           T == [layer : Nat \cup {NoLayer}, name : Seq(Ascii), dims : Seq(Size),
                 type : Size32, offset : Size]
<1>1. /\ Len(ps) \in Size /\ ps \in Seq(P)
      /\ \A k \in DOMAIN ps : Len(ps[k].key) \in Size
  BY DEF IsGguf
<1>2. IsMeta(ps)
  <2> HIDE DEF P
  <2>1. DOMAIN ps = 1 .. Len(ps) /\ \A k \in 1 .. Len(ps) : ps[k] \in P
    BY <1>1
  <2> QED
    BY <1>1, <2>1 DEF IsMeta, IsPair, P
<1>3. /\ n \in Size /\ ts # <<>> /\ ts \in Seq(T)
      /\ \A k \in DOMAIN ts : /\ ts[k].layer = LayerOf(ts[k].name)
                              /\ Len(ts[k].name) \in NameLength /\ Len(ts[k].dims) \in Size32
                              /\ \E mark \in NameMarks : Occurs(mark, ts[k].name)
      /\ g.size \in Nat
  <2> HIDE DEF T
  <2>1. n \in Size /\ ts # <<>> /\ g.size \in Nat
    BY DEF IsGguf
  <2>2. ts \in Seq(T)
    BY DEF IsGguf, T
  <2>3. \A k \in DOMAIN ts : /\ ts[k].layer = LayerOf(ts[k].name)
                             /\ Len(ts[k].name) \in NameLength /\ Len(ts[k].dims) \in Size32
                             /\ \E mark \in NameMarks : Occurs(mark, ts[k].name)
    BY DEF IsGguf
  <2> QED
    BY <2>1, <2>2, <2>3
<1> HIDE DEF P, T, ts
<1>4. n \in Nat /\ n # 0 /\ DOMAIN ts = 1 .. n /\ \A k \in 1 .. n : ts[k] \in T
  BY <1>3, EmptySeq
<1>5. ASSUME NEW k \in 1 .. n
      PROVE  /\ ts[k].name \in Seq(Byte) /\ Len(ts[k].name) \in Size /\ IsText(ts[k].name)
             /\ \A i \in 1 .. Len(ts[k].name) : ts[k].name[i] # 0
             /\ IsInfo(ts[k]) /\ ts[k].offset \in Size
  <2>1. ts[k].name \in Seq(Ascii) /\ ts[k].dims \in Seq(Size) /\ ts[k].type \in Size32 /\ ts[k].offset \in Size
    BY <1>4 DEF T
  <2> DEFINE name == ts[k].name
             m == Len(name)
  <2>2. m \in Size /\ m \in Nat /\ Len(ts[k].dims) \in Size32
    BY <1>3, <1>4, SmallIs
  <2>3. name = [i \in 1 .. m |-> name[i]] /\ DOMAIN name = 1 .. m /\ \A i \in 1 .. m : name[i] \in Ascii
    BY <2>1
  <2>4. \A i \in 1 .. m : name[i] \in Byte /\ name[i] # 0 /\ name[i] < 128
    BY <2>3, AsciiIs
  <2>5. name \in Seq(Byte)
    BY <2>2, <2>3, <2>4
  <2>6. IsText(name)
    BY <2>3, <2>4 DEF IsText
  <2> QED
    BY <2>1, <2>2, <2>4, <2>5, <2>6 DEF IsInfo
<1>6. IsTable(n, ts, OffsetsOf(g))
  <2>1. \A k \in 1 .. n : OffsetsOf(g)[k] = ts[k].offset
    BY DEF OffsetsOf, ts
  <2> QED
    BY <1>3, <1>4, <1>5, <2>1 DEF IsTable
<1>7. \A k \in 1 .. n : IsName(ts[k].name)
  BY <1>3, <1>4, <1>5 DEF IsName
<1>8. Metadata(g) = MetaBytes(ps)
  BY DEF Metadata, MetaBytes
<1>9. TableOf(g) = InfoBytes(n, ts, OffsetsOf(g))
  <2>1. \A k \in 1 .. n : OffsetsOf(g)[k] = ts[k].offset
    BY DEF OffsetsOf, ts
  <2>2. TableOf(g) = [k \in 1 .. n |-> TensorInfo(ts[k], ts[k].offset)]
    BY <1>4 DEF TableOf, ts
  <2> QED
    BY <2>1, <2>2 DEF InfoBytes
<1>10. Written(g) = FileOf(ps, n, ts, OffsetsOf(g), g.size)
  BY <1>8, <1>9 DEF Written, FileOf
<1>11. TableBegin(g) = MetaEnd(ps) /\ TableEnd(g) = InfoEnd(ps, n, ts, OffsetsOf(g))
  BY <1>8, <1>9 DEF TableBegin, TableEnd, MetaEnd, InfoEnd
<1>12. \A k \in 1 .. n : ts[k].layer = LayerOf(ts[k].name)
  BY <1>3, <1>4
<1> QED
  BY <1>2, <1>3, <1>4, <1>6, <1>7, <1>10, <1>11, <1>12 DEF ts

\* What is present of a file is a part of it.
LEMMA PresentIs ==
  ASSUME NEW f \in Files
  PROVE  Present(f) \in Seq(Byte) /\ IsPart(Present(f), Written(f.gguf))
<1> DEFINE g == f.gguf
           w == Written(g)
           n == Len(w) - f.cut
<1>1. IsGguf(g) /\ f.cut \in 0 .. Len(w)
  BY FileAssumption
<1>2. w \in Seq(Byte)
  <2>1. /\ IsMeta(g.metadata) /\ IsTable(Len(g.tensors), g.tensors, OffsetsOf(g)) /\ g.size \in Nat
        /\ w = FileOf(g.metadata, Len(g.tensors), g.tensors, OffsetsOf(g), g.size)
    BY <1>1, GgufIs
  <2> QED
    BY <2>1, FileOfIs
<1> HIDE DEF w
<1>3. Len(w) \in Nat /\ n \in Nat /\ n <= Len(w)
  BY <1>1, <1>2, LenIsNat
<1> HIDE DEF n
<1>4. Present(f) = SubSeq(w, 1, n)
  BY DEF Present, w, n
<1>5. \A i \in 1 .. n : w[i] \in Byte
  <2>1. \A i \in 1 .. n : i \in 1 .. Len(w)
    BY <1>3
  <2> QED
    BY <1>2, <2>1
<1>6. /\ Present(f) \in Seq(Byte)
      /\ Len(Present(f)) = IF 1 <= n THEN n - 1 + 1 ELSE 0
      /\ \A i \in 1 .. n - 1 + 1 : Present(f)[i] = w[1 + i - 1]
  BY <1>3, <1>4, <1>5, SubSeqProperties
<1>7. n - 1 + 1 = n /\ (IF 1 <= n THEN n ELSE 0) = n /\ \A i \in 1 .. n : 1 + i - 1 = i
  BY <1>3
<1>8. Len(Present(f)) = n /\ \A i \in 1 .. n : Present(f)[i] = w[i]
  BY <1>6, <1>7
<1> QED
  BY <1>3, <1>6, <1>8 DEF IsPart, w

\* The tool reads what the file holds.
LEMMA ContentsHeld ==
  ASSUME NEW f \in Files, ~Ambiguous(f.gguf)
  PROVE  Contents(f) = Held(f)
<1> DEFINE g == f.gguf
           n == Len(g.tensors)
           d == Present(f)
           os == OffsetsOf(g)
<1>1. IsGguf(g)
  BY FileAssumption
<1>2. /\ IsMeta(g.metadata) /\ IsTable(n, g.tensors, os) /\ n # 0
      /\ g.size \in Nat /\ DOMAIN g.tensors = 1 .. n
      /\ \A k \in 1 .. n : g.tensors[k].layer = LayerOf(g.tensors[k].name)
      /\ Written(g) = FileOf(g.metadata, n, g.tensors, os, g.size)
      /\ TableBegin(g) = MetaEnd(g.metadata)
      /\ TableEnd(g) = InfoEnd(g.metadata, n, g.tensors, os)
  BY <1>1, GgufIs
<1>3. /\ d \in Seq(Byte) /\ IsPart(d, FileOf(g.metadata, n, g.tensors, os, g.size))
      /\ IsName(g.tensors[1].name)
  <2>1. n \in Nat /\ \A k \in 1 .. n : IsName(g.tensors[k].name)
    BY <1>1, <1>2, GgufIs, SizeNat DEF IsTable
  <2> QED
    BY <1>2, <2>1, PresentIs
<1>4. Plain(FileOf(g.metadata, n, g.tensors, os, g.size), MetaEnd(g.metadata))
  BY <1>2 DEF Ambiguous, Plain
<1>5. Read(d) = IF TableEnd(g) <= Len(d)
                  THEN [layer |-> [k \in 1 .. n |-> LayerOf(g.tensors[k].name)],
                        offset |-> [k \in 1 .. n |-> os[k]],
                        end |-> Len(d) - AlignUp(TableEnd(g))]
                  ELSE Unreadable
  <2> HIDE DEF d, n, os
  <2> QED
    BY <1>2, <1>3, <1>4, ReadBack
<1>6. /\ [k \in 1 .. n |-> LayerOf(g.tensors[k].name)] = [k \in DOMAIN g.tensors |-> g.tensors[k].layer]
      /\ [k \in 1 .. n |-> os[k]] = [k \in DOMAIN g.tensors |-> g.tensors[k].offset]
  BY <1>2 DEF OffsetsOf
<1>7. Held(f) = IF Len(d) < TableEnd(g)
                  THEN Unreadable
                  ELSE [layer |-> [k \in 1 .. n |-> LayerOf(g.tensors[k].name)],
                        offset |-> [k \in 1 .. n |-> os[k]],
                        end |-> Len(d) - AlignUp(TableEnd(g))]
  BY <1>6 DEF Held
<1>8. Len(d) < TableEnd(g) <=> ~(TableEnd(g) <= Len(d))
  BY <1>2, <1>3, EndsAreNat, LenIsNat
<1> HIDE DEF d, n, os
<1> QED
  BY <1>5, <1>7, <1>8 DEF Contents, d

-----------------------------------------------------------------------------
(* Shards.                                                                 *)

\* A file whose header was written has the table of its plan.  The length of each is
\* a number.
LaidOut ==
  \A i \in DOMAIN files :
    /\ files[i].length \in Nat
    /\ files[i].header =>
         files[i].table = NewOffsets(files[i].model,
                                     ShardTensors(files[i].model, files[i].perShard, i))

\* It goes on with SplitInv: write_shard writes the table once, and appends.
LEMMA LaidOutStep ==
  ASSUME SplitInv, LaidOut, [SplitNext]_splitVars PROVE LaidOut'
<1>1. CASE Create
  <2>1. files' = Put(files, shard, File(model, perShard))
    BY <1>1 DEF Create
  <2>2. /\ DOMAIN files' = DOMAIN files \cup {shard}
        /\ files'[shard].length = 0 /\ ~files'[shard].header
        /\ \A i \in DOMAIN files \ {shard} : files'[i] = files[i]
    BY <2>1 DEF Put, File
  <2> QED
    BY <2>2 DEF LaidOut
<1>2. CASE WriteTable
  <2> DEFINE old == files[shard]
             table == NewOffsets(model, Tens)
             f == [old EXCEPT !.header = TRUE, !.table = table]
  <2>1. /\ pc = "table" /\ files' = [files EXCEPT ![shard] = f]
    BY <1>2 DEF WriteTable
  <2>2. /\ shard \in DOMAIN files /\ IsFile(old) /\ old.model = model /\ old.perShard = perShard
        /\ old.length \in Nat
    BY <2>1 DEF CreatedOK, DirectoryOK, Exists, SplitInv, LaidOut
  <2> HIDE DEF old, table
  <2>3. f.model = model /\ f.perShard = perShard /\ f.table = table /\ f.length \in Nat
    BY <2>2 DEF IsFile
  <2> HIDE DEF f
  <2>4. /\ DOMAIN files' = DOMAIN files /\ files'[shard] = f
        /\ \A i \in DOMAIN files \ {shard} : files'[i] = files[i]
    BY <2>1, <2>2
  <2> QED
    BY <2>2, <2>3, <2>4 DEF LaidOut, table, Tens
<1>3. CASE WriteData
  <2> DEFINE t == Order[next]
             size == DataSize(model, t)
             old == files[shard]
             f == [old EXCEPT !.at = Put(@, t, old.length), !.length = @ + size]
  <2>1. /\ pc = "data" /\ files' = [files EXCEPT ![shard] = f] /\ size >= 0
        /\ next \in 1 .. Len(Order)
    BY <1>3 DEF WriteData, DataPresent
  <2>2. /\ shard \in DOMAIN files /\ IsFile(old) /\ old.length \in Nat
    BY <2>1 DEF CreatedOK, DirectoryOK, Exists, SplitInv, LaidOut
  <2>3. size \in Int
    <3>1. t \in Tensor(model) /\ model \in Models
      BY <2>1, TensOK DEF Splitting, PartOf
    <3> QED
      BY <3>1, GapAligned
  <2> HIDE DEF old, t, size
  <2>4. /\ f.model = old.model /\ f.perShard = old.perShard /\ f.table = old.table
        /\ f.header = old.header /\ f.length = old.length + size
    <3> DEFINE at == Put(old.at, t, old.length)
               length == old.length + size
    <3>1. f = [old EXCEPT !.at = at, !.length = length]
      BY <2>2 DEF IsFile
    <3> HIDE DEF f, at, length
    <3>2. /\ f.model = old.model /\ f.perShard = old.perShard /\ f.table = old.table
          /\ f.header = old.header /\ f.length = length
      BY <2>2, <3>1 DEF IsFile
    <3> QED
      BY <3>2 DEF length
  <2> HIDE DEF f
  <2>5. /\ DOMAIN files' = DOMAIN files /\ files'[shard] = f
        /\ \A i \in DOMAIN files \ {shard} : files'[i] = files[i]
    BY <2>1, <2>2
  <2>6. f.length \in Nat
    BY <2>1, <2>2, <2>3, <2>4
  <2> QED
    BY <2>2, <2>4, <2>5, <2>6 DEF LaidOut, old
<1>4. CASE UNCHANGED files
  BY <1>4 DEF LaidOut
<1>5. \/ Create \/ WriteTable \/ WriteData \/ UNCHANGED files
  BY DEF SplitNext, RunStep, Rerun, RunOn, WritePlan, CheckExists, NextShard, Abort, splitVars
<1> QED
  BY <1>1, <1>2, <1>3, <1>4, <1>5

\* The table of a shard has every tensor of the shard once.
LEMMA TableOrderSorts ==
  ASSUME NEW T, PartOf(T, model)
  PROVE  LET n == Cardinality(T)
             order == TableOrder(T)
         IN  /\ n \in Nat /\ DOMAIN order = 1 .. n
             /\ \A k \in 1 .. n : order[k] \in T
             /\ \A t \in T : \E k \in 1 .. n : order[k] = t
<1> DEFINE n == Cardinality(T)
           order == TableOrder(T)
           B == [t \in T |-> Earlier(T, t)]
<1>1. IsFiniteSet(T) /\ n \in Nat
  BY TensorsFinite
<1>2. \A t \in T : t \in Nat /\ Rank(t) \in Nat
  <2> TAKE t \in T
  <2>1. model \in Models /\ model.layer \in Seq(Nat \cup {NoLayer}) /\ t \in DOMAIN model.layer
    BY SplitAssumption DEF PartOf, Tensor
  <2>2. t \in Nat /\ model.layer[t] \in Nat \cup {NoLayer}
    BY <2>1
  <2>3. CountLayers(model) \in Nat
    BY <2>1, LayersCounted
  <2> QED
    BY <2>2, <2>3 DEF Rank
<1>3. \A t, u \in T : t \in B[u] <=> Rank(t) < Rank(u) \/ (Rank(t) = Rank(u) /\ t < u)
  BY DEF Earlier
<1>4. \A t \in T : B[t] \subseteq T
  BY DEF Earlier
<1>5. \A k \in 1 .. n, t \in T :
        Cardinality(B[t]) = k - 1 => order[k] \in T /\ Cardinality(B[order[k]]) = k - 1
  <2> TAKE k \in 1 .. n, t \in T
  <2> HAVE Cardinality(B[t]) = k - 1
  <2>1. order[k] = CHOOSE u \in T : Cardinality(Earlier(T, u)) = k - 1
    BY DEF TableOrder
  <2>2. Cardinality(Earlier(T, t)) = k - 1
    OBVIOUS
  <2>3. order[k] \in T /\ Cardinality(Earlier(T, order[k])) = k - 1
    BY <2>1, <2>2
  <2> QED
    BY <2>3
<1>6. DOMAIN order = 1 .. n
  BY DEF TableOrder
<1> HIDE DEF B, order
<1>7. /\ \A t \in T : t \notin B[t]
      /\ \A t, u \in T : t # u => t \in B[u] \/ u \in B[t]
  BY <1>2, <1>3
<1>8. \A t, u \in T : t \in B[u] => B[t] \subseteq B[u]
  <2> SUFFICES ASSUME NEW t \in T, NEW u \in T, t \in B[u], NEW v \in B[t] PROVE v \in B[u]
    OBVIOUS
  <2>1. v \in T
    BY <1>4
  <2> QED
    BY <1>2, <1>3, <2>1
<1>9. /\ \A k \in 1 .. n : order[k] \in T
      /\ \A t \in T : \E k \in 1 .. n : order[k] = t
  BY <1>1, <1>4, <1>5, <1>7, <1>8, RanksSort
<1> QED
  BY <1>1, <1>6, <1>9 DEF order

\* The data of a tensor ends before another one that is stored behind it begins.
LEMMA DataInGap ==
  ASSUME NEW m \in Models, NEW t \in Tensor(m), NEW u \in Tensor(m), m.offset[t] < m.offset[u]
  PROVE  DataSize(m, t) \in 0 .. m.offset[u] - m.offset[t]
<1> DEFINE after == {v \in Tensor(m) : m.offset[v] > m.offset[t]}
           later == {m.offset[v] : v \in after}
<1>1. m.offset \in [Tensor(m) -> Nat]
  BY SplitAssumption
<1>2. u \in after /\ m.offset[u] \in later /\ later \subseteq Nat
  BY <1>1
<1>3. \A x \in later : m.offset[t] < x
  BY <1>1
<1>4. DataSize(m, t) = Min(later) - m.offset[t]
  BY <1>2 DEF DataSize
<1> HIDE DEF later
<1>5. \E x \in later : \A y \in later : x <= y
  BY <1>2, LeastElement
<1>6. Min(later) \in later /\ \A y \in later : Min(later) <= y
  BY <1>5 DEF Min
<1>7. m.offset[t] \in Nat /\ m.offset[u] \in Nat
  BY <1>1
<1> DEFINE x == Min(later)
           a == m.offset[t]
           b == m.offset[u]
<1>8. x \in Nat /\ a < x /\ x <= b
  BY <1>2, <1>3, <1>6
<1> HIDE DEF x, a, b
<1>9. x - a \in 0 .. b - a
  <2>1. a \in Nat /\ b \in Nat
    BY <1>7 DEF a, b
  <2> QED
    BY <1>8, <2>1
<1> QED
  BY <1>4, <1>9 DEF x, a, b

\* A tensor is nowhere stored further back in a shard than in the file.
LEMMA OffsetsShrink ==
  ASSUME NEW m, NEW T, PartOf(T, m)
  PROVE  \A t \in T : NewOffsets(m, T)[t] \in 0 .. m.offset[t]
<1> DEFINE order == InFileOrder(m, T)
           table == NewOffsets(m, T)
           n == Len(order)
<1>1. /\ n \in Nat
      /\ \A k \in 1 .. n : order[k] \in T
      /\ \A t \in T : \E k \in 1 .. n : order[k] = t
      /\ \A j, k \in 1 .. n : j < k => m.offset[order[j]] < m.offset[order[k]]
  BY OrderSorts
<1>2. /\ n >= 1 => table[order[1]] = 0
      /\ \A k \in 1 .. n - 1 : table[order[k + 1]] = table[order[k]] + DataSize(m, order[k])
  BY OffsetsLeaveNoGaps
<1>3. \A t \in T : m.offset[t] \in Nat /\ t \in Tensor(m) /\ m \in Models
  BY TensorsFinite DEF PartOf
<1> HIDE DEF order, table, n
<1> DEFINE Is(k) == table[order[k]] \in 0 .. m.offset[order[k]]
           S == {j \in 0 .. n : j = 0 \/ Is(j)}
<1>4. ASSUME NEW i \in 1 .. n, i - 1 \in S PROVE Is(i)
  <2>1. CASE i = 1
    <3>1. table[order[i]] = 0 /\ m.offset[order[i]] \in Nat
      BY <1>1, <1>2, <1>3, <2>1
    <3> QED
      BY <3>1
  <2>2. CASE i # 1
    <3> DEFINE j == i - 1
    <3>1. j \in 1 .. n - 1 /\ j \in 1 .. n /\ j + 1 = i /\ j < i /\ j # 0
      BY <1>1, <2>2
    <3>2. Is(j)
      BY <1>4, <3>1
    <3> HIDE DEF j
    <3>3. order[j] \in T /\ order[i] \in T /\ m.offset[order[j]] < m.offset[order[i]]
      BY <1>1, <3>1
    <3>4. DataSize(m, order[j]) \in 0 .. m.offset[order[i]] - m.offset[order[j]]
      BY <1>3, <3>3, DataInGap
    <3>5. table[order[i]] = table[order[j]] + DataSize(m, order[j])
      BY <1>2, <3>1
    <3>6. m.offset[order[j]] \in Nat /\ m.offset[order[i]] \in Nat
      BY <1>3, <3>3
    <3> QED
      BY <3>2, <3>4, <3>5, <3>6
  <2> QED
    BY <2>1, <2>2
<1>5. ASSUME NEW k \in 1 .. n PROVE Is(k)
  <2>1. 0 \in S /\ \A i \in 1 .. k : i - 1 \in S => i \in S
    BY <1>1, <1>4
  <2> HIDE DEF S
  <2>2. k \in S
    BY <1>1, <2>1, UpTo
  <2> QED
    BY <2>2 DEF S
<1> TAKE t \in T
<1>6. PICK k \in 1 .. n : order[k] = t
  BY <1>1
<1>7. Is(k)
  BY <1>5
<1> QED
  BY <1>6, <1>7 DEF table

\* What write_shard takes from the source file, which is there up to the end of its
\* table.
LEMMA SourceFound ==
  ASSUME NEW f \in Files, ~Ambiguous(f.gguf), TableEnd(f.gguf) <= Len(Present(f))
  PROVE  LET d == Present(f)
             g == f.gguf
             start == TableStart(d, MetadataEnd(d))
         IN  /\ U64(d, 16) = Len(g.metadata)
             /\ Slice(d, 24, start - 24) = FlattenSeq(MetaBytes(g.metadata))
             /\ \A k \in 1 .. Len(g.tensors) : \A offset :
                  TensorInfo(Table(d, start)[k], offset) = TensorInfo(g.tensors[k], offset)
<1> DEFINE g == f.gguf
           ps == g.metadata
           ts == g.tensors
           n == Len(ts)
           os == OffsetsOf(g)
           d == Present(f)
           w == FileOf(ps, n, ts, os, g.size)
           meta == FlattenSeq(MetaBytes(ps))
           infos == InfoBytes(n, ts, os)
           best == MetaEnd(ps)
           end == InfoEnd(ps, n, ts, os)
           start == TableStart(d, MetadataEnd(d))
<1>1. IsGguf(g)
  BY FileAssumption
<1>2. /\ IsMeta(ps) /\ IsTable(n, ts, os) /\ n # 0
      /\ g.size \in Nat /\ Written(g) = w
      /\ TableBegin(g) = best /\ TableEnd(g) = end
  BY <1>1, GgufIs
<1>3. n \in Nat /\ IsName(ts[1].name)
  <2>1. n \in Nat /\ \A k \in 1 .. n : IsName(ts[k].name)
    BY <1>1, <1>2, GgufIs, SizeNat DEF IsTable
  <2> QED
    BY <1>2, <2>1
<1>4. d \in Seq(Byte) /\ Len(d) \in Nat /\ IsPart(d, w) /\ end <= Len(d)
  BY <1>2, PresentIs, LenIsNat
<1>5. Plain(w, best)
  BY <1>2 DEF Ambiguous, Plain
<1>6. /\ best \in Nat /\ end \in Nat /\ 24 <= best /\ best <= end
      /\ best = 24 + Len(meta) /\ end = best + Len(FlattenSeq(infos))
  BY <1>2, EndsAreNat DEF MetaEnd, InfoEnd
<1>7. meta \in Seq(Byte) /\ Len(meta) \in Nat
  BY <1>2, MetaOK
<1> HIDE DEF meta, infos, best, end, d, os, w, n, ps, ts
<1>8. 24 <= Len(d) /\ best <= Len(d)
  BY <1>4, <1>6
<1>9. /\ U64(d, 8) = n /\ U64(d, 16) = Len(ps)
      /\ Has(d, 24, meta) /\ Has(d, best, FlattenSeq(infos))
      /\ MetadataEnd(d) = best /\ TableStart(d, best) = best
  BY <1>2, <1>3, <1>4, <1>5, <1>8, HeaderFound DEF meta, infos, best, w
<1>10. start = best
  BY <1>9
<1>11. Slice(d, 24, start - 24) = meta
  <2>1. best - 24 = Len(meta) /\ 24 + Len(meta) <= Len(d)
    BY <1>6, <1>7, <1>8
  <2>2. Slice(d, 24, Len(meta)) = meta
    BY <1>4, <1>7, <1>9, <2>1, SliceRead
  <2> QED
    BY <1>10, <2>1, <2>2
<1>12. \A k \in 1 .. n : \E after \in Nat : Table(d, best)[k] = Full(ts[k], os[k], after)
  <2>1. best + Len(FlattenSeq(infos)) <= Len(d)
    BY <1>4, <1>6
  <2> QED
    BY <1>2, <1>4, <1>6, <1>9, <2>1, TableRead DEF infos
<1>13. ASSUME NEW k \in 1 .. n, NEW offset
       PROVE  TensorInfo(Table(d, start)[k], offset) = TensorInfo(ts[k], offset)
  <2> DEFINE t == Table(d, start)[k]
             u == ts[k]
  <2>1. PICK after \in Nat : Table(d, best)[k] = Full(u, os[k], after)
    BY <1>12
  <2>2. t = Full(u, os[k], after)
    BY <1>10, <2>1
  <2>3. t.name = u.name /\ t.dims = u.dims /\ t.type = u.type
    <3> HIDE DEF t, u
    <3> QED
      BY <2>2 DEF Full
  <2> HIDE DEF t, u
  <2> QED
    BY <2>3 DEF TensorInfo, t, u
<1> QED
  BY <1>9, <1>11, <1>13 DEF meta, d, n, ps, ts

\* A tensor that was moved.
LEMMA Moved ==
  ASSUME NEW g, IsGguf(g), NEW k \in 1 .. Len(g.tensors), NEW offset
  PROVE  LET t == g.tensors[k]
             u == [t EXCEPT !.offset = offset]
         IN  u.name = t.name /\ u.dims = t.dims /\ u.type = t.type /\ u.offset = offset
<1> DEFINE T == [layer : Nat \cup {NoLayer}, name : Seq(Ascii), dims : Seq(Size),
                 type : Size32, offset : Size]
           t == g.tensors[k]
<1>1. g.tensors \in Seq(T)
  BY DEF IsGguf
<1>2. t \in T
  <2> HIDE DEF T
  <2> QED
    BY <1>1
<1> HIDE DEF t
<1>3. t = [layer |-> t.layer, name |-> t.name, dims |-> t.dims, type |-> t.type, offset |-> t.offset]
  BY <1>2
<1> QED
  BY <1>3 DEF t

\* Some tensors of a model file, in another order and at other offsets, and the bytes
\* of their table.
Rearranged(g, c, order, at, size) ==
  [metadata |-> g.metadata,
   tensors |-> [k \in 1 .. c |-> [g.tensors[order[k]] EXCEPT !.offset = at[order[k]]]],
   size |-> size]
MovedBytes(g, c, order, at) ==
  [k \in 1 .. c |-> TensorInfo(g.tensors[order[k]], at[order[k]])]

\* They are a file of which they are read again.
LEMMA PartReadBack ==
  ASSUME NEW g, IsGguf(g), NEW c \in Nat, c \in Size, NEW order, NEW at, NEW size \in Nat,
         \A k \in 1 .. c : order[k] \in 1 .. Len(g.tensors) /\ at[order[k]] \in Size
  PROVE  LET s == Rearranged(g, c, order, at, size)
         IN  /\ Written(s) = Gguf(Len(g.metadata), FlattenSeq(MetaBytes(g.metadata)),
                                  MovedBytes(g, c, order, at), size)
             /\ ~Ambiguous(s) =>
                  /\ DOMAIN Read(Written(s)).layer = 1 .. c
                  /\ \A k \in 1 .. c :
                       /\ Read(Written(s)).layer[k] = g.tensors[order[k]].layer
                       /\ Read(Written(s)).offset[k] = at[order[k]]
                  /\ Read(Written(s)).end = size
<1> DEFINE ps == g.metadata
           src == g.tensors
           ts == [k \in 1 .. c |-> [src[order[k]] EXCEPT !.offset = at[order[k]]]]
           os == [k \in 1 .. c |-> at[order[k]]]
           s == [metadata |-> ps, tensors |-> ts, size |-> size]
           w == FileOf(ps, c, ts, os, size)
           end == InfoEnd(ps, c, ts, os)
<1>1. IsMeta(ps) /\ IsTable(Len(src), src, OffsetsOf(g))
  BY GgufIs
<1>2. \A k \in 1 .. Len(src) : IsInfo(src[k]) /\ IsName(src[k].name) /\ src[k].layer = LayerOf(src[k].name)
  BY <1>1, GgufIs DEF IsTable
<1>3. \A k \in 1 .. c : /\ ts[k].name = src[order[k]].name /\ ts[k].dims = src[order[k]].dims
                        /\ ts[k].type = src[order[k]].type /\ ts[k].offset = os[k]
                        /\ os[k] = at[order[k]]
  <2> TAKE k \in 1 .. c
  <2> DEFINE i == order[k]
             o == at[i]
  <2>1. ts[k] = [src[i] EXCEPT !.offset = o] /\ os[k] = o /\ i \in 1 .. Len(g.tensors)
    OBVIOUS
  <2> HIDE DEF i, o, ts, os
  <2>2. LET u == [g.tensors[i] EXCEPT !.offset = o]
        IN  /\ u.name = g.tensors[i].name /\ u.dims = g.tensors[i].dims
            /\ u.type = g.tensors[i].type /\ u.offset = o
    BY <2>1, Moved
  <2> QED
    BY <2>1, <2>2 DEF i, o
<1>4. \A k \in 1 .. c : order[k] \in 1 .. Len(src) /\ at[order[k]] \in Size
  OBVIOUS
<1> HIDE DEF src
<1>5. DOMAIN ts = 1 .. c /\ Len(ts) = c
  OBVIOUS
<1> HIDE DEF ts, os
<1>6. \A k \in 1 .. c : IsInfo(ts[k]) /\ IsName(ts[k].name) /\ LayerOf(ts[k].name) = src[order[k]].layer
                        /\ os[k] \in Size
  <2> TAKE k \in 1 .. c
  <2> DEFINE u == src[order[k]]
  <2>1. IsInfo(u) /\ IsName(u.name) /\ u.layer = LayerOf(u.name) /\ os[k] \in Size
    BY <1>2, <1>3, <1>4
  <2>2. ts[k].name = u.name /\ ts[k].dims = u.dims /\ ts[k].type = u.type
    BY <1>3
  <2> HIDE DEF u
  <2>3. IsInfo(ts[k])
    BY <2>1, <2>2 DEF IsInfo
  <2> QED
    BY <2>1, <2>2, <2>3 DEF u
<1>7. IsTable(c, ts, os)
  BY <1>6 DEF IsTable
<1>8. \A k \in 1 .. c : TensorInfo(ts[k], os[k]) = TensorInfo(src[order[k]], at[order[k]])
  BY <1>3 DEF TensorInfo
<1>9. Metadata(s) = MetaBytes(ps)
  BY DEF Metadata, MetaBytes
<1>10. TableOf(s) = InfoBytes(c, ts, os)
  BY <1>3, <1>5 DEF TableOf, InfoBytes
<1>11. Written(s) = w /\ TableBegin(s) = MetaEnd(ps)
  BY <1>9, <1>10 DEF Written, FileOf, TableBegin, MetaEnd
<1>12. InfoBytes(c, ts, os) = [k \in 1 .. c |-> TensorInfo(src[order[k]], at[order[k]])]
  BY <1>8 DEF InfoBytes
<1>13. w \in Seq(Byte) /\ Len(w) \in Nat /\ Len(w) = AlignUp(end) + size /\ end <= Len(w)
  BY <1>1, <1>7, FileOfIs
<1>14. end \in Nat /\ AlignUp(end) \in Nat
  BY <1>1, <1>7, EndsAreNat, AlignUpOK
<1>15. ASSUME ~Ambiguous(s)
       PROVE  Read(w) = [layer |-> [k \in 1 .. c |-> LayerOf(ts[k].name)],
                         offset |-> [k \in 1 .. c |-> os[k]],
                         end |-> Len(w) - AlignUp(end)]
  <2>1. Plain(w, MetaEnd(ps))
    BY <1>11, <1>15 DEF Ambiguous, Plain
  <2>2. IsPart(w, w)
    BY <1>13 DEF IsPart
  <2>3. c # 0 => IsName(ts[1].name)
    BY <1>6
  <2> HIDE DEF s
  <2>4. Read(w) = IF end <= Len(w)
                    THEN [layer |-> [k \in 1 .. c |-> LayerOf(ts[k].name)],
                          offset |-> [k \in 1 .. c |-> os[k]],
                          end |-> Len(w) - AlignUp(end)]
                    ELSE Unreadable
    BY <1>1, <1>7, <1>13, <2>1, <2>2, <2>3, ReadBack
  <2> QED
    BY <1>13, <2>4
<1>16. Len(w) - AlignUp(end) = size
  <2> DEFINE up == AlignUp(end)
             len == Len(w)
  <2>1. up \in Nat /\ len = up + size
    BY <1>13, <1>14
  <2> HIDE DEF up, len
  <2> QED
    BY <2>1 DEF up, len
<1>17. Written(s) = Gguf(Len(ps), FlattenSeq(MetaBytes(ps)),
                         [k \in 1 .. c |-> TensorInfo(src[order[k]], at[order[k]])], size)
  BY <1>11, <1>12 DEF FileOf
<1>18. ASSUME ~Ambiguous(s)
       PROVE  /\ DOMAIN Read(Written(s)).layer = 1 .. c
              /\ \A k \in 1 .. c : /\ Read(Written(s)).layer[k] = src[order[k]].layer
                                   /\ Read(Written(s)).offset[k] = at[order[k]]
              /\ Read(Written(s)).end = size
  <2> HIDE DEF w, end, s
  <2> QED
    BY <1>3, <1>6, <1>11, <1>15, <1>16, <1>18
<1> QED
  BY <1>17, <1>18 DEF s, ts, src, Rearranged, MovedBytes

\* A larger number has a larger high part.
LEMMA HighMonotone == \A m, k \in Nat : m <= k => High(m) <= High(k)
<1>1. \A m, k \in Nat : m <= k => m \div 65536 \in Nat /\ k \div 65536 \in Nat
                                  /\ m \div 65536 <= k \div 65536
  <2> TAKE m, k \in Nat
  <2> HAVE m <= k
  <2> DEFINE a == m \div 65536
             b == k \div 65536
  <2>1. a \in Nat /\ 65536 * a <= m /\ b \in Nat /\ k < 65536 * b + 65536
    OBVIOUS
  <2> HIDE DEF a, b
  <2>2. a <= b
    BY <2>1
  <2> QED
    BY <2>1, <2>2 DEF a, b
<1> QED
  BY <1>1 DEF High

\* What is below a number that can be written can be written.
LEMMA SizeDown == \A y \in Size : \A x \in 0 .. y : x \in Size
<1> TAKE y \in Size
<1> TAKE x \in 0 .. y
<1>1. y \in Nat /\ x \in Nat /\ x <= y /\ y < HUGE /\ High(High(y)) = 0
  BY SizeIs
<1>2. \A m, k \in Nat : m <= k => High(m) <= High(k)
  BY HighMonotone
<1>3. High(x) <= High(y) /\ High(x) \in Nat /\ High(y) \in Nat
  BY <1>1, <1>2, HighIsNat
<1>4. High(High(x)) <= High(High(y)) /\ High(High(x)) \in Nat
  BY <1>2, <1>3, HighIsNat
<1>5. x < HUGE
  BY <1>1, HugeIs
<1> QED
  BY <1>1, <1>4, <1>5, SizeIs

\* A run that has succeeded has written model files.
LEMMA ShardsHeld ==
  ASSUME SplitInv, LaidOut, file \in Files, model = Contents(file)
  PROVE  ShardsReadBack
<1> DEFINE g == file.gguf
           ps == g.metadata
           src == g.tensors
           n == Len(src)
           d == Present(file)
           start == TableStart(d, MetadataEnd(d))
<1> SUFFICES ASSUME pc = "success", command = "split", ~Ambiguous(g),
                    NEW i \in 1 .. NumShards(model, perShard)
             PROVE  LET back == Read(ShardBytes(i))
                    IN  /\ ShardBytes(i) = Written(ShardGguf(i))
                        /\ ~Ambiguous(ShardGguf(i)) =>
                             /\ {<<back.layer[t], back.offset[t]>> : t \in Tensor(back)}
                                  = {<<model.layer[t], files[i].table[t]>> : t \in DOMAIN files[i].table}
                             /\ back.end = files[i].length
  BY DEF ShardsReadBack
<1> DEFINE at == files[i].table
           T == DOMAIN at
           order == TableOrder(T)
           c == Cardinality(T)
           size == files[i].length
           s == Rearranged(g, c, order, at, size)
\* It has the table of its plan, and there was a model to split.
<1>1. /\ model \in Models /\ perShard \in Nat \ {0} /\ i \in DOMAIN files
      /\ T = ShardTensors(model, perShard, i) /\ at = NewOffsets(model, T) /\ size \in Nat
  <2>1. model \in Models /\ perShard \in Nat \ {0} /\ Made(i)
    BY DEF SuccessOK, SplitInv
  <2>2. /\ i \in DOMAIN files /\ files[i].header
        /\ files[i].model = model /\ files[i].perShard = perShard
        /\ T = ShardTensors(model, perShard, i)
    BY <2>1 DEF Made, Whole, Exists
  <2>3. at = NewOffsets(model, ShardTensors(model, perShard, i)) /\ size \in Nat
    BY <2>2 DEF LaidOut
  <2> QED
    BY <2>1, <2>2, <2>3
<1>2. PartOf(T, model) /\ i \in Nat
  BY <1>1 DEF PartOf, ShardTensors
<1>3. model = Held(file)
  BY ContentsHeld
<1>4. TableEnd(g) <= Len(d) /\ ~(Len(d) < TableEnd(g))
  <2>1. TableEnd(g) \in Nat /\ Len(d) \in Nat
    <3>1. /\ IsMeta(ps) /\ IsTable(n, src, OffsetsOf(g))
          /\ TableEnd(g) = InfoEnd(ps, n, src, OffsetsOf(g))
      BY FileAssumption, GgufIs
    <3> QED
      BY <3>1, EndsAreNat, PresentIs, LenIsNat
  <2>2. SUFFICES ASSUME Len(d) < TableEnd(g) PROVE FALSE
    BY <2>1
  <2>3. model = Unreadable
    BY <1>3, <2>2 DEF Held
  <2>4. ~HasLayers(model)
    BY <2>3 DEF HasLayers, Tensor, Unreadable
  <2>5. NumShards(model, perShard) \in 0 .. 0
    BY <1>1, <2>4, ShardsCounted, LayersCounted
  <2> QED
    BY <2>5
<1>5. /\ n \in Nat /\ n \in Size /\ DOMAIN src = 1 .. n /\ IsGguf(g)
      /\ \A k \in 1 .. n : src[k].offset \in Size
      /\ Tensor(model) = 1 .. n
      /\ \A k \in 1 .. n : model.layer[k] = src[k].layer /\ model.offset[k] = src[k].offset
  <2>1. IsGguf(g)
    BY FileAssumption
  <2>2. IsTable(n, src, OffsetsOf(g)) /\ DOMAIN src = 1 .. n
    BY <2>1, GgufIs
  <2>3. n \in Nat /\ n \in Size /\ \A k \in 1 .. n : src[k].offset \in Size
    BY <2>2, SizeNat DEF IsTable, OffsetsOf
  <2>4. /\ model.layer = [k \in DOMAIN src |-> src[k].layer]
        /\ model.offset = [k \in DOMAIN src |-> src[k].offset]
    BY <1>3, <1>4 DEF Held
  <2> QED
    BY <2>1, <2>2, <2>3, <2>4 DEF Tensor
<1>6. /\ c \in Nat /\ DOMAIN order = 1 .. c
      /\ \A k \in 1 .. c : order[k] \in T
      /\ \A t \in T : \E k \in 1 .. c : order[k] = t
  BY <1>2, TableOrderSorts
<1>7. T \subseteq 1 .. n
  BY <1>2, <1>5 DEF PartOf
<1>8. c \in Size
  <2>1. IsFiniteSet(1 .. n) /\ Cardinality(1 .. n) = n
    BY <1>5, FS_Interval
  <2>2. c <= n
    BY <1>7, <2>1, FS_Subset
  <2>3. c \in 0 .. n
    BY <1>5, <1>6, <2>2
  <2> QED
    BY <1>5, <2>3, SizeDown
<1>9. \A t \in T : at[t] \in Size
  <2> TAKE t \in T
  <2>1. at[t] \in 0 .. model.offset[t]
    BY <1>1, <1>2, OffsetsShrink
  <2>2. model.offset[t] \in Size
    BY <1>5, <1>7
  <2> QED
    BY <2>1, <2>2, SizeDown
<1>10. ShardGguf(i) = s
  BY <1>6 DEF ShardGguf, Rearranged
<1>11. ShardBytes(i) = Gguf(U64(d, 16), Slice(d, 24, start - 24),
                            [k \in 1 .. c |-> TensorInfo(Table(d, start)[order[k]], at[order[k]])],
                            size)
  BY <1>6 DEF ShardBytes
<1>12. /\ U64(d, 16) = Len(ps) /\ Slice(d, 24, start - 24) = FlattenSeq(MetaBytes(ps))
       /\ \A k \in 1 .. n : \A offset : TensorInfo(Table(d, start)[k], offset) = TensorInfo(src[k], offset)
  BY <1>4, SourceFound
<1> HIDE DEF g, ps, src, n, d, start, at, T, order, c, size
<1>13. [k \in 1 .. c |-> TensorInfo(Table(d, start)[order[k]], at[order[k]])]
         = MovedBytes(g, c, order, at)
  <2>1. \A k \in 1 .. c : order[k] \in 1 .. n
    BY <1>6, <1>7
  <2>2. \A k \in 1 .. c :
          TensorInfo(Table(d, start)[order[k]], at[order[k]]) = TensorInfo(src[order[k]], at[order[k]])
    BY <1>12, <2>1
  <2> QED
    BY <2>2 DEF MovedBytes, src
<1>14. ShardBytes(i) = Gguf(Len(ps), FlattenSeq(MetaBytes(ps)), MovedBytes(g, c, order, at), size)
  BY <1>11, <1>12, <1>13
<1>15. \A k \in 1 .. c : order[k] \in 1 .. n /\ at[order[k]] \in Size
  BY <1>6, <1>7, <1>9
<1>16. /\ Written(s) = Gguf(Len(ps), FlattenSeq(MetaBytes(ps)), MovedBytes(g, c, order, at), size)
       /\ ~Ambiguous(s) =>
            /\ DOMAIN Read(Written(s)).layer = 1 .. c
            /\ \A k \in 1 .. c : /\ Read(Written(s)).layer[k] = src[order[k]].layer
                                 /\ Read(Written(s)).offset[k] = at[order[k]]
            /\ Read(Written(s)).end = size
  <2>1. \A k \in 1 .. c : order[k] \in 1 .. Len(g.tensors) /\ at[order[k]] \in Size
    BY <1>15 DEF n, src
  <2>2. IsGguf(g) /\ c \in Nat /\ c \in Size /\ size \in Nat
    BY <1>1, <1>5, <1>6, <1>8
  <2> QED
    BY <2>1, <2>2, PartReadBack DEF src, ps
<1> HIDE DEF s
<1>17. ShardBytes(i) = Written(ShardGguf(i))
  BY <1>10, <1>14, <1>16
<1> DEFINE back == Read(ShardBytes(i))
<1>18. ASSUME ~Ambiguous(ShardGguf(i))
       PROVE  /\ {<<back.layer[t], back.offset[t]>> : t \in Tensor(back)}
                   = {<<model.layer[t], at[t]>> : t \in T}
              /\ back.end = size
  <2>1. /\ Tensor(back) = 1 .. c /\ back.end = size
        /\ \A k \in 1 .. c : back.layer[k] = src[order[k]].layer /\ back.offset[k] = at[order[k]]
    BY <1>10, <1>16, <1>17, <1>18 DEF Tensor
  <2>2. \A k \in 1 .. c : src[order[k]].layer = model.layer[order[k]]
    BY <1>5, <1>15
  <2> HIDE DEF back
  <2>3. \A k \in 1 .. c : <<back.layer[k], back.offset[k]>> = <<model.layer[order[k]], at[order[k]]>>
    BY <2>1, <2>2
  <2> QED
    BY <1>6, <2>1, <2>3
<1> QED
  BY <1>17, <1>18 DEF at, T, size

-----------------------------------------------------------------------------
(* The results.                                                            *)

\* A run works on the tensors its file holds, and refuses a file that ends before the
\* end of its table: unless the metadata end in something like a tensor's name,
\* skip_value and the search behind it have found the table where it begins.
THEOREM HeaderIsRead == FileSpec => []HeaderRead
<1> DEFINE Inv == file \in Files /\ model = Contents(file)
<1>1. FileInit => Inv
  BY DEF FileInit, FirstRunOn
<1>2. Inv /\ [FileNext]_fileVars => Inv'
  <2> SUFFICES ASSUME Inv, [FileNext]_fileVars PROVE Inv'
    OBVIOUS
  <2>1. CASE RunStep /\ UNCHANGED file
    <3>1. model' = model
      BY <2>1 DEF RunStep, WritePlan, CheckExists, Create, WriteTable, WriteData, NextShard, Abort
    <3> QED
      BY <2>1, <3>1 DEF Contents, Read
  <2>2. ASSUME NEW f \in LaterFiles, RunOn(Contents(f)), file' = f PROVE Inv'
    BY <2>2, FileAssumption DEF RunOn
  <2>3. CASE UNCHANGED fileVars
    BY <2>3 DEF fileVars, splitVars
  <2> QED
    BY <2>1, <2>2, <2>3 DEF FileNext
<1>3. Inv => HeaderRead
  BY ContentsHeld DEF HeaderRead
<1> QED
  BY <1>1, <1>2, <1>3, PTL DEF FileSpec

\* Every shard of a run that has succeeded is a model file again, byte for byte, and
\* unless its metadata end in something like a name the tool reads from it what the
\* plan put there: the tensors of the shard with the offsets write_shard has computed
\* before it wrote any data, and the end of that data.
THEOREM ShardsAreFiles == FileSpec => []ShardsReadBack
<1> DEFINE Inv == LaidOut /\ file \in Files /\ model = Contents(file)
<1>1. FileInit => Inv
  BY DEF FileInit, FirstRunOn, LaidOut, Empty
<1>2. SplitInv /\ Inv /\ [FileNext]_fileVars => Inv'
  <2> SUFFICES ASSUME SplitInv, Inv, [FileNext]_fileVars PROVE Inv'
    OBVIOUS
  <2>1. LaidOut'
    <3>1. CASE RunStep
      BY <3>1, LaidOutStep DEF SplitNext
    <3>2. CASE UNCHANGED files
      BY <3>2 DEF LaidOut
    <3>3. RunStep \/ UNCHANGED files
      BY DEF FileNext, RunOn, fileVars, splitVars
    <3> QED
      BY <3>1, <3>2, <3>3
  <2>2. CASE RunStep /\ UNCHANGED file
    <3>1. model' = model
      BY <2>2 DEF RunStep, WritePlan, CheckExists, Create, WriteTable, WriteData, NextShard, Abort
    <3> QED
      BY <2>1, <2>2, <3>1 DEF Contents, Read
  <2>3. ASSUME NEW f \in LaterFiles, RunOn(Contents(f)), file' = f PROVE Inv'
    BY <2>1, <2>3, FileAssumption DEF RunOn
  <2>4. CASE UNCHANGED fileVars
    BY <2>1, <2>4 DEF fileVars, splitVars
  <2> QED
    BY <2>2, <2>3, <2>4 DEF FileNext
<1>3. SplitInv /\ Inv => ShardsReadBack
  BY ShardsHeld
<1> QED
  BY <1>1, <1>2, <1>3, FilesAreSplit, SplitCorrect, PTL DEF FileSpec
=============================================================================
