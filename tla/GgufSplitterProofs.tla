------------------------- MODULE GgufSplitterProofs -------------------------
(***************************************************************************)
(* What the runs of the splitter leave in the output directory, for any    *)
(* model files, any options and any number of runs that are cut off.       *)
(***************************************************************************)
EXTENDS GgufFile, FiniteSetTheorems, SequenceTheorems, WellFoundedInduction, TLAPS

-----------------------------------------------------------------------------
(* Natural numbers.                                                        *)

\* A set of natural numbers that is not empty has a least element.
LEMMA LeastElement ==
  ASSUME NEW T, T \subseteq Nat, T # {}
  PROVE  \E x \in T : \A y \in T : x <= y
<1> DEFINE R == OpToRel(<, Nat)
<1>1. IsWellFoundedOn(R, Nat)
  BY NatLessThanWellFounded
<1>2. \A x, y \in Nat : <<x, y>> \in R <=> x < y
  BY DEF OpToRel
<1> HIDE DEF R
<1>3. PICK x \in T : \A y \in T : <<y, x>> \notin R
  BY <1>1, WFMin
<1>4. \A y \in T : ~(y < x) /\ y \in Nat /\ x \in Nat
  BY <1>2, <1>3
<1> QED
  BY <1>3, <1>4

\* Induction up to n, with a set in the place of the predicate.
LEMMA UpTo ==
  ASSUME NEW n \in Nat, NEW S, 0 \in S, \A i \in 1 .. n : i - 1 \in S => i \in S
  PROVE  n \in S
<1> DEFINE T == (0 .. n) \ S
<1> SUFFICES ASSUME T # {} PROVE FALSE
  OBVIOUS
<1>1. T \subseteq Nat
  OBVIOUS
<1> HIDE DEF T
<1>2. PICK x \in T : \A y \in T : x <= y
  BY <1>1, LeastElement
<1>3. x \in 1 .. n /\ x - 1 \in 0 .. n /\ x - 1 \notin T
  BY <1>1, <1>2 DEF T
<1> QED
  BY <1>2, <1>3 DEF T

\* Numbers from -1 on in a sequence have a greatest one, if one is not -1.
LEMMA Greatest ==
  ASSUME NEW f \in Seq(Nat \cup {NoLayer}), \E t \in DOMAIN f : f[t] # NoLayer
  PROVE  LET S == {f[t] : t \in DOMAIN f}
         IN  Max(S) \in S /\ Max(S) \in Nat /\ \A x \in S : x <= Max(S)
<1> DEFINE S == {f[t] : t \in DOMAIN f}
           k == Len(f)
           Bound(j, b) == \A t \in 1 .. j : f[t] <= b
           A == {j \in 0 .. k : \E b \in Nat : Bound(j, b)}
           B == {b \in Nat : Bound(k, b)}
<1>1. k \in Nat /\ DOMAIN f = 1 .. k /\ \A t \in 1 .. k : f[t] \in Int /\ f[t] >= -1
  BY DEF NoLayer
<1>2. 0 \in A
  BY <1>1
<1>3. \A i \in 1 .. k : i - 1 \in A => i \in A
  <2> SUFFICES ASSUME NEW i \in 1 .. k, i - 1 \in A PROVE i \in A
    OBVIOUS
  <2>1. PICK b \in Nat : Bound(i - 1, b)
    OBVIOUS
  <2>2. PICK c \in Nat : b <= c /\ f[i] <= c
    <3>1. CASE b <= f[i]
      BY <1>1, <3>1
    <3>2. CASE f[i] <= b
      BY <3>2
    <3> QED
      BY <1>1, <3>1, <3>2
  <2>3. Bound(i, c)
    BY <1>1, <2>1, <2>2
  <2> QED
    BY <1>1, <2>3
<1> HIDE DEF A
<1>4. k \in A
  BY <1>1, <1>2, <1>3, UpTo
<1>5. B # {} /\ B \subseteq Nat
  BY <1>4 DEF A
<1>6. PICK b \in B : \A c \in B : b <= c
  BY <1>5, LeastElement
<1>7. \A x \in S : x <= b
  BY <1>1, <1>6
<1>8. b \in S
  <2> SUFFICES ASSUME b \notin S PROVE FALSE
    OBVIOUS
  <2>1. \A t \in 1 .. k : f[t] <= b - 1
    BY <1>1, <1>7
  <2>2. PICK t \in 1 .. k : f[t] >= 0
    BY <1>1 DEF NoLayer
  <2>3. b - 1 \in B
    BY <1>1, <1>6, <2>1, <2>2
  <2> QED
    BY <1>5, <1>6, <2>3
<1> HIDE DEF S, B
<1>9. \A x \in S : x \in Int
  BY <1>1 DEF S
<1>10. Max(S) \in S /\ \A x \in S : Max(S) >= x
  BY <1>7, <1>8, <1>9 DEF Max
<1>11. Max(S) = b
  BY <1>7, <1>8, <1>9, <1>10
<1> QED
  BY <1>5, <1>6, <1>7, <1>10, <1>11 DEF S

\* Rounding up.
LEMMA Ceiling ==
  ASSUME NEW a \in Nat, NEW b \in Nat \ {0}
  PROVE  /\ CeilDiv(a, b) \in Nat
         /\ a <= CeilDiv(a, b) * b
         /\ (CeilDiv(a, b) - 1) * b < a
<1> DEFINE q == (a + b - 1) \div b
<1>1. q \in Nat /\ b * q <= a + b - 1 /\ a + b - 1 < b * q + b
  OBVIOUS
<1>2. CeilDiv(a, b) = q
  BY DEF CeilDiv
<1> HIDE DEF q
<1>3. q * b = b * q /\ (q - 1) * b = b * q - b /\ b * q \in Int
  BY <1>1
<1> QED
  BY <1>1, <1>2, <1>3

\* Sums and differences of multiples of a are multiples of a.
LEMMA MultiplesAdd ==
  ASSUME NEW a \in Nat \ {0}, NEW x \in Int, NEW y \in Int, x % a = 0, y % a = 0
  PROVE  (x + y) % a = 0 /\ (x - y) % a = 0
<1> DEFINE p == x \div a
           q == y \div a
<1>1. p \in Int /\ x = a * p /\ q \in Int /\ y = a * q
  OBVIOUS
<1> HIDE DEF p, q
<1>2. \A r \in Int : (a * r) % a = 0
  <2> TAKE r \in Int
  <2> DEFINE z == a * r
             s == z \div a
  <2>1. z \in Int /\ s \in Int /\ z % a = z - a * s /\ z % a \in 0 .. a - 1
    OBVIOUS
  <2> HIDE DEF s
  <2>2. a * r - a * s = a * (r - s) /\ r - s \in Int
    BY <2>1
  <2>3. \A i \in Int : a * i \in 0 .. a - 1 => i = 0
    OBVIOUS
  <2>4. r - s = 0
    BY <2>1, <2>2, <2>3 DEF z
  <2>5. z % a = 0
    BY <2>1, <2>2, <2>4 DEF z
  <2> QED
    BY <2>5 DEF z
<1>3. x + y = a * (p + q) /\ x - y = a * (p - q) /\ p + q \in Int /\ p - q \in Int
  BY <1>1
<1> QED
  BY <1>2, <1>3

\* A multiple of the alignment is aligned already.
LEMMA AlignedStays ==
  ASSUME NEW x \in Int, x % ALIGN = 0
  PROVE  AlignUp(x) = x
<1> DEFINE q == x \div ALIGN
<1>0. ALIGN \in Nat \ {0}
  BY SplitAssumption
<1>1. q \in Int /\ x = ALIGN * q
  BY <1>0
<1>2. (x + ALIGN - 1) \div ALIGN = q
  BY <1>0
<1> QED
  BY <1>0, <1>1, <1>2 DEF AlignUp, CeilDiv

-----------------------------------------------------------------------------
(* The order of the data.                                                  *)

\* T is part of the tensors of a model.
PartOf(T, m) == m \in Models /\ T \subseteq Tensor(m)

\* Tensors are finitely many, and no two of them have the same offset.
LEMMA TensorsFinite ==
  ASSUME NEW m, NEW T, PartOf(T, m)
  PROVE  /\ IsFiniteSet(T)
         /\ Cardinality(T) \in Nat
         /\ \A t \in T : m.offset[t] \in Nat
         /\ \A t, u \in T : m.offset[t] = m.offset[u] => t = u
<1>1. m.layer \in Seq(Nat \cup {NoLayer}) /\ m.offset \in [Tensor(m) -> Nat]
  BY SplitAssumption DEF PartOf
<1>2. Tensor(m) = 1 .. Len(m.layer) /\ Len(m.layer) \in Nat
  BY <1>1 DEF Tensor
<1>3. IsFiniteSet(Tensor(m))
  BY <1>2, FS_Interval
<1>4. IsFiniteSet(T)
  BY <1>3, FS_Subset DEF PartOf
<1>5. \A t, u \in T : m.offset[t] = m.offset[u] => t = u
  BY SplitAssumption DEF PartOf
<1> QED
  BY <1>1, <1>4, <1>5, FS_CardinalityType DEF PartOf

\* Elements of a finite set in an order that says of each of them which come before
\* it: the k-th is the one with k - 1 before it.
LEMMA RanksSort ==
  ASSUME NEW T, IsFiniteSet(T), NEW B,
         \A t \in T : B[t] \subseteq T /\ t \notin B[t],
         \A t, u \in T : t # u => t \in B[u] \/ u \in B[t],
         \A t, u \in T : t \in B[u] => B[t] \subseteq B[u],
         NEW order,
         \A k \in 1 .. Cardinality(T), t \in T :
           Cardinality(B[t]) = k - 1 => order[k] \in T /\ Cardinality(B[order[k]]) = k - 1
  PROVE  LET n == Cardinality(T)
         IN  /\ n \in Nat
             /\ \A k \in 1 .. n : order[k] \in T
             /\ \A t \in T : \E k \in 1 .. n : order[k] = t
             /\ \A j, k \in 1 .. n : j < k => order[j] \in B[order[k]]
             /\ \A j, k \in 1 .. n : order[j] = order[k] => j = k
<1> DEFINE n == Cardinality(T)
           rank == [t \in T |-> Cardinality(B[t]) + 1]
<1>1. n \in Nat
  BY FS_CardinalityType
<1>2. \A t \in T : /\ IsFiniteSet(B[t])
                   /\ Cardinality(B[t]) \in Nat
                   /\ Cardinality(B[t]) < n
  <2> TAKE t \in T
  <2>1. IsFiniteSet(B[t]) /\ Cardinality(B[t]) <= n /\ (Cardinality(B[t]) = n => B[t] = T)
    BY FS_Subset
  <2>2. Cardinality(B[t]) \in Nat
    BY <2>1, FS_CardinalityType
  <2> QED
    BY <1>1, <2>1, <2>2
<1>3. rank \in [T -> 1 .. n] /\ \A t \in T : rank[t] - 1 = Cardinality(B[t])
  BY <1>1, <1>2
<1>4. \A t, u \in T : t \in B[u] => rank[t] < rank[u]
  <2> SUFFICES ASSUME NEW t \in T, NEW u \in T, t \in B[u] PROVE rank[t] < rank[u]
    OBVIOUS
  <2>1. B[t] \subseteq B[u] /\ B[t] # B[u]
    OBVIOUS
  <2>2. Cardinality(B[t]) <= Cardinality(B[u]) /\ Cardinality(B[t]) # Cardinality(B[u])
    BY <1>2, <2>1, FS_Subset
  <2> QED
    BY <1>2, <2>2
<1> HIDE DEF n
<1>5. \A t, u \in T : rank[t] = rank[u] => t = u
  BY <1>1, <1>3, <1>4
<1>6. \A k \in 1 .. n : \E t \in T : rank[t] = k
  <2>0. DOMAIN rank = T
    OBVIOUS
  <2> HIDE DEF rank
  <2>1. rank \in Injection(T, 1 .. n)
    BY <1>3, <1>5, <2>0 DEF Injection, IsInjective
  <2>2. IsFiniteSet(1 .. n) /\ Cardinality(1 .. n) = n
    BY <1>1, FS_Interval
  <2>3. rank \in Surjection(T, 1 .. n)
    BY <2>1, <2>2, FS_Injection DEF n
  <2> QED
    BY <2>3 DEF Surjection
<1> HIDE DEF rank
<1>7. \A k \in 1 .. n : order[k] \in T /\ rank[order[k]] = k
  <2> TAKE k \in 1 .. n
  <2>1. PICK t \in T : rank[t] = k
    BY <1>6
  <2>2. Cardinality(B[t]) = k - 1
    BY <1>3, <2>1
  <2>3. order[k] \in T /\ Cardinality(B[order[k]]) = k - 1
    BY <2>2 DEF n
  <2> QED
    BY <1>1, <1>3, <2>3
<1>8. \A t \in T : \E k \in 1 .. n : order[k] = t
  BY <1>3, <1>5, <1>7
<1>9. \A j, k \in 1 .. n : order[j] = order[k] => j = k
  BY <1>7
<1>10. \A j, k \in 1 .. n : j < k => order[j] \in B[order[k]]
  <2> SUFFICES ASSUME NEW j \in 1 .. n, NEW k \in 1 .. n, j < k, order[j] \notin B[order[k]]
               PROVE  FALSE
    OBVIOUS
  <2>1. order[k] \in B[order[j]]
    BY <1>1, <1>7
  <2>2. rank[order[k]] < rank[order[j]]
    BY <1>4, <1>7, <2>1
  <2> QED
    BY <1>1, <1>7, <2>2
<1> QED
  BY <1>1, <1>7, <1>8, <1>9, <1>10 DEF n

\* The tensors of T in the order of their data: every one of them once, each behind
\* those with smaller offsets.
LEMMA OrderSorts ==
  ASSUME NEW m, NEW T, PartOf(T, m)
  PROVE  LET order == InFileOrder(m, T)
         IN  /\ Len(order) = Cardinality(T) /\ Len(order) \in Nat
             /\ \A k \in 1 .. Len(order) : order[k] \in T
             /\ \A t \in T : \E k \in 1 .. Len(order) : order[k] = t
             /\ \A j, k \in 1 .. Len(order) : j < k => m.offset[order[j]] < m.offset[order[k]]
             /\ \A j, k \in 1 .. Len(order) : order[j] = order[k] => j = k
<1> DEFINE n == Cardinality(T)
           order == InFileOrder(m, T)
           B == [t \in T |-> Before(m, T, t)]
<1>1. /\ IsFiniteSet(T) /\ n \in Nat /\ \A t \in T : m.offset[t] \in Nat
      /\ \A t, u \in T : m.offset[t] = m.offset[u] => t = u
  BY TensorsFinite
<1>2. \A t, u \in T : t \in B[u] <=> m.offset[t] < m.offset[u]
  BY DEF Before
<1>3. /\ \A t \in T : B[t] \subseteq T /\ t \notin B[t]
      /\ \A t, u \in T : t # u => t \in B[u] \/ u \in B[t]
      /\ \A t, u \in T : t \in B[u] => B[t] \subseteq B[u]
  <2>1. \A t \in T : B[t] \subseteq T
    BY DEF Before
  <2> HIDE DEF B
  <2> QED
    BY <1>1, <1>2, <2>1
<1>4. \A k \in 1 .. n, t \in T :
        Cardinality(B[t]) = k - 1 => order[k] \in T /\ Cardinality(B[order[k]]) = k - 1
  <2> TAKE k \in 1 .. n, t \in T
  <2> HAVE Cardinality(B[t]) = k - 1
  <2>1. order[k] = CHOOSE u \in T : Cardinality(Before(m, T, u)) = k - 1
    BY DEF InFileOrder
  <2>2. Cardinality(Before(m, T, t)) = k - 1
    OBVIOUS
  <2>3. order[k] \in T /\ Cardinality(Before(m, T, order[k])) = k - 1
    BY <2>1, <2>2
  <2> QED
    BY <2>3
<1>5. Len(order) = n
  BY <1>1 DEF InFileOrder
<1> HIDE DEF B, order
<1>6. /\ \A k \in 1 .. n : order[k] \in T
      /\ \A t \in T : \E k \in 1 .. n : order[k] = t
      /\ \A j, k \in 1 .. n : j < k => order[j] \in B[order[k]]
      /\ \A j, k \in 1 .. n : order[j] = order[k] => j = k
  BY <1>1, <1>3, <1>4, RanksSort
<1> QED
  BY <1>1, <1>2, <1>5, <1>6 DEF order

-----------------------------------------------------------------------------
(* The new offsets.                                                        *)

\* The recursive definition of cur has a solution.
CurEq(cur, m, order, n) ==
  cur = [k \in 1 .. n |->
           IF k = 1 THEN 0 ELSE AlignUp(cur[k - 1] + DataSize(m, order[k - 1]))]

\* Each of its values needs only the one before.
LEMMA CurExists ==
  ASSUME NEW m, NEW order, NEW n \in Nat
  PROVE  \E cur : CurEq(cur, m, order, n)
<1> DEFINE S == {j \in 0 .. n : \E cur : CurEq(cur, m, order, j)}
<1>1. 0 \in S
  <2>1. CurEq([k \in 1 .. 0 |-> 0], m, order, 0)
    BY DEF CurEq
  <2> QED
    BY <2>1
<1>2. \A i \in 1 .. n : i - 1 \in S => i \in S
  <2> SUFFICES ASSUME NEW i \in 1 .. n, i - 1 \in S PROVE i \in S
    OBVIOUS
  <2>1. PICK cur : CurEq(cur, m, order, i - 1)
    OBVIOUS
  <2> DEFINE step(k) == IF k = 1 THEN 0 ELSE AlignUp(cur[k - 1] + DataSize(m, order[k - 1]))
             more == [k \in 1 .. i |-> step(k)]
  <2>2. \A k \in 1 .. i - 1 : more[k] = cur[k]
    BY <2>1 DEF CurEq
  <2>3. \A k \in 1 .. i : k # 1 => more[k - 1] = cur[k - 1]
    <3> HIDE DEF more
    <3>1. \A k \in 1 .. i : k # 1 => k - 1 \in 1 .. i - 1
      OBVIOUS
    <3> QED
      BY <2>2, <3>1
  <2>4. more = [k \in 1 .. i |->
                  IF k = 1 THEN 0 ELSE AlignUp(more[k - 1] + DataSize(m, order[k - 1]))]
    BY <2>3
  <2>5. CurEq(more, m, order, i)
    BY <2>4 DEF CurEq
  <2> QED
    BY <2>5
<1> HIDE DEF S
<1>3. n \in S
  BY <1>1, <1>2, UpTo
<1> QED
  BY <1>3 DEF S

\* A gap between two tensors is a multiple of the alignment.
LEMMA GapAligned ==
  ASSUME NEW m \in Models, NEW t \in Tensor(m)
  PROVE  /\ DataSize(m, t) \in Int
         /\ (\E u \in Tensor(m) : m.offset[t] < m.offset[u]) => DataSize(m, t) % ALIGN = 0
<1> DEFINE after == {v \in Tensor(m) : m.offset[v] > m.offset[t]}
           later == {m.offset[u] : u \in after}
<1>1. /\ m.offset \in [Tensor(m) -> Nat] /\ m.end \in Int /\ ALIGN \in Nat \ {0}
      /\ \A u \in Tensor(m) : m.offset[u] % ALIGN = 0
  BY SplitAssumption
<1>2. CASE later = {}
  <2>1. DataSize(m, t) = m.end - m.offset[t]
    BY <1>2 DEF DataSize
  <2>2. ~ \E u \in Tensor(m) : m.offset[t] < m.offset[u]
    BY <1>1, <1>2
  <2> QED
    BY <1>1, <2>1, <2>2
<1>3. CASE later # {}
  <2>1. later \subseteq Nat
    BY <1>1
  <2> HIDE DEF later
  <2>2. \E x \in later : \A y \in later : x <= y
    BY <1>3, <2>1, LeastElement
  <2>3. Min(later) \in later
    BY <2>2 DEF Min
  <2>4. PICK u \in Tensor(m) : Min(later) = m.offset[u]
    BY <2>3 DEF later
  <2>5. DataSize(m, t) = m.offset[u] - m.offset[t]
    BY <1>3, <2>4 DEF DataSize, later
  <2>6. m.offset[u] \in Nat /\ m.offset[t] \in Nat
        /\ m.offset[u] % ALIGN = 0 /\ m.offset[t] % ALIGN = 0
    BY <1>1
  <2>7. (m.offset[u] - m.offset[t]) % ALIGN = 0
    BY <1>1, <2>6, MultiplesAdd
  <2> QED
    BY <2>5, <2>6, <2>7
<1> QED
  BY <1>2, <1>3

\* The first tensor of a shard begins at 0, and each other one where the data of the
\* one before it ends: rounding up changes nothing.
LEMMA OffsetsLeaveNoGaps ==
  ASSUME NEW m, NEW T, PartOf(T, m)
  PROVE  LET order == InFileOrder(m, T)
             table == NewOffsets(m, T)
         IN  /\ table \in [T -> Int]
             /\ Len(order) >= 1 => table[order[1]] = 0
             /\ \A k \in 1 .. Len(order) - 1 :
                  table[order[k + 1]] = table[order[k]] + DataSize(m, order[k])
<1> DEFINE order == InFileOrder(m, T)
           table == NewOffsets(m, T)
           n == Len(order)
           cur == CHOOSE c : CurEq(c, m, order, n)
<1>1. /\ n \in Nat
      /\ \A k \in 1 .. n : order[k] \in T
      /\ \A t \in T : \E k \in 1 .. n : order[k] = t
      /\ \A j, k \in 1 .. n : j < k => m.offset[order[j]] < m.offset[order[k]]
      /\ \A j, k \in 1 .. n : order[j] = order[k] => j = k
  BY OrderSorts
<1>2. CurEq(cur, m, order, n)
  BY <1>1, CurExists
<1>3. table = [t \in T |-> cur[CHOOSE k \in 1 .. n : order[k] = t]]
  BY DEF NewOffsets, CurEq
<1> HIDE DEF cur, table, n, order
<1>4. \A k \in 1 .. n : table[order[k]] = cur[k]
  <2> TAKE k \in 1 .. n
  <2>1. (CHOOSE j \in 1 .. n : order[j] = order[k]) = k
    BY <1>1
  <2> QED
    BY <1>1, <1>3, <2>1
<1>5. \A k \in 1 .. n : DataSize(m, order[k]) \in Int
  BY <1>1, GapAligned DEF PartOf
<1>6. \A k \in 1 .. n - 1 : DataSize(m, order[k]) % ALIGN = 0
  <2> TAKE k \in 1 .. n - 1
  <2>1. k \in 1 .. n /\ k + 1 \in 1 .. n /\ k < k + 1
    BY <1>1
  <2> QED
    BY <1>1, <2>1, GapAligned DEF PartOf
<1>7. ALIGN \in Nat \ {0}
  BY SplitAssumption
<1>8. \A k \in 1 .. n :
        cur[k] = IF k = 1 THEN 0 ELSE AlignUp(cur[k - 1] + DataSize(m, order[k - 1]))
  BY <1>2 DEF CurEq
<1>9. ASSUME NEW k \in 1 .. n - 1, cur[k] \in Int, cur[k] % ALIGN = 0
      PROVE  cur[k + 1] = cur[k] + DataSize(m, order[k]) /\ cur[k + 1] % ALIGN = 0
  <2>1. k + 1 \in 1 .. n /\ k + 1 # 1 /\ (k + 1) - 1 = k
    BY <1>1
  <2>2. cur[k + 1] = AlignUp(cur[k] + DataSize(m, order[k]))
    BY <1>8, <2>1
  <2>3. DataSize(m, order[k]) \in Int /\ DataSize(m, order[k]) % ALIGN = 0
    <3>1. k \in 1 .. n
      BY <1>1
    <3> QED
      BY <1>5, <1>6, <3>1
  <2>4. (cur[k] + DataSize(m, order[k])) % ALIGN = 0
    BY <1>7, <1>9, <2>3, MultiplesAdd
  <2>5. cur[k] + DataSize(m, order[k]) \in Int
    BY <1>9, <2>3
  <2> QED
    BY <2>2, <2>4, <2>5, AlignedStays
<1> DEFINE S == {i \in 0 .. n : \A k \in 1 .. i : cur[k] \in Int /\ cur[k] % ALIGN = 0}
<1>10. n \in S
  <2>1. 0 \in S
    BY <1>1
  <2>2. ASSUME NEW i \in 1 .. n, i - 1 \in S PROVE i \in S
    <3>1. CASE i = 1
      BY <1>7, <1>8, <3>1
    <3>2. CASE i # 1
      <4>1. /\ i - 1 \in 1 .. n - 1 /\ (i - 1) + 1 = i
            /\ i - 1 \in 1 .. i - 1 /\ i - 1 \in 1 .. n
        BY <1>1, <3>2
      <4>2. cur[i - 1] \in Int /\ cur[i - 1] % ALIGN = 0
        BY <2>2, <4>1
      <4>3. cur[i] = cur[i - 1] + DataSize(m, order[i - 1]) /\ cur[i] % ALIGN = 0
        BY <1>9, <4>1, <4>2
      <4>4. cur[i] \in Int
        BY <1>5, <4>1, <4>2, <4>3
      <4> QED
        BY <2>2, <4>3, <4>4
    <3> QED
      BY <3>1, <3>2
  <2> HIDE DEF S
  <2> QED
    BY <1>1, <2>1, <2>2, UpTo
<1>11. \A k \in 1 .. n : cur[k] \in Int /\ cur[k] % ALIGN = 0
  BY <1>10
<1> HIDE DEF S
<1>12. table \in [T -> Int]
  <2>1. \A t \in T : (CHOOSE k \in 1 .. n : order[k] = t) \in 1 .. n
    BY <1>1
  <2> QED
    BY <1>3, <1>11, <2>1
<1>13. n >= 1 => table[order[1]] = 0
  BY <1>1, <1>4, <1>8
<1>14. \A k \in 1 .. n - 1 : table[order[k + 1]] = table[order[k]] + DataSize(m, order[k])
  <2> TAKE k \in 1 .. n - 1
  <2>1. k \in 1 .. n /\ k + 1 \in 1 .. n
    BY <1>1
  <2> QED
    BY <1>4, <1>9, <1>11, <2>1
<1> QED
  BY <1>12, <1>13, <1>14 DEF n, order, table

-----------------------------------------------------------------------------
(* The plan.                                                               *)

\* There are as many layers as the greatest number of one says.
LEMMA LayersCounted ==
  ASSUME NEW m \in Models
  PROVE  /\ CountLayers(m) \in Nat
         /\ HasLayers(m) <=> CountLayers(m) # 0
         /\ \A t \in Tensor(m) : m.layer[t] # NoLayer => m.layer[t] \in 0 .. CountLayers(m) - 1
<1>1. m.layer \in Seq(Nat \cup {NoLayer})
  BY SplitAssumption
<1>2. \A t \in Tensor(m) : m.layer[t] \in Nat \cup {NoLayer}
  BY <1>1 DEF Tensor
<1>3. CASE HasLayers(m)
  <2> DEFINE S == {m.layer[t] : t \in DOMAIN m.layer}
  <2>1. Max(S) \in S /\ Max(S) \in Nat /\ \A x \in S : x <= Max(S)
    BY <1>1, <1>3, Greatest DEF HasLayers, Tensor
  <2>2. CountLayers(m) = 1 + Max(S)
    BY <1>3 DEF CountLayers, Tensor
  <2>3. \A t \in Tensor(m) : m.layer[t] \in S
    BY DEF Tensor
  <2> HIDE DEF S
  <2> QED
    BY <1>2, <1>3, <2>1, <2>2, <2>3
<1>4. CASE ~HasLayers(m)
  BY <1>4 DEF CountLayers, HasLayers
<1> QED
  BY <1>3, <1>4

\* There is a shard if there is a layer, and no more of them than layers.
LEMMA ShardsCounted ==
  ASSUME NEW m \in Models, NEW n \in Nat \ {0}
  PROVE  /\ NumShards(m, n) \in 0 .. CountLayers(m)
         /\ HasLayers(m) => NumShards(m, n) # 0
         /\ 1 .. NumShards(m, n) \subseteq Shard
<1> DEFINE C == CountLayers(m)
           q == NumShards(m, n)
<1>1. C \in Nat /\ (HasLayers(m) => C # 0)
  BY LayersCounted
<1>2. q \in Nat /\ C <= q * n /\ (q - 1) * n < C
  BY <1>1, Ceiling DEF NumShards
<1> HIDE DEF C, q
<1>3. q <= C
  <2>1. q # 0 => q - 1 <= (q - 1) * n
    BY <1>2
  <2>2. (q - 1) * n \in Int
    BY <1>2
  <2> QED
    BY <1>1, <1>2, <2>1, <2>2
<1>4. C # 0 => q # 0
  BY <1>1, <1>2
<1>5. 1 .. q \subseteq 1 .. C /\ 1 .. C \subseteq Shard
  BY <1>1, <1>2, <1>3 DEF Shard, C
<1> QED
  BY <1>1, <1>2, <1>3, <1>4, <1>5 DEF C, q

\* Each tensor of a model with layers goes to exactly one shard of the plan.
LEMMA OneShardPerTensor ==
  ASSUME NEW m \in Models, NEW n \in Nat \ {0}, HasLayers(m), NEW t \in Tensor(m)
  PROVE  \E i \in 1 .. NumShards(m, n) :
           \A j \in 1 .. NumShards(m, n) : t \in ShardTensors(m, n, j) <=> i = j
<1> DEFINE C == CountLayers(m)
           q == NumShards(m, n)
           l == m.layer[t]
<1>1. C \in Nat \ {0} /\ (l # NoLayer => l \in 0 .. C - 1)
  BY LayersCounted
<1>2. q \in Nat \ {0} /\ C <= q * n
  BY <1>1, Ceiling, ShardsCounted DEF NumShards
<1>3. \A j \in 1 .. q : FirstLayer(n, j) = (j - 1) * n /\ FirstLayer(n, j) \in Nat
  BY <1>2 DEF FirstLayer
<1>4. CASE l = NoLayer
  <2>1. \A j \in 1 .. q : l \notin FirstLayer(n, j) .. LastLayer(m, n, j)
    BY <1>3, <1>4 DEF NoLayer
  <2>2. \A j \in 1 .. q : t \in ShardTensors(m, n, j) <=> j = q
    BY <1>4, <2>1 DEF ShardTensors
  <2>3. q \in 1 .. q
    BY <1>2
  <2> QED
    BY <2>2, <2>3
<1>5. CASE l # NoLayer
  <2>1. \A j \in 1 .. q :
          t \in ShardTensors(m, n, j) <=> l \in FirstLayer(n, j) .. LastLayer(m, n, j)
    BY <1>5 DEF ShardTensors
  <2>2. \A a, b \in Int : Min({a, b}) \in {a, b} /\ Min({a, b}) <= a /\ Min({a, b}) <= b
    <3> TAKE a, b \in Int
    <3>1. \E x \in {a, b} : \A y \in {a, b} : x <= y
      <4>1. CASE a <= b
        BY <4>1
      <4>2. CASE b <= a
        BY <4>2
      <4> QED
        BY <4>1, <4>2
    <3> QED
      BY <3>1 DEF Min
  <2> HIDE DEF C, q, l
  <2>3. \A j \in 1 .. q :
          l \in FirstLayer(n, j) .. LastLayer(m, n, j) <=> (j - 1) * n <= l /\ l < j * n
    <3> TAKE j \in 1 .. q
    <3> DEFINE after == FirstLayer(n, j) + n - 1
    <3>1. after \in Int /\ after = j * n - 1 /\ j * n \in Int /\ j \in Nat
      BY <1>2, <1>3
    <3>2. LastLayer(m, n, j) = Min({after, C - 1})
      BY DEF LastLayer, C
    <3> HIDE DEF after
    <3>3. /\ LastLayer(m, n, j) \in {after, C - 1}
          /\ LastLayer(m, n, j) <= after /\ LastLayer(m, n, j) <= C - 1
      BY <1>1, <2>2, <3>1, <3>2
    <3>4. l \in FirstLayer(n, j) .. LastLayer(m, n, j) <=> FirstLayer(n, j) <= l /\ l <= after
      BY <1>1, <1>3, <1>5, <3>1, <3>3
    <3> QED
      BY <1>1, <1>3, <1>5, <3>1, <3>4
  <2> DEFINE k == l \div n
  <2>4. k \in Nat /\ k * n <= l /\ l < (k + 1) * n
    BY <1>1, <1>5
  <2> HIDE DEF k
  <2>5. k < q
    BY <1>1, <1>2, <1>5, <2>4
  <2>6. \A j \in 1 .. q : (j - 1) * n <= l /\ l < j * n <=> k + 1 = j
    <3> TAKE j \in 1 .. q
    <3>1. CASE k + 1 = j
      <4>1. j - 1 = k
        BY <2>4, <3>1
      <4> QED
        BY <2>4, <3>1, <4>1
    <3>2. CASE k + 1 < j
      <4>1. (k + 1) * n <= (j - 1) * n
        BY <2>4, <3>2
      <4>2. (k + 1) * n \in Int /\ (j - 1) * n \in Int /\ l \in Int
        BY <1>1, <1>5, <2>4
      <4> QED
        BY <2>4, <3>2, <4>1, <4>2
    <3>3. CASE j < k + 1
      <4>1. j * n <= k * n
        BY <2>4, <3>3
      <4>2. j * n \in Int /\ k * n \in Int /\ l \in Int
        BY <1>1, <1>5, <2>4
      <4> QED
        BY <2>4, <3>3, <4>1, <4>2
    <3> QED
      BY <2>4, <3>1, <3>2, <3>3
  <2>7. k + 1 \in 1 .. q
    BY <1>2, <2>4, <2>5
  <2> QED
    BY <2>1, <2>3, <2>6, <2>7 DEF q
<1> QED
  BY <1>4, <1>5

-----------------------------------------------------------------------------
(* The invariant.                                                          *)

\* The run is inside main's loop over the shards.
Splitting == pc \in {"check", "create", "table", "data"}

\* Shard i is whole, and of this plan.
Made(i) == Whole(i) /\ files[i].model = model /\ files[i].perShard = perShard

\* A file has its fields and nothing else.
IsFile(f) ==
  f = [model |-> f.model, perShard |-> f.perShard, header |-> f.header, table |-> f.table,
       at |-> f.at, length |-> f.length]

DirectoryOK ==
  /\ files = [i \in DOMAIN files |-> files[i]]
  /\ \A i \in DOMAIN files : IsFile(files[i])

\* Only a run without --split writes a plan.
PlanOK == pc = "plan" => command = "plan"

\* Every shard before the one the run is at is made.
LoopOK ==
  Splitting =>
    /\ model \in Models
    /\ perShard \in Nat \ {0}
    /\ command = "split"
    /\ shard \in 1 .. NumShards(model, perShard)
    /\ \A i \in 1 .. shard - 1 : Made(i)

\* The shard it is at is its own, and nothing but it.
CreatedOK ==
  pc \in {"table", "data"} =>
    Exists(shard) /\ files[shard].model = model /\ files[shard].perShard = perShard

CreatedEmpty == pc = "table" => DOMAIN files[shard].at = {} /\ files[shard].length = 0

\* The data of the tensors before the next one is there, and ends where the last of
\* them ends by the table.
DataOK ==
  pc = "data" =>
    /\ files[shard].header
    /\ files[shard].table = NewOffsets(model, Tens)
    /\ next \in 1 .. Len(Order) + 1
    /\ DOMAIN files[shard].at = {Order[k] : k \in 1 .. next - 1}
    /\ files[shard].length =
         IF next = 1 THEN 0
         ELSE files[shard].table[Order[next - 1]] + DataSize(model, Order[next - 1])

\* A run creates only what it has not found, or may overwrite.
TouchedOK ==
  /\ found \subseteq DOMAIN files
  /\ wrote \subseteq DOMAIN files
  /\ command # "split" => wrote = {}
  /\ pc = "create" /\ ~force => ~Exists(shard)

\* A run that has split a model could do so.
SuccessOK ==
  pc = "success" /\ command = "split" =>
    /\ model \in Models
    /\ perShard \in Nat \ {0}
    /\ \A i \in 1 .. NumShards(model, perShard) : Made(i)

SplitInv ==
  /\ SplitTypeOK
  /\ DirectoryOK
  /\ PlanOK
  /\ LoopOK
  /\ CreatedOK
  /\ CreatedEmpty
  /\ DataOK
  /\ TouchedOK
  /\ SuccessOK
  /\ TablePointsAtData
  /\ FoundShardsSurvive

\* What a run may be told is a number.
LEMMA OptionsAreNumbers ==
  ASSUME NEW m \in Models \cup {Unreadable}
  PROVE  Options(m) \subseteq Nat
<1>1. LayersPerShard \subseteq Nat
  BY SplitAssumption
<1>2. CASE m = Unreadable
  BY <1>2 DEF Options
<1>3. CASE m # Unreadable
  <2>1. DefaultLayersPerShard(m) \in Nat
    BY <1>3, LayersCounted, Ceiling DEF DefaultLayersPerShard
  <2>2. Options(m) = LayersPerShard \cup NodeConfig \cup {DefaultLayersPerShard(m)}
    BY <1>3 DEF Options
  <2>3. NodeConfig \subseteq Nat
    BY <1>1 DEF NodeConfig
  <2> QED
    BY <1>1, <2>1, <2>2, <2>3
<1> QED
  BY <1>2, <1>3

\* A run that has its options begins with a plan, with the first of its shards, or
\* not at all.
LEMMA BeginsSplit ==
  ASSUME NEW m \in Models \cup {Unreadable}, NEW n \in Options(m),
         NEW c \in {"list", "plan", "split"}
  PROVE  /\ FirstPc(m, n, c) \in {"plan", "check", "success", "failure"}
         /\ FirstPc(m, n, c) = "plan" => c = "plan"
         /\ FirstPc(m, n, c) = "check" =>
              m \in Models /\ n \in Nat \ {0} /\ c = "split" /\ 1 \in 1 .. NumShards(m, n)
         /\ FirstPc(m, n, c) = "success" /\ c = "split" =>
              m \in Models /\ n \in Nat \ {0} /\ NumShards(m, n) = 0
<1>1. n \in Nat
  BY OptionsAreNumbers
<1>2. CASE m = Unreadable
  BY <1>2 DEF FirstPc
<1>3. CASE m # Unreadable /\ c = "list"
  BY <1>3 DEF FirstPc
<1>4. CASE m # Unreadable /\ c # "list" /\ n = 0
  BY <1>4 DEF FirstPc
<1>5. CASE m # Unreadable /\ c = "plan" /\ n # 0
  BY <1>1, <1>5 DEF FirstPc
<1>6. CASE m # Unreadable /\ c = "split" /\ n # 0
  <2>1. FirstPc(m, n, c) = IF NumShards(m, n) = 0 THEN "success" ELSE "check"
    BY <1>6 DEF FirstPc
  <2>2. NumShards(m, n) \in Nat
    BY <1>1, <1>6, ShardsCounted, LayersCounted
  <2> QED
    BY <1>1, <1>6, <2>1, <2>2
<1> QED
  BY <1>2, <1>3, <1>4, <1>5, <1>6

\* It holds when the tool is run for the first time, in an empty directory.
LEMMA SplitInitInv == SplitInit => SplitInv
<1> SUFFICES ASSUME NEW m \in Models \cup {Unreadable}, FirstRunOn(m) PROVE SplitInv
  BY DEF SplitInit
<1> USE DEF FirstRunOn
<1>1. DOMAIN files = {}
  BY DEF Empty
<1>2. /\ pc \in {"plan", "check", "success", "failure"}
      /\ pc = "plan" => command = "plan"
      /\ pc = "check" => model \in Models /\ perShard \in Nat \ {0} /\ command = "split"
                         /\ 1 \in 1 .. NumShards(model, perShard)
      /\ pc = "success" /\ command = "split" =>
           model \in Models /\ perShard \in Nat \ {0} /\ NumShards(model, perShard) = 0
  BY BeginsSplit
<1>3. SplitTypeOK
  BY <1>1, <1>2 DEF SplitTypeOK
<1>4. DirectoryOK
  BY <1>1 DEF DirectoryOK, Empty
<1>5. PlanOK /\ LoopOK /\ SuccessOK
  BY <1>2 DEF PlanOK, LoopOK, SuccessOK, Splitting
<1>6. CreatedOK /\ CreatedEmpty /\ DataOK /\ TouchedOK /\ FoundShardsSurvive /\ TablePointsAtData
  BY <1>1, <1>2
     DEF CreatedOK, CreatedEmpty, DataOK, TouchedOK, FoundShardsSurvive, TablePointsAtData
<1> QED
  BY <1>3, <1>4, <1>5, <1>6 DEF SplitInv

\* The tool is run again.
LEMMA RunOnInv ==
  ASSUME SplitInv, NEW m \in Models \cup {Unreadable}, RunOn(m) PROVE SplitInv'
<1> USE DEF RunOn
<1>1. /\ pc' \in {"plan", "check", "success", "failure"}
      /\ pc' = "plan" => command' = "plan"
      /\ pc' = "check" => model' \in Models /\ perShard' \in Nat \ {0} /\ command' = "split"
                          /\ 1 \in 1 .. NumShards(model', perShard')
      /\ pc' = "success" /\ command' = "split" =>
           model' \in Models /\ perShard' \in Nat \ {0} /\ NumShards(model', perShard') = 0
  BY BeginsSplit
<1>2. SplitTypeOK'
  BY <1>1 DEF SplitTypeOK, SplitInv
<1>3. DirectoryOK' /\ TablePointsAtData'
  BY DEF DirectoryOK, IsFile, TablePointsAtData, SplitInv
<1>4. PlanOK' /\ LoopOK' /\ SuccessOK'
  BY <1>1 DEF PlanOK, LoopOK, SuccessOK, Splitting
<1>5. CreatedOK' /\ CreatedEmpty' /\ DataOK' /\ TouchedOK' /\ FoundShardsSurvive'
  BY <1>1 DEF CreatedOK, CreatedEmpty, DataOK, TouchedOK, FoundShardsSurvive
<1> QED
  BY <1>2, <1>3, <1>4, <1>5 DEF SplitInv

\* The steps that change no file: the plan, the look for a shard that exists, the end
\* of a run.
LEMMA QuietInv ==
  ASSUME SplitInv, WritePlan \/ CheckExists \/ Abort PROVE SplitInv'
<1>1. /\ UNCHANGED <<model, perShard, command, force, shard, next, found, wrote, files>>
      /\ \/ pc = "plan" /\ pc' = "success"
         \/ pc = "check" /\ pc' = "failure"
         \/ pc = "check" /\ pc' = "create" /\ (~force => ~Exists(shard))
         \/ pc' = "failure"
  BY DEF WritePlan, CheckExists, Abort
<1>2. \A i : Made(i)' <=> Made(i)
  BY <1>1 DEF Made, Whole, Exists
<1>3. SplitTypeOK'
  BY <1>1 DEF SplitTypeOK, SplitInv
<1>4. DirectoryOK' /\ TablePointsAtData'
  BY <1>1 DEF DirectoryOK, IsFile, TablePointsAtData, SplitInv
<1>5. PlanOK' /\ LoopOK' /\ SuccessOK'
  BY <1>1, <1>2 DEF PlanOK, LoopOK, SuccessOK, Splitting, SplitInv
<1>6. CreatedOK' /\ CreatedEmpty' /\ DataOK'
  BY <1>1 DEF CreatedOK, CreatedEmpty, DataOK
<1>7. TouchedOK' /\ FoundShardsSurvive'
  BY <1>1 DEF TouchedOK, FoundShardsSurvive, Exists, SplitInv
<1> QED
  BY <1>3, <1>4, <1>5, <1>6, <1>7 DEF SplitInv

\* A step that changes no file but the one of the shard the run is at, from which on
\* it goes on inside the loop.
LEMMA LoopKept ==
  ASSUME SplitInv, Splitting, pc' \in {"create", "table", "data"},
         \A i \in DOMAIN files \ {shard} : i \in DOMAIN files' /\ files'[i] = files[i],
         UNCHANGED <<model, perShard, command, shard>>
  PROVE  PlanOK' /\ LoopOK' /\ SuccessOK'
<1>1. \A i \in 1 .. shard - 1 : Made(i)'
  <2> TAKE i \in 1 .. shard - 1
  <2>1. Made(i) /\ i # shard
    BY DEF LoopOK, SplitInv
  <2> QED
    BY <2>1 DEF Made, Whole, Exists
<1> QED
  BY <1>1 DEF PlanOK, LoopOK, SuccessOK, Splitting, SplitInv

\* The file of a shard is created, or truncated.
LEMMA CreateInv == ASSUME SplitInv, Create PROVE SplitInv'
<1>1. /\ pc = "create" /\ pc' = "table"
      /\ files' = Put(files, shard, File(model, perShard))
      /\ wrote' = wrote \cup {shard}
      /\ UNCHANGED <<model, perShard, command, force, shard, next, found>>
  BY DEF Create
<1>2. /\ model \in Models /\ perShard \in Nat \ {0} /\ command = "split"
      /\ shard \in 1 .. NumShards(model, perShard) /\ shard \in Shard
  BY <1>1, ShardsCounted DEF LoopOK, Splitting, SplitInv
<1>3. /\ DOMAIN files' = DOMAIN files \cup {shard}
      /\ files'[shard] = File(model, perShard)
      /\ \A i \in DOMAIN files \ {shard} : files'[i] = files[i]
      /\ files' = [i \in DOMAIN files' |-> files'[i]]
  BY <1>1 DEF Put
<1>4. /\ IsFile(files'[shard]) /\ files'[shard].model = model
      /\ files'[shard].perShard = perShard
      /\ DOMAIN files'[shard].at = {} /\ files'[shard].length = 0
  BY <1>3 DEF IsFile, File, Empty
<1>5. SplitTypeOK'
  BY <1>1, <1>2, <1>3, <1>4 DEF SplitTypeOK, SplitInv
<1>6. DirectoryOK'
  BY <1>3, <1>4 DEF DirectoryOK, IsFile, SplitInv
<1>7. PlanOK' /\ LoopOK' /\ SuccessOK'
  BY <1>1, <1>3, LoopKept DEF Splitting
<1>8. CreatedOK' /\ CreatedEmpty' /\ DataOK'
  BY <1>1, <1>3, <1>4 DEF CreatedOK, CreatedEmpty, DataOK, Exists
<1>9. TablePointsAtData'
  BY <1>3, <1>4 DEF TablePointsAtData, SplitInv
<1>10. TouchedOK'
  BY <1>1, <1>2, <1>3 DEF TouchedOK, SplitInv
<1>11. FoundShardsSurvive'
  BY <1>1, <1>2 DEF FoundShardsSurvive, TouchedOK, Exists, SplitInv
<1> QED
  BY <1>5, <1>6, <1>7, <1>8, <1>9, <1>10, <1>11 DEF SplitInv

\* What the loop knows of the tensors of its shard.
LEMMA TensOK ==
  ASSUME SplitInv, Splitting
  PROVE  /\ PartOf(Tens, model)
         /\ Len(Order) \in Nat
         /\ \A k \in 1 .. Len(Order) : Order[k] \in Tens
         /\ \A t \in Tens : \E k \in 1 .. Len(Order) : Order[k] = t
         /\ \A j, k \in 1 .. Len(Order) : Order[j] = Order[k] => j = k
<1>1. PartOf(Tens, model)
  BY DEF PartOf, Tens, ShardTensors, LoopOK, SplitInv
<1> QED
  BY <1>1, OrderSorts DEF Order

\* The header and the table are written.
LEMMA WriteTableInv == ASSUME SplitInv, WriteTable PROVE SplitInv'
<1> DEFINE table == NewOffsets(model, Tens)
           f == [files[shard] EXCEPT !.header = TRUE, !.table = table]
<1>1. /\ pc = "table" /\ pc' = "data" /\ next' = 1
      /\ files' = [files EXCEPT ![shard] = f]
      /\ UNCHANGED <<model, perShard, command, force, shard, found, wrote>>
  BY DEF WriteTable
<1>2. /\ shard \in DOMAIN files /\ IsFile(files[shard])
      /\ files[shard].model = model /\ files[shard].perShard = perShard
      /\ DOMAIN files[shard].at = {} /\ files[shard].length = 0
  BY <1>1 DEF CreatedOK, CreatedEmpty, DirectoryOK, Exists, SplitInv
<1> HIDE DEF table
<1>3. /\ IsFile(f) /\ f.model = model /\ f.perShard = perShard /\ f.header /\ f.table = table
      /\ DOMAIN f.at = {} /\ f.length = 0
  <2> DEFINE old == files[shard]
  <2>1. IsFile(old) /\ f = [old EXCEPT !.header = TRUE, !.table = table]
    BY <1>2
  <2> HIDE DEF f, old
  <2>2. /\ IsFile(f) /\ f.model = old.model /\ f.perShard = old.perShard /\ f.header
        /\ f.table = table /\ f.at = old.at /\ f.length = old.length
    BY <2>1 DEF IsFile
  <2> QED
    BY <1>2, <2>2 DEF old
<1> HIDE DEF f
<1>4. /\ DOMAIN files' = DOMAIN files
      /\ files'[shard] = f
      /\ \A i \in DOMAIN files \ {shard} : files'[i] = files[i]
      /\ files' = [i \in DOMAIN files' |-> files'[i]]
  BY <1>1, <1>2
<1>5. Tens' = Tens /\ Order' = Order
  BY <1>1 DEF Tens, Order
<1>6. SplitTypeOK'
  BY <1>1, <1>2, <1>3, <1>4 DEF SplitTypeOK, SplitInv
<1>7. DirectoryOK'
  BY <1>3, <1>4 DEF DirectoryOK, IsFile, SplitInv
<1>8. PlanOK' /\ LoopOK' /\ SuccessOK'
  BY <1>1, <1>4, LoopKept DEF Splitting
<1>9. CreatedOK' /\ CreatedEmpty'
  BY <1>1, <1>2, <1>3, <1>4 DEF CreatedOK, CreatedEmpty, Exists
<1>10. DataOK'
  <2>1. next' \in 1 .. Len(Order') + 1 /\ {Order'[k] : k \in 1 .. next' - 1} = {}
    BY <1>1, <1>5, TensOK DEF Splitting
  <2>2. files'[shard'].table = NewOffsets(model', Tens')
    BY <1>1, <1>3, <1>4, <1>5 DEF table
  <2> QED
    BY <1>1, <1>3, <1>4, <2>1, <2>2 DEF DataOK
<1>11. TablePointsAtData'
  BY <1>3, <1>4 DEF TablePointsAtData, SplitInv
<1>12. TouchedOK' /\ FoundShardsSurvive'
  BY <1>1, <1>4 DEF TouchedOK, FoundShardsSurvive, SplitInv
<1> QED
  BY <1>6, <1>7, <1>8, <1>9, <1>10, <1>11, <1>12 DEF SplitInv

\* One more tensor's data is appended, where the table says.
LEMMA WriteDataInv == ASSUME SplitInv, WriteData PROVE SplitInv'
<1> DEFINE t == Order[next]
           size == DataSize(model, t)
           old == files[shard]
           f == [old EXCEPT !.at = Put(@, t, old.length), !.length = @ + size]
<1>1. /\ pc = "data" /\ pc' = "data" /\ next \in 1 .. Len(Order) /\ next' = next + 1
      /\ files' = [files EXCEPT ![shard] = f]
      /\ UNCHANGED <<model, perShard, command, force, shard, found, wrote>>
  BY DEF WriteData
<1>2. /\ shard \in DOMAIN files /\ IsFile(old)
      /\ old.model = model /\ old.perShard = perShard /\ old.header
      /\ old.table = NewOffsets(model, Tens)
      /\ DOMAIN old.at = {Order[k] : k \in 1 .. next - 1}
      /\ old.length = IF next = 1 THEN 0
                      ELSE old.table[Order[next - 1]] + DataSize(model, Order[next - 1])
      /\ \A u \in DOMAIN old.at : old.at[u] = old.table[u]
  BY <1>1 DEF CreatedOK, DataOK, DirectoryOK, TablePointsAtData, Exists, SplitInv
<1>3. /\ PartOf(Tens, model) /\ Len(Order) \in Nat
      /\ \A k \in 1 .. Len(Order) : Order[k] \in Tens
      /\ \A j, k \in 1 .. Len(Order) : Order[j] = Order[k] => j = k
  BY <1>1, TensOK DEF Splitting
\* The data begins where the table says.
<1>4. old.length = old.table[t]
  <2>1. CASE next = 1
    <3>1. Len(Order) >= 1
      BY <1>1, <1>3, <2>1
    <3> QED
      BY <1>2, <1>3, <2>1, <3>1, OffsetsLeaveNoGaps DEF Order
  <2>2. CASE next # 1
    <3>1. next - 1 \in 1 .. Len(Order) - 1 /\ (next - 1) + 1 = next
      BY <1>1, <1>3, <2>2
    <3> QED
      BY <1>2, <1>3, <2>2, <3>1, OffsetsLeaveNoGaps DEF Order
  <2> QED
    BY <2>1, <2>2
<1>5. t \in Tens /\ t \in Tensor(model)
  BY <1>1, <1>3 DEF PartOf
<1> HIDE DEF t, size, old
<1>6. /\ IsFile(f) /\ f.model = model /\ f.perShard = perShard /\ f.header
      /\ f.table = old.table /\ f.at = Put(old.at, t, old.length) /\ f.length = old.length + size
  <2> DEFINE at == Put(old.at, t, old.length)
             length == old.length + size
  <2>1. f = [old EXCEPT !.at = at, !.length = length]
    BY <1>2 DEF IsFile
  <2> HIDE DEF f, at, length
  <2>2. /\ IsFile(f) /\ f.model = old.model /\ f.perShard = old.perShard
        /\ f.header = old.header /\ f.table = old.table /\ f.at = at /\ f.length = length
    BY <1>2, <2>1 DEF IsFile
  <2> QED
    BY <1>2, <2>2 DEF at, length
<1>7. DOMAIN f.at = DOMAIN old.at \cup {t} /\ \A u \in DOMAIN f.at : f.at[u] = f.table[u]
  BY <1>2, <1>4, <1>6 DEF Put
<1> HIDE DEF f
<1>8. /\ DOMAIN files' = DOMAIN files
      /\ files'[shard] = f
      /\ \A i \in DOMAIN files \ {shard} : files'[i] = files[i]
      /\ files' = [i \in DOMAIN files' |-> files'[i]]
  BY <1>1, <1>2 DEF old
<1>9. Tens' = Tens /\ Order' = Order
  BY <1>1 DEF Tens, Order
<1>10. SplitTypeOK'
  <2>1. \A i \in DOMAIN files' :
          files'[i].model \in Models /\ DOMAIN files'[i].at \subseteq Tensor(files'[i].model)
    BY <1>2, <1>5, <1>6, <1>7, <1>8 DEF SplitTypeOK, SplitInv, old
  <2>2. next' \in Nat
    BY <1>1
  <2> QED
    BY <1>1, <1>8, <2>1, <2>2 DEF SplitTypeOK, SplitInv
<1>11. DirectoryOK'
  BY <1>6, <1>8 DEF DirectoryOK, IsFile, SplitInv
<1>12. PlanOK' /\ LoopOK' /\ SuccessOK'
  BY <1>1, <1>8, LoopKept DEF Splitting
<1>13. CreatedOK' /\ CreatedEmpty'
  BY <1>1, <1>2, <1>6, <1>8 DEF CreatedOK, CreatedEmpty, Exists
<1>14. DataOK'
  <2>1. next' \in 1 .. Len(Order') + 1 /\ next' # 1 /\ next' - 1 = next
    BY <1>1, <1>3, <1>9
  <2>2. DOMAIN f.at = {Order[k] : k \in 1 .. next}
    <3>1. 1 .. next = (1 .. next - 1) \cup {next}
      BY <1>1
    <3> QED
      BY <1>2, <1>7, <3>1 DEF t
  <2>3. f.length = f.table[Order[next]] + DataSize(model, Order[next])
    BY <1>4, <1>6 DEF t, size
  <2> QED
    BY <1>1, <1>2, <1>6, <1>8, <1>9, <2>1, <2>2, <2>3 DEF DataOK
<1>15. TablePointsAtData'
  BY <1>7, <1>8 DEF TablePointsAtData, SplitInv
<1>16. TouchedOK' /\ FoundShardsSurvive'
  BY <1>1, <1>8 DEF TouchedOK, FoundShardsSurvive, SplitInv
<1> QED
  BY <1>10, <1>11, <1>12, <1>13, <1>14, <1>15, <1>16 DEF SplitInv

\* The last tensor of a shard is written: the shard is made.
LEMMA NextShardInv == ASSUME SplitInv, NextShard PROVE SplitInv'
<1>1. /\ pc = "data" /\ next > Len(Order)
      /\ \/ shard = NumShards(model, perShard) /\ pc' = "success" /\ shard' = shard
         \/ shard # NumShards(model, perShard) /\ pc' = "check" /\ shard' = shard + 1
      /\ UNCHANGED <<model, perShard, command, force, next, found, wrote, files>>
  BY DEF NextShard
<1>2. /\ model \in Models /\ perShard \in Nat \ {0} /\ command = "split"
      /\ shard \in 1 .. NumShards(model, perShard) /\ NumShards(model, perShard) \in Nat
      /\ \A i \in 1 .. shard - 1 : Made(i)
  BY <1>1, ShardsCounted, LayersCounted DEF LoopOK, Splitting, SplitInv
<1>3. Made(shard)
  <2>1. /\ Exists(shard) /\ files[shard].model = model /\ files[shard].perShard = perShard
        /\ files[shard].header /\ files[shard].table = NewOffsets(model, Tens)
        /\ next \in 1 .. Len(Order) + 1
        /\ DOMAIN files[shard].at = {Order[k] : k \in 1 .. next - 1}
    BY <1>1 DEF CreatedOK, DataOK, SplitInv
  <2>2. /\ PartOf(Tens, model) /\ Len(Order) \in Nat
        /\ \A k \in 1 .. Len(Order) : Order[k] \in Tens
        /\ \A t \in Tens : \E k \in 1 .. Len(Order) : Order[k] = t
    BY <1>1, TensOK DEF Splitting
  <2>3. next - 1 = Len(Order)
    BY <1>1, <2>1, <2>2
  <2>4. {Order[k] : k \in 1 .. next - 1} = Tens
    BY <2>2, <2>3
  <2>5. DOMAIN files[shard].table = Tens
    BY <2>1, <2>2, OffsetsLeaveNoGaps
  <2> QED
    BY <2>1, <2>4, <2>5 DEF Made, Whole, Tens
<1>4. \A i \in 1 .. shard : Made(i)'
  <2>1. \A i \in 1 .. shard : Made(i)
    BY <1>2, <1>3
  <2> QED
    BY <1>1, <2>1 DEF Made, Whole, Exists
<1>5. SplitTypeOK'
  BY <1>1, <1>2 DEF SplitTypeOK, SplitInv
<1>6. DirectoryOK' /\ TablePointsAtData'
  BY <1>1 DEF DirectoryOK, IsFile, TablePointsAtData, SplitInv
<1>7. PlanOK' /\ LoopOK' /\ SuccessOK'
  <2>1. shard' \in 1 .. NumShards(model, perShard)
    BY <1>1, <1>2
  <2>2. pc' = "check" => shard' - 1 = shard
    BY <1>1, <1>2
  <2> QED
    BY <1>1, <1>2, <1>4, <2>1, <2>2 DEF PlanOK, LoopOK, SuccessOK, Splitting
<1>8. CreatedOK' /\ CreatedEmpty' /\ DataOK'
  BY <1>1 DEF CreatedOK, CreatedEmpty, DataOK
<1>9. TouchedOK' /\ FoundShardsSurvive'
  BY <1>1 DEF TouchedOK, FoundShardsSurvive, SplitInv
<1> QED
  BY <1>5, <1>6, <1>7, <1>8, <1>9 DEF SplitInv

\* No step breaks it.
LEMMA SplitStepInv == SplitInv /\ [SplitNext]_splitVars => SplitInv'
<1> SUFFICES ASSUME SplitInv, [SplitNext]_splitVars PROVE SplitInv'
  OBVIOUS
<1>1. CASE RunStep
  BY <1>1, QuietInv, CreateInv, WriteTableInv, WriteDataInv, NextShardInv DEF RunStep
<1>2. CASE Rerun
  BY <1>2, RunOnInv DEF Rerun
<1>3. CASE UNCHANGED splitVars
  <2>1. UNCHANGED <<model, perShard, command, force, pc, shard, next, found, wrote, files>>
    BY <1>3 DEF splitVars
  <2>2. \A i : Made(i)' <=> Made(i)
    BY <2>1 DEF Made, Whole, Exists
  <2>3. Tens' = Tens /\ Order' = Order
    BY <2>1 DEF Tens, Order
  <2>4. SplitTypeOK' /\ DirectoryOK' /\ TablePointsAtData' /\ FoundShardsSurvive'
    BY <2>1 DEF SplitTypeOK, DirectoryOK, IsFile, TablePointsAtData, FoundShardsSurvive, SplitInv
  <2>5. PlanOK' /\ LoopOK' /\ SuccessOK' /\ TouchedOK'
    BY <2>1, <2>2 DEF PlanOK, LoopOK, SuccessOK, TouchedOK, Splitting, Exists, SplitInv
  <2>6. CreatedOK' /\ CreatedEmpty' /\ DataOK'
    BY <2>1, <2>3 DEF CreatedOK, CreatedEmpty, DataOK, Exists, SplitInv
  <2> QED
    BY <2>4, <2>5, <2>6 DEF SplitInv
<1> QED
  BY <1>1, <1>2, <1>3 DEF SplitNext

\* It holds as long as the tool is run, and run again.
LEMMA SplitCorrect == SplitSpec => []SplitInv
<1>1. SplitInit => SplitInv
  BY SplitInitInv
<1>2. SplitInv /\ [SplitNext]_splitVars => SplitInv'
  BY SplitStepInv
<1> QED
  BY <1>1, <1>2, PTL DEF SplitSpec

-----------------------------------------------------------------------------
(* The results.                                                            *)

\* The runs on files are runs on what the files hold, which FileNext draws from them: what
\* is proved of the splitter on models carries over.
LEMMA FilesAreSplit == FileSpec => SplitSpec
<1>1. FileInit => SplitInit
  <2> SUFFICES ASSUME file \in Files, FirstRunOn(Contents(file)) PROVE SplitInit
    BY DEF FileInit
  <2>1. Contents(file) \in Models \cup {Unreadable}
    BY FileAssumption
  <2> QED
    BY <2>1 DEF SplitInit
<1>2. [FileNext]_fileVars => [SplitNext]_splitVars
  <2> SUFFICES ASSUME [FileNext]_fileVars PROVE [SplitNext]_splitVars
    OBVIOUS
  <2>1. CASE RunStep
    BY <2>1 DEF SplitNext
  <2>2. ASSUME NEW f \in LaterFiles, RunOn(Contents(f)) PROVE SplitNext
    <3>1. Contents(f) \in Models \cup {Unreadable}
      BY FileAssumption
    <3> QED
      BY <2>2, <3>1 DEF SplitNext, Rerun
  <2>3. CASE UNCHANGED fileVars
    BY <2>3 DEF fileVars
  <2> QED
    BY <2>1, <2>2, <2>3 DEF FileNext
<1> QED
  BY <1>1, <1>2, PTL DEF FileSpec, SplitSpec

\* The variables have their types, a shard file its model and only data of tensors
\* that the model has.
THEOREM SplitTyped == FileSpec => []SplitTypeOK
<1>1. SplitInv => SplitTypeOK
  BY DEF SplitInv
<1> QED
  BY <1>1, FilesAreSplit, SplitCorrect, PTL

\* main reports success only when every shard of its plan is whole, of this model and
\* of this plan, whatever earlier runs have left in the directory.
THEOREM SuccessMeansWhole == FileSpec => []SuccessIsWhole
<1>1. SplitInv => SuccessIsWhole
  BY DEF SplitInv, SuccessOK, Made, SuccessIsWhole
<1> QED
  BY <1>1, FilesAreSplit, SplitCorrect, PTL

\* And then every tensor of a model with layers is in the table of exactly one of
\* its shards.
THEOREM TensorsAreSplit == FileSpec => []EveryTensorOnce
<1>1. SplitInv => EveryTensorOnce
  <2> SUFFICES ASSUME SplitInv, pc = "success", command = "split", HasLayers(model),
                      NEW t \in Tensor(model)
               PROVE  \E i \in 1 .. NumShards(model, perShard) :
                        \A j \in 1 .. NumShards(model, perShard) :
                          t \in DOMAIN files[j].table <=> i = j
    BY DEF EveryTensorOnce
  <2>1. /\ model \in Models /\ perShard \in Nat \ {0}
        /\ \A j \in 1 .. NumShards(model, perShard) :
             DOMAIN files[j].table = ShardTensors(model, perShard, j)
    BY DEF SplitInv, SuccessOK, Made, Whole
  <2>2. \E i \in 1 .. NumShards(model, perShard) :
          \A j \in 1 .. NumShards(model, perShard) :
            t \in ShardTensors(model, perShard, j) <=> i = j
    BY <2>1, OneShardPerTensor
  <2> QED
    BY <2>1, <2>2
<1> QED
  BY <1>1, FilesAreSplit, SplitCorrect, PTL

\* In every file, however far it was written, the data of a tensor begins where the
\* table says: new_offsets, which write_shard computes ahead with its padding, and
\* the data it then appends without padding agree.
THEOREM OffsetsPointAtData == FileSpec => []TablePointsAtData
<1>1. SplitInv => TablePointsAtData
  BY DEF SplitInv
<1> QED
  BY <1>1, FilesAreSplit, SplitCorrect, PTL

\* A shard that was there before is not touched without --force.
THEOREM NothingIsOverwritten == FileSpec => []FoundShardsSurvive
<1>1. SplitInv => FoundShardsSurvive
  BY DEF SplitInv
<1> QED
  BY <1>1, FilesAreSplit, SplitCorrect, PTL
=============================================================================
