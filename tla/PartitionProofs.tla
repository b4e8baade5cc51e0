-------------------------- MODULE PartitionProofs --------------------------
(***************************************************************************)
(* Proofs about Partition, for any number of nodes, scores and layers.     *)
(*                                                                         *)
(* Induction over the nodes is by the least counterexample: a set of       *)
(* natural numbers that is not empty has a least element (NatMin), from    *)
(* which Interval, the facts on sums and the extremes of scores follow.    *)
(***************************************************************************)
EXTENDS Partition, TLAPS, WellFoundedInduction, FiniteSetTheorems

\* A set of natural numbers that is not empty has a least element.
LEMMA NatMin == ASSUME NEW T, T \subseteq Nat, T # {}
                PROVE  \E x \in T : \A y \in T : x <= y
<1> DEFINE R == OpToRel(<, Nat)
<1>1. IsWellFoundedOn(R, Nat)
  BY NatLessThanWellFounded
<1>2. \A x, y \in Nat : <<x, y>> \in R <=> x < y
  BY DEF OpToRel
<1> HIDE DEF R
<1>3. PICK x \in T : \A y \in T : ~(<<y, x>> \in R)
  BY <1>1, WFMin
<1>4. \A y \in T : ~(y < x) /\ y \in Nat /\ x \in Nat
  BY <1>2, <1>3
<1>5. \A y \in T : x <= y
  BY <1>4
<1> QED
  BY <1>3, <1>5

\* Induction from 0 to M, with a set in the place of the predicate.
LEMMA Interval ==
  ASSUME NEW M \in Nat, NEW S, 0 \in S, \A i \in 1 .. M : i - 1 \in S => i \in S
  PROVE  \A i \in 0 .. M : i \in S
<1> DEFINE T == (0 .. M) \ S
<1>1. SUFFICES ASSUME T # {} PROVE FALSE
  OBVIOUS
<1>2. T \subseteq Nat
  OBVIOUS
<1> HIDE DEF T
<1>3. PICK x \in T : \A y \in T : x <= y
  BY <1>1, <1>2, NatMin
<1>4. x \in 1 .. M /\ x - 1 \in 0 .. M /\ x - 1 \notin T
  BY <1>2, <1>3 DEF T
<1>5. x - 1 \in S
  BY <1>4 DEF T
<1> QED
  BY <1>3, <1>4, <1>5 DEF T

\* g is the sum function of f up to k.
SumEq(f, g, k) == g = [i \in 0 .. k |-> IF i = 0 THEN 0 ELSE g[i - 1] + f[i]]

\* The recursive definition of Sum has a solution.
LEMMA SumExists == ASSUME NEW f PROVE \E g : SumEq(f, g, N)
<1> DEFINE S == {k \in 0 .. N : \E g : SumEq(f, g, k)}
<1>0. N \in Nat
  BY PartitionAssumption
<1>1. 0 \in S
  <2>1. SumEq(f, [i \in 0 .. 0 |-> 0], 0)
    BY DEF SumEq
  <2> QED
    BY <2>1, <1>0
<1>2. ASSUME NEW k \in 1 .. N, k - 1 \in S PROVE k \in S
  <2>1. PICK g : SumEq(f, g, k - 1)
    BY <1>2
  <2> DEFINE h == [i \in 0 .. k |-> IF i = k THEN g[k - 1] + f[k] ELSE g[i]]
  <2>2. \A i \in 0 .. k : h[i] = IF i = 0 THEN 0 ELSE h[i - 1] + f[i]
    <3> SUFFICES ASSUME NEW i \in 0 .. k
                 PROVE  h[i] = IF i = 0 THEN 0 ELSE h[i - 1] + f[i]
      OBVIOUS
    <3>1. CASE i = k
      BY <3>1, <1>0
    <3>2. CASE i # k
      <4>1. i \in 0 .. k - 1
        BY <3>2, <1>0
      <4>2. g[i] = IF i = 0 THEN 0 ELSE g[i - 1] + f[i]
        BY <2>1, <4>1 DEF SumEq
      <4>3. i # 0 => i - 1 \in 0 .. k /\ i - 1 # k
        BY <4>1, <1>0
      <4> QED
        BY <4>2, <4>3, <3>2
    <3> QED
      BY <3>1, <3>2
  <2>3. SumEq(f, h, k)
    BY <2>2 DEF SumEq
  <2> HIDE DEF h
  <2> QED
    BY <2>3
<1> HIDE DEF S
<1>3. N \in S
  BY <1>0, <1>1, <1>2, Interval
<1> QED
  BY <1>3 DEF S

\* The equations of Sum (total_allocated and current_layer add up so).
LEMMA SumRec == ASSUME NEW f
  PROVE /\ Sum(f)[0] = 0
        /\ \A i \in Nodes : Sum(f)[i] = Sum(f)[i - 1] + f[i]
<1>1. SumEq(f, Sum(f), N)
  BY SumExists DEF SumEq, Sum
<1> QED
  BY <1>1, PartitionAssumption DEF SumEq, Nodes

\* Sums of counts are counts.
LEMMA SumNat == ASSUME NEW f \in [Nodes -> Nat]
  PROVE \A i \in 0 .. N : Sum(f)[i] \in Nat
<1> DEFINE S == {i \in 0 .. N : Sum(f)[i] \in Nat}
<1>1. 0 \in S
  BY SumRec, PartitionAssumption
<1>2. ASSUME NEW i \in 1 .. N, i - 1 \in S PROVE i \in S
  <2>1. i \in Nodes
    BY DEF Nodes
  <2>2. Sum(f)[i] = Sum(f)[i - 1] + f[i] /\ f[i] \in Nat
    BY <2>1, SumRec
  <2> QED
    BY <1>2, <2>2, PartitionAssumption
<1> HIDE DEF S
<1>3. \A i \in 0 .. N : i \in S
  BY <1>1, <1>2, Interval, PartitionAssumption
<1> QED
  BY <1>3 DEF S

\* Sums grow, by at least the last value added.
LEMMA SumGrows ==
  ASSUME NEW f \in [Nodes -> Nat], NEW i \in Nodes, NEW j \in i .. N
  PROVE  Sum(f)[j] >= Sum(f)[i - 1] + f[i]
<1> DEFINE S == {k \in 0 .. N : i + k <= N => Sum(f)[i + k] >= Sum(f)[i - 1] + f[i]}
<1>0. /\ N \in Nat /\ i \in Nat /\ i >= 1 /\ i <= N /\ Nodes = 1 .. N
      /\ \A k \in 0 .. N : Sum(f)[k] \in Nat
      /\ \A k \in Nodes : Sum(f)[k] = Sum(f)[k - 1] + f[k] /\ f[k] \in Nat
  <2>1. N \in Nat /\ i \in Nat /\ i >= 1 /\ i <= N /\ Nodes = 1 .. N
    BY PartitionAssumption DEF Nodes
  <2>2. \A k \in Nodes : Sum(f)[k] = Sum(f)[k - 1] + f[k] /\ f[k] \in Nat
    BY SumRec
  <2> QED
    BY <2>1, <2>2, SumNat
<1>1. 0 \in S
  BY <1>0
<1>2. ASSUME NEW k \in 1 .. N, k - 1 \in S PROVE k \in S
  <2> SUFFICES ASSUME i + k <= N PROVE Sum(f)[i + k] >= Sum(f)[i - 1] + f[i]
    BY <1>0
  <2>1. i + (k - 1) <= N /\ i + (k - 1) = (i + k) - 1 /\ i + k \in Nodes
    BY <1>0
  <2>2. Sum(f)[i + (k - 1)] >= Sum(f)[i - 1] + f[i]
    BY <1>2, <2>1
  <2>3. Sum(f)[i + k] = Sum(f)[(i + k) - 1] + f[i + k] /\ f[i + k] \in Nat
    BY <1>0, <2>1
  <2>4. Sum(f)[(i + k) - 1] \in Nat /\ Sum(f)[i - 1] \in Nat /\ f[i] \in Nat
    BY <1>0, <2>1
  <2> QED
    BY <2>1, <2>2, <2>3, <2>4
<1> HIDE DEF S
<1>3. \A k \in 0 .. N : k \in S
  BY <1>0, <1>1, <1>2, Interval
<1>4. j - i \in S /\ i + (j - i) = j /\ j <= N
  BY <1>0, <1>3
<1> QED
  BY <1>4 DEF S

\* The total score is positive: the shares are defined.
LEMMA SumPositive == ASSUME NEW f \in [Nodes -> Nat \ {0}] PROVE Sum(f)[N] \in Nat \ {0}
<1>1. f \in [Nodes -> Nat] /\ N \in Nodes /\ N \in N .. N /\ f[N] > 0
  BY PartitionAssumption DEF Nodes
<1>2. Sum(f)[N] >= Sum(f)[N - 1] + f[N]
  BY <1>1, SumGrows
<1>3. \A i \in 0 .. N : Sum(f)[i] \in Nat
  BY <1>1, SumNat
<1>4. Sum(f)[N] \in Nat /\ Sum(f)[N - 1] \in Nat /\ f[N] \in Nat
  BY <1>1, <1>3, PartitionAssumption
<1> QED
  BY <1>1, <1>2, <1>4

\* A change of one value is a change of the sum.
LEMMA SumUpdate ==
  ASSUME NEW f \in [Nodes -> Nat], NEW n \in Nodes, NEW d \in Int,
         NEW g, \A k \in Nodes : g[k] = IF k = n THEN f[k] + d ELSE f[k]
  PROVE  Sum(g)[N] = Sum(f)[N] + d
<1> DEFINE S == {i \in 0 .. N : Sum(g)[i] = Sum(f)[i] + (IF n <= i THEN d ELSE 0)}
<1>0. /\ N \in Nat /\ n \in Nat /\ n >= 1 /\ n <= N /\ Nodes = 1 .. N
      /\ \A k \in 0 .. N : Sum(f)[k] \in Nat
      /\ Sum(f)[0] = 0 /\ Sum(g)[0] = 0
      /\ \A k \in Nodes : /\ Sum(f)[k] = Sum(f)[k - 1] + f[k] /\ f[k] \in Nat
                          /\ Sum(g)[k] = Sum(g)[k - 1] + g[k]
                          /\ g[k] = IF k = n THEN f[k] + d ELSE f[k]
  <2>1. N \in Nat /\ n \in Nat /\ n >= 1 /\ n <= N /\ Nodes = 1 .. N
    BY PartitionAssumption DEF Nodes
  <2>2. \A k \in Nodes : f[k] \in Nat /\ g[k] = IF k = n THEN f[k] + d ELSE f[k]
    OBVIOUS
  <2>3. Sum(f)[0] = 0 /\ \A k \in Nodes : Sum(f)[k] = Sum(f)[k - 1] + f[k]
    BY SumRec
  <2>4. Sum(g)[0] = 0 /\ \A k \in Nodes : Sum(g)[k] = Sum(g)[k - 1] + g[k]
    BY SumRec
  <2> QED
    BY <2>1, <2>2, <2>3, <2>4, SumNat
<1>1. 0 \in S
  BY <1>0
<1>2. ASSUME NEW i \in 1 .. N, i - 1 \in S PROVE i \in S
  <2>1. Sum(g)[i - 1] = Sum(f)[i - 1] + (IF n <= i - 1 THEN d ELSE 0)
    BY <1>2
  <2>2. /\ Sum(f)[i - 1] \in Nat /\ f[i] \in Nat
        /\ Sum(f)[i] = Sum(f)[i - 1] + f[i]
        /\ Sum(g)[i] = Sum(g)[i - 1] + (IF i = n THEN f[i] + d ELSE f[i])
    <3>1. i \in Nodes /\ i - 1 \in 0 .. N
      BY <1>0
    <3> QED
      BY <1>0, <3>1
  <2>3. Sum(g)[i] = Sum(f)[i] + (IF n <= i THEN d ELSE 0)
    BY <1>0, <2>1, <2>2
  <2> QED
    BY <2>3
<1> HIDE DEF S
<1>3. \A i \in 0 .. N : i \in S
  BY <1>1, <1>2, Interval, PartitionAssumption
<1>4. N \in S
  BY <1>0, <1>3
<1> QED
  BY <1>0, <1>4 DEF S

\* A bound on each value, relative to another function, is one on the sums.
LEMMA SumBound ==
  ASSUME NEW f \in [Nodes -> Nat], NEW g \in [Nodes -> Nat], NEW a \in Nat, NEW b \in Nat,
         \A i \in Nodes : a * f[i] <= b * g[i]
  PROVE  a * Sum(f)[N] <= b * Sum(g)[N]
<1> DEFINE S == {i \in 0 .. N : a * Sum(f)[i] <= b * Sum(g)[i]}
<1>0. /\ N \in Nat /\ Nodes = 1 .. N
      /\ \A k \in 0 .. N : Sum(f)[k] \in Nat /\ Sum(g)[k] \in Nat
      /\ Sum(f)[0] = 0 /\ Sum(g)[0] = 0
      /\ \A k \in Nodes : /\ Sum(f)[k] = Sum(f)[k - 1] + f[k] /\ f[k] \in Nat
                          /\ Sum(g)[k] = Sum(g)[k - 1] + g[k] /\ g[k] \in Nat
  <2>1. N \in Nat /\ Nodes = 1 .. N
    BY PartitionAssumption DEF Nodes
  <2>2. Sum(f)[0] = 0 /\ \A k \in Nodes : Sum(f)[k] = Sum(f)[k - 1] + f[k] /\ f[k] \in Nat
    BY SumRec
  <2>3. Sum(g)[0] = 0 /\ \A k \in Nodes : Sum(g)[k] = Sum(g)[k - 1] + g[k] /\ g[k] \in Nat
    BY SumRec
  <2>4. \A k \in 0 .. N : Sum(f)[k] \in Nat /\ Sum(g)[k] \in Nat
    BY SumNat
  <2> QED
    BY <2>1, <2>2, <2>3, <2>4
<1>1. 0 \in S
  BY <1>0
<1>2. ASSUME NEW i \in 1 .. N, i - 1 \in S PROVE i \in S
  <2>1. /\ a * Sum(f)[i - 1] <= b * Sum(g)[i - 1]
        /\ Sum(f)[i - 1] \in Nat /\ Sum(g)[i - 1] \in Nat
        /\ f[i] \in Nat /\ g[i] \in Nat /\ a * f[i] <= b * g[i]
    BY <1>0, <1>2
  <2>2. \A p, q, r, s \in Nat : a * p <= b * q /\ a * r <= b * s => a * (p + r) <= b * (q + s)
    OBVIOUS
  <2>3. a * (Sum(f)[i - 1] + f[i]) <= b * (Sum(g)[i - 1] + g[i])
    BY <2>1, <2>2
  <2>4. Sum(f)[i] = Sum(f)[i - 1] + f[i] /\ Sum(g)[i] = Sum(g)[i - 1] + g[i]
    BY <1>0
  <2>5. a * Sum(f)[i] <= b * Sum(g)[i]
    BY <2>3, <2>4
  <2> QED
    BY <2>5, <1>0
<1> HIDE DEF S
<1>3. \A i \in 0 .. N : i \in S
  BY <1>1, <1>2, Interval, PartitionAssumption
<1> QED
  BY <1>0, <1>3 DEF S

\* A score that no other exceeds.
LEMMA MaxExists == ASSUME NEW key \in [Nodes -> Nat]
                   PROVE  \E i \in Nodes : \A j \in Nodes : key[i] >= key[j]
<1> DEFINE S == {k \in 0 .. N : k = 0 \/ \E i \in 1 .. k : \A j \in 1 .. k : key[i] >= key[j]}
<1>0. N \in Nat /\ N >= 1 /\ Nodes = 1 .. N
  BY PartitionAssumption DEF Nodes
<1>1. 0 \in S
  BY <1>0
<1>2. ASSUME NEW k \in 1 .. N, k - 1 \in S PROVE k \in S
  <2>1. k \in Nodes /\ k \in 1 .. k /\ key[k] \in Nat /\ \A j \in 1 .. k - 1 : j \in 1 .. k /\ key[j] \in Nat
    BY <1>0
  <2>2. CASE k = 1
    <3>1. \A j \in 1 .. k : key[k] >= key[j]
      BY <2>1, <2>2
    <3> QED
      BY <2>1, <3>1
  <2>3. CASE k > 1
    <3>1. PICK i \in 1 .. k - 1 : \A j \in 1 .. k - 1 : key[i] >= key[j]
      BY <1>2, <2>3, <1>0
    <3>2. CASE key[i] >= key[k]
      <4>1. \A j \in 1 .. k : key[i] >= key[j]
        BY <3>1, <3>2, <2>3, <1>0
      <4> QED
        BY <4>1, <2>1, <1>0
    <3>3. CASE key[k] > key[i]
      <4>1. \A j \in 1 .. k - 1 : key[k] >= key[j]
        BY <3>1, <3>3, <2>1, <2>3
      <4>2. \A j \in 1 .. k : key[k] >= key[j]
        BY <4>1, <2>1, <1>0
      <4> QED
        BY <4>2, <2>1, <1>0
    <3>4. key[i] \in Nat
      BY <2>1
    <3> QED
      BY <3>2, <3>3, <3>4, <2>1
  <2> QED
    BY <2>2, <2>3, <1>0
<1> HIDE DEF S
<1>3. \A k \in 0 .. N : k \in S
  BY <1>0, <1>1, <1>2, Interval
<1>4. N \in S
  BY <1>0, <1>3
<1> QED
  BY <1>0, <1>4 DEF S

\* Python's max and min return the first of several nodes.
LEMMA FirstOf == ASSUME NEW P, P \subseteq Nodes, P # {}
                 PROVE  \E i \in P : \A j \in P : i <= j
<1>1. P \subseteq Nat
  BY PartitionAssumption DEF Nodes
<1> QED
  BY <1>1, NatMin

\* What max() over the nodes returns.
LEMMA FirstMax == ASSUME NEW key \in [Nodes -> Nat]
  PROVE \E i \in Nodes : \A j \in Nodes : key[i] >= key[j] /\ (key[i] = key[j] => i <= j)
<1> DEFINE P == {i \in Nodes : \A j \in Nodes : key[i] >= key[j]}
<1>1. PICK i \in P : \A j \in P : i <= j
  BY MaxExists, FirstOf
<1>2. \A j \in Nodes : key[i] = key[j] => j \in P
  OBVIOUS
<1> QED
  BY <1>1, <1>2

\* What min() over the nodes returns.
LEMMA FirstMin == ASSUME NEW key \in [Nodes -> Nat]
  PROVE \E i \in Nodes : \A j \in Nodes : key[i] <= key[j] /\ (key[i] = key[j] => i <= j)
<1> DEFINE K == {key[i] : i \in Nodes}
<1>1. K \subseteq Nat /\ K # {}
  BY PartitionAssumption DEF Nodes
<1>2. PICK m \in K : \A k \in K : m <= k
  BY <1>1, NatMin
<1> DEFINE P == {i \in Nodes : key[i] = m}
<1>3. PICK i \in P : \A j \in P : i <= j
  BY FirstOf
<1>4. \A j \in Nodes : key[i] <= key[j] /\ (key[i] = key[j] => j \in P)
  BY <1>2
<1> QED
  BY <1>3, <1>4

\* What _score_nodes and the caller provide.
Inputs ==
  /\ score \in [Nodes -> Nat \ {0}]
  /\ gpu \in [Nodes -> BOOLEAN]
  /\ num_layers \in Nat \ {0}

\* FirstBest is a node with the highest score.
LEMMA FirstBestIsBest == ASSUME Inputs
  PROVE FirstBest \in Nodes /\ \A j \in Nodes : score[FirstBest] >= score[j]
<1>1. score \in [Nodes -> Nat]
  BY DEF Inputs
<1>2. \E i \in Nodes : \A j \in Nodes : score[i] >= score[j] /\ (score[i] = score[j] => i <= j)
  BY <1>1, FirstMax
<1> QED
  BY <1>2 DEF FirstBest

\* FirstWorst is a node with the lowest score.
LEMMA FirstWorstIsWorst == ASSUME Inputs
  PROVE FirstWorst \in Nodes /\ \A j \in Nodes : score[FirstWorst] <= score[j]
<1>1. score \in [Nodes -> Nat]
  BY DEF Inputs
<1>2. \E i \in Nodes : \A j \in Nodes : score[i] <= score[j] /\ (score[i] = score[j] => i <= j)
  BY <1>1, FirstMin
<1> QED
  BY <1>2 DEF FirstWorst

\* The LM head has a node: the key (GPU, score) has a first maximum.
LEMMA HeadIsNode == ASSUME Inputs PROVE HeadNode \in Nodes
<1> DEFINE Key(i) == IF gpu[i] THEN 2 ELSE 0
           Better(i, j) == Key(i) > Key(j) \/ (Key(i) = Key(j) /\ score[i] > score[j])
           prefer == \E i \in Nodes : gpu[i]
           value == [i \in Nodes |-> IF gpu[i] = prefer THEN score[i] ELSE 0]
<1>1. value \in [Nodes -> Nat]
  BY DEF Inputs
<1>2. PICK i \in Nodes : \A j \in Nodes : value[i] >= value[j] /\ (value[i] = value[j] => i <= j)
  BY <1>1, FirstMax
<1>3. \E j \in Nodes : gpu[j] = prefer
  BY PartitionAssumption DEF Inputs, Nodes
<1>4. gpu[i] = prefer
  <2>1. PICK j \in Nodes : gpu[j] = prefer
    BY <1>3
  <2>2. value[j] = score[j]
    BY <2>1
  <2>3. gpu[i] # prefer => value[i] = 0
    OBVIOUS
  <2> HIDE DEF value, prefer
  <2>4. value[i] >= value[j] /\ score[j] \in Nat \ {0}
    BY <1>2 DEF Inputs
  <2>5. value[i] # 0
    BY <2>2, <2>4
  <2> QED
    BY <2>3, <2>5
<1>5. \A j \in Nodes : ~Better(j, i) /\ (j < i => Better(i, j))
  <2> SUFFICES ASSUME NEW j \in Nodes PROVE ~Better(j, i) /\ (j < i => Better(i, j))
    OBVIOUS
  <2>1. CASE gpu[j] = prefer
    <3>1. value[i] = score[i] /\ value[j] = score[j] /\ Key(i) = Key(j)
      BY <1>4, <2>1
    <3>2. score[i] \in Nat /\ score[j] \in Nat /\ i \in Nat /\ j \in Nat
      BY PartitionAssumption DEF Inputs, Nodes
    <3>3. Key(i) \in Nat
      OBVIOUS
    <3> HIDE DEF Key, value
    <3> QED
      BY <1>2, <3>1, <3>2, <3>3
  <2>2. CASE gpu[j] # prefer
    <3>1. gpu[i] = TRUE /\ gpu[j] = FALSE
      BY <1>4, <2>2 DEF Inputs
    <3> QED
      BY <3>1
  <2> QED
    BY <2>1, <2>2
<1> HIDE DEF Better
<1>6. \E k \in Nodes : \A j \in Nodes : ~Better(j, k) /\ (j < k => Better(k, j))
  BY <1>5
<1> QED
  BY <1>6 DEF HeadNode, Better

\* Division with remainder.
LEMMA DivBounds == ASSUME NEW p \in Nat, NEW t \in Nat \ {0}
  PROVE /\ p \div t \in Nat /\ t * (p \div t) <= p /\ p < t * (p \div t) + t
        /\ p % t = 0 <=> p = t * (p \div t)
  OBVIOUS

\* The products of the layer count and scores keep the order of the scores.
LEMMA Products == ASSUME NEW L \in Nat \ {0}, NEW a \in Nat \ {0}, NEW b \in Nat \ {0}
  PROVE /\ L * a \in Nat \ {0}
        /\ a < b => L * a < L * b
        /\ a <= b => L * a <= L * b
  OBVIOUS

\* Cutting off keeps the order, with room for one when the larger is exact.
LEMMA Quotients == ASSUME NEW p \in Nat, NEW q \in Nat, NEW t \in Nat \ {0}, p < q
  PROVE /\ p \div t <= q \div t
        /\ q % t = 0 => p \div t <= q \div t - 1
  OBVIOUS

\* A share is at most the exact one, and 0 when that is below one layer.
LEMMA ShareBounds ==
  ASSUME Inputs, NEW i \in Nodes, NEW t \in Nat \ {0}
  PROVE  /\ Share(i, t) \in Nat
         /\ t * Share(i, t) <= num_layers * score[i]
         /\ num_layers * score[i] < t => Share(i, t) = 0
<1> DEFINE p == num_layers * score[i]
<1>1. p \in Nat \ {0}
  BY Products DEF Inputs
<1> HIDE DEF p
<1>2. p \div t \in Nat /\ t * (p \div t) <= p /\ p < t * (p \div t) + t
      /\ (p % t = 0 <=> p = t * (p \div t))
  BY <1>1, DivBounds
<1>3. p % t = 0 => p \div t >= 1
  BY <1>1, <1>2
<1>4. p < t => p \div t = 0
  BY <1>1, <1>2
<1>5. t * (p \div t - 1) <= p
  BY <1>1, <1>2
<1>6. \/ Share(i, t) = p \div t
      \/ p % t = 0 /\ Share(i, t) = p \div t - 1
  BY DEF Share, p
<1>7. Share(i, t) \in Nat /\ t * Share(i, t) <= p /\ (p < t => Share(i, t) = 0)
  BY <1>1, <1>2, <1>3, <1>4, <1>5, <1>6
<1> QED
  BY <1>7 DEF p

\* More score, no smaller share, also when exact shares come out below.
LEMMA ShareMonotone ==
  ASSUME Inputs, NEW i \in Nodes, NEW j \in Nodes, NEW t \in Nat \ {0}, score[i] > score[j]
  PROVE  Share(i, t) >= Share(j, t)
<1> DEFINE p == num_layers * score[j]
           q == num_layers * score[i]
<1>1. p \in Nat /\ q \in Nat /\ p < q
  BY Products DEF Inputs
<1> HIDE DEF p, q
<1>2. p \div t <= q \div t /\ (q % t = 0 => p \div t <= q \div t - 1)
  BY <1>1, Quotients
<1>3. p \div t \in Nat /\ q \div t \in Nat
  BY <1>1, DivBounds
<1>4. Share(j, t) \in {p \div t, p \div t - 1}
  BY DEF Share, p
<1>5. Share(i, t) = q \div t \/ (q % t = 0 /\ Share(i, t) = q \div t - 1)
  BY DEF Share, q
<1> QED
  BY <1>2, <1>3, <1>4, <1>5

\* Every node's share is at least one layer.
SharesSuffice == \A i \in Nodes : num_layers * score[i] >= Sum(score)[N]

\* The inductive invariant: total_allocated is the sum of the counts, which
\* respect the scores, and exceeds the layers only with the last node at one.
PartitionInv ==
  /\ Inputs
  /\ count \in [Nodes -> Nat \ {0}]
  /\ allocated = Sum(count)[N]
  /\ CapableNodesGetMore
  /\ NothingGivenBack
  /\ SharesSuffice => allocated <= num_layers
  /\ ranges # <<>> => ranges = Result /\ allocated >= num_layers

\* The proportional shares with their minimum of one layer establish PartitionInv.
LEMMA InitInv == PartitionInit => PartitionInv
<1> SUFFICES ASSUME PartitionInit PROVE PartitionInv
  OBVIOUS
<1> DEFINE t == Sum(score)[N]
<1>1. Inputs
  BY PartitionAssumption DEF PartitionInit, Inputs
<1>2. t \in Nat \ {0}
  BY <1>1, SumPositive DEF Inputs
<1>3. count = [i \in Nodes |-> IF Share(i, t) > 1 THEN Share(i, t) ELSE 1]
  BY DEF PartitionInit
<1>4. allocated = Sum(count)[N] /\ ranges = <<>>
  BY DEF PartitionInit
<1> HIDE DEF t
<1>5. \A i \in Nodes : Share(i, t) \in Nat
  BY <1>1, <1>2, ShareBounds
<1>6. count \in [Nodes -> Nat \ {0}]
  BY <1>3, <1>5
<1>7. CapableNodesGetMore
  <2> SUFFICES ASSUME NEW i \in Nodes, NEW j \in Nodes, score[i] > score[j]
               PROVE  count[i] >= count[j]
    BY DEF CapableNodesGetMore
  <2>1. Share(i, t) >= Share(j, t)
    BY <1>1, <1>2, ShareMonotone
  <2> QED
    BY <1>3, <1>5, <2>1
<1>8. SharesSuffice => allocated <= num_layers
  <2> SUFFICES ASSUME SharesSuffice PROVE allocated <= num_layers
    OBVIOUS
  <2>1. \A i \in Nodes : t * count[i] <= num_layers * score[i]
    <3> SUFFICES ASSUME NEW i \in Nodes PROVE t * count[i] <= num_layers * score[i]
      OBVIOUS
    <3>1. t * Share(i, t) <= num_layers * score[i]
      BY <1>1, <1>2, ShareBounds
    <3>2. t * 1 <= num_layers * score[i]
      BY <1>1, <1>2, Products DEF SharesSuffice, t, Inputs
    <3>3. count[i] = Share(i, t) \/ count[i] = 1
      BY <1>3
    <3> QED
      BY <3>1, <3>2, <3>3
  <2>2. count \in [Nodes -> Nat] /\ score \in [Nodes -> Nat] /\ num_layers \in Nat
    BY <1>1, <1>6 DEF Inputs
  <2>3. t * Sum(count)[N] <= num_layers * Sum(score)[N]
    BY <1>2, <2>1, <2>2, SumBound
  <2>4. Sum(count)[N] \in Nat
    BY <2>2, SumNat, PartitionAssumption
  <2>5. \A a, b \in Nat : t * a <= b * t => a <= b
    BY <1>2
  <2> QED
    BY <1>4, <2>2, <2>3, <2>4, <2>5 DEF t
<1>9. NothingGivenBack
  <2> SUFFICES ASSUME allocated > num_layers PROVE count[FirstWorst] = 1
    BY DEF NothingGivenBack
  <2>1. Sum(count)[N] \in Nat
    <3>1. count \in [Nodes -> Nat]
      BY <1>6
    <3> QED
      BY <3>1, SumNat, PartitionAssumption
  <2>2. ~SharesSuffice
    BY <1>1, <1>4, <1>8, <2>1 DEF Inputs
  <2>3. PICK i \in Nodes : ~(num_layers * score[i] >= t)
    BY <2>2 DEF SharesSuffice, t
  <2>4. FirstWorst \in Nodes /\ score[FirstWorst] <= score[i]
    BY <1>1, FirstWorstIsWorst
  <2>5. num_layers * score[FirstWorst] <= num_layers * score[i]
        /\ num_layers * score[i] \in Nat /\ num_layers * score[FirstWorst] \in Nat
    BY <1>1, <2>4, Products DEF Inputs
  <2>6. num_layers * score[FirstWorst] < t
    BY <1>2, <2>3, <2>5
  <2>7. Share(FirstWorst, t) = 0
    BY <1>1, <1>2, <2>4, <2>6, ShareBounds
  <2> QED
    BY <1>3, <2>4, <2>7
<1> QED
  BY <1>1, <1>4, <1>6, <1>7, <1>8, <1>9 DEF PartitionInv

\* A turn of the loops preserves PartitionInv; it is always one of the first loop.
LEMMA AdjustInv == PartitionInv /\ Adjust => PartitionInv'
<1> SUFFICES ASSUME PartitionInv, Adjust PROVE PartitionInv'
  OBVIOUS
<1>1. /\ Inputs /\ count \in [Nodes -> Nat \ {0}] /\ allocated = Sum(count)[N]
      /\ CapableNodesGetMore /\ NothingGivenBack
  BY DEF PartitionInv
<1>2. UNCHANGED <<score, gpu, num_layers, low, ranges>> /\ ranges = <<>>
  BY DEF Adjust, input
<1>3. FirstBest \in Nodes /\ FirstWorst \in Nodes /\ \A j \in Nodes : score[FirstBest] >= score[j]
  BY <1>1, FirstBestIsBest, FirstWorstIsWorst
<1>4. allocated \in Nat /\ num_layers \in Nat
  <2>1. count \in [Nodes -> Nat]
    BY <1>1
  <2> QED
    BY <1>1, <2>1, SumNat, PartitionAssumption DEF Inputs
<1>5. allocated < num_layers
  <2>1. allocated # num_layers
    BY DEF Adjust
  <2>2. allocated > num_layers => count[FirstWorst] = 1
    BY <1>1 DEF NothingGivenBack
  <2>3. ~(allocated < num_layers) => count[FirstWorst] > 1
    BY DEF Adjust
  <2> QED
    BY <1>4, <2>1, <2>2, <2>3
<1>6. allocated' = allocated + 1 /\ count' = [count EXCEPT ![FirstBest] = @ + 1]
  BY <1>5 DEF Adjust
<1>7. Inputs'
  BY <1>1, <1>2 DEF Inputs
<1>8. count' \in [Nodes -> Nat \ {0}]
  BY <1>1, <1>3, <1>6
<1>9. allocated' = Sum(count)[N]'
  <2>1. count \in [Nodes -> Nat]
    BY <1>1
  <2>2. 1 \in Int
    OBVIOUS
  <2>3. \A k \in Nodes : count'[k] = IF k = FirstBest THEN count[k] + 1 ELSE count[k]
    BY <1>3, <1>6, <2>1
  <2>4. Sum(count')[N] = Sum(count)[N] + 1
    BY <1>3, <2>1, <2>2, <2>3, SumUpdate
  <2> QED
    BY <1>1, <1>6, <2>4 DEF Sum
<1>10. CapableNodesGetMore'
  <2> SUFFICES ASSUME NEW i \in Nodes, NEW j \in Nodes, score[i] > score[j]
               PROVE  count'[i] >= count'[j]
    BY <1>2 DEF CapableNodesGetMore
  <2>1. count[i] >= count[j] /\ count[i] \in Nat /\ count[j] \in Nat
    BY <1>1 DEF CapableNodesGetMore
  <2>2. j # FirstBest
    BY <1>1, <1>3 DEF Inputs
  <2>3. count'[j] = count[j] /\ (count'[i] = count[i] \/ count'[i] = count[i] + 1)
    BY <1>1, <1>6, <2>2
  <2> QED
    BY <2>1, <2>3
<1>11. allocated' <= num_layers' /\ ~(allocated' > num_layers')
  BY <1>2, <1>4, <1>5, <1>6
<1>12. NothingGivenBack'
  BY <1>11 DEF NothingGivenBack
<1>13. ranges' = <<>>
  BY <1>2
<1> QED
  BY <1>7, <1>8, <1>9, <1>10, <1>11, <1>12, <1>13 DEF PartitionInv

\* Every step preserves PartitionInv.
LEMMA StepInv == PartitionInv /\ [PartitionNext]_vars => PartitionInv'
<1> SUFFICES ASSUME PartitionInv, [PartitionNext]_vars PROVE PartitionInv'
  OBVIOUS
<1>1. CASE Adjust
  BY <1>1, AdjustInv
<1>2. CASE Build
  <2>1. UNCHANGED <<score, gpu, num_layers, low, count, allocated>> /\ ranges' = Result
    BY <1>2 DEF Build, input
  <2>2. ranges' = Result' /\ allocated' >= num_layers'
    BY <1>2, <2>1 DEF Result, HeadNode, Sum, Build
  <2>3. (Inputs /\ CapableNodesGetMore /\ NothingGivenBack)'
    BY <2>1 DEF PartitionInv, Inputs, CapableNodesGetMore, NothingGivenBack, FirstWorst
  <2>4. SharesSuffice' <=> SharesSuffice
    BY <2>1 DEF SharesSuffice, Sum
  <2>5. Sum(count)' = Sum(count)
    BY <2>1 DEF Sum
  <2> QED
    BY <2>1, <2>2, <2>3, <2>4, <2>5 DEF PartitionInv
<1>3. CASE UNCHANGED vars
  <2>1. UNCHANGED <<score, gpu, num_layers, low, count, allocated, ranges>>
    BY <1>3 DEF vars, input
  <2>2. Result' = Result
    BY <2>1 DEF Result, HeadNode, Sum
  <2>3. (Inputs /\ CapableNodesGetMore /\ NothingGivenBack)'
    BY <2>1 DEF PartitionInv, Inputs, CapableNodesGetMore, NothingGivenBack, FirstWorst
  <2>4. SharesSuffice' <=> SharesSuffice
    BY <2>1 DEF SharesSuffice, Sum
  <2>5. Sum(count)' = Sum(count)
    BY <2>1 DEF Sum
  <2> QED
    BY <2>1, <2>2, <2>3, <2>4, <2>5 DEF PartitionInv
<1> QED
  BY <1>1, <1>2, <1>3 DEF PartitionNext

\* PartitionInv holds throughout.
LEMMA InvHolds == PartitionSpec => []PartitionInv
  BY InitInv, StepInv, PTL DEF PartitionSpec

\* The ranges of the result in terms of sums of the counts.
LEMMA ResultFacts == ASSUME PartitionInv, Done
  PROVE /\ \A i \in Nodes : /\ ranges[i].first = Sum(count)[i - 1]
                            /\ ranges[i].head = (i = HeadNode)
                            /\ LayersOf(i) = Sum(count)[i - 1] .. Sum(count)[i] - 1
                            /\ Sum(count)[i - 1] \in Nat /\ Sum(count)[i] \in Nat
                            /\ Sum(count)[i - 1] < Sum(count)[i]
                            /\ Sum(count)[i] <= Sum(count)[N]
        /\ \A i, j \in Nodes : i < j => Sum(count)[i] <= Sum(count)[j - 1]
        /\ Sum(count)[N] >= num_layers
<1>1. /\ count \in [Nodes -> Nat] /\ count \in [Nodes -> Nat \ {0}] /\ ranges = Result
      /\ Sum(count)[N] >= num_layers
  BY DEF PartitionInv, Done
<1>2. \A i \in 0 .. N : Sum(count)[i] \in Nat
  BY <1>1, SumNat
<1>3. N \in Nat /\ N >= 1 /\ Nodes = 1 .. N
  BY PartitionAssumption DEF Nodes
<1>4. \A i \in Nodes : Sum(count)[i] = Sum(count)[i - 1] + count[i]
  BY SumRec
<1>5. \A i \in Nodes : \A j \in i .. N : Sum(count)[j] >= Sum(count)[i - 1] + count[i]
  BY <1>1, SumGrows
<1>6. \A i \in Nodes : \A j \in i .. N : Sum(count)[i] <= Sum(count)[j]
  BY <1>4, <1>5
<1>7. \A i \in Nodes : ranges[i].first = Sum(count)[i - 1] /\ ranges[i].head = (i = HeadNode)
  BY <1>1 DEF Result
<1>8. \A i \in Nodes : Sum(count)[i - 1] \in Nat /\ Sum(count)[i] \in Nat /\ count[i] \in Nat \ {0}
  BY <1>1, <1>2, <1>3
<1>9. \A i \in Nodes : LayersOf(i) = Sum(count)[i - 1] .. Sum(count)[i] - 1
  BY <1>4, <1>7, <1>8 DEF LayersOf
<1>10. \A i, j \in Nodes : i < j => j - 1 \in i .. N
  BY <1>3
<1>11. \A i \in Nodes : N \in i .. N
  BY <1>3
<1>12. \A i \in Nodes : Sum(count)[i - 1] < Sum(count)[i]
  BY <1>4, <1>8
<1> QED
  BY <1>1, <1>6, <1>7, <1>8, <1>9, <1>10, <1>11, <1>12

\* Every layer of the model falls between two sums of the counts.
LEMMA LayerFound ==
  ASSUME PartitionInv, Done, NEW l \in 0 .. num_layers - 1
  PROVE  \E i \in Nodes : l \in LayersOf(i)
<1>1. Sum(count)[0] = 0 /\ Sum(count)[N] >= num_layers /\ num_layers \in Nat
  BY SumRec, ResultFacts DEF PartitionInv, Inputs
<1>2. N \in Nat /\ N >= 1 /\ Nodes = 1 .. N
  BY PartitionAssumption DEF Nodes
<1> DEFINE T == {i \in Nodes : l < Sum(count)[i]}
<1>3. N \in T
  BY <1>1, <1>2, ResultFacts
<1>4. T \subseteq Nodes /\ T # {}
  BY <1>3
<1>5. PICK i \in T : \A j \in T : i <= j
  BY <1>4, FirstOf
<1>6. i \in Nodes /\ l < Sum(count)[i] /\ Sum(count)[i - 1] \in Nat /\ Sum(count)[i] \in Nat
  BY <1>5, ResultFacts
<1>7. Sum(count)[i - 1] <= l
  <2>1. CASE i = 1
    BY <1>1, <2>1
  <2>2. CASE i # 1
    <3>1. i - 1 \in Nodes /\ ~(i <= i - 1)
      BY <1>2, <1>6, <2>2
    <3>2. i - 1 \notin T
      BY <1>5, <3>1
    <3> QED
      BY <1>6, <3>1, <3>2
  <2> QED
    BY <2>1, <2>2
<1>8. LayersOf(i) = Sum(count)[i - 1] .. Sum(count)[i] - 1
  BY <1>6, ResultFacts
<1> QED
  BY <1>6, <1>7, <1>8

\* The ranges of two nodes have no layer in common.
LEMMA RangesDisjoint ==
  ASSUME PartitionInv, Done, NEW i \in Nodes, NEW j \in Nodes, i # j
  PROVE  LayersOf(i) \cap LayersOf(j) = {}
<1>1. i \in Nat /\ j \in Nat
  BY PartitionAssumption DEF Nodes
<1>2. /\ LayersOf(i) = Sum(count)[i - 1] .. Sum(count)[i] - 1
      /\ LayersOf(j) = Sum(count)[j - 1] .. Sum(count)[j] - 1
      /\ Sum(count)[i - 1] \in Nat /\ Sum(count)[i] \in Nat
      /\ Sum(count)[j - 1] \in Nat /\ Sum(count)[j] \in Nat
  BY ResultFacts
<1>3. i < j => Sum(count)[i] <= Sum(count)[j - 1]
  BY ResultFacts
<1>4. j < i => Sum(count)[j] <= Sum(count)[i - 1]
  BY ResultFacts
<1> QED
  BY <1>1, <1>2, <1>3, <1>4

\* The invariant implies that every layer has one node.
LEMMA Placed == PartitionInv => EveryLayerPlaced
<1> SUFFICES ASSUME PartitionInv, Done
             PROVE  /\ \A l \in 0 .. num_layers - 1 :
                         \E i \in Nodes : l \in LayersOf(i) /\ \A j \in Nodes \ {i} : l \notin LayersOf(j)
                    /\ \A i \in Nodes : LayersOf(i) # {}
                    /\ Cardinality({i \in Nodes : ranges[i].head}) = 1
  BY DEF EveryLayerPlaced
<1>1. ASSUME NEW l \in 0 .. num_layers - 1
      PROVE  \E i \in Nodes : l \in LayersOf(i) /\ \A j \in Nodes \ {i} : l \notin LayersOf(j)
  <2>1. PICK i \in Nodes : l \in LayersOf(i)
    BY LayerFound
  <2>2. \A j \in Nodes \ {i} : l \notin LayersOf(j)
    BY <2>1, RangesDisjoint
  <2> QED
    BY <2>1, <2>2
<1>2. ASSUME NEW i \in Nodes PROVE LayersOf(i) # {}
  <2>1. /\ LayersOf(i) = Sum(count)[i - 1] .. Sum(count)[i] - 1
        /\ Sum(count)[i - 1] \in Nat /\ Sum(count)[i] \in Nat /\ Sum(count)[i - 1] < Sum(count)[i]
    BY ResultFacts
  <2>2. Sum(count)[i - 1] \in LayersOf(i)
    BY <2>1
  <2> QED
    BY <2>2
<1>3. Cardinality({i \in Nodes : ranges[i].head}) = 1
  <2>1. HeadNode \in Nodes
    BY HeadIsNode DEF PartitionInv
  <2>2. \A i \in Nodes : ranges[i].head = (i = HeadNode)
    BY ResultFacts
  <2>3. {i \in Nodes : ranges[i].head} = {HeadNode}
    BY <2>1, <2>2
  <2> QED
    BY <2>3, FS_Singleton
<1> QED
  BY <1>1, <1>2, <1>3

\* The invariant implies that sufficient shares give an exact result.
LEMMA Exact == PartitionInv => ExactWhenSharesSuffice
<1> SUFFICES ASSUME PartitionInv, Done, SharesSuffice, NEW i \in Nodes
             PROVE  LayersOf(i) \subseteq 0 .. num_layers - 1
  BY DEF ExactWhenSharesSuffice, SharesSuffice
<1>1. Sum(count)[N] <= num_layers
  BY DEF PartitionInv
<1>2. /\ LayersOf(i) = Sum(count)[i - 1] .. Sum(count)[i] - 1
      /\ Sum(count)[i - 1] \in Nat /\ Sum(count)[i] \in Nat
      /\ Sum(count)[i] <= Sum(count)[N]
  BY ResultFacts
<1>3. Sum(count)[N] \in Nat /\ num_layers \in Nat
  BY ResultFacts, PartitionAssumption DEF PartitionInv, Inputs, Nodes
<1> QED
  BY <1>1, <1>2, <1>3

\* Whatever the scores and the layer count, calculate_partition gives each layer
\* of the model to exactly one node, each node a layer, and one node the LM head.
THEOREM LayersPlaced == PartitionSpec => []EveryLayerPlaced
  BY InvHolds, Placed, PTL

\* When every share is a whole layer or more no node gets layers that the model
\* does not have.
THEOREM ExactPartition == PartitionSpec => []ExactWhenSharesSuffice
  BY InvHolds, Exact, PTL

\* At no point of the adjustment has a more capable node fewer layers.
THEOREM CapabilityRespected == PartitionSpec => []CapableNodesGetMore
<1>1. PartitionInv => CapableNodesGetMore
  BY DEF PartitionInv
<1> QED
  BY <1>1, InvHolds, PTL

\* The second adjustment loop never takes a turn: what was given out in excess
\* stays so (partition.py, lines 64 to 70).
THEOREM ExcessIsFinal == PartitionSpec => []NothingGivenBack
<1>1. PartitionInv => NothingGivenBack
  BY DEF PartitionInv
<1> QED
  BY <1>1, InvHolds, PTL
=============================================================================
