----------------------------- MODULE Partition -----------------------------
(***************************************************************************)
(* The distribution of a model's layers over the nodes, which is           *)
(* calculate_partition of orchestrator/src/arcflare/cluster/partition.py,  *)
(* one step for each turn of its two adjustment loops.                     *)
(*                                                                         *)
(* Scores are integers, in a small enough unit.  The code's shares are     *)
(* floating point: a product that is a whole number may come out just      *)
(* below it, and int() then gives one layer less.                          *)
(***************************************************************************)
EXTENDS Integers, FiniteSets

CONSTANTS
  N,        \* number of nodes, 1 .. N in the order of the request
  Scores,   \* scores nodes can have, at least 1 point each
  Layers    \* layer counts models can have

ASSUME PartitionAssumption ==
  N \in Nat \ {0} /\ Scores \subseteq Nat \ {0} /\ Layers \subseteq Nat \ {0}

VARIABLES
  score, gpu,   \* the scored nodes
  num_layers,   \* the layers to distribute
  low,          \* scores whose share, when it is whole, comes out below
  count,        \* layers_per_node
  allocated,    \* total_allocated
  ranges        \* the result: node -> first layer and LM head; <<>> before

input == <<score, gpu, num_layers, low>>
vars == <<input, count, allocated, ranges>>

Nodes == 1 .. N

\* Sum(f)[i] adds up the first i values of f.
Sum(f) == LET s[i \in 0 .. N] == IF i = 0 THEN 0 ELSE s[i - 1] + f[i] IN s

\* Faulty variant: shares are rounded up.
ShareRoundedUp(i, total) == (num_layers * score[i] + total - 1) \div total

\* num_layers * score / total_score, as int() cuts it off.
Share(i, total) ==
  LET product == num_layers * score[i]
  IN  IF product % total = 0 /\ score[i] \in low
        THEN product \div total - 1
        ELSE product \div total

PartitionInit ==
  /\ score \in [Nodes -> Scores]
  /\ gpu \in [Nodes -> BOOLEAN]
  /\ num_layers \in Layers
  /\ low \in SUBSET Scores
  /\ LET total == Sum(score)[N]
     IN  count = [i \in Nodes |-> IF Share(i, total) > 1 THEN Share(i, total) ELSE 1]
  /\ allocated = Sum(count)[N]
  /\ ranges = <<>>

\* Faulty variant: the extra layers go to the first node.
FirstBestIsFirst == 1

\* Python's max and min: the first of the nodes with the extreme key.
FirstBest == CHOOSE i \in Nodes : \A j \in Nodes :
  score[i] >= score[j] /\ (score[i] = score[j] => i <= j)
FirstWorst == CHOOSE i \in Nodes : \A j \in Nodes :
  score[i] <= score[j] /\ (score[i] = score[j] => i <= j)

\* A GPU counts before any score.
HeadNode ==
  LET Key(i) == (IF gpu[i] THEN 2 ELSE 0)
      Better(i, j) == Key(i) > Key(j) \/ (Key(i) = Key(j) /\ score[i] > score[j])
  IN  CHOOSE i \in Nodes : \A j \in Nodes : ~Better(j, i) /\ (j < i => Better(i, j))

-----------------------------------------------------------------------------
\* Faulty variant: the first loop turns once too often.
AdjustOnceMore ==
  /\ ranges = <<>>
  /\ allocated <= num_layers
  /\ count' = [count EXCEPT ![FirstBest] = @ + 1]
  /\ allocated' = allocated + 1
  /\ UNCHANGED <<input, ranges>>

\* While layers are missing the most capable node gets one more; while there
\* are too many the least capable one gives one back, if it has another.
Adjust ==
  LET missing == allocated < num_layers
      node == IF missing THEN FirstBest ELSE FirstWorst
      change == IF missing THEN 1 ELSE -1
  IN  /\ ranges = <<>>
      /\ allocated # num_layers
      /\ ~missing => count[node] > 1
      /\ count' = [count EXCEPT ![node] = @ + change]
      /\ allocated' = allocated + change
      /\ UNCHANGED <<input, ranges>>

Result == [i \in Nodes |-> [first |-> Sum(count)[i - 1], head |-> i = HeadNode]]

\* Faulty variant: the result is built before missing layers are placed.
BuildUnadjusted ==
  /\ ranges = <<>>
  /\ ranges' = Result
  /\ UNCHANGED <<input, count, allocated>>

\* Faulty variant: the second loop is not left when nothing can be given back.
BuildWhenExact ==
  /\ ranges = <<>>
  /\ allocated = num_layers
  /\ ranges' = Result
  /\ UNCHANGED <<input, count, allocated>>

\* The ranges follow one another in the order of the nodes.
Build ==
  /\ ranges = <<>>
  /\ allocated >= num_layers
  /\ allocated > num_layers => count[FirstWorst] = 1
  /\ ranges' = Result
  /\ UNCHANGED <<input, count, allocated>>

PartitionNext == Adjust \/ Build

PartitionSpec == PartitionInit /\ [][PartitionNext]_vars

\* The function runs to its end.
FairPartitionSpec == PartitionSpec /\ WF_vars(PartitionNext)
-----------------------------------------------------------------------------
(* Properties.                                                             *)

Done == ranges # <<>>
LayersOf(i) == ranges[i].first .. ranges[i].first + count[i] - 1

\* Every layer of the model has exactly one node, every node has layers, and
\* one node has the LM head (the two loops together with the build).
EveryLayerPlaced ==
  Done =>
    /\ \A l \in 0 .. num_layers - 1 :
         \E i \in Nodes : l \in LayersOf(i) /\ \A j \in Nodes \ {i} : l \notin LayersOf(j)
    /\ \A i \in Nodes : LayersOf(i) # {}
    /\ Cardinality({i \in Nodes : ranges[i].head}) = 1

\* When every node's share is a layer or more the result is exact: no node is
\* given layers the model does not have.
ExactWhenSharesSuffice ==
  Done /\ (\A i \in Nodes : num_layers * score[i] >= Sum(score)[N]) =>
    \A i \in Nodes : LayersOf(i) \subseteq 0 .. num_layers - 1

\* A more capable node never gets fewer layers: the rounding of the shares, the
\* minimum of one layer and both loops respect the order of the scores.
CapableNodesGetMore ==
  \A i, j \in Nodes : score[i] > score[j] => count[i] >= count[j]

\* Layers given out in excess are never taken back: with one node below a whole
\* share the least capable one has nothing to give, so the second loop takes no
\* turn for any input (lines 64 to 70).
NothingGivenBack == allocated > num_layers => count[FirstWorst] = 1

\* The adjustment ends, also when nothing can be taken back any more.
PartitionEnds == <>Done
=============================================================================
