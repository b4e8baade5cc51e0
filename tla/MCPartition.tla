---------------------------- MODULE MCPartition ----------------------------
(***************************************************************************)
(* Partition on small instances: all inputs in the given ranges.           *)
(***************************************************************************)
EXTENDS Partition
=============================================================================
