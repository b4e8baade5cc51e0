--------------------------- MODULE MCShardService ---------------------------
(* Three calls at a time, and memory for three models. *)
EXTENDS ShardService

CONSTANTS c1, c2, c3, m1, m2, m3

MCCall == {c1, c2, c3}
MCSlot == {m1, m2, m3}
=============================================================================
