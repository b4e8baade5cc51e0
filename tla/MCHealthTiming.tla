--------------------------- MODULE MCHealthTiming ---------------------------
(***************************************************************************)
(* HealthTiming with the times of the code, in half seconds.               *)
(***************************************************************************)
EXTENDS HealthTiming
=============================================================================
