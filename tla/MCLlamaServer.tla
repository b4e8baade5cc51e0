--------------------------- MODULE MCLlamaServer ---------------------------
(***************************************************************************)
(* LlamaServer on small instances.                                         *)
(***************************************************************************)
EXTENDS LlamaServer
=============================================================================
