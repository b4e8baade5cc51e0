--------------------------- MODULE MCForwardStream ---------------------------
(* One call of up to five tokens over a channel of two and a network of two:   *)
(* every buffer fills, and a generation is longer than all of them together.   *)
EXTENDS ForwardStream
=============================================================================
