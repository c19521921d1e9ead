---------------------------- MODULE MCIslerFifo -----------------------------
(* IslerFifo checked by TLC: a ring of 8 that a frame can nearly fill, and *)
(* 3-bit bytes, so that the lengths that wrap (6 and 7) are among the      *)
(* frames.                                                                 *)
EXTENDS IslerFifo
=============================================================================
