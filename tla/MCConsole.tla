----------------------------- MODULE MCConsole ------------------------------
(* Console checked by TLC: arrays of 4, packets of 1, 3 and 4 bytes.       *)
EXTENDS Console
=============================================================================
