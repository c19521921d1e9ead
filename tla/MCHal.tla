------------------------------- MODULE MCHal --------------------------------
(* Hal checked by TLC: a counter of 30 counts in which the last            *)
(* millisecond is cut short, as 2^32 does to 60000.                        *)
EXTENDS Hal
=============================================================================
