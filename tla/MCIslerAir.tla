----------------------------- MODULE MCIslerAir -----------------------------
(* IslerAir checked by TLC on every payload length up to 260, past all the *)
(* limits, and MAC addresses of the right and a wrong length.              *)
EXTENDS IslerAir

MCPayloads == 0..260
MCMacLens == {5, 6}
=============================================================================
