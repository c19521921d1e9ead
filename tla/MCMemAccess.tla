---------------------------- MODULE MCMemAccess -----------------------------
(* MemAccess checked by TLC: words of 5 bits and bytes of 1, the RAM at an *)
(* eighth of the address space as on the chip, three bytes of it, and      *)
(* integers on and around every boundary of the words and of the ranges.   *)
EXTENDS MemAccess

MCInts == {-16, -1, 0, 1, 3, 4, 7, 15}
MCBuffers == {[len |-> n, data |-> [o \in 0..(n - 1) |-> (o + c) % 2]] : n \in 0..3, c \in {0, 1}}
MCRegisters == {[addr |-> 20, width |-> 2], [addr |-> 20, width |-> 1], [addr |-> 21, width |-> 1]}
=============================================================================
