----------------------------- MODULE MCGhostFs ------------------------------
(* GhostFs checked by TLC: the real layout of the volume but sectors of    *)
(* two packets, a RAM disk of half a cluster as in the code, sizes below,  *)
(* at and above it, up to a whole cluster and one packet more.             *)
EXTENDS GhostFs
=============================================================================
