------------------------------ MODULE MCUsbMsc ------------------------------
(* UsbMsc checked by TLC.  The packet size is the real one, so are the     *)
(* header sizes; a block is two packets, and the word is wider than any    *)
(* transfer, as 2^32 is.                                                   *)
EXTENDS UsbMsc
=============================================================================
