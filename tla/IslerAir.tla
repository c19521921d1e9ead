------------------------------ MODULE IslerAir ------------------------------
(***************************************************************************)
(* Two boards that run ch32fun_isler.c: one calls iSLER.tx() or            *)
(* iSLER.adv(), the other's radio interrupt takes the frame.               *)
(*                                                                         *)
(* Each end has limits of its own: tx() and adv() limit the payload and    *)
(* build the frame in 256 bytes on the stack, the length travels in one    *)
(* byte, and the receiver computes and tests a length in one byte.  This   *)
(* module puts them together; the lengths are the code's.  The radio is    *)
(* not under src/: it loses frames, or delivers what it was given.  A      *)
(* frame that is received finds room in the ring (IslerFifo has the ring). *)
(***************************************************************************)
EXTENDS Integers

CONSTANTS
    Payloads,    \* lengths of the buffers Python passes
    MacLens      \* lengths of the MAC addresses it passes

ASSUME LengthsAssumption == Payloads \subseteq Nat /\ MacLens \subseteq Nat

Byte == 256
BufferSize == 256     \* packet[256], adv[256]
Overhead == 8         \* PDU, length byte, MAC

VARIABLES
    frame,    \* the last frame sent: [by, payload, len, second]
    onAir,    \* it may still be received
    raised,   \* the last call ended in a ValueError
    pushed    \* bytes of it the receiver put into its ring

vars == <<frame, onAir, raised, pushed>>

Init ==
    /\ frame = [by |-> "none", payload |-> 0, len |-> 0, second |-> 0]
    /\ onAir = FALSE
    /\ raised = FALSE
    /\ pushed = 0

-----------------------------------------------------------------------------
(* Mutants: both calls admit what adv() admits; the sum is not cut.        *)
PayloadLimitSame(by) == 250
LengthByteUncut(n) == (n % Byte) + 6

PayloadLimit(by) == IF by = "tx" THEN 245 ELSE 250

(* packet[1]: the cast binds before the sum, the store cuts the sum *)
LengthByte(n) == ((n % Byte) + 6) % Byte

(* fun_isler_tx, fun_isler_adv with a payload of n and a MAC of m bytes.   *)
(* adv() sends the same frame on three channels, of which the receiver     *)
(* hears one.                                                              *)
Send(by, n, m) ==
    \/ /\ n > PayloadLimit(by) \/ m # 6
       /\ raised' = TRUE
       /\ UNCHANGED <<frame, onAir, pushed>>
    \/ /\ n <= PayloadLimit(by) /\ m = 6
       /\ raised' = FALSE
       /\ frame' = [by |-> by, payload |-> n, len |-> n + Overhead, second |-> LengthByte(n)]
       /\ onAir' = TRUE
       /\ pushed' = 0

tx(n, m) == Send("tx", n, m)
adv(n, m) == Send("adv", n, m)

(* Mutant: the header is not counted. *)
RxLenPayload(second) == IF second > 0 /\ second < 255 THEN second ELSE 0

(* mod_isler_rx_isr: the bytes it pushes of a frame with this second byte *)
RxLen(second) ==
    LET len == (second + 2) % Byte
    IN IF len > 0 /\ len < 255 THEN len ELSE 0

mod_isler_rx_isr ==
    /\ onAir
    /\ onAir' = FALSE
    /\ pushed' = RxLen(frame.second)
    /\ UNCHANGED <<frame, raised>>

Lose ==
    /\ onAir
    /\ onAir' = FALSE
    /\ UNCHANGED <<frame, raised, pushed>>

Next ==
    \/ \E n \in Payloads, m \in MacLens : tx(n, m) \/ adv(n, m)
    \/ mod_isler_rx_isr \/ Lose

Spec == Init /\ [][Next]_vars

-----------------------------------------------------------------------------
(* Properties.                                                             *)

(* The bytes that travel are bytes. *)
TypeOK ==
    /\ frame \in [by : {"none", "tx", "adv"}, payload : Nat, len : Nat, second : 0..(Byte - 1)]
    /\ onAir \in BOOLEAN /\ raised \in BOOLEAN
    /\ pushed \in 0..(Byte - 1)

(* What tx() admits fits where it is built, and is a frame the receiver's  *)
(* test lets through whole: the empty payload and the longest one too.     *)
TxFits ==
    frame.by = "tx" => frame.len <= BufferSize /\ RxLen(frame.second) = frame.len

(* Every frame of tx(), and every one of adv() with up to 246 bytes, is    *)
(* received whole or not at all: three limits chosen in three places       *)
(* (175, 66, 68) agree.  Longer frames of adv() are dropped, cut to one    *)
(* byte or, at 250, to two.                                                *)
ArrivesWhole ==
    frame.by = "tx" \/ frame.payload <= 246 => pushed \in {0, frame.len}

(* The comment at line 214, "+6 = mac": the length byte of an              *)
(* advertisement counts its payload and the MAC address.                   *)
AdvLengthByte == frame.by = "adv" => frame.second = frame.payload + 6

=============================================================================
