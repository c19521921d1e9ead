--------------------------- MODULE IslerAirProofs ---------------------------
(***************************************************************************)
(* Proofs about IslerAir for every set of payload and MAC lengths.  The    *)
(* invariant FrameInv says how a frame was built; what the two ends make   *)
(* of it is then arithmetic on bytes.                                      *)
(***************************************************************************)
EXTENDS IslerAir, TLAPS

FrameInv ==
    /\ frame.by # "none" =>
          /\ frame.payload <= PayloadLimit(frame.by)
          /\ frame.len = frame.payload + Overhead
          /\ frame.second = LengthByte(frame.payload)
    /\ pushed \in {0, RxLen(frame.second)}
    /\ frame.by = "none" => ~onAir /\ pushed = 0

IInv == TypeOK /\ FrameInv

(* Below 250 the length byte is the sum; at 250 it wraps to 0. *)
LEMMA LengthByteValue ==
    ASSUME NEW n \in 0..250
    PROVE  LengthByte(n) \in 0..(Byte - 1) /\ (n < 250 => LengthByte(n) = n + 6)
  BY DEF LengthByte, Byte

(* The receiver takes whole what says so in at most 252 bytes. *)
LEMMA RxLenValue ==
    ASSUME NEW s \in 0..(Byte - 1)
    PROVE  RxLen(s) \in 0..(Byte - 1) /\ (s <= 252 => RxLen(s) = s + 2)
  BY DEF RxLen, Byte

(* The two limits on the payload, and that no payload within them fills a  *)
(* byte.                                                                   *)
LEMMA LimitValue ==
    ASSUME NEW by \in {"tx", "adv"}
    PROVE  PayloadLimit(by) \in 0..250 /\ PayloadLimit("tx") = 245
  BY DEF PayloadLimit

(* A call of tx() or adv() that is not refused leaves a frame with its own *)
(* length byte.                                                            *)
LEMMA SendStep ==
    ASSUME IInv, NEW by \in {"tx", "adv"}, NEW n \in Nat, NEW m \in Nat, Send(by, n, m)
    PROVE  IInv'
<1>1. CASE raised' = TRUE /\ UNCHANGED <<frame, onAir, pushed>>
  BY <1>1 DEF IInv, TypeOK, FrameInv
<1>2. CASE /\ n <= PayloadLimit(by) /\ raised' = FALSE
           /\ frame' = [by |-> by, payload |-> n, len |-> n + Overhead, second |-> LengthByte(n)]
           /\ onAir' = TRUE
           /\ pushed' = 0
  <2>1. LengthByte(n) \in 0..(Byte - 1) /\ n + Overhead \in Nat
    BY <1>2, LimitValue, LengthByteValue DEF Overhead
  <2>2. TypeOK'
    <3>1. frame' \in [by : {"none", "tx", "adv"}, payload : Nat, len : Nat, second : 0..(Byte - 1)]
      BY <1>2, <2>1
    <3>2. pushed' \in 0..(Byte - 1)
      BY <1>2 DEF Byte
    <3>3. onAir' \in BOOLEAN /\ raised' \in BOOLEAN
      BY <1>2, Zenon
    <3> QED
      BY <3>1, <3>2, <3>3 DEF TypeOK
  <2>3. FrameInv'
    BY <1>2 DEF FrameInv
  <2> QED
    BY <2>2, <2>3 DEF IInv
<1> QED
  BY <1>1, <1>2 DEF Send

(* The last frame is in memory what its sender wrote.                      *)
THEOREM Inductive == Spec => []IInv
<1>1. Init => IInv
  <2> SUFFICES ASSUME Init PROVE IInv
    OBVIOUS
  <2>1. frame \in [by : {"none", "tx", "adv"}, payload : Nat, len : Nat, second : 0..(Byte - 1)]
    BY DEF Init, Byte
  <2>2. TypeOK
    BY <2>1 DEF Init, TypeOK, Byte
  <2>3. FrameInv
    BY DEF Init, FrameInv
  <2> QED
    BY <2>2, <2>3 DEF IInv
<1>2. IInv /\ [Next]_vars => IInv'
  <2> SUFFICES ASSUME IInv, [Next]_vars PROVE IInv'
    OBVIOUS
  <2>1. ASSUME NEW n \in Payloads, NEW m \in MacLens, tx(n, m) \/ adv(n, m) PROVE IInv'
    BY <2>1, SendStep, LengthsAssumption DEF tx, adv
  <2>2. CASE mod_isler_rx_isr
    <3>1. RxLen(frame.second) \in 0..(Byte - 1)
      BY RxLenValue DEF IInv, TypeOK
    <3> QED
      BY <2>2, <3>1 DEF mod_isler_rx_isr, IInv, TypeOK, FrameInv
  <2>3. CASE Lose
    BY <2>3 DEF Lose, IInv, TypeOK, FrameInv
  <2>4. CASE UNCHANGED vars
    BY <2>4 DEF vars, IInv, TypeOK, FrameInv
  <2> QED
    BY <2>1, <2>2, <2>3, <2>4 DEF Next
<1> QED
  BY <1>1, <1>2, PTL DEF Spec

(* Both length bytes, the sender's sum and the receiver's, are cut to a    *)
(* byte whatever payload tx() or adv() is called with.                     *)
THEOREM TypeCorrect == Spec => []TypeOK
<1>1. IInv => TypeOK
  BY DEF IInv
<1> QED
  BY <1>1, Inductive, PTL

(* The limits of tx(), of its buffer and of the receiver agree, whatever   *)
(* payload it is called with.                                              *)
THEOREM TxAlwaysFits == Spec => []TxFits
<1>1. IInv => TxFits
  <2> SUFFICES ASSUME IInv, frame.by = "tx"
               PROVE  frame.len <= BufferSize /\ RxLen(frame.second) = frame.len
    BY DEF TxFits
  <2>1. /\ frame.payload \in Nat /\ frame.payload <= 245 /\ frame.len = frame.payload + 8
        /\ frame.second = LengthByte(frame.payload)
    BY LimitValue DEF IInv, TypeOK, FrameInv, Overhead
  <2>2. frame.second = frame.payload + 6 /\ frame.second \in 0..(Byte - 1)
    BY <2>1, LengthByteValue
  <2>3. RxLen(frame.second) = frame.second + 2
    BY <2>1, <2>2, RxLenValue
  <2> QED
    BY <2>1, <2>2, <2>3 DEF BufferSize
<1> QED
  BY <1>1, Inductive, PTL

(* A frame of tx(), or one of adv() with at most 246 bytes, arrives whole  *)
(* or not at all.                                                          *)
THEOREM FramesArriveWhole == Spec => []ArrivesWhole
<1>1. IInv => ArrivesWhole
  <2> SUFFICES ASSUME IInv, frame.by = "tx" \/ frame.payload <= 246
               PROVE  pushed \in {0, frame.len}
    BY DEF ArrivesWhole
  <2>1. CASE frame.by = "none"
    BY <2>1 DEF IInv, FrameInv
  <2>2. CASE frame.by # "none"
    <3>1. /\ frame.payload \in Nat /\ frame.payload <= 246 /\ frame.len = frame.payload + 8
          /\ frame.second = LengthByte(frame.payload)
      BY <2>2, LimitValue DEF IInv, TypeOK, FrameInv, Overhead
    <3>2. frame.second = frame.payload + 6 /\ frame.second \in 0..(Byte - 1)
      BY <3>1, LengthByteValue
    <3>3. RxLen(frame.second) = frame.len
      BY <3>1, <3>2, RxLenValue
    <3> QED
      BY <3>3 DEF IInv, FrameInv
  <2> QED
    BY <2>1, <2>2
<1> QED
  BY <1>1, Inductive, PTL
=============================================================================
