---------------------------- MODULE ConsoleProofs -----------------------------
(***************************************************************************)
(* Proofs about Console for every size of the two buffers and every set of *)
(* packet lengths.  The invariant has three parts: what usb_inputbuffer    *)
(* holds relative to what handle_input has seen (BufferInv), what the ring *)
(* holds relative to that (RingInv), and, as long as nothing was lost,     *)
(* exactly which bytes are waiting (GapInv).                               *)
(***************************************************************************)
EXTENDS Console, ArithmeticLemmas

(* the first byte of usb_inputbuffer that handle_input has yet to take *)
From == IF pc \in {"loop", "store", "reset"} THEN i ELSE 0

TypeInv == TypeOK /\ i \in 0..PacketSize

(* The buffer ascends up to its index; what is still to be looked at is    *)
(* newer than what was; a byte that was tested is not newer than the one   *)
(* in its place; and the index does not fall below the argument of         *)
(* handle_input while it runs, because a packet that shifts fills it up.   *)
BufferInv ==
    /\ \A k \in 0..(usb_inbuf_idx - 1) : usb_inputbuffer[k] <= sent
    /\ \A j, k \in 0..(usb_inbuf_idx - 1) :
          j < k => usb_inputbuffer[j] < usb_inputbuffer[k]
    /\ \A k \in From..(usb_inbuf_idx - 1) : handled < usb_inputbuffer[k]
    /\ handled <= sent
    /\ pc # "idle" => numbytes <= usb_inbuf_idx
    /\ pc = "reset" => i = numbytes
    /\ pc = "store" => i < numbytes /\ handled < tested /\ tested <= usb_inputbuffer[i]

Used == (rx_head - rx_tail) % RX_BUF_SIZE
Queue == [d \in RingIndices |-> rx_buf[(rx_tail + d) % RX_BUF_SIZE]]

(* The ring ascends, between the last byte stdin got and the last one      *)
(* handle_input looked at.                                                 *)
RingInv ==
    /\ taken <= handled
    /\ \A d \in 0..(Used - 1) : taken < Queue[d] /\ Queue[d] <= handled
    /\ \A d, e \in 0..(Used - 1) : d < e => Queue[d] < Queue[e]

(* Without overrun and race the bytes in the buffer are the next ones.     *)
NextOnes ==
    /\ sent = handled + (usb_inbuf_idx - From)
    /\ \A k \in From..(usb_inbuf_idx - 1) :
          usb_inputbuffer[k] = handled + 1 + (k - From)
    /\ pc # "idle" => numbytes = usb_inbuf_idx
    /\ pc = "store" => tested = usb_inputbuffer[i]

GapInv == ~overrun /\ ~raced => NextOnes

IInv == TypeInv /\ BufferInv /\ RingInv /\ GapInv

-----------------------------------------------------------------------------
(* Types.                                                                  *)

(* The packet leaves the index inside the buffer, and shifts inside it.    *)
LEMMA OffsetValue ==
    ASSUME TypeInv, NEW len \in Lens
    PROVE  /\ len \in 1..PacketSize
           /\ Offset(len) \in 0..usb_inbuf_idx
           /\ usb_inbuf_idx <= usb_inbuf_idx - Offset(len) + len
           /\ usb_inbuf_idx - Offset(len) + len <= PacketSize
  BY ConsoleAssumption DEF TypeInv, TypeOK, Offset

(* The buffer after a packet: new bytes from start on, shifted ones below. *)
LEMMA PacketStored ==
    ASSUME TypeInv, NEW len \in Lens, HostPacket(len)
    PROVE  LET offset == Offset(len)
               start == usb_inbuf_idx - offset
           IN /\ usb_inbuf_idx' = start + len
              /\ sent' = sent + len /\ sent' <= MaxSent
              /\ \A k \in start..(start + len - 1) :
                    k \in BufIndices /\ usb_inputbuffer'[k] = sent + 1 + (k - start)
              /\ \A k \in 0..(start - 1) :
                    usb_inputbuffer'[k] = usb_inputbuffer[k + offset]
<1> DEFINE offset == Offset(len)
           start == usb_inbuf_idx - offset
           Shifted(k) == usb_inputbuffer[IF k + offset < PacketSize THEN k + offset ELSE k]
<1>1. /\ len \in 1..PacketSize /\ offset \in 0..usb_inbuf_idx /\ start \in Nat
      /\ start + len <= PacketSize /\ usb_inbuf_idx \in 0..PacketSize /\ PacketSize \in Nat
      /\ start + offset = usb_inbuf_idx
  BY OffsetValue, ConsoleAssumption DEF TypeInv, TypeOK
<1>2. /\ usb_inbuf_idx' = start + len /\ sent' = sent + len /\ sent + len <= MaxSent
      /\ usb_inputbuffer' =
            [k \in BufIndices |->
                IF k \in start..(start + len - 1) THEN sent + 1 + (k - start) ELSE Shifted(k)]
  BY DEF HostPacket
<1> HIDE DEF offset, start
<1>3. \A k \in start..(start + len - 1) : k \in BufIndices
  BY <1>1 DEF BufIndices
<1>4. \A k \in 0..(start - 1) :
         k \in BufIndices /\ k \notin start..(start + len - 1) /\ k + offset < PacketSize
  BY <1>1 DEF BufIndices
<1>5. \A k \in start..(start + len - 1) : usb_inputbuffer'[k] = sent + 1 + (k - start)
  BY <1>2, <1>3
<1>6. \A k \in 0..(start - 1) : usb_inputbuffer'[k] = usb_inputbuffer[k + offset]
  BY <1>2, <1>4
<1> QED
  BY <1>2, <1>3, <1>5, <1>6 DEF offset, start

(* A packet of the host, shifting or not, leaves every type alone.         *)
LEMMA PacketType == ASSUME TypeInv, NEW len \in Lens, HostPacket(len) PROVE TypeInv'
<1> DEFINE offset == Offset(len)
           start == usb_inbuf_idx - offset
           Shifted(k) == usb_inputbuffer[IF k + offset < PacketSize THEN k + offset ELSE k]
<1>1. usb_inputbuffer' \in [BufIndices -> 0..MaxSent]
  <2>1. /\ usb_inputbuffer \in [BufIndices -> 0..MaxSent] /\ sent \in 0..MaxSent
        /\ MaxSent \in Nat /\ PacketSize \in Nat /\ len \in Nat
        /\ start \in Nat /\ offset \in Nat /\ sent + len <= MaxSent
    BY OffsetValue, ConsoleAssumption DEF TypeInv, TypeOK, HostPacket
  <2>2. usb_inputbuffer' =
           [k \in BufIndices |->
               IF k \in start..(start + len - 1) THEN sent + 1 + (k - start) ELSE Shifted(k)]
    BY DEF HostPacket
  <2> HIDE DEF offset, start
  <2>3. ASSUME NEW k \in BufIndices
        PROVE  (IF k \in start..(start + len - 1) THEN sent + 1 + (k - start) ELSE Shifted(k))
                  \in 0..MaxSent
    BY <2>1 DEF BufIndices
  <2> QED
    BY <2>2, <2>3
<1>2. usb_inbuf_idx' \in 0..PacketSize /\ sent' \in 0..MaxSent
  BY OffsetValue, PacketStored, ConsoleAssumption DEF TypeInv, TypeOK
<1>3. overrun' \in BOOLEAN /\ raced' \in BOOLEAN
  BY DEF HostPacket, TypeInv, TypeOK
<1>4. dropped' \in 0..MaxSent
  <2> DEFINE end == IF Ahead + offset < usb_inbuf_idx THEN Ahead + offset ELSE usb_inbuf_idx
  <2>1. offset \in Nat /\ Ahead \in Nat /\ usb_inbuf_idx \in 0..PacketSize /\ PacketSize \in Nat
    BY OffsetValue, ConsoleAssumption DEF TypeInv, TypeOK, Ahead
  <2>2. dropped' = IF offset > 0 /\ end > Ahead THEN usb_inputbuffer[end - 1] ELSE dropped
    BY DEF HostPacket, Dropped
  <2> HIDE DEF offset
  <2>3. end > Ahead => end - 1 \in BufIndices
    BY <2>1 DEF BufIndices
  <2> QED
    BY <2>2, <2>3 DEF TypeInv, TypeOK
<1> QED
  BY <1>1, <1>2, <1>3, <1>4 DEF HostPacket, TypeInv, TypeOK, ring, poll

(* Storing a byte, with or without discarding the oldest, keeps the ring   *)
(* well formed.                                                            *)
LEMMA StoreType ==
    ASSUME TypeInv, NEW b \in 0..MaxSent, Store(b)
    PROVE  /\ rx_buf' \in [RingIndices -> 0..MaxSent]
           /\ rx_head' \in RingIndices /\ rx_tail' \in RingIndices
<1>1. (rx_head + 1) % RX_BUF_SIZE \in RingIndices
  BY ConsoleAssumption DEF TypeInv, TypeOK, RingIndices
<1> QED
  BY <1>1 DEF Store, ring, TypeInv, TypeOK

(* Every action keeps the types; the loop of handle_input stays in the     *)
(* buffer because BufferInv bounds its argument.                           *)
LEMMA TypeStep == TypeInv /\ BufferInv /\ [Next]_vars => TypeInv'
<1> SUFFICES ASSUME TypeInv, BufferInv, [Next]_vars PROVE TypeInv'
  OBVIOUS
<1> USE ConsoleAssumption
<1>1. CASE \E len \in Lens : HostPacket(len)
  BY <1>1, PacketType
<1>2. CASE RaisePending
  BY <1>2 DEF RaisePending, TypeInv, TypeOK, usb, ring, poll, history
<1>3. CASE PollUsb
  BY <1>3 DEF PollUsb, TypeInv, TypeOK, usb, ring, history
<1>4. CASE CallHandle
  BY <1>4 DEF CallHandle, TypeInv, TypeOK, usb, ring, history
<1>5. CASE TestByte
  <2>1. i \in BufIndices /\ usb_inputbuffer[i] \in 0..MaxSent
    BY <1>5 DEF TestByte, TypeInv, TypeOK, BufIndices
  <2>2. kbd' \in BOOLEAN
    BY <1>5 DEF TestByte, TypeInv, TypeOK
  <2> QED
    BY <1>5, <2>1, <2>2 DEF TestByte, TypeInv, TypeOK, usb, ring
<1>5b. CASE StoreByte
  <2>1. i \in BufIndices /\ usb_inputbuffer[i] \in 0..MaxSent /\ i < numbytes
    BY <1>5b DEF StoreByte, BufferInv, TypeInv, TypeOK, BufIndices
  <2> PICK b \in {tested, usb_inputbuffer[i]} : Store(b) /\ handled' = b
    BY <1>5b DEF StoreByte
  <2>2. b \in 0..MaxSent
    BY <2>1 DEF TypeInv, TypeOK
  <2>3. /\ rx_buf' \in [RingIndices -> 0..MaxSent]
        /\ rx_head' \in RingIndices /\ rx_tail' \in RingIndices
    BY <2>2, StoreType
  <2> QED
    BY <1>5b, <2>1, <2>2, <2>3 DEF StoreByte, TypeInv, TypeOK, usb
<1>6. CASE HandleEnd
  BY <1>6 DEF HandleEnd, TypeInv, TypeOK, usb, ring, history
<1>7. CASE Reset
  BY <1>7 DEF Reset, TypeInv, TypeOK, ring, history
<1>8. CASE ReadStdin
  <2>1. (rx_tail + 1) % RX_BUF_SIZE \in RingIndices
    BY DEF TypeInv, TypeOK, RingIndices
  <2> QED
    BY <1>8, <2>1 DEF ReadStdin, TypeInv, TypeOK, usb, poll
<1>9. CASE UNCHANGED vars
  BY <1>9 DEF vars, TypeInv, TypeOK, usb, ring, poll, history
<1> QED
  BY <1>1, <1>2, <1>3, <1>4, <1>5, <1>5b, <1>6, <1>7, <1>8, <1>9 DEF Next, Background

-----------------------------------------------------------------------------
(* The buffer.                                                             *)

(* What handle_input reads at its index is newer than the byte before.    *)
LEMMA Newer ==
    ASSUME TypeInv, BufferInv, pc \in {"loop", "store"}, i < numbytes
    PROVE  /\ i \in 0..(usb_inbuf_idx - 1) /\ usb_inputbuffer[i] \in Nat
           /\ handled < usb_inputbuffer[i] /\ usb_inputbuffer[i] <= sent
<1>1. /\ numbytes <= usb_inbuf_idx /\ From = i
      /\ i \in Nat /\ usb_inbuf_idx \in 0..PacketSize /\ numbytes \in Nat
  BY DEF BufferInv, From, TypeInv, TypeOK
<1>2. i \in From..(usb_inbuf_idx - 1) /\ i \in BufIndices
  BY <1>1, ConsoleAssumption DEF BufIndices
<1> QED
  BY <1>1, <1>2, ConsoleAssumption DEF BufferInv, TypeInv, TypeOK

(* A step of a turn of handle_input's loop. *)
Turn == TestByte \/ StoreByte

(* A turn of the loop takes a byte newer than the one before, and no newer *)
(* than the one at the index.                                              *)
LEMMA TurnTakes ==
    ASSUME TypeInv, BufferInv, Turn, i' = i + 1
    PROVE  /\ i \in 0..(usb_inbuf_idx - 1) /\ usb_inputbuffer[i] \in Nat
           /\ handled' \in Nat /\ handled < handled' /\ handled' <= usb_inputbuffer[i]
           /\ usb_inputbuffer[i] <= sent /\ pc' = "loop" /\ From = i /\ From' = i + 1
           /\ UNCHANGED <<usb, numbytes, sent, taken>>
<1>1. i \in Nat /\ tested \in Nat
  BY ConsoleAssumption DEF TypeInv, TypeOK
<1>2. CASE TestByte
  <2>1. handled' = usb_inputbuffer[i] /\ pc = "loop" /\ pc' = "loop" /\ i < numbytes
    BY <1>1, <1>2 DEF TestByte
  <2> QED
    BY <1>2, <2>1, Newer DEF TestByte, From
<1>3. CASE StoreByte
  <2>1. handled' \in {tested, usb_inputbuffer[i]} /\ pc = "store" /\ pc' = "loop"
    BY <1>3 DEF StoreByte
  <2>2. i < numbytes /\ handled < tested /\ tested <= usb_inputbuffer[i]
    BY <2>1 DEF BufferInv
  <2> QED
    BY <1>1, <1>3, <2>1, <2>2, Newer DEF StoreByte, From
<1> QED
  BY <1>2, <1>3 DEF Turn

(* What else a turn may do: find that a byte is data.                      *)
LEMMA TurnTests ==
    ASSUME TypeInv, BufferInv, Turn, i' # i + 1
    PROVE  /\ pc = "loop" /\ pc' = "store" /\ i < numbytes
           /\ tested' = usb_inputbuffer[i] /\ i' = i
           /\ UNCHANGED <<usb, ring, kbd, numbytes, sent, handled, taken>>
  BY DEF Turn, TestByte, StoreByte

(* Every action keeps the buffer ascending and ahead of what was handled,  *)
(* the packet that shifts it under the loop included.                      *)
LEMMA BufferStep == TypeInv /\ BufferInv /\ [Next]_vars => BufferInv'
<1> SUFFICES ASSUME TypeInv, BufferInv, [Next]_vars PROVE BufferInv'
  OBVIOUS
<1>t. /\ usb_inbuf_idx \in 0..PacketSize /\ PacketSize \in Nat /\ i \in 0..PacketSize
      /\ numbytes \in 0..PacketSize /\ sent \in Nat /\ handled \in Nat /\ tested \in Nat
      /\ From \in 0..PacketSize
      /\ \A k \in 0..(usb_inbuf_idx - 1) : usb_inputbuffer[k] \in Nat
  BY ConsoleAssumption DEF TypeInv, TypeOK, From, BufIndices
<1>1. ASSUME NEW len \in Lens, HostPacket(len) PROVE BufferInv'
  <2> DEFINE offset == Offset(len)
             start == usb_inbuf_idx - offset
  <2>1. /\ len \in Nat /\ offset \in Nat /\ start \in Nat /\ start + offset = usb_inbuf_idx
        /\ usb_inbuf_idx <= start + len
    BY <1>t, <1>1, OffsetValue
  <2>2. /\ usb_inbuf_idx' = start + len /\ sent' = sent + len
        /\ \A k \in start..(start + len - 1) : usb_inputbuffer'[k] = sent + 1 + (k - start)
        /\ \A k \in 0..(start - 1) : usb_inputbuffer'[k] = usb_inputbuffer[k + offset]
    BY <1>1, PacketStored
  <2>3. From' = From /\ pc' = pc /\ numbytes' = numbytes /\ i' = i /\ handled' = handled
    BY <1>1 DEF HostPacket, poll, From
  <2> HIDE DEF offset, start
  <2>4. \A k \in 0..(start - 1) :
           /\ usb_inputbuffer'[k] \in Nat /\ usb_inputbuffer'[k] <= sent
           /\ From <= k => handled < usb_inputbuffer'[k]
    BY <1>t, <2>1, <2>2 DEF BufferInv
  <2>5. \A j, k \in 0..(start - 1) : j < k => usb_inputbuffer'[j] < usb_inputbuffer'[k]
    BY <1>t, <2>1, <2>2 DEF BufferInv
  <2>6. handled <= sent
    BY DEF BufferInv
  <2>7. \A k \in start..(start + len - 1) :
           /\ usb_inputbuffer'[k] \in Nat /\ usb_inputbuffer'[k] <= sent'
           /\ sent < usb_inputbuffer'[k]
    BY <1>t, <2>1, <2>2
  <2>8. \A k \in 0..(usb_inbuf_idx' - 1) : k \in 0..(start - 1) \/ k \in start..(start + len - 1)
    BY <2>1, <2>2
  <2>9. \A k \in 0..(usb_inbuf_idx' - 1) : usb_inputbuffer'[k] <= sent'
    BY <1>t, <2>1, <2>2, <2>4, <2>7, <2>8
  <2>10. \A j, k \in 0..(usb_inbuf_idx' - 1) :
            j < k => usb_inputbuffer'[j] < usb_inputbuffer'[k]
    BY <1>t, <2>1, <2>2, <2>4, <2>5, <2>7, <2>8
  <2>11. \A k \in From'..(usb_inbuf_idx' - 1) : handled' < usb_inputbuffer'[k]
    BY <1>t, <2>1, <2>2, <2>3, <2>4, <2>6, <2>7
  <2>12. handled' <= sent' /\ (pc' # "idle" => numbytes' <= usb_inbuf_idx')
         /\ (pc' = "reset" => i' = numbytes')
    BY <1>t, <2>1, <2>2, <2>3, <2>6 DEF BufferInv
  <2>13. ASSUME pc = "store"
         PROVE  i < numbytes /\ handled < tested /\ tested <= usb_inputbuffer'[i]
    <3>1. /\ i < numbytes /\ handled < tested /\ tested <= usb_inputbuffer[i]
          /\ i \in 0..(usb_inbuf_idx - 1) /\ usb_inputbuffer[i] <= sent
      BY <2>13, Newer DEF BufferInv
    <3>2. CASE i \in start..(start + len - 1)
      BY <1>t, <2>7, <3>1, <3>2
    <3>3. CASE i \in 0..(start - 1)
      <4>1. i + offset \in 0..(usb_inbuf_idx - 1) /\ i <= i + offset
        BY <1>t, <2>1, <3>1, <3>3
      <4>2. usb_inputbuffer[i] <= usb_inputbuffer[i + offset]
        <5>1. CASE offset = 0
          BY <1>t, <3>1, <5>1
        <5>2. CASE offset # 0
          BY <1>t, <2>1, <3>1, <4>1, <5>2 DEF BufferInv
        <5> QED
          BY <5>1, <5>2
      <4> QED
        BY <1>t, <2>2, <3>1, <3>3, <4>1, <4>2
    <3> QED
      BY <1>t, <2>1, <3>1, <3>2, <3>3
  <2>14. pc' = "store" => i' < numbytes' /\ handled' < tested' /\ tested' <= usb_inputbuffer'[i']
    <3>1. tested' = tested
      BY <1>1 DEF HostPacket, poll
    <3> QED
      BY <2>3, <2>13, <3>1
  <2> QED
    BY <2>9, <2>10, <2>11, <2>12, <2>14 DEF BufferInv
<1>2. CASE RaisePending
  BY <1>2 DEF RaisePending, BufferInv, From, usb, poll, history
<1>3. CASE PollUsb
  BY <1>t, <1>3 DEF PollUsb, BufferInv, From, usb, history
<1>4. CASE CallHandle
  BY <1>t, <1>4 DEF CallHandle, BufferInv, From, usb, history
<1>5. CASE Turn /\ i' = i + 1
  <2>1. /\ i \in 0..(usb_inbuf_idx - 1) /\ usb_inputbuffer[i] \in Nat
        /\ handled' \in Nat /\ handled < handled' /\ handled' <= usb_inputbuffer[i]
        /\ usb_inputbuffer[i] <= sent /\ pc' = "loop" /\ From' = i + 1
        /\ UNCHANGED <<usb_inputbuffer, usb_inbuf_idx, numbytes, sent>>
    BY <1>5, TurnTakes DEF usb
  <2>2. \A k \in (i + 1)..(usb_inbuf_idx - 1) :
           /\ usb_inputbuffer[i] < usb_inputbuffer[k] /\ usb_inputbuffer[k] \in Nat
    BY <1>t, <2>1 DEF BufferInv
  <2>3. \A k \in From'..(usb_inbuf_idx' - 1) : handled' < usb_inputbuffer'[k]
    BY <1>t, <2>1, <2>2
  <2>4. pc # "idle"
    BY <1>5 DEF Turn, TestByte, StoreByte
  <2>5. handled' <= sent' /\ numbytes' <= usb_inbuf_idx'
    BY <1>t, <2>1, <2>4 DEF BufferInv
  <2> QED
    BY <2>1, <2>3, <2>5 DEF BufferInv
<1>5b. CASE Turn /\ i' # i + 1
  <2>1. /\ pc = "loop" /\ pc' = "store" /\ i < numbytes /\ From = i /\ From' = i
        /\ tested' = usb_inputbuffer[i] /\ i' = i
        /\ UNCHANGED <<usb_inputbuffer, usb_inbuf_idx, numbytes, sent, handled>>
    BY <1>5b, TurnTests DEF usb, From
  <2>2. handled < usb_inputbuffer[i] /\ usb_inputbuffer[i] \in Nat
    BY <2>1, Newer
  <2> QED
    BY <1>t, <2>1, <2>2 DEF BufferInv
<1>6. CASE HandleEnd
  BY <1>t, <1>6 DEF HandleEnd, BufferInv, From, usb, history
<1>7. CASE Reset
  BY <1>t, <1>7 DEF Reset, BufferInv, From, history
<1>8. CASE ReadStdin
  BY <1>8 DEF ReadStdin, BufferInv, From, usb, poll
<1>9. CASE UNCHANGED vars
  BY <1>9 DEF vars, BufferInv, From, usb, poll, history
<1> QED
  BY <1>1, <1>2, <1>3, <1>4, <1>5, <1>5b, <1>6, <1>7, <1>8, <1>9 DEF Next, Background, Turn

-----------------------------------------------------------------------------
(* The ring.                                                               *)

(* Used and Queue without remainders. *)
LEMMA RingShape ==
    /\ RX_BUF_SIZE \in Nat /\ RX_BUF_SIZE > 1
    /\ RingIndices = Slots(RX_BUF_SIZE) /\ 0 \in RingIndices /\ 1 \in RingIndices
    /\ \A h, t \in RingIndices :
          /\ (h - t) % RX_BUF_SIZE = Dist(RX_BUF_SIZE, h, t)
          /\ Dist(RX_BUF_SIZE, h, t) \in RingIndices
    /\ \A t, d \in RingIndices :
          /\ (t + d) % RX_BUF_SIZE = Slot(RX_BUF_SIZE, t, d)
          /\ Slot(RX_BUF_SIZE, t, d) \in RingIndices
<1>1. RX_BUF_SIZE \in Nat /\ RX_BUF_SIZE > 1 /\ RingIndices = Slots(RX_BUF_SIZE)
  BY ConsoleAssumption DEF RingIndices, Slots
<1> QED
  BY <1>1, Remainders

(* The queue is read from the ring slot by slot, and its length is a       *)
(* distance of the ring.                                                   *)
LEMMA QueueType ==
    ASSUME TypeInv
    PROVE  /\ Used \in RingIndices /\ Used \in Nat
           /\ \A d \in RingIndices :
                 Queue[d] = rx_buf[Slot(RX_BUF_SIZE, rx_tail, d)] /\ Queue[d] \in Nat
           /\ \A d \in 0..(Used - 1) : d \in RingIndices
           /\ taken \in Nat /\ handled \in Nat /\ MaxSent \in Nat
<1>1. /\ rx_head \in RingIndices /\ rx_tail \in RingIndices
      /\ rx_buf \in [RingIndices -> 0..MaxSent]
      /\ taken \in Nat /\ handled \in Nat /\ MaxSent \in Nat
  BY ConsoleAssumption DEF TypeInv, TypeOK
<1>2. Used \in RingIndices
  BY <1>1, RingShape DEF Used
<1>3. \A d \in RingIndices :
         Queue[d] = rx_buf[Slot(RX_BUF_SIZE, rx_tail, d)] /\ Queue[d] \in Nat
  <2> TAKE d \in RingIndices
  <2>1. Queue[d] = rx_buf[(rx_tail + d) % RX_BUF_SIZE]
    BY DEF Queue
  <2>2. /\ (rx_tail + d) % RX_BUF_SIZE = Slot(RX_BUF_SIZE, rx_tail, d)
        /\ Slot(RX_BUF_SIZE, rx_tail, d) \in RingIndices
    BY <1>1, RingShape
  <2> QED
    BY <1>1, <2>1, <2>2
<1>4. Used \in Nat /\ \A d \in 0..(Used - 1) : d \in RingIndices
  BY <1>2, ConsoleAssumption DEF RingIndices
<1> QED
  BY <1>1, <1>2, <1>3, <1>4

(* A step that leaves the ring alone may only raise the number handled.    *)
LEMMA RingUnchanged ==
    ASSUME TypeInv, RingInv, UNCHANGED ring, handled' \in Nat, handled <= handled',
           taken' = taken
    PROVE  RingInv'
<1>1. Used' = Used /\ Queue' = Queue
  BY DEF ring, Used, Queue
<1> QED
  BY <1>1, QueueType DEF RingInv

(* Appending what is newer than all keeps the order.                       *)
LEMMA RingStored ==
    ASSUME TypeInv, TypeInv', RingInv, NEW b \in 0..MaxSent, handled < b,
           Store(b), handled' = b, taken' = taken
    PROVE  RingInv'
<1> DEFINE next == (rx_head + 1) % RX_BUF_SIZE
<1>t. /\ rx_head \in RingIndices /\ rx_tail \in RingIndices
      /\ rx_head' \in RingIndices /\ rx_tail' \in RingIndices
      /\ rx_buf \in [RingIndices -> 0..MaxSent] /\ handled' \in Nat
      /\ b \in Nat /\ handled \in Nat /\ taken \in Nat
  BY ConsoleAssumption DEF TypeInv, TypeOK
<1>1. CASE next = rx_tail
  BY <1>1, <1>t, RingUnchanged DEF Store
<1>2. CASE next # rx_tail
  <2>1. /\ rx_buf' = [rx_buf EXCEPT ![rx_head] = b]
        /\ rx_head' = next /\ rx_tail' = rx_tail
    BY <1>2 DEF Store
  <2>2. /\ next = Slot(RX_BUF_SIZE, rx_head, 1) /\ RingIndices = Slots(RX_BUF_SIZE)
        /\ RX_BUF_SIZE \in Nat /\ RX_BUF_SIZE > 1 /\ 1 \in RingIndices
        /\ Used = Dist(RX_BUF_SIZE, rx_head, rx_tail)
        /\ Used' = Dist(RX_BUF_SIZE, rx_head', rx_tail')
        /\ Used \in RingIndices /\ Used' \in RingIndices
        /\ \A d \in RingIndices : Slot(RX_BUF_SIZE, rx_tail, d) \in RingIndices
    BY <1>t, RingShape DEF Used
  <2>q. \A d \in RingIndices : Queue'[d] = rx_buf'[Slot(RX_BUF_SIZE, rx_tail', d)]
    <3> TAKE d \in RingIndices
    <3>1. Queue'[d] = rx_buf'[(rx_tail' + d) % RX_BUF_SIZE]
      BY DEF Queue
    <3> QED
      BY <1>t, <3>1, RingShape
  <2> HIDE DEF next
  <2>3. Used' = Used + 1
    <3>1. Used + 1 < RX_BUF_SIZE
      BY <1>2, <1>t, <2>2, HeadMayMove
    <3> QED
      BY <1>t, <2>1, <2>2, <3>1, HeadMoves
  <2>4. /\ Slot(RX_BUF_SIZE, rx_tail, Used) = rx_head
        /\ \A d \in RingIndices : d # Used => Slot(RX_BUF_SIZE, rx_tail, d) # rx_head
    BY <1>t, <2>2, SlotOfDist
  <2>5. Queue'[Used] = b /\ \A d \in RingIndices : d # Used => Queue'[d] = Queue[d]
    BY <1>t, <2>1, <2>2, <2>q, <2>4, QueueType
  <2>6. /\ Used \in Nat /\ \A d \in 0..(Used - 1) : d \in RingIndices /\ Queue[d] \in Nat
    BY QueueType
  <2>7. /\ \A d \in 0..(Used - 1) : Queue'[d] = Queue[d] /\ Queue[d] \in Nat
        /\ \A d \in 0..(Used' - 1) : d \in 0..(Used - 1) \/ d = Used
    BY <2>3, <2>5, <2>6
  <2>8. \A d \in 0..(Used' - 1) : taken' < Queue'[d] /\ Queue'[d] <= handled'
    BY <1>t, <2>5, <2>7 DEF RingInv
  <2>9. \A d, e \in 0..(Used' - 1) : d < e => Queue'[d] < Queue'[e]
    BY <1>t, <2>5, <2>6, <2>7 DEF RingInv
  <2> QED
    BY <1>t, <2>8, <2>9 DEF RingInv
<1> QED
  BY <1>1, <1>2

(* stdin takes the oldest *)
LEMMA RingTaken == ASSUME TypeInv, TypeInv', RingInv, ReadStdin PROVE RingInv'
<1>t. /\ rx_head \in RingIndices /\ rx_tail \in RingIndices
      /\ rx_head' \in RingIndices /\ rx_tail' \in RingIndices
      /\ handled \in Nat /\ taken \in Nat
  BY ConsoleAssumption DEF TypeInv, TypeOK
<1>1. /\ rx_head # rx_tail /\ taken' = rx_buf[rx_tail] /\ rx_buf' = rx_buf
      /\ rx_head' = rx_head /\ rx_tail' = (rx_tail + 1) % RX_BUF_SIZE /\ handled' = handled
  BY DEF ReadStdin
<1>2. /\ rx_tail' = Slot(RX_BUF_SIZE, rx_tail, 1) /\ RingIndices = Slots(RX_BUF_SIZE)
      /\ RX_BUF_SIZE \in Nat /\ RX_BUF_SIZE > 1 /\ 0 \in RingIndices
      /\ Used = Dist(RX_BUF_SIZE, rx_head, rx_tail)
      /\ Used' = Dist(RX_BUF_SIZE, rx_head', rx_tail')
      /\ Used \in RingIndices /\ Used' \in RingIndices
  BY <1>t, <1>1, RingShape DEF Used
<1>q. \A d \in RingIndices : Queue'[d] = rx_buf'[Slot(RX_BUF_SIZE, rx_tail', d)]
  <2> TAKE d \in RingIndices
  <2>1. Queue'[d] = rx_buf'[(rx_tail' + d) % RX_BUF_SIZE]
    BY DEF Queue
  <2> QED
    BY <1>t, <2>1, RingShape
<1>3. Used' = Used - 1
  BY <1>t, <1>1, <1>2, TailMoves
<1>4. Used \in Nat /\ Used > 0
  <2>1. Used # 0
    BY <1>t, <1>1, <1>2, SlotOfDist
  <2> QED
    BY <2>1, QueueType
<1>5. taken' = Queue[0]
  <2>1. Slot(RX_BUF_SIZE, rx_tail, 0) = rx_tail
    BY <1>t, <1>2 DEF Slot, Slots
  <2> QED
    BY <1>1, <1>2, <2>1, QueueType
<1>6. \A d \in 0..(Used' - 1) : Queue'[d] = Queue[d + 1] /\ d + 1 \in 0..(Used - 1)
  <2> SUFFICES ASSUME NEW d \in 0..(Used' - 1)
               PROVE  Queue'[d] = Queue[d + 1] /\ d + 1 \in 0..(Used - 1)
    OBVIOUS
  <2>1. d \in RingIndices /\ d + 1 \in RingIndices /\ d + 1 \in 0..(Used - 1)
    BY <1>2, <1>3, <1>4 DEF Slots
  <2>2. Slot(RX_BUF_SIZE, Slot(RX_BUF_SIZE, rx_tail, 1), d) = Slot(RX_BUF_SIZE, rx_tail, d + 1)
    BY <1>t, <1>1, <1>2, <2>1, TailMoves
  <2> QED
    BY <1>1, <1>2, <1>q, <2>1, <2>2, QueueType
<1>7. 0 \in 0..(Used - 1) /\ \A d \in 0..(Used - 1) : Queue[d] \in Nat
  BY <1>4, QueueType
<1>8. taken' <= handled'
      /\ \A d \in 0..(Used' - 1) : taken' < Queue'[d] /\ Queue'[d] <= handled'
  <2>1. ASSUME NEW d \in 0..(Used' - 1) PROVE taken' < Queue'[d] /\ Queue'[d] <= handled'
    <3>1. Queue'[d] = Queue[d + 1] /\ d + 1 \in 0..(Used - 1) /\ 0 < d + 1
      BY <1>3, <1>4, <1>6
    <3> QED
      BY <1>1, <1>5, <1>7, <3>1 DEF RingInv
  <2>2. taken' <= handled'
    BY <1>1, <1>5, <1>7 DEF RingInv
  <2> QED
    BY <2>1, <2>2
<1>9. \A d, e \in 0..(Used' - 1) : d < e => Queue'[d] < Queue'[e]
  <2> SUFFICES ASSUME NEW d \in 0..(Used' - 1), NEW e \in 0..(Used' - 1), d < e
               PROVE  Queue'[d] < Queue'[e]
    OBVIOUS
  <2>1. d + 1 \in 0..(Used - 1) /\ e + 1 \in 0..(Used - 1) /\ d + 1 < e + 1
    BY <1>3, <1>4
  <2> QED
    BY <1>6, <2>1 DEF RingInv
<1> QED
  BY <1>8, <1>9 DEF RingInv

(* Every action keeps the ring ascending, between what was taken and what  *)
(* was handled.                                                            *)
LEMMA RingStep == TypeInv /\ TypeInv' /\ BufferInv /\ RingInv /\ [Next]_vars => RingInv'
<1> SUFFICES ASSUME TypeInv, TypeInv', BufferInv, RingInv, [Next]_vars PROVE RingInv'
  OBVIOUS
<1>t. handled \in Nat /\ handled' \in Nat
  BY ConsoleAssumption DEF TypeInv, TypeOK
<1>1. ASSUME UNCHANGED <<ring, handled, taken>> PROVE RingInv'
  BY <1>t, <1>1, RingUnchanged
<1>2. CASE \E len \in Lens : HostPacket(len)
  BY <1>1, <1>2 DEF HostPacket
<1>3. CASE RaisePending \/ PollUsb \/ CallHandle \/ HandleEnd \/ Reset
  BY <1>1, <1>3 DEF RaisePending, PollUsb, CallHandle, HandleEnd, Reset, history
<1>4. CASE TestByte
  <2>1. CASE i' = i + 1
    <3>1. handled < handled' /\ UNCHANGED <<ring, taken>>
      BY <1>4, <2>1, TurnTakes DEF TestByte, Turn
    <3>2. handled <= handled'
      BY <1>t, <3>1
    <3> QED
      BY <1>t, <3>1, <3>2, RingUnchanged
  <2>2. CASE i' # i + 1
    BY <1>1, <1>4, <2>2, TurnTests DEF Turn
  <2> QED
    BY <2>1, <2>2
<1>4b. CASE StoreByte
  <2> PICK b \in {tested, usb_inputbuffer[i]} : Store(b) /\ handled' = b
    BY <1>4b DEF StoreByte
  <2>1. handled < b /\ handled' = b /\ taken' = taken
    BY <1>4b, TurnTakes DEF StoreByte, Turn
  <2>2. b \in 0..MaxSent
    BY <1>t, <2>1, ConsoleAssumption DEF TypeInv, TypeOK
  <2> QED
    BY <2>1, <2>2, RingStored
<1>5. CASE ReadStdin
  BY <1>5, RingTaken
<1>6. CASE UNCHANGED vars
  BY <1>1, <1>6 DEF vars, history
<1> QED
  BY <1>2, <1>3, <1>4, <1>4b, <1>5, <1>6 DEF Next, Background

-----------------------------------------------------------------------------
(* What is waiting.                                                        *)

(* As long as no byte was shifted out or reset away, those that wait are   *)
(* the ones that follow the last one handled.                              *)
LEMMA GapStep == TypeInv /\ BufferInv /\ GapInv /\ [Next]_vars => GapInv'
<1> SUFFICES ASSUME TypeInv, BufferInv, GapInv, [Next]_vars, ~overrun', ~raced'
             PROVE  NextOnes'
  BY DEF GapInv
<1>t. /\ usb_inbuf_idx \in Nat /\ i \in Nat /\ numbytes \in Nat
      /\ sent \in Nat /\ handled \in Nat /\ From \in Nat
  BY ConsoleAssumption DEF TypeInv, TypeOK, From
<1>g. ~overrun /\ ~raced /\ NextOnes
  <2>1. ~overrun /\ ~raced
    <3>1. ASSUME NEW len \in Lens, HostPacket(len) PROVE ~overrun /\ ~raced
      BY <3>1, Zenon DEF HostPacket
    <3>2. CASE UNCHANGED <<overrun, raced>>
      BY <3>2
    <3>3. (\E len \in Lens : HostPacket(len)) \/ UNCHANGED <<overrun, raced>>
      BY DEF Next, Background, RaisePending, PollUsb, CallHandle, TestByte,
             StoreByte, HandleEnd, Reset, ReadStdin, history, vars
    <3> QED
      BY <3>1, <3>2, <3>3
  <2> QED
    BY <2>1 DEF GapInv
<1>1. ASSUME NEW len \in Lens, HostPacket(len) PROVE NextOnes'
  <2>1. /\ pc = "idle" /\ pc' = "idle"
        /\ ~(usb_inbuf_idx + len > PacketSize) /\ handled' = handled
    BY <1>1, <1>g DEF HostPacket, poll
  <2>2. Offset(len) = 0 /\ len \in Nat
    BY <1>1, <2>1, OffsetValue DEF Offset
  <2>3. /\ usb_inbuf_idx' = usb_inbuf_idx + len /\ sent' = sent + len
        /\ \A k \in usb_inbuf_idx..(usb_inbuf_idx + len - 1) :
              usb_inputbuffer'[k] = sent + 1 + (k - usb_inbuf_idx)
        /\ \A k \in 0..(usb_inbuf_idx - 1) : usb_inputbuffer'[k] = usb_inputbuffer[k]
    <3>1. usb_inbuf_idx - 0 = usb_inbuf_idx /\ \A k \in 0..(usb_inbuf_idx - 1) : k + 0 = k
      BY <1>t
    <3> QED
      BY <1>1, <2>2, <3>1, PacketStored
  <2>4. From = 0 /\ From' = 0
    BY <2>1 DEF From
  <2> QED
    BY <1>t, <1>g, <2>1, <2>2, <2>3, <2>4 DEF NextOnes
<1>2. CASE RaisePending
  BY <1>g, <1>2 DEF RaisePending, NextOnes, From, usb, poll, history
<1>3. CASE PollUsb
  BY <1>g, <1>3 DEF PollUsb, NextOnes, From, usb, history
<1>4. CASE CallHandle
  BY <1>g, <1>4 DEF CallHandle, NextOnes, From, usb, history
<1>5. CASE Turn /\ i' = i + 1
  <2>1. /\ From = i /\ From' = i + 1 /\ pc' = "loop"
        /\ UNCHANGED <<usb_inputbuffer, usb_inbuf_idx, numbytes, sent>>
        /\ i \in 0..(usb_inbuf_idx - 1) /\ usb_inputbuffer[i] \in Nat
        /\ handled < handled' /\ handled' <= usb_inputbuffer[i] /\ handled' \in Nat
    BY <1>5, TurnTakes DEF usb
  <2>2. i \in From..(usb_inbuf_idx - 1)
    BY <1>t, <2>1
  <2>3. usb_inputbuffer[i] = handled + 1
    BY <1>t, <1>g, <2>1, <2>2 DEF NextOnes
  <2>4. handled' = handled + 1
    BY <1>t, <2>1, <2>3
  <2>5. numbytes = usb_inbuf_idx
    BY <1>5, <1>g DEF Turn, TestByte, StoreByte, NextOnes
  <2> QED
    BY <1>t, <1>g, <2>1, <2>4, <2>5 DEF NextOnes
<1>5b. CASE Turn /\ i' # i + 1
  <2>1. /\ From' = From /\ pc = "loop" /\ pc' = "store"
        /\ tested' = usb_inputbuffer[i] /\ i' = i
        /\ UNCHANGED <<usb_inputbuffer, usb_inbuf_idx, numbytes, sent, handled>>
    BY <1>5b, TurnTests DEF usb, From
  <2> QED
    BY <1>g, <2>1 DEF NextOnes
<1>6. CASE HandleEnd
  BY <1>g, <1>6 DEF HandleEnd, NextOnes, From, usb, history
<1>7. CASE Reset
  <2>1. /\ From = usb_inbuf_idx /\ From' = 0 /\ usb_inbuf_idx' = 0 /\ pc' = "idle"
        /\ UNCHANGED <<sent, handled>>
    BY <1>g, <1>7 DEF Reset, NextOnes, From, BufferInv, history
  <2> QED
    BY <1>t, <1>g, <2>1 DEF NextOnes
<1>8. CASE ReadStdin
  BY <1>g, <1>8 DEF ReadStdin, NextOnes, From, usb, poll
<1>9. CASE UNCHANGED vars
  BY <1>g, <1>9 DEF vars, NextOnes, From, usb, poll, history
<1> QED
  BY <1>1, <1>2, <1>3, <1>4, <1>5, <1>5b, <1>6, <1>7, <1>8, <1>9 DEF Next, Background, Turn

-----------------------------------------------------------------------------
(* Theorems.                                                               *)

(* The invariant holds at the start, when nothing was sent.                *)
LEMMA InitInv == Init => IInv
<1> SUFFICES ASSUME Init PROVE IInv
  OBVIOUS
<1>1. TypeInv
  <2>1. usb_inputbuffer \in [BufIndices -> 0..MaxSent] /\ rx_buf \in [RingIndices -> 0..MaxSent]
    BY ConsoleAssumption DEF Init
  <2>2. rx_head \in RingIndices /\ rx_tail \in RingIndices
    BY RingShape DEF Init
  <2>3. kbd \in BOOLEAN /\ overrun \in BOOLEAN /\ raced \in BOOLEAN
    BY Zenon DEF Init
  <2>4. /\ usb_inbuf_idx \in 0..PacketSize /\ numbytes \in 0..PacketSize
        /\ i \in 0..PacketSize /\ i \in 0..numbytes
        /\ tested \in 0..MaxSent /\ dropped \in 0..MaxSent
        /\ sent \in 0..MaxSent /\ handled \in 0..MaxSent /\ taken \in 0..MaxSent
    BY ConsoleAssumption DEF Init
  <2>5. pc \in {"idle", "call", "loop", "store", "reset"}
    BY DEF Init
  <2> QED
    BY <2>1, <2>2, <2>3, <2>4, <2>5 DEF TypeInv, TypeOK
<1>2. BufferInv
  BY DEF Init, BufferInv, From
<1>3. RingInv
  <2>1. Used = 0
    <3>1. rx_head \in RingIndices /\ rx_head = rx_tail
      BY RingShape DEF Init
    <3> QED
      BY <3>1, RingShape, SlotOfDist DEF Used
  <2> QED
    BY <2>1 DEF Init, RingInv
<1>4. GapInv
  BY DEF Init, GapInv, NextOnes, From
<1> QED
  BY <1>1, <1>2, <1>3, <1>4 DEF IInv

(* All parts of the invariant hold in every reachable state.               *)
THEOREM Inductive == Spec => []IInv
<1>1. IInv /\ [Next]_vars => IInv'
  BY TypeStep, BufferStep, RingStep, GapStep DEF IInv
<1> QED
  BY <1>1, InitInv, PTL DEF Spec

(* The indices of both buffers stay inside them, whatever packets come     *)
(* while handle_input runs.                                                *)
THEOREM TypeCorrect == Spec => []TypeOK
<1>1. IInv => TypeOK
  BY DEF IInv, TypeInv
<1> QED
  BY <1>1, Inductive, PTL

(* The ring holds bytes in the order they were sent, newer than stdin's.   *)
THEOREM RingOrdered == Spec => []RingInOrder
<1>1. IInv => RingInOrder
  <2> SUFFICES ASSUME IInv, NEW d \in 0..(Used - 1)
               PROVE  /\ taken < rx_buf[(rx_tail + d) % RX_BUF_SIZE]
                      /\ d > 0 => rx_buf[(rx_tail + (d - 1)) % RX_BUF_SIZE]
                                    < rx_buf[(rx_tail + d) % RX_BUF_SIZE]
    BY DEF RingInOrder, Used
  <2>1. Used \in Nat /\ d \in RingIndices /\ Queue[d] = rx_buf[(rx_tail + d) % RX_BUF_SIZE]
    BY QueueType DEF IInv, Queue
  <2>2. CASE d > 0
    <3>1. d - 1 \in 0..(Used - 1) /\ d - 1 < d /\ d - 1 \in RingIndices
      BY <2>1, <2>2, QueueType DEF IInv
    <3>2. Queue[d - 1] = rx_buf[(rx_tail + (d - 1)) % RX_BUF_SIZE]
      BY <3>1 DEF Queue
    <3> QED
      BY <2>1, <3>1, <3>2 DEF IInv, RingInv
  <2> QED
    BY <2>1, <2>2 DEF IInv, RingInv
<1> QED
  BY <1>1, Inductive, PTL

(* Every turn of handle_input's loop takes a byte newer than the turn      *)
(* before took, although the interrupt shifts the buffer between two turns *)
(* and between the test and the store of one.                              *)
THEOREM LooksForward == Spec => NeverBack
<1>1. IInv /\ [Next]_vars => [i' = i + 1 => handled' > handled]_vars
  <2> SUFFICES ASSUME IInv, Next, i' = i + 1 PROVE handled' > handled
    OBVIOUS
  <2>1. i \in Nat /\ handled \in Nat
    BY ConsoleAssumption DEF IInv, TypeInv, TypeOK
  <2>2. i' # i /\ i' # 0
    BY <2>1
  <2>3. Turn
    BY <2>2 DEF Next, Background, HostPacket, RaisePending, PollUsb, CallHandle, HandleEnd,
           Reset, ReadStdin, Turn, poll
  <2>4. handled < handled' /\ handled' \in Nat
    BY <2>3, TurnTakes DEF IInv
  <2> QED
    BY <2>1, <2>4
<1> QED
  BY <1>1, Inductive, PTL DEF Spec, NeverBack

(* Nothing is lost on the way to handle_input while packets fit in the     *)
(* buffer and come between polls.                                          *)
THEOREM NothingSkipped == Spec => NoGap
<1>1. IInv /\ [Next]_vars
         => [handled' # handled /\ ~overrun /\ ~raced => handled' = handled + 1]_vars
  <2> SUFFICES ASSUME IInv, Next, handled' # handled, ~overrun, ~raced
               PROVE  handled' = handled + 1
    OBVIOUS
  <2>1. Turn
    BY DEF Next, Background, HostPacket, RaisePending, PollUsb, CallHandle, HandleEnd,
           Reset, ReadStdin, history, Turn
  <2>2. i' = i + 1
    BY <2>1, TurnTests DEF IInv
  <2>3. /\ From = i /\ i \in 0..(usb_inbuf_idx - 1) /\ usb_inputbuffer[i] \in Nat
        /\ handled < handled' /\ handled' <= usb_inputbuffer[i] /\ handled' \in Nat
        /\ handled \in Nat
    BY <2>1, <2>2, TurnTakes DEF IInv, TypeInv, TypeOK
  <2>4. usb_inputbuffer[i] = handled + 1 + (i - From)
    BY <2>3 DEF IInv, GapInv, NextOnes
  <2> QED
    BY <2>3, <2>4
<1> QED
  BY <1>1, Inductive, PTL DEF Spec, NoGap
=============================================================================
