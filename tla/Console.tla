------------------------------ MODULE Console -------------------------------
(***************************************************************************)
(* Console input, from the host's CDC packets to stdin.                    *)
(*                                                                         *)
(*   - the USB interrupt appends a packet to usb_inputbuffer, shifting out *)
(*     its oldest bytes when the packet does not fit;                      *)
(*   - once a millisecond the interpreter's background processing raises a *)
(*     pending KeyboardInterrupt or else polls: handle_input walks over    *)
(*     usb_inputbuffer, moves data to the ring rx_buf and turns the        *)
(*     interrupt characters into a pending KeyboardInterrupt;              *)
(*   - mp_hal_stdin_rx_chr takes bytes out of the ring.                    *)
(*                                                                         *)
(* The last two are the same thread; the interrupt may come between any    *)
(* two of its steps.  A byte is its number in the order the host sent it.  *)
(* Those in Breaks are 0x4, which always interrupts.  For all others it is *)
(* left open: that depends on the byte and on mp_interrupt_char, which     *)
(* pyexec sets and clears.                                                 *)
(***************************************************************************)
EXTENDS Integers

CONSTANTS
    PacketSize,     \* USBFS_PACKET_SIZE = sizeof(usb_inputbuffer): 64
    RX_BUF_SIZE,    \* 64
    Lens,           \* lengths of the host's packets
    MaxSent,        \* bound: bytes the host sends in a behaviour
    Breaks          \* the numbers of those that are 0x4

ASSUME ConsoleAssumption ==
    /\ PacketSize \in Nat \ {0}
    /\ RX_BUF_SIZE \in Nat \ {0, 1}
    /\ Lens \subseteq 1..PacketSize
    /\ MaxSent \in Nat
    /\ Breaks \subseteq 1..MaxSent

BufIndices == 0..(PacketSize - 1)
RingIndices == 0..(RX_BUF_SIZE - 1)

VARIABLES
    usb_inputbuffer, usb_inbuf_idx,
    rx_buf, rx_head, rx_tail,
    kbd,          \* a KeyboardInterrupt is pending
    pc,           \* where poll_usb_input or handle_input is, or "idle"
    numbytes, i,  \* handle_input's argument and loop counter
    tested,       \* in "store": the byte that was found to be data
    sent,         \* bytes the host has sent
    handled,      \* history: the last byte handle_input took, for an
                  \* interrupt or for data
    taken,        \* history: the last byte stdin got
    overrun,      \* history: a packet did not fit in usb_inputbuffer
    dropped,      \* history: the last byte that a packet which did not fit
                  \* kept handle_input from looking at
    raced         \* history: a packet came while a poll was under way

usb == <<usb_inputbuffer, usb_inbuf_idx>>
ring == <<rx_buf, rx_head, rx_tail>>
poll == <<pc, numbytes, i, tested>>
history == <<handled, taken, overrun, dropped, raced>>
vars == <<usb, ring, kbd, poll, sent, history>>

Init ==
    /\ usb_inputbuffer = [k \in BufIndices |-> 0]
    /\ usb_inbuf_idx = 0
    /\ rx_buf = [k \in RingIndices |-> 0]
    /\ rx_head = 0 /\ rx_tail = 0
    /\ kbd = FALSE
    /\ pc = "idle" /\ numbytes = 0 /\ i = 0 /\ tested = 0
    /\ sent = 0
    /\ handled = 0 /\ taken = 0
    /\ overrun = FALSE /\ dropped = 0 /\ raced = FALSE

-----------------------------------------------------------------------------
(* Mutants: the buffer is not made room in; one byte too many is shifted.  *)
OffsetNone(len) == 0
OffsetEager(len) ==
    IF usb_inbuf_idx + len >= PacketSize THEN usb_inbuf_idx + len - PacketSize + 1 ELSE 0

(* bytes HandleDataOut shifts out to make room for len more: -headroom *)
Offset(len) ==
    IF usb_inbuf_idx + len > PacketSize THEN usb_inbuf_idx + len - PacketSize ELSE 0

(* where handle_input looks next *)
Ahead == IF pc = "store" THEN i + 1 ELSE IF pc \in {"loop", "reset"} THEN i ELSE 0

(* history: a shift by offset moves as many bytes to where it has been *)
Dropped(offset) ==
    LET end == IF Ahead + offset < usb_inbuf_idx THEN Ahead + offset ELSE usb_inbuf_idx
    IN IF offset > 0 /\ end > Ahead THEN usb_inputbuffer[end - 1] ELSE dropped

(* HandleDataOut for EP_CDC_OUT. *)
HostPacket(len) ==
    LET offset == Offset(len)
        start == usb_inbuf_idx - offset
        Shifted(k) == usb_inputbuffer[IF k + offset < PacketSize THEN k + offset ELSE k]
    IN /\ sent + len <= MaxSent
       /\ usb_inputbuffer' =
             [k \in BufIndices |->
                 IF k \in start..(start + len - 1) THEN sent + 1 + (k - start) ELSE Shifted(k)]
       /\ usb_inbuf_idx' = start + len
       /\ sent' = sent + len
       /\ overrun' = (overrun \/ usb_inbuf_idx + len > PacketSize)
       /\ dropped' = Dropped(offset)
       /\ raced' = (raced \/ pc # "idle")
       /\ UNCHANGED <<ring, kbd, poll, handled, taken>>

(* mp_handle_pending(true): the exception leaves background processing, so *)
(* the poll of this millisecond does not happen.                           *)
RaisePending ==
    /\ pc = "idle"
    /\ kbd
    /\ kbd' = FALSE
    /\ UNCHANGED <<usb, ring, poll, sent, history>>

(* poll_usb_input finds bytes ... *)
PollUsb ==
    /\ pc = "idle"
    /\ ~kbd
    /\ usb_inbuf_idx > 0
    /\ pc' = "call"
    /\ numbytes' = usb_inbuf_idx
    /\ UNCHANGED <<usb, ring, kbd, i, tested, sent, history>>

(* ... and passes their number on.  usb_inbuf_idx is not volatile and is   *)
(* written by the interrupt: the argument is the value that was tested or  *)
(* a new one.                                                              *)
CallHandle ==
    /\ pc = "call"
    /\ numbytes' \in {numbytes, usb_inbuf_idx}
    /\ i' = 0
    /\ pc' = "loop"
    /\ UNCHANGED <<usb, ring, kbd, tested, sent, history>>

(* Mutant: the byte goes to the slot after the head. *)
StoreAtNext(b) ==
    LET next == (rx_head + 1) % RX_BUF_SIZE
    IN IF next # rx_tail
       THEN /\ rx_buf' = [rx_buf EXCEPT ![next] = b]
            /\ rx_head' = next
            /\ UNCHANGED rx_tail
       ELSE UNCHANGED ring

(* into the ring, unless it is full *)
Store(b) ==
    LET next == (rx_head + 1) % RX_BUF_SIZE
    IN IF next # rx_tail
       THEN /\ rx_buf' = [rx_buf EXCEPT ![rx_head] = b]
            /\ rx_head' = next
            /\ UNCHANGED rx_tail
       ELSE UNCHANGED ring

(* Mutant: the room in the ring is tested before the byte. *)
IsDataWhenFull(b) == b \notin Breaks \/ (rx_head + 1) % RX_BUF_SIZE = rx_tail

(* data[i] may be something else than an interrupt character *)
IsData(b) == b \notin Breaks

(* A turn of handle_input's loop: data[i] is compared with the interrupt   *)
(* characters ...                                                          *)
TestByte ==
    /\ pc = "loop"
    /\ i < numbytes
    /\ LET b == usb_inputbuffer[i]
       IN \/ /\ kbd' = TRUE
             /\ handled' = b
             /\ i' = i + 1
             /\ UNCHANGED <<pc, tested>>
          \/ /\ IsData(b)
             /\ tested' = b
             /\ pc' = "store"
             /\ UNCHANGED <<kbd, handled, i>>
    /\ UNCHANGED <<usb, ring, numbytes, sent, taken, overrun, dropped, raced>>

(* ... and stored.  The buffer is not volatile: what is stored is the byte *)
(* that was tested, or the one that the interrupt has moved there since.   *)
StoreByte ==
    /\ pc = "store"
    /\ \E b \in {tested, usb_inputbuffer[i]} : Store(b) /\ handled' = b
    /\ i' = i + 1
    /\ tested' = 0
    /\ pc' = "loop"
    /\ UNCHANGED <<usb, kbd, numbytes, sent, taken, overrun, dropped, raced>>

HandleEnd ==
    /\ pc = "loop"
    /\ i = numbytes
    /\ pc' = "reset"
    /\ UNCHANGED <<usb, ring, kbd, numbytes, i, tested, sent, history>>

(* Mutant: the bytes that were handled stay in the buffer. *)
ResetNot ==
    /\ pc = "reset"
    /\ pc' = "idle"
    /\ UNCHANGED <<usb, ring, kbd, numbytes, i, tested, sent, history>>

(* usb_inbuf_idx = 0 *)
Reset ==
    /\ pc = "reset"
    /\ usb_inbuf_idx' = 0
    /\ pc' = "idle"
    /\ UNCHANGED <<usb_inputbuffer, ring, kbd, numbytes, i, tested, sent, history>>

(* mp_hal_stdin_rx_chr, when the program reads stdin *)
ReadStdin ==
    /\ pc = "idle"
    /\ rx_head # rx_tail
    /\ taken' = rx_buf[rx_tail]
    /\ rx_tail' = (rx_tail + 1) % RX_BUF_SIZE
    /\ UNCHANGED <<usb, rx_buf, rx_head, kbd, poll, sent, handled, overrun, dropped, raced>>

Background ==
    RaisePending \/ PollUsb \/ CallHandle \/ TestByte \/ StoreByte \/ HandleEnd \/ Reset

Next == (\E len \in Lens : HostPacket(len)) \/ Background \/ ReadStdin

(* Background processing runs after every opcode and in every wait of the  *)
(* HAL.  Nothing makes the host send or the program read stdin.            *)
Spec == Init /\ [][Next]_vars /\ WF_vars(Background)

-----------------------------------------------------------------------------
(* Properties.                                                             *)

(* The indices stay in their arrays: in particular usb_inbuf_idx, which    *)
(* the interrupt lowers by an offset and the interpreter sets to 0, and    *)
(* the index handle_input reads at after the buffer moved under it.        *)
TypeOK ==
    /\ usb_inputbuffer \in [BufIndices -> 0..MaxSent]
    /\ usb_inbuf_idx \in 0..PacketSize
    /\ rx_buf \in [RingIndices -> 0..MaxSent]
    /\ rx_head \in RingIndices /\ rx_tail \in RingIndices
    /\ kbd \in BOOLEAN
    /\ pc \in {"idle", "call", "loop", "store", "reset"}
    /\ numbytes \in 0..PacketSize
    /\ i \in 0..numbytes \/ pc = "call"
    /\ tested \in 0..MaxSent
    /\ sent \in 0..MaxSent /\ handled \in 0..MaxSent /\ taken \in 0..MaxSent
    /\ overrun \in BOOLEAN /\ dropped \in 0..MaxSent /\ raced \in BOOLEAN

(* Every turn of handle_input's loop takes a byte that is newer than the   *)
(* one the turn before took, for an interrupt or for data, although the    *)
(* interrupt may shift the buffer between two turns and within one: no     *)
(* byte is taken twice.                                                    *)
NeverBack == [][i' = i + 1 => handled' > handled]_vars

(* The ring holds bytes in the order they were sent, all newer than the    *)
(* last one stdin got.                                                     *)
RingInOrder ==
    LET used == (rx_head - rx_tail) % RX_BUF_SIZE
        At(d) == rx_buf[(rx_tail + d) % RX_BUF_SIZE]
    IN \A d \in 0..(used - 1) :
          /\ taken < At(d)
          /\ d > 0 => At(d - 1) < At(d)

(* Nothing is lost before the ring as long as packets fit in the buffer    *)
(* and come between polls, never during one.                               *)
NoGap ==
    [][handled' # handled /\ ~overrun /\ ~raced => handled' = handled + 1]_vars

(* b is in usb_inputbuffer. *)
Waits(b) == \E k \in 0..(usb_inbuf_idx - 1) : usb_inputbuffer[k] = b

(* A Ctrl-C gets through to a program that does not read stdin: when it    *)
(* waits in the buffer before a poll begins, handle_input takes it and     *)
(* from then on a KeyboardInterrupt is pending, though the ring may be     *)
(* full and an earlier interrupt may skip polls.  Left out is only one     *)
(* that a packet which does not fit shifts out, or to where handle_input   *)
(* has looked.  One that comes while a poll is under way may be reset away *)
(* (ResetLeavesNone).                                                      *)
BreakGetsThrough ==
    \A b \in Breaks :
        (pc = "idle" /\ Waits(b)) ~> ((handled >= b /\ kbd) \/ dropped >= b)

(* The comment at line 396, "discard oldest if polling is too slow": bytes *)
(* leave usb_inputbuffer unhandled only to make room, so the poll's reset  *)
(* leaves none behind.                                                     *)
ResetLeavesNone == [][pc = "reset" /\ pc' = "idle" => handled = sent]_vars

=============================================================================
