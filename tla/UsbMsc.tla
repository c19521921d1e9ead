------------------------------- MODULE UsbMsc -------------------------------
(***************************************************************************)
(* The mass-storage half of usbfs_cdc_msc.c: the BOT state machine that    *)
(* two contexts drive.                                                     *)
(*                                                                         *)
(*   - the USB interrupt runs HandleDataOut and HandleInRequest to         *)
(*     completion; nothing runs inside it, not even another interrupt of   *)
(*     the same peripheral;                                                *)
(*   - the interpreter calls poll_usb_input about once a millisecond, and  *)
(*     its MSC_PrepareDataIn may be interrupted between any two steps.     *)
(*                                                                         *)
(* Both load endpoint EP_MSC_IN by spinning on USBFS_SendEndpointNEW.  The *)
(* endpoint is released by the interrupt of the packet the host took, so a *)
(* spin of the interpreter ends with that interrupt and a spin inside the  *)
(* interrupt never ends: irq = "hung".                                     *)
(*                                                                         *)
(* The host and fsusb.h are not under src/: the host is a conforming one   *)
(* (one command at a time, DataTransferLength of a READ or WRITE equal to  *)
(* its blocks), which may also reset the bus; fsusb.h is the busy flag of  *)
(* the endpoint, "-1 == busy", which a bus reset clears.                   *)
(*                                                                         *)
(* What the packets hold is in GhostFs; here a packet is its length and    *)
(* its position in the transfer.                                           *)
(***************************************************************************)
EXTENDS Integers

CONSTANTS
    PacketSize,    \* bytes in a bulk packet: 64
    BlockSize,     \* MSC_BLOCK_SIZE: 512
    Word,          \* 2^32, the modulus of uint32_t
    Tags,          \* the values of dCBWTag
    AllocLens,     \* DataTransferLength of the commands other than READ/WRITE
    BlockCounts,   \* transfer length, in blocks, of READ 10 and WRITE 10
    MaxResets      \* bound: bus resets in a behaviour

ASSUME SizesAssumption ==
    /\ PacketSize \in Nat /\ PacketSize > 37
    /\ BlockSize \in Nat \ {0}
    /\ MaxResets \in Nat
ASSUME HostAssumption ==
    /\ 0 \in Tags
    /\ AllocLens \subseteq Nat /\ 0 \in AllocLens
    /\ BlockCounts \subseteq Nat
ASSUME WordAssumption ==
    /\ Word \in Nat \ {0}
    /\ \A l \in AllocLens : l + PacketSize < Word
    /\ \A b \in BlockCounts : b * BlockSize + PacketSize < Word

Smaller(a, b) == IF a < b THEN a ELSE b

-----------------------------------------------------------------------------
(* Commands.  OneShot commands are answered from a header built in         *)
(* MSC_PrepareDataIn; OTHER stands for TEST UNIT READY, PREVENT/ALLOW and  *)
(* every command the switch does not know.                                 *)

OneShot == {"REQUEST_SENSE", "INQUIRY", "READ_CAPACITY", "MODE_SENSE_6", "MODE_SENSE_10"}
Ops == OneShot \cup {"READ_10", "WRITE_10", "OTHER"}

CbwType == [op : Ops, len : Nat, blocks : Nat, in : BOOLEAN, tag : Tags]

(* struct CBW, as a conforming host fills it: in is Flags & 0x80. *)
HeaderCbws == [op : OneShot, len : AllocLens, blocks : {0}, in : {TRUE}, tag : Tags]
ReadCbws ==
    {[op |-> "READ_10", len |-> b * BlockSize, blocks |-> b, in |-> TRUE, tag |-> t] :
        b \in BlockCounts, t \in Tags}
WriteCbws ==
    {[op |-> "WRITE_10", len |-> b * BlockSize, blocks |-> b, in |-> FALSE, tag |-> t] :
        b \in BlockCounts, t \in Tags}
OtherCbws == [op : {"OTHER"}, len : AllocLens, blocks : {0}, in : BOOLEAN, tag : Tags]
Cbws == HeaderCbws \cup ReadCbws \cup WriteCbws \cup OtherCbws

(* cbw before the first command: zeroes, and CB[0] = 0 is TEST UNIT READY. *)
ZeroCbw == [op |-> "OTHER", len |-> 0, blocks |-> 0, in |-> FALSE, tag |-> 0]

NoPacket == [kind |-> "none"]

VARIABLES
    msc_state,             \* msc_state_t
    cbw,                   \* the last command block accepted
    csw,                   \* [tag, residue, status]
    msc_bytes_remaining,
    ep,        \* what EP_MSC_IN holds for the host; busy iff not NoPacket
    irq,       \* "ok", or "hung": the interrupt spins on a busy endpoint
    pc,        \* where the interpreter is in poll_usb_input, "idle" outside
    pkt,       \* the data packet the interpreter is about to load
    hphase,    \* the host: "ready" | "dataIn" | "dataOut" | "status" | "error"
    cmd,       \* its current or last command
    moved,     \* bytes of the data phase it got or gave
    answer,    \* the CSW that closed its last command, or NoPacket
    resets,    \* bus resets so far
    tainted    \* history: the last bus reset caught the device in mid-command

device == <<msc_state, cbw, csw, msc_bytes_remaining>>
main == <<pc, pkt>>
host == <<hphase, cmd, moved, answer>>
vars == <<device, ep, irq, main, host, resets, tainted>>

Init ==
    /\ msc_state = "IDLE"
    /\ cbw = ZeroCbw
    /\ csw = [tag |-> 0, residue |-> 0, status |-> 0]
    /\ msc_bytes_remaining = 0
    /\ ep = NoPacket
    /\ irq = "ok"
    /\ pc = "idle"
    /\ pkt = NoPacket
    /\ hphase = "ready"
    /\ cmd = ZeroCbw
    /\ moved = 0
    /\ answer = NoPacket
    /\ resets = 0
    /\ tainted = FALSE

-----------------------------------------------------------------------------
(* MSC_PrepareDataIn: what the next packet is and what it leaves behind.   *)

(* sizes of the headers; only INQUIRY is cut to what the host asked for *)
HeaderLen(op) ==
    CASE op = "REQUEST_SENSE" -> 18
      [] op = "READ_CAPACITY" -> 8
      [] op = "MODE_SENSE_6" -> 4
      [] op = "MODE_SENSE_10" -> 8
      [] OTHER -> 37

len_to_send(c, remaining) ==
    CASE c.op = "READ_10" -> Smaller(PacketSize, remaining)
      [] c.op = "INQUIRY" -> Smaller(remaining, HeaderLen(c.op))
      [] OTHER -> HeaderLen(c.op)

(* Mutant: the offset of the packet is taken one packet late. *)
DataPacketSkips(c, remaining) ==
    [kind |-> "data", from |-> c.len - remaining + (IF remaining < c.len THEN PacketSize ELSE 0),
     len |-> len_to_send(c, remaining)]

DataPacket(c, remaining) ==
    [kind |-> "data", from |-> c.len - remaining, len |-> len_to_send(c, remaining)]

CswPacket(s) == [kind |-> "csw", tag |-> s.tag, residue |-> s.residue, status |-> s.status]

(* Mutants: the residue counts what was asked for, not what is left of it; *)
(* the header does not end the transfer.                                   *)
CswAfterAsked(c, s, remaining, n) ==
    IF c.op = "READ_10" THEN s ELSE [s EXCEPT !.residue = remaining]
RemainingAfterHeader(c, remaining, n) == remaining - n

(* csw and msc_bytes_remaining once n bytes of data are loaded: a header   *)
(* ends the transfer, and what it left of the request is the residue.      *)
CswAfter(c, s, remaining, n) ==
    IF c.op = "READ_10" THEN s ELSE [s EXCEPT !.residue = (remaining - n) % Word]
RemainingAfter(c, remaining, n) ==
    IF c.op = "READ_10" THEN remaining - n ELSE 0

(* while(USBFS_SendEndpointNEW(EP_MSC_IN, p, ...) == -1) in the interrupt *)
IrqSend(p) ==
    IF ep = NoPacket THEN ep' = p /\ irq' = irq
                     ELSE ep' = ep /\ irq' = "hung"

(* MSC_PrepareDataIn called by the interrupt, on a command c just accepted *)
IrqPrepare(c, s, remaining) ==
    IF remaining = 0
    THEN /\ msc_state' = "SEND_CSW"
         /\ csw' = s
         /\ msc_bytes_remaining' = 0
         /\ IrqSend(CswPacket(s))
    ELSE LET p == DataPacket(c, remaining)
             loaded == ep = NoPacket
         IN /\ msc_state' = "DATA_IN"
            /\ IrqSend(p)
            /\ csw' = IF loaded THEN CswAfter(c, s, remaining, p.len) ELSE s
            /\ msc_bytes_remaining' =
                   IF loaded THEN RemainingAfter(c, remaining, p.len) ELSE remaining

(* Mutant: csw.Tag is not taken from the command. *)
FreshCswOldTag(c) ==
    [tag |-> csw.tag, residue |-> 0,
     status |-> IF c.op = "OTHER" /\ c.len > 0 /\ c.in THEN 1 ELSE 0]

(* the status prepared with the command; only OTHER can fail *)
FreshCsw(c) ==
    [tag |-> c.tag, residue |-> 0,
     status |-> IF c.op = "OTHER" /\ c.len > 0 /\ c.in THEN 1 ELSE 0]

(* HandleDataOut in IDLE, on a valid command block *)
AcceptCbw(c) ==
    LET s == FreshCsw(c)
    IN /\ cbw' = c
       /\ \/ /\ c.op \in OneShot
             /\ IrqPrepare(c, s, c.len)
          \/ /\ c.op = "READ_10"
             /\ IrqPrepare(c, s, c.blocks * BlockSize)
          \/ /\ c.op = "WRITE_10"
             /\ msc_state' = "DATA_OUT"
             /\ csw' = s
             /\ msc_bytes_remaining' = c.blocks * BlockSize
             /\ UNCHANGED <<ep, irq>>
          \/ /\ c.op = "OTHER"
             /\ msc_state' = "SEND_CSW"
             /\ csw' = s
             /\ UNCHANGED msc_bytes_remaining
             /\ IrqSend(CswPacket(s))

(* Mutant: the last data packet is taken and no status is loaded. *)
TakeDataNoStatus(n) ==
    LET left == msc_bytes_remaining - Smaller(n, msc_bytes_remaining)
    IN /\ msc_bytes_remaining' = left
       /\ msc_state' = IF left = 0 THEN "SEND_CSW" ELSE msc_state
       /\ UNCHANGED <<cbw, csw, ep, irq>>

(* HandleDataOut in DATA_OUT, on n bytes *)
TakeData(n) ==
    LET left == msc_bytes_remaining - Smaller(n, msc_bytes_remaining)
    IN /\ msc_bytes_remaining' = left
       /\ UNCHANGED <<cbw, csw>>
       /\ \/ /\ left = 0
             /\ msc_state' = "SEND_CSW"
             /\ IrqSend(CswPacket(csw))
          \/ /\ left > 0
             /\ UNCHANGED <<msc_state, ep, irq>>

(* Mutant: a packet that arrives in DATA_IN aborts the transfer. *)
IgnoreOutAborts ==
    /\ msc_bytes_remaining' = IF msc_state = "DATA_IN" THEN 0 ELSE msc_bytes_remaining
    /\ UNCHANGED <<msc_state, cbw, csw, ep, irq>>

(* Mutant: an unexpected packet brings the machine back to IDLE. *)
IgnoreOutResets == msc_state' = "IDLE" /\ UNCHANGED <<cbw, csw, msc_bytes_remaining, ep, irq>>

(* HandleDataOut in DATA_IN or SEND_CSW: neither branch is taken *)
IgnoreOut == UNCHANGED <<device, ep, irq>>

(* HandleInRequest: the next msc_state after the host took a packet *)
HandleInRequest(s) == IF s = "SEND_CSW" THEN "IDLE" ELSE s

-----------------------------------------------------------------------------
(* Packets of the host, each with the interrupt it raises.                 *)

HostSendsCbw(c) ==
    /\ irq = "ok"
    /\ hphase = "ready"
    /\ c.tag # cmd.tag
    /\ cmd' = c
    /\ hphase' = IF c.len = 0 THEN "status" ELSE IF c.in THEN "dataIn" ELSE "dataOut"
    /\ moved' = 0
    /\ answer' = NoPacket
    /\ \/ msc_state = "IDLE" /\ AcceptCbw(c)
       \/ msc_state = "DATA_OUT" /\ TakeData(31)
       \/ msc_state \in {"DATA_IN", "SEND_CSW"} /\ IgnoreOut
    /\ UNCHANGED <<main, resets, tainted>>

(* In IDLE a packet of 31 bytes would overwrite cbw, whatever it is; none  *)
(* comes then (DataIsNeverCommand).                                        *)
HostSendsData ==
    /\ irq = "ok"
    /\ hphase = "dataOut"
    /\ LET n == Smaller(PacketSize, cmd.len - moved)
       IN /\ moved' = moved + n
          /\ hphase' = IF moved' = cmd.len THEN "status" ELSE "dataOut"
          /\ \/ msc_state = "DATA_OUT" /\ TakeData(n)
             \/ msc_state # "DATA_OUT" /\ IgnoreOut
    /\ UNCHANGED <<main, cmd, answer, resets, tainted>>

(* The host takes what the endpoint holds; HandleInRequest runs.  In the   *)
(* data phase a status means the device skipped the data.                  *)
HostTakes ==
    /\ irq = "ok"
    /\ hphase \in {"dataIn", "status"}
    /\ ep # NoPacket
    /\ ep' = NoPacket
    /\ msc_state' = HandleInRequest(msc_state)
    /\ \/ /\ ep.kind = "csw"
          /\ answer' = ep
          /\ hphase' = IF ep.tag = cmd.tag THEN "ready" ELSE "error"
          /\ moved' = moved
       \/ /\ ep.kind = "data"
          /\ hphase = "dataIn"
          /\ moved' = moved + ep.len
          /\ hphase' = IF moved' >= cmd.len \/ ep.len < PacketSize THEN "status" ELSE "dataIn"
          /\ answer' = answer
       \/ /\ ep.kind = "data"
          /\ hphase = "status"
          /\ hphase' = "error"
          /\ UNCHANGED <<moved, answer>>
    /\ UNCHANGED <<cbw, csw, msc_bytes_remaining, irq, main, cmd, resets, tainted>>

(* A bus reset: the library frees the endpoint, this file has no handler,  *)
(* so whatever the state machine was doing goes on.  It is harmless only   *)
(* when the machine is IDLE and the interpreter out of poll_usb_input.     *)
BusReset ==
    /\ irq = "ok"
    /\ resets < MaxResets
    /\ resets' = resets + 1
    /\ ep' = NoPacket
    /\ hphase' = "ready"
    /\ tainted' = (msc_state # "IDLE" \/ pc # "idle")
    /\ UNCHANGED <<device, irq, main, cmd, moved, answer>>

-----------------------------------------------------------------------------
(* The interpreter: poll_usb_input and its call of MSC_PrepareDataIn.      *)

(* Mutant: the poll serves only the data, not the status that follows it. *)
PollDataOnly ==
    /\ irq = "ok"
    /\ pc = "idle"
    /\ msc_state = "DATA_IN"
    /\ msc_bytes_remaining > 0
    /\ pc' = "prepare"
    /\ UNCHANGED <<device, ep, irq, pkt, host, resets, tainted>>

Poll ==
    /\ irq = "ok"
    /\ pc = "idle"
    /\ msc_state = "DATA_IN"
    /\ pc' = "prepare"
    /\ UNCHANGED <<device, ep, irq, pkt, host, resets, tainted>>

(* Up to the packet or the status; the first test is the early return. *)
Prepare ==
    /\ irq = "ok"
    /\ pc = "prepare"
    /\ IF msc_state = "SEND_CSW"
       THEN pc' = "idle" /\ UNCHANGED <<msc_state, pkt>>
       ELSE IF msc_bytes_remaining = 0
       THEN pc' = "sendCsw" /\ msc_state' = "SEND_CSW" /\ UNCHANGED pkt
       ELSE pc' = "sendData" /\ pkt' = DataPacket(cbw, msc_bytes_remaining)
            /\ UNCHANGED msc_state
    /\ UNCHANGED <<cbw, csw, msc_bytes_remaining, ep, irq, host, resets, tainted>>

(* The spin on the endpoint ends when the endpoint is free. *)
SendCsw ==
    /\ irq = "ok"
    /\ pc = "sendCsw"
    /\ ep = NoPacket
    /\ ep' = CswPacket(csw)
    /\ pc' = "idle"
    /\ UNCHANGED <<device, irq, pkt, host, resets, tainted>>

SendData ==
    /\ irq = "ok"
    /\ pc = "sendData"
    /\ ep = NoPacket
    /\ ep' = pkt
    /\ pc' = "update"
    /\ UNCHANGED <<device, irq, pkt, host, resets, tainted>>

(* The host may have taken the packet before the counter moves. *)
Update ==
    /\ irq = "ok"
    /\ pc = "update"
    /\ csw' = CswAfter(cbw, csw, msc_bytes_remaining, pkt.len)
    /\ msc_bytes_remaining' = RemainingAfter(cbw, msc_bytes_remaining, pkt.len)
    /\ pc' = "idle"
    /\ pkt' = NoPacket
    /\ UNCHANGED <<msc_state, cbw, ep, irq, host, resets, tainted>>

Interpreter == Poll \/ Prepare \/ SendCsw \/ SendData \/ Update
Bus == (\E c \in Cbws : HostSendsCbw(c)) \/ HostSendsData \/ HostTakes

Next == Interpreter \/ Bus \/ BusReset

(* The interpreter polls from MICROPY_VM_HOOK_LOOP and from every wait of  *)
(* the HAL, so a poll and its steps are not put off for ever; the host     *)
(* goes on with a command it has begun.  Nothing makes it begin one.       *)
Spec ==
    /\ Init /\ [][Next]_vars
    /\ WF_vars(Interpreter)
    /\ WF_vars(HostSendsData)
    /\ WF_vars(HostTakes)

-----------------------------------------------------------------------------
(* Properties.                                                             *)

CswType == [tag : Tags, residue : 0..(Word - 1), status : {0, 1}]
PacketType ==
    {NoPacket}
    \cup [kind : {"data"}, from : Int, len : Nat]
    \cup [kind : {"csw"}, tag : Tags, residue : 0..(Word - 1), status : {0, 1}]

(* The variables stay in their types; msc_bytes_remaining and the residue  *)
(* are uint32_t in the code, so the one never goes below 0 (no transfer    *)
(* underflows) and the other wraps.                                        *)
TypeOK ==
    /\ msc_state \in {"IDLE", "DATA_OUT", "DATA_IN", "SEND_CSW"}
    /\ cbw \in CbwType
    /\ csw \in CswType
    /\ msc_bytes_remaining \in Nat
    /\ ep \in PacketType
    /\ irq \in {"ok", "hung"}
    /\ pc \in {"idle", "prepare", "sendCsw", "sendData", "update"}
    /\ pkt \in PacketType
    /\ hphase \in {"ready", "dataIn", "dataOut", "status", "error"}
    /\ cmd \in CbwType
    /\ moved \in Nat
    /\ answer \in PacketType
    /\ resets \in 0..MaxResets
    /\ tainted \in BOOLEAN

(* Unless a bus reset caught a command halfway, the interrupt handler      *)
(* never spins on a busy endpoint (lines 186, 338, 468 and 529 would then  *)
(* stop the whole program), and the machine is never in MSC_SEND_CSW with  *)
(* no status loaded and nobody about to load it.                           *)
NoDeadEnd ==
    \/ tainted
    \/ irq = "ok" /\ ~(msc_state = "SEND_CSW" /\ ep = NoPacket /\ pc # "sendCsw")

(* The data the host gets is the transfer in order: the packet on offer    *)
(* starts where the last one ended, whichever context prepared it and      *)
(* however the host's reads fall between the interpreter's steps, and data *)
(* is on offer only while the host is in the data phase.                   *)
StreamContiguous ==
    ep.kind = "data" => tainted \/ (hphase = "dataIn" /\ ep.from = moved)

(* A conforming host never sees the protocol broken: no status with a tag  *)
(* other than its command's, no data where it waits for the status.        *)
HostNeverMisled == hphase = "error" => tainted

(* The data of a WRITE, or of a data-out command that the switch does not  *)
(* know and answers at once, never comes in MSC_IDLE, where 31 bytes of it *)
(* could be taken for a command: bus resets included.                      *)
DataIsNeverCommand == hphase = "dataOut" => msc_state # "IDLE"

(* While the interpreter is between the steps of MSC_PrepareDataIn, what   *)
(* it read (state, command, status, counter) is not changed under it by an *)
(* interrupt, bus resets included: the code takes no lock and relies on    *)
(* the interrupt leaving MSC_DATA_IN alone.                                *)
TransferIsPrivate ==
    [][(pc \in {"prepare", "sendData", "update"} /\ pc' = pc) => (UNCHANGED device)]_vars

(* WRITE 10 of zero blocks goes to MSC_DATA_OUT and waits for data that    *)
(* never comes (lines 450 to 454): the one command that is not answered.   *)
EmptyWrite == cmd.op = "WRITE_10" /\ cmd.blocks = 0

(* Every command the host begins is closed by its status, if the           *)
(* interpreter keeps polling and the host goes on with its command.        *)
EveryCommandAnswered ==
    (hphase # "ready") ~> (hphase = "ready" \/ tainted \/ EmptyWrite)

(* poll_usb_input returns, and with it Python and the console: it spins    *)
(* only on an endpoint that the host is about to free.  After a reset that *)
(* caught a command halfway it may spin as long as the host is silent.     *)
PollReturns == (pc # "idle") ~> (pc = "idle" \/ tainted)

(* The device implements the sequence of sessions of BotSession, where a   *)
(* reset that catches a command halfway loses the session until the next   *)
(* reset that finds the device at rest.                                    *)
Session == INSTANCE BotSession WITH
    phase <- IF tainted THEN "lost" ELSE IF hphase = "ready" THEN "ready" ELSE "open",
    FirstCmd <- ZeroCbw
ImplementsSession == Session!Spec

(* The comment at lines 342 and 343, "We set Residue to what we didn't     *)
(* send": in the status of a command the device knows, the residue and the *)
(* bytes that moved add up to what the host asked for.                     *)
ResidueIsUnsent ==
    answer.kind = "csw" /\ cmd.op # "OTHER" /\ ~tainted
        => answer.residue + moved = cmd.len

=============================================================================
