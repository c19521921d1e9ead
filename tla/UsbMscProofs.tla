---------------------------- MODULE UsbMscProofs ----------------------------
(***************************************************************************)
(* Proofs about UsbMsc, for every packet size, block size, word, set of    *)
(* tags and lengths the assumptions allow and any number of bus resets.    *)
(*                                                                         *)
(* The argument has three layers.  Typing is inductive together with what    *)
(* the interpreter may rely on between two of its steps: the state is      *)
(* MSC_DATA_IN and the packet it holds is the one its counter calls for.   *)
(* That layer holds at all times, resets or not.  The second layer speaks  *)
(* of a device no reset has caught at work, and says of each msc_state     *)
(* where the host, the endpoint and the interpreter can be, with the bytes *)
(* of the transfer accounted for between the three.  The third adds what   *)
(* BotSession asks for: whose turn the host thinks it is, what the status  *)
(* will say, and the residue modulo Word.                                  *)
(***************************************************************************)
EXTENDS UsbMsc, ArithmeticLemmas

-----------------------------------------------------------------------------
(* First layer.                                                            *)

MainOwnsDataIn ==
    pc \in {"prepare", "sendData", "update"} => msc_state = "DATA_IN"

PktIsCurrent ==
    pc \in {"sendData", "update"} =>
        msc_bytes_remaining > 0 /\ pkt = DataPacket(cbw, msc_bytes_remaining)

TypeInv == TypeOK /\ MainOwnsDataIn /\ PktIsCurrent

(* A packet of MSC_PrepareDataIn is never empty; one of READ 10 is within  *)
(* what is left, any other fits in one bulk packet with room to spare.     *)
LEMMA PacketFacts ==
    ASSUME NEW c \in CbwType, NEW n \in Nat, n > 0
    PROVE  /\ DataPacket(c, n) \in [kind : {"data"}, from : Int, len : Nat]
           /\ DataPacket(c, n).from = c.len - n
           /\ DataPacket(c, n).len > 0
           /\ c.op = "READ_10" => /\ DataPacket(c, n).len = Smaller(PacketSize, n)
                                  /\ DataPacket(c, n).len <= n
           /\ c.op # "READ_10" => DataPacket(c, n).len < PacketSize
<1>1. PacketSize \in Nat /\ PacketSize > 37
  BY SizesAssumption
<1>2. HeaderLen(c.op) \in Nat /\ 0 < HeaderLen(c.op) /\ HeaderLen(c.op) <= 37
  BY DEF HeaderLen
<1>3. len_to_send(c, n) \in Nat /\ len_to_send(c, n) > 0
  BY <1>1, <1>2 DEF len_to_send, Smaller
<1>4. c.op = "READ_10" => len_to_send(c, n) = Smaller(PacketSize, n) /\ len_to_send(c, n) <= n
  BY <1>1 DEF len_to_send, Smaller
<1>5. c.op # "READ_10" => len_to_send(c, n) < PacketSize
  BY <1>1, <1>2 DEF len_to_send, Smaller
<1>6. c.len - n \in Int
  BY DEF CbwType
<1> QED
  BY <1>3, <1>4, <1>5, <1>6 DEF DataPacket

(* What is computed modulo Word is a word.                                 *)
LEMMA WordFacts == ASSUME NEW x \in Int PROVE x % Word \in 0..(Word - 1)
  BY WordAssumption

(* The status stays one when its residue is set.                           *)
LEMMA CswAfterType ==
    ASSUME NEW c, NEW s \in CswType, NEW n \in Int, NEW m \in Int
    PROVE  CswAfter(c, s, n, m) \in CswType
<1>1. (n - m) % Word \in 0..(Word - 1)
  BY WordFacts
<1> QED
  BY <1>1 DEF CswAfter, CswType

(* A status packet is a packet and carries the status's tag.               *)
LEMMA CswPacketType ==
    ASSUME NEW s \in CswType
    PROVE  CswPacket(s) \in PacketType /\ CswPacket(s).kind = "csw" /\ CswPacket(s).tag = s.tag
  BY DEF CswPacket, CswType, PacketType

(* The host's lengths: of a READ or a WRITE, that of its blocks. *)
LEMMA BlockCbwsType ==
    ASSUME NEW c \in ReadCbws \cup WriteCbws
    PROVE  /\ c \in CbwType /\ c.len = c.blocks * BlockSize
           /\ \/ c.op = "READ_10" /\ c.in = TRUE
              \/ c.op = "WRITE_10" /\ c.in = FALSE
<1>1. \A b \in BlockCounts : b \in Nat /\ b * BlockSize \in Nat
  BY HostAssumption, SizesAssumption
<1>2. CASE c \in ReadCbws
  <2>1. PICK b \in BlockCounts, t \in Tags :
           c = [op |-> "READ_10", len |-> b * BlockSize, blocks |-> b, in |-> TRUE, tag |-> t]
    BY <1>2 DEF ReadCbws
  <2> QED
    BY <1>1, <2>1 DEF CbwType, Ops
<1>3. CASE c \in WriteCbws
  <2>1. PICK b \in BlockCounts, t \in Tags :
           c = [op |-> "WRITE_10", len |-> b * BlockSize, blocks |-> b, in |-> FALSE, tag |-> t]
    BY <1>3 DEF WriteCbws
  <2> QED
    BY <1>1, <2>1 DEF CbwType, Ops
<1> QED
  BY <1>2, <1>3

(* The host's commands are command blocks, with the direction and the      *)
(* length of their kind.                                                   *)
LEMMA CbwsType ==
    ASSUME NEW c \in Cbws
    PROVE  /\ c \in CbwType
           /\ c.op \in {"READ_10", "WRITE_10"} => c.len = c.blocks * BlockSize
           /\ c.op \in OneShot \cup {"READ_10"} => c.in = TRUE
           /\ c.op = "WRITE_10" => c.in = FALSE
<1>1. CASE c \in HeaderCbws \cup OtherCbws
  BY <1>1, HostAssumption DEF HeaderCbws, OtherCbws, CbwType, Ops, OneShot
<1>2. CASE c \in ReadCbws \cup WriteCbws
  BY <1>2, BlockCbwsType DEF OneShot
<1> QED
  BY <1>1, <1>2 DEF Cbws

(* A free endpoint holds no packet of either kind.                         *)
LEMMA NoPacketType == NoPacket \in PacketType /\ NoPacket.kind = "none"
  BY DEF NoPacket, PacketType

(* The first layer holds at the start and through every step.              *)
THEOREM TypeInit == Init => TypeInv
<1> SUFFICES ASSUME Init PROVE TypeInv
  OBVIOUS
<1>1. ZeroCbw \in CbwType
  BY HostAssumption DEF ZeroCbw, CbwType, Ops
<1>2. [tag |-> 0, residue |-> 0, status |-> 0] \in CswType
  BY HostAssumption, WordAssumption DEF CswType
<1>3. MaxResets \in Nat
  BY SizesAssumption
<1>4. TypeOK
  <2>1. cbw \in CbwType /\ cmd \in CbwType
    BY <1>1 DEF Init
  <2>2. csw \in CswType
    BY <1>2, Zenon DEF Init
  <2>3. ep \in PacketType /\ pkt \in PacketType /\ answer \in PacketType
    BY NoPacketType DEF Init
  <2>4. msc_bytes_remaining \in Nat /\ moved \in Nat /\ resets \in 0..MaxResets
    BY <1>3 DEF Init
  <2> QED
    BY <2>1, <2>2, <2>3, <2>4 DEF Init, TypeOK
<1>5. MainOwnsDataIn /\ PktIsCurrent
  BY DEF Init, MainOwnsDataIn, PktIsCurrent
<1> QED
  BY <1>4, <1>5 DEF TypeInv

(* The interrupt's part, common to the packets of the host: what it leaves *)
(* of the device has its type.                                             *)
DeviceOK ==
    /\ msc_state \in {"IDLE", "DATA_OUT", "DATA_IN", "SEND_CSW"}
    /\ cbw \in CbwType
    /\ csw \in CswType
    /\ msc_bytes_remaining \in Nat
    /\ ep \in PacketType
    /\ irq \in {"ok", "hung"}

(* A spin of the interrupt loads its packet or hangs.                      *)
LEMMA SendType ==
    ASSUME NEW p \in PacketType, ep \in PacketType, irq \in {"ok", "hung"}, IrqSend(p)
    PROVE  ep' \in PacketType /\ irq' \in {"ok", "hung"}
  BY DEF IrqSend

(* MSC_PrepareDataIn in the interrupt leaves the device its types.         *)
LEMMA PrepareType ==
    ASSUME NEW c \in CbwType, NEW s \in CswType, NEW n \in Nat,
           DeviceOK, cbw' = c, IrqPrepare(c, s, n)
    PROVE  DeviceOK'
<1>1. CASE n = 0
  <2>1. ep' \in PacketType /\ irq' \in {"ok", "hung"}
    BY <1>1, CswPacketType, SendType DEF IrqPrepare, DeviceOK
  <2> QED
    BY <1>1, <2>1 DEF IrqPrepare, DeviceOK
<1>2. CASE n # 0
  <2> DEFINE p == DataPacket(c, n)
  <2>0. n > 0
    BY <1>2
  <2>1. p \in PacketType /\ p.len \in Nat /\ (c.op = "READ_10" => p.len <= n)
    BY <2>0, PacketFacts DEF PacketType
  <2>2. ep' \in PacketType /\ irq' \in {"ok", "hung"}
    BY <1>2, <2>1, SendType DEF IrqPrepare, DeviceOK
  <2>3. csw' \in CswType
    BY <1>2, <2>1, CswAfterType DEF IrqPrepare
  <2>4. msc_bytes_remaining' \in Nat
    BY <1>2, <2>1 DEF IrqPrepare, RemainingAfter
  <2> QED
    BY <1>2, <2>2, <2>3, <2>4 DEF IrqPrepare, DeviceOK
<1> QED
  BY <1>1, <1>2

(* The status prepared with a command has the command's tag.               *)
LEMMA FreshCswType ==
    ASSUME NEW c \in CbwType PROVE FreshCsw(c) \in CswType /\ FreshCsw(c).tag = c.tag
  BY WordAssumption DEF FreshCsw, CswType, CbwType

(* A command taken in MSC_IDLE leaves the device its types.                *)
LEMMA AcceptType ==
    ASSUME NEW c \in Cbws, DeviceOK, AcceptCbw(c) PROVE DeviceOK'
<1>1. c \in CbwType /\ c.len \in Nat /\ FreshCsw(c) \in CswType
  BY CbwsType, FreshCswType DEF CbwType
<1>2. cbw' = c
  BY DEF AcceptCbw
<1>3. CASE c.op \in OneShot /\ IrqPrepare(c, FreshCsw(c), c.len)
  BY <1>1, <1>2, <1>3, PrepareType
<1>4. CASE c.op = "READ_10" /\ IrqPrepare(c, FreshCsw(c), c.blocks * BlockSize)
  <2>1. c.blocks * BlockSize \in Nat
    BY <1>1, <1>4, CbwsType
  <2> QED
    BY <1>1, <1>2, <1>4, <2>1, PrepareType
<1>5. CASE /\ c.op = "WRITE_10"
           /\ msc_state' = "DATA_OUT"
           /\ csw' = FreshCsw(c)
           /\ msc_bytes_remaining' = c.blocks * BlockSize
           /\ UNCHANGED <<ep, irq>>
  <2>1. c.blocks * BlockSize \in Nat
    BY <1>1, <1>5, CbwsType
  <2> QED
    BY <1>1, <1>2, <1>5, <2>1 DEF DeviceOK
<1>6. CASE /\ c.op = "OTHER"
           /\ msc_state' = "SEND_CSW"
           /\ csw' = FreshCsw(c)
           /\ UNCHANGED msc_bytes_remaining
           /\ IrqSend(CswPacket(FreshCsw(c)))
  <2>1. ep' \in PacketType /\ irq' \in {"ok", "hung"}
    BY <1>1, <1>6, CswPacketType, SendType DEF DeviceOK
  <2> QED
    BY <1>1, <1>2, <1>6, <2>1 DEF DeviceOK
<1> QED
  BY <1>3, <1>4, <1>5, <1>6 DEF AcceptCbw

(* So does a packet taken in MSC_DATA_OUT: the counter stops at 0.         *)
LEMMA TakeType ==
    ASSUME NEW n \in Int, DeviceOK, msc_state = "DATA_OUT", TakeData(n) PROVE DeviceOK'
<1>1. msc_bytes_remaining' \in Nat /\ cbw' = cbw /\ csw' = csw
  BY DEF TakeData, Smaller, DeviceOK
<1>2. CASE msc_state' = "SEND_CSW" /\ IrqSend(CswPacket(csw))
  <2>1. ep' \in PacketType /\ irq' \in {"ok", "hung"}
    BY <1>2, CswPacketType, SendType DEF DeviceOK
  <2> QED
    BY <1>1, <1>2, <2>1 DEF DeviceOK
<1>3. CASE UNCHANGED <<msc_state, ep, irq>>
  BY <1>1, <1>3 DEF DeviceOK
<1> QED
  BY <1>2, <1>3 DEF TakeData

(* Every action keeps the types, and none but the interpreter's own steps  *)
(* changes what MSC_PrepareDataIn has read.                                *)
THEOREM TypeStep == TypeInv /\ [Next]_vars => TypeInv'
<1> SUFFICES ASSUME TypeInv, [Next]_vars PROVE TypeInv'
  OBVIOUS
<1> USE DEF TypeInv
<1>0. /\ DeviceOK /\ PacketSize \in Nat /\ PacketSize > 37
  BY SizesAssumption DEF TypeOK, DeviceOK
<1>1. ASSUME NEW c \in Cbws, HostSendsCbw(c) PROVE TypeInv'
  <2>1. c \in CbwType /\ c.len \in Nat
    BY CbwsType DEF CbwType
  <2>2. DeviceOK'
    <3>1. CASE msc_state = "IDLE" /\ AcceptCbw(c)
      BY <1>0, <3>1, AcceptType
    <3>2. CASE msc_state = "DATA_OUT" /\ TakeData(31)
      BY <1>0, <3>2, TakeType
    <3>3. CASE IgnoreOut
      BY <1>0, <3>3 DEF IgnoreOut, DeviceOK, device
    <3> QED
      BY <1>1, <3>1, <3>2, <3>3 DEF HostSendsCbw
  <2>3. TypeOK'
    BY <1>1, <2>1, <2>2, NoPacketType DEF HostSendsCbw, TypeOK, DeviceOK, main
  <2>4. pc \in {"prepare", "sendData", "update"} => UNCHANGED <<device, pc, pkt>>
    BY <1>1 DEF HostSendsCbw, MainOwnsDataIn, IgnoreOut, main
  <2>5. MainOwnsDataIn' /\ PktIsCurrent'
    BY <1>1, <2>4 DEF HostSendsCbw, MainOwnsDataIn, PktIsCurrent, main, device
  <2> QED
    BY <2>3, <2>5
<1>2. CASE HostSendsData
  <2> DEFINE n == Smaller(PacketSize, cmd.len - moved)
  <2>1. n \in Int /\ moved + n \in Nat
    BY <1>0 DEF Smaller, TypeOK, CbwType
  <2>2. DeviceOK'
    <3>1. CASE msc_state = "DATA_OUT" /\ TakeData(n)
      BY <1>0, <2>1, <3>1, TakeType
    <3>2. CASE IgnoreOut
      BY <1>0, <3>2 DEF IgnoreOut, DeviceOK, device
    <3> QED
      BY <1>2, <3>1, <3>2 DEF HostSendsData
  <2>3. TypeOK'
    BY <1>2, <2>1, <2>2 DEF HostSendsData, TypeOK, DeviceOK, main
  <2>4. pc \in {"prepare", "sendData", "update"} => UNCHANGED <<device, pc, pkt>>
    BY <1>2 DEF HostSendsData, MainOwnsDataIn, IgnoreOut, main
  <2>5. MainOwnsDataIn' /\ PktIsCurrent'
    BY <1>2, <2>4 DEF HostSendsData, MainOwnsDataIn, PktIsCurrent, main, device
  <2> QED
    BY <2>3, <2>5
<1>3. CASE HostTakes
  <2>1. TypeOK'
    <3>1. moved' \in Nat
      BY <1>3 DEF HostTakes, TypeOK, PacketType, NoPacket
    <3> QED
      BY <1>3, <3>1, NoPacketType DEF HostTakes, TypeOK, HandleInRequest, main
  <2>2. MainOwnsDataIn' /\ PktIsCurrent'
    BY <1>3 DEF HostTakes, MainOwnsDataIn, PktIsCurrent, HandleInRequest, main
  <2> QED
    BY <2>1, <2>2
<1>4. CASE BusReset
  <2>1. TypeOK'
    BY <1>4, NoPacketType, SizesAssumption DEF BusReset, TypeOK, device, main
  <2>2. MainOwnsDataIn' /\ PktIsCurrent'
    BY <1>4 DEF BusReset, MainOwnsDataIn, PktIsCurrent, device, main
  <2> QED
    BY <2>1, <2>2
<1>5. CASE Poll
  BY <1>5 DEF Poll, TypeOK, MainOwnsDataIn, PktIsCurrent, device, host
<1>6. CASE Prepare
  <2>1. TypeOK'
    <3>1. pkt' \in PacketType
      <4>1. CASE pkt' = pkt
        BY <4>1 DEF TypeOK
      <4>2. CASE msc_bytes_remaining # 0 /\ pkt' = DataPacket(cbw, msc_bytes_remaining)
        BY <4>2, PacketFacts DEF TypeOK, PacketType
      <4> QED
        BY <1>6, <4>1, <4>2 DEF Prepare
    <3> QED
      BY <1>6, <3>1 DEF Prepare, TypeOK, host
  <2>2. MainOwnsDataIn' /\ PktIsCurrent'
    BY <1>6 DEF Prepare, TypeOK, MainOwnsDataIn, PktIsCurrent
  <2> QED
    BY <2>1, <2>2
<1>7. CASE SendCsw
  <2>1. TypeOK'
    BY <1>7, CswPacketType DEF SendCsw, TypeOK, device, host
  <2>2. MainOwnsDataIn' /\ PktIsCurrent'
    BY <1>7 DEF SendCsw, MainOwnsDataIn, PktIsCurrent
  <2> QED
    BY <2>1, <2>2
<1>8. CASE SendData
  <2>1. TypeOK'
    BY <1>8 DEF SendData, TypeOK, device, host
  <2>2. MainOwnsDataIn' /\ PktIsCurrent'
    BY <1>8 DEF SendData, MainOwnsDataIn, PktIsCurrent, device
  <2> QED
    BY <2>1, <2>2
<1>9. CASE Update
  <2>1. /\ pkt.len \in Nat
        /\ cbw.op = "READ_10" => pkt.len <= msc_bytes_remaining
    BY <1>9, PacketFacts DEF Update, TypeOK, PktIsCurrent
  <2>2. csw' \in CswType
    BY <1>9, <2>1, CswAfterType DEF Update, TypeOK
  <2>3. msc_bytes_remaining' \in Nat
    BY <1>9, <2>1 DEF Update, TypeOK, RemainingAfter
  <2>4. TypeOK'
    BY <1>9, <2>2, <2>3, NoPacketType DEF Update, TypeOK, host
  <2>5. MainOwnsDataIn' /\ PktIsCurrent'
    BY <1>9 DEF Update, MainOwnsDataIn, PktIsCurrent
  <2> QED
    BY <2>4, <2>5
<1>10. CASE UNCHANGED vars
  BY <1>10 DEF vars, device, main, host, TypeOK, MainOwnsDataIn, PktIsCurrent
<1> QED
  BY <1>1, <1>2, <1>3, <1>4, <1>5, <1>6, <1>7, <1>8, <1>9, <1>10 DEF Next, Interpreter, Bus

(* msc_bytes_remaining never goes below 0 and every variable keeps its     *)
(* type, whatever the host, the resets and the interleaving.               *)
THEOREM TypeCorrect == Spec => []TypeOK
<1>1. TypeInv => TypeOK
  BY DEF TypeInv
<1> QED
  BY <1>1, TypeInit, TypeStep, PTL DEF Spec

(* No interrupt, a bus reset included, touches what MSC_PrepareDataIn read *)
(* while the interpreter is inside it.                                     *)
THEOREM PrivateTransfer == Spec => TransferIsPrivate
<1> DEFINE A == (pc \in {"prepare", "sendData", "update"} /\ pc' = pc) => (UNCHANGED device)
<1>1. TypeInv /\ [Next]_vars => [A]_vars
  <2> SUFFICES ASSUME TypeInv, Next,
                      pc \in {"prepare", "sendData", "update"}, pc' = pc
               PROVE  UNCHANGED device
    BY DEF vars
  <2>1. msc_state = "DATA_IN"
    BY DEF TypeInv, MainOwnsDataIn
  <2>2. ASSUME NEW c \in Cbws, HostSendsCbw(c) PROVE UNCHANGED device
    BY <2>1, <2>2 DEF HostSendsCbw, IgnoreOut
  <2>3. CASE HostSendsData
    BY <2>1, <2>3 DEF HostSendsData, IgnoreOut
  <2>4. CASE HostTakes
    BY <2>1, <2>4 DEF HostTakes, HandleInRequest, device
  <2>5. CASE BusReset
    BY <2>5 DEF BusReset
  <2>6. CASE Interpreter
    BY <2>6 DEF Interpreter, Poll, Prepare, SendCsw, SendData, Update
  <2> QED
    BY <2>2, <2>3, <2>4, <2>5, <2>6 DEF Next, Bus
<1> QED
  BY <1>1, TypeInit, TypeStep, PTL DEF Spec, TransferIsPrivate

(* No data of the host finds the machine in MSC_IDLE: a command that it    *)
(* takes in IDLE leaves IDLE at once, in any other state it stays out, and *)
(* what brings IDLE back is a packet that the host took.                   *)
THEOREM NoDataInIdle == Spec => []DataIsNeverCommand
<1>1. Init => DataIsNeverCommand
  BY DEF Init, DataIsNeverCommand
<1>2. DataIsNeverCommand /\ [Next]_vars => DataIsNeverCommand'
  <2> SUFFICES ASSUME DataIsNeverCommand, [Next]_vars PROVE DataIsNeverCommand'
    OBVIOUS
  <2>1. ASSUME NEW c \in Cbws, HostSendsCbw(c) PROVE msc_state' # "IDLE"
    <3>1. CASE msc_state = "IDLE" /\ AcceptCbw(c)
      BY <3>1 DEF AcceptCbw, IrqPrepare
    <3>2. CASE msc_state = "DATA_OUT" /\ TakeData(31)
      BY <3>2 DEF TakeData
    <3>3. CASE msc_state \in {"DATA_IN", "SEND_CSW"} /\ IgnoreOut
      BY <3>3 DEF IgnoreOut, device
    <3> QED
      BY <2>1, <3>1, <3>2, <3>3 DEF HostSendsCbw
  <2>2. CASE HostSendsData
    BY <2>2 DEF HostSendsData, TakeData, IgnoreOut, device, DataIsNeverCommand
  <2>3. CASE HostTakes
    BY <2>3 DEF HostTakes, DataIsNeverCommand
  <2>4. CASE BusReset
    BY <2>4 DEF BusReset, DataIsNeverCommand
  <2>5. CASE Interpreter
    BY <2>5 DEF Interpreter, Poll, Prepare, SendCsw, SendData, Update, device, host,
                DataIsNeverCommand
  <2>6. CASE UNCHANGED vars
    BY <2>6 DEF vars, device, host, DataIsNeverCommand
  <2> QED
    BY <2>1, <2>2, <2>3, <2>4, <2>5, <2>6 DEF Next, Bus, DataIsNeverCommand
<1> QED
  BY <1>1, <1>2, PTL DEF Spec

-----------------------------------------------------------------------------
(* Second layer.                                                           *)

(* bytes on offer to the host *)
OnOffer == IF ep.kind = "data" THEN ep.len ELSE 0

(* bytes on offer, or taken, that the counter does not know of yet *)
Uncounted == IF pc = "update" THEN pkt.len ELSE 0

AtRest == hphase = "ready" => msc_state = "IDLE" /\ ep = NoPacket /\ pc = "idle"

CommandIsCurrent ==
    hphase # "ready" => cmd \in Cbws /\ cbw = cmd /\ csw.tag = cmd.tag

OfferIsCurrent ==
    /\ ep.kind = "data" => hphase = "dataIn" /\ ep.from = moved
    /\ ep.kind = "csw" => hphase # "ready" /\ ep = CswPacket(csw)

(* IDLE before the host has its status: it is loaded, or about to be. *)
InIdle ==
    msc_state = "IDLE" /\ hphase # "ready" =>
        /\ hphase = "status"
        /\ \/ pc = "sendCsw" /\ ep = NoPacket
           \/ pc = "idle" /\ ep.kind = "csw"

InDataOut ==
    msc_state = "DATA_OUT" =>
        /\ hphase = IF msc_bytes_remaining = 0 THEN "status" ELSE "dataOut"
        /\ pc = "idle" /\ ep = NoPacket
        /\ msc_bytes_remaining = cmd.len - moved

(* The last packet of a data phase: the host knows by its size. *)
LastOnOffer ==
    ep.kind = "data" /\ (moved + ep.len >= cmd.len \/ ep.len < PacketSize)

InSendCsw ==
    msc_state = "SEND_CSW" =>
        /\ hphase # "ready"
        /\ \/ pc = "idle" /\ ep.kind = "csw"
           \/ pc = "sendCsw" /\ ((ep = NoPacket /\ hphase = "status") \/ LastOnOffer)

InRead ==
    /\ cmd.op = "READ_10"
    /\ moved + OnOffer = cmd.len - msc_bytes_remaining + Uncounted
    /\ hphase = IF moved < cmd.len THEN "dataIn" ELSE "status"
    /\ ep.kind = "data" => ep.len = Smaller(PacketSize, cmd.len - moved)

InHeader ==
    /\ cmd.op \in OneShot
    /\ msc_bytes_remaining = 0
    /\ pc \in {"idle", "prepare"}
    /\ \/ ep.kind = "data" /\ ep.len < PacketSize
       \/ ep = NoPacket /\ hphase = "status"

InDataIn ==
    msc_state = "DATA_IN" =>
        /\ hphase \in {"dataIn", "status"}
        /\ ep.kind # "csw" /\ pc # "sendCsw"
        /\ InRead \/ InHeader

Clean ==
    /\ irq = "ok" /\ hphase # "error"
    /\ AtRest /\ CommandIsCurrent /\ OfferIsCurrent
    /\ InIdle /\ InDataOut /\ InSendCsw /\ InDataIn

IInv == TypeInv /\ (tainted \/ Clean)

(* A device that has just started is clean.                                *)
LEMMA CleanInit == Init => Clean
<1> SUFFICES ASSUME Init PROVE Clean
  OBVIOUS
<1>1. NoPacket.kind = "none"
  BY NoPacketType
<1> QED
  BY <1>1 DEF Init, Clean, AtRest, CommandIsCurrent, OfferIsCurrent,
              InIdle, InDataOut, InSendCsw, InDataIn

(* With the endpoint free a status goes straight into it. *)
LEMMA StatusLoads ==
    ASSUME NEW s \in CswType, ep = NoPacket, IrqSend(CswPacket(s)), irq = "ok"
    PROVE  ep' = CswPacket(s) /\ ep'.kind = "csw" /\ irq' = "ok" /\ ep' # NoPacket
  BY CswPacketType, NoPacketType DEF IrqSend

(* A command of the host reaches a device at rest. *)
LEMMA CleanCbw ==
    ASSUME IInv, ~tainted, NEW c \in Cbws, HostSendsCbw(c) PROVE Clean'
<1>1. /\ msc_state = "IDLE" /\ ep = NoPacket /\ pc = "idle" /\ irq = "ok"
      /\ AcceptCbw(c)
  BY DEF IInv, Clean, AtRest, HostSendsCbw
<1>2. /\ c \in CbwType /\ c.len \in Nat
      /\ c.op \in {"READ_10", "WRITE_10"} => c.len = c.blocks * BlockSize
      /\ c.op \in OneShot \cup {"READ_10"} => c.in = TRUE
      /\ c.op = "WRITE_10" => c.in = FALSE
      /\ FreshCsw(c) \in CswType /\ FreshCsw(c).tag = c.tag
  BY CbwsType, FreshCswType DEF CbwType
<1>3. /\ cmd' = c /\ cbw' = c /\ moved' = 0 /\ pc' = "idle"
      /\ hphase' = IF c.len = 0 THEN "status" ELSE IF c.in THEN "dataIn" ELSE "dataOut"
  BY <1>1 DEF HostSendsCbw, AcceptCbw, main
<1>5. PacketSize \in Nat /\ PacketSize > 37
  BY SizesAssumption
<1>6. ASSUME /\ msc_state' = "SEND_CSW" /\ csw' = FreshCsw(c)
             /\ IrqSend(CswPacket(FreshCsw(c)))
      PROVE  Clean'
  <2>1. ep' = CswPacket(csw') /\ ep'.kind = "csw" /\ irq' = "ok" /\ ep' # NoPacket
    BY <1>1, <1>2, <1>6, StatusLoads
  <2> QED
    BY <1>2, <1>3, <1>6, <2>1 DEF Clean, AtRest, CommandIsCurrent, OfferIsCurrent,
                                  InIdle, InDataOut, InSendCsw, InDataIn
<1>7. ASSUME c.op \in OneShot \cup {"READ_10"}, IrqPrepare(c, FreshCsw(c), c.len)
      PROVE  Clean'
  <2>1. CASE c.len = 0
    BY <1>6, <1>7, <2>1 DEF IrqPrepare
  <2>2. CASE c.len # 0
    <3> DEFINE p == DataPacket(c, c.len)
    <3>1. /\ p.from = 0 /\ p.len \in Nat /\ p.len > 0 /\ p.kind = "data"
          /\ c.op = "READ_10" => p.len = Smaller(PacketSize, c.len) /\ p.len <= c.len
          /\ c.op # "READ_10" => p.len < PacketSize
      BY <1>2, <2>2, PacketFacts
    <3>2. /\ msc_state' = "DATA_IN" /\ ep' = p /\ irq' = "ok"
          /\ csw' = CswAfter(c, FreshCsw(c), c.len, p.len)
          /\ msc_bytes_remaining' = RemainingAfter(c, c.len, p.len)
      BY <1>1, <1>7, <2>2 DEF IrqPrepare, IrqSend
    <3>3. csw'.tag = c.tag
      BY <1>2, <3>2 DEF CswAfter, CswType
    <3>4. hphase' = "dataIn"
      BY <1>2, <1>3, <1>7, <2>2
    <3>5. CASE c.op = "READ_10"
      <4>1. OnOffer' = p.len /\ Uncounted' = 0
        BY <1>3, <3>1, <3>2 DEF OnOffer, Uncounted
      <4>2. InRead'
        BY <1>2, <1>3, <3>1, <3>2, <3>4, <3>5, <4>1 DEF InRead, RemainingAfter, Smaller
      <4> QED
        BY <1>3, <3>1, <3>2, <3>3, <3>4, <4>2
        DEF Clean, AtRest, CommandIsCurrent, OfferIsCurrent, InIdle, InDataOut,
            InSendCsw, InDataIn
    <3>6. CASE c.op \in OneShot
      <4>1. InHeader'
        BY <1>3, <3>1, <3>2, <3>6 DEF InHeader, RemainingAfter, OneShot
      <4> QED
        BY <1>3, <3>1, <3>2, <3>3, <3>4, <4>1
        DEF Clean, AtRest, CommandIsCurrent, OfferIsCurrent, InIdle, InDataOut,
            InSendCsw, InDataIn
    <3> QED
      BY <1>7, <3>5, <3>6
  <2> QED
    BY <2>1, <2>2
<1>8. ASSUME /\ c.op = "WRITE_10"
             /\ msc_state' = "DATA_OUT"
             /\ csw' = FreshCsw(c)
             /\ msc_bytes_remaining' = c.blocks * BlockSize
             /\ UNCHANGED <<ep, irq>>
      PROVE  Clean'
  BY <1>1, <1>2, <1>3, <1>8, NoPacketType
  DEF Clean, AtRest, CommandIsCurrent, OfferIsCurrent, InIdle, InDataOut,
      InSendCsw, InDataIn
<1> QED
  BY <1>1, <1>2, <1>6, <1>7, <1>8 DEF AcceptCbw

(* A data packet of the host keeps the bytes accounted for, and the last   *)
(* one loads the status.                                                   *)
LEMMA CleanData ==
    ASSUME IInv, ~tainted, HostSendsData PROVE Clean'
<1> DEFINE n == Smaller(PacketSize, cmd.len - moved)
<1>0. /\ cmd \in CbwType /\ cmd.len \in Nat /\ moved \in Nat /\ csw \in CswType
      /\ PacketSize \in Nat /\ PacketSize > 37
  BY SizesAssumption DEF IInv, TypeInv, TypeOK, CbwType
<1>1. /\ hphase = "dataOut" /\ moved' = moved + n
      /\ hphase' = IF moved' = cmd.len THEN "status" ELSE "dataOut"
      /\ UNCHANGED <<pc, pkt, cmd>>
  BY DEF HostSendsData, main
<1>2. CASE msc_state = "DATA_OUT" /\ TakeData(n)
  <2>1. /\ msc_bytes_remaining = cmd.len - moved /\ msc_bytes_remaining # 0
        /\ pc = "idle" /\ ep = NoPacket /\ irq = "ok"
    BY <1>1, <1>2 DEF IInv, Clean, InDataOut
  <2>2. /\ n \in Nat /\ n > 0 /\ n <= msc_bytes_remaining
    BY <1>0, <2>1 DEF Smaller, IInv, TypeInv, TypeOK
  <2>3. /\ msc_bytes_remaining' = cmd.len - moved'
        /\ UNCHANGED <<cbw, csw>>
        /\ \/ /\ msc_bytes_remaining' = 0
              /\ msc_state' = "SEND_CSW"
              /\ IrqSend(CswPacket(csw))
           \/ /\ msc_bytes_remaining' > 0
              /\ UNCHANGED <<msc_state, ep, irq>>
    BY <1>0, <1>1, <1>2, <2>1, <2>2 DEF TakeData, Smaller
  <2>4. cmd \in Cbws /\ cbw = cmd /\ csw.tag = cmd.tag
    BY <1>1 DEF IInv, Clean, CommandIsCurrent
  <2>5. CASE msc_bytes_remaining' > 0
    BY <1>0, <1>1, <1>2, <2>1, <2>2, <2>3, <2>4, <2>5, NoPacketType
    DEF Clean, AtRest, CommandIsCurrent, OfferIsCurrent, InIdle, InDataOut,
        InSendCsw, InDataIn
  <2>6. CASE msc_bytes_remaining' = 0
    <3>1. /\ msc_state' = "SEND_CSW" /\ ep' = CswPacket(csw') /\ ep'.kind = "csw"
          /\ irq' = "ok" /\ ep' # NoPacket
      BY <1>0, <2>1, <2>3, <2>6, StatusLoads
    <3> QED
      BY <1>0, <1>1, <2>1, <2>3, <2>4, <3>1
      DEF Clean, AtRest, CommandIsCurrent, OfferIsCurrent, InIdle, InDataOut,
          InSendCsw, InDataIn
  <2> QED
    BY <2>3, <2>5, <2>6
<1>3. CASE msc_state # "DATA_OUT" /\ IgnoreOut
  <2>1. /\ msc_state = "SEND_CSW" /\ pc = "idle" /\ ep.kind = "csw"
        /\ UNCHANGED <<device, ep, irq>>
    BY <1>1, <1>3 DEF IInv, TypeInv, TypeOK, Clean, InIdle, InSendCsw, InDataIn,
                      OfferIsCurrent, LastOnOffer, IgnoreOut
  <2> QED
    BY <1>1, <2>1
    DEF IInv, Clean, AtRest, CommandIsCurrent, OfferIsCurrent, InIdle, InDataOut,
        InSendCsw, InDataIn, device, CswPacket
<1> QED
  BY <1>2, <1>3 DEF HostSendsData

(* Whatever packet the host takes, it is the one it waits for.             *)
LEMMA CleanTakes ==
    ASSUME IInv, ~tainted, HostTakes PROVE Clean'
<1>0. /\ cmd.len \in Nat /\ moved \in Nat /\ ep \in PacketType
      /\ msc_bytes_remaining \in Nat
      /\ PacketSize \in Nat /\ PacketSize > 37
  BY SizesAssumption DEF IInv, TypeInv, TypeOK, CbwType
<1>1. /\ ep' = NoPacket /\ ep'.kind = "none"
      /\ UNCHANGED <<cbw, csw, msc_bytes_remaining, irq, pc, pkt, cmd>>
      /\ hphase \in {"dataIn", "status"} /\ ep # NoPacket
      /\ cmd \in Cbws /\ cbw = cmd /\ csw.tag = cmd.tag /\ irq = "ok"
  BY NoPacketType DEF HostTakes, main, IInv, Clean, CommandIsCurrent
<1>2. CASE ep.kind = "csw"
  <2>1. ep.tag = cmd.tag
    BY <1>1, <1>2, CswPacketType DEF IInv, TypeInv, TypeOK, Clean, OfferIsCurrent
  <2>2. hphase' = "ready"
    BY <1>2, <2>1 DEF HostTakes
  <2>3. pc = "idle" /\ msc_state' = "IDLE"
    BY <1>1, <1>2, <2>1
    DEF HostTakes, HandleInRequest, IInv, TypeInv, TypeOK, Clean, InIdle, InDataOut,
        InSendCsw, InDataIn, LastOnOffer
  <2> QED
    BY <1>1, <2>2, <2>3
    DEF Clean, AtRest, CommandIsCurrent, OfferIsCurrent, InIdle, InDataOut,
        InSendCsw, InDataIn
<1>3. CASE ep.kind = "data"
  <2>1. /\ hphase = "dataIn" /\ ep.from = moved /\ ep.len \in Nat
        /\ moved' = moved + ep.len
        /\ hphase' = IF moved' >= cmd.len \/ ep.len < PacketSize THEN "status" ELSE "dataIn"
    BY <1>0, <1>3 DEF HostTakes, IInv, Clean, OfferIsCurrent, PacketType, NoPacket
  <2>2. CASE msc_state = "SEND_CSW"
    <3>1. pc = "sendCsw" /\ LastOnOffer /\ msc_state' = "IDLE"
      BY <1>1, <1>3, <2>2 DEF IInv, Clean, InSendCsw, HostTakes, HandleInRequest
    <3>2. hphase' = "status"
      BY <2>1, <3>1 DEF LastOnOffer
    <3> QED
      BY <1>1, <3>1, <3>2
      DEF Clean, AtRest, CommandIsCurrent, OfferIsCurrent, InIdle, InDataOut,
          InSendCsw, InDataIn
  <2>3. CASE msc_state = "DATA_IN"
    <3>1. msc_state' = "DATA_IN" /\ pc # "sendCsw" /\ (InRead \/ InHeader)
      BY <2>3 DEF IInv, Clean, InDataIn, HostTakes, HandleInRequest
    <3>2. CASE InRead
      <4>1. OnOffer = ep.len /\ OnOffer' = 0 /\ Uncounted' = Uncounted
        BY <1>1, <1>3 DEF OnOffer, Uncounted
      <4>2. ep.len = Smaller(PacketSize, cmd.len - moved) /\ moved < cmd.len
        BY <1>3, <2>1, <3>2 DEF InRead
      <4>3. hphase' = IF moved' < cmd.len THEN "dataIn" ELSE "status"
        BY <1>0, <2>1, <4>2 DEF Smaller
      <4>4. InRead'
        BY <1>0, <1>1, <2>1, <3>2, <4>1, <4>3 DEF InRead
      <4> QED
        BY <1>1, <2>3, <3>1, <4>3, <4>4
        DEF Clean, AtRest, CommandIsCurrent, OfferIsCurrent, InIdle, InDataOut,
            InSendCsw, InDataIn
    <3>3. CASE InHeader
      <4>1. hphase' = "status"
        BY <1>1, <2>1, <3>3 DEF InHeader
      <4>2. InHeader'
        BY <1>1, <3>3, <4>1 DEF InHeader
      <4> QED
        BY <1>1, <2>3, <3>1, <4>1, <4>2
        DEF Clean, AtRest, CommandIsCurrent, OfferIsCurrent, InIdle, InDataOut,
            InSendCsw, InDataIn
    <3> QED
      BY <3>1, <3>2, <3>3
  <2> QED
    BY <1>1, <1>3, <2>1, <2>2, <2>3
    DEF IInv, TypeInv, TypeOK, Clean, InIdle, InDataOut
<1> QED
  BY <1>0, <1>1, <1>2, <1>3 DEF PacketType

(* A reset that finds the device at rest leaves it at rest, whatever came  *)
(* before: this is the way out of a tainted history.                       *)
LEMMA CleanReset ==
    ASSUME IInv, BusReset PROVE tainted' \/ Clean'
<1> SUFFICES ASSUME ~tainted' PROVE Clean'
  OBVIOUS
<1>1. /\ msc_state' = "IDLE" /\ pc' = "idle" /\ hphase' = "ready"
      /\ ep' = NoPacket /\ ep'.kind = "none" /\ irq' = "ok"
  BY NoPacketType DEF BusReset, device, main
<1> QED
  BY <1>1 DEF Clean, AtRest, CommandIsCurrent, OfferIsCurrent, InIdle, InDataOut,
              InSendCsw, InDataIn

(* The interpreter's steps, late counters included, keep the bytes         *)
(* accounted for.                                                          *)
LEMMA CleanInterpreter ==
    ASSUME IInv, ~tainted, Interpreter PROVE Clean'
<1>0. /\ cmd.len \in Nat /\ moved \in Nat /\ msc_bytes_remaining \in Nat
      /\ cbw \in CbwType /\ csw \in CswType /\ cbw.len \in Nat
      /\ PacketSize \in Nat /\ PacketSize > 37
  BY SizesAssumption DEF IInv, TypeInv, TypeOK, CbwType
<1>1. /\ Clean /\ MainOwnsDataIn /\ PktIsCurrent
      /\ UNCHANGED <<irq, cbw, cmd, moved, hphase>>
  BY DEF Interpreter, Poll, Prepare, SendCsw, SendData, Update, IInv, TypeInv, device, host
<1>2. CASE Poll
  <2>1. OnOffer' = OnOffer /\ Uncounted' = Uncounted
    BY <1>2 DEF Poll, OnOffer, Uncounted
  <2> QED
    BY <1>1, <1>2, <2>1
    DEF Poll, Clean, AtRest, CommandIsCurrent, OfferIsCurrent, InIdle, InDataOut,
        InSendCsw, InDataIn, InRead, InHeader, device, host, CswPacket
<1>3. CASE Prepare
  <2>1. /\ pc = "prepare" /\ msc_state = "DATA_IN" /\ (InRead \/ InHeader)
        /\ hphase \in {"dataIn", "status"} /\ ep.kind # "csw" /\ Uncounted = 0
        /\ UNCHANGED <<csw, msc_bytes_remaining, ep>>
    BY <1>1, <1>3 DEF Prepare, MainOwnsDataIn, Clean, InDataIn, Uncounted
  <2>2. ep \in PacketType
    BY DEF IInv, TypeInv, TypeOK
  <2>3. CASE msc_bytes_remaining = 0
    <3>1. pc' = "sendCsw" /\ msc_state' = "SEND_CSW"
      BY <1>3, <2>1, <2>3 DEF Prepare
    <3>2. (ep = NoPacket /\ hphase = "status") \/ LastOnOffer
      <4>1. CASE InRead
        BY <1>0, <2>1, <2>2, <2>3, <4>1 DEF InRead, OnOffer, LastOnOffer, PacketType, NoPacket
      <4>2. CASE InHeader
        BY <4>2 DEF InHeader, LastOnOffer
      <4> QED
        BY <2>1, <4>1, <4>2
    <3> QED
      BY <1>1, <2>1, <3>1, <3>2
      DEF Clean, AtRest, CommandIsCurrent, OfferIsCurrent, InIdle, InDataOut,
          InSendCsw, InDataIn, LastOnOffer, CswPacket
  <2>4. CASE msc_bytes_remaining # 0
    <3>1. pc' = "sendData" /\ msc_state' = "DATA_IN" /\ InRead
      BY <1>3, <2>1, <2>4 DEF Prepare, InHeader
    <3>2. OnOffer' = OnOffer /\ Uncounted' = 0
      BY <2>1, <3>1 DEF OnOffer, Uncounted
    <3>3. InRead'
      BY <1>1, <2>1, <3>1, <3>2 DEF InRead
    <3> QED
      BY <1>1, <2>1, <3>1, <3>3
      DEF Clean, AtRest, CommandIsCurrent, OfferIsCurrent, InIdle, InDataOut,
          InSendCsw, InDataIn, CswPacket
  <2> QED
    BY <2>3, <2>4
<1>4. CASE SendCsw
  <2>1. /\ ep' = CswPacket(csw') /\ ep'.kind = "csw" /\ ep' # NoPacket
        /\ pc' = "idle" /\ pc = "sendCsw" /\ ep = NoPacket /\ ep.kind = "none"
        /\ UNCHANGED <<msc_state, csw, msc_bytes_remaining>>
    BY <1>0, <1>4, CswPacketType, NoPacketType DEF SendCsw, device
  <2>2. hphase # "ready" /\ msc_state \in {"IDLE", "SEND_CSW"}
    BY <1>1, <2>1 DEF Clean, AtRest, InDataOut, InDataIn, IInv, TypeInv, TypeOK
  <2>3. msc_state = "IDLE" => hphase = "status"
    BY <1>1, <2>2 DEF Clean, InIdle
  <2> QED
    BY <1>1, <2>1, <2>2, <2>3
    DEF Clean, AtRest, CommandIsCurrent, OfferIsCurrent, InIdle, InDataOut,
        InSendCsw, InDataIn
<1>5. CASE SendData
  <2>1. /\ msc_state = "DATA_IN" /\ InRead /\ pkt = DataPacket(cbw, msc_bytes_remaining)
        /\ msc_bytes_remaining > 0 /\ pc = "sendData" /\ ep = NoPacket
        /\ ep' = pkt /\ pc' = "update" /\ cbw = cmd
        /\ UNCHANGED <<msc_state, csw, msc_bytes_remaining, pkt>>
    BY <1>1, <1>5 DEF SendData, MainOwnsDataIn, PktIsCurrent, Clean, InDataIn, InHeader,
                      device, CommandIsCurrent
  <2>2. /\ ep'.kind = "data" /\ ep'.from = cmd.len - msc_bytes_remaining
        /\ ep'.len \in Nat /\ ep'.len > 0
        /\ ep'.len = Smaller(PacketSize, msc_bytes_remaining)
    BY <1>0, <2>1, PacketFacts DEF InRead
  <2>3. OnOffer = 0 /\ Uncounted = 0 /\ OnOffer' = pkt.len /\ Uncounted' = pkt.len
    BY <2>1, <2>2, NoPacketType DEF OnOffer, Uncounted
  <2>4. moved = cmd.len - msc_bytes_remaining /\ hphase = "dataIn"
    BY <1>0, <2>1, <2>3 DEF InRead
  <2>5. InRead'
    BY <1>0, <1>1, <2>1, <2>2, <2>3, <2>4 DEF InRead
  <2> QED
    BY <1>1, <2>1, <2>2, <2>4, <2>5
    DEF Clean, AtRest, CommandIsCurrent, OfferIsCurrent, InIdle, InDataOut,
        InSendCsw, InDataIn
<1>6. CASE Update
  <2>1. /\ msc_state = "DATA_IN" /\ InRead /\ pkt = DataPacket(cbw, msc_bytes_remaining)
        /\ msc_bytes_remaining > 0 /\ pc = "update" /\ pc' = "idle" /\ cbw = cmd
        /\ UNCHANGED <<msc_state, ep>>
    BY <1>1, <1>6 DEF Update, MainOwnsDataIn, PktIsCurrent, Clean, InDataIn, InHeader,
                      CommandIsCurrent
  <2>2. pkt.len \in Nat
    BY <1>0, <2>1, PacketFacts
  <2>3. msc_bytes_remaining' = msc_bytes_remaining - pkt.len /\ csw' = csw
    BY <1>6, <2>1 DEF Update, InRead, RemainingAfter, CswAfter
  <2>4. OnOffer' = OnOffer /\ Uncounted = pkt.len /\ Uncounted' = 0 /\ OnOffer \in Int
    BY <2>1 DEF OnOffer, Uncounted, IInv, TypeInv, TypeOK, PacketType, NoPacket
  <2>5. InRead'
    BY <1>0, <1>1, <2>1, <2>2, <2>3, <2>4 DEF InRead
  <2> QED
    BY <1>1, <2>1, <2>3, <2>5
    DEF Clean, AtRest, CommandIsCurrent, OfferIsCurrent, InIdle, InDataOut,
        InSendCsw, InDataIn, CswPacket
<1> QED
  BY <1>2, <1>3, <1>4, <1>5, <1>6 DEF Interpreter

(* Every step of a clean device leaves it clean, unless a reset catches it *)
(* at work.                                                                *)
LEMMA CleanStep == IInv /\ [Next]_vars => (tainted \/ Clean)'
<1> SUFFICES ASSUME IInv, [Next]_vars PROVE tainted' \/ Clean'
  OBVIOUS
<1>1. CASE BusReset
  BY <1>1, CleanReset
<1>2. CASE UNCHANGED vars
  BY <1>2 DEF IInv, vars, device, main, host, Clean, AtRest, CommandIsCurrent,
              OfferIsCurrent, InIdle, InDataOut, InSendCsw, InDataIn, LastOnOffer,
              InRead, InHeader, OnOffer, Uncounted, CswPacket
<1>3. CASE (\E c \in Cbws : HostSendsCbw(c)) \/ HostSendsData \/ HostTakes \/ Interpreter
  <2>1. tainted' = tainted
    BY <1>3 DEF HostSendsCbw, HostSendsData, HostTakes, Interpreter, Poll, Prepare,
                SendCsw, SendData, Update
  <2> QED
    BY <1>3, <2>1, CleanCbw, CleanData, CleanTakes, CleanInterpreter
<1> QED
  BY <1>1, <1>2, <1>3 DEF Next, Bus

(* Both layers hold in every reachable state.                              *)
THEOREM Inductive == Spec => []IInv
<1>1. Init => IInv
  BY TypeInit, CleanInit DEF IInv
<1>2. IInv /\ [Next]_vars => IInv'
  BY TypeStep, CleanStep DEF IInv
<1> QED
  BY <1>1, <1>2, PTL DEF Spec

(* No interrupt spins for ever and no state is left in MSC_SEND_CSW with   *)
(* nothing to send, unless a reset caught the device at work.              *)
THEOREM NoDeadEnds == Spec => []NoDeadEnd
<1>1. IInv => NoDeadEnd
  <2> SUFFICES ASSUME IInv, ~tainted PROVE NoDeadEnd
    BY DEF NoDeadEnd
  <2>1. Clean /\ NoPacket.kind = "none"
    BY NoPacketType DEF IInv
  <2> QED
    BY <2>1 DEF NoDeadEnd, Clean, InSendCsw
<1> QED
  BY <1>1, Inductive, PTL

(* The data reaches the host in order and only in its data phase.          *)
THEOREM ContiguousStream == Spec => []StreamContiguous
<1>1. IInv => StreamContiguous
  BY DEF IInv, Clean, OfferIsCurrent, StreamContiguous
<1> QED
  BY <1>1, Inductive, PTL

(* A conforming host never sees a wrong tag, or data for a status.         *)
THEOREM HostIsNeverMisled == Spec => []HostNeverMisled
<1>1. IInv => HostNeverMisled
  BY DEF IInv, Clean, HostNeverMisled
<1> QED
  BY <1>1, Inductive, PTL

-----------------------------------------------------------------------------
(* Third layer: what BotSession asks of a packet and of a status.          *)

(* Holds through resets: the host is in a data phase only as long as bytes *)
(* of it are missing, and only in the direction of its command; a data     *)
(* packet has at least a byte and at most PacketSize.                      *)
HostInv ==
    /\ hphase = "dataIn" => cmd.in = TRUE /\ moved < cmd.len
    /\ hphase = "dataOut" => cmd.in = FALSE /\ moved < cmd.len
    /\ ep.kind = "data" => ep.len \in 1..PacketSize

(* The blocks of READ and WRITE: all of them have crossed the bus when the *)
(* host waits for its status, no status is there before, none is missing.  *)
BlocksAccount ==
    cmd.op \in {"READ_10", "WRITE_10"} =>
        /\ csw.residue = 0
        /\ hphase = "status" => moved = cmd.len
        /\ ep.kind = "csw" => hphase = "status"
        /\ ep.kind = "data" => ep.len = Smaller(PacketSize, cmd.len - moved)

(* A header: from the moment it is loaded the residue is what it leaves of *)
(* the request, modulo Word.                                               *)
HeaderAccounts ==
    cmd.op \in OneShot => (moved + OnOffer + csw.residue) % Word = cmd.len

Accounted ==
    hphase # "ready" =>
        (cmd.op # "OTHER" => csw.status = 0) /\ BlocksAccount /\ HeaderAccounts

SessionInv == IInv /\ HostInv /\ (tainted \/ Accounted)

(* A data packet fits in a bulk packet and is not empty.                   *)
LEMMA DataLen ==
    ASSUME NEW c \in CbwType, NEW n \in Nat, n > 0
    PROVE  DataPacket(c, n).len \in 1..PacketSize
<1>1. PacketSize \in Nat /\ PacketSize > 37
  BY SizesAssumption
<1>2. DataPacket(c, n).len \in Nat
  BY PacketFacts
<1>3. DataPacket(c, n).len <= PacketSize
  BY <1>1, <1>2, PacketFacts DEF Smaller
<1> QED
  BY <1>1, <1>2, <1>3, PacketFacts

(* What the endpoint holds after a packet of the host: what it held, a     *)
(* status, or a data packet of a legal length.                             *)
LEMMA IrqLoads ==
    ASSUME TypeInv, ep.kind = "data" => ep.len \in 1..PacketSize,
           (\E c \in Cbws : HostSendsCbw(c)) \/ HostSendsData
    PROVE  ep'.kind = "data" => ep'.len \in 1..PacketSize
<1>0. csw \in CswType
  BY DEF TypeInv, TypeOK
<1>1. ASSUME NEW s \in CswType, IrqSend(CswPacket(s))
      PROVE  ep'.kind = "data" => ep'.len \in 1..PacketSize
  BY <1>1, CswPacketType DEF IrqSend
<1>2. ASSUME NEW n, TakeData(n)
      PROVE  ep'.kind = "data" => ep'.len \in 1..PacketSize
  BY <1>0, <1>1, <1>2 DEF TakeData
<1>3. ASSUME IgnoreOut
      PROVE  ep'.kind = "data" => ep'.len \in 1..PacketSize
  BY <1>3 DEF IgnoreOut
<1>4. ASSUME NEW c \in Cbws, AcceptCbw(c)
      PROVE  ep'.kind = "data" => ep'.len \in 1..PacketSize
  <2>1. c \in CbwType /\ c.len \in Nat /\ FreshCsw(c) \in CswType
    BY CbwsType, FreshCswType DEF CbwType
  <2>2. ASSUME NEW n \in Nat, IrqPrepare(c, FreshCsw(c), n)
        PROVE  ep'.kind = "data" => ep'.len \in 1..PacketSize
    <3>1. CASE n = 0
      BY <1>1, <2>1, <2>2, <3>1 DEF IrqPrepare
    <3>2. CASE n # 0
      <4>1. DataPacket(c, n).len \in 1..PacketSize
        BY <2>1, <3>2, DataLen
      <4>2. IrqSend(DataPacket(c, n))
        BY <2>2, <3>2 DEF IrqPrepare
      <4> QED
        BY <4>1, <4>2 DEF IrqSend
    <3> QED
      BY <3>1, <3>2
  <2>3. CASE c.op \in OneShot /\ IrqPrepare(c, FreshCsw(c), c.len)
    BY <2>1, <2>2, <2>3
  <2>4. CASE c.op = "READ_10" /\ IrqPrepare(c, FreshCsw(c), c.blocks * BlockSize)
    <3>1. c.blocks * BlockSize \in Nat
      BY <2>1, <2>4, CbwsType
    <3> QED
      BY <2>2, <2>4, <3>1
  <2>5. CASE UNCHANGED <<ep, irq>>
    BY <2>5
  <2>6. CASE IrqSend(CswPacket(FreshCsw(c)))
    BY <1>1, <2>1, <2>6
  <2> QED
    BY <1>4, <2>3, <2>4, <2>5, <2>6 DEF AcceptCbw
<1> QED
  BY <1>2, <1>3, <1>4 DEF HostSendsCbw, HostSendsData

(* Every step keeps HostInv, resets included.                              *)
LEMMA HostStep == TypeInv /\ HostInv /\ [Next]_vars => HostInv'
<1> SUFFICES ASSUME TypeInv, HostInv, [Next]_vars PROVE HostInv'
  OBVIOUS
<1>0. /\ cmd.len \in Nat /\ moved \in Nat /\ NoPacket.kind = "none"
      /\ PacketSize \in Nat /\ PacketSize > 37
      /\ ep.kind = "data" => ep.len \in 1..PacketSize
  BY SizesAssumption, NoPacketType DEF TypeInv, TypeOK, CbwType, HostInv
<1>1. ASSUME NEW c \in Cbws, HostSendsCbw(c) PROVE HostInv'
  <2>1. c.len \in Nat /\ c.in \in BOOLEAN
    BY CbwsType DEF CbwType
  <2>2. /\ cmd' = c /\ moved' = 0
        /\ hphase' = IF c.len = 0 THEN "status" ELSE IF c.in THEN "dataIn" ELSE "dataOut"
    BY <1>1 DEF HostSendsCbw
  <2>3. ep'.kind = "data" => ep'.len \in 1..PacketSize
    BY <1>0, <1>1, IrqLoads
  <2> QED
    BY <2>1, <2>2, <2>3 DEF HostInv
<1>2. CASE HostSendsData
  <2> DEFINE n == Smaller(PacketSize, cmd.len - moved)
  <2>1. hphase = "dataOut" /\ cmd.in = FALSE /\ moved < cmd.len
    BY <1>2 DEF HostSendsData, HostInv
  <2>2. moved' = moved + n /\ cmd' = cmd
        /\ hphase' = IF moved' = cmd.len THEN "status" ELSE "dataOut"
    BY <1>2 DEF HostSendsData
  <2>3. moved' # cmd.len => moved' < cmd.len
    BY <1>0, <2>1, <2>2 DEF Smaller
  <2>4. ep'.kind = "data" => ep'.len \in 1..PacketSize
    BY <1>0, <1>2, IrqLoads
  <2> QED
    BY <2>1, <2>2, <2>3, <2>4 DEF HostInv
<1>3. CASE HostTakes
  <2>1. ep'.kind = "none" /\ cmd' = cmd
    BY <1>0, <1>3 DEF HostTakes
  <2>2. hphase' # "dataOut"
    BY <1>3 DEF HostTakes
  <2>3. hphase' = "dataIn" => hphase = "dataIn" /\ moved' < cmd.len
    <3>1. CASE ep.kind = "data" /\ hphase = "dataIn"
      <4>1. moved' \in Nat /\ (hphase' = "dataIn" => ~(moved' >= cmd.len))
        BY <1>0, <1>3, <3>1 DEF HostTakes
      <4> QED
        BY <1>0, <3>1, <4>1
    <3>2. CASE ~(ep.kind = "data" /\ hphase = "dataIn")
      BY <1>3, <3>2 DEF HostTakes
    <3> QED
      BY <3>1, <3>2
  <2> QED
    BY <2>1, <2>2, <2>3 DEF HostInv
<1>4. CASE BusReset
  BY <1>0, <1>4 DEF BusReset, HostInv
<1>5. CASE SendData
  <2>1. ep' = pkt /\ pkt = DataPacket(cbw, msc_bytes_remaining) /\ msc_bytes_remaining > 0
    BY <1>5 DEF SendData, TypeInv, PktIsCurrent
  <2>2. pkt.len \in 1..PacketSize
    BY <2>1, DataLen DEF TypeInv, TypeOK
  <2> QED
    BY <1>5, <2>1, <2>2 DEF SendData, host, HostInv
<1>6. CASE SendCsw
  <2>1. ep'.kind = "csw"
    BY <1>6, CswPacketType DEF SendCsw, TypeInv, TypeOK
  <2> QED
    BY <1>6, <2>1 DEF SendCsw, host, HostInv
<1>7. CASE Poll \/ Prepare \/ Update
  BY <1>7 DEF Poll, Prepare, Update, host, HostInv
<1>8. CASE UNCHANGED vars
  BY <1>8 DEF vars, host, HostInv
<1> QED
  BY <1>1, <1>2, <1>3, <1>4, <1>5, <1>6, <1>7, <1>8 DEF Next, Interpreter, Bus

(* No transfer reaches the modulus of the device's counters.               *)
LEMMA LenBelowWord == ASSUME NEW c \in Cbws PROVE c.len \in Nat /\ c.len + PacketSize < Word
<1>1. CASE c \in HeaderCbws \cup OtherCbws
  BY <1>1, HostAssumption, WordAssumption DEF HeaderCbws, OtherCbws
<1>2. CASE c \in ReadCbws \cup WriteCbws
  <2>1. PICK b \in BlockCounts : c.len = b * BlockSize
    BY <1>2 DEF ReadCbws, WriteCbws
  <2>2. c.len \in Nat
    BY <1>2, BlockCbwsType DEF CbwType
  <2> QED
    BY <2>1, <2>2, WordAssumption
<1> QED
  BY <1>1, <1>2 DEF Cbws

(* The residue as the code computes it, and the n bytes it is the rest of, *)
(* add up to the request even where the residue has wrapped.               *)
LEMMA WordSum ==
    ASSUME NEW l \in Nat, NEW n \in Nat, l < Word, n < Word, NEW r, r = (l - n) % Word
    PROVE  r \in Nat /\ (n + r) % Word = l
<1>0. Word \in Nat /\ Word > 0
  BY WordAssumption
<1>1. (0 * Word + l) % Word = l /\ (1 * Word + l) % Word = l
  BY <1>0, QuotientIs
<1>2. CASE n <= l
  <2>1. (0 * Word + (l - n)) % Word = l - n
    BY <1>0, <1>2, QuotientIs
  <2>2. r = l - n
    BY <1>0, <1>2, <2>1
  <2>3. n + r = 0 * Word + l
    BY <1>0, <2>2
  <2> QED
    BY <1>1, <1>2, <2>2, <2>3
<1>3. CASE n > l
  <2>1. ((-1) * Word + (l - n + Word)) % Word = l - n + Word
    BY <1>0, <1>3, QuotientIs
  <2>2. r = l - n + Word
    BY <1>0, <2>1
  <2>3. n + r = 1 * Word + l /\ r \in Nat
    BY <1>0, <2>2
  <2> QED
    BY <1>1, <2>3
<1> QED
  BY <1>2, <1>3

(* A command starts with its account in order: a header that is loaded at  *)
(* once has its residue set with it.                                       *)
LEMMA AccountedCbw ==
    ASSUME SessionInv, ~tainted, NEW c \in Cbws, HostSendsCbw(c) PROVE Accounted'
<1>1. /\ msc_state = "IDLE" /\ ep = NoPacket /\ pc = "idle" /\ irq = "ok"
      /\ AcceptCbw(c)
  BY DEF SessionInv, IInv, Clean, AtRest, HostSendsCbw
<1>2. /\ c \in CbwType /\ c.len \in Nat /\ c.len < Word
      /\ PacketSize \in Nat /\ PacketSize < Word
      /\ c.op \in {"READ_10", "WRITE_10"} => c.len = c.blocks * BlockSize
      /\ c.op \in OneShot \cup {"READ_10"} => c.in = TRUE
      /\ FreshCsw(c) \in CswType
      /\ FreshCsw(c).residue = 0 /\ (c.op # "OTHER" => FreshCsw(c).status = 0)
  <2>1. c.len \in Nat /\ c.len + PacketSize < Word /\ PacketSize \in Nat
    BY LenBelowWord, SizesAssumption
  <2>2. c.len < Word /\ PacketSize < Word
    BY <2>1, WordAssumption
  <2> QED
    BY <2>1, <2>2, CbwsType, FreshCswType DEF FreshCsw
<1>3. /\ cmd' = c /\ moved' = 0
      /\ hphase' = IF c.len = 0 THEN "status" ELSE IF c.in THEN "dataIn" ELSE "dataOut"
  BY DEF HostSendsCbw
<1>4. ASSUME csw' = FreshCsw(c), ep'.kind \in {"none", "csw"},
             c.op \in {"READ_10", "WRITE_10"} /\ ep'.kind = "csw" => c.len = 0,
             c.op \in OneShot => c.len = 0
      PROVE  Accounted'
  <2>1. HeaderAccounts'
    <3> SUFFICES ASSUME c.op \in OneShot PROVE (0 + OnOffer' + 0) % Word = 0
      BY <1>2, <1>3, <1>4 DEF HeaderAccounts
    <3>1. OnOffer' = 0 /\ 0 % Word = 0
      BY <1>4, WordAssumption DEF OnOffer
    <3> QED
      BY <3>1
  <2>2. BlocksAccount'
    BY <1>2, <1>3, <1>4 DEF BlocksAccount
  <2> QED
    BY <1>2, <1>3, <1>4, <2>1, <2>2 DEF Accounted
<1>5. ASSUME IrqSend(CswPacket(FreshCsw(c))) PROVE ep'.kind = "csw"
  BY <1>1, <1>2, <1>5, StatusLoads
<1>6. ASSUME c.op \in OneShot \cup {"READ_10"}, IrqPrepare(c, FreshCsw(c), c.len)
      PROVE  Accounted'
  <2>1. CASE c.len = 0
    BY <1>4, <1>5, <1>6, <2>1 DEF IrqPrepare
  <2>2. CASE c.len # 0
    <3> DEFINE p == DataPacket(c, c.len)
    <3>1. /\ p.len \in Nat /\ p.kind = "data"
          /\ c.op = "READ_10" => p.len = Smaller(PacketSize, c.len)
          /\ c.op # "READ_10" => p.len < PacketSize
      BY <1>2, <2>2, PacketFacts
    <3>2. ep' = p /\ csw' = CswAfter(c, FreshCsw(c), c.len, p.len)
      BY <1>1, <1>6, <2>2 DEF IrqPrepare, IrqSend
    <3>3. hphase' = "dataIn"
      BY <1>2, <1>3, <1>6, <2>2
    <3> HIDE DEF p
    <3>4. CASE c.op = "READ_10"
      <4>1. csw' = FreshCsw(c) /\ c.len - 0 = c.len
        BY <1>2, <3>2, <3>4 DEF CswAfter
      <4> QED
        BY <1>2, <1>3, <3>1, <3>2, <3>3, <3>4, <4>1
        DEF Accounted, BlocksAccount, HeaderAccounts, OneShot
    <3>5. CASE c.op \in OneShot
      <4>1. c.op # "READ_10" /\ c.op \notin {"READ_10", "WRITE_10"}
        BY <3>5 DEF OneShot
      <4>2. csw'.residue = (c.len - p.len) % Word /\ csw'.status = FreshCsw(c).status
        BY <1>2, <3>2, <4>1 DEF CswAfter, CswType
      <4>3. OnOffer' = p.len
        BY <3>1, <3>2 DEF OnOffer
      <4>4. p.len < Word
        BY <1>2, <3>1, <4>1, WordAssumption
      <4>5. csw'.residue \in Nat /\ (p.len + csw'.residue) % Word = c.len
        BY <1>2, <3>1, <4>2, <4>4, WordSum
      <4>6. 0 + p.len + csw'.residue = p.len + csw'.residue
        BY <3>1, <4>5
      <4>7. HeaderAccounts'
        BY <1>3, <4>3, <4>5, <4>6 DEF HeaderAccounts
      <4>8. BlocksAccount'
        BY <1>3, <4>1 DEF BlocksAccount
      <4> QED
        BY <1>2, <1>3, <4>2, <4>7, <4>8 DEF Accounted
    <3> QED
      BY <1>6, <3>4, <3>5
  <2> QED
    BY <2>1, <2>2
<1>7. CASE c.op \in OneShot /\ IrqPrepare(c, FreshCsw(c), c.len)
  BY <1>6, <1>7
<1>8. CASE c.op = "READ_10" /\ IrqPrepare(c, FreshCsw(c), c.blocks * BlockSize)
  BY <1>2, <1>6, <1>8
<1>9. CASE c.op = "WRITE_10" /\ csw' = FreshCsw(c) /\ UNCHANGED <<ep, irq>>
  BY <1>1, <1>4, <1>9, NoPacketType DEF OneShot
<1>10. CASE c.op = "OTHER" /\ csw' = FreshCsw(c) /\ IrqSend(CswPacket(FreshCsw(c)))
  BY <1>4, <1>5, <1>10 DEF OneShot
<1> QED
  BY <1>1, <1>7, <1>8, <1>9, <1>10 DEF AcceptCbw

(* The data of a WRITE is complete when its status is loaded.              *)
LEMMA AccountedData ==
    ASSUME SessionInv, ~tainted, HostSendsData PROVE Accounted'
<1> DEFINE n == Smaller(PacketSize, cmd.len - moved)
<1>0. /\ cmd.len \in Nat /\ moved \in Nat /\ csw \in CswType /\ NoPacket.kind = "none"
      /\ PacketSize \in Nat /\ PacketSize > 37 /\ csw' = csw /\ cmd' = cmd
  BY SizesAssumption, NoPacketType
  DEF SessionInv, IInv, TypeInv, TypeOK, CbwType, HostSendsData, TakeData, IgnoreOut, device
<1>1. /\ hphase = "dataOut" /\ moved' = moved + n
      /\ hphase' = IF moved' = cmd.len THEN "status" ELSE "dataOut"
  BY DEF HostSendsData
<1>2. /\ cmd \in Cbws /\ cmd.in = FALSE /\ moved < cmd.len
      /\ Accounted /\ Clean
  BY <1>1 DEF SessionInv, IInv, Clean, CommandIsCurrent, HostInv
<1>3. cmd.op \notin OneShot \cup {"READ_10"}
  BY <1>2, CbwsType
<1>4. ASSUME cmd.op = "WRITE_10" PROVE ep'.kind = "csw" => moved' = cmd.len
  <2>1. CASE msc_state = "DATA_OUT" /\ TakeData(n)
    <3>1. msc_bytes_remaining = cmd.len - moved /\ ep = NoPacket
      BY <2>1, <1>2 DEF Clean, InDataOut
    <3>2. n <= msc_bytes_remaining /\ n \in Nat
      BY <1>0, <1>2, <3>1 DEF Smaller
    <3>3. \/ msc_bytes_remaining - n = 0
          \/ ep' = ep
      BY <2>1, <1>0, <3>1, <3>2 DEF TakeData, Smaller
    <3> QED
      BY <1>0, <1>1, <3>1, <3>2, <3>3
  <2>2. CASE IgnoreOut
    BY <1>1, <1>2, <1>4, <2>2 DEF IgnoreOut, Accounted, BlocksAccount
  <2> QED
    BY <2>1, <2>2 DEF HostSendsData
<1>5. ep'.kind # "data"
  <2>1. ep.kind # "data"
    BY <1>1, <1>2 DEF Clean, OfferIsCurrent
  <2>2. CASE TakeData(n)
    BY <1>0, <2>1, <2>2, CswPacketType DEF TakeData, IrqSend
  <2>3. CASE IgnoreOut
    BY <2>1, <2>3 DEF IgnoreOut
  <2> QED
    BY <2>2, <2>3 DEF HostSendsData
<1> QED
  BY <1>0, <1>1, <1>2, <1>3, <1>4, <1>5 DEF Accounted, BlocksAccount, HeaderAccounts

(* A packet that the host takes moves its bytes from the offer to the      *)
(* host.                                                                   *)
LEMMA AccountedTakes ==
    ASSUME SessionInv, ~tainted, HostTakes PROVE Accounted'
<1>0. /\ cmd.len \in Nat /\ moved \in Nat /\ csw \in CswType /\ ep \in PacketType
      /\ NoPacket.kind = "none" /\ PacketSize \in Nat /\ PacketSize > 37
  BY SizesAssumption, NoPacketType DEF SessionInv, IInv, TypeInv, TypeOK, CbwType
<1>1. /\ ep'.kind = "none" /\ csw' = csw /\ cmd' = cmd /\ hphase # "ready"
      /\ cmd \in Cbws /\ Accounted /\ Clean
  BY <1>0 DEF HostTakes, SessionInv, IInv, Clean, CommandIsCurrent
<1>2. CASE ep.kind = "csw"
  <2>1. hphase' = "ready"
    BY <1>0, <1>1, <1>2, CswPacketType DEF HostTakes, Clean, OfferIsCurrent, CommandIsCurrent
  <2> QED
    BY <2>1 DEF Accounted
<1>3. CASE ep.kind = "data"
  <2>1. /\ hphase = "dataIn" /\ moved' = moved + ep.len /\ ep.len \in Nat
        /\ hphase' = IF moved' >= cmd.len \/ ep.len < PacketSize THEN "status" ELSE "dataIn"
        /\ moved < cmd.len /\ cmd.in = TRUE
    BY <1>0, <1>1, <1>3 DEF HostTakes, Clean, OfferIsCurrent, PacketType, NoPacket,
                            SessionInv, HostInv
  <2>2. cmd.op # "WRITE_10"
    BY <1>1, <2>1, CbwsType
  <2>3. ASSUME cmd.op = "READ_10", hphase' = "status" PROVE moved' = cmd.len
    <3>1. ep.len = Smaller(PacketSize, cmd.len - moved)
      BY <1>1, <1>3, <2>3 DEF Accounted, BlocksAccount
    <3> QED
      BY <1>0, <2>1, <2>3, <3>1 DEF Smaller
  <2>4. BlocksAccount'
    BY <1>1, <2>2, <2>3 DEF Accounted, BlocksAccount
  <2>5. HeaderAccounts'
    <3> SUFFICES ASSUME cmd.op \in OneShot
                 PROVE  (moved' + OnOffer' + csw.residue) % Word = cmd.len
      BY <1>1 DEF HeaderAccounts
    <3>1. (moved + OnOffer + csw.residue) % Word = cmd.len
      BY <1>1 DEF Accounted, HeaderAccounts
    <3>2. OnOffer = ep.len /\ OnOffer' = 0
      BY <1>1, <1>3 DEF OnOffer
    <3>3. moved' + 0 = moved + ep.len
      BY <1>0, <2>1
    <3> QED
      BY <3>1, <3>2, <3>3
  <2> QED
    BY <1>1, <2>4, <2>5 DEF Accounted
<1> QED
  BY <1>0, <1>2, <1>3 DEF HostTakes, PacketType

(* The interpreter loads data of a READ only, and its status only when all *)
(* was taken.                                                              *)
LEMMA AccountedInterpreter ==
    ASSUME SessionInv, ~tainted, Interpreter PROVE Accounted'
<1>0. /\ cmd.len \in Nat /\ moved \in Nat /\ msc_bytes_remaining \in Nat
      /\ csw \in CswType /\ cbw \in CbwType /\ cbw.len \in Nat
      /\ NoPacket.kind = "none" /\ PacketSize \in Nat /\ PacketSize > 37
  BY SizesAssumption, NoPacketType DEF SessionInv, IInv, TypeInv, TypeOK, CbwType
<1> SUFFICES ASSUME hphase # "ready" PROVE Accounted'
  BY DEF Accounted, Interpreter, Poll, Prepare, SendCsw, SendData, Update, host
<1>1. /\ Accounted /\ Clean /\ MainOwnsDataIn /\ PktIsCurrent
      /\ cbw = cmd /\ cmd \in Cbws
      /\ UNCHANGED <<cmd, moved, hphase>>
  BY DEF Interpreter, Poll, Prepare, SendCsw, SendData, Update, SessionInv, IInv, TypeInv,
         Clean, CommandIsCurrent, host
<1>2. CASE Poll \/ Prepare
  <2>1. UNCHANGED <<ep, csw>> /\ OnOffer' = OnOffer
    BY <1>2 DEF Poll, Prepare, device, OnOffer
  <2> QED
    BY <1>1, <2>1 DEF Accounted, BlocksAccount, HeaderAccounts
<1>3. CASE SendCsw
  <2>1. /\ ep'.kind = "csw" /\ csw' = csw /\ pc = "sendCsw" /\ ep = NoPacket
    BY <1>0, <1>3, CswPacketType DEF SendCsw, device
  <2>2. hphase = "status"
    BY <1>0, <1>1, <2>1
    DEF Clean, InIdle, InDataOut, InSendCsw, InDataIn, LastOnOffer, SessionInv, IInv,
        TypeInv, TypeOK
  <2>3. OnOffer' = OnOffer
    BY <1>0, <2>1 DEF OnOffer
  <2> QED
    BY <1>1, <2>1, <2>2, <2>3 DEF Accounted, BlocksAccount, HeaderAccounts
<1>4. CASE SendData
  <2>1. /\ msc_state = "DATA_IN" /\ InRead /\ pkt = DataPacket(cbw, msc_bytes_remaining)
        /\ msc_bytes_remaining > 0 /\ pc = "sendData" /\ ep = NoPacket
        /\ ep' = pkt /\ csw' = csw
    BY <1>1, <1>4 DEF SendData, MainOwnsDataIn, PktIsCurrent, Clean, InDataIn, InHeader, device
  <2>2. /\ ep'.kind = "data" /\ ep'.len = Smaller(PacketSize, msc_bytes_remaining)
        /\ cmd.op = "READ_10"
    BY <1>0, <1>1, <2>1, PacketFacts DEF InRead
  <2>3. msc_bytes_remaining = cmd.len - moved /\ hphase # "status"
    <3>1. OnOffer = 0 /\ Uncounted = 0
      BY <1>0, <2>1 DEF OnOffer, Uncounted
    <3> QED
      BY <1>0, <2>1, <3>1 DEF InRead
  <2> QED
    BY <1>1, <2>1, <2>2, <2>3 DEF Accounted, BlocksAccount, HeaderAccounts, OneShot
<1>5. CASE Update
  <2>1. InRead /\ UNCHANGED ep
    BY <1>1, <1>5 DEF Update, MainOwnsDataIn, PktIsCurrent, Clean, InDataIn, InHeader
  <2>2. csw' = csw /\ OnOffer' = OnOffer
    BY <1>1, <1>5, <2>1 DEF Update, InRead, CswAfter, OnOffer
  <2> QED
    BY <1>1, <2>1, <2>2 DEF Accounted, BlocksAccount, HeaderAccounts
<1> QED
  BY <1>2, <1>3, <1>4, <1>5 DEF Interpreter

(* Every step keeps the account, unless a reset catches the device at      *)
(* work.                                                                   *)
LEMMA AccountedStep == SessionInv /\ [Next]_vars => (tainted \/ Accounted)'
<1> SUFFICES ASSUME SessionInv, [Next]_vars PROVE tainted' \/ Accounted'
  OBVIOUS
<1>1. CASE BusReset
  BY <1>1 DEF BusReset, Accounted
<1>2. CASE UNCHANGED vars
  BY <1>2 DEF vars, device, main, host, SessionInv, Accounted, BlocksAccount,
              HeaderAccounts, OnOffer
<1>3. CASE (\E c \in Cbws : HostSendsCbw(c)) \/ HostSendsData \/ HostTakes \/ Interpreter
  <2>1. tainted' = tainted
    BY <1>3 DEF HostSendsCbw, HostSendsData, HostTakes, Interpreter, Poll, Prepare,
                SendCsw, SendData, Update
  <2> QED
    BY <1>3, <2>1, AccountedCbw, AccountedData, AccountedTakes, AccountedInterpreter
<1> QED
  BY <1>1, <1>2, <1>3 DEF Next, Bus

(* All three layers hold in every reachable state.                         *)
LEMMA SessionInductive == Spec => []SessionInv
<1>1. Init => HostInv /\ Accounted
  BY NoPacketType DEF Init, HostInv, Accounted
<1>2. SessionInv /\ [Next]_vars => (HostInv /\ (tainted \/ Accounted))'
  BY HostStep, AccountedStep DEF SessionInv, IInv
<1>3. SessionInv <=> IInv /\ HostInv /\ (tainted \/ Accounted)
  BY DEF SessionInv
<1> QED
  BY <1>1, <1>2, <1>3, Inductive, PTL DEF Spec

(* Every step of the detailed machine is a step of a session or none.      *)
LEMMA SessionStep == SessionInv /\ [Next]_vars => [Session!Next]_Session!vars
<1> SUFFICES ASSUME SessionInv, [Next]_vars PROVE [Session!Next]_Session!vars
  OBVIOUS
<1>0. /\ cmd.len \in Nat /\ moved \in Nat /\ csw \in CswType /\ ep \in PacketType
      /\ tainted \in BOOLEAN /\ PacketSize \in Nat /\ PacketSize > 37
  BY SizesAssumption DEF SessionInv, IInv, TypeInv, TypeOK, CbwType
<1>1. CASE BusReset
  <2>1. hphase' = "ready" /\ tainted' \in BOOLEAN /\ UNCHANGED <<cmd, moved, answer>>
    BY <1>1 DEF BusReset
  <2>2. Session!Reset
    BY <2>1 DEF Session!Reset
  <2> QED
    BY <2>2 DEF Session!Next
<1>2. CASE UNCHANGED vars
  BY <1>2 DEF vars, host, Session!vars
<1>3. CASE Interpreter
  BY <1>3 DEF Interpreter, Poll, Prepare, SendCsw, SendData, Update, host, Session!vars
<1>4. CASE Bus /\ tainted
  <2>1. tainted' = TRUE
    BY <1>4 DEF Bus, HostSendsCbw, HostSendsData, HostTakes
  <2> QED
    BY <1>4, <2>1 DEF Session!Babble, Session!Next
<1>5. CASE Bus /\ ~tainted
  <2>0. tainted' = FALSE /\ Clean /\ Accounted /\ HostInv
    BY <1>5 DEF Bus, HostSendsCbw, HostSendsData, HostTakes, SessionInv, IInv
  <2>1. ASSUME NEW c \in Cbws, HostSendsCbw(c) PROVE Session!Open
    BY <2>0, <2>1, <1>5 DEF HostSendsCbw, Session!Open, Session!NoAnswer, NoPacket
  <2>2. CASE HostSendsData
    <3> DEFINE n == Smaller(PacketSize, cmd.len - moved)
    <3>1. /\ hphase = "dataOut" /\ hphase' # "ready" /\ moved' = moved + n
          /\ UNCHANGED <<cmd, answer>> /\ moved < cmd.len
      BY <2>0, <2>2 DEF HostSendsData, HostInv
    <3>2. n \in 1..PacketSize
      BY <1>0, <3>1 DEF Smaller
    <3>3. Session!Packet
      BY <1>5, <2>0, <3>1, <3>2 DEF Session!Packet
    <3> QED
      BY <3>3 DEF Session!Next
  <2>3. CASE HostTakes /\ ep.kind = "data"
    <3>1. /\ hphase = "dataIn" /\ hphase' # "ready" /\ moved' = moved + ep.len
          /\ UNCHANGED <<cmd, answer>> /\ moved < cmd.len /\ ep.len \in 1..PacketSize
      BY <2>0, <2>3 DEF HostTakes, HostInv, Clean, OfferIsCurrent
    <3>2. Session!Packet
      BY <1>5, <2>0, <3>1 DEF Session!Packet
    <3> QED
      BY <3>2 DEF Session!Next
  <2>4. CASE HostTakes /\ ep.kind = "csw"
    <3>1. /\ hphase # "ready" /\ ep = CswPacket(csw) /\ csw.tag = cmd.tag /\ cmd \in Cbws
      BY <2>0, <2>4 DEF Clean, OfferIsCurrent, CommandIsCurrent
    <3>2. /\ ep.tag = cmd.tag /\ ep.residue = csw.residue /\ ep.status = csw.status
      BY <3>1 DEF CswPacket
    <3>3. hphase' = "ready" /\ answer' = ep /\ UNCHANGED <<cmd, moved>>
      BY <2>4, <3>2 DEF HostTakes
    <3>4. ASSUME cmd.op # "OTHER"
          PROVE  csw.status = 0 /\ (moved + csw.residue) % Word = cmd.len
      <4>1. csw.status = 0 /\ BlocksAccount /\ HeaderAccounts
        BY <2>0, <3>1, <3>4 DEF Accounted
      <4>2. CASE cmd.op \in {"READ_10", "WRITE_10"}
        <5>1. moved = cmd.len /\ csw.residue = 0
          BY <2>4, <4>1, <4>2 DEF BlocksAccount
        <5>2. cmd.len < Word
          BY <1>0, <3>1, LenBelowWord, WordAssumption
        <5>3. (0 * Word + cmd.len) % Word = cmd.len
          BY <1>0, <5>2, WordAssumption, QuotientIs
        <5> QED
          BY <1>0, <4>1, <5>1, <5>3, WordAssumption
      <4>3. CASE cmd.op \in OneShot
        <5>1. OnOffer = 0
          BY <2>4 DEF OnOffer
        <5>2. csw.residue \in Nat /\ moved + 0 + csw.residue = moved + csw.residue
          BY <1>0, WordAssumption DEF CswType
        <5> QED
          BY <4>1, <4>3, <5>1, <5>2 DEF HeaderAccounts
      <4> QED
        BY <3>1, <3>4, <4>2, <4>3 DEF SessionInv, IInv, TypeInv, TypeOK, CbwType, Ops
    <3>5. Session!Close
      BY <1>5, <2>0, <2>4, <3>1, <3>2, <3>3, <3>4 DEF Session!Close
    <3> QED
      BY <3>5 DEF Session!Next
  <2>5. HostTakes => ep.kind \in {"csw", "data"}
    BY <1>0 DEF HostTakes, PacketType
  <2> QED
    BY <1>5, <2>1, <2>2, <2>3, <2>4, <2>5 DEF Bus, Session!Next
<1> QED
  BY <1>1, <1>2, <1>3, <1>4, <1>5, <1>0 DEF Next

(* The state machine of usbfs_cdc_msc.c, with both its contexts and its    *)
(* endpoint, implements the sequence of sessions of BotSession.            *)
THEOREM SessionsAreImplemented == Spec => ImplementsSession
<1>1. Init => Session!Init
  BY DEF Init, Session!Init, Session!NoAnswer, NoPacket
<1> QED
  BY <1>1, SessionInductive, SessionStep, PTL DEF Spec, ImplementsSession, Session!Spec
=============================================================================
