----------------------------- MODULE BotSession -----------------------------
(***************************************************************************)
(* What the mass-storage function promises the USB host: the Bulk-Only     *)
(* Transport as a sequence of sessions.  A session is one command, then    *)
(* data packets while the host still expects some, then one status that    *)
(* carries the command's tag and accounts for the bytes that moved.        *)
(* There are no interrupts, no endpoint buffer, no poll and no state       *)
(* machine here; UsbMsc has them and implements this module.               *)
(***************************************************************************)
EXTENDS Integers

CONSTANTS
    Cbws,         \* the command blocks of the host, each with op, len and tag
    FirstCmd,     \* the command block before the first one
    PacketSize,   \* bytes in a bulk packet
    Word          \* 2^32: the device's counters are uint32_t

VARIABLES
    phase,    \* "ready" | "open" | "lost": a bus reset caught the device at work
    cmd,      \* the command of the current or last session
    moved,    \* bytes that crossed the bus in its data phase
    answer    \* the status of the last session, or NoAnswer

vars == <<phase, cmd, moved, answer>>

NoAnswer == [kind |-> "none"]

Init ==
    /\ phase = "ready"
    /\ cmd = FirstCmd
    /\ moved = 0
    /\ answer = NoAnswer

(* The host opens a session with a fresh tag. *)
Open ==
    /\ phase = "ready"
    /\ phase' = "open"
    /\ cmd' \in {c \in Cbws : c.tag # cmd.tag}
    /\ moved' = 0
    /\ answer' = NoAnswer

(* A packet moves only while the host has not got, or given, all of it. *)
Packet ==
    /\ phase = "open"
    /\ moved < cmd.len
    /\ \E n \in 1..PacketSize : moved' = moved + n
    /\ UNCHANGED <<phase, cmd, answer>>

(* One status closes the session.  Its tag is the command's.  For a        *)
(* command the device implements it reports success, and the residue and   *)
(* the bytes moved add up, as uint32_t, to what the host asked for.        *)
Close ==
    /\ phase = "open"
    /\ phase' = "ready"
    /\ answer'.kind = "csw"
    /\ answer'.tag = cmd.tag
    /\ cmd.op # "OTHER" => /\ answer'.status = 0
                           /\ (moved + answer'.residue) % Word = cmd.len
    /\ UNCHANGED <<cmd, moved>>

(* A bus reset ends the session if there is one.  One that catches the     *)
(* device at work loses it: nothing is promised of what the host sees      *)
(* until a reset finds the device at rest.                                 *)
Reset ==
    /\ phase' \in {"ready", "lost"}
    /\ UNCHANGED <<cmd, moved, answer>>
Babble == phase = "lost" /\ phase' = "lost"

Next == Open \/ Packet \/ Close \/ Reset \/ Babble

Spec == Init /\ [][Next]_vars
=============================================================================
