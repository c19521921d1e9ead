--------------------------------- MODULE Hal --------------------------------
(***************************************************************************)
(* Time, as mphalport.h, micropython.c and the console output of           *)
(* usbfs_cdc_msc.c use it.  SysTick counts modulo Wrap; milliseconds and   *)
(* microseconds are quotients of it, so they wrap long before a word does. *)
(* The interpreter looks at the clock in three places: the loop of a       *)
(* delay, the gate of mp_hal_background_processing ("only poll every       *)
(* 1ms"), and a second time when the gate is open.  Every step of it takes *)
(* 1 to MaxLag counts, plus a whole millisecond where it busy-waits.       *)
(*                                                                         *)
(* The queue that a poll reads is Console and the endpoint it feeds is     *)
(* UsbMsc; here a poll takes what has come in, a control-C among it        *)
(* becomes the pending exception, and what comes while it does so is       *)
(* thrown away at its end.  Output is the variant of putchar that is built *)
(* without FUNCONF_USE_DEBUGPRINTF.                                        *)
(***************************************************************************)
EXTENDS Integers

CONSTANTS
    Wrap,       \* SysTick and mp_uint_t count modulo 2^32
    US, MS,     \* DELAY_US_TIME, DELAY_MS_TIME: counts in a tick
    MaxLag,     \* bound: counts from one look at the clock to the next
    MaxDelay,   \* bound: longest delay asked for, in ticks
    MaxPrint    \* bound: characters printed between two looks

(* The longest that input waits.  A tick may have to pass, and the gate to *)
(* be reached, twice, because a pending exception leaves the first poll;   *)
(* printing keeps the interpreter from the gate.                           *)
LongestPrint == MaxPrint * (MS + 2 * MaxLag)
Latency == 2 * (MS + 5 * MaxLag + LongestPrint)

ASSUME ClockAssumption ==
    /\ US \in Nat \ {0} /\ MS \in Nat /\ MS > US
    /\ Wrap \in Nat /\ Wrap >= 2 * MS
    /\ MaxLag \in 1..MS /\ MaxDelay \in Nat /\ MaxPrint \in Nat
    /\ MaxDelay + Wrap \div US < Wrap
    /\ MS + 5 * MaxLag + LongestPrint <= Wrap

VARIABLES
    systick, last_usb_poll,
    pc,         \* "run", or the place in a delay, the poll or putchar
    delay,      \* the delay in progress: its unit, start and length
    input,      \* what waits for the poll: "none", "key", "ctrl-c"
    kbd,        \* a KeyboardInterrupt is pending
    left,       \* characters still to print
    busy,       \* EP_CDC_IN holds a packet
    elapsed, age, held  \* counts since the delay began, the input came, the
                        \* packet was loaded, up to a bound

clock == <<systick, elapsed, age, held>>
vars == <<clock, last_usb_poll, pc, delay, input, kbd, left, busy>>

NoDelay == [unit |-> 0, start |-> 0, len |-> 0]
Delaying == delay.unit # 0

Ticks(unit) == systick \div unit

AtMost(n, bound) == IF n > bound THEN bound ELSE n

Init ==
    /\ systick \in 0..(Wrap - 1) /\ last_usb_poll = 0
    /\ elapsed = 0 /\ age = 0 /\ held = 0
    /\ pc = "run" /\ delay = NoDelay
    /\ input = "none" /\ kbd = FALSE
    /\ left = 0 /\ busy = FALSE

(* n counts go by, at the end of a step *)
Passes(n) ==
    /\ systick' = (systick + n) % Wrap
    /\ elapsed' = IF delay' = NoDelay THEN 0 ELSE AtMost(elapsed + n, MaxDelay * MS)
    /\ age' = IF input' = "none" THEN 0 ELSE AtMost(age + n, Latency + 1)
    /\ held' = IF busy' THEN AtMost(held + n, MS) ELSE 0

-----------------------------------------------------------------------------
(* mphalport.h: mp_hal_delay_us, mp_hal_delay_ms                           *)

(* Mutant: the usual idiom, which is right for a counter that wraps with   *)
(* the word and not for a quotient of one.                                 *)
TimeUpSince == (Ticks(delay.unit) - delay.start) % Wrap >= delay.len

(* Mutant: waits for one tick, which a slow turn of the loop steps over. *)
TimeUpExact == Ticks(delay.unit) = (delay.start + delay.len) % Wrap

TimeUp == Ticks(delay.unit) >= (delay.start + delay.len) % Wrap

Delay(unit, n, d) ==
    /\ pc = "run"
    /\ delay' = [unit |-> unit, start |-> Ticks(unit), len |-> n]
    /\ pc' = "test"
    /\ UNCHANGED <<last_usb_poll, input, kbd, left, busy>>
    /\ Passes(d)

(* The test of the loop.  Background processing follows in either case: in *)
(* the loop, or after the opcode that called the delay.                    *)
Test(d) ==
    /\ pc = "test"
    /\ pc' = "gate"
    /\ delay' = IF TimeUp THEN NoDelay ELSE delay
    /\ UNCHANGED <<last_usb_poll, input, kbd, left, busy>>
    /\ Passes(d)

-----------------------------------------------------------------------------
(* micropython.c: mp_hal_background_processing                             *)

Opcode(d) ==
    /\ pc = "run"
    /\ pc' = "gate"
    /\ UNCHANGED <<last_usb_poll, delay, input, kbd, left, busy>>
    /\ Passes(d)

AfterGate == IF Delaying THEN "test" ELSE "run"

(* Mutant: the clock is taken for one that only grows. *)
GateOpenLater == Ticks(MS) > last_usb_poll

GateOpen == Ticks(MS) # last_usb_poll

Gate(d) ==
    /\ pc = "gate"
    /\ pc' = IF GateOpen THEN "poll" ELSE AfterGate
    /\ UNCHANGED <<last_usb_poll, delay, input, kbd, left, busy>>
    /\ Passes(d)

(* Mutant: keeps the counter itself (mp_hal_ticks_cpu). *)
PollTimeInCounts == systick

(* the second look at the clock *)
PollTime == Ticks(MS)

(* Mutant: mp_handle_pending(false), which drops the exception. *)
RaiseNot(d) ==
    /\ pc = "poll" /\ kbd
    /\ last_usb_poll' = PollTime
    /\ kbd' = FALSE
    /\ pc' = AfterGate
    /\ UNCHANGED <<delay, input, left, busy>>
    /\ Passes(d)

(* mp_handle_pending(true): the exception leaves the delay and the poll *)
Raise(d) ==
    /\ pc = "poll" /\ kbd
    /\ last_usb_poll' = PollTime
    /\ kbd' = FALSE
    /\ delay' = NoDelay
    /\ pc' = "run"
    /\ UNCHANGED <<input, left, busy>>
    /\ Passes(d)

(* poll_usb_input: handle_input takes the bytes that are there when it is  *)
(* called, ...                                                             *)
Poll(d) ==
    /\ pc = "poll" /\ ~kbd
    /\ last_usb_poll' = PollTime
    /\ kbd' = (input = "ctrl-c")
    /\ input' = "none"
    /\ pc' = IF input = "none" THEN AfterGate ELSE "reset"
    /\ UNCHANGED <<delay, left, busy>>
    /\ Passes(d)

(* ... and usb_inbuf_idx = 0 discards those that came since.               *)
Reset(d) ==
    /\ pc = "reset"
    /\ input' = "none"
    /\ pc' = AfterGate
    /\ UNCHANGED <<last_usb_poll, delay, kbd, left, busy>>
    /\ Passes(d)

-----------------------------------------------------------------------------
(* usbfs_cdc_msc.c: putchar, for every character of a string               *)

TxStrn(n, d) ==
    /\ pc = "run"
    /\ left' = n
    /\ pc' = "try"
    /\ UNCHANGED <<last_usb_poll, delay, input, kbd, busy>>
    /\ Passes(d)

AfterChar == IF left = 1 THEN "gate" ELSE "try"

(* Mutant: the second try follows at once. *)
BusyWaitNone(d) == Passes(d)

(* Delay_Ms(1) *)
BusyWait(d) == Passes(MS + d)

(* the endpoint takes the character, or a millisecond is waited *)
Try(d) ==
    /\ pc = "try"
    /\ busy' = TRUE
    /\ pc' = IF busy THEN "retry" ELSE AfterChar
    /\ left' = IF busy THEN left ELSE left - 1
    /\ UNCHANGED <<last_usb_poll, delay, input, kbd>>
    /\ IF busy THEN BusyWait(d) ELSE Passes(d)

(* Mutant: tries until the endpoint is free, as the mass storage does. *)
RetryUntilFree(d) ==
    /\ pc = "retry"
    /\ busy' = TRUE
    /\ left' = IF busy THEN left ELSE left - 1
    /\ pc' = IF busy THEN "retry" ELSE AfterChar
    /\ UNCHANGED <<last_usb_poll, delay, input, kbd>>
    /\ Passes(d)

(* the second try, whose result nobody looks at *)
Retry(d) ==
    /\ pc = "retry"
    /\ busy' = TRUE
    /\ left' = left - 1
    /\ pc' = AfterChar
    /\ UNCHANGED <<last_usb_poll, delay, input, kbd>>
    /\ Passes(d)

-----------------------------------------------------------------------------
(* The USB interrupt, between any two steps and in no time.                *)

HostSends(what) ==
    /\ input = "none" \/ (input = "key" /\ what = "ctrl-c")
    /\ input' = what
    /\ UNCHANGED <<clock, last_usb_poll, pc, delay, kbd, left, busy>>

HostTakes ==
    /\ busy
    /\ busy' = FALSE /\ held' = 0
    /\ UNCHANGED <<systick, elapsed, age, last_usb_poll, pc, delay, input, kbd, left>>

Interpreter ==
    \E d \in 1..MaxLag :
        \/ \E unit \in {US, MS}, n \in 0..MaxDelay : Delay(unit, n, d)
        \/ \E n \in 1..MaxPrint : TxStrn(n, d)
        \/ Opcode(d) \/ Test(d) \/ Gate(d) \/ Poll(d) \/ Reset(d) \/ Raise(d)
        \/ Try(d) \/ Retry(d)

Next ==
    \/ Interpreter
    \/ \E what \in {"key", "ctrl-c"} : HostSends(what)
    \/ HostTakes

(* The interpreter runs; the host need not do anything. *)
Spec == Init /\ [][Next]_vars /\ WF_vars(Interpreter)

-----------------------------------------------------------------------------
(* Properties.                                                             *)

(* Types; what the gate remembers is a time in milliseconds.               *)
TypeOK ==
    /\ systick \in 0..(Wrap - 1) /\ last_usb_poll \in 0..((Wrap - 1) \div MS)
    /\ pc \in {"run", "test", "gate", "poll", "reset", "try", "retry"}
    /\ delay \in [unit : {0, US, MS}, start : 0..(Wrap \div US), len : 0..MaxDelay]
    /\ input \in {"none", "key", "ctrl-c"} /\ kbd \in BOOLEAN
    /\ left \in 0..MaxPrint /\ busy \in BOOLEAN
    /\ elapsed \in 0..(MaxDelay * MS) /\ age \in 0..(Latency + 1) /\ held \in 0..MS

(* A delay of n ticks that returns has lasted more than n - 1 of them,     *)
(* also when the tick count, which wraps at Wrap \div unit and not with    *)
(* the word, starts again from 0 under way.                                *)
NeverShort ==
    [][pc = "test" /\ ~Delaying' => elapsed > (delay.len - 1) * delay.unit]_vars

(* Input does not wait longer than Latency for a poll, in and out of       *)
(* delays, although the gate reads the clock twice, the clock wraps in the *)
(* middle of a millisecond and an exception may leave the poll.            *)
PollLatency == age <= Latency

(* A character is dropped only after the host left the previous one on the *)
(* endpoint for a whole millisecond.                                       *)
OnlySlowHostLoses ==
    [][pc = "retry" /\ busy /\ left' < left => held >= MS]_vars

(* A delay returns if, after its end, the tick count goes on long enough   *)
(* for a turn of the loop to see it before it wraps.  If it does not,      *)
(* start + n is a time the clock may never show, and the delay never ends. *)
EndIsSeen == Delaying /\ (delay.start + delay.len) * delay.unit + 4 * MaxLag <= Wrap
DelayEnds == EndIsSeen ~> ~Delaying

(* Control-C ends every delay, the endless one too, unless it comes while  *)
(* a poll is under way, whose end discards it: then the delay goes on and  *)
(* another control-C is needed.                                            *)
CtrlCEndsDelay == (Delaying /\ input = "ctrl-c" /\ pc # "reset") ~> ~Delaying

(* Printing ends although the host never takes a packet.                   *)
PrintEnds == (left > 0) ~> (left = 0)

=============================================================================
