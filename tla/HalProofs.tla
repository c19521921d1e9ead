------------------------------ MODULE HalProofs -------------------------------
(***************************************************************************)
(* Proofs about Hal for every clock, unit and bound its assumption allows. *)
(* Each history of the specification is bounded at every place of the      *)
(* interpreter: elapsed from below, because the clock cannot have gone     *)
(* further than it says (NotAhead); held, when a character is about to be  *)
(* dropped (HeldInv); age from above, by how long ago the gate was looked  *)
(* at or the last poll was (LatencyInv).                                   *)
(***************************************************************************)
EXTENDS Hal, ArithmeticLemmas

PlaceInv ==
    /\ pc = "test" => Delaying
    /\ pc \in {"try", "retry"} => left >= 1

(* The clock is not beyond the end of the tick in which the delay began by *)
(* more than has elapsed, and is behind if it wrapped.                     *)
NotAhead ==
    Delaying => \/ elapsed = MaxDelay * MS
                \/ systick < (delay.start + 1) * delay.unit + elapsed

HeldInv == pc = "retry" /\ busy => held = MS

CharTime == MS + 2 * MaxLag
Interval == MS + 5 * MaxLag + LongestPrint

(* Counts since the gate was left, or since the poll began, at most.       *)
SinceGate ==
    IF pc = "reset" THEN MaxLag
    ELSE IF pc = "run" THEN 2 * MaxLag
    ELSE IF pc = "test" THEN 3 * MaxLag
    ELSE IF pc = "try" THEN 3 * MaxLag + (MaxPrint - left) * CharTime
    ELSE IF pc = "retry" THEN 4 * MaxLag + MS + (MaxPrint - left) * CharTime
    ELSE IF pc = "gate" THEN 4 * MaxLag + LongestPrint
    ELSE 5 * MaxLag + LongestPrint

(* Counts since the beginning of the millisecond of the last poll.         *)
SincePoll == (systick - last_usb_poll * MS) % Wrap

(* After the first poll the clock cannot run once around between two, so   *)
(* SincePoll is what it says.  Input that waits came after the last poll,  *)
(* or, when that one raised an exception instead, after the one before.    *)
(* Before the first poll SincePoll says nothing and nothing is pending.    *)
LatencyInv ==
    \/ /\ SincePoll < MS + SinceGate
       /\ age <= Interval + SincePoll
       /\ kbd => age <= SincePoll
    \/ /\ ~kbd
       /\ age <= SinceGate

IInv == TypeOK /\ PlaceInv /\ NotAhead /\ HeldInv /\ LatencyInv

-----------------------------------------------------------------------------
(* Constants and ticks.                                                    *)

(* The constants as numbers, and that an interval between polls is no      *)
(* longer than a turn of the clock.                                        *)
LEMMA Constants ==
    /\ US \in Nat /\ MS \in Nat /\ Wrap \in Nat /\ MaxLag \in Nat
    /\ MaxDelay \in Nat /\ MaxPrint \in Nat
    /\ US > 0 /\ MS > US /\ MaxLag >= 1 /\ MaxLag <= MS /\ Wrap > 1
    /\ CharTime \in Nat /\ LongestPrint \in Nat /\ Interval \in Nat /\ Latency \in Nat
    /\ Latency = 2 * Interval /\ Interval = MS + 5 * MaxLag + LongestPrint /\ Interval <= Wrap
    /\ CharTime = MS + 2 * MaxLag /\ LongestPrint = MaxPrint * CharTime
    /\ MaxDelay * MS \in Nat
<1>1. /\ US \in Nat /\ MS \in Nat /\ Wrap \in Nat /\ MaxLag \in Nat
      /\ MaxDelay \in Nat /\ MaxPrint \in Nat
      /\ US > 0 /\ MS > US /\ MaxLag >= 1 /\ MaxLag <= MS /\ Wrap > 1
  BY ClockAssumption
<1>2. CharTime \in Nat /\ CharTime = MS + 2 * MaxLag
  BY <1>1 DEF CharTime
<1>3. \A m, n \in Nat : m * n \in Nat
  OBVIOUS
<1>4. LongestPrint = MaxPrint * CharTime /\ LongestPrint \in Nat /\ MaxDelay * MS \in Nat
  BY <1>1, <1>2, <1>3 DEF LongestPrint, CharTime
<1> QED
  BY <1>1, <1>2, <1>4, ClockAssumption DEF Interval, Latency

(* The ticks that the clock shows.                                         *)
LEMMA ClockTicks ==
    ASSUME TypeOK, NEW unit \in {US, MS}
    PROVE  /\ Ticks(unit) \in Nat /\ unit \in Nat /\ unit > 0 /\ unit <= MS
           /\ Ticks(unit) * unit <= systick
           /\ systick < Ticks(unit) * unit + unit
           /\ Ticks(unit) <= Wrap \div US
           /\ Ticks(MS) <= (Wrap - 1) \div MS
<1>1. systick \in Nat /\ systick <= Wrap - 1 /\ Wrap - 1 \in Nat
  BY Constants DEF TypeOK
<1>2. unit \in Nat /\ unit > 0 /\ unit <= MS /\ US <= unit
  BY Constants
<1>3. Ticks(unit) <= Wrap \div US
  BY <1>1, <1>2, QuotientGrows, Constants DEF Ticks
<1>4. Ticks(MS) <= (Wrap - 1) \div MS
  BY <1>1, QuotientGrows, Constants DEF Ticks
<1> QED
  BY <1>1, <1>2, <1>3, <1>4, Quotient DEF Ticks

(* Where the millisecond of the last poll began.                           *)
LastPoll == last_usb_poll * MS

(* The last poll and the clock are both positions of the counter.          *)
LEMMA LastPollIsATime ==
    ASSUME TypeOK
    PROVE  LastPoll \in Slots(Wrap) /\ systick \in Slots(Wrap)
<1> DEFINE q == (Wrap - 1) \div MS
<1>1. q \in Nat /\ q * MS <= Wrap - 1
  BY Quotient, Constants
<1>2. last_usb_poll \in Nat /\ last_usb_poll <= q
  BY <1>1 DEF TypeOK
<1> HIDE DEF q
<1>3. last_usb_poll * MS \in Nat /\ last_usb_poll * MS <= q * MS
  BY <1>1, <1>2, Product, Constants
<1> QED
  BY <1>1, <1>3, Constants DEF LastPoll, Slots, TypeOK

-----------------------------------------------------------------------------
(* A step of the interpreter takes a lag, and a millisecond if it waits.   *)

Lags == 1..MaxLag
Times == 1..(MS + MaxLag)

(* Durations of a step are positions of the counter too: none goes once    *)
(* around.                                                                 *)
LEMMA LagsAndTimes ==
    /\ \A d \in Lags : d \in Times /\ MS + d \in Times /\ d \in Nat /\ d >= 1 /\ d <= MaxLag
    /\ \A n \in Times : n \in Slots(Wrap) /\ n \in Nat /\ n >= 1
  BY Constants DEF Lags, Times, Slots

(* What a step of n counts does to the clock and to the three histories.   *)
LEMMA PassesShape ==
    ASSUME TypeOK, NEW n \in Times, Passes(n)
    PROVE  /\ systick' = Slot(Wrap, systick, n) /\ systick' \in 0..(Wrap - 1)
           /\ systick' <= systick + n
           /\ elapsed' \in 0..(MaxDelay * MS) /\ age' \in 0..(Latency + 1) /\ held' \in 0..MS
           /\ delay' # NoDelay => \/ elapsed' = MaxDelay * MS
                                  \/ elapsed' = elapsed + n
           /\ age' <= age + n
           /\ input' = "none" => age' = 0
           /\ busy' /\ n >= MS => held' = MS
<1>1. n \in Slots(Wrap) /\ n \in Nat /\ systick \in Slots(Wrap)
  BY LagsAndTimes, LastPollIsATime
<1>2. systick' = Slot(Wrap, systick, n) /\ systick' \in Slots(Wrap)
  BY <1>1, Remainders, Constants DEF Passes
<1>3. systick' <= systick + n
  BY <1>1, <1>2, Constants DEF Slot, Slots
<1>4. /\ elapsed \in Nat /\ elapsed <= MaxDelay * MS /\ MaxDelay * MS \in Nat
      /\ age \in Nat /\ age <= Latency + 1 /\ held \in Nat /\ held <= MS
  BY Constants DEF TypeOK
<1>5. /\ elapsed' \in 0..(MaxDelay * MS)
      /\ delay' # NoDelay => \/ elapsed' = MaxDelay * MS
                             \/ elapsed' = elapsed + n
  <2> DEFINE bound == MaxDelay * MS
  <2>1. bound \in Nat /\ elapsed <= bound
    BY <1>4
  <2>2. elapsed' = IF delay' = NoDelay THEN 0 ELSE AtMost(elapsed + n, bound)
    BY DEF Passes
  <2> HIDE DEF bound
  <2>3. elapsed' \in 0..bound /\ (delay' # NoDelay => elapsed' = bound \/ elapsed' = elapsed + n)
    BY <1>1, <1>4, <2>1, <2>2 DEF AtMost
  <2> QED
    BY <2>3 DEF bound
<1>6. age' \in 0..(Latency + 1) /\ age' <= age + n /\ (input' = "none" => age' = 0)
  BY <1>1, <1>4, Constants DEF Passes, AtMost
<1>7. held' \in 0..MS /\ (busy' /\ n >= MS => held' = MS)
  BY <1>1, <1>4, Constants DEF Passes, AtMost
<1> QED
  BY <1>2, <1>3, <1>5, <1>6, <1>7 DEF Slots
-----------------------------------------------------------------------------
(* Types and places.                                                       *)

(* A delay in progress has one of the two units, a start and a length.     *)
LEMMA DelayTypes ==
    ASSUME TypeOK
    PROVE  /\ delay = NoDelay => ~Delaying
           /\ Delaying => delay # NoDelay
           /\ Delaying => delay.unit \in {US, MS}
           /\ delay.start \in Nat /\ delay.len \in Nat /\ delay.len <= MaxDelay
           /\ NoDelay \in [unit : {0, US, MS}, start : 0..(Wrap \div US), len : 0..MaxDelay]
           /\ ~(NoDelay.unit # 0)
<1>1. Wrap \div US \in Nat
  BY Quotient, Constants
<1>2. delay \in [unit : {0, US, MS}, start : 0..(Wrap \div US), len : 0..MaxDelay]
  BY DEF TypeOK
<1>3. NoDelay \in [unit : {0, US, MS}, start : 0..(Wrap \div US), len : 0..MaxDelay]
  BY <1>1, Constants DEF NoDelay
<1>4. NoDelay.unit = 0
  BY DEF NoDelay
<1>5. delay.start \in Nat /\ delay.len \in Nat /\ delay.len <= MaxDelay
  BY <1>1, <1>2, Constants
<1>6. Delaying => delay.unit \in {US, MS}
  BY <1>2 DEF Delaying
<1> QED
  BY <1>3, <1>4, <1>5, <1>6 DEF Delaying

(* Types and places hold at the start.                                     *)
LEMMA TypeInit == Init => TypeOK /\ PlaceInv
<1>1. (Wrap - 1) \div MS \in Nat /\ Wrap \div US \in Nat
  BY Quotient, Constants
<1>2. /\ 0 \in 0..((Wrap - 1) \div MS) /\ 0 \in 0..MaxPrint
      /\ 0 \in 0..(MaxDelay * MS) /\ 0 \in 0..(Latency + 1) /\ 0 \in 0..MS
  BY <1>1, Constants
<1>3. NoDelay \in [unit : {0, US, MS}, start : 0..(Wrap \div US), len : 0..MaxDelay]
  BY <1>1, Constants DEF NoDelay
<1> QED
  BY <1>2, <1>3 DEF Init, TypeOK, PlaceInv

TypedNext == TypeOK' /\ PlaceInv'

(* Every action keeps the types and says the place it leads to.            *)
LEMMA TypeNext == TypeOK /\ PlaceInv /\ [Next]_vars => TypedNext
<1> SUFFICES ASSUME TypeOK, PlaceInv, [Next]_vars
             PROVE  TypedNext
  OBVIOUS
<1> DEFINE ClocksTyped == /\ systick' \in 0..(Wrap - 1) /\ elapsed' \in 0..(MaxDelay * MS)
                          /\ age' \in 0..(Latency + 1) /\ held' \in 0..MS
<1>p. \A n \in Times : Passes(n) => ClocksTyped
  BY PassesShape
<1>l. \A d \in Lags : d \in Times /\ MS + d \in Times
  BY LagsAndTimes
<1>a. AfterGate \in {"test", "run"} /\ (AfterGate = "test" => Delaying)
  BY DEF AfterGate
<1>t. /\ \A unit \in {US, MS} : Ticks(unit) \in 0..(Wrap \div US)
      /\ PollTime \in 0..((Wrap - 1) \div MS)
      /\ US # 0 /\ MS # 0
  <2>1. Wrap \div US \in Nat /\ (Wrap - 1) \div MS \in Nat
    BY Quotient, Constants
  <2>2. \A unit \in {US, MS} : Ticks(unit) \in Nat /\ Ticks(unit) <= Wrap \div US
    BY ClockTicks
  <2>3. PollTime \in Nat /\ PollTime <= (Wrap - 1) \div MS
    BY ClockTicks DEF PollTime
  <2> QED
    BY <2>1, <2>2, <2>3, Constants
<1>n. NoDelay \in [unit : {0, US, MS}, start : 0..(Wrap \div US), len : 0..MaxDelay]
  BY DelayTypes
<1> HIDE DEF ClocksTyped
<1> USE DEF TypedNext, TypeOK, PlaceInv
<1>1. ASSUME NEW d \in Lags, NEW unit \in {US, MS}, NEW n \in 0..MaxDelay, Delay(unit, n, d)
      PROVE  TypedNext
  <2>1. ClocksTyped
    BY <1>1, <1>p, <1>l DEF Delay
  <2>2. delay' \in [unit : {0, US, MS}, start : 0..(Wrap \div US), len : 0..MaxDelay] /\ Delaying'
    BY <1>1, <1>t DEF Delay, Delaying
  <2> QED
    BY <1>1, <2>1, <2>2 DEF Delay, ClocksTyped
<1>2. ASSUME NEW d \in Lags, NEW n \in 1..MaxPrint, TxStrn(n, d)
      PROVE  TypedNext
  <2>1. ClocksTyped
    BY <1>2, <1>p, <1>l DEF TxStrn
  <2> QED
    BY <1>2, <2>1, Constants DEF TxStrn, ClocksTyped
<1>3. ASSUME NEW d \in Lags, Opcode(d)
      PROVE  TypedNext
  <2>1. ClocksTyped
    BY <1>3, <1>p, <1>l DEF Opcode
  <2> QED
    BY <1>3, <2>1 DEF Opcode, ClocksTyped
<1>4. ASSUME NEW d \in Lags, Test(d)
      PROVE  TypedNext
  <2>1. ClocksTyped
    BY <1>4, <1>p, <1>l DEF Test
  <2> QED
    BY <1>4, <2>1, <1>n DEF Test, ClocksTyped
<1>5. ASSUME NEW d \in Lags, Gate(d)
      PROVE  TypedNext
  <2>1. ClocksTyped
    BY <1>5, <1>p, <1>l DEF Gate
  <2> QED
    BY <1>5, <2>1, <1>a DEF Gate, ClocksTyped, Delaying
<1>6. ASSUME NEW d \in Lags, Poll(d)
      PROVE  TypedNext
  <2>1. ClocksTyped
    BY <1>6, <1>p, <1>l DEF Poll
  <2> QED
    BY <1>6, <2>1, <1>a, <1>t DEF Poll, ClocksTyped, Delaying
<1>6b. ASSUME NEW d \in Lags, Reset(d)
       PROVE  TypedNext
  <2>1. ClocksTyped
    BY <1>6b, <1>p, <1>l DEF Reset
  <2> QED
    BY <1>6b, <2>1, <1>a DEF Reset, ClocksTyped, Delaying
<1>7. ASSUME NEW d \in Lags, Raise(d)
      PROVE  TypedNext
  <2>1. ClocksTyped
    BY <1>7, <1>p, <1>l DEF Raise
  <2> QED
    BY <1>7, <2>1, <1>n, <1>t DEF Raise, ClocksTyped
<1>8. ASSUME NEW d \in Lags, Try(d)
      PROVE  TypedNext
  <2>1. ClocksTyped
    BY <1>8, <1>p, <1>l DEF Try, BusyWait
  <2> QED
    BY <1>8, <2>1, Constants DEF Try, ClocksTyped, AfterChar
<1>9. ASSUME NEW d \in Lags, Retry(d)
      PROVE  TypedNext
  <2>1. ClocksTyped
    BY <1>9, <1>p, <1>l DEF Retry
  <2> QED
    BY <1>9, <2>1, Constants DEF Retry, ClocksTyped, AfterChar
<1>10. ASSUME NEW what \in {"key", "ctrl-c"}, HostSends(what)
       PROVE  TypedNext
  BY <1>10 DEF HostSends, clock, Delaying
<1>11. CASE HostTakes
  <2>1. 0 \in 0..MS
    BY Constants
  <2> QED
    BY <1>11, <2>1 DEF HostTakes, Delaying
<1>12. CASE UNCHANGED vars
  BY <1>12 DEF vars, clock, Delaying
<1> QED
  BY <1>1, <1>2, <1>3, <1>4, <1>5, <1>6, <1>6b, <1>7, <1>8, <1>9, <1>10, <1>11, <1>12
  DEF Next, Interpreter, Lags
-----------------------------------------------------------------------------
(* Delays.                                                                 *)

(* The clock does not overtake what has elapsed.                           *)
LEMMA AheadStep ==
    ASSUME TypeOK, NotAhead, NEW n \in Times, Passes(n), delay' = delay
    PROVE  NotAhead'
<1> SUFFICES ASSUME Delaying
             PROVE  \/ elapsed' = MaxDelay * MS
                    \/ systick' < (delay.start + 1) * delay.unit + elapsed'
  BY DEF NotAhead, Delaying
<1> DEFINE bound == MaxDelay * MS
           limit == (delay.start + 1) * delay.unit
<1>1. bound \in Nat /\ elapsed \in Nat /\ elapsed <= bound /\ systick \in Nat
  BY Constants DEF TypeOK
<1>2. limit \in Nat
  <2>1. \A i, j \in Nat : (i + 1) * j \in Nat
    OBVIOUS
  <2> QED
    BY <2>1, DelayTypes, Constants
<1>3. n \in Nat /\ n >= 1
  BY LagsAndTimes
<1>4. elapsed = bound \/ systick < limit + elapsed
  BY DEF NotAhead
<1>5. elapsed' = bound \/ elapsed' = elapsed + n
  BY PassesShape, DelayTypes
<1>6. systick' <= systick + n /\ systick' \in Nat /\ elapsed' \in Nat /\ elapsed' <= bound
  BY <1>1, PassesShape, Constants
<1> HIDE DEF bound, limit
<1>7. ASSUME elapsed' = elapsed + n
      PROVE  elapsed' = bound \/ systick' < limit + elapsed'
  <2>1. CASE elapsed = bound
    BY <1>1, <1>3, <1>6, <1>7, <2>1
  <2>2. CASE systick < limit + elapsed
    BY <1>1, <1>2, <1>3, <1>6, <1>7, <2>2
  <2> QED
    BY <1>4, <2>1, <2>2
<1> QED
  BY <1>5, <1>7 DEF bound, limit

(* A delay that begins is not ahead of its clock.                          *)
LEMMA AheadStart ==
    ASSUME TypeOK, NEW d \in Times, NEW unit \in {US, MS}, NEW n \in 0..MaxDelay, Delay(unit, n, d)
    PROVE  NotAhead'
<1> DEFINE bound == MaxDelay * MS
           q == Ticks(unit)
<1>1. elapsed \in Nat /\ d \in Nat /\ systick \in Nat
  BY LagsAndTimes, Constants DEF TypeOK
<1>2. /\ q \in Nat /\ q * unit + unit = (q + 1) * unit /\ (q + 1) * unit \in Nat
      /\ systick < q * unit + unit /\ unit # 0
  <2>1. \A i, j \in Nat : i * j + j = (i + 1) * j /\ (i + 1) * j \in Nat
    OBVIOUS
  <2> QED
    BY <2>1, ClockTicks
<1>3. delay' # NoDelay /\ delay'.start = q /\ delay'.unit = unit
  BY <1>2 DEF Delay, NoDelay
<1>4. elapsed' = bound \/ elapsed' = elapsed + d
  BY <1>3, PassesShape DEF Delay
<1>5. systick' <= systick + d /\ systick' \in Nat
  BY PassesShape, Constants DEF Delay
<1> HIDE DEF bound, q
<1>6. elapsed' = bound \/ systick' < (q + 1) * unit + elapsed'
  BY <1>1, <1>2, <1>4, <1>5
<1> QED
  BY <1>3, <1>6 DEF bound, NotAhead

(* Every action keeps the clock of a delay within what has elapsed.        *)
LEMMA AheadNext == TypeOK /\ NotAhead /\ [Next]_vars => NotAhead'
<1> SUFFICES ASSUME TypeOK, NotAhead, [Next]_vars
             PROVE  NotAhead'
  OBVIOUS
<1>l. \A d \in Lags : d \in Times /\ MS + d \in Times
  BY LagsAndTimes
<1>s. \A n \in Times : Passes(n) /\ delay' = delay => NotAhead'
  BY AheadStep
<1>n. delay' = NoDelay => NotAhead'
  BY DelayTypes DEF NotAhead, Delaying, NoDelay
<1>1. ASSUME NEW d \in Lags, NEW unit \in {US, MS}, NEW n \in 0..MaxDelay, Delay(unit, n, d)
      PROVE  NotAhead'
  BY <1>1, <1>l, AheadStart
<1>2. ASSUME NEW d \in Lags, NEW n \in 1..MaxPrint, TxStrn(n, d)
      PROVE  NotAhead'
  BY <1>2, <1>l, <1>s DEF TxStrn
<1>3. ASSUME NEW d \in Lags, Opcode(d) \/ Test(d) \/ Gate(d) \/ Poll(d) \/ Reset(d) \/ Raise(d)
      PROVE  NotAhead'
  BY <1>3, <1>l, <1>s, <1>n DEF Opcode, Test, Gate, Poll, Reset, Raise
<1>4. ASSUME NEW d \in Lags, Try(d) \/ Retry(d)
      PROVE  NotAhead'
  BY <1>4, <1>l, <1>s DEF Try, Retry, BusyWait
<1>5. ASSUME NEW what \in {"key", "ctrl-c"}, HostSends(what)
      PROVE  NotAhead'
  BY <1>5 DEF HostSends, clock, NotAhead, Delaying
<1>6. CASE HostTakes
  BY <1>6 DEF HostTakes, NotAhead, Delaying
<1>7. CASE UNCHANGED vars
  BY <1>7 DEF vars, clock, NotAhead, Delaying
<1> QED
  BY <1>1, <1>2, <1>3, <1>4, <1>5, <1>6, <1>7 DEF Next, Interpreter, Lags

(* When the loop ends, the clock is past start + len, so that len - 1      *)
(* whole ticks lie behind the end of the one in which the delay began.     *)
LEMMA LongEnough ==
    ASSUME TypeOK, NotAhead, Delaying, TimeUp
    PROVE  elapsed > (delay.len - 1) * delay.unit
<1> DEFINE u == delay.unit
           s == delay.start
           n == delay.len
           q == Ticks(u)
           bound == MaxDelay * MS
<1>1. u \in {US, MS} /\ s \in Nat /\ n \in Nat /\ n <= MaxDelay /\ s <= Wrap \div US
  <2>1. Wrap \div US \in Nat
    BY Quotient, Constants
  <2> QED
    BY <2>1, DelayTypes DEF TypeOK
<1>2. q \in Nat /\ u \in Nat /\ u > 0 /\ u <= MS /\ q * u <= systick
  BY <1>1, ClockTicks
<1>3. q >= s + n
  <2>1. Wrap \div US \in Nat /\ s + n < Wrap
    BY <1>1, Quotient, Constants, ClockAssumption
  <2>2. \A i, w \in Nat : i < w => i % w = i
    OBVIOUS
  <2>3. s + n \in Nat /\ Wrap \in Nat
    BY <1>1, Constants
  <2>4. (s + n) % Wrap = s + n
    BY <2>1, <2>2, <2>3
  <2> QED
    BY <2>4 DEF TimeUp
<1>4. elapsed = bound \/ systick < (s + 1) * u + elapsed
  BY DEF NotAhead
<1>5. elapsed \in Nat /\ systick \in Nat /\ bound \in Nat
  BY Constants DEF TypeOK
<1>6. n * u <= bound
  <2>1. n * u <= n * MS
    BY <1>1, <1>2, Constants
  <2>2. n * MS <= MaxDelay * MS
    BY <1>1, Product, Constants
  <2> QED
    BY <1>1, <1>2, <2>1, <2>2, Constants
<1> HIDE DEF u, s, n, q, bound
<1>7. /\ (s + n) * u <= q * u /\ (s + n) * u = s * u + n * u /\ (s + 1) * u = s * u + u
      /\ (n - 1) * u = n * u - u /\ s * u \in Nat /\ n * u \in Nat /\ q * u \in Nat
  BY <1>1, <1>2, <1>3, Product
<1>8. elapsed > (n - 1) * u
  BY <1>2, <1>4, <1>5, <1>6, <1>7
<1> QED
  BY <1>8 DEF n, u

-----------------------------------------------------------------------------
(* Output.                                                                 *)

(* A retry comes a millisecond after the try that found the endpoint busy. *)
LEMMA HeldNext == TypeOK /\ HeldInv /\ [Next]_vars => HeldInv'
<1> SUFFICES ASSUME TypeOK, HeldInv, [Next]_vars
             PROVE  HeldInv'
  OBVIOUS
<1>1. ASSUME NEW d \in Lags, Try(d)
      PROVE  HeldInv'
  <2>1. CASE busy
    <3>1. MS + d \in Times /\ MS + d >= MS
      BY LagsAndTimes, Constants
    <3> QED
      BY <1>1, <2>1, <3>1, PassesShape DEF Try, BusyWait, HeldInv
  <2>2. CASE ~busy
    BY <1>1, <2>2 DEF Try, HeldInv, AfterChar
  <2> QED
    BY <2>1, <2>2
<1>2. ASSUME NEW d \in Lags, Retry(d)
      PROVE  HeldInv'
  BY <1>2 DEF Retry, HeldInv, AfterChar
<1>3. ASSUME NEW d \in Lags,
             \/ \E unit \in {US, MS}, n \in 0..MaxDelay : Delay(unit, n, d)
             \/ \E n \in 1..MaxPrint : TxStrn(n, d)
             \/ Opcode(d) \/ Test(d) \/ Gate(d) \/ Poll(d) \/ Reset(d) \/ Raise(d)
      PROVE  HeldInv'
  BY <1>3 DEF Delay, TxStrn, Opcode, Test, Gate, Poll, Reset, Raise, HeldInv, AfterGate
<1>4. ASSUME NEW what \in {"key", "ctrl-c"}, HostSends(what)
      PROVE  HeldInv'
  BY <1>4 DEF HostSends, clock, HeldInv
<1>5. CASE HostTakes
  BY <1>5 DEF HostTakes, HeldInv
<1>6. CASE UNCHANGED vars
  BY <1>6 DEF vars, clock, HeldInv
<1> QED
  BY <1>1, <1>2, <1>3, <1>4, <1>5, <1>6 DEF Next, Interpreter, Lags
-----------------------------------------------------------------------------
(* Input.                                                                  *)

(* The characters printed and the one being printed, in counts.            *)
Printed == (MaxPrint - left) * CharTime

PrintFacts ==
    /\ Printed \in Nat /\ Printed <= LongestPrint
    /\ left >= 1 => Printed + CharTime <= LongestPrint
    /\ (MaxPrint - (left - 1)) * CharTime = Printed + CharTime

(* What has been printed adds up, and one more character adds its time.    *)
LEMMA PrintTimes == TypeOK => PrintFacts
<1> SUFFICES ASSUME TypeOK
             PROVE  PrintFacts
  OBVIOUS
<1> DEFINE c == CharTime
           n == MaxPrint - left
<1>1. c \in Nat /\ n \in Nat /\ n <= MaxPrint /\ MaxPrint \in Nat /\ MaxPrint - (left - 1) = n + 1
  BY Constants DEF TypeOK
<1>2. left >= 1 => n + 1 <= MaxPrint
  BY <1>1, Constants DEF TypeOK
<1>3. Printed = n * c /\ LongestPrint = MaxPrint * c
  BY Constants DEF Printed
<1> HIDE DEF c, n
<1>4. n * c \in Nat /\ n * c <= MaxPrint * c /\ (n + 1) * c = n * c + c
  BY <1>1, Product
<1>5. left >= 1 => (n + 1) * c <= MaxPrint * c
  BY <1>1, <1>2, Product
<1>6. (MaxPrint - (left - 1)) * c = (n + 1) * c
  BY <1>1
<1>7. (MaxPrint - (left - 1)) * c = Printed + c
  BY <1>3, <1>4, <1>6
<1>8. Printed \in Nat /\ Printed <= LongestPrint /\ (left >= 1 => Printed + c <= LongestPrint)
  BY <1>1, <1>3, <1>4, <1>5
<1> QED
  BY <1>7, <1>8 DEF c, PrintFacts

GateFacts ==
    /\ SinceGate \in Nat /\ SinceGate >= MaxLag /\ SinceGate <= 5 * MaxLag + LongestPrint
    /\ pc = "reset" => SinceGate = MaxLag
    /\ pc = "run" => SinceGate = 2 * MaxLag
    /\ pc = "test" => SinceGate = 3 * MaxLag
    /\ pc = "try" => SinceGate = 3 * MaxLag + Printed
    /\ pc = "retry" => SinceGate = 4 * MaxLag + MS + Printed
    /\ pc = "gate" => SinceGate = 4 * MaxLag + LongestPrint
    /\ pc = "poll" => SinceGate = 5 * MaxLag + LongestPrint

(* SinceGate at each place of the loop, and its largest value.             *)
LEMMA GateTimes == TypeOK /\ PlaceInv => GateFacts
<1> SUFFICES ASSUME TypeOK, PlaceInv
             PROVE  GateFacts
  OBVIOUS
<1>1. /\ pc = "reset" => SinceGate = MaxLag
      /\ pc = "run" => SinceGate = 2 * MaxLag
      /\ pc = "test" => SinceGate = 3 * MaxLag
      /\ pc = "try" => SinceGate = 3 * MaxLag + Printed
      /\ pc = "retry" => SinceGate = 4 * MaxLag + MS + Printed
      /\ pc = "gate" => SinceGate = 4 * MaxLag + LongestPrint
      /\ pc = "poll" => SinceGate = 5 * MaxLag + LongestPrint
  BY DEF SinceGate, Printed
<1>2. pc \in {"run", "test", "gate", "poll", "reset", "try", "retry"}
  BY DEF TypeOK
<1>3. pc \in {"try", "retry"} => Printed + CharTime <= LongestPrint
  BY PrintTimes DEF PlaceInv, PrintFacts
<1>4. Printed \in Nat
  BY PrintTimes DEF PrintFacts
<1> QED
  BY <1>1, <1>2, <1>3, <1>4, Constants DEF GateFacts

PollFacts ==
    /\ SincePoll = Dist(Wrap, systick, LastPoll) /\ SincePoll \in Nat /\ SincePoll < Wrap
    /\ LastPoll \in Slots(Wrap) /\ systick \in Slots(Wrap)

(* SincePoll is a distance on the circle that the counter is.              *)
LEMMA PollDistance == TypeOK => PollFacts
  BY LastPollIsATime, Remainders, Constants DEF PollFacts, SincePoll, LastPoll, Slots

(* The same of the next state.                                             *)
LEMMA NextFacts ==
    /\ TypeOK' => PollFacts' /\ PrintFacts'
    /\ TypeOK' /\ PlaceInv' => GateFacts'
  BY PollDistance, PrintTimes, GateTimes, PTL

(* Unless it polls or finds the gate shut, a step only lets time pass.     *)
LEMMA Later ==
    ASSUME TypeOK, PlaceInv, LatencyInv, TypeOK', PlaceInv',
           NEW n \in Times, Passes(n),
           last_usb_poll' = last_usb_poll, kbd' = kbd, SinceGate' >= SinceGate + n
    PROVE  LatencyInv'
<1>1. /\ n \in Nat /\ n \in Slots(Wrap) /\ age \in Nat /\ age' \in Nat /\ age' <= age + n
  BY LagsAndTimes, PassesShape, Constants DEF TypeOK
<1>2. /\ SinceGate \in Nat /\ SinceGate' \in Nat /\ MS + SinceGate' <= Interval
      /\ Interval \in Nat /\ MS \in Nat /\ Interval <= Wrap /\ Wrap \in Nat /\ Wrap > 1
      /\ SincePoll \in Nat
  BY GateTimes, NextFacts, PollDistance, Constants DEF GateFacts, PollFacts
<1>3. CASE SincePoll < MS + SinceGate /\ age <= Interval + SincePoll /\ (kbd => age <= SincePoll)
  <2>1. SincePoll + n < Wrap
    <3>1. SincePoll < MS + SinceGate
      BY <1>3
    <3>2. \A x, y, z \in Nat :
            x < MS + y /\ z >= y + n /\ MS + z <= Interval => x + n < Wrap
      BY <1>1, <1>2
    <3> QED
      BY <1>2, <3>1, <3>2
  <2>2. SincePoll' = SincePoll + n
    <3>1. LastPoll' = LastPoll /\ systick' = Slot(Wrap, systick, n)
      BY PassesShape DEF LastPoll
    <3>2. SincePoll' = Dist(Wrap, Slot(Wrap, systick, n), LastPoll)
      BY <3>1, NextFacts DEF GateFacts, PrintFacts, PollFacts
    <3>3. SincePoll = Dist(Wrap, systick, LastPoll)
      BY PollDistance DEF PollFacts
    <3>4. systick \in Slots(Wrap) /\ LastPoll \in Slots(Wrap)
      BY PollDistance DEF PollFacts
    <3>5. Dist(Wrap, systick, LastPoll) + n < Wrap
      BY <2>1, <3>3
    <3>6. Dist(Wrap, Slot(Wrap, systick, n), LastPoll) = Dist(Wrap, systick, LastPoll) + n
      BY <1>1, <1>2, <3>4, <3>5, HeadMoves
    <3> QED
      BY <3>2, <3>3, <3>6
  <2>3. SincePoll' < MS + SinceGate'
    <3>1. SincePoll < MS + SinceGate
      BY <1>3
    <3>2. \A x, y, z \in Nat : x < MS + y /\ z >= y + n => x + n < MS + z
      BY <1>1, <1>2
    <3> QED
      BY <1>2, <2>2, <3>1, <3>2
  <2>4. age' <= Interval + SincePoll'
    <3>1. age <= Interval + SincePoll
      BY <1>3
    <3>2. \A x \in Nat : age <= Interval + x => age' <= Interval + (x + n)
      BY <1>1, <1>2
    <3> QED
      BY <1>2, <2>2, <3>1, <3>2
  <2>5. age <= SincePoll => age' <= SincePoll'
    BY <1>1, <1>2, <2>2
  <2>6. kbd' => age' <= SincePoll'
    BY <1>3, <2>5
  <2> QED
    BY <2>3, <2>4, <2>6 DEF LatencyInv
<1>4. CASE ~kbd /\ age <= SinceGate
  <2>1. age <= SinceGate => age' <= SinceGate'
    BY <1>1, <1>2
  <2> QED
    BY <1>4, <2>1 DEF LatencyInv
<1> QED
  BY <1>3, <1>4 DEF LatencyInv

(* A poll, and a gate that is shut, know the millisecond that it is.       *)
LEMMA NewMillisecond ==
    ASSUME TypeOK, TypeOK', NEW d \in Lags, Passes(d), last_usb_poll' = Ticks(MS)
    PROVE  /\ SincePoll' \in Nat /\ SincePoll' >= d /\ SincePoll' < MS + d
           /\ last_usb_poll = Ticks(MS) => SincePoll' = SincePoll + d /\ SincePoll < MS
<1> DEFINE p == Ticks(MS) * MS
           e == systick - p
<1>1. p \in Nat /\ e \in Nat /\ e < MS /\ systick = p + e
  BY ClockTicks, Constants DEF TypeOK
<1>2. d \in Times /\ d \in Nat /\ d \in Slots(Wrap) /\ d <= MaxLag
  BY LagsAndTimes
<1>3. LastPoll' = p /\ systick' = Slot(Wrap, systick, d)
  BY <1>2, PassesShape DEF LastPoll
<1>4. p \in Slots(Wrap) /\ systick \in Slots(Wrap) /\ systick' \in Slots(Wrap)
  BY <1>3, LastPollIsATime, NextFacts DEF GateFacts, PrintFacts, PollFacts
<1>5. Dist(Wrap, systick, p) = e
  BY <1>1 DEF Dist
<1>6. e + d < Wrap
  BY <1>1, <1>2, Constants
<1>7. SincePoll' = Dist(Wrap, Slot(Wrap, systick, d), p)
  BY <1>3, NextFacts DEF GateFacts, PrintFacts, PollFacts
<1> HIDE DEF p, e
<1>8. SincePoll' = e + d
  BY <1>2, <1>4, <1>5, <1>6, <1>7, HeadMoves, Constants
<1>9. last_usb_poll = Ticks(MS) => SincePoll = e
  BY <1>5, PollDistance DEF LastPoll, p, PollFacts
<1> QED
  BY <1>1, <1>2, <1>8, <1>9, Constants

(* A gate that stays shut was polled less than a millisecond ago.          *)
LEMMA LatencyShut ==
    ASSUME TypeOK, PlaceInv, LatencyInv, TypeOK', PlaceInv', NEW d \in Lags, Gate(d), ~GateOpen
    PROVE  LatencyInv'
<1>1. last_usb_poll' = Ticks(MS) /\ last_usb_poll = Ticks(MS) /\ kbd' = kbd /\ Passes(d) /\ pc = "gate"
  BY DEF Gate, GateOpen
<1>2. /\ SincePoll' \in Nat /\ SincePoll' < MS + d /\ SincePoll' = SincePoll + d
      /\ SincePoll \in Nat
  BY <1>1, NewMillisecond, PollDistance DEF PollFacts
<1>3. /\ d \in Nat /\ d <= MaxLag /\ age \in Nat /\ age' \in Nat /\ age' <= age + d
  BY <1>1, LagsAndTimes, PassesShape, Constants DEF TypeOK
<1>4. SinceGate' \in Nat /\ SinceGate' >= MaxLag
  BY NextFacts DEF GateFacts, PrintFacts, PollFacts
<1>5. SinceGate <= Interval /\ Interval \in Nat /\ SinceGate \in Nat
  BY <1>1, GateTimes, Constants DEF GateFacts
<1>6. SincePoll' < MS + SinceGate'
  <2>1. \A x, y \in Nat : x < MS + d /\ y >= MaxLag => x < MS + y
    BY <1>3, Constants
  <2> QED
    BY <1>2, <1>4, <2>1
<1>7. age' <= Interval + SincePoll' /\ (kbd' => age' <= SincePoll')
  <2>1. age <= Interval + SincePoll => age' <= Interval + SincePoll'
    BY <1>2, <1>3, <1>5
  <2>2. age <= SinceGate => age' <= Interval + SincePoll'
    BY <1>2, <1>3, <1>5
  <2>3. age <= SincePoll => age' <= SincePoll'
    BY <1>2, <1>3
  <2> QED
    BY <1>1, <2>1, <2>2, <2>3 DEF LatencyInv
<1> QED
  BY <1>6, <1>7 DEF LatencyInv

(* A poll, or the exception raised in its place, starts the interval anew. *)
LEMMA LatencyPoll ==
    ASSUME TypeOK, PlaceInv, LatencyInv, TypeOK', PlaceInv', NEW d \in Lags, Poll(d) \/ Raise(d)
    PROVE  LatencyInv'
<1>1. last_usb_poll' = Ticks(MS) /\ Passes(d) /\ pc = "poll"
  BY DEF Poll, Raise, PollTime
<1>2. SincePoll' \in Nat /\ SincePoll' >= d /\ SincePoll' < MS + d
  BY <1>1, NewMillisecond
<1>3. /\ d \in Nat /\ d <= MaxLag /\ d \in Times
      /\ age \in Nat /\ age' \in Nat /\ age' <= age + d
  BY <1>1, LagsAndTimes, PassesShape, Constants DEF TypeOK
<1>4. SinceGate' \in Nat /\ SinceGate' >= MaxLag
  BY NextFacts DEF GateFacts, PrintFacts, PollFacts
<1>5. SincePoll' < MS + SinceGate'
  <2>1. \A x, y \in Nat : x < MS + d /\ y >= MaxLag => x < MS + y
    BY <1>3, Constants
  <2> QED
    BY <1>2, <1>4, <2>1
<1>6. CASE Poll(d)
  <2>1. age' = 0
    BY <1>1, <1>3, <1>6, PassesShape DEF Poll
  <2>2. \A x \in Nat : age' <= x /\ age' <= Interval + x
    BY <2>1, Constants
  <2>3. age' <= SincePoll' /\ age' <= Interval + SincePoll'
    BY <1>2, <2>2
  <2> QED
    BY <1>5, <2>3 DEF LatencyInv
<1>7. CASE Raise(d)
  <2>1. kbd /\ ~kbd'
    BY <1>7 DEF Raise
  <2>2. age <= SincePoll /\ SincePoll < MS + SinceGate
    BY <2>1 DEF LatencyInv
  <2>3. SinceGate \in Nat /\ MS \in Nat /\ MS + SinceGate = Interval
    BY <1>1, GateTimes, Constants DEF GateFacts
  <2>4. SincePoll \in Nat /\ Interval \in Nat
    BY PollDistance, Constants DEF PollFacts
  <2>5. \A x, y \in Nat : age <= x /\ x < Interval /\ y >= d => age' <= Interval + y
    BY <1>3, <2>4
  <2>6. age' <= Interval + SincePoll'
    BY <1>2, <2>2, <2>3, <2>4, <2>5
  <2> QED
    BY <1>5, <2>1, <2>6 DEF LatencyInv
<1> QED
  BY <1>6, <1>7

(* Every action keeps the bounds on the age of the input.                  *)
LEMMA LatencyNext ==
    TypeOK /\ PlaceInv /\ LatencyInv /\ [Next]_vars /\ TypeOK' /\ PlaceInv' => LatencyInv'
<1> SUFFICES ASSUME TypeOK, PlaceInv, LatencyInv, [Next]_vars, TypeOK', PlaceInv'
             PROVE  LatencyInv'
  OBVIOUS
<1>c. MS \in Nat /\ MaxLag \in Nat /\ CharTime = MS + 2 * MaxLag /\ LongestPrint \in Nat
  BY Constants
<1>l. \A d \in Lags : d \in Times /\ MS + d \in Times /\ d \in Nat /\ d <= MaxLag
  BY LagsAndTimes
<1>s. ASSUME NEW n \in Times, Passes(n), last_usb_poll' = last_usb_poll, kbd' = kbd,
             SinceGate' >= SinceGate + n
      PROVE  LatencyInv'
  BY <1>s, Later
<1>1. ASSUME NEW d \in Lags, NEW unit \in {US, MS}, NEW n \in 0..MaxDelay, Delay(unit, n, d)
      PROVE  LatencyInv'
  <2>1. pc = "run" /\ pc' = "test"
    BY <1>1 DEF Delay
  <2>2. SinceGate = 2 * MaxLag /\ SinceGate' = 3 * MaxLag
    BY <2>1, GateTimes, NextFacts DEF GateFacts, PrintFacts, PollFacts
  <2> QED
    BY <1>1, <1>c, <1>l, <1>s, <2>2 DEF Delay
<1>2. ASSUME NEW d \in Lags, NEW n \in 1..MaxPrint, TxStrn(n, d)
      PROVE  LatencyInv'
  <2>1. pc = "run" /\ pc' = "try"
    BY <1>2 DEF TxStrn
  <2>2. SinceGate = 2 * MaxLag /\ SinceGate' = 3 * MaxLag + Printed' /\ Printed' \in Nat
    BY <2>1, GateTimes, NextFacts DEF GateFacts, PrintFacts, PollFacts
  <2> QED
    BY <1>2, <1>c, <1>l, <1>s, <2>2 DEF TxStrn
<1>3. ASSUME NEW d \in Lags, Opcode(d)
      PROVE  LatencyInv'
  <2>1. pc = "run" /\ pc' = "gate"
    BY <1>3 DEF Opcode
  <2>2. SinceGate = 2 * MaxLag /\ SinceGate' = 4 * MaxLag + LongestPrint
    BY <2>1, GateTimes, NextFacts DEF GateFacts, PrintFacts, PollFacts
  <2> QED
    BY <1>3, <1>c, <1>l, <1>s, <2>2 DEF Opcode
<1>4. ASSUME NEW d \in Lags, Test(d)
      PROVE  LatencyInv'
  <2>1. pc = "test" /\ pc' = "gate"
    BY <1>4 DEF Test
  <2>2. SinceGate = 3 * MaxLag /\ SinceGate' = 4 * MaxLag + LongestPrint
    BY <2>1, GateTimes, NextFacts DEF GateFacts, PrintFacts, PollFacts
  <2> QED
    BY <1>4, <1>c, <1>l, <1>s, <2>2 DEF Test
<1>5. ASSUME NEW d \in Lags, Gate(d)
      PROVE  LatencyInv'
  <2>1. CASE GateOpen
    <3>1. pc = "gate" /\ pc' = "poll"
      BY <1>5, <2>1 DEF Gate
    <3>2. SinceGate = 4 * MaxLag + LongestPrint /\ SinceGate' = 5 * MaxLag + LongestPrint
      BY <3>1, GateTimes, NextFacts DEF GateFacts, PrintFacts, PollFacts
    <3> QED
      BY <1>5, <1>c, <1>l, <1>s, <3>2 DEF Gate
  <2>2. CASE ~GateOpen
    BY <1>5, <2>2, LatencyShut
  <2> QED
    BY <2>1, <2>2
<1>6. ASSUME NEW d \in Lags, Poll(d) \/ Raise(d)
      PROVE  LatencyInv'
  BY <1>6, LatencyPoll
<1>6b. ASSUME NEW d \in Lags, Reset(d)
       PROVE  LatencyInv'
  <2>1. pc = "reset" /\ pc' \in {"run", "test"}
    BY <1>6b DEF Reset, AfterGate
  <2>2. SinceGate = MaxLag /\ SinceGate' \in Nat /\ SinceGate' >= 2 * MaxLag
    BY <2>1, <1>c, GateTimes, NextFacts DEF GateFacts, PrintFacts, PollFacts
  <2> QED
    BY <1>6b, <1>c, <1>l, <1>s, <2>2 DEF Reset
<1>p. /\ Printed \in Nat /\ (left >= 1 => Printed + CharTime <= LongestPrint)
      /\ (left' = left - 1 => Printed' = Printed + CharTime)
      /\ (left' = left => Printed' = Printed)
      /\ (left = 1 => Printed + CharTime = LongestPrint)
  <2>1. left' = left - 1 => Printed' = Printed + CharTime
    BY PrintTimes DEF Printed, PrintFacts
  <2>2. left = 1 => Printed + CharTime = LongestPrint
    <3>1. left = 1 => (MaxPrint - (left - 1)) * CharTime = MaxPrint * CharTime
      BY Constants
    <3> QED
      BY <3>1, PrintTimes, Constants DEF PrintFacts
  <2> QED
    BY <2>1, <2>2, PrintTimes DEF Printed, PrintFacts
<1>7. ASSUME NEW d \in Lags, Try(d)
      PROVE  LatencyInv'
  <2>1. pc = "try" /\ SinceGate = 3 * MaxLag + Printed
    BY <1>7, GateTimes DEF Try, GateFacts
  <2>2. CASE busy
    <3>1. pc' = "retry" /\ left' = left
      BY <1>7, <2>2 DEF Try
    <3>2. SinceGate' = 4 * MaxLag + MS + Printed
      BY <1>p, <3>1, NextFacts DEF GateFacts, PrintFacts, PollFacts
    <3>3. SinceGate' >= SinceGate + (MS + d)
      BY <1>c, <1>l, <1>p, <2>1, <3>2
    <3> QED
      BY <1>7, <1>l, <1>s, <2>2, <3>3 DEF Try, BusyWait
  <2>3. CASE ~busy /\ left = 1
    <3>1. pc' = "gate" /\ Passes(d)
      BY <1>7, <2>3 DEF Try, AfterChar
    <3>2. SinceGate' = 4 * MaxLag + LongestPrint
      BY <3>1, NextFacts DEF GateFacts, PrintFacts, PollFacts
    <3>3. SinceGate' >= SinceGate + d
      BY <1>c, <1>l, <1>p, <2>1, <2>3, <3>2
    <3> QED
      BY <1>7, <1>l, <1>s, <3>1, <3>3 DEF Try
  <2>4. CASE ~busy /\ left # 1
    <3>1. pc' = "try" /\ left' = left - 1 /\ Passes(d)
      BY <1>7, <2>4 DEF Try, AfterChar
    <3>2. SinceGate' = 3 * MaxLag + (Printed + CharTime)
      BY <1>p, <3>1, NextFacts DEF GateFacts, PrintFacts, PollFacts
    <3>3. SinceGate' >= SinceGate + d
      BY <1>c, <1>l, <1>p, <2>1, <3>2
    <3> QED
      BY <1>7, <1>l, <1>s, <3>1, <3>3 DEF Try
  <2> QED
    BY <2>2, <2>3, <2>4
<1>8. ASSUME NEW d \in Lags, Retry(d)
      PROVE  LatencyInv'
  <2>1. pc = "retry" /\ SinceGate = 4 * MaxLag + MS + Printed /\ left' = left - 1 /\ Passes(d)
    BY <1>8, GateTimes DEF Retry, GateFacts
  <2>2. CASE left = 1
    <3>1. SinceGate' = 4 * MaxLag + LongestPrint
      BY <1>8, <2>2, NextFacts DEF Retry, AfterChar, GateFacts, PrintFacts, PollFacts
    <3>2. SinceGate' >= SinceGate + d
      BY <1>c, <1>l, <1>p, <2>1, <2>2, <3>1
    <3> QED
      BY <1>8, <1>l, <1>s, <2>1, <3>2 DEF Retry
  <2>3. CASE left # 1
    <3>1. SinceGate' = 3 * MaxLag + (Printed + CharTime)
      BY <1>8, <1>p, <2>1, <2>3, NextFacts DEF Retry, AfterChar, GateFacts, PrintFacts, PollFacts
    <3>2. SinceGate' >= SinceGate + d
      BY <1>c, <1>l, <1>p, <2>1, <3>1
    <3> QED
      BY <1>8, <1>l, <1>s, <2>1, <3>2 DEF Retry
  <2> QED
    BY <2>2, <2>3
<1>9. ASSUME NEW what \in {"key", "ctrl-c"}, HostSends(what)
      PROVE  LatencyInv'
  BY <1>9 DEF HostSends, clock, LatencyInv, SincePoll, SinceGate
<1>10. CASE HostTakes
  BY <1>10 DEF HostTakes, LatencyInv, SincePoll, SinceGate
<1>11. CASE UNCHANGED vars
  BY <1>11 DEF vars, clock, LatencyInv, SincePoll, SinceGate
<1> QED
  BY <1>1, <1>2, <1>3, <1>4, <1>5, <1>6, <1>6b, <1>7, <1>8, <1>9, <1>10, <1>11
  DEF Next, Interpreter, Lags

-----------------------------------------------------------------------------
(* The inductive invariant.                                                *)

(* The bounds on each history, with the types, hold in every behaviour.    *)
THEOREM Inductive == Spec => []IInv
<1>1. Init => IInv
  <2>1. Init => NotAhead /\ HeldInv
    BY DEF Init, NotAhead, HeldInv, Delaying, NoDelay
  <2>2. Init => LatencyInv
    <3> SUFFICES ASSUME Init
                 PROVE  ~kbd /\ age <= SinceGate
      BY DEF LatencyInv
    <3>1. SinceGate = 2 * MaxLag /\ age = 0 /\ kbd = FALSE
      BY DEF Init, SinceGate
    <3> QED
      BY <3>1, Constants
  <2> QED
    BY <2>1, <2>2, TypeInit DEF IInv
<1>2. IInv /\ [Next]_vars => IInv'
  BY TypeNext, AheadNext, HeldNext, LatencyNext DEF IInv, TypedNext
<1> QED
  BY <1>1, <1>2, PTL DEF Spec

(* Every time stays in its range: a tick count is one the unit can show,   *)
(* and what the gate of mp_hal_background_processing remembers is a time   *)
(* in milliseconds.                                                        *)
THEOREM TypeCorrect == Spec => []TypeOK
<1>1. IInv => TypeOK
  BY DEF IInv
<1> QED
  BY <1>1, Inductive, PTL

(* mp_hal_delay_us and mp_hal_delay_ms do not return early: for every unit *)
(* and length, and although the tick count wraps with the counter divided  *)
(* by the unit and not with a word, n - 1 whole ticks have passed.         *)
THEOREM DelaysAreLongEnough == Spec => NeverShort
<1>1. IInv /\ [Next]_vars => [pc = "test" /\ ~Delaying' => elapsed > (delay.len - 1) * delay.unit]_vars
  <2> SUFFICES ASSUME IInv, Next, pc = "test", ~Delaying'
               PROVE  elapsed > (delay.len - 1) * delay.unit
    OBVIOUS
  <2>1. TypeOK /\ NotAhead /\ Delaying
    BY DEF IInv, PlaceInv
  <2>2. ASSUME NEW d \in Lags, Test(d)
        PROVE  elapsed > (delay.len - 1) * delay.unit
    <3>1. TimeUp
      BY <2>1, <2>2 DEF Test, Delaying
    <3> QED
      BY <2>1, <3>1, LongEnough
  <2>3. ASSUME NEW d \in Lags,
               \/ \E unit \in {US, MS}, n \in 0..MaxDelay : Delay(unit, n, d)
               \/ \E n \in 1..MaxPrint : TxStrn(n, d)
               \/ Opcode(d) \/ Gate(d) \/ Poll(d) \/ Reset(d) \/ Raise(d) \/ Try(d) \/ Retry(d)
        PROVE  FALSE
    BY <2>3 DEF Delay, TxStrn, Opcode, Gate, Poll, Reset, Raise, Try, Retry
  <2>4. CASE HostTakes \/ \E what \in {"key", "ctrl-c"} : HostSends(what)
    BY <2>1, <2>4 DEF HostTakes, HostSends, Delaying
  <2> QED
    BY <2>2, <2>3, <2>4 DEF Next, Interpreter, Lags
<1> QED
  BY <1>1, Inductive, PTL DEF Spec, NeverShort

(* putchar drops a character only when the host has left the packet before *)
(* it on the endpoint during the whole millisecond of its busy wait.       *)
THEOREM FastHostsLoseNothing == Spec => OnlySlowHostLoses
<1>1. IInv /\ [Next]_vars => [pc = "retry" /\ busy /\ left' < left => held >= MS]_vars
  <2> SUFFICES ASSUME IInv, pc = "retry", busy
               PROVE  held >= MS
    OBVIOUS
  <2> QED
    BY Constants DEF IInv, HeldInv
<1> QED
  BY <1>1, Inductive, PTL DEF Spec, OnlySlowHostLoses

(* Whatever the lag, the longest print and the length of a millisecond,    *)
(* input is polled within Latency: the gate that compares the time with    *)
(* that of the last poll does not miss a millisecond when the clock wraps, *)
(* and one exception that leaves the poll delays it by one interval.       *)
THEOREM PolledInTime == Spec => []PollLatency
<1>1. IInv => PollLatency
  <2> SUFFICES ASSUME IInv
               PROVE  age <= Latency
    BY DEF PollLatency
  <2>1. TypeOK /\ PlaceInv /\ LatencyInv
    BY DEF IInv
  <2>2. SinceGate \in Nat /\ MS + SinceGate <= Interval /\ SincePoll \in Nat
    BY <2>1, GateTimes, PollDistance, Constants DEF GateFacts, PollFacts
  <2>3. \A x, y \in Nat : MS + y <= Interval =>
           /\ x < MS + y /\ age <= Interval + x => age <= Latency
           /\ age <= y => age <= Latency
    BY <2>1, Constants DEF TypeOK
  <2> QED
    BY <2>1, <2>2, <2>3 DEF LatencyInv
<1> QED
  BY <1>1, Inductive, PTL
=============================================================================
