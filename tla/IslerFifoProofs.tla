--------------------------- MODULE IslerFifoProofs ----------------------------
(***************************************************************************)
(* Proofs about IslerFifo for every ring, word, heap, queue and set of     *)
(* frame lengths.  FifoExact is inductive with the types.  CountInv follows*)
(* the number that read() counts until it has popped as many bytes, while  *)
(* frames come in between; WakeInv is what must hold for the callback to   *)
(* be called again.                                                        *)
(***************************************************************************)
EXTENDS IslerFifo, ArithmeticLemmas

InUse == Used(head, tail)

(* A count that the interrupt falsified is more than the heap has; any     *)
(* other one is in the ring, which only grows until read() pops.           *)
CountInv ==
    /\ pc = "count" /\ wrapped => head < tail
    /\ pc = "alloc" => count <= InUse \/ count > HeapSize
    /\ NoUnderrun

(* The scheduled handler reads all it counts, and what it does not count   *)
(* has scheduled another or is silent.                                     *)
WakeInv ==
    /\ inCallback /\ pc # "idle" => req = NoRequest /\ op = "read"
    /\ inCallback /\ ~silent /\ pc \in {"alloc", "pop"} => InUse <= count \/ sched > 0
    /\ NoLostWakeup

IInv == TypeOK /\ FifoExact /\ CountInv /\ WakeInv

-----------------------------------------------------------------------------
(* The ring.                                                               *)

(* The ring's size and its remainders as distances and slots.              *)
LEMMA RingShape ==
    /\ RX_BUF_SIZE \in Nat /\ RX_BUF_SIZE > 1
    /\ Indices = Slots(RX_BUF_SIZE) /\ 0 \in Indices /\ 1 \in Indices
    /\ \A h, t \in Indices :
          /\ (h - t) % RX_BUF_SIZE = Dist(RX_BUF_SIZE, h, t)
          /\ Used(h, t) = Dist(RX_BUF_SIZE, h, t)
          /\ Used(h, t) \in Indices
          /\ Dist(RX_BUF_SIZE, h, t) \in Nat /\ Dist(RX_BUF_SIZE, h, t) < RX_BUF_SIZE
    /\ \A t, d \in Indices :
          /\ (t + d) % RX_BUF_SIZE = Slot(RX_BUF_SIZE, t, d)
          /\ Slot(RX_BUF_SIZE, t, d) \in Indices
<1>1. RX_BUF_SIZE \in Nat /\ RX_BUF_SIZE > 1 /\ Indices = Slots(RX_BUF_SIZE)
  BY FifoAssumption DEF Indices, Slots
<1>2. \A d \in Indices : d \in Nat /\ d < RX_BUF_SIZE
  BY <1>1 DEF Indices
<1> QED
  BY <1>1, <1>2, Remainders DEF Used

(* The types of the variables one by one, for the arithmetic that follows. *)
LEMMA Types ==
    ASSUME TypeOK
    PROVE  /\ head \in Indices /\ tail \in Indices
           /\ InUse \in Indices /\ InUse \in Nat /\ InUse < RX_BUF_SIZE
           /\ InUse = Dist(RX_BUF_SIZE, head, tail)
           /\ InUse = 0 <=> head = tail
           /\ pushed \in Nat /\ popped \in Nat /\ count \in Int /\ sched \in Nat
           /\ buf \in [Indices -> Nat]
<1>1. /\ head \in Indices /\ tail \in Indices
      /\ pushed \in Nat /\ popped \in Nat /\ count \in Int /\ sched \in Nat
      /\ buf \in [Indices -> Nat]
  BY FifoAssumption DEF TypeOK
<1>2. InUse = Dist(RX_BUF_SIZE, head, tail) /\ InUse \in Indices
  BY <1>1, RingShape DEF InUse
<1>3. InUse = 0 <=> head = tail
  <2>1. head \in Slots(RX_BUF_SIZE) /\ tail \in Slots(RX_BUF_SIZE)
    BY <1>1, RingShape
  <2>2. Dist(RX_BUF_SIZE, head, tail) = 0 <=> head = tail
    BY <2>1, RingShape, SlotOfDist
  <2> QED
    BY <1>2, <2>2
<1>4. InUse \in Nat /\ InUse < RX_BUF_SIZE
  BY <1>2, FifoAssumption DEF Indices
<1> QED
  BY <1>1, <1>2, <1>3, <1>4

(* What a frame does to the ring: its first n bytes, as many as there is   *)
(* room for, come after those in use.                                      *)
LEMMA PushShape ==
    ASSUME TypeOK, NEW len \in Nat, rx_fifo_push(len)
    PROVE  \E n \in Indices :
              /\ InUse + n < RX_BUF_SIZE
              /\ head' = Slot(RX_BUF_SIZE, head, n) /\ head' \in Indices /\ tail' = tail
              /\ InUse' = InUse + n
              /\ pushed' = pushed + n /\ popped' = popped
              /\ buf' \in [Indices -> Nat]
              /\ \A i \in Indices :
                    LET d == Dist(RX_BUF_SIZE, i, tail)
                    IN buf'[i] = IF d >= InUse /\ d < InUse + n
                                 THEN pushed + 1 + (d - InUse) ELSE buf[i]
<1> DEFINE room == Room(head, tail)
           n == IF len < room THEN len ELSE room
           Place(i) == (i - head) % RX_BUF_SIZE
<1>t. /\ head \in Indices /\ tail \in Indices /\ InUse \in Nat /\ InUse < RX_BUF_SIZE
      /\ InUse = Dist(RX_BUF_SIZE, head, tail)
      /\ pushed \in Nat /\ buf \in [Indices -> Nat] /\ RX_BUF_SIZE \in Nat
  BY Types, RingShape
<1>1. room = RX_BUF_SIZE - 1 - InUse
  BY DEF Room, InUse
<1>2. n \in Indices /\ n \in Nat /\ InUse + n < RX_BUF_SIZE
  BY <1>t, <1>1 DEF Indices
<1>3. /\ buf' = [i \in Indices |-> IF Place(i) < n THEN pushed + 1 + Place(i) ELSE buf[i]]
      /\ head' = (head + n) % RX_BUF_SIZE
      /\ pushed' = pushed + n /\ tail' = tail /\ popped' = popped
  BY DEF rx_fifo_push
<1>4. \A i \in Indices : Place(i) = Dist(RX_BUF_SIZE, i, head) /\ Place(i) \in Nat
  <2>1. \A i \in Indices : Place(i) = Dist(RX_BUF_SIZE, i, head)
    BY <1>t, RingShape
  <2>2. \A i \in Indices : Dist(RX_BUF_SIZE, i, head) \in Nat
    BY <1>t, RingShape
  <2> QED
    BY <2>1, <2>2
<1> HIDE DEF n, room, Place
<1>5. head' = Slot(RX_BUF_SIZE, head, n) /\ head' \in Indices
  BY <1>t, <1>2, <1>3, RingShape
<1>6. InUse' = InUse + n
  <2>1. InUse' = Dist(RX_BUF_SIZE, head', tail)
    BY <1>t, <1>3, <1>5, RingShape DEF InUse
  <2>2. /\ head \in Slots(RX_BUF_SIZE) /\ tail \in Slots(RX_BUF_SIZE)
        /\ n \in Slots(RX_BUF_SIZE) /\ RX_BUF_SIZE > 1
        /\ Dist(RX_BUF_SIZE, head, tail) + n < RX_BUF_SIZE
    BY <1>t, <1>2, RingShape
  <2>3. Dist(RX_BUF_SIZE, Slot(RX_BUF_SIZE, head, n), tail) = Dist(RX_BUF_SIZE, head, tail) + n
    BY <1>t, <2>2, HeadMoves
  <2> QED
    BY <1>t, <1>5, <2>1, <2>3
<1>7. buf' \in [Indices -> Nat]
  BY <1>t, <1>3, <1>4
<1>8. ASSUME NEW i \in Indices
      PROVE  LET d == Dist(RX_BUF_SIZE, i, tail)
             IN buf'[i] = IF d >= InUse /\ d < InUse + n
                          THEN pushed + 1 + (d - InUse) ELSE buf[i]
  <2> DEFINE d == Dist(RX_BUF_SIZE, i, tail)
  <2>1. d \in Nat /\ d < RX_BUF_SIZE
    BY <1>t, RingShape
  <2>2. buf'[i] = IF Place(i) < n THEN pushed + 1 + Place(i) ELSE buf[i]
    BY <1>3
  <2>3. \/ d < InUse /\ Place(i) = RX_BUF_SIZE - InUse + d
        \/ d >= InUse /\ Place(i) = d - InUse
    BY <1>t, <1>4, RingShape, DistOfSlot
  <2> HIDE DEF d
  <2>4. buf'[i] = IF d >= InUse /\ d < InUse + n THEN pushed + 1 + (d - InUse) ELSE buf[i]
    BY <1>t, <1>2, <2>1, <2>2, <2>3
  <2> QED
    BY <2>4 DEF d
<1> QED
  BY <1>2, <1>3, <1>5, <1>6, <1>7, <1>8

(* A frame leaves the ring alone or pushes.                                *)
LEMMA FrameShape ==
    ASSUME NEW f \in FrameLens, Frame(f)
    PROVE  UNCHANGED fifo \/ \E len \in Nat : rx_fifo_push(len)
<1>1. (f + 2) % Byte \in Nat
  BY FifoAssumption
<1> QED
  BY <1>1 DEF Frame

-----------------------------------------------------------------------------
(* Types.                                                                  *)

(* What any() makes of a count is a number, if not the same one.           *)
LEMMA SmallIntType == ASSUME NEW n \in Nat PROVE SmallInt(n) \in Int
<1> DEFINE half == SizeT \div 2
<1>1. half \in Nat /\ half > 0
  BY FifoAssumption
<1> HIDE DEF half
<1>2. n % half \in Int /\ (n % half) - half \in Int
  BY <1>1
<1> QED
  BY <1>2 DEF SmallInt, half

(* Every action keeps the types.                                           *)
LEMMA TypeStep == TypeOK /\ [Next]_vars => TypeOK'
<1> SUFFICES ASSUME TypeOK, [Next]_vars PROVE TypeOK'
  OBVIOUS
<1>1. ASSUME NEW f \in FrameLens, Frame(f) PROVE TypeOK'
  <2>1. /\ buf' \in [Indices -> Nat] /\ head' \in Indices /\ tail' \in Indices
        /\ pushed' \in Nat /\ popped' \in Nat
    <3>1. CASE UNCHANGED fifo
      BY <3>1 DEF fifo, TypeOK
    <3>2. ASSUME NEW len \in Nat, rx_fifo_push(len) 
          PROVE  /\ buf' \in [Indices -> Nat] /\ head' \in Indices /\ tail' \in Indices
                 /\ pushed' \in Nat /\ popped' \in Nat
      <4> PICK n \in Indices :
             /\ head' \in Indices /\ tail' = tail /\ buf' \in [Indices -> Nat]
             /\ pushed' = pushed + n /\ popped' = popped
        BY <3>2, PushShape
      <4>1. n \in Nat
        BY FifoAssumption DEF Indices
      <4> QED
        BY <4>1, Types
    <3> QED
      BY <1>1, <3>1, <3>2, FrameShape
  <2>2. sched' \in 0..SchedDepth /\ frames' \in 0..MaxFrames
    BY <1>1, FifoAssumption DEF Frame, Schedule, TypeOK
  <2>3. silent' \in BOOLEAN
    BY <1>1, Zenon DEF Frame
  <2> QED
    BY <1>1, <2>1, <2>2, <2>3 DEF Frame, call, TypeOK
<1>2. ASSUME NEW on \in BOOLEAN, Irq(on) PROVE TypeOK'
  BY <1>2 DEF Irq, fifo, call, TypeOK
<1>3. ASSUME NEW o \in {"any", "read"}, NEW r \in Requests \cup {NoRequest},
             NEW c \in BOOLEAN, Call(o, r, c), sched' \in 0..SchedDepth, failed' \in BOOLEAN
      PROVE  TypeOK'
  BY <1>3 DEF Call, fifo, TypeOK
<1>4. CASE CallAny
  BY <1>3, <1>4 DEF CallAny, TypeOK
<1>5. ASSUME NEW r \in Requests \cup {NoRequest}, CallRead(r) PROVE TypeOK'
  BY <1>3, <1>5 DEF CallRead, TypeOK
<1>6. CASE RunCallback
  <2>1. sched' \in 0..SchedDepth
    BY <1>6, FifoAssumption DEF RunCallback, TypeOK
  <2>2. failed' \in BOOLEAN /\ Call("read", NoRequest, TRUE)
    BY <1>6, Zenon DEF RunCallback
  <2> QED
    BY <1>3, <2>1, <2>2
<1>7. CASE Test
  <2>1. wrapped' \in BOOLEAN
    <3>1. wrapped' = (head < tail) /\ head \in Int /\ tail \in Int
      BY <1>7, Types DEF Test, Indices
    <3> QED
      BY <3>1, SMT
  <2> QED
    BY <1>7, <2>1 DEF Test, fifo, TypeOK
<1>8. CASE Count
  <2>1. Counted(wrapped, head, tail) \in Nat
    <3>1. head \in 0..(RX_BUF_SIZE - 1) /\ tail \in 0..(RX_BUF_SIZE - 1)
      BY DEF TypeOK, Indices
    <3> QED
      BY <3>1, FifoAssumption DEF Counted
  <2>2. \A n \in Nat : SmallInt(n) \in Int
    BY FifoAssumption, SmallIntType
  <2>3. count' \in Int /\ (pc' = "alloc" => count' \in Nat) /\ pc' \in {"idle", "alloc"}
    BY <1>8, <2>1, <2>2 DEF Count
  <2> QED
    BY <1>8, <2>3 DEF Count, fifo, TypeOK
<1>9. CASE Alloc
  <2>1. Wanted(count) \in Nat
    BY <1>9, FifoAssumption DEF Alloc, Wanted, TypeOK
  <2>2. pc' \in {"idle", "pop"} /\ (pc' = "pop" => Wanted(count) \in 1..HeapSize)
    BY <1>9, <2>1, FifoAssumption DEF Alloc
  <2>3. failed' \in BOOLEAN
    BY <1>9, Zenon DEF Alloc, TypeOK
  <2> QED
    BY <1>9, <2>1, <2>2, <2>3 DEF Alloc, fifo, TypeOK
<1>10. CASE Pop
  <2>1. tail' \in Indices /\ popped' \in Nat
    <3>1. (tail + 1) % RX_BUF_SIZE \in Indices /\ popped + 1 \in Nat
      BY Types, RingShape
    <3> QED
      BY <1>10, <3>1, Types DEF Pop
  <2>2. /\ count \in 1..HeapSize /\ count' = count - 1
        /\ count' \in Nat /\ (pc' = "pop" => count' \in 1..HeapSize)
    BY <1>10, FifoAssumption DEF Pop, TypeOK
  <2>3. silent' \in BOOLEAN
    BY <1>10, Zenon DEF Pop
  <2> QED
    BY <1>10, <2>1, <2>2, <2>3 DEF Pop, TypeOK
<1>11. CASE UNCHANGED vars
  BY <1>11 DEF vars, fifo, call, TypeOK
<1> QED
  BY <1>1, <1>2, <1>4, <1>5, <1>6, <1>7, <1>8, <1>9, <1>10, <1>11 DEF Next, Steps

-----------------------------------------------------------------------------
(* The contents.                                                           *)

(* Used and the place of a byte after the tail, without remainders.        *)
Exact ==
    /\ pushed - popped = InUse
    /\ \A i \in Indices :
          Dist(RX_BUF_SIZE, i, tail) < InUse =>
              buf[i] = popped + 1 + Dist(RX_BUF_SIZE, i, tail)

(* FifoExact without remainders.                                           *)
LEMMA ExactMeans == ASSUME head \in Indices, tail \in Indices PROVE FifoExact <=> Exact
  BY RingShape DEF FifoExact, Exact, InUse

(* The same in the next state.                                             *)
LEMMA ExactMeansNext == ASSUME head' \in Indices, tail' \in Indices PROVE FifoExact' <=> Exact'
  BY RingShape DEF FifoExact, Exact, InUse

(* Every action keeps the ring exactly the bytes pushed and not yet        *)
(* popped.                                                                 *)
LEMMA ExactStep == TypeOK /\ TypeOK' /\ FifoExact /\ [Next]_vars => FifoExact'
<1> SUFFICES ASSUME TypeOK, TypeOK', Exact, [Next]_vars PROVE Exact'
  BY ExactMeans, ExactMeansNext DEF TypeOK
<1>t. /\ head \in Indices /\ tail \in Indices /\ InUse \in Nat /\ InUse < RX_BUF_SIZE
      /\ pushed \in Nat /\ popped \in Nat /\ RX_BUF_SIZE \in Nat
      /\ InUse = Dist(RX_BUF_SIZE, head, tail)
      /\ \A i \in Indices : Dist(RX_BUF_SIZE, i, tail) \in Nat
  <2>1. \A i, t \in Indices : Dist(RX_BUF_SIZE, i, t) \in Nat
    BY RingShape
  <2> QED
    BY <2>1, Types, RingShape
<1>1. ASSUME UNCHANGED fifo PROVE Exact'
  BY <1>1 DEF fifo, Exact, InUse
<1>2. ASSUME NEW len \in Nat, rx_fifo_push(len) PROVE Exact'
  <2> PICK n \in Indices :
         /\ tail' = tail /\ InUse' = InUse + n
         /\ pushed' = pushed + n /\ popped' = popped
         /\ \A i \in Indices :
               LET d == Dist(RX_BUF_SIZE, i, tail)
               IN buf'[i] = IF d >= InUse /\ d < InUse + n
                            THEN pushed + 1 + (d - InUse) ELSE buf[i]
    BY <1>2, PushShape
  <2>1. n \in Nat
    BY FifoAssumption DEF Indices
  <2>2. pushed' - popped' = InUse'
    BY <1>t, <2>1 DEF Exact
  <2>3. ASSUME NEW i \in Indices, Dist(RX_BUF_SIZE, i, tail) < InUse + n
        PROVE  buf'[i] = popped + 1 + Dist(RX_BUF_SIZE, i, tail)
    BY <1>t, <2>1, <2>3 DEF Exact
  <2> QED
    BY <2>2, <2>3 DEF Exact
<1>3. CASE Pop
  <2>1. CASE head = tail
    BY <1>1, <1>3, <2>1 DEF Pop, fifo
  <2>2. CASE head # tail
    <3>1. /\ tail' = Slot(RX_BUF_SIZE, tail, 1) /\ tail' \in Indices /\ popped' = popped + 1
          /\ UNCHANGED <<buf, head, pushed>>
      BY <1>3, <1>t, <2>2, RingShape DEF Pop
    <3>2. InUse' = Dist(RX_BUF_SIZE, head, tail')
      BY <1>t, <3>1, RingShape DEF InUse
    <3>3. InUse' = InUse - 1
      BY <1>t, <2>2, <3>1, <3>2, RingShape, TailMoves
    <3>4. ASSUME NEW i \in Indices, Dist(RX_BUF_SIZE, i, tail') < InUse'
          PROVE  buf[i] = popped + 2 + Dist(RX_BUF_SIZE, i, tail')
      <4>1. i # tail
        BY <1>t, <3>1, <3>3, <3>4, RingShape, TailMoves
      <4>2. Dist(RX_BUF_SIZE, i, tail') = Dist(RX_BUF_SIZE, i, tail) - 1
        BY <1>t, <3>1, <4>1, RingShape, TailMoves
      <4>3. buf[i] = popped + 1 + Dist(RX_BUF_SIZE, i, tail)
        BY <1>t, <3>3, <3>4, <4>2 DEF Exact
      <4> QED
        BY <1>t, <4>2, <4>3
    <3>5. \A i \in Indices : Dist(RX_BUF_SIZE, i, tail') \in Nat
      BY <3>1, RingShape
    <3>6. pushed' - popped' = InUse'
      BY <1>t, <3>1, <3>3 DEF Exact
    <3>7. ASSUME NEW i \in Indices, Dist(RX_BUF_SIZE, i, tail') < InUse'
          PROVE  buf'[i] = popped' + 1 + Dist(RX_BUF_SIZE, i, tail')
      BY <1>t, <3>1, <3>4, <3>5, <3>7
    <3> QED
      BY <3>6, <3>7 DEF Exact
  <2> QED
    BY <2>1, <2>2
<1>4. ASSUME NEW f \in FrameLens, Frame(f) PROVE Exact'
  BY <1>1, <1>2, <1>4, FrameShape
<1>5. CASE (\E on \in BOOLEAN : Irq(on)) \/ CallAny \/ (\E r \in Requests \cup {NoRequest} : CallRead(r)) \/ RunCallback
           \/ Test \/ Count \/ Alloc \/ UNCHANGED vars
  BY <1>1, <1>5 DEF Irq, CallAny, CallRead, RunCallback, Call, Test, Count, Alloc, vars
<1> QED
  BY <1>3, <1>4, <1>5 DEF Next, Steps

-----------------------------------------------------------------------------
(* The count.                                                              *)

(* A frame only adds, and never so much that the head meets the tail.      *)
LEMMA FrameGrows ==
    ASSUME TypeOK, NEW f \in FrameLens, Frame(f)
    PROVE  /\ InUse' \in Nat /\ InUse <= InUse' /\ tail' = tail
           /\ head < tail => head' < tail'
           /\ InUse' # InUse => head' # head
<1>1. CASE UNCHANGED fifo
  BY <1>1, Types DEF fifo, InUse
<1>2. ASSUME NEW len \in Nat, rx_fifo_push(len)
      PROVE  /\ InUse' \in Nat /\ InUse <= InUse' /\ tail' = tail
             /\ head < tail => head' < tail'
             /\ InUse' # InUse => head' # head
  <2> PICK n \in Indices :
         /\ InUse + n < RX_BUF_SIZE
         /\ head' = Slot(RX_BUF_SIZE, head, n) /\ tail' = tail /\ InUse' = InUse + n
    BY <1>2, PushShape
  <2>1. n \in 0..(RX_BUF_SIZE - 1) /\ head \in 0..(RX_BUF_SIZE - 1)
        /\ tail \in 0..(RX_BUF_SIZE - 1) /\ RX_BUF_SIZE \in Nat
    BY Types, FifoAssumption DEF Indices
  <2>2. head < tail => head' < tail
    BY <2>1, Types DEF Slot, Dist
  <2>3. n # 0 => head' # head
    BY <2>1 DEF Slot
  <2> QED
    BY <2>1, <2>2, <2>3, Types
<1> QED
  BY <1>1, <1>2, FrameShape

(* What rx_fifo_count returns: the bytes in use, or, when the ring wrapped *)
(* between the two looks at the head, more than the heap has.              *)
LEMMA CountedIs ==
    ASSUME TypeOK, wrapped => head < tail
    PROVE  LET n == Counted(wrapped, head, tail)
           IN n \in Nat /\ (n = InUse \/ n > HeapSize) /\ InUse <= n
<1> DEFINE n == Counted(wrapped, head, tail)
<1>t. /\ head \in 0..(RX_BUF_SIZE - 1) /\ tail \in 0..(RX_BUF_SIZE - 1)
      /\ RX_BUF_SIZE \in Nat /\ HeapSize \in Nat /\ RX_BUF_SIZE <= HeapSize
      /\ SizeT \in Nat /\ HeapSize + RX_BUF_SIZE < SizeT
      /\ InUse = IF head >= tail THEN head - tail ELSE head - tail + RX_BUF_SIZE
      /\ wrapped \in BOOLEAN
  BY Types, FifoAssumption DEF Indices, Dist, TypeOK
<1>1. CASE wrapped
  <2>1. n = (RX_BUF_SIZE - tail) + head /\ head < tail
    BY <1>1 DEF Counted
  <2> HIDE DEF n
  <2> QED
    BY <1>t, <2>1 DEF n
<1>2. CASE ~wrapped
  <2>1. n = (head - tail) % SizeT
    BY <1>2 DEF Counted
  <2> HIDE DEF n
  <2>2. CASE head >= tail
    <3>1. (head - tail) % SizeT = head - tail
      BY <1>t, <2>2
    <3> QED
      BY <1>t, <2>1, <2>2, <3>1 DEF n
  <2>3. CASE head < tail
    <3>1. (head - tail) % SizeT = head - tail + SizeT
      BY <1>t, <2>3
    <3> QED
      BY <1>t, <2>1, <2>3, <3>1 DEF n
  <2> QED
    BY <1>t, <2>2, <2>3
<1> QED
  BY <1>1, <1>2

(* What popping a byte does to the number of bytes in use.                 *)
LEMMA PopShape ==
    ASSUME TypeOK, Pop
    PROVE  /\ head = tail => InUse' = 0 /\ tail' = head
           /\ head # tail => InUse' = InUse - 1
           /\ InUse' = 0 <=> head' = tail'
<1>t. /\ head \in Slots(RX_BUF_SIZE) /\ tail \in Slots(RX_BUF_SIZE) /\ head' = head
      /\ RX_BUF_SIZE \in Nat /\ RX_BUF_SIZE > 1 /\ 1 \in Indices
      /\ Indices = Slots(RX_BUF_SIZE)
      /\ InUse = Dist(RX_BUF_SIZE, head, tail)
  BY Types, RingShape DEF Pop
<1>1. /\ head = tail => tail' = tail
      /\ head # tail => tail' = Slot(RX_BUF_SIZE, tail, 1)
      /\ tail' \in Slots(RX_BUF_SIZE)
  BY <1>t, RingShape DEF Pop
<1>2. InUse' = Dist(RX_BUF_SIZE, head, tail')
  BY <1>t, <1>1, RingShape DEF InUse
<1>3. Dist(RX_BUF_SIZE, head, tail') = 0 <=> head = tail'
  BY <1>t, <1>1, SlotOfDist
<1>4. head # tail => InUse' = InUse - 1
  BY <1>t, <1>1, <1>2, TailMoves
<1> QED
  BY <1>t, <1>1, <1>2, <1>3, <1>4

(* Every action keeps a count either honest or too large to allocate.      *)
LEMMA CountStep == TypeOK /\ CountInv /\ [Next]_vars => CountInv'
<1> SUFFICES ASSUME TypeOK, CountInv, [Next]_vars PROVE CountInv'
  OBVIOUS
<1>t. InUse \in Nat /\ count \in Int /\ HeapSize \in Nat
  BY Types, FifoAssumption
<1>1. ASSUME NEW f \in FrameLens, Frame(f) PROVE CountInv'
  <2>1. UNCHANGED <<pc, wrapped, count, req>>
    BY <1>1 DEF Frame, call
  <2>2. /\ InUse' \in Nat /\ InUse <= InUse' /\ tail' = tail
        /\ head < tail => head' < tail'
    BY <1>1, FrameGrows
  <2> QED
    BY <1>t, <2>1, <2>2 DEF CountInv, NoUnderrun, InUse
<1>2. CASE pc' = "idle" \/ pc' = "test"
  BY <1>2 DEF CountInv, NoUnderrun
<1>3. CASE \/ (\E on \in BOOLEAN : Irq(on)) \/ CallAny
           \/ (\E r \in Requests \cup {NoRequest} : CallRead(r)) \/ RunCallback
  <2>1. pc' = "idle" \/ pc' = "test"
    BY <1>3 DEF Irq, CallAny, CallRead, RunCallback, Call, call
  <2> QED
    BY <1>2, <2>1
<1>4. CASE Test
  BY <1>4 DEF Test, CountInv, NoUnderrun, fifo
<1>5. CASE Count
  <2>1. /\ wrapped => head < tail
        /\ pc' = "alloc" => count' = Counted(wrapped, head, tail)
        /\ InUse' = InUse /\ pc' \in {"idle", "alloc"}
    BY <1>5 DEF Count, CountInv, InUse, fifo
  <2>2. pc' = "alloc" => count' \in Nat /\ (count' = InUse \/ count' > HeapSize)
    BY <2>1, CountedIs
  <2> QED
    BY <1>t, <2>1, <2>2 DEF CountInv, NoUnderrun
<1>6. CASE Alloc
  <2>1. /\ count' = Wanted(count) /\ InUse' = InUse /\ req' = req
        /\ pc = "alloc" /\ (pc' = "idle" \/ (pc' = "pop" /\ ~(Wanted(count) > HeapSize)))
    BY <1>6 DEF Alloc, InUse, fifo
  <2>2. CASE pc' = "pop" /\ req = NoRequest
    <3>1. Wanted(count) = count
      BY <2>2 DEF Wanted
    <3> QED
      BY <1>t, <2>1, <2>2, <3>1 DEF CountInv, NoUnderrun, InUse
  <2> QED
    BY <1>2, <2>1, <2>2 DEF CountInv, NoUnderrun
<1>7. CASE Pop
  <2>1. /\ pc = "pop" /\ req' = req /\ count' = count - 1 /\ count >= 1 /\ head' = head
        /\ pc' \in {"idle", "pop"}
    BY <1>7, FifoAssumption DEF Pop, TypeOK
  <2>2. CASE req = NoRequest
    <3>1. count <= InUse /\ head # tail
      BY <1>t, <2>1, <2>2, Types DEF CountInv, NoUnderrun, InUse
    <3>2. InUse' = InUse - 1
      BY <1>7, <3>1, PopShape
    <3> QED
      BY <1>t, <2>1, <2>2, <3>1, <3>2 DEF CountInv, NoUnderrun, InUse
  <2> QED
    BY <2>1, <2>2 DEF CountInv, NoUnderrun
<1>8. CASE UNCHANGED vars
  BY <1>8 DEF vars, fifo, call, CountInv, NoUnderrun, InUse
<1> QED
  BY <1>1, <1>3, <1>4, <1>5, <1>6, <1>7, <1>8 DEF Next, Steps

-----------------------------------------------------------------------------
(* The callback.                                                           *)

(* No action leaves bytes behind with nobody to read them.                 *)
LEMMA WakeStep == TypeOK /\ CountInv /\ WakeInv /\ [Next]_vars => WakeInv'
<1> SUFFICES ASSUME TypeOK, CountInv, WakeInv, [Next]_vars PROVE WakeInv'
  OBVIOUS
<1>t. /\ InUse \in Nat /\ count \in Int /\ sched \in Nat /\ SchedDepth \in Nat /\ SchedDepth > 0
      /\ InUse = 0 <=> head = tail
  BY Types, FifoAssumption
<1>1. ASSUME NEW f \in FrameLens, Frame(f) PROVE WakeInv'
  <2>1. /\ UNCHANGED <<callback, inCallback, pc, op, req, count, failed>>
        /\ sched' = Schedule /\ (silent' <=> silent \/ (~callback /\ head' # head))
    BY <1>1 DEF Frame, call
  <2>2. callback => sched' > 0
    BY <1>t, <2>1 DEF Schedule
  <2>3. ~callback => sched' = sched
    BY <2>1 DEF Schedule
  <2>4. tail' = tail /\ (InUse' # InUse => head' # head)
    BY <1>1, FrameGrows
  <2>5. CASE callback
    BY <2>1, <2>2, <2>5 DEF WakeInv, NoLostWakeup
  <2>6. CASE ~callback
    <3>1. ~silent' => ~silent /\ head' = head /\ InUse' = InUse
      BY <2>1, <2>4, <2>6
    <3> QED
      BY <2>1, <2>3, <2>4, <2>6, <3>1 DEF WakeInv, NoLostWakeup
  <2> QED
    BY <2>5, <2>6
<1>2. ASSUME NEW on \in BOOLEAN, Irq(on) PROVE WakeInv'
  BY <1>2 DEF Irq, fifo, call, WakeInv, NoLostWakeup, InUse
<1>3. CASE CallAny \/ (\E r \in Requests \cup {NoRequest} : CallRead(r))
  BY <1>3 DEF CallAny, CallRead, Call, fifo, WakeInv, NoLostWakeup
<1>4. CASE RunCallback
  BY <1>4 DEF RunCallback, Call, fifo, WakeInv, NoLostWakeup
<1>5. CASE Test
  BY <1>5 DEF Test, fifo, WakeInv, NoLostWakeup
<1>6. CASE Count
  <2>1. /\ op # "any" => InUse <= count'
        /\ InUse' = InUse
        /\ UNCHANGED <<head, tail, callback, inCallback, op, req, sched, failed, silent>>
        /\ pc = "count" /\ pc' = IF op = "any" THEN "idle" ELSE "alloc"
    <3>1. wrapped => head < tail
      BY <1>6 DEF Count, CountInv
    <3> QED
      BY <1>6, <3>1, CountedIs DEF Count, fifo, InUse
  <2> QED
    BY <2>1 DEF WakeInv, NoLostWakeup
<1>7. CASE Alloc
  <2>1. /\ count' = Wanted(count) /\ pc = "alloc" /\ InUse' = InUse
        /\ UNCHANGED <<head, tail, callback, inCallback, op, req, sched, silent>>
        /\ pc' = IF Wanted(count) = 0 \/ Wanted(count) > HeapSize THEN "idle" ELSE "pop"
        /\ failed' <=> failed \/ (inCallback /\ Wanted(count) > HeapSize)
    BY <1>7 DEF Alloc, fifo, InUse
  <2>2. CASE ~inCallback
    BY <2>1, <2>2 DEF WakeInv, NoLostWakeup
  <2>3. CASE inCallback
    <3>1. Wanted(count) = count /\ count' = count
      BY <2>1, <2>3 DEF WakeInv, Wanted
    <3>2. ~silent /\ count = 0 => head = tail \/ sched > 0
      BY <1>t, <2>1, <2>3 DEF WakeInv
    <3> QED
      BY <2>1, <2>3, <3>1, <3>2 DEF WakeInv, NoLostWakeup
  <2> QED
    BY <2>2, <2>3
<1>8. CASE Pop
  <2>1. /\ pc = "pop" /\ count >= 1 /\ count' = count - 1
        /\ pc' = IF count = 1 THEN "idle" ELSE "pop"
        /\ UNCHANGED <<head, callback, inCallback, op, req, sched, failed>>
    BY <1>8, FifoAssumption DEF Pop, TypeOK
  <2>2. silent' <=> silent /\ tail' # head
    BY <1>8 DEF Pop
  <2>3. /\ head = tail => InUse' = 0 /\ tail' = head
        /\ head # tail => InUse' = InUse - 1
        /\ InUse' = 0 <=> head' = tail'
    BY <1>8, <2>1, PopShape
  <2>4. head' # tail' => head # tail /\ (~silent' => ~silent)
    BY <2>1, <2>2, <2>3
  <2>5. inCallback /\ ~silent' => InUse' <= count' \/ sched > 0
    <3>1. CASE InUse' = 0
      BY <1>t, <2>1, <3>1
    <3>2. CASE InUse' # 0
      <4>1. head # tail /\ InUse' = InUse - 1
        BY <2>3, <3>2
      <4>2. ~silent' => ~silent
        BY <2>3, <2>4, <3>2
      <4> QED
        BY <1>t, <2>1, <4>1, <4>2 DEF WakeInv
    <3> QED
      BY <3>1, <3>2
  <2>6. inCallback /\ ~silent' /\ count = 1 => head' = tail' \/ sched > 0
    <3>1. InUse' <= 0 => InUse' = 0
      BY <1>t, <2>3
    <3> QED
      BY <1>t, <2>1, <2>3, <2>5, <3>1
  <2> QED
    BY <2>1, <2>4, <2>5, <2>6 DEF WakeInv, NoLostWakeup
<1>9. CASE UNCHANGED vars
  BY <1>9 DEF vars, fifo, call, WakeInv, NoLostWakeup, InUse
<1> QED
  BY <1>1, <1>2, <1>3, <1>4, <1>5, <1>6, <1>7, <1>8, <1>9 DEF Next, Steps

-----------------------------------------------------------------------------
(* Theorems.                                                               *)

(* The invariant holds at the start, with an empty ring.                   *)
LEMMA InitInv == Init => IInv
<1> SUFFICES ASSUME Init PROVE IInv
  OBVIOUS
<1>1. TypeOK
  <2>1. buf \in [Indices -> Nat] /\ head \in Indices /\ tail \in Indices
    BY RingShape DEF Init
  <2>2. /\ callback \in BOOLEAN /\ inCallback \in BOOLEAN /\ wrapped \in BOOLEAN
        /\ failed \in BOOLEAN /\ silent \in BOOLEAN
    BY Zenon DEF Init
  <2>3. sched \in 0..SchedDepth /\ frames \in 0..MaxFrames /\ count \in Nat
    BY FifoAssumption DEF Init
  <2> QED
    BY <2>1, <2>2, <2>3 DEF Init, TypeOK
<1>2. InUse = 0
  BY <1>1, Types DEF Init
<1>3. FifoExact
  <2>1. Exact
    <3>1. \A i \in Indices : ~(Dist(RX_BUF_SIZE, i, tail) < 0)
      BY <1>1, Types, RingShape
    <3> QED
      BY <1>2, <3>1 DEF Init, Exact
  <2> QED
    BY <1>1, <2>1, ExactMeans DEF TypeOK
<1>4. CountInv /\ WakeInv
  BY DEF Init, CountInv, WakeInv, NoUnderrun, NoLostWakeup
<1> QED
  BY <1>1, <1>3, <1>4 DEF IInv

(* All parts of the invariant hold in every reachable state.               *)
THEOREM Inductive == Spec => []IInv
<1>1. IInv /\ [Next]_vars => IInv'
  BY TypeStep, ExactStep, CountStep, WakeStep DEF IInv
<1> QED
  BY <1>1, InitInv, PTL DEF Spec

(* The indices stay in the ring, and read() pops only counts the heap      *)
(* could hold.                                                             *)
THEOREM TypeCorrect == Spec => []TypeOK
<1>1. IInv => TypeOK
  BY DEF IInv
<1> QED
  BY <1>1, Inductive, PTL

(* The ring is an exact queue of the accepted bytes, for every size of it  *)
(* and every frame that comes between two of Python's steps.               *)
THEOREM ExactFifo == Spec => []FifoExact
<1>1. IInv => FifoExact
  BY DEF IInv
<1> QED
  BY <1>1, Inductive, PTL

(* read() without a length never pops an empty ring.                       *)
THEOREM NeverUnderrun == Spec => []NoUnderrun
<1>1. IInv => NoUnderrun
  BY DEF IInv, CountInv
<1> QED
  BY <1>1, Inductive, PTL

(* Bytes that wait always have a handler that runs or is scheduled, for    *)
(* every depth of the scheduler's queue.                                   *)
THEOREM WakeupsAreKept == Spec => []NoLostWakeup
<1>1. IInv => NoLostWakeup
  BY DEF IInv, WakeInv
<1> QED
  BY <1>1, Inductive, PTL
=============================================================================
