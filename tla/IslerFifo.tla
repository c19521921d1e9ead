----------------------------- MODULE IslerFifo ------------------------------
(***************************************************************************)
(* The receive path of ch32fun_isler.c: the radio interrupt pushes each    *)
(* frame into a ring of RX_BUF_SIZE bytes and schedules the user's         *)
(* callback; Python code, the callback or the main program, takes bytes    *)
(* out with iSLER.read() and asks for their number with iSLER.any().       *)
(*                                                                         *)
(* The interrupt is never interrupted by Python, so a frame is one step.   *)
(* Python can be interrupted at every read of the volatile head, so        *)
(* rx_fifo_count, which reads it twice, takes two steps.                   *)
(*                                                                         *)
(* A byte is its number in the order of acceptance, 1, 2, 3, ...           *)
(* mp_sched_schedule is py/runtime.h's queue of MICROPY_SCHEDULER_DEPTH    *)
(* calls, which refuses one when full; the handler is the user's, modelled *)
(* as the one this ring is made for: it calls iSLER.read() once.           *)
(***************************************************************************)
EXTENDS Integers

CONSTANTS
    RX_BUF_SIZE,    \* 512
    Byte,           \* 2^8: the length of a frame is a uint8_t
    SizeT,          \* 2^32: the count is a size_t, and a word holds an object
    HeapSize,       \* bytes that can be allocated: MICROPY_HEAP_SIZE
    SchedDepth,     \* MICROPY_SCHEDULER_DEPTH
    FrameLens,      \* the values of frame[1], the length on the air
    Requests,       \* the arguments of iSLER.read(len)
    MaxFrames       \* bound: frames received in a behaviour

ASSUME FifoAssumption ==
    /\ RX_BUF_SIZE \in Nat /\ RX_BUF_SIZE > 1
    /\ HeapSize \in Nat /\ RX_BUF_SIZE <= HeapSize
    /\ SizeT \in Nat /\ HeapSize + RX_BUF_SIZE < SizeT
    /\ SizeT % 4 = 0 /\ 4 * RX_BUF_SIZE <= SizeT
    /\ SchedDepth \in Nat /\ SchedDepth > 0
    /\ Byte \in Nat /\ Byte > 1
    /\ FrameLens \subseteq 0..(Byte - 1)
    /\ Requests \subseteq Nat
    /\ MaxFrames \in Nat

NoRequest == -1
Indices == 0..(RX_BUF_SIZE - 1)

VARIABLES
    buf, head, tail,    \* rx_fifo; buf holds byte numbers, 0 = never written
    pushed, popped,     \* history: bytes accepted, bytes taken
    callback,           \* isler_callback_obj is set
    sched,              \* calls of it in the scheduler's queue
    frames,             \* frames received so far
    pc,                 \* Python: "idle", or where it is in any() or read()
    op,                 \* "any" | "read"
    inCallback,         \* the call was made by the scheduled handler
    req,                \* the argument of read()
    wrapped,            \* rx_fifo_count's test, head >= tail, was false
    count,              \* rx_fifo_count's result, or what any() made of it; in
                        \* "pop", bytes left to pop
    failed,             \* history: the last handler ended in a MemoryError
    silent              \* history: the ring holds bytes that came with no
                        \* callback set

fifo == <<buf, head, tail, pushed, popped>>
call == <<pc, op, inCallback, req, wrapped, count>>
vars == <<fifo, callback, sched, frames, call, failed, silent>>

Init ==
    /\ buf = [i \in Indices |-> 0]
    /\ head = 0 /\ tail = 0
    /\ pushed = 0 /\ popped = 0
    /\ callback = FALSE
    /\ sched = 0
    /\ frames = 0
    /\ pc = "idle" /\ op = "any" /\ inCallback = FALSE
    /\ req = NoRequest /\ wrapped = FALSE /\ count = 0
    /\ failed = FALSE
    /\ silent = FALSE

Used(h, t) == (h - t) % RX_BUF_SIZE

(* Mutant: the slot that tells full from empty is used too. *)
RoomAll(h, t) == RX_BUF_SIZE - Used(h, t)

Room(h, t) == RX_BUF_SIZE - 1 - Used(h, t)

-----------------------------------------------------------------------------
(* The radio interrupt.                                                    *)

(* rx_fifo_push: nothing is popped meanwhile, so once the ring is full the *)
(* rest of the frame is dropped                                            *)
rx_fifo_push(len) ==
    LET room == Room(head, tail)
        n == IF len < room THEN len ELSE room
        At(i) == (i - head) % RX_BUF_SIZE
    IN /\ buf' = [i \in Indices |-> IF At(i) < n THEN pushed + 1 + At(i) ELSE buf[i]]
       /\ head' = (head + n) % RX_BUF_SIZE
       /\ pushed' = pushed + n
       /\ UNCHANGED <<tail, popped>>

(* Mutant: the handler is only scheduled when the ring was empty. *)
ScheduleOnEmpty ==
    IF callback /\ head = tail /\ sched < SchedDepth THEN sched + 1 ELSE sched

(* the queue of scheduled calls after mp_sched_schedule *)
Schedule == IF callback /\ sched < SchedDepth THEN sched + 1 ELSE sched

(* mod_isler_rx_isr on a frame whose second byte is f *)
Frame(f) ==
    LET len == (f + 2) % Byte
    IN /\ frames < MaxFrames
       /\ frames' = frames + 1
       /\ IF len > 0 /\ len < Byte - 1 THEN rx_fifo_push(len) ELSE UNCHANGED fifo
       /\ sched' = Schedule
       /\ silent' = (silent \/ (~callback /\ head' # head))
       /\ UNCHANGED <<callback, call, failed>>

-----------------------------------------------------------------------------
(* Python.                                                                 *)

(* iSLER.irq(handler), iSLER.irq(None): calls already in the scheduler's   *)
(* queue stay there, with the handler they were scheduled for.             *)
Irq(on) ==
    /\ pc = "idle"
    /\ callback' = on
    /\ UNCHANGED <<fifo, sched, frames, call, failed, silent>>

Call(o, r, c) ==
    /\ pc = "idle"
    /\ pc' = "test" /\ op' = o /\ req' = r /\ inCallback' = c
    /\ UNCHANGED <<fifo, callback, frames, wrapped, count, silent>>

CallAny == Call("any", NoRequest, FALSE) /\ UNCHANGED <<sched, failed>>
CallRead(r) == Call("read", r, FALSE) /\ UNCHANGED <<sched, failed>>

(* The VM runs a scheduled call between two opcodes. *)
RunCallback ==
    /\ sched > 0
    /\ sched' = sched - 1
    /\ failed' = FALSE
    /\ Call("read", NoRequest, TRUE)

(* Mutants: the count is signed; it is off by one once the ring has wrapped. *)
CountedSigned(w, h, t) == IF w THEN (RX_BUF_SIZE - t) + h ELSE h - t
CountedPlusOne(w, h, t) ==
    IF w THEN (RX_BUF_SIZE - t) + h + 1 ELSE (h - t) % SizeT

(* rx_fifo_count: a test, then the expression it selected *)
Counted(w, h, t) == IF w THEN (RX_BUF_SIZE - t) + h ELSE (h - t) % SizeT

Test ==
    /\ pc = "test"
    /\ wrapped' = (head < tail)
    /\ pc' = "count"
    /\ UNCHANGED <<fifo, callback, sched, frames, op, inCallback, req, count, failed, silent>>

(* MP_OBJ_NEW_SMALL_INT and back: an object is the number shifted left by  *)
(* one bit in a word, so that the top bit is lost and the next is the sign *)
SmallInt(n) ==
    LET half == SizeT \div 2
        m == n % half
    IN IF m < half \div 2 THEN m ELSE m - half

Count ==
    /\ pc = "count"
    /\ LET n == Counted(wrapped, head, tail)
       IN count' = IF op = "any" THEN SmallInt(n) ELSE n
    /\ pc' = IF op = "any" THEN "idle" ELSE "alloc"
    /\ UNCHANGED <<fifo, callback, sched, frames, op, inCallback, req, wrapped, failed, silent>>

(* bytes iSLER.read() returns when n are counted *)
Wanted(n) == IF req # NoRequest /\ req < n THEN req ELSE n

(* vstr_init_len raises MemoryError on a length the heap cannot hold. *)
Alloc ==
    LET n == Wanted(count)
    IN /\ pc = "alloc"
       /\ count' = n
       /\ pc' = IF n = 0 \/ n > HeapSize THEN "idle" ELSE "pop"
       /\ failed' = (failed \/ (inCallback /\ n > HeapSize))
       /\ UNCHANGED <<fifo, callback, sched, frames, op, inCallback, req, wrapped, silent>>

(* rx_fifo_pop; on an empty ring it returns -1 and moves nothing *)
Pop ==
    /\ pc = "pop"
    /\ IF head = tail THEN UNCHANGED <<tail, popped>>
                      ELSE /\ tail' = (tail + 1) % RX_BUF_SIZE
                           /\ popped' = popped + 1
    /\ count' = count - 1
    /\ pc' = IF count = 1 THEN "idle" ELSE "pop"
    /\ silent' = (silent /\ tail' # head)
    /\ UNCHANGED <<buf, head, pushed, callback, sched, frames, op, inCallback, req,
                   wrapped, failed>>

Steps == Test \/ Count \/ Alloc \/ Pop

Next ==
    \/ \E f \in FrameLens : Frame(f)
    \/ (\E on \in BOOLEAN : Irq(on)) \/ CallAny \/ (\E r \in Requests \cup {NoRequest} : CallRead(r))
    \/ RunCallback \/ Steps

(* A call, once begun, runs on.  A scheduled call is looked for between    *)
(* any two opcodes and at every 1 ms tick, so the main program cannot keep *)
(* ahead of it for ever by calling any() and read(): strong fairness.      *)
Spec == Init /\ [][Next]_vars /\ WF_vars(Steps) /\ SF_vars(RunCallback)

-----------------------------------------------------------------------------
(* Properties.                                                             *)

(* The indices stay in the ring, and read() never works on a count that no *)
(* heap could hold.                                                        *)
TypeOK ==
    /\ buf \in [Indices -> Nat]
    /\ head \in Indices /\ tail \in Indices
    /\ pushed \in Nat /\ popped \in Nat
    /\ callback \in BOOLEAN
    /\ sched \in 0..SchedDepth
    /\ frames \in 0..MaxFrames
    /\ pc \in {"idle", "test", "count", "alloc", "pop"}
    /\ op \in {"any", "read"}
    /\ inCallback \in BOOLEAN /\ wrapped \in BOOLEAN
    /\ req \in Requests \cup {NoRequest}
    /\ count \in Int
    /\ pc = "alloc" => count \in Nat
    /\ pc = "pop" => count \in 1..HeapSize
    /\ failed \in BOOLEAN /\ silent \in BOOLEAN

(* The ring holds exactly the accepted bytes that were not taken, in their *)
(* order, and the next one read() gets is the oldest: whatever the         *)
(* interrupt does between Python's steps no accepted byte is overwritten,  *)
(* skipped or delivered twice.                                             *)
FifoExact ==
    /\ pushed - popped = Used(head, tail)
    /\ \A i \in Indices :
          LET d == (i - tail) % RX_BUF_SIZE
          IN d < Used(head, tail) => buf[i] = popped + 1 + d

(* read() never pops an empty ring, though it counts first, pops later and *)
(* is interrupted in between: the -1 of rx_fifo_pop would reach Python as  *)
(* a byte 255 (line 111).  Only the form without a length has this: there  *)
(* a count the interrupt falsified is a MemoryError, while read(len) cuts  *)
(* it to len and pops that many.                                           *)
NoUnderrun == pc = "pop" /\ req = NoRequest => count <= Used(head, tail)

(* While bytes wait and no handler runs, a call of it is scheduled, though *)
(* the result of mp_sched_schedule is ignored, the queue may be full and   *)
(* irq(None) may have taken the callback away since.  Left out: bytes that *)
(* came with no callback set, and a handler that died.                     *)
NoLostWakeup ==
    head # tail /\ ~silent /\ ~failed =>
        sched > 0 \/ (inCallback /\ pc # "idle")

(* So, unless it dies, the handler empties the ring each time bytes wait.  *)
EventuallyDrained ==
    (head # tail) ~> (head = tail \/ failed \/ silent)

(* The comment at line 88, "Returns number of bytes available": what any() *)
(* returns is a number of bytes, 0 or more, and the ring holds that many.  *)
AnyIsAvailable ==
    [][pc = "count" /\ op = "any" /\ pc' = "idle" => count' \in 0..Used(head, tail)]_vars

=============================================================================
