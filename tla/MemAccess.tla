----------------------------- MODULE MemAccess ------------------------------
(***************************************************************************)
(* How Python reaches memory: ch32fun.RAM[...], ch32fun.ch5xx_flash and    *)
(* the register attributes of ch32fun.ch5xx and ch32fun.iSLER.             *)
(*                                                                         *)
(* Addresses and lengths arrive as mp_int_t, a signed word, and are        *)
(* compared as size_t, the unsigned word; sums wrap.  The hazards are in   *)
(* these conversions: an offset or an absolute address, a negative index,  *)
(* a slice that ends before it begins.                                     *)
(*                                                                         *)
(* Registers are modelled as memory cells: several may share bytes.  The   *)
(* tables of registers are generated and not in the repository.  Flash is  *)
(* not written: the calls that would are commented out in the code.        *)
(***************************************************************************)
EXTENDS Integers

CONSTANTS
    Word,                  \* 2^32
    Byte,                  \* 2^8
    RAM_START, RAM_SIZE,   \* 2^29, 12 KB
    Ints,                  \* the integers Python passes
    Buffers,               \* the buffers Python assigns to slices
    Registers              \* the register tables, [addr, width] in bytes

RAM_END == RAM_START + RAM_SIZE
FLASH_START == 0
FLASH_END == FLASH_START + RAM_START

RamCells == RAM_START..(RAM_END - 1)
RegCells == UNION {r.addr..(r.addr + r.width - 1) : r \in Registers}
Cells == RamCells \cup RegCells

ASSUME WordAssumption ==
    /\ Word \in Nat /\ Word > 4 /\ Byte \in Nat /\ Byte > 1
    /\ RAM_START \in Nat /\ RAM_SIZE \in Nat
    /\ 2 * RAM_START <= Word \div 2 /\ RAM_START + RAM_SIZE < Word \div 2
    /\ \A n \in Ints : n \in Int /\ -(Word \div 2) <= n /\ n < Word \div 2
ASSUME DataAssumption ==
    /\ \A b \in Buffers : b.len \in 0..(Word - 1) /\ b.data \in [0..(b.len - 1) -> 0..(Byte - 1)]
    /\ \A r \in Registers : r.addr \in Nat /\ r.width \in {1, 2, 4}
    /\ RamCells \cap RegCells = {}

VARIABLES
    mem,      \* the cells
    fault,    \* Python dereferenced the null object of "del RAM[i]"
    value,    \* the integer the last load returned
    last      \* history: the last request, meant as [from, to) within
              \* [lo, hi), and whether it was served

vars == <<mem, fault, value, last>>

Init ==
    /\ mem = [a \in Cells |-> 0]
    /\ fault = FALSE
    /\ value = 0
    /\ last = [from |-> 0, to |-> 0, lo |-> 0, hi |-> 0, ok |-> TRUE]

-----------------------------------------------------------------------------
(* Mutant: the end is compared as if it belonged to the range.             *)
check_addrStrict(addr, len, start, end) ==
    ~(addr < start \/ (addr + len) % Word >= end \/ (addr + len) % Word < addr)

(* ch32fun_check_addr, all arguments unsigned words: no ValueError *)
check_addr(addr, len, start, end) ==
    ~(addr < start \/ (addr + len) % Word > end \/ (addr + len) % Word < addr)

Requested(from, to, lo, hi, served) ==
    last' = [from |-> from, to |-> to, lo |-> lo, hi |-> hi, ok |-> served]

(* An index below RAM_START is an offset.  RAM[i] compares it unsigned,    *)
(* RAM[i:j] signed, and only the start of a slice decides for both ends.   *)
SingleAddr(i) == IF i % Word < RAM_START THEN (i % Word) + RAM_START ELSE i % Word
SliceShift(i) == IF i < RAM_START THEN RAM_START ELSE 0

(* the cells and the result of RAM[i], with what Python means by it *)
Single(i) ==
    LET a == IF i >= 0 THEN SingleAddr(i) ELSE i
        ok == check_addr(SingleAddr(i), 1, RAM_START, RAM_END)
    IN Requested(a, a + 1, RAM_START, RAM_END, ok)

Slice(i, j) ==
    LET from == i + SliceShift(i)
        ok == check_addr(from % Word, (j - i) % Word, RAM_START, RAM_END)
    IN Requested(from, j + SliceShift(i), RAM_START, RAM_END, ok)

(* RAM[i] *)
RamLoad(i) ==
    /\ Single(i)
    /\ value' = IF last'.ok THEN mem[SingleAddr(i)] ELSE value
    /\ UNCHANGED <<mem, fault>>

(* RAM[i] = v *)
RamStore(i, v) ==
    /\ Single(i)
    /\ mem' = IF last'.ok THEN [mem EXCEPT ![SingleAddr(i)] = v % Byte] ELSE mem
    /\ UNCHANGED <<fault, value>>

(* del RAM[i]: the single address has no test for a null value; what       *)
(* mp_obj_get_int makes of it is an exception or a fault.                  *)
RamDelete(i) ==
    /\ Single(i)
    /\ fault' \in {FALSE, last'.ok}
    /\ UNCHANGED <<mem, value>>

(* RAM[i:j] makes a memoryview, del RAM[i:j] raises: nothing is written. *)
RamView(i, j) ==
    /\ Slice(i, j)
    /\ UNCHANGED <<mem, fault, value>>

(* Mutant: the size of the buffer is what is copied. *)
CopiedAll(b, len) == b.len

(* bytes that RAM[...] = buffer copies into a slice of len, when the sizes *)
(* agree                                                                   *)
Copied(b, len) == IF b.len = len THEN len ELSE 0

(* RAM[i:j] = b *)
RamAssign(i, j, b) ==
    /\ Slice(i, j)
    /\ LET n == IF last'.ok THEN Copied(b, (j - i) % Word) ELSE 0
           at == last'.from
       IN mem' = [a \in Cells |-> IF a \in at..(at + n - 1) THEN b.data[a - at] ELSE mem[a]]
    /\ UNCHANGED <<fault, value>>

(* RAM[i:j] = RAM[k:k+len], a memoryview of RAM itself: memcpy on ranges   *)
(* that overlap may copy in any order.                                     *)
RamCopy(i, j, k) ==
    LET src == k + SliceShift(k)
        n == (j - i) % Word
        Offsets == 0..(n - 1)
    IN /\ Slice(i, j)
       /\ last'.ok
       /\ check_addr(src % Word, n, RAM_START, RAM_END)
       /\ \E f \in [Offsets -> Offsets] :
             /\ (src + n <= last'.from \/ last'.from + n <= src) => \A o \in Offsets : f[o] = o
             /\ mem' = [a \in Cells |-> IF a - last'.from \in Offsets
                                        THEN mem[src + f[a - last'.from]] ELSE mem[a]]
       /\ UNCHANGED <<fault, value>>

-----------------------------------------------------------------------------
(* ch5xx_flash.read(addr), read(addr, len) and write(addr, data).  erase   *)
(* does nothing and checks nothing.                                        *)
Flash(i, len) ==
    /\ Requested(i, i + len, FLASH_START, FLASH_END,
                 check_addr(i % Word, len % Word, FLASH_START, FLASH_END))
    /\ UNCHANGED <<mem, fault, value>>

FlashByte(i) == Flash(i, 1)
FlashView(i, len) == Flash(i, len)
FlashWord(i) == Flash(i, 4)
FlashBuffer(i, b) == Flash(i, b.len)

-----------------------------------------------------------------------------
(* ch5xx_attr and isler_attr on a register r.                              *)

Pow == <<1, Byte, Byte * Byte, Byte * Byte * Byte>>
(* Mutant: the cast to the width is forgotten. *)
DigitUncut(v, k) == v \div Pow[k + 1]

Digit(v, k) == (v \div Pow[k + 1]) % Byte

Loaded(r) ==
    LET At(k) == IF k < r.width THEN mem[r.addr + k] * Pow[k + 1] ELSE 0
    IN At(0) + At(1) + At(2) + At(3)

(* little-endian, cut to the width of the register *)
Stored(r, v) ==
    [a \in Cells |-> IF a \in r.addr..(r.addr + r.width - 1) THEN Digit(v, a - r.addr) ELSE mem[a]]

RegRequest(r) == Requested(r.addr, r.addr + r.width, r.addr, r.addr + r.width, TRUE)

(* mp_obj_new_int_from_uint: never negative *)
RegLoad(r) ==
    /\ RegRequest(r)
    /\ value' = Loaded(r)
    /\ UNCHANGED <<mem, fault>>

RegStore(r, v) ==
    /\ RegRequest(r)
    /\ mem' = Stored(r, v)
    /\ UNCHANGED <<fault, value>>

-----------------------------------------------------------------------------
RamStep ==
    \/ \E i \in Ints : RamLoad(i) \/ RamDelete(i)
    \/ \E i, v \in Ints : RamStore(i, v)
    \/ \E i, j \in Ints : RamView(i, j)
    \/ \E i, j \in Ints, b \in Buffers : RamAssign(i, j, b)
    \/ \E i, j, k \in Ints : RamCopy(i, j, k)

FlashStep ==
    \/ \E i \in Ints : FlashByte(i) \/ FlashWord(i)
    \/ \E i, len \in Ints : FlashView(i, len)
    \/ \E i \in Ints, b \in Buffers : FlashBuffer(i, b)

RegStep ==
    \/ \E r \in Registers : RegLoad(r)
    \/ \E r \in Registers, v \in Ints : RegStore(r, v)

Next == ~fault /\ (RamStep \/ FlashStep \/ RegStep)

Spec == Init /\ [][Next]_vars

-----------------------------------------------------------------------------
(* Properties.                                                             *)

(* Every cell holds a byte, and what a load returns is unsigned.           *)
TypeOK ==
    /\ mem \in [Cells -> 0..(Byte - 1)]
    /\ fault \in BOOLEAN
    /\ value \in Nat
    /\ last \in [from : Int, to : Int, lo : Nat, hi : Nat, ok : BOOLEAN]

(* A request is served exactly when the range Python means lies inside the *)
(* memory it names: no conversion or sum that wraps lets one outside pass, *)
(* and none inside, the ends included, is refused.                         *)
ServedIffInside ==
    last.ok <=> last.lo <= last.from /\ last.from <= last.to /\ last.to <= last.hi

(* A step changes only cells of the range it was asked for, and only if it *)
(* was served: a slice does not spill over, whatever buffer is assigned to *)
(* it, nor does a narrow register over the bytes it shares with a wide one *)
(* or the register after it.                                               *)
WritesStayInside ==
    [][\A a \in Cells :
          mem'[a] # mem[a] => last'.ok /\ a \in last'.from..(last'.to - 1)]_vars

=============================================================================
