-------------------------- MODULE MemAccessProofs ---------------------------
(***************************************************************************)
(* Proofs about MemAccess for every word, byte and RAM size the            *)
(* assumptions allow, and every set of integers, buffers and registers.    *)
(*                                                                         *)
(* The heart is CheckExact: the three comparisons of ch32fun_check_addr    *)
(* on wrapped sums decide whether a range of integers lies in another.     *)
(* The rest shows that each way to call it hands over words that stand for *)
(* the range Python means.                                                 *)
(***************************************************************************)
EXTENDS MemAccess, TLAPS

-----------------------------------------------------------------------------
(* Words.                                                                  *)

(* The constants as numbers: the RAM is within the word and starts in its  *)
(* first quarter, and an integer of Python is half a word at most.         *)
LEMMA Constants ==
    /\ Word \in Nat /\ Word > 1 /\ Byte \in Nat /\ Byte > 1
    /\ RAM_START \in Nat /\ RAM_END \in Nat /\ RAM_START <= RAM_END
    /\ 2 * RAM_END < 2 * Word /\ 4 * RAM_START <= Word
    /\ \A n \in Ints : n \in Int /\ -Word <= 2 * n /\ 2 * n < Word
    /\ FLASH_START = 0 /\ FLASH_END = RAM_START
<1>1. /\ 2 * (Word \div 2) <= Word
      /\ RAM_START + RAM_SIZE < Word \div 2 /\ 2 * RAM_START <= Word \div 2
      /\ Word \in Nat /\ RAM_START \in Nat /\ RAM_SIZE \in Nat
  BY WordAssumption
<1>2. \A n \in Ints : n \in Int /\ -Word <= 2 * n /\ 2 * n < Word
  BY <1>1, WordAssumption
<1> QED
  BY <1>1, <1>2, WordAssumption DEF RAM_END, FLASH_START, FLASH_END

(* Remainders modulo Word of the sums that occur.                          *)
LEMMA WordOf ==
    ASSUME NEW x \in Int, -Word <= x, x < 2 * Word
    PROVE  /\ x % Word \in 0..(Word - 1)
           /\ 0 <= x /\ x < Word => x % Word = x
           /\ x < 0 => x % Word = x + Word
           /\ Word <= x => x % Word = x - Word
  BY Constants

(* A byte is less than Byte.                                               *)
LEMMA ByteOf == ASSUME NEW x \in Int PROVE x % Byte \in 0..(Byte - 1)
  BY Constants

(* ch32fun_check_addr accepts exactly the ranges that lie, as integers,    *)
(* between its bounds: the sum that wrapped never passes for a small one.  *)
THEOREM CheckExact ==
    ASSUME NEW addr \in 0..(Word - 1), NEW len \in 0..(Word - 1),
           NEW start \in Nat, NEW end \in 0..(Word - 1)
    PROVE  check_addr(addr, len, start, end) <=> start <= addr /\ addr + len <= end
<1>1. CASE addr + len < Word
  <2>1. (addr + len) % Word = addr + len
    BY <1>1, Constants, WordOf
  <2> QED
    BY <2>1, Constants DEF check_addr
<1>2. CASE addr + len >= Word
  <2>1. (addr + len) % Word = addr + len - Word
    BY <1>2, Constants, WordOf
  <2> QED
    BY <2>1, <1>2, Constants DEF check_addr
<1> QED
  BY <1>1, <1>2, Constants

-----------------------------------------------------------------------------
(* The requests.  Request says what every one of them establishes.         *)

Inside(l) == l.lo <= l.from /\ l.from <= l.to /\ l.to <= l.hi

Request ==
    /\ last' \in [from : Int, to : Int, lo : Nat, hi : Nat, ok : BOOLEAN]
    /\ ServedIffInside'

(* A request that is recorded is served if and only if it is inside its    *)
(* bounds.                                                                 *)
LEMMA RequestedOK ==
    ASSUME NEW from \in Int, NEW to \in Int, NEW lo \in Nat, NEW hi \in Nat,
           NEW served \in BOOLEAN, served <=> lo <= from /\ from <= to /\ to <= hi,
           Requested(from, to, lo, hi, served)
    PROVE  Request /\ last'.from = from /\ last'.to = to /\ last'.ok = served
                   /\ last'.lo = lo /\ last'.hi = hi
  BY DEF Requested, Request, ServedIffInside

(* One address: an offset, an absolute address, or a negative one, which   *)
(* is refused.                                                             *)
LEMMA SingleOK ==
    ASSUME NEW i \in Ints, Single(i)
    PROVE  /\ Request
           /\ last'.ok => /\ SingleAddr(i) \in RamCells
                          /\ last'.from = SingleAddr(i) /\ last'.to = SingleAddr(i) + 1
<1> DEFINE a == IF i >= 0 THEN SingleAddr(i) ELSE i
           ok == check_addr(SingleAddr(i), 1, RAM_START, RAM_END)
<1>1. /\ i \in Int
      /\ i >= 0 => i % Word = i
      /\ i < 0 => i % Word = i + Word
  BY Constants, WordOf
<1>2. /\ SingleAddr(i) \in 0..(Word - 1)
      /\ i < 0 => SingleAddr(i) + 1 > RAM_END
  BY <1>1, Constants, WordAssumption DEF SingleAddr, RAM_END
<1>3. ok <=> RAM_START <= SingleAddr(i) /\ SingleAddr(i) + 1 <= RAM_END
  <2>1. /\ SingleAddr(i) \in 0..(Word - 1) /\ 1 \in 0..(Word - 1)
        /\ RAM_START \in Nat /\ RAM_END \in 0..(Word - 1)
    BY <1>2, Constants
  <2> QED
    BY <2>1, CheckExact, Zenon
<1>4. a \in Int /\ ok \in BOOLEAN
  <2>1. ok \in BOOLEAN
    BY Zenon DEF check_addr
  <2>2. a \in Int
    BY <1>1, <1>2
  <2> QED
    BY <2>1, <2>2, Zenon
<1>5. ok <=> RAM_START <= a /\ a <= a + 1 /\ a + 1 <= RAM_END
  <2> HIDE DEF ok
  <2> QED
    BY <1>1, <1>2, <1>3, Constants
<1>6. Requested(a, a + 1, RAM_START, RAM_END, ok)
  BY DEF Single
<1>7. Request /\ last'.from = a /\ last'.to = a + 1 /\ last'.ok = ok
  <2> HIDE DEF a, ok
  <2> QED
    BY <1>4, <1>5, <1>6, Constants, RequestedOK
<1> HIDE DEF ok
<1>8. ok => i >= 0
  BY <1>1, <1>2, <1>3, Constants
<1>9. ok => SingleAddr(i) \in RamCells
  BY <1>2, <1>3, Constants DEF RamCells
<1> QED
  BY <1>7, <1>8, <1>9

(* A slice: its length is taken from the ends before they are shifted, and *)
(* its start decides whether they are.                                     *)
LEMMA SliceRange ==
    ASSUME NEW i \in Ints, NEW n \in Int, -Word < n, n < Word, -Word <= 2 * (i + n)
    PROVE  LET from == i + SliceShift(i)
           IN /\ from \in Int
              /\ check_addr(from % Word, n % Word, RAM_START, RAM_END)
                    <=> RAM_START <= from /\ 0 <= n /\ from + n <= RAM_END
              /\ check_addr(from % Word, n % Word, RAM_START, RAM_END) => n % Word = n
<1> DEFINE from == i + SliceShift(i)
           ok == check_addr(from % Word, n % Word, RAM_START, RAM_END)
<1>1. from \in Int /\ -Word <= 2 * from /\ 2 * from < Word
  BY Constants DEF SliceShift
<1> HIDE DEF from
<1>2. /\ from % Word \in 0..(Word - 1) /\ n % Word \in 0..(Word - 1)
      /\ from >= 0 => from % Word = from
      /\ from < 0 => from % Word = from + Word
      /\ n >= 0 => n % Word = n
      /\ n < 0 => n % Word = n + Word
  <2>1. -Word <= from /\ from < 2 * Word /\ -Word <= n /\ n < 2 * Word /\ from < Word
    BY <1>1, Constants
  <2> QED
    BY <1>1, <2>1, WordOf
<1>3. RAM_START \in Nat /\ RAM_END \in 0..(Word - 1)
  BY Constants
<1>4. ok <=> RAM_START <= (from % Word) /\ (from % Word) + (n % Word) <= RAM_END
  <2>1. from % Word \in 0..(Word - 1) /\ n % Word \in 0..(Word - 1)
    BY <1>2
  <2> QED
    BY <2>1, <1>3, CheckExact, Zenon
<1> HIDE DEF ok
<1>5. 2 * RAM_END < Word
  BY WordAssumption DEF RAM_END
<1>6. from < 0 => ~ok
  BY <1>1, <1>2, <1>3, <1>4, <1>5, Constants
<1>7. n < 0 => ~ok
  <2>1. from >= i
    BY Constants DEF from, SliceShift
  <2> QED
    BY <2>1, <1>1, <1>2, <1>3, <1>4, <1>5, <1>6, Constants
<1>8. from >= 0 /\ n >= 0 => (ok <=> RAM_START <= from /\ from + n <= RAM_END)
  BY <1>1, <1>2, <1>4
<1>9. ok <=> RAM_START <= from /\ 0 <= n /\ from + n <= RAM_END
  BY <1>1, <1>3, <1>6, <1>7, <1>8
<1>10. ok => n % Word = n
  BY <1>2, <1>7
<1> QED
  BY <1>1, <1>9, <1>10 DEF ok, from

(* A slice that is served has the length Python asked for and lies in the  *)
(* RAM.                                                                    *)
LEMMA SliceOK ==
    ASSUME NEW i \in Ints, NEW j \in Ints, Slice(i, j)
    PROVE  /\ Request
           /\ last'.from \in Int
           /\ last'.ok => /\ (j - i) % Word \in Nat
                          /\ last'.to = last'.from + ((j - i) % Word)
                          /\ RAM_START <= last'.from /\ last'.to <= RAM_END
<1> DEFINE from == i + SliceShift(i)
           to == j + SliceShift(i)
           ok == check_addr(from % Word, (j - i) % Word, RAM_START, RAM_END)
<1>1. /\ j - i \in Int /\ -Word < j - i /\ j - i < Word
      /\ -Word <= 2 * (i + (j - i))
      /\ i \in Int /\ j \in Int
  BY Constants
<1>2. /\ from \in Int
      /\ ok <=> RAM_START <= from /\ 0 <= j - i /\ from + (j - i) <= RAM_END
      /\ ok => (j - i) % Word = j - i
  BY <1>1, SliceRange, Zenon
<1>3. to \in Int /\ to = from + (j - i)
  BY <1>1, Constants DEF SliceShift
<1>4. ok \in BOOLEAN
  BY Zenon DEF check_addr
<1>5. Requested(from, to, RAM_START, RAM_END, ok)
  BY DEF Slice
<1> HIDE DEF from, to, ok
<1>6. ok <=> RAM_START <= from /\ from <= to /\ to <= RAM_END
  BY <1>1, <1>2, <1>3, Constants
<1>7. /\ Request /\ last'.from = from /\ last'.to = to /\ last'.ok = ok
  BY <1>2, <1>3, <1>4, <1>5, <1>6, Constants, RequestedOK
<1> QED
  BY <1>1, <1>2, <1>3, <1>6, <1>7, Constants

(* A flash request is served if and only if it lies in the flash.          *)
LEMMA FlashOK ==
    ASSUME NEW i \in Ints, NEW len \in Int, -Word <= 2 * len, len < Word, Flash(i, len)
    PROVE  Request
<1> DEFINE ok == check_addr(i % Word, len % Word, FLASH_START, FLASH_END)
<1>1. /\ i \in Int /\ -Word <= 2 * i /\ 2 * i < Word
      /\ 4 * RAM_START <= Word /\ RAM_START \in Nat /\ Word \in Nat
  BY Constants
<1>2. /\ i % Word \in 0..(Word - 1) /\ len % Word \in 0..(Word - 1)
      /\ i >= 0 => i % Word = i
      /\ i < 0 => i % Word = i + Word
      /\ len >= 0 => len % Word = len
      /\ len < 0 => len % Word = len + Word
  <2>1. -Word <= i /\ i < 2 * Word /\ i < Word /\ -Word <= len /\ len < 2 * Word
    BY <1>1
  <2> QED
    BY <1>1, <2>1, WordOf
<1>3. FLASH_START \in Nat /\ FLASH_END \in 0..(Word - 1) /\ FLASH_START = 0 /\ FLASH_END = RAM_START
  BY Constants
<1>4. ok <=> FLASH_START <= (i % Word) /\ (i % Word) + (len % Word) <= FLASH_END
  <2>1. i % Word \in 0..(Word - 1) /\ len % Word \in 0..(Word - 1)
    BY <1>2
  <2>2. FLASH_START \in Nat /\ FLASH_END \in 0..(Word - 1)
    BY <1>3
  <2> QED
    BY <2>1, <2>2, CheckExact, Zenon
<1>5. ok \in BOOLEAN
  BY Zenon DEF check_addr
<1>6. Requested(i, i + len, FLASH_START, FLASH_END, ok)
  BY DEF Flash
<1> HIDE DEF ok
<1>7. ok <=> FLASH_START <= i /\ i <= i + len /\ i + len <= FLASH_END
  BY <1>1, <1>2, <1>3, <1>4
<1> QED
  <2>1. i + len \in Int /\ FLASH_END \in Nat
    BY <1>1, <1>3
  <2> QED
    BY <1>1, <1>3, <1>5, <1>6, <1>7, <2>1, RequestedOK

(* A register request is always served, for the bytes of the register.     *)
LEMMA RegRequestOK ==
    ASSUME NEW r \in Registers, RegRequest(r)
    PROVE  /\ Request /\ last'.ok
           /\ last'.from = r.addr /\ last'.to = r.addr + r.width
<1>1. r.addr \in Nat /\ r.addr + r.width \in Nat /\ r.addr <= r.addr + r.width
  BY DataAssumption
<1> QED
  BY <1>1 DEF RegRequest, Requested, Request, ServedIffInside

-----------------------------------------------------------------------------
(* The cells.                                                              *)

Bytes == 0..(Byte - 1)

(* A register's value is unsigned and its digits are bytes. *)
LEMMA DigitType == ASSUME NEW v \in Int, NEW k \in 0..3 PROVE Digit(v, k) \in Bytes
<1>1. Pow[k + 1] \in Nat \ {0}
  <2>1. Byte * Byte \in Nat \ {0} /\ Byte * Byte * Byte \in Nat \ {0} /\ Byte \in Nat \ {0}
    BY Constants
  <2> QED
    BY <2>1 DEF Pow
<1>2. v \div Pow[k + 1] \in Int
  BY <1>1
<1> QED
  BY <1>2, ByteOf DEF Digit, Bytes

(* What a register load returns is a number.                               *)
LEMMA LoadedType ==
    ASSUME TypeOK, NEW r \in Registers PROVE Loaded(r) \in Nat
<1>1. r.addr \in Nat /\ r.width \in {1, 2, 4}
  BY DataAssumption
<1>2. \A k \in 0..3 : k < r.width => mem[r.addr + k] \in Nat
  <2> SUFFICES ASSUME NEW k \in 0..3, k < r.width PROVE mem[r.addr + k] \in Nat
    OBVIOUS
  <2>1. r.addr + k \in Cells
    BY <1>1 DEF Cells, RegCells
  <2> QED
    BY <2>1, Constants DEF TypeOK
<1>3. \A k \in 0..3 : Pow[k + 1] \in Nat
  <2>1. Byte * Byte \in Nat /\ Byte * Byte * Byte \in Nat /\ Byte \in Nat
    BY Constants
  <2> QED
    BY <2>1 DEF Pow
<1> DEFINE At(k) == IF k < r.width THEN mem[r.addr + k] * Pow[k + 1] ELSE 0
<1>4. \A k \in 0..3 : At(k) \in Nat
  <2> SUFFICES ASSUME NEW k \in 0..3, k < r.width PROVE mem[r.addr + k] * Pow[k + 1] \in Nat
    OBVIOUS
  <2>1. mem[r.addr + k] \in Nat /\ Pow[k + 1] \in Nat
    BY <1>2, <1>3
  <2> QED
    BY <2>1
<1>5. At(0) \in Nat /\ At(1) \in Nat /\ At(2) \in Nat /\ At(3) \in Nat
  BY <1>4
<1>6. Loaded(r) = At(0) + At(1) + At(2) + At(3)
  BY DEF Loaded
<1> HIDE DEF At
<1> QED
  BY <1>5, <1>6

-----------------------------------------------------------------------------
(* The step.                                                               *)

WriteFrame ==
    \A a \in Cells : mem'[a] # mem[a] => last'.ok /\ a \in last'.from..(last'.to - 1)

StepOK == Request /\ mem' \in [Cells -> Bytes] /\ WriteFrame

(* A request that writes nothing keeps the frame.                          *)
LEMMA QuietOK ==
    ASSUME TypeOK, Request, UNCHANGED mem PROVE StepOK
  BY DEF StepOK, TypeOK, WriteFrame, Bytes

(* RAM[i] = v writes the byte at i, or nothing.                            *)
LEMMA RamStoreOK ==
    ASSUME TypeOK, NEW i \in Ints, NEW v \in Ints, RamStore(i, v) PROVE StepOK
<1>1. /\ Request
      /\ last'.ok => /\ SingleAddr(i) \in RamCells
                     /\ last'.from = SingleAddr(i) /\ last'.to = SingleAddr(i) + 1
  BY SingleOK DEF RamStore
<1>2. CASE last'.ok
  <2>1. SingleAddr(i) \in Cells /\ SingleAddr(i) \in last'.from..(last'.to - 1)
    BY <1>1, <1>2, Constants DEF Cells, RamCells
  <2>2. v % Byte \in Bytes
    BY ByteOf, Constants DEF Bytes
  <2>3. mem' = [mem EXCEPT ![SingleAddr(i)] = v % Byte] /\ mem \in [Cells -> Bytes]
    BY <1>2 DEF RamStore, TypeOK, Bytes
  <2>4. mem' \in [Cells -> Bytes]
    BY <2>2, <2>3
  <2>5. WriteFrame
    BY <1>2, <2>1, <2>3 DEF WriteFrame
  <2> QED
    BY <1>1, <2>4, <2>5 DEF StepOK
<1>3. CASE ~last'.ok
  BY <1>1, <1>3, QuietOK DEF RamStore
<1> QED
  BY <1>2, <1>3

(* RAM[i:j] = buffer writes within the slice, or nothing.                  *)
LEMMA RamAssignOK ==
    ASSUME TypeOK, NEW i \in Ints, NEW j \in Ints, NEW b \in Buffers, RamAssign(i, j, b)
    PROVE  StepOK
<1> DEFINE len == (j - i) % Word
           at == last'.from
           n == IF last'.ok THEN Copied(b, len) ELSE 0
<1>1. /\ Request /\ at \in Int
      /\ last'.ok => len \in Nat /\ last'.to = at + len
  BY SliceOK DEF RamAssign
<1>2. /\ mem' = [a \in Cells |-> IF a \in at..(at + n - 1) THEN b.data[a - at] ELSE mem[a]]
      /\ mem \in [Cells -> Bytes]
  BY DEF RamAssign, TypeOK, Bytes
<1>3. b.len \in Nat /\ b.data \in [0..(b.len - 1) -> Bytes]
  BY DataAssumption, Constants DEF Bytes
<1>4. n = 0 \/ (last'.ok /\ n = len /\ n = b.len)
  BY DEF Copied
<1>5. n \in Nat /\ (n > 0 => last'.ok /\ n = b.len /\ last'.to = at + n)
  BY <1>1, <1>3, <1>4
<1> HIDE DEF n, at, len
<1>6. ASSUME NEW a \in Cells, a \in at..(at + n - 1)
      PROVE  /\ b.data[a - at] \in Bytes
             /\ last'.ok /\ a \in at..(last'.to - 1)
  <2>1. a \in Int /\ n > 0 /\ a - at \in 0..(n - 1)
    BY <1>1, <1>5, <1>6
  <2>2. a - at \in 0..(b.len - 1) /\ last'.to = at + n /\ last'.ok
    BY <1>5, <2>1
  <2> QED
    BY <1>1, <1>3, <1>5, <1>6, <2>1, <2>2
<1>7. mem' \in [Cells -> Bytes]
  BY <1>2, <1>6
<1>8. WriteFrame
  BY <1>2, <1>6 DEF WriteFrame, at
<1> QED
  BY <1>1, <1>7, <1>8 DEF StepOK

(* RAM[i:j] = RAM[k:...] writes within the slice, overlapping or not.      *)
LEMMA RamCopyOK ==
    ASSUME TypeOK, NEW i \in Ints, NEW j \in Ints, NEW k \in Ints, RamCopy(i, j, k)
    PROVE  StepOK
<1> DEFINE src == k + SliceShift(k)
           n == (j - i) % Word
           at == last'.from
<1>1. /\ Request /\ at \in Int /\ last'.ok
      /\ n \in Nat /\ last'.to = at + n
  BY SliceOK DEF RamCopy
<1>2. src \in Int /\ RAM_START <= src /\ src + n <= RAM_END
  <2>1. j - i \in Int /\ k \in Int
    BY Constants
  <2>2. n \in 0..(Word - 1)
    BY <2>1, Constants
  <2>3. n \in Int /\ -Word < n /\ n < Word /\ -Word <= 2 * (k + n) /\ n % Word = n
    BY <2>2, Constants
  <2>4. check_addr(src % Word, n, RAM_START, RAM_END)
    BY DEF RamCopy
  <2> HIDE DEF n
  <2>5. check_addr(src % Word, n % Word, RAM_START, RAM_END)
    BY <2>3, <2>4
  <2> QED
    BY <2>3, <2>5, SliceRange, Zenon
<1>3. PICK f \in [0..(n - 1) -> 0..(n - 1)] :
         mem' = [a \in Cells |-> IF a - at \in 0..(n - 1) THEN mem[src + f[a - at]] ELSE mem[a]]
  BY DEF RamCopy
<1> HIDE DEF n, at, src
<1>4. mem \in [Cells -> Bytes]
  BY DEF TypeOK, Bytes
<1>5. ASSUME NEW a \in Cells, a - at \in 0..(n - 1)
      PROVE  mem[src + f[a - at]] \in Bytes
  <2> DEFINE o == f[a - at]
  <2>1. o \in 0..(n - 1)
    BY <1>3, <1>5
  <2> HIDE DEF o
  <2>2. src + o \in RamCells
    BY <2>1, <1>1, <1>2, Constants DEF RamCells
  <2> QED
    BY <2>2, <1>4 DEF Cells, o
<1>6. mem' \in [Cells -> Bytes]
  BY <1>3, <1>4, <1>5
<1>7. \A a \in Cells : a \in Int
  BY Constants, DataAssumption DEF Cells, RamCells, RegCells
<1>8. ASSUME NEW a \in Cells, mem'[a] # mem[a] PROVE a \in at..(last'.to - 1)
  <2>1. a - at \in 0..(n - 1) /\ a \in Int
    BY <1>3, <1>7, <1>8
  <2> QED
    BY <2>1, <1>1
<1>9. WriteFrame
  BY <1>1, <1>8 DEF WriteFrame, at
<1> QED
  BY <1>1, <1>6, <1>9 DEF StepOK

(* A register store writes the bytes of the register.                      *)
LEMMA RegStoreOK ==
    ASSUME TypeOK, NEW r \in Registers, NEW v \in Ints, RegStore(r, v) PROVE StepOK
<1>1. Request /\ last'.ok /\ last'.from = r.addr /\ last'.to = r.addr + r.width
  BY RegRequestOK DEF RegStore
<1>2. r.addr \in Nat /\ r.width \in {1, 2, 4} /\ v \in Int
  BY DataAssumption, Constants
<1>3. /\ mem' = [a \in Cells |-> IF a \in r.addr..(r.addr + r.width - 1)
                                 THEN Digit(v, a - r.addr) ELSE mem[a]]
      /\ mem \in [Cells -> Bytes]
  BY DEF RegStore, Stored, TypeOK, Bytes
<1>4. ASSUME NEW a \in r.addr..(r.addr + r.width - 1) PROVE Digit(v, a - r.addr) \in Bytes
  <2>1. a - r.addr \in 0..3
    BY <1>2
  <2> QED
    BY <1>2, <2>1, DigitType
<1>5. mem' \in [Cells -> Bytes]
  BY <1>3, <1>4
<1>6. WriteFrame
  <2> SUFFICES ASSUME NEW a \in Cells, mem'[a] # mem[a]
                PROVE  last'.ok /\ a \in last'.from..(last'.to - 1)
    BY DEF WriteFrame
  <2>1. a \in r.addr..(r.addr + r.width - 1)
    BY <1>3
  <2> QED
    BY <1>1, <1>2, <2>1
<1> QED
  BY <1>1, <1>5, <1>6 DEF StepOK

(* Every step keeps the types, serves exactly what is inside, and writes   *)
(* nothing outside its request.                                            *)
THEOREM Step ==
    TypeOK /\ [Next]_vars => TypeOK' /\ (ServedIffInside => ServedIffInside')
                               /\ (mem' # mem => WriteFrame)
<1> SUFFICES ASSUME TypeOK, [Next]_vars
             PROVE  /\ TypeOK' /\ (ServedIffInside => ServedIffInside')
                    /\ mem' # mem => WriteFrame
  OBVIOUS
<1>1. ASSUME StepOK, value' \in Nat, fault' \in BOOLEAN
      PROVE  TypeOK' /\ ServedIffInside' /\ WriteFrame
  BY <1>1 DEF StepOK, Request, TypeOK, Bytes
<1>2. CASE UNCHANGED vars
  BY <1>2 DEF vars, TypeOK, ServedIffInside
<1>3. CASE RamStep
  <2>1. ASSUME NEW i \in Ints, RamLoad(i) PROVE StepOK /\ value' \in Nat /\ fault' \in BOOLEAN
    <3>1. Request /\ (last'.ok => SingleAddr(i) \in RamCells)
      BY <2>1, SingleOK DEF RamLoad
    <3>2. value' \in Nat
      BY <2>1, <3>1, Constants DEF RamLoad, TypeOK, Cells
    <3> QED
      BY <2>1, <3>1, <3>2, QuietOK DEF RamLoad, TypeOK
  <2>2. ASSUME NEW i \in Ints, RamDelete(i) PROVE StepOK /\ value' \in Nat /\ fault' \in BOOLEAN
    <3>1. Request
      BY <2>2, SingleOK DEF RamDelete
    <3> QED
      BY <2>2, <3>1, QuietOK DEF RamDelete, TypeOK, Request
  <2>3. ASSUME NEW i \in Ints, NEW v \in Ints, RamStore(i, v)
        PROVE  StepOK /\ value' \in Nat /\ fault' \in BOOLEAN
    BY <2>3, RamStoreOK DEF RamStore, TypeOK
  <2>4. ASSUME NEW i \in Ints, NEW j \in Ints, RamView(i, j)
        PROVE  StepOK /\ value' \in Nat /\ fault' \in BOOLEAN
    BY <2>4, SliceOK, QuietOK DEF RamView, TypeOK
  <2>5. ASSUME NEW i \in Ints, NEW j \in Ints, NEW b \in Buffers, RamAssign(i, j, b)
        PROVE  StepOK /\ value' \in Nat /\ fault' \in BOOLEAN
    BY <2>5, RamAssignOK DEF RamAssign, TypeOK
  <2>6. ASSUME NEW i \in Ints, NEW j \in Ints, NEW k \in Ints, RamCopy(i, j, k)
        PROVE  StepOK /\ value' \in Nat /\ fault' \in BOOLEAN
    BY <2>6, RamCopyOK DEF RamCopy, TypeOK
  <2> QED
    BY <1>1, <1>3, <2>1, <2>2, <2>3, <2>4, <2>5, <2>6 DEF RamStep
<1>4. CASE FlashStep
  <2>1. ASSUME NEW i \in Ints, NEW len \in Int, -Word <= 2 * len, len < Word, Flash(i, len)
        PROVE  StepOK /\ value' \in Nat /\ fault' \in BOOLEAN
    BY <2>1, FlashOK, QuietOK DEF Flash, TypeOK
  <2>2. ASSUME NEW i \in Ints, FlashByte(i) \/ FlashWord(i)
        PROVE  StepOK /\ value' \in Nat /\ fault' \in BOOLEAN
    <3>1. Word \in Nat /\ Word > 4
      BY WordAssumption
    <3> QED
      BY <2>1, <2>2, <3>1 DEF FlashByte, FlashWord
  <2>3. ASSUME NEW i \in Ints, NEW len \in Ints, FlashView(i, len)
        PROVE  StepOK /\ value' \in Nat /\ fault' \in BOOLEAN
    BY <2>1, <2>3, Constants DEF FlashView
  <2>4. ASSUME NEW i \in Ints, NEW b \in Buffers, FlashBuffer(i, b)
        PROVE  StepOK /\ value' \in Nat /\ fault' \in BOOLEAN
    BY <2>1, <2>4, Constants, DataAssumption DEF FlashBuffer
  <2> QED
    BY <1>1, <1>4, <2>2, <2>3, <2>4 DEF FlashStep
<1>5. CASE RegStep
  <2>1. ASSUME NEW r \in Registers, RegLoad(r)
        PROVE  StepOK /\ value' \in Nat /\ fault' \in BOOLEAN
    <3>1. Request /\ value' \in Nat
      BY <2>1, RegRequestOK, LoadedType DEF RegLoad
    <3> QED
      BY <2>1, <3>1, QuietOK DEF RegLoad, TypeOK
  <2>2. ASSUME NEW r \in Registers, NEW v \in Ints, RegStore(r, v)
        PROVE  StepOK /\ value' \in Nat /\ fault' \in BOOLEAN
    BY <2>2, RegStoreOK DEF RegStore, TypeOK
  <2> QED
    BY <1>1, <1>5, <2>1, <2>2 DEF RegStep
<1> QED
  BY <1>2, <1>3, <1>4, <1>5 DEF Next, vars

(* Types and bounds hold at the start.                                     *)
LEMMA InitOK == Init => TypeOK /\ ServedIffInside
<1> SUFFICES ASSUME Init PROVE TypeOK /\ ServedIffInside
  OBVIOUS
<1>1. mem \in [Cells -> 0..(Byte - 1)]
  <2>1. 0 \in 0..(Byte - 1)
    BY Constants
  <2> QED
    BY <2>1 DEF Init
<1>2. last \in [from : Int, to : Int, lo : Nat, hi : Nat, ok : BOOLEAN]
  BY DEF Init
<1> QED
  <2>1. TypeOK
    BY <1>1, <1>2 DEF Init, TypeOK
  <2>2. last.ok /\ last.lo = 0 /\ last.from = 0 /\ last.to = 0 /\ last.hi = 0
    BY DEF Init
  <2>3. ServedIffInside
    BY <2>2 DEF ServedIffInside
  <2> QED
    BY <2>1, <2>3

(* Every cell holds a byte, and no load returns a negative number. *)
THEOREM TypeCorrect == Spec => []TypeOK
<1>1. TypeOK /\ [Next]_vars => TypeOK'
  BY Step
<1> QED
  BY InitOK, <1>1, PTL DEF Spec

(* RAM and flash requests are served exactly when they lie inside. *)
THEOREM RequestsAreExact == Spec => []ServedIffInside
<1>1. TypeOK /\ ServedIffInside /\ [Next]_vars => ServedIffInside'
  BY Step
<1> QED
  BY InitOK, TypeCorrect, <1>1, PTL DEF Spec

(* No write leaves the range it was asked for. *)
THEOREM WritesAreContained == Spec => WritesStayInside
<1>1. TypeOK /\ [Next]_vars =>
         [\A a \in Cells :
             mem'[a] # mem[a] => last'.ok /\ a \in last'.from..(last'.to - 1)]_vars
  BY Step DEF WriteFrame
<1> QED
  BY TypeCorrect, <1>1, PTL DEF Spec, WritesStayInside
=============================================================================
