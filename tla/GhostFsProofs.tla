----------------------------- MODULE GhostFsProofs -----------------------------
(***************************************************************************)
(* Proofs about GhostFs for every size of sector, cluster and RAM disk,    *)
(* every cluster and size the host may choose and any number of saves.     *)
(* A save is followed through its two parts: DirKnown says when the device *)
(* has the directory entry, DataKnown how much of the data it has; FileInv *)
(* is what must be left of the last good save while nothing, or nothing    *)
(* but the ignored save of an empty file, is under way.                    *)
(***************************************************************************)
EXTENDS GhostFs, ArithmeticLemmas

(* Where cluster c begins, and the packets that data of s units take.      *)
Base(c) == (START_DATA + (c - 2) * ClusterSectors) * SectorUnits
Units(s) == ((s + SectorUnits - 1) \div SectorUnits) * SectorUnits

Contents == [of : {"main", "other", "zero"}, ver : Nat, unit : Int]

RangeInv ==
    /\ msc_ram_disk \in [RamIndices -> Contents]
    /\ save \in [cluster : Nat, size : Nat, todo : SUBSET {"data", "dir"}, dropped : BOOLEAN]
    /\ save.size > 0 => save.cluster >= 2
    /\ save.size = 0 => save.cluster = 0 /\ "data" \notin save.todo

(* Where the command that is served is, by what it writes.                 *)
TransferInv ==
    /\ writing = "none" => msc_bytes_remaining = 0
    /\ writing = "dir" =>
          /\ "dir" \in save.todo /\ msc_bytes_remaining <= SectorUnits
          /\ msc_current_offset = START_ROOT * SectorUnits + (SectorUnits - msc_bytes_remaining)
    /\ writing = "data" =>
          /\ "data" \in save.todo /\ msc_bytes_remaining <= Units(save.size)
          /\ msc_current_offset = Base(save.cluster) + (Units(save.size) - msc_bytes_remaining)
    /\ writing = "other" =>
          \E c \in Nat : /\ c >= 2 /\ msc_bytes_remaining <= SectorUnits
                         /\ msc_current_offset = Base(c) + (SectorUnits - msc_bytes_remaining)
                         /\ ~ForeignAnywhere => c < active_file_cluster

DirKnown == "dir" \notin save.todo \/ (writing = "dir" /\ msc_bytes_remaining < SectorUnits)

(* The units of the file that have been sent, of those that fit.           *)
DataKnown ==
    IF "data" \notin save.todo THEN 0..(Clamp(save.size) - 1)
    ELSE IF writing = "data"
         THEN {u \in 0..(Clamp(save.size) - 1) : u < Units(save.size) - msc_bytes_remaining}
         ELSE {}

SaveInv ==
    Saving /\ save.size > 0 =>
        /\ DirKnown => active_file_size = Clamp(save.size)
        /\ ~save.dropped =>
              /\ writing = "data" => active_file_cluster <= save.cluster
              /\ save.size <= ClusterUnits =>
                    \A u \in DataKnown : msc_ram_disk[u] = Main(ver, u)

FileInv ==
    ~torn /\ (~Saving \/ save.size = 0) /\ file.size <= ClusterUnits =>
        /\ active_file_size = Clamp(file.size)
        /\ \A u \in 0..(Clamp(file.size) - 1) : msc_ram_disk[u] = Main(file.ver, u)

ReadInv ==
    /\ reading.at # "copy" => reading.len = 0
    /\ ReadInBounds

IInv == TypeOK /\ RangeInv /\ TransferInv /\ ReadInv /\ (~ForeignAnywhere => SaveInv /\ FileInv)

-----------------------------------------------------------------------------
(* The layout of the volume.                                               *)

(* What the proofs need of the sizes: the RAM disk has a unit and is no    *)
(* longer than a cluster.                                                  *)
LEMMA Layout ==
    /\ SectorUnits \in Nat /\ SectorUnits > 0 /\ ClusterSectors \in Nat /\ ClusterSectors > 0
    /\ ClusterUnits \in Nat /\ RamUnits \in Nat /\ RamUnits >= 1 /\ RamUnits <= ClusterUnits
    /\ \A s \in Nat : Clamp(s) \in 0..RamUnits /\ Clamp(s) <= s
<1>1. \A m, n \in Nat : m * n \in Nat
  OBVIOUS
<1>2. /\ SectorUnits \in Nat /\ SectorUnits > 0 /\ ClusterSectors \in Nat /\ ClusterSectors > 0
      /\ ClusterUnits \in Nat /\ RamUnits \in Nat /\ RamUnits >= 1 /\ RamUnits <= ClusterUnits
  BY <1>1, LayoutAssumption DEF ClusterUnits
<1> QED
  BY <1>2 DEF Clamp

(* Packet k of what lies from cluster c on is in the data area, and while  *)
(* it is in that cluster it belongs at k of the RAM disk.                  *)
LEMMA Place ==
    ASSUME NEW c \in Nat, c >= 2, NEW k \in Nat
    PROVE  /\ Base(c) \in Nat
           /\ (Base(c) + k) \div SectorUnits >= START_DATA
           /\ k < ClusterUnits => /\ TargetCluster(Base(c) + k) = c
                                 /\ ByteOffset(Base(c) + k) = k
<1> DEFINE u == SectorUnits
           s == ClusterSectors
           a == k \div u
           b == k - a * u
           n == (c - 2) * s
           q == START_DATA + n + a
           offset == Base(c) + k
<1>1. u \in Nat /\ u > 0 /\ s \in Nat /\ s > 0 /\ ClusterUnits = s * u
  BY Layout DEF ClusterUnits
<1>2. a \in Nat /\ a * u <= k /\ k < a * u + u
  BY <1>1, Quotient
<1>3. c - 2 \in Nat /\ n \in Nat
  BY <1>1, Product
<1>4. Base(c) = (START_DATA + n) * u
  BY DEF Base
<1> HIDE DEF u, s, a, n
<1>5. a * u \in Nat /\ b \in Nat /\ b < u /\ k = a * u + b
  BY <1>1, <1>2
<1>6. q \in Nat /\ q >= START_DATA /\ START_DATA \in Nat
  BY <1>2, <1>3 DEF START_DATA
<1>7. offset = q * u + b /\ (START_DATA + n) * u \in Nat
  <2>1. \A i, j \in Nat : (i + j) * u = i * u + j * u /\ i * u \in Nat
    BY <1>1
  <2>2. START_DATA + n \in Nat
    BY <1>3, <1>6
  <2>3. q * u = (START_DATA + n) * u + a * u /\ (START_DATA + n) * u \in Nat
    BY <1>2, <2>1, <2>2
  <2> QED
    BY <1>4, <1>5, <2>3
<1> HIDE DEF b, q
<1>8. (q * u + b) \div u = q /\ (q * u + b) % u = b
  <2>1. q \in Int /\ u \in Nat /\ b \in Nat /\ b < u
    BY <1>1, <1>5, <1>6
  <2> QED
    BY <2>1, QuotientIs
<1>9. ASSUME k < ClusterUnits
      PROVE  TargetCluster(offset) = c /\ ByteOffset(offset) = k
  <2>1. a < s
    <3>1. ASSUME s <= a
          PROVE  FALSE
      <4>1. s * u <= a * u
        BY <1>1, <1>2, <3>1, Product
      <4> QED
        BY <1>1, <1>2, <1>5, <1>9, <4>1
    <3> QED
      BY <1>1, <1>2, <3>1
  <2>2. q - START_DATA = (c - 2) * s + a
    BY <1>2, <1>3, <1>6 DEF q, n
  <2>3. (q - START_DATA) \div s = c - 2 /\ (q - START_DATA) % s = a
    <3> DEFINE m == c - 2
    <3>1. m \in Int /\ s \in Nat /\ a \in Nat /\ a < s /\ q - START_DATA = m * s + a
      BY <1>1, <1>2, <1>3, <2>1, <2>2
    <3> HIDE DEF m
    <3>2. (m * s + a) \div s = m /\ (m * s + a) % s = a
      BY <3>1, QuotientIs
    <3> QED
      BY <3>1, <3>2 DEF m
  <2>4. offset \div u = q /\ offset % u = b
    BY <1>7, <1>8
  <2>5. TargetCluster(offset) = 2 + (q - START_DATA) \div s
    BY <2>4 DEF TargetCluster, u, s
  <2>6. ByteOffset(offset) = ((q - START_DATA) % s) * u + b
    BY <2>4 DEF ByteOffset, u, s
  <2> QED
    BY <1>3, <1>5, <2>3, <2>5, <2>6
<1> QED
  BY <1>4, <1>6, <1>7, <1>8, <1>9 DEF u

(* The sectors of a file hold it, and lie in its cluster if it does.       *)
LEMMA Sectors ==
    ASSUME NEW s \in Nat
    PROVE  /\ Units(s) \in Nat /\ s <= Units(s)
           /\ s <= ClusterUnits => Units(s) <= ClusterUnits
<1> DEFINE u == SectorUnits
           n == ClusterSectors
           q == (s + u - 1) \div u
<1>1. u \in Nat /\ u > 0 /\ n \in Nat /\ ClusterUnits = n * u
  BY Layout DEF ClusterUnits
<1>2. q \in Nat /\ q * u <= s + u - 1 /\ s + u - 1 < q * u + u
  <2>1. s + u - 1 \in Nat
    BY <1>1
  <2> QED
    BY <1>1, <2>1, Quotient
<1>3. Units(s) = q * u
  BY DEF Units
<1> HIDE DEF u, n, q
<1>4. q * u \in Nat /\ s <= q * u
  BY <1>1, <1>2
<1>5. ASSUME s <= n * u
      PROVE  q * u <= n * u
  <2>1. ASSUME n + 1 <= q
        PROVE  FALSE
    <3>1. (n + 1) * u <= q * u /\ (n + 1) * u = n * u + u
      BY <1>1, <1>2, <2>1, Product
    <3> QED
      BY <1>1, <1>2, <1>4, <1>5, <3>1
  <2> QED
    BY <1>1, <1>2, <2>1, Product
<1> QED
  BY <1>1, <1>3, <1>4, <1>5

-----------------------------------------------------------------------------
(* What a packet does, by the command it belongs to.                       *)

(* The types of the variables one by one, for the arithmetic that follows. *)
LEMMA Typing ==
    ASSUME TypeOK, RangeInv
    PROVE  /\ msc_ram_disk \in [RamIndices -> Contents]
           /\ active_file_cluster \in Nat /\ active_file_size \in 0..RamUnits
           /\ msc_current_offset \in Nat /\ msc_bytes_remaining \in Nat
           /\ writing \in {"none", "data", "dir", "other"}
           /\ save \in [cluster : Nat, size : Nat, todo : SUBSET {"data", "dir"}, dropped : BOOLEAN]
           /\ save.cluster \in Nat /\ save.size \in Nat /\ ver \in Nat
           /\ file.ver \in Nat /\ file.size \in Nat
  BY HostFsAssumption DEF TypeOK, RangeInv

(* A packet of the directory stores nothing, and the first one of the      *)
(* sector is snooped.                                                      *)
LEMMA DirPacket ==
    ASSUME TypeOK, RangeInv, TransferInv, WritePacket, writing = "dir"
    PROVE  /\ msc_ram_disk' = msc_ram_disk
           /\ msc_bytes_remaining = SectorUnits => Snoop(save.cluster, save.size)
           /\ msc_bytes_remaining # SectorUnits =>
                  active_file_cluster' = active_file_cluster /\ active_file_size' = active_file_size
<1> DEFINE r == SectorUnits - msc_bytes_remaining
<1>1. /\ SectorUnits \in Nat /\ msc_bytes_remaining \in Nat /\ msc_bytes_remaining > 0
      /\ msc_bytes_remaining <= SectorUnits
      /\ msc_current_offset = START_ROOT * SectorUnits + r
  BY Layout, Typing DEF TransferInv, WritePacket
<1>2. r \in Nat /\ r < SectorUnits /\ (r = 0 <=> msc_bytes_remaining = SectorUnits)
  BY <1>1
<1>3. START_ROOT \in Int /\ ~(START_ROOT >= START_DATA)
  BY DEF START_ROOT, START_DATA
<1> HIDE DEF r
<1>4. msc_current_offset \div SectorUnits = START_ROOT /\ msc_current_offset % SectorUnits = r
  BY <1>1, <1>2, <1>3, QuotientIs
<1> QED
  BY <1>2, <1>3, <1>4 DEF WritePacket

(* Any other packet is stored, if anything is.                             *)
LEMMA StoredPacket ==
    ASSUME TypeOK, RangeInv, TransferInv, WritePacket, NEW c \in Nat, c >= 2, NEW k \in Nat,
           msc_current_offset = Base(c) + k
    PROVE  /\ active_file_cluster' = active_file_cluster /\ active_file_size' = active_file_size
           /\ Store(msc_current_offset, Content(msc_current_offset))
           /\ msc_ram_disk' \in [RamIndices -> Contents]
<1>1. msc_current_offset \div SectorUnits >= START_DATA
  BY Place
<1>2. /\ active_file_cluster' = active_file_cluster /\ active_file_size' = active_file_size
      /\ Store(msc_current_offset, Content(msc_current_offset))
  BY <1>1 DEF WritePacket
<1>3. Content(msc_current_offset) \in Contents
  <2>1. msc_current_offset - (START_DATA + (save.cluster - 2) * ClusterSectors) * SectorUnits \in Int
    BY Typing, Layout DEF START_DATA
  <2> QED
    BY <2>1, Typing DEF Content, Contents, Main, Other
<1> QED
  BY <1>2, <1>3, Typing DEF Store

(* A packet of the file stores its unit of the RAM disk and no other, if   *)
(* the cluster is not below the known one and the file no longer than a    *)
(* cluster.                                                                *)
LEMMA DataPacket ==
    ASSUME TypeOK, RangeInv, TransferInv, WritePacket, writing = "data"
    PROVE  /\ active_file_cluster' = active_file_cluster /\ active_file_size' = active_file_size
           /\ msc_ram_disk' \in [RamIndices -> Contents]
           /\ active_file_cluster <= save.cluster /\ save.size <= ClusterUnits =>
                 \A u \in RamIndices : u < save.size =>
                    msc_ram_disk'[u] = IF u = Units(save.size) - msc_bytes_remaining
                                       THEN Main(ver, u) ELSE msc_ram_disk[u]
<1> DEFINE c == save.cluster
           k == Units(save.size) - msc_bytes_remaining
<1>1. /\ msc_bytes_remaining \in Nat /\ msc_bytes_remaining > 0 /\ Units(save.size) \in Nat
      /\ msc_bytes_remaining <= Units(save.size)
      /\ msc_current_offset = Base(c) + k
  BY Typing, Sectors DEF TransferInv, WritePacket
<1>2. c \in Nat /\ c >= 2 /\ save.size \in Nat /\ save.size > 0
  BY Typing DEF TransferInv, RangeInv
<1>3. k \in Nat /\ k < Units(save.size)
  BY <1>1
<1>4. /\ active_file_cluster' = active_file_cluster /\ active_file_size' = active_file_size
      /\ Store(msc_current_offset, Content(msc_current_offset))
      /\ msc_ram_disk' \in [RamIndices -> Contents]
  BY <1>1, <1>2, <1>3, StoredPacket
<1>5. ASSUME active_file_cluster <= c, save.size <= ClusterUnits, NEW u \in RamIndices, u < save.size
      PROVE  msc_ram_disk'[u] = IF u = k THEN Main(ver, u) ELSE msc_ram_disk[u]
  <2>1. k < ClusterUnits
    BY <1>1, <1>2, <1>3, <1>5, Sectors, Layout
  <2>2. TargetCluster(msc_current_offset) = c /\ ByteOffset(msc_current_offset) = k
    BY <1>1, <1>2, <1>3, <2>1, Place
  <2>3. Base(c) \in Nat /\ msc_current_offset - Base(c) = k
    BY <1>1, <1>2, <1>3, Place
  <2>4. Content(msc_current_offset) = IF k < save.size THEN Main(ver, k) ELSE Other
    BY <2>3 DEF Content, Base
  <2>5. msc_ram_disk' = IF k < RamUnits
                        THEN [msc_ram_disk EXCEPT ![k] = Content(msc_current_offset)]
                        ELSE msc_ram_disk
    BY <1>2, <1>4, <1>5, <2>2, Typing DEF Store
  <2> HIDE DEF k
  <2>6. u < RamUnits
    BY Layout DEF RamIndices
  <2>7. CASE u = k
    BY <1>5, <2>4, <2>5, <2>6, <2>7, Typing
  <2>8. CASE u # k
    BY <2>5, <2>8, Typing
  <2> QED
    BY <2>7, <2>8
<1> QED
  BY <1>4, <1>5

(* Below the cluster of main.py nothing is stored.                         *)
LEMMA OtherPacket ==
    ASSUME TypeOK, RangeInv, TransferInv, WritePacket, writing = "other"
    PROVE  /\ active_file_cluster' = active_file_cluster /\ active_file_size' = active_file_size
           /\ msc_ram_disk' \in [RamIndices -> Contents]
           /\ ~ForeignAnywhere => msc_ram_disk' = msc_ram_disk
<1> DEFINE k == SectorUnits - msc_bytes_remaining
<1>1. PICK c \in Nat : /\ c >= 2 /\ msc_bytes_remaining <= SectorUnits
                       /\ msc_current_offset = Base(c) + k
                       /\ ~ForeignAnywhere => c < active_file_cluster
  BY DEF TransferInv
<1>2. SectorUnits \in Nat /\ msc_bytes_remaining \in Nat /\ msc_bytes_remaining > 0
  BY Layout, Typing DEF WritePacket
<1>3. k \in Nat /\ k < SectorUnits
  BY <1>1, <1>2
<1>4. SectorUnits <= ClusterUnits
  <2>1. 1 * SectorUnits <= ClusterSectors * SectorUnits
    BY Layout, Product
  <2> QED
    BY <1>2, <2>1 DEF ClusterUnits
<1>5. /\ active_file_cluster' = active_file_cluster /\ active_file_size' = active_file_size
      /\ Store(msc_current_offset, Content(msc_current_offset))
      /\ msc_ram_disk' \in [RamIndices -> Contents]
  BY <1>1, <1>3, StoredPacket
<1>6. TargetCluster(msc_current_offset) = c
  BY <1>1, <1>2, <1>3, <1>4, Place, Layout
<1>7. ~ForeignAnywhere => ~(TargetCluster(msc_current_offset) >= active_file_cluster)
  BY <1>1, <1>6, Typing
<1> QED
  BY <1>5, <1>7 DEF Store

-----------------------------------------------------------------------------
(* Types and transfers.                                                    *)

(* The first four parts hold at the start.                                 *)
LEMMA InitTyped == Init => TypeOK /\ RangeInv /\ TransferInv /\ ReadInv
<1> SUFFICES ASSUME Init
             PROVE  TypeOK /\ RangeInv /\ TransferInv /\ ReadInv
  OBVIOUS
<1>1. InitSize \in Nat /\ InitSize <= RamUnits /\ RamUnits \in Nat /\ MaxSaves \in Nat
  BY HostFsAssumption, Layout
<1>2. msc_ram_disk \in [RamIndices -> Contents]
  BY DEF Init, RamIndices, Contents, Main, Zero
<1>3. TypeOK
  <2>1. \A u \in RamIndices : msc_ram_disk[u].of \in {"main", "other", "zero"}
    BY <1>2 DEF Contents
  <2>2. /\ active_file_cluster \in Nat /\ active_file_size \in 0..RamUnits
        /\ msc_current_offset \in Nat /\ msc_bytes_remaining \in Nat
        /\ ver \in 0..MaxSaves /\ file.ver \in 0..ver /\ file.size \in Nat /\ pos \in Nat
    BY <1>1 DEF Init, FILE_CLUSTER
  <2>3. reading \in [at : {"idle", "tested", "copy"}, size : 0..RamUnits, len : 0..RamUnits]
    BY <1>1 DEF Init, NotReading
  <2>4. /\ writing \in {"none", "data", "dir", "other"}
        /\ save.todo \subseteq {"data", "dir"} /\ save.dropped \in BOOLEAN
        /\ mounted \in BOOLEAN /\ torn \in BOOLEAN
    BY DEF Init
  <2> QED
    BY <2>1, <2>2, <2>3, <2>4 DEF TypeOK
<1>4. RangeInv
  BY <1>2 DEF Init, RangeInv
<1>5. TransferInv
  BY DEF Init, TransferInv
<1>6. ReadInv
  BY <1>1 DEF Init, ReadInv, ReadInBounds, NotReading
<1> QED
  BY <1>3, <1>4, <1>5, <1>6

(* Snooping takes over a cluster and a size within the RAM disk.           *)
LEMMA SnoopTyped ==
    ASSUME TypeOK, RangeInv, Snoop(save.cluster, save.size)
    PROVE  active_file_cluster' \in Nat /\ active_file_size' \in 0..RamUnits
  BY Typing, Layout DEF Snoop

(* What the host may ask for.                                              *)
LEMMA Choices ==
    /\ \A c \in Clusters : c \in Nat /\ c >= 2
    /\ \A s \in Sizes : s \in Nat
    /\ SectorUnits \in Nat /\ START_ROOT * SectorUnits \in Nat
    /\ \A s \in Nat : Units(s) \in Nat
    /\ \A c \in Nat : c >= 2 => Base(c) \in Nat
<1>1. \A c \in Nat : c >= 2 => Base(c) \in Nat
  BY Place
<1>2. START_ROOT * SectorUnits \in Nat
  BY Layout DEF START_ROOT
<1> QED
  BY <1>1, <1>2, HostFsAssumption, Layout, Sectors DEF FILE_CLUSTER

(* WRITE 10 of the file's data: where it begins, how much comes, and       *)
(* whether the device will drop it.                                        *)
LEMMA DataCommand ==
    ASSUME TypeOK, RangeInv, WriteData
    PROVE  /\ writing = "none" /\ writing' = "data" /\ "data" \in save.todo
           /\ msc_current_offset' = Base(save.cluster) /\ msc_bytes_remaining' = Units(save.size)
           /\ msc_current_offset' \in Nat /\ msc_bytes_remaining' \in Nat
           /\ save.size > 0 /\ save.cluster >= 2
           /\ save' \in [cluster : Nat, size : Nat, todo : SUBSET {"data", "dir"}, dropped : BOOLEAN]
           /\ save'.cluster = save.cluster /\ save'.size = save.size /\ save'.todo = save.todo
           /\ save'.dropped = (save.cluster < active_file_cluster)
<1>1. /\ writing = "none" /\ writing' = "data" /\ "data" \in save.todo
      /\ msc_current_offset' = Base(save.cluster) /\ msc_bytes_remaining' = Units(save.size)
  BY DEF WriteData, WriteCommand, Base, Units
<1>2. save.size > 0 /\ save.cluster >= 2 /\ save.cluster \in Nat /\ save.size \in Nat
  BY <1>1, Typing DEF RangeInv
<1>3. Base(save.cluster) \in Nat /\ Units(save.size) \in Nat
  BY <1>2, Choices
<1> DEFINE low == save.cluster < active_file_cluster
<1>4. save' = [save EXCEPT !.dropped = low]
  BY DEF WriteData
<1>5. low \in BOOLEAN
  BY <1>2, Typing
<1> HIDE DEF low
<1>6. /\ save' \in [cluster : Nat, size : Nat, todo : SUBSET {"data", "dir"}, dropped : BOOLEAN]
      /\ save'.cluster = save.cluster /\ save'.size = save.size /\ save'.todo = save.todo
      /\ save'.dropped = low
  BY <1>4, <1>5, Typing
<1> QED
  BY <1>1, <1>2, <1>3, <1>6 DEF low

TypedNext == TypeOK' /\ RangeInv'

(* Every action keeps the types and the ranges, whatever the host writes   *)
(* where.                                                                  *)
LEMMA TypeStep == TypeOK /\ RangeInv /\ TransferInv /\ ReadInv /\ [Next]_vars => TypedNext
<1> SUFFICES ASSUME TypeOK, RangeInv, TransferInv, ReadInv, [Next]_vars
             PROVE  TypedNext
  OBVIOUS
<1>t. /\ msc_ram_disk \in [RamIndices -> Contents]
      /\ save \in [cluster : Nat, size : Nat, todo : SUBSET {"data", "dir"}, dropped : BOOLEAN]
  BY Typing
<1>r. \A ram \in [RamIndices -> Contents] : \A u \in RamIndices : ram[u].of \in {"main", "other", "zero"}
  BY DEF Contents
<1> USE DEF TypedNext, TypeOK, RangeInv
<1>1. ASSUME NEW c \in Clusters, NEW s \in Sizes, StartSave(c, s)
      PROVE  TypedNext
  <2>1. c \in Nat /\ c >= 2 /\ s \in Nat
    BY Choices
  <2>2. ver' \in 0..MaxSaves /\ file' = file /\ file.ver \in 0..ver'
    BY <1>1, HostFsAssumption DEF StartSave
  <2>3. CASE s = 0
    <3>1. save' = [cluster |-> 0, size |-> 0, todo |-> {"dir"}, dropped |-> FALSE]
      BY <1>1, <2>3 DEF StartSave
    <3>2. /\ save' \in [cluster : Nat, size : Nat, todo : SUBSET {"data", "dir"}, dropped : BOOLEAN]
          /\ save'.cluster = 0 /\ save'.size = 0 /\ save'.todo = {"dir"} /\ save'.dropped = FALSE
      BY <3>1
    <3> QED
      BY <1>1, <1>t, <2>2, <3>2 DEF StartSave, disk, transfer, python
  <2>4. CASE s # 0
    <3>1. save' = [cluster |-> c, size |-> s, todo |-> {"dir", "data"}, dropped |-> FALSE]
      BY <1>1, <2>4 DEF StartSave
    <3>2. /\ save' \in [cluster : Nat, size : Nat, todo : SUBSET {"data", "dir"}, dropped : BOOLEAN]
          /\ save'.cluster = c /\ save'.size = s /\ save'.todo = {"dir", "data"} /\ save'.dropped = FALSE
      BY <2>1, <3>1
    <3> QED
      BY <1>1, <1>t, <2>1, <2>2, <2>4, <3>2 DEF StartSave, disk, transfer, python
  <2> QED
    BY <2>3, <2>4
<1>2. CASE WriteDir
  BY <1>2, <1>t, Choices DEF WriteDir, WriteCommand, disk, host, python
<1>3. CASE WriteData
  BY <1>3, <1>t, DataCommand DEF WriteData, disk, python
<1>4. CASE WritePacket
  <2>1. writing \in {"dir", "data", "other"}
    BY <1>4, Typing DEF WritePacket, TransferInv
  <2>2. msc_ram_disk' \in [RamIndices -> Contents] /\ active_file_cluster' \in Nat /\ active_file_size' \in 0..RamUnits
    BY <1>4, <1>t, <2>1, DirPacket, DataPacket, OtherPacket, SnoopTyped
  <2>3. msc_current_offset' \in Nat /\ msc_bytes_remaining' \in Nat
    BY <1>4 DEF WritePacket
  <2> QED
    BY <1>4, <1>t, <1>r, <2>2, <2>3 DEF WritePacket, host, python
<1>5. CASE Written
  <2>1. /\ save' \in [cluster : Nat, size : Nat, todo : SUBSET {"data", "dir"}, dropped : BOOLEAN]
        /\ save'.cluster = save.cluster /\ save'.size = save.size /\ save'.todo \subseteq save.todo
    BY <1>5, <1>t DEF Written
  <2>2. file'.ver \in 0..ver /\ file'.size \in Nat /\ torn' \in BOOLEAN
    <3>1. CASE Saving /\ save'.todo = {} /\ save.size > 0
      BY <1>5, <3>1, Typing DEF Written
    <3>2. CASE ~(Saving /\ save'.todo = {} /\ save.size > 0)
      BY <1>5, <3>2 DEF Written
    <3> QED
      BY <3>1, <3>2
  <2> QED
    BY <1>5, <1>t, <2>1, <2>2 DEF Written, disk, python
<1>6. ASSUME NEW c \in Clusters, WriteForeign(c)
      PROVE  TypedNext
  <2>1. msc_current_offset' \in Nat /\ msc_bytes_remaining' \in Nat /\ writing' = "other"
    BY <1>6, Choices DEF WriteForeign, WriteCommand, Base
  <2> QED
    BY <1>6, <1>t, <2>1 DEF WriteForeign, disk, host, python
<1>7. CASE ReadRoot
  BY <1>7, <1>t DEF ReadRoot, RootDirEntry, FILE_CLUSTER, transfer, python
<1>8. CASE Unplug
  <2>1. /\ save' \in [cluster : Nat, size : Nat, todo : SUBSET {"data", "dir"}, dropped : BOOLEAN]
        /\ save'.cluster = save.cluster /\ save'.size = save.size /\ save'.todo = {}
        /\ save'.dropped = save.dropped
    BY <1>8, <1>t DEF Unplug
  <2> QED
    BY <1>8, <1>t, <2>1 DEF Unplug, disk, transfer, python
<1>9. CASE Open
  BY <1>9, <1>t DEF Open, disk, transfer, host
<1>10. CASE ReadTest
  <2>1. reading' \in [at : {"idle", "tested", "copy"}, size : 0..RamUnits, len : 0..RamUnits]
    BY <1>10, Layout DEF ReadTest
  <2> QED
    BY <1>10, <1>t, <2>1 DEF ReadTest, disk, transfer, host
<1>11. CASE ReadLength
  <2>1. reading' \in [at : {"idle", "tested", "copy"}, size : 0..RamUnits, len : 0..RamUnits]
    <3>1. PICK size \in {reading.size, active_file_size} :
             reading' = IF size >= pos THEN [at |-> "copy", size |-> size, len |-> size - pos]
                                       ELSE NotReading
      BY <1>11 DEF ReadLength
    <3>2. size \in 0..RamUnits /\ pos \in Nat /\ RamUnits \in Nat
      BY Layout
    <3> QED
      BY <3>1, <3>2 DEF NotReading
  <2> QED
    BY <1>11, <1>t, <2>1 DEF ReadLength, disk, transfer, host
<1>12. CASE ReadEnd
  <2>1. reading' \in [at : {"idle", "tested", "copy"}, size : 0..RamUnits, len : 0..RamUnits] /\ pos' \in Nat
    BY <1>12, Layout DEF ReadEnd, NotReading
  <2> QED
    BY <1>12, <1>t, <2>1 DEF ReadEnd, disk, transfer, host
<1>13. CASE UNCHANGED vars
  BY <1>13, <1>t DEF vars, disk, transfer, host, python
<1> QED
  BY <1>1, <1>2, <1>3, <1>4, <1>5, <1>6, <1>7, <1>8, <1>9, <1>10, <1>11, <1>12, <1>13 DEF Next

(* The status of a WRITE 10 strikes its part off the save; the last one    *)
(* makes the new version the saved file.                                   *)
LEMMA WrittenShape ==
    ASSUME TypeOK, RangeInv, TransferInv, Written
    PROVE  /\ writing \in {"dir", "data", "other"} /\ msc_bytes_remaining = 0
           /\ writing' = "none" /\ msc_bytes_remaining' = 0
           /\ save'.cluster = save.cluster /\ save'.size = save.size
           /\ save'.dropped = save.dropped /\ save'.todo = save.todo \ {writing}
           /\ ver' = ver /\ UNCHANGED disk
           /\ Saving /\ ~Saving' /\ save.size > 0 =>
                 file' = [ver |-> ver, size |-> save.size] /\ torn' = save.dropped
           /\ ~(Saving /\ ~Saving' /\ save.size > 0) => file' = file /\ torn' = torn
<1>1. /\ save'.cluster = save.cluster /\ save'.size = save.size
      /\ save'.dropped = save.dropped /\ save'.todo = save.todo \ {writing}
  BY Typing DEF Written
<1>2. writing \in {"dir", "data", "other"}
  BY Typing DEF Written
<1> QED
  BY <1>1, <1>2 DEF Written, Saving

(* The command that is served stays where it is by what it writes.         *)
LEMMA TransferStep ==
    TypeOK /\ RangeInv /\ TransferInv /\ [Next]_vars => TransferInv'
<1> SUFFICES ASSUME TypeOK, RangeInv, TransferInv, [Next]_vars
             PROVE  TransferInv'
  OBVIOUS
<1>1. ASSUME NEW c \in Clusters, NEW s \in Sizes, StartSave(c, s)
      PROVE  TransferInv'
  <2>1. writing \notin {"dir", "data"}
    BY <1>1 DEF StartSave, Saving, TransferInv
  <2> QED
    BY <1>1, <2>1 DEF StartSave, TransferInv, transfer, disk
<1>2. CASE WriteDir
  <2>1. /\ writing' = "dir" /\ "dir" \in save'.todo /\ msc_bytes_remaining' = SectorUnits
        /\ msc_current_offset' = START_ROOT * SectorUnits
    BY <1>2 DEF WriteDir, WriteCommand, host
  <2>2. /\ msc_bytes_remaining' <= SectorUnits
        /\ msc_current_offset' = START_ROOT * SectorUnits + (SectorUnits - msc_bytes_remaining')
    BY <2>1, Choices
  <2> QED
    BY <2>1, <2>2 DEF TransferInv
<1>3. CASE WriteData
  <2>1. /\ writing' = "data" /\ "data" \in save'.todo
        /\ msc_bytes_remaining' = Units(save.size) /\ msc_current_offset' = Base(save.cluster)
        /\ msc_bytes_remaining' \in Nat /\ msc_current_offset' \in Nat
        /\ save'.size = save.size /\ save'.cluster = save.cluster
    BY <1>3, DataCommand
  <2>2. /\ msc_bytes_remaining' <= Units(save.size)
        /\ msc_current_offset' = Base(save.cluster) + (Units(save.size) - msc_bytes_remaining')
    BY <2>1
  <2> QED
    BY <2>1, <2>2 DEF TransferInv, Base, Units
<1>4. CASE WritePacket
  <2>1. /\ writing' = writing /\ save' = save
        /\ msc_current_offset' = msc_current_offset + 1
        /\ msc_bytes_remaining' = msc_bytes_remaining - 1
        /\ msc_bytes_remaining > 0 /\ msc_bytes_remaining \in Nat
    BY <1>4, Typing DEF WritePacket, host
  <2>2. \A b \in Nat, n \in Nat :
          /\ msc_bytes_remaining <= n => msc_bytes_remaining' <= n
          /\ msc_current_offset = b + (n - msc_bytes_remaining) =>
                msc_current_offset' = b + (n - msc_bytes_remaining')
    BY <2>1
  <2>3. CASE writing = "dir"
    BY <2>1, <2>2, <2>3, Choices DEF TransferInv
  <2>4. CASE writing = "data"
    <3>1. Units(save.size) \in Nat /\ Base(save.cluster) \in Nat
      BY <2>4, Typing, Choices DEF TransferInv, RangeInv
    <3> QED
      BY <2>1, <2>2, <2>4, <3>1 DEF TransferInv, Base, Units
  <2>5. CASE writing = "other"
    <3>1. PICK c \in Nat : /\ c >= 2 /\ msc_bytes_remaining <= SectorUnits
                           /\ msc_current_offset = Base(c) + (SectorUnits - msc_bytes_remaining)
                           /\ ~ForeignAnywhere => c < active_file_cluster
      BY <2>5 DEF TransferInv
    <3>2. Base(c) \in Nat /\ active_file_cluster' = active_file_cluster
      BY <1>4, <2>5, <3>1, Choices, OtherPacket
    <3>3. /\ msc_bytes_remaining' <= SectorUnits
          /\ msc_current_offset' = Base(c) + (SectorUnits - msc_bytes_remaining')
      BY <2>2, <3>1, <3>2, Choices
    <3> QED
      BY <2>1, <2>5, <3>1, <3>2, <3>3 DEF TransferInv, Base
  <2>6. writing # "none"
    BY <2>1 DEF TransferInv
  <2> QED
    BY <2>3, <2>4, <2>5, <2>6, Typing
<1>5. CASE Written
  BY <1>5, WrittenShape DEF TransferInv
<1>6. ASSUME NEW c \in Clusters, WriteForeign(c)
      PROVE  TransferInv'
  <2>1. c \in Nat /\ c >= 2 /\ Base(c) \in Nat
    BY Choices
  <2>2. /\ writing' = "other" /\ msc_bytes_remaining' = SectorUnits
        /\ msc_current_offset' = Base(c) /\ active_file_cluster' = active_file_cluster
        /\ ~ForeignAnywhere => c < active_file_cluster
    BY <1>6 DEF WriteForeign, WriteCommand, Base, disk
  <2>3. /\ msc_bytes_remaining' <= SectorUnits
        /\ msc_current_offset' = Base(c) + (SectorUnits - msc_bytes_remaining')
    BY <2>1, <2>2, Choices
  <2> QED
    BY <2>1, <2>2, <2>3 DEF TransferInv, Base
<1>7. CASE ReadRoot \/ Unplug
  BY <1>7 DEF ReadRoot, Unplug, transfer, TransferInv
<1>8. CASE Open \/ ReadTest \/ ReadLength \/ ReadEnd
  BY <1>8 DEF Open, ReadTest, ReadLength, ReadEnd, disk, transfer, host, TransferInv
<1>9. CASE UNCHANGED vars
  BY <1>9 DEF vars, disk, transfer, host, TransferInv
<1> QED
  BY <1>1, <1>2, <1>3, <1>4, <1>5, <1>6, <1>7, <1>8, <1>9 DEF Next

-----------------------------------------------------------------------------
(* Python.                                                                 *)

(* Python's read() keeps its length within the RAM disk, whatever snooping *)
(* does between its steps.                                                 *)
LEMMA ReadStep == TypeOK /\ ReadInv /\ [Next]_vars => ReadInv'
<1> SUFFICES ASSUME TypeOK, ReadInv, [Next]_vars
             PROVE  ReadInv'
  OBVIOUS
<1>t. /\ RamUnits \in Nat /\ pos \in Nat /\ active_file_size \in Nat /\ active_file_size <= RamUnits
      /\ reading.len \in Nat /\ reading.size \in Nat /\ reading.size <= RamUnits
  BY Layout DEF TypeOK
<1>1. CASE Open
  BY <1>1, <1>t DEF Open, ReadInv, ReadInBounds
<1>2. CASE ReadTest
  BY <1>2, <1>t DEF ReadTest, ReadInv, ReadInBounds
<1>3. CASE ReadLength
  <2>1. PICK size \in {reading.size, active_file_size} :
           reading' = IF size >= pos THEN [at |-> "copy", size |-> size, len |-> size - pos]
                                     ELSE NotReading
    BY <1>3 DEF ReadLength
  <2>2. pos' = pos /\ pos + reading.len <= RamUnits
    BY <1>3 DEF ReadLength, ReadInv, ReadInBounds
  <2> QED
    BY <1>t, <2>1, <2>2 DEF ReadInv, ReadInBounds, NotReading
<1>4. CASE ReadEnd
  BY <1>4, <1>t DEF ReadEnd, ReadInv, ReadInBounds, NotReading
<1>5. CASE UNCHANGED python
  BY <1>5 DEF python, ReadInv, ReadInBounds
<1>6. ASSUME NEW c \in Clusters, WriteForeign(c) \/ \E s \in Sizes : StartSave(c, s)
      PROVE  UNCHANGED python
  BY <1>6 DEF WriteForeign, StartSave, python
<1>7. WriteDir \/ WriteData \/ WritePacket \/ Written \/ ReadRoot \/ Unplug => UNCHANGED python
  BY DEF WriteDir, WriteData, WritePacket, Written, ReadRoot, Unplug, python
<1>8. UNCHANGED vars => UNCHANGED python
  BY DEF vars
<1> QED
  BY <1>1, <1>2, <1>3, <1>4, <1>5, <1>6, <1>7, <1>8 DEF Next

-----------------------------------------------------------------------------
(* The save in progress and what is left of the last one.                  *)

(* Through every step, what a save has sent so far is known: the size from *)
(* its entry, the units from its data.                                     *)
LEMMA SaveStep ==
    TypeOK /\ RangeInv /\ TransferInv /\ SaveInv /\ ~ForeignAnywhere /\ [Next]_vars => SaveInv'
<1> SUFFICES ASSUME TypeOK, RangeInv, TransferInv, SaveInv, ~ForeignAnywhere, [Next]_vars,
                    Saving', save'.size > 0
             PROVE  /\ DirKnown' => active_file_size' = Clamp(save'.size)
                    /\ ~save'.dropped =>
                          /\ writing' = "data" => active_file_cluster' <= save'.cluster
                          /\ save'.size <= ClusterUnits =>
                                \A u \in DataKnown' : msc_ram_disk'[u] = Main(ver', u)
  BY DEF SaveInv, Saving, Main
<1> DEFINE Goal == /\ DirKnown' => active_file_size' = Clamp(save'.size)
                   /\ ~save'.dropped =>
                         /\ writing' = "data" => active_file_cluster' <= save'.cluster
                         /\ save'.size <= ClusterUnits =>
                               \A u \in DataKnown' : msc_ram_disk'[u] = Main(ver', u)
<1>n. /\ msc_bytes_remaining \in Nat /\ SectorUnits \in Nat /\ SectorUnits > 0
      /\ save.size \in Nat /\ Clamp(save.size) \in Nat
      /\ Clamp(save.size) <= save.size /\ Clamp(save.size) <= RamUnits /\ RamUnits \in Nat
      /\ Units(save.size) \in Nat /\ save.size <= Units(save.size)
  BY Typing, Layout, Sectors
<1>s. Saving /\ save.size > 0 =>
        /\ DirKnown => active_file_size = Clamp(save.size)
        /\ ~save.dropped =>
              /\ writing = "data" => active_file_cluster <= save.cluster
              /\ save.size <= ClusterUnits => \A u \in DataKnown : msc_ram_disk[u] = Main(ver, u)
  BY DEF SaveInv
(* nothing of the save changes, and no more is known *)
<1>k. ASSUME Saving, save' = save, ver' = ver, UNCHANGED disk, writing' # "data",
             DirKnown' => DirKnown, DataKnown' \subseteq DataKnown
      PROVE  Goal
  BY <1>s, <1>k DEF disk
<1>1. ASSUME NEW c \in Clusters, NEW s \in Sizes, StartSave(c, s)
      PROVE  Goal
  <2>1. writing \notin {"dir", "data"} /\ writing' = writing
    BY <1>1 DEF StartSave, Saving, TransferInv, transfer
  <2>2. save'.todo = {"dir", "data"}
    BY <1>1 DEF StartSave
  <2>3. ~DirKnown' /\ DataKnown' = {}
    BY <2>1, <2>2 DEF DirKnown, DataKnown
  <2> QED
    BY <2>1, <2>3
<1>2. CASE WriteDir
  <2>1. /\ "dir" \in save.todo /\ save' = save /\ ver' = ver /\ UNCHANGED disk
        /\ writing = "none" /\ writing' = "dir" /\ msc_bytes_remaining' = SectorUnits
    BY <1>2 DEF WriteDir, WriteCommand, host
  <2>2. ~DirKnown'
    BY <1>n, <2>1 DEF DirKnown
  <2>3. DataKnown' = DataKnown
    BY <2>1 DEF DataKnown
  <2> QED
    BY <1>k, <2>1, <2>2, <2>3 DEF Saving
<1>3. CASE WriteData
  <2>1. /\ writing = "none" /\ writing' = "data" /\ "data" \in save.todo
        /\ msc_bytes_remaining' = Units(save.size) /\ save.size > 0
        /\ save'.todo = save.todo /\ save'.size = save.size /\ save'.cluster = save.cluster
        /\ save'.dropped = (save.cluster < active_file_cluster)
        /\ UNCHANGED disk
    BY <1>3, DataCommand DEF WriteData
  <2>2. DirKnown' => DirKnown
    BY <2>1 DEF DirKnown
  <2>3. DirKnown' => active_file_size' = Clamp(save'.size)
    BY <1>s, <2>1, <2>2 DEF Saving, disk
  <2>4. ~save'.dropped => active_file_cluster' <= save'.cluster
    <3>1. save.cluster \in Nat /\ active_file_cluster \in Nat
      BY Typing
    <3>2. ~(save.cluster < active_file_cluster) => active_file_cluster <= save.cluster
      BY <3>1
    <3> QED
      BY <2>1, <3>2 DEF disk
  <2>5. DataKnown' = {}
    <3>1. DataKnown' = {u \in 0..(Clamp(save.size) - 1) : u < Units(save.size) - Units(save.size)}
      BY <2>1 DEF DataKnown, Clamp, Units
    <3> QED
      BY <1>n, <3>1
  <2> QED
    BY <2>3, <2>4, <2>5
<1>4. CASE WritePacket
  <2>1. /\ writing' = writing /\ save' = save /\ ver' = ver
        /\ msc_bytes_remaining' = msc_bytes_remaining - 1 /\ msc_bytes_remaining > 0
        /\ Saving
    BY <1>4 DEF WritePacket, host, Saving
  <2>2. save.size > 0
    BY <2>1
  <2>3. CASE writing = "dir"
    <3>1. UNCHANGED msc_ram_disk /\ DataKnown' = DataKnown
      BY <1>4, <2>1, <2>3, DirPacket DEF DataKnown
    <3>2. active_file_size' = Clamp(save.size)
      <4>1. CASE msc_bytes_remaining = SectorUnits
        <5>1. save.cluster # 0
          BY <2>2, Typing DEF RangeInv
        <5> QED
          BY <1>4, <2>3, <4>1, <5>1, DirPacket DEF Snoop
      <4>2. CASE msc_bytes_remaining # SectorUnits
        <5>1. msc_bytes_remaining < SectorUnits
          BY <1>n, <2>3, <4>2 DEF TransferInv
        <5>2. active_file_size = Clamp(save.size)
          BY <1>s, <2>1, <2>2, <2>3, <5>1 DEF DirKnown
        <5> QED
          BY <1>4, <2>3, <4>2, <5>2, DirPacket
      <4> QED
        BY <4>1, <4>2
    <3> QED
      BY <1>s, <2>1, <2>2, <2>3, <3>1, <3>2
  <2>4. CASE writing = "data"
    <3>1. /\ active_file_cluster' = active_file_cluster /\ active_file_size' = active_file_size
          /\ active_file_cluster <= save.cluster /\ save.size <= ClusterUnits =>
                \A u \in RamIndices : u < save.size =>
                   msc_ram_disk'[u] = IF u = Units(save.size) - msc_bytes_remaining
                                      THEN Main(ver, u) ELSE msc_ram_disk[u]
      BY <1>4, <2>4, DataPacket
    <3>2. DirKnown' => DirKnown
      BY <2>1, <2>4 DEF DirKnown
    <3>3. "data" \in save.todo
      BY <2>4 DEF TransferInv
    <3>4. \A u \in DataKnown' :
             /\ u \in RamIndices /\ u < save.size
             /\ u = Units(save.size) - msc_bytes_remaining \/ u \in DataKnown
      <4>1. DataKnown = {u \in 0..(Clamp(save.size) - 1) : u < Units(save.size) - msc_bytes_remaining}
        BY <2>4, <3>3 DEF DataKnown
      <4>2. DataKnown' = {u \in 0..(Clamp(save.size) - 1) : u < Units(save.size) - msc_bytes_remaining'}
        BY <2>1, <2>4, <3>3 DEF DataKnown, Clamp, Units
      <4>3. ASSUME NEW u \in 0..(Clamp(save.size) - 1), u < Units(save.size) - msc_bytes_remaining'
            PROVE  /\ u \in RamIndices /\ u < save.size
                   /\ u = Units(save.size) - msc_bytes_remaining \/ u < Units(save.size) - msc_bytes_remaining
        BY <1>n, <2>1, <4>3 DEF RamIndices
      <4> QED
        BY <4>1, <4>2, <4>3
    <3>5. ~save.dropped /\ save.size <= ClusterUnits =>
             \A u \in DataKnown' : msc_ram_disk'[u] = Main(ver, u)
      BY <1>s, <2>1, <2>2, <2>4, <3>1, <3>4
    <3> QED
      BY <1>s, <2>1, <2>2, <2>4, <3>1, <3>2, <3>5
  <2>5. CASE writing = "other"
    <3>1. UNCHANGED disk
      BY <1>4, <2>5, OtherPacket DEF disk
    <3>2. (DirKnown' => DirKnown) /\ DataKnown' = DataKnown
      BY <2>1, <2>5 DEF DirKnown, DataKnown
    <3> QED
      BY <1>k, <2>1, <2>5, <3>1, <3>2
  <2>6. writing # "none"
    BY <1>n, <2>1 DEF TransferInv
  <2> QED
    BY <2>3, <2>4, <2>5, <2>6, Typing
<1>5. CASE Written
  <2>1. /\ writing \in {"dir", "data", "other"} /\ msc_bytes_remaining = 0 /\ writing' = "none"
        /\ save'.size = save.size /\ save'.dropped = save.dropped
        /\ save'.todo = save.todo \ {writing} /\ ver' = ver /\ UNCHANGED disk
    BY <1>5, WrittenShape
  <2>2. Saving /\ save.size > 0
    BY <2>1 DEF Saving
  <2>3. DirKnown' => DirKnown
    BY <1>n, <2>1 DEF DirKnown
  <2>4. DataKnown' \subseteq DataKnown
    <3>1. CASE writing = "data"
      <4>1. DataKnown = {u \in 0..(Clamp(save.size) - 1) : u < Units(save.size) - 0}
        BY <2>1, <3>1 DEF DataKnown, TransferInv
      <4>2. DataKnown' = 0..(Clamp(save.size) - 1)
        BY <2>1, <3>1 DEF DataKnown, Clamp
      <4> QED
        BY <1>n, <4>1, <4>2
    <3>2. CASE writing # "data"
      BY <2>1, <3>2 DEF DataKnown
    <3> QED
      BY <3>1, <3>2
  <2> QED
    BY <1>s, <2>1, <2>2, <2>3, <2>4 DEF disk
<1>6. ASSUME NEW c \in Clusters, WriteForeign(c)
      PROVE  Goal
  <2>1. /\ writing = "none" /\ writing' = "other" /\ save' = save /\ ver' = ver /\ UNCHANGED disk
    BY <1>6 DEF WriteForeign, WriteCommand, host
  <2>2. (DirKnown' => DirKnown) /\ DataKnown' \subseteq DataKnown
    BY <2>1 DEF DirKnown, DataKnown
  <2> QED
    BY <1>k, <2>1, <2>2 DEF Saving
<1>7. CASE ReadRoot
  <2>1. /\ writing = "none" /\ writing' = writing /\ msc_bytes_remaining' = msc_bytes_remaining
        /\ save' = save /\ ver' = ver
        /\ msc_ram_disk' = msc_ram_disk /\ active_file_size' = active_file_size
    BY <1>7 DEF ReadRoot, transfer
  <2>2. DirKnown' = DirKnown /\ DataKnown' = DataKnown
    BY <2>1 DEF DirKnown, DataKnown
  <2> QED
    BY <1>s, <2>1, <2>2 DEF Saving
<1>8. CASE Unplug
  <2>1. save'.todo = {}
    BY <1>8, Typing DEF Unplug
  <2> QED
    BY <2>1 DEF Saving
<1>9. CASE Open \/ ReadTest \/ ReadLength \/ ReadEnd \/ UNCHANGED vars
  <2>1. UNCHANGED <<disk, transfer, host>>
    BY <1>9 DEF Open, ReadTest, ReadLength, ReadEnd, vars
  <2>2. DirKnown' = DirKnown /\ DataKnown' = DataKnown
    BY <2>1 DEF DirKnown, DataKnown, transfer, host
  <2> QED
    BY <1>s, <2>1, <2>2 DEF Saving, disk, transfer, host
<1> QED
  BY <1>1, <1>2, <1>3, <1>4, <1>5, <1>6, <1>7, <1>8, <1>9 DEF Next

(* Outside a save, the last file saved whole is in the RAM disk; a save    *)
(* that ends hands it over.                                                *)
LEMMA FileStep ==
    TypeOK /\ RangeInv /\ TransferInv /\ SaveInv /\ FileInv /\ ~ForeignAnywhere /\ [Next]_vars
        => FileInv'
<1> SUFFICES ASSUME TypeOK, RangeInv, TransferInv, SaveInv, FileInv, ~ForeignAnywhere, [Next]_vars
             PROVE  FileInv'
  OBVIOUS
<1>k. ASSUME UNCHANGED <<msc_ram_disk, active_file_size, file>>,
             ~torn' /\ (~Saving' \/ save'.size = 0) => ~torn /\ (~Saving \/ save.size = 0)
      PROVE  FileInv'
  BY <1>k DEF FileInv
<1>1. ASSUME NEW c \in Clusters, NEW s \in Sizes, StartSave(c, s)
      PROVE  FileInv'
  BY <1>1, <1>k DEF StartSave, disk
<1>2. CASE WriteDir
  BY <1>2, <1>k DEF WriteDir, host, disk, Saving
<1>3. CASE WriteData
  <2>1. save'.size > 0 /\ save'.size \in Nat /\ Saving'
    BY <1>3, DataCommand, Typing DEF Saving
  <2> QED
    BY <2>1 DEF FileInv
<1>4. CASE WritePacket
  <2>1. save' = save /\ file' = file /\ torn' = torn
    BY <1>4 DEF WritePacket, host
  <2>2. CASE Saving /\ save.size # 0
    BY <2>1, <2>2 DEF FileInv, Saving
  <2>3. CASE ~(Saving /\ save.size # 0)
    <3>1. writing \in {"dir", "other"} /\ (writing = "dir" => save.cluster = 0)
      <4>1. writing # "none"
        BY <1>4, Typing DEF WritePacket, TransferInv
      <4>2. writing # "data"
        BY <2>3 DEF TransferInv, Saving, RangeInv
      <4>3. writing = "dir" => save.size = 0
        BY <2>3 DEF TransferInv, Saving
      <4> QED
        BY <4>1, <4>2, <4>3, Typing DEF RangeInv
    <3>2. UNCHANGED <<msc_ram_disk, active_file_size>>
      <4>1. CASE writing = "dir"
        BY <1>4, <3>1, <4>1, DirPacket DEF Snoop
      <4>2. CASE writing = "other"
        BY <1>4, <4>2, OtherPacket
      <4> QED
        BY <3>1, <4>1, <4>2
    <3> QED
      BY <1>k, <2>1, <3>2 DEF Saving
  <2> QED
    BY <2>2, <2>3
<1>5. CASE Written
  <2>1. /\ writing \in {"dir", "data", "other"} /\ msc_bytes_remaining = 0
        /\ save'.size = save.size /\ save'.todo = save.todo \ {writing}
        /\ UNCHANGED disk
    BY <1>5, WrittenShape
  <2>2. CASE Saving /\ ~Saving' /\ save.size > 0
    <3>1. file' = [ver |-> ver, size |-> save.size] /\ torn' = save.dropped
      BY <1>5, <2>2, WrittenShape
    <3>2. file'.ver = ver /\ file'.size = save.size
      BY <3>1
    <3>3. save.todo \subseteq {writing} /\ writing \in save.todo
      BY <2>1, <2>2 DEF Saving
    <3>4. DirKnown
      BY <2>1, <3>3, Typing, Layout DEF DirKnown
    <3>5. DataKnown = 0..(Clamp(save.size) - 1)
      <4>1. CASE writing = "data"
        <5>1. DataKnown = {u \in 0..(Clamp(save.size) - 1) : u < Units(save.size) - 0}
          BY <2>1, <3>3, <4>1 DEF DataKnown
        <5>2. Clamp(save.size) \in Nat /\ Clamp(save.size) <= save.size
              /\ Units(save.size) \in Nat /\ save.size <= Units(save.size) /\ save.size \in Nat
          BY Typing, Layout, Sectors
        <5> QED
          BY <5>1, <5>2
      <4>2. CASE writing # "data"
        BY <3>3, <4>2 DEF DataKnown
      <4> QED
        BY <4>1, <4>2
    <3>6. ~save.dropped =>
             /\ active_file_size = Clamp(save.size)
             /\ save.size <= ClusterUnits =>
                   \A u \in 0..(Clamp(save.size) - 1) : msc_ram_disk[u] = Main(ver, u)
      BY <2>2, <3>4, <3>5 DEF SaveInv
    <3> QED
      BY <2>1, <3>1, <3>2, <3>6 DEF FileInv, disk, Clamp, Main
  <2>3. CASE ~(Saving /\ ~Saving' /\ save.size > 0)
    <3>1. file' = file /\ torn' = torn
      BY <1>5, <2>3, WrittenShape
    <3>2. ~Saving' \/ save'.size = 0 => ~Saving \/ save.size = 0
      BY <2>1, <2>3, Typing
    <3> QED
      BY <1>k, <2>1, <3>1, <3>2 DEF disk
  <2> QED
    BY <2>2, <2>3
<1>6. ASSUME NEW c \in Clusters, WriteForeign(c)
      PROVE  FileInv'
  BY <1>6, <1>k DEF WriteForeign, host, disk, Saving
<1>7. CASE ReadRoot
  BY <1>7, <1>k DEF ReadRoot, Saving
<1>8. CASE Unplug
  BY <1>8, <1>k DEF Unplug, disk
<1>9. CASE Open \/ ReadTest \/ ReadLength \/ ReadEnd \/ UNCHANGED vars
  <2>1. UNCHANGED <<disk, host>>
    BY <1>9 DEF Open, ReadTest, ReadLength, ReadEnd, vars
  <2> QED
    BY <1>k, <2>1 DEF disk, host, Saving
<1> QED
  BY <1>1, <1>2, <1>3, <1>4, <1>5, <1>6, <1>7, <1>8, <1>9 DEF Next

-----------------------------------------------------------------------------
(* The inductive invariant.                                                *)

(* At the start the saved file is main.py as it was flashed.               *)
LEMMA InitSaved == Init => SaveInv /\ FileInv
<1> SUFFICES ASSUME Init
             PROVE  SaveInv /\ FileInv
  OBVIOUS
<1>1. ~Saving
  BY DEF Init, Saving
<1>2. file = [ver |-> 0, size |-> InitSize] /\ active_file_size = InitSize
      /\ InitSize \in Nat /\ InitSize <= RamUnits /\ RamUnits \in Nat
  BY HostFsAssumption, Layout DEF Init
<1>3. file.ver = 0 /\ file.size = InitSize /\ Clamp(file.size) = InitSize
  BY <1>2 DEF Clamp
<1>4. ASSUME NEW u \in 0..(InitSize - 1)
      PROVE  msc_ram_disk[u] = Main(0, u)
  BY <1>2 DEF Init, RamIndices
<1> QED
  BY <1>1, <1>2, <1>3, <1>4 DEF SaveInv, FileInv

(* The transfer and the reader's invariants hold whatever the host does;   *)
(* those of the save if its other files lie below main.py.                 *)
THEOREM Inductive == Spec => []IInv
<1>1. Init => IInv
  BY InitTyped, InitSaved DEF IInv
<1>2. IInv /\ [Next]_vars => IInv'
  BY TypeStep, TransferStep, ReadStep, SaveStep, FileStep DEF IInv, TypedNext
<1> QED
  BY <1>1, <1>2, PTL DEF Spec

(* The size that the host's directory entries give is never taken for more *)
(* than the RAM disk holds.                                                *)
THEOREM TypeCorrect == Spec => []TypeOK
<1>1. IInv => TypeOK
  BY DEF IInv
<1> QED
  BY <1>1, Inductive, PTL

(* ram_file_read copies from inside the RAM disk: for every disk size, and *)
(* whatever sizes the host writes between the calls and during one.        *)
THEOREM CopiesStayInside == Spec => []ReadInBounds
<1>1. IInv => ReadInBounds
  BY DEF IInv, ReadInv
<1> QED
  BY <1>1, Inductive, PTL

(* A file of one cluster is in the RAM disk when the host has saved it, in *)
(* whatever order it wrote data and directory, and stays: for every number *)
(* of saves, if the other files of the host lie below it; ForeignIgnored   *)
(* shows that they must.                                                   *)
THEOREM SavedFileStays == ~ForeignAnywhere /\ Spec => []FileIsSaved
<1>1. ~ForeignAnywhere /\ IInv => FileIsSaved
  BY DEF IInv, FileInv, FileIsSaved, Settled
<1>2. CASE ~ForeignAnywhere
  <2>1. IInv => FileIsSaved
    BY <1>1, <1>2
  <2> QED
    BY <2>1, Inductive, PTL
<1>3. CASE ForeignAnywhere
  BY <1>3
<1> QED
  BY <1>2, <1>3

-----------------------------------------------------------------------------
(* A host that mounts the volume.                                          *)

(* The boot sector leads a host to the sectors where the device has the    *)
(* directory and the file.                                                 *)
LEMMA VolumeLayout ==
    /\ RootStart = START_ROOT /\ DataStart = START_DATA
    /\ SectorOf(FILE_CLUSTER) = START_DATA
<1>1. RootStart = 33
  BY DEF RootStart, BootSector
<1>2. DataStart = 65
  BY <1>1 DEF DataStart, BootSector
<1>3. SectorOf(FILE_CLUSTER) = DataStart
  <2>1. (FILE_CLUSTER - 2) * BootSector.sectorsPerCluster = 0
    BY Layout DEF FILE_CLUSTER, BootSector
  <2> QED
    BY <1>2, <2>1 DEF SectorOf
<1> QED
  BY <1>1, <1>2, <1>3 DEF START_ROOT, START_DATA

(* The FAT entry of main.py ends the chain, read as 12 or as 16 bits.      *)
LEMMA OneCluster ==
    \A bits \in {12, 16} : FatEntry(bits, FILE_CLUSTER) >= EndOfChain(bits)
<1>1. \A i \in 1..5 : FatByte(START_FAT1, i) = 255
  BY DEF FatByte, START_FAT1, START_FAT2
<1>2. \A i \in 1..5 : i \div 512 = 0 /\ i % 512 = i
  OBVIOUS
<1>3. \A i \in 1..5 : FatByte(BootSector.reserved + i \div 512, i % 512) = 255
  BY <1>1, <1>2 DEF BootSector, START_FAT1
<1>4. FatEntry(16, 2) >= EndOfChain(16)
  BY <1>3 DEF FatEntry, EndOfChain
<1>5. FatEntry(12, 2) >= EndOfChain(12)
  BY <1>3 DEF FatEntry, EndOfChain
<1> QED
  BY <1>4, <1>5 DEF FILE_CLUSTER

(* Packet u of the file is unit u of the RAM disk.                         *)
LEMMA ServesFile ==
    ASSUME NEW u \in Nat, u < RamUnits
    PROVE  Serve(START_DATA, u) = msc_ram_disk[u]
<1> DEFINE a == u \div SectorUnits
           b == u % SectorUnits
<1>1. a \in Nat /\ b \in Nat /\ a * SectorUnits + b = u /\ a * SectorUnits \in Nat
  BY Layout
<1>2. CurrentLba(START_DATA, u) = START_DATA + a
  BY DEF CurrentLba
<1> HIDE DEF a
<1>3. CurrentLba(START_DATA, u) >= START_DATA /\ CurrentLba(START_DATA, u) - START_DATA = a
  BY <1>1, <1>2 DEF START_DATA
<1>4. (CurrentLba(START_DATA, u) - START_DATA) * SectorUnits + (u % SectorUnits) = u
  BY <1>1, <1>3
<1> QED
  BY <1>3, <1>4 DEF Serve

(* What a host that mounts reads from the boot sector, the directory, the  *)
(* FAT and the data area is the file as it was last saved, wherever the    *)
(* host that saved it had put it.                                          *)
THEOREM FreshMountFindsFile == ~ForeignAnywhere /\ Spec => []MountFindsFile
<1>1. TypeOK /\ FileIsSaved => MountFindsFile
  <2> SUFFICES ASSUME TypeOK, FileIsSaved, Settled
               PROVE  /\ RootStart = START_ROOT
                      /\ RootDirEntry.size = Clamp(file.size)
                      /\ RootDirEntry.size <= BootSector.sectorsPerCluster * SectorUnits
                      /\ \A bits \in {12, 16} :
                            FatEntry(bits, RootDirEntry.cluster) >= EndOfChain(bits)
                      /\ \A u \in 0..(Clamp(file.size) - 1) :
                            Serve(SectorOf(RootDirEntry.cluster), u) = Main(file.ver, u)
    BY DEF MountFindsFile
  <2>1. RootDirEntry.cluster = FILE_CLUSTER /\ RootDirEntry.size = active_file_size
    BY DEF RootDirEntry
  <2>2. active_file_size = Clamp(file.size)
        /\ \A u \in 0..(Clamp(file.size) - 1) : msc_ram_disk[u] = Main(file.ver, u)
    BY DEF FileIsSaved
  <2>3. active_file_size <= BootSector.sectorsPerCluster * SectorUnits
    BY Layout DEF TypeOK, BootSector, ClusterUnits
  <2>4. \A u \in 0..(Clamp(file.size) - 1) : u \in Nat /\ u < RamUnits
    BY <2>2, Layout DEF TypeOK
  <2> QED
    BY <2>1, <2>2, <2>3, <2>4, VolumeLayout, OneCluster, ServesFile
<1> QED
  BY <1>1, TypeCorrect, SavedFileStays, PTL
=============================================================================
