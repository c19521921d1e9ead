------------------------------ MODULE GhostFs -------------------------------
(***************************************************************************)
(* What the mass-storage packets mean: usbfs_cdc_msc.c serves a FAT16      *)
(* volume that does not exist.  Only one file does, main.py, in the RAM    *)
(* disk; the boot sector, the FATs and the root directory are made up when *)
(* they are read, and writes are watched for two things: the directory     *)
(* entry of main.py, which gives its cluster and size, and data written to *)
(* that cluster or above, which goes to the RAM disk.  Python reads the    *)
(* file through open("main.py") of ram_main_py.c.                          *)
(*                                                                         *)
(* The bulk-only protocol underneath is UsbMsc: a command is served whole  *)
(* before the next one, so packets of different commands never mix.  One   *)
(* packet is one unit of data here, and a unit's content is the file it    *)
(* belongs to, the version of that file and its place in it.               *)
(*                                                                         *)
(* The host's FAT driver is not under src/.  It puts a file in a cluster   *)
(* of its choice and writes its data and its directory entry in either     *)
(* order; it knows which cluster the directory says main.py is in.  It may *)
(* be unplugged between two commands, also in the middle of a save, and    *)
(* then finds its way again from the boot sector when it mounts.           *)
(***************************************************************************)
EXTENDS Integers

CONSTANTS
    SectorUnits,       \* packets in a sector: 8
    ClusterSectors,    \* sectors in a cluster: 8
    RamUnits,          \* packets in msc_ram_disk: 32, half a cluster
    Clusters,          \* clusters the host may choose
    Sizes,             \* sizes of main.py the host saves, in units
    InitSize,          \* size of the built-in main.py
    MaxSaves,          \* bound: saves in a behaviour
    ForeignAnywhere    \* whether other files may lie above main.py

(* The first sectors of the FATs, the root directory and the data.         *)
START_FAT1 == 1
START_FAT2 == 17
START_ROOT == 33
START_DATA == 65

FILE_CLUSTER == 2
ClusterUnits == ClusterSectors * SectorUnits

ASSUME LayoutAssumption ==
    /\ SectorUnits \in Nat \ {0} /\ ClusterSectors \in Nat \ {0}
    /\ RamUnits \in 1..(ClusterSectors * SectorUnits)
ASSUME HostFsAssumption ==
    /\ Clusters \subseteq Nat /\ \A c \in Clusters : c >= FILE_CLUSTER
    /\ Sizes \subseteq Nat
    /\ InitSize \in 1..RamUnits
    /\ MaxSaves \in Nat
    /\ ForeignAnywhere \in BOOLEAN

RamIndices == 0..(RamUnits - 1)

VARIABLES
    msc_ram_disk,
    active_file_cluster, active_file_size,
    mounted,    \* the host has read the root directory since it was plugged in
    torn,       \* the last save was cut short or its data dropped
    msc_current_offset,     \* of the WRITE 10 being served, in units
    msc_bytes_remaining,    \* of it, in units
    writing,                \* the host's command: "none", "data" or "dir" of
                            \* main.py, "other"
    save,       \* the save in progress: [cluster, size, todo, dropped]
    ver,        \* saves begun
    file,       \* [ver, size] of main.py as last saved
    pos,        \* position of Python's file object
    reading     \* [at, size, len] of ram_file_read: "idle"; "tested", with
                \* the size the test saw; "copy" of len units

disk == <<msc_ram_disk, active_file_cluster, active_file_size>>
transfer == <<msc_current_offset, msc_bytes_remaining, writing>>
host == <<save, ver, file, mounted, torn>>
python == <<pos, reading>>
vars == <<disk, transfer, host, python>>

Main(v, u) == [of |-> "main", ver |-> v, unit |-> u]
Other == [of |-> "other", ver |-> 0, unit |-> 0]
Zero == [of |-> "zero", ver |-> 0, unit |-> 0]

NotReading == [at |-> "idle", size |-> 0, len |-> 0]

Clamp(n) == IF n > RamUnits THEN RamUnits ELSE n

Init ==
    /\ msc_ram_disk = [u \in RamIndices |-> IF u < InitSize THEN Main(0, u) ELSE Zero]
    /\ active_file_cluster = FILE_CLUSTER
    /\ active_file_size = InitSize
    /\ msc_current_offset = 0 /\ msc_bytes_remaining = 0 /\ writing = "none"
    /\ save = [cluster |-> 0, size |-> 0, todo |-> {}, dropped |-> FALSE]
    /\ ver = 0
    /\ file = [ver |-> 0, size |-> InitSize]
    /\ pos = 0
    /\ mounted = TRUE /\ torn = FALSE
    /\ reading = NotReading

-----------------------------------------------------------------------------
(* The device: HandleDataOut in MSC_DATA_OUT, MSC_PrepareDataIn for READ.  *)

(* Mutant: the size is taken as the directory has it. *)
SnoopUnclamped(cluster, size) ==
    IF cluster # 0
    THEN /\ active_file_cluster' = cluster
         /\ active_file_size' = size
    ELSE UNCHANGED <<active_file_cluster, active_file_size>>

(* a directory entry of main.py is written; cluster 0 is ignored *)
Snoop(cluster, size) ==
    IF cluster # 0
    THEN /\ active_file_cluster' = cluster
         /\ active_file_size' = Clamp(size)
    ELSE UNCHANGED <<active_file_cluster, active_file_size>>

TargetCluster(offset) == 2 + (offset \div SectorUnits - START_DATA) \div ClusterSectors

(* Mutant: the place in the RAM disk is taken from the start of the data   *)
(* area, not of the cluster.                                               *)
ByteOffsetOfArea(offset) == offset - START_DATA * SectorUnits

ByteOffset(offset) ==
    ((offset \div SectorUnits - START_DATA) % ClusterSectors) * SectorUnits
        + (offset % SectorUnits)

(* one packet of data at offset *)
Store(offset, content) ==
    msc_ram_disk' =
        IF TargetCluster(offset) >= active_file_cluster /\ ByteOffset(offset) < RamUnits
        THEN [msc_ram_disk EXCEPT ![ByteOffset(offset)] = content]
        ELSE msc_ram_disk

(* What the boot sector says of the volume. *)
BootSector ==
    [bytesPerSector |-> 512, sectorsPerCluster |-> ClusterSectors, reserved |-> 1,
     fats |-> 2, rootEntries |-> 512, sectorsPerFat |-> 16]

(* Byte i of FAT sector lba: two reserved entries and the end of a chain,  *)
(* in the first sector of either FAT; all else is free.                    *)
FatByte(lba, i) ==
    IF lba \notin {START_FAT1, START_FAT2} \/ i >= 6 THEN 0
    ELSE IF i = 0 THEN 248 ELSE 255

(* Mutant: the entry keeps the size it was built with. *)
RootDirEntryOld == [cluster |-> FILE_CLUSTER, size |-> InitSize]

(* The entry of main.py in the first sector of the root directory. *)
RootDirEntry == [cluster |-> FILE_CLUSTER, size |-> active_file_size]

(* the sector that packet n of a READ 10 from lba comes from *)
CurrentLba(lba, n) == lba + n \div SectorUnits

(* Packet n of a READ 10 from lba, in the data area. *)
Serve(lba, n) ==
    LET at == (CurrentLba(lba, n) - START_DATA) * SectorUnits + (n % SectorUnits)
    IN IF CurrentLba(lba, n) >= START_DATA /\ at < RamUnits THEN msc_ram_disk[at] ELSE Zero

(* READ 10 of START_ROOT: the entry is sent, and from now on the file is   *)
(* taken to be in FILE_CLUSTER.  A host that was unplugged has mounted.    *)
ReadRoot ==
    /\ writing = "none"
    /\ active_file_cluster' = RootDirEntry.cluster
    /\ mounted' = TRUE
    /\ UNCHANGED <<msc_ram_disk, active_file_size, transfer, save, ver, file, torn, python>>

(* HandleDataOut in MSC_IDLE, on WRITE 10. *)
WriteCommand(offset, units, what) ==
    /\ writing = "none"
    /\ msc_current_offset' = offset
    /\ msc_bytes_remaining' = units
    /\ writing' = what

(* What the host puts at offset: the units of main.py, then padding. *)
Content(offset) ==
    LET u == offset - (START_DATA + (save.cluster - 2) * ClusterSectors) * SectorUnits
    IN IF writing = "data" /\ u < save.size THEN Main(ver, u) ELSE Other

(* One packet of a WRITE 10.  The packet that holds the directory entry of *)
(* main.py is the first of its sector.                                     *)
WritePacket ==
    /\ msc_bytes_remaining > 0
    /\ IF msc_current_offset \div SectorUnits >= START_DATA
       THEN /\ Store(msc_current_offset, Content(msc_current_offset))
            /\ UNCHANGED <<active_file_cluster, active_file_size>>
       ELSE /\ IF msc_current_offset % SectorUnits = 0
               THEN Snoop(save.cluster, save.size)
               ELSE UNCHANGED <<active_file_cluster, active_file_size>>
            /\ UNCHANGED msc_ram_disk
    /\ msc_current_offset' = msc_current_offset + 1
    /\ msc_bytes_remaining' = msc_bytes_remaining - 1
    /\ UNCHANGED <<writing, host, python>>

-----------------------------------------------------------------------------
(* The host.                                                               *)

Saving == save.todo # {}

(* A save of main.py with s units.  An empty file has no cluster and no    *)
(* data.                                                                   *)
StartSave(c, s) ==
    /\ mounted /\ ~Saving
    /\ ver < MaxSaves
    /\ ver' = ver + 1
    /\ save' = IF s = 0 THEN [cluster |-> 0, size |-> 0, todo |-> {"dir"}, dropped |-> FALSE]
                        ELSE [cluster |-> c, size |-> s, todo |-> {"dir", "data"}, dropped |-> FALSE]
    /\ UNCHANGED <<disk, transfer, file, mounted, torn, python>>

WriteDir ==
    /\ "dir" \in save.todo
    /\ WriteCommand(START_ROOT * SectorUnits, SectorUnits, "dir")
    /\ UNCHANGED <<disk, host, python>>

(* Data that comes before its entry, for a cluster below the one the       *)
(* device knows, is dropped, and the host not told.                        *)
WriteData ==
    /\ "data" \in save.todo
    /\ WriteCommand((START_DATA + (save.cluster - 2) * ClusterSectors) * SectorUnits,
                    ((save.size + SectorUnits - 1) \div SectorUnits) * SectorUnits, "data")
    /\ save' = [save EXCEPT !.dropped = save.cluster < active_file_cluster]
    /\ UNCHANGED <<disk, ver, file, mounted, torn, python>>

(* The host has the status of its command.  A save is done when both its  *)
(* parts are.                                                              *)
Written ==
    /\ writing # "none" /\ msc_bytes_remaining = 0
    /\ writing' = "none"
    /\ save' = [save EXCEPT !.todo = @ \ {writing}]
    /\ IF Saving /\ save'.todo = {} /\ save.size > 0
       THEN file' = [ver |-> ver, size |-> save.size] /\ torn' = save.dropped
       ELSE UNCHANGED <<file, torn>>
    /\ UNCHANGED <<disk, msc_current_offset, msc_bytes_remaining, ver, mounted, python>>

(* The host goes away between two commands and forgets what it was doing. *)
(* The device runs on and is told nothing.                                *)
Unplug ==
    /\ mounted /\ writing = "none"
    /\ mounted' = FALSE
    /\ torn' = (torn \/ Saving)
    /\ save' = [save EXCEPT !.todo = {}]
    /\ UNCHANGED <<disk, transfer, ver, file, python>>

(* A sector of another file, in another cluster than main.py. *)
WriteForeign(c) ==
    /\ mounted
    /\ c # active_file_cluster
    /\ Saving => c # save.cluster
    /\ ForeignAnywhere \/ c < active_file_cluster
    /\ WriteCommand((START_DATA + (c - 2) * ClusterSectors) * SectorUnits, SectorUnits, "other")
    /\ UNCHANGED <<disk, host, python>>

-----------------------------------------------------------------------------
(* Python: ram_main_py.c.                                                  *)

(* open("main.py") *)
Open ==
    /\ reading.at = "idle"
    /\ pos' = 0
    /\ UNCHANGED <<disk, transfer, host, reading>>

(* read(): at the end of the file nothing follows *)
ReadTest ==
    /\ reading.at = "idle"
    /\ pos < active_file_size
    /\ reading' = [at |-> "tested", size |-> active_file_size, len |-> 0]
    /\ UNCHANGED <<disk, transfer, host, pos>>

(* active_file_size is not volatile in this file, so the length comes from *)
(* the load of the test or from a second one.  If the file shrank below    *)
(* the position in between, the length wraps to more than any heap has:    *)
(* MemoryError.                                                            *)
ReadLength ==
    /\ reading.at = "tested"
    /\ \E size \in {reading.size, active_file_size} :
          reading' = IF size >= pos
                     THEN [at |-> "copy", size |-> size, len |-> size - pos]
                     ELSE NotReading
    /\ UNCHANGED <<disk, transfer, host, pos>>

(* the position moves when the copy is made *)
ReadEnd ==
    /\ reading.at = "copy"
    /\ pos' = pos + reading.len
    /\ reading' = NotReading
    /\ UNCHANGED <<disk, transfer, host>>

Next ==
    \/ \E c \in Clusters, s \in Sizes : StartSave(c, s)
    \/ WriteDir \/ WriteData \/ WritePacket \/ Written
    \/ \E c \in Clusters : WriteForeign(c)
    \/ ReadRoot \/ Unplug
    \/ Open \/ ReadTest \/ ReadLength \/ ReadEnd

Spec == Init /\ [][Next]_vars

-----------------------------------------------------------------------------
(* Properties.                                                             *)

(* Types; the snooped size is never more than the RAM disk holds.          *)
TypeOK ==
    /\ \A u \in RamIndices : msc_ram_disk[u].of \in {"main", "other", "zero"}
    /\ active_file_cluster \in Nat /\ active_file_size \in 0..RamUnits
    /\ msc_current_offset \in Nat /\ msc_bytes_remaining \in Nat
    /\ writing \in {"none", "data", "dir", "other"}
    /\ save.todo \subseteq {"data", "dir"} /\ save.dropped \in BOOLEAN
    /\ ver \in 0..MaxSaves /\ file.ver \in 0..ver /\ file.size \in Nat
    /\ mounted \in BOOLEAN /\ torn \in BOOLEAN
    /\ pos \in Nat
    /\ reading \in [at : {"idle", "tested", "copy"}, size : 0..RamUnits, len : 0..RamUnits]

(* No save is under way, the last one was neither cut short nor its data   *)
(* dropped, and the file is of one cluster: what it has in the next ones   *)
(* lands on its head (line 514).                                           *)
Settled == ~Saving /\ ~torn /\ file.size <= ClusterUnits

(* Between saves the RAM disk holds the file as last saved, up to what     *)
(* fits, whichever cluster the host put it in, in whatever order it wrote  *)
(* data and directory, and whatever it read or wrote below in between.  A  *)
(* save that went wrong leaves no trace after the next good one.  Saving   *)
(* an empty file is ignored.                                               *)
FileIsSaved ==
    Settled => /\ active_file_size = Clamp(file.size)
               /\ \A u \in 0..(Clamp(file.size) - 1) :
                     msc_ram_disk[u] = Main(file.ver, u)

(* How a host finds its way in the volume, from the boot sector alone.     *)
RootStart == BootSector.reserved + BootSector.fats * BootSector.sectorsPerFat
DataStart ==
    RootStart + (BootSector.rootEntries * 32) \div BootSector.bytesPerSector
SectorOf(cluster) == DataStart + (cluster - 2) * BootSector.sectorsPerCluster

(* The FAT entry of a cluster.  By its count of clusters the volume is     *)
(* FAT12, by its label FAT16, and hosts differ in which they go by.        *)
FatEntry(bits, cluster) ==
    LET at == (cluster * bits) \div 8
        Byte(i) == FatByte(BootSector.reserved + i \div 512, i % 512)
        pair == Byte(at) + 256 * Byte(at + 1)
    IN IF bits = 16 THEN pair
       ELSE IF cluster % 2 = 0 THEN pair % 4096 ELSE pair \div 16
EndOfChain(bits) == IF bits = 16 THEN 65528 ELSE 4088

(* A host that mounts afresh, and goes by the boot sector, the directory   *)
(* entry, the FAT of either kind and the data, finds the file as it was    *)
(* last saved: wherever the host that saved it had put it, what is sent is *)
(* one file of one cluster that ends there.                                *)
MountFindsFile ==
    Settled =>
        /\ RootStart = START_ROOT
        /\ RootDirEntry.size = Clamp(file.size)
        /\ RootDirEntry.size <= BootSector.sectorsPerCluster * SectorUnits
        /\ \A bits \in {12, 16} :
              FatEntry(bits, RootDirEntry.cluster) >= EndOfChain(bits)
        /\ \A u \in 0..(Clamp(file.size) - 1) :
              Serve(SectorOf(RootDirEntry.cluster), u) = Main(file.ver, u)

(* Python's copy stays inside the RAM disk, whatever sizes the host writes *)
(* between the calls of read() or within one, whatever position they left, *)
(* and however often the compiler loads the size.                          *)
ReadInBounds == pos + reading.len <= RamUnits

(* The comments at lines 510 and 521, "Only allow write if it matches the  *)
(* cluster the OS assigned to our file" and "If target_cluster !=          *)
(* active_file_cluster, it's garbage (metadata), ignore it": data of       *)
(* another file, in another cluster, does not change the RAM disk.         *)
ForeignIgnored == [][writing = "other" => UNCHANGED msc_ram_disk]_vars

=============================================================================
