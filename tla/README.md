# ch32fun_micropython in TLA+

The repository is the port of MicroPython to WCH's ch32/ch5xx microcontrollers:
20 C files around MicroPython and the ch32fun library, neither of which is in
the repository. This directory holds TLA+ modules of what that code decides,
TLC configurations that check them on small instances, and theorems that hold
for every value of their parameters, checked by TLAPS.

- [1. The system](#1-the-system)
- [2. Modules](#2-modules)
- [3. Runs](#3-runs)
- [4. Proofs](#4-proofs)
- [5. Disagreements](#5-disagreements)
- [6. Assumptions](#6-assumptions)
- [7. Not modelled, and the plan](#7-not-modelled-and-the-plan)

## 1. The system

One processor runs the interpreter; two interrupts, USB and radio, come between
any two of its instructions and are not interrupted themselves. There are no
locks, and few variables are volatile. The interpreter reaches the outside in
`mp_hal_background_processing` (`micropython.c:66`), which runs after every
opcode and in every wait of the HAL, and polls once a millisecond.

| component | state | operations | correct when |
|---|---|---|---|
| USB mass storage, protocol (`usbfs_cdc_msc.c`) | `msc_state`, `cbw`, `csw`, `msc_bytes_remaining`, the IN endpoint | `HandleDataOut`, `HandleInRequest` (interrupt), `poll_usb_input` and `MSC_PrepareDataIn` (both contexts) | the host gets its data in order and one status with its tag; nobody waits for ever |
| Ghost file system (`usbfs_cdc_msc.c`) | `msc_ram_disk`, `active_file_cluster`, `active_file_size` | READ 10 of sectors made up on the fly, WRITE 10 with snooping of directory entries | the RAM disk holds what the host saved last, and a host that mounts finds it |
| `main.py` from Python (`ram_main_py.c`) | position of a file object | `open`, `read` | the copy stays in the RAM disk |
| Console input (`usbfs_cdc_msc.c`, `micropython.c`, `mphalport.h`) | `usb_inputbuffer` and its index, the ring `rx_buf` | CDC packet (interrupt), `poll_usb_input`, `handle_input`, `mp_hal_stdin_rx_chr` | bytes in order, a Ctrl-C that waits for a poll gets through |
| iSLER receive (`ch32fun_isler.c`) | `rx_fifo`, `isler_callback_obj` | radio interrupt; `irq`, `any`, `read` | exact FIFO, no lost wakeup |
| iSLER transmit (`ch32fun_isler.c`) | none | `tx`, `adv` | frames fit, and a receiver takes them whole |
| Memory and registers (`modch32fun.c`, `ch32fun_ch5xx_flash.c`, `ch32fun_ch5xx.c`, `ch32fun_isler.c`) | the memory | `RAM[...]`, `ch5xx_flash.read/write`, register attributes | served if and only if inside, nothing else is written |
| HAL time (`mphalport.h`, `micropython.c`) | the tick counter, `last_usb_poll` | `ticks_*`, `delay_*`, the poll gate | a delay is long enough and ends, input is polled in time |
| Console output (`usbfs_cdc_msc.c`) | the CDC endpoint | `putchar`, `_write` | a host that does not read stops nobody |
| `machine.Pin`, `machine.Signal`, REPL, NFC stub, descriptors, configuration | little or none | one library call each | |

How they meet:

- The USB interrupt and the interpreter share the state machine and the IN
  endpoint (`UsbMsc`), the input buffer (`Console`) and the RAM disk (`GhostFs`).
- The radio interrupt and the interpreter share `rx_fifo` and the scheduler's
  queue (`IslerFifo`).
- `poll_usb_input` serves mass storage and console in the same call; each
  touches none of the other's variables, so they are modelled apart.
- The protocol serves one command at a time (shown by `UsbMsc`), so `GhostFs`
  may take the packets of a command without the protocol below them.
- Everything above but the interrupts runs when `Hal` lets it: the gate that
  opens once a millisecond, inside delays too, and the exception that Ctrl-C
  leaves pending and that ends a delay.
- A frame leaves `tx()` under one set of limits and meets another at the
  receiver (`IslerAir`), whose ring is `IslerFifo`.

What is hard here, and no unit test reaches, is listed line by line in
`PROJECT.json` under `hazards`: the endpoint loaded by two contexts, spins in an
interrupt, state tested and then used after an interrupt, buffers that move
under a loop, directory and data written in either order, a scheduler that
refuses a call, a clock that wraps before its word does, a save cut short, and
unsigned arithmetic that wraps.

## 2. Modules

| module | of | is |
|---|---|---|
| `BotSession` | mass storage | abstract: what the host may rely on, a sequence of sessions |
| `UsbMsc` | mass storage | detailed: both contexts, endpoint, host, bus resets |
| `UsbMscProofs` | mass storage | theorems, among them that `UsbMsc` implements `BotSession` |
| `GhostFs`, `GhostFsProofs` | ghost file system, `main.py` from Python | the volume and its FAT driver, theorems |
| `Console`, `ConsoleProofs` | console input | both buffers and the poll, theorems |
| `Hal`, `HalProofs` | ticks, delays, the poll gate, console output | a clock that wraps and who looks at it, theorems |
| `IslerFifo`, `IslerFifoProofs` | iSLER receive | ring, `any`, `read`, callback, theorems |
| `IslerAir`, `IslerAirProofs` | iSLER transmit to receive | a frame from one board to another, theorems |
| `MemAccess`, `MemAccessProofs` | RAM, flash, registers | addresses in word arithmetic, theorems |
| `ArithmeticLemmas` | | rings without remainders, quotients: shared by the proofs |
| `MC*` | | values of the constants for TLC |

Variables and operators have the names of the code where they stand for
something in it; `PROJECT.json` maps each to its lines. Operators commented
*Mutant* are plausible bugs and no part of any specification: each replaces the
definition that follows it to show that some property notices.

### UsbMsc

The interrupt's handlers run to completion, so each is one action together with
the packet of the host that raises it: `HostSendsCbw` and `HostSendsData` are
`HandleDataOut` (with `AcceptCbw`, `TakeData`, `IgnoreOut` for the states of the
switch), `HostTakes` is `HandleInRequest`. `MSC_PrepareDataIn` is there twice.
Called by the interrupt it is part of the action (`IrqPrepare`). Called by the
interpreter it is `Poll`, `Prepare`, `SendCsw`, `SendData`, `Update`, with the
interrupt free to come between: that is where its reads, its spin on the
endpoint and its late update of the counters can go wrong.

`ep` is the packet the endpoint holds, `NoPacket` when it is free. A spin of the
interpreter is a disabled action; a spin of the interrupt on a busy endpoint is
`irq = "hung"`, after which nothing moves. A packet is its place in the transfer
and its length. `BusReset` frees the endpoint and changes nothing else, as the
file has no handler for it. `tainted` records that the last reset found the
device at work; most properties promise nothing until a reset finds it at rest,
because the code does not recover by itself: it stays in `MSC_SEND_CSW` or takes
a command for data.

`BotSession` has no contexts, endpoint or states: *open* a session with a fresh
tag, *packet* while the host expects data, *close* with a status that has the
tag and accounts for the bytes. `ImplementsSession` maps `hphase` and `tainted`
to its phase; every other variable keeps its name.

### GhostFs

One packet is one unit. Content is *which file, which version, which unit*, so
that "the RAM disk holds the file as last saved" can be said.

The device is `WritePacket` (with `Snoop` and `Store`), `ReadRoot`, and what a
READ sends: `BootSector`, `FatByte`, `RootDirEntry`, `CurrentLba`, `Serve`. A
READ of the root directory is an action because it sets `active_file_cluster`
back; the other reads change nothing and are operators.

The host is a FAT driver. `StartSave` takes a cluster of its choice and any
size, `WriteDir` and `WriteData` come in either order, `Written` is the status of
each. `Unplug` takes the host away between two commands, also between the two of
a save, and the next `ReadRoot` mounts again. `WriteForeign` is a sector of
another file.

A save can go wrong without anybody being told: its host is unplugged, or its
data comes before its entry and for a cluster below the one known, and is
dropped. `torn` says that the last one did. `Settled` is the state the two main
properties speak of: no save under way, the last one not torn, and the file no
longer than a cluster. `MountFindsFile` reads the volume as a host would, from
the boot sector alone: where the directory is, where the data is, and the FAT
entry as 12 or as 16 bits, because the volume's cluster count says FAT12
and its label FAT16.

Python's `read()` is three actions: test, length, copy. The interrupt may come
between any two, and `active_file_size` is not volatile there, so the length
comes from the load of the test or from a second one.

### Console

A byte is its number in the order of sending, so that order, loss and
duplication can be said without contents. The bytes of `Breaks` are 0x4, which
always interrupts; whether another one does depends on `mp_interrupt_char`,
which pyexec sets and clears, and is left open. `HostPacket` is the interrupt;
`PollUsb`, `CallHandle`, `TestByte`, `StoreByte`, `HandleEnd`, `Reset` are one
poll. The interrupt may come between any two turns of the loop, and inside one:
`TestByte` compares `data[i]`, and `StoreByte` stores the byte that was tested or
the one that a shift has put in its place. (A shift between the two
comparisons of `micropython.c:52` leaves the loop where a shift before both
does, as the byte compared first is then not looked at again.) `usb_inbuf_idx`
is not volatile either: the argument of `handle_input` is the value tested or a
later one.

`dropped` is the newest byte that a packet which did not fit kept from
`handle_input`, by shifting it out or to where the loop has been. With it
`BreakGetsThrough` can be said: an 0x4 that waits when a poll begins is taken and
leaves a KeyboardInterrupt pending, or was dropped in that way.

### Hal

A step of the interpreter lasts 1 to `MaxLag` counts of SysTick, and a whole
millisecond more in `Delay_Ms(1)`. `Ticks` is the quotient that
`mp_hal_ticks_us` and `_ms` return; it starts again from 0 at `Wrap \div unit`,
which is not the wrap of the word. `Delay` and `Test` are the loops of
`mphalport.h`. Background processing is `Gate`, then `Poll` or `Raise`, two
steps, as it reads the clock twice and stores the second reading. A poll that
finds input has a third step, `Reset`: what came since `handle_input` was called
is discarded with the index (`console_reset` in [section 5](#5-disagreements)),
a Ctrl-C too. `TxStrn`, `Try`, `Retry` are `putchar` in the build without
`FUNCONF_USE_DEBUGPRINTF`: one try, a millisecond, one more try whose result is
dropped.

What a poll finds is abstracted to nothing, a key or Ctrl-C (`Console` has the
bytes). `elapsed`, `age` and `held` are histories: counts since the delay began,
since the input came, since the endpoint was loaded.

### IslerFifo

`Frame` is the radio interrupt: length byte, ring, callback. `rx_fifo_count`
reads the volatile head in its test and again in the expression, so it is two
steps (`Test`, `Count`); `read()` then allocates and pops byte by byte.
What `any()` returns is that count as a small integer (`SmallInt`): shifted left
by a bit, the top one lost. `mp_sched_schedule` may refuse. `Irq` sets the
callback or, with None, clears it, and leaves the calls already scheduled. The
handler is the one the ring is made for: it calls `read()` once. `silent` says
that the ring holds bytes for which no callback was set when they came.

### IslerAir

`tx` and `adv` differ in the payload they admit, and share the frame. The
receiver is `mod_isler_rx_isr`; its computation of the length in a `uint8_t` is
`RxLen`, that of the sender `LengthByte`. The ring is not here: the bytes pushed
are those of a receiver with room.

### MemAccess

Integers are what Python passes; each conversion (`mp_int_t` to `size_t`, the
sums of `ch32fun_check_addr`, signed and unsigned comparison with `RAM_START`)
is written out modulo `Word`. Every request records in `last` the range of
integers Python *means*, the bounds it must be in, and whether it was served.
Registers are cells that may overlap, since the tables list the same bytes under
several widths; that a store of a register stays inside it holds by the shape of
the store, that the value is cut to its width does not. `RamCopy` is `RAM[a:b] =
RAM[c:d]`, whose `memcpy` is undefined on ranges that overlap: any outcome
inside the slice.

## 3. Runs

`tlc -config X.cfg M`. Each passing run takes less than two minutes.

| run | config | checks |
|---|---|---|
| `msc` | `MCUsbMsc.cfg` | `TypeOK`, `NoDeadEnd`, `StreamContiguous`, `HostNeverMisled`, `DataIsNeverCommand`, `TransferIsPrivate`, `EveryCommandAnswered`, `PollReturns`, `ImplementsSession` |
| `ghostfs` | `MCGhostFs.cfg` | `TypeOK`, `FileIsSaved`, `MountFindsFile`, `ReadInBounds` |
| `console` | `MCConsole.cfg` | `TypeOK`, `RingInOrder`, `NeverBack`, `NoGap`, `BreakGetsThrough` |
| `hal` | `MCHal.cfg` | `TypeOK`, `PollLatency`, `NeverShort`, `OnlySlowHostLoses`, `DelayEnds`, `CtrlCEndsDelay`, `PrintEnds` |
| `isler` | `MCIslerFifo.cfg` | `TypeOK`, `FifoExact`, `NoUnderrun`, `NoLostWakeup`, `EventuallyDrained` |
| `air` | `MCIslerAir.cfg` | `TypeOK`, `TxFits`, `ArrivesWhole` |
| `mem` | `MCMemAccess.cfg` | `TypeOK`, `ServedIffInside`, `WritesStayInside` |
| `msc_residue`, `isler_any`, `console_reset`, `ghostfs_foreign`, `air_adv` | `MCUsbMscResidue.cfg`, `MCIslerFifoAny.cfg`, `MCConsoleReset.cfg`, `MCGhostFsForeign.cfg`, `MCIslerAirAdv.cfg` | one comment of the code each, violated: [section 5](#5-disagreements) |

Bounds, and why they are enough:

- **msc.** The packet size and the header sizes are the real ones. A block is
  two packets and transfers have 0, 1 or 2 blocks, so a transfer has a first,
  a middle and a last packet, and each context sends each of them. Allocation
  lengths are zero, below, at and above headers, the 31 bytes of a command, and
  above a packet. `Word` is
  2^16, wider than any transfer as 2^32 is. Two bus resets: one that catches the
  device at work, one that finds it at rest, at any point. Commands are
  unbounded in number.
- **ghostfs.** The real layout of the volume, eight sectors to a cluster, with
  sectors of two packets; a RAM disk of half a cluster as in the code; sizes of
  zero, part of a sector, exactly the RAM disk, one packet more, a whole cluster
  and one packet more than that; three clusters, so that the file moves up and
  down; three saves, so that a file that shrank grows again, and a save that
  went wrong has one before and one after.
- **console.** Arrays of 4 and 3 with packets of 1, 3 and 4: a packet that fits,
  that shifts out part, that replaces everything; two packets in one poll; a
  ring that is full. Eight bytes are two full buffers. An 0x4 is the 3rd, 4th
  and 7th of them: before, at and beyond the place where the ring is full, and
  two in a row, of which the first may skip the poll of the second.
- **hal.** A counter of 30 in milliseconds of 4: the last one before the wrap is
  cut short, as 2^32 counts cut short the last millisecond of 60000. Microseconds
  of 2, so both units wrap under a delay. Any start value, delays of up to two
  ticks, steps as long as a microsecond (so a tick can be stepped over), two
  characters at a time. Time is unbounded.
- **isler.** A ring of 8 and 3-bit bytes, so frames nearly fill the ring, wrap
  it, overflow it, and have the two lengths that wrap. Four frames are two
  rings' worth. A queue of two calls fills.
- **air.** Every payload length to 260, past all limits.
- **mem.** A word of 5 bits with the RAM at an eighth of it as on the chip;
  integers on, before and after each boundary of word, RAM and flash; buffers
  of every size to 3; a register of two bytes and one on each of its halves.

`CHECK_DEADLOCK` is off where the system may rest: no command from the host, no
byte on the console, no save left, a fault. It is on in `air`.

Fairness. The interpreter's steps are weakly fair, because polls hang on every
opcode and every wait. Radio frames, console bytes and new commands are not: nothing
makes them come. In `UsbMsc` a host that began a command goes on
with it; in `Hal` the host need not do anything, so what ends there ends without
it. The scheduled
callback of `IslerFifo` is strongly fair: it is looked for between any two
opcodes and at every tick, so a main program that keeps calling `any()` cannot
stay ahead of it for ever.

## 4. Proofs

`tlapm M.tla`. Every theorem is about the same specification TLC runs, for all
values of its constants that its named assumptions allow.

What a theorem assumes is what the module's `ASSUME`s say of its constants, and
nothing else, except that two theorems of `GhostFsProofs` have a hypothesis of
their own. The bounds on the number of resets, frames, bytes and saves are
constants like any other: the theorems hold for all of them.

**UsbMscProofs**, for every packet size above the longest header (37), any block
size, tags and lengths, and any word that no transfer reaches. The argument has
three layers, because a reset destroys some of it and not the rest.

1. `TypeInv`: the types, together with what the interpreter relies on between
   two of its steps. Between `Poll` and `Update` the state is `MSC_DATA_IN`, and
   the packet in hand is the one the counter still calls for. Without this
   `Update` could subtract more than is left. It holds at all times,
   because no step of the interrupt writes these variables in `MSC_DATA_IN`.
   `TypeCorrect` and `PrivateTransfer` follow. `NoDataInIdle` also holds
   through resets and is inductive by itself.
2. `Clean`, for a device no reset caught at work: for each `msc_state`, where
   the host, the endpoint and the interpreter can be, and that bytes moved,
   bytes on offer and bytes the counter does not know of yet add up to the
   command's length. The delicate part is `InIdle`: the machine can be IDLE
   while the interpreter has yet to load the status, because the interrupt took
   the last data packet for it; the host is then still waiting for it, so no
   command can come. `IInv == TypeInv /\ (tainted \/ Clean)` is inductive, and
   `CleanReset` is the way back from `tainted`. `NoDeadEnds`, `ContiguousStream`
   and `HostIsNeverMisled` follow.
3. `SessionInv` adds what `BotSession` asks for: the host is in a data phase only
   while bytes are missing (`HostInv`); of a READ or WRITE no status is there
   before all of its bytes (`BlocksAccount`); of a header the bytes moved, those on
   offer and the residue add up modulo the word (`HeaderAccounts`), also where
   the residue has wrapped below zero. `SessionStep` maps every step: a command
   opens a session, a data packet in either direction is a packet, the status
   closes it, a reset resets, and what the interpreter does is a stutter. After
   a reset that caught the device at work everything is `Babble`.
   `SessionsAreImplemented` is the refinement.

**GhostFsProofs**, for every RAM disk, cluster and sector size. `TypeCorrect`
and `CopiesStayInside` hold whatever the host writes: the size is cut to the RAM
disk when it is snooped (`RangeInv`), and Python's length comes from a size that
passed the test or a later one (`ReadInv`). `SavedFileStays` and
`FreshMountFindsFile` suppose `~ForeignAnywhere`, that other files lie below
`main.py`. That is what the passing run supposes too, and the run
`ghostfs_foreign` shows why it is needed: the filter is `>=`. Between two
packets of a save `SaveInv` says what is known already: once the first packet of
the directory is through, the size; of the data, the units sent, if they were
not dropped, because the cluster known is not above the file's as long as that
WRITE goes on. The entry may lower the cluster or raise it, before or after the
data. `FileInv` is the same of the file last saved, once nothing is under way.
The mount is then arithmetic on the boot sector, for every cluster size:
directory and data are where the device serves them, and the FAT entry ends the
chain read as 12 bits or as 16.

**ConsoleProofs**, for every size of both buffers and every set of packet
lengths. The buffer ascends up to its index, and what lies from the loop's `i`
on is newer than what it has taken (`BufferInv`); within a turn, so is the byte
that was tested, and it is no newer than what lies at `i` now. A packet that
shifts preserves this because it moves newer bytes down under `i`, never older
ones up; and the index never falls below the `numbytes` of a loop under way,
because a packet that shifts leaves the buffer full. `LooksForward` (each turn
takes a newer byte than the turn before took, whichever of the two is stored)
and `TypeCorrect` follow, and with `RingInv` (the ring lies between what stdin
took and what was handled) `RingOrdered`. `NothingSkipped` adds exact numbers
while no packet was shifted or came during a poll.

**IslerFifoProofs**, for every size of the ring, heap, word and scheduler queue.
`ExactFifo` is inductive with the types; its proof is where `ArithmeticLemmas`
replaces remainders by distances. `CountInv` is why `NeverUnderrun` holds although
`rx_fifo_count` reads the head twice: a frame in between only adds bytes, unless
it wraps the ring, and then the count is larger than the heap and nothing is
popped. `WakeInv` is why `WakeupsAreKept`: a handler that has counted has either
counted everything, or a frame came after it and scheduled another call; a refusal
of the scheduler means that calls are queued already, and `irq(None)` takes none
of them back.

**HalProofs**, for every clock, lag and print length that `ClockAssumption`
allows. `DelaysAreLongEnough` rests on `NotAhead`: while a delay lasts, the clock
is ahead of the end of its first tick by no more than has elapsed; a wrap puts it
behind, and a tick count that restarts makes a delay longer and never shorter.
`FastHostsLoseNothing` rests on `HeldInv`. `PolledInTime` needs a bound at every
place of the loops (`SinceGate`), and `LatencyInv`: the age of waiting input
against the distance of the clock from the millisecond of the last poll. That
distance is one on a circle, and means what it says only because a whole
interval is shorter than a turn.

**MemAccessProofs**: `CheckExact` says that the three comparisons of
`ch32fun_check_addr` on wrapped sums accept exactly the ranges that lie, as
integers, between the bounds. Then each way to call it (one address, slice,
flash) is shown to pass words that stand for the range Python means, which
gives `RequestsAreExact` and `WritesAreContained`. They rest on
`WordAssumption`: the RAM ends below half the address space and starts in its
first quarter, as on the chip (0x20000000). The proof
uses it to know that an offset shifted by `RAM_START` stays within two words and
that a negative integer, as a word, lies above the RAM.

**IslerAirProofs**: `TypeCorrect`, `TxAlwaysFits` and `FramesArriveWhole`, for every
set of payload and MAC lengths. `FrameInv` says how the last frame was built; the rest
is arithmetic on bytes.

So every safety invariant, every action property and the refinement that a
passing run checks is a theorem. Each inductive invariant was checked by TLC on
the run's instance before it was proved.

Model-checked only:

- liveness (`EveryCommandAnswered`, `PollReturns`, `BreakGetsThrough`,
  `EventuallyDrained`, `DelayEnds`, `CtrlCEndsDelay`, `PrintEnds`): it takes
  fairness and ENABLED, for which the prover has no rules;
- what the runs of section 5 refute, which no proof can show.

## 5. Disagreements

Each is a run that TLC refutes and a finding in `PROJECT.json`.

- `msc_residue`: "We set Residue to what we didn't send". A host that asks for
  less than a header gets the whole header and a residue below zero.
- `isler_any`: "Returns number of bytes available". A frame that wraps the ring
  between the two reads of the head makes the `size_t` 2^32 - k. The small integer
  that `any()` makes of it has lost the top bit: Python gets -k. `read()` goes on
  with 2^32 - k itself: without a length it raises MemoryError (`failed`); with
  one it may pop an empty ring.
- `console_reset`: "discard oldest if polling is too slow". The poll's reset of
  the index discards the newest, whatever the rate. A Ctrl-C may be among them,
  so `CtrlCEndsDelay` and `BreakGetsThrough` speak of one that is there when no
  poll is under way.
- `ghostfs_foreign`: "Only allow write if it matches the cluster the OS assigned
  to our file". The test is `>=`.
- `air_adv`: "+6 = mac". `adv()` admits payloads for which the length byte
  wraps to 0, and frames longer than its buffer.

Others have no sentence to disagree with, or none worth a run, and are excepted
by name where a property would otherwise fail:

- `EmptyWrite`: a WRITE 10 of zero blocks is never answered.
- `tainted`: after a bus reset that found the device at work, the interpreter
  may spin on the endpoint for as long as the host is silent.
- `Settled`: data written before its entry to a lower cluster is dropped, and
  data beyond the first cluster lands on the file's head
  (`usbfs_cdc_msc.c:511`, `:514`).
- `EndIsSeen`: a delay whose end lies beyond the last tick before the wrap never
  ends (`mphalport.h:39`); one that ends just before it depends on the loop
  seeing that tick. Ctrl-C ends it, unless a poll discards it; then the next
  one may.
- `pc # "reset"` in `CtrlCEndsDelay`, `raced` in `NoGap`: the discarded input of
  `console_reset`.
- `RamDelete`: `del RAM[i]` reaches a store without a value (`modch32fun.c:75`).

Two more change nothing that is checked. A host that takes the volume for FAT12
finds cluster 3 used, while the comment at `usbfs_cdc_msc.c:215` says that all
but the first are free. And an empty file saved by the host is ignored: Python
and the next mount see the previous one.

## 6. Assumptions

- *The host* conforms to bulk-only transport: one command at a time, a fresh tag
  for each, a READ or WRITE whose length is that of its blocks. It may reset
  the bus.
- *fsusb.h*: `USBFS_SendEndpointNEW` returns -1 while the endpoint is busy; the
  packet's interrupt, or a bus reset, frees it.
- *The FAT driver* writes `main.py` in one piece from the start of its cluster,
  data and entry in either order, and places other files below `main.py`
  (`ForeignAnywhere` lifts this). A save cut short is followed by a whole one, as
  far as `FileIsSaved` speaks of it.
- *Time*: between two looks at the clock the interpreter spends at most `MaxLag`
  counts and prints at most `MaxPrint` characters, and together they stay below
  a turn of the counter (`ClockAssumption`). A C function that runs for longer
  without an opcode delays the poll by as much. The queue of `Console` is not
  overrun in `Hal`. A delay asked for and a turn of the microsecond count fit in
  a word together, so the end of a delay is computed without overflow.
- *MicroPython* refuses an allocation of nearly 2^32 bytes: `read()` with a
  length that wrapped raises MemoryError and copies nothing. A small integer is
  an object shifted left by one bit. `mp_obj_get_int` is outside: the integers
  Python passes in `MemAccess` are those it returns, a signed word, although
  `mpconfigport.h:35` builds in long integers; what it does with one that does
  not fit is MicroPython's.
- *The compiler* may keep or re-read what is not volatile (`usb_inbuf_idx`,
  `usb_inputbuffer`, `active_file_size`); volatile accesses happen one by one in
  the order written.
- *The radio* loses frames or delivers what it was given.

## 7. Not modelled, and the plan

Not modelled, and not planned:

- Pin and Signal: one library call each, and no state of their own but the
  constant pin number and inversion.
- The REPL loop, boot, fatal errors: what `nlr_jump_fail` means for a
  KeyboardInterrupt at the prompt is decided in MicroPython, which is not here.
- Garbage collection: what it scans is MicroPython's. The static callback of
  `ch32fun_isler.c:62` is in the list of hazards.
- The headers of INQUIRY and its like, descriptors, control requests
  (`HandleSetupCustom`): constant answers without state. Their lengths are in
  `UsbMsc`.
- The contents of Python's copy when a WRITE 10 lands during it
  (`ram_main_py.c:61`): either version, byte by byte.
- `poll_input` of the debug port, in ch32fun.h; it enters the same
  `handle_input`.
- NFC (a stub), configuration and build.

What is left: liveness stays with TLC, as section 4 says. `ArrivesWhole` speaks
of one frame, and `IslerFifo` of frames that arrive whole; the two meet in the
README only. A proof that composes them would say of the bytes Python reads that
they are those of frames some `tx()` sent.
