# GXemul: TLA+ models of the emulator's core

GXemul emulates whole machines: CPUs, memory, devices, and the firmware a guest
operating system expects. Instructions are decoded once, cached, and executed
from the cache ("dyntrans"). The caches, the memory path below them, the
devices on that path and the timers that interrupt everything are where an
error is easy to make and hard to find: a wrong entry shows up thousands of
instructions later as a crash of the guest. Behind the devices lie protocols
with a life of their own: rings of descriptors shared with a driver, disk images
that must survive the death of the emulator, TCP connections that the gateway
ends itself, and interrupts that are requested, masked and acknowledged by
several parties. These modules model the core and the most intricate of the
protocols, check them with TLC on small machines, and prove with TLAPS for
machines of every size what matters most about them: both refinements and every
invariant that a passing run checks are theorems, one of them (`AckedIsWritten`)
under a condition.

Paths below are relative to the repository, `src/` of this tree.

## 1. The system and its parts

Everything runs in one thread. `emul_run()` loops over the machines,
`machine_run()` over the CPUs of a machine, each of which executes a burst of
instructions; then the machine's tick functions are called. The only
concurrency is the signal SIGALRM, which drives the timers and may arrive
between any two steps (SIGINT and SIGCONT only set flags or the terminal).

| Part | State it keeps | Operations | Talks to |
|---|---|---|---|
| Dyntrans caches (`src/cpus/cpu_dyntrans.c`, `cpu.c`) | per CPU: arrays from virtual page to host pointer, `vph_tlb_entry[]`, physpages with decoded instructions, `cur_ic_page`, pc | update / invalidate translation, pc lookup, translate, throw away | everything that executes or changes a mapping |
| R3000 MMU and coprocessor 0 (`cpu_mips_coproc.c`, `memory_mips_v2p.c`) | TLB, EntryHi, Status | tlbwi/tlbwr, tlbr, mtc0, address translation, exceptions | calls update and invalidate of the caches |
| R4000 and other MIPS MMUs | the same with page pairs and masks; 64-bit L2/L3 tables | the same | the same |
| Slow memory path (`memory_rw.c`, `memory.c`) | memblocks of the host | `memory_rw()`, `memory_paddr_to_hostaddr()` | MMU, devices, caches |
| Memory mapped devices (`memory.c`, `memory_rw.c`) | sorted `devices[]`, address window, `last_accessed_device` | register, remove, search | `memory_rw()` |
| Framebuffers (`dev_fb.c`, `dev_fbctrl.c`) | host buffer, area to update, `dyntrans_write_low/high` | access, tick, resize | fast tables of all CPUs, X11 |
| Timers (`timer.c`) | list of timers, virtual time, SIGALRM | add, remove, update, start, stop, the handler | device counters |
| Clocks on the boards (`dev_rtc.c`, MIPS count/compare, 8253, mc146818) | pending counters, interrupt lines | register accesses, tick | timers, interrupt controllers |
| Interrupt controllers (`dev_8259.c`, `bus_isa.c`, `dev_mp.c`, ...) | request and mask registers, `last_int` | assert, deassert, acknowledge, mask, poll | CPUs, devices |
| Interrupt registry (`interrupt.c`) | handlers by name, counts of users | register, connect, remove | set-up code |
| Consoles (`console.c`) and serial ports (`dev_ns16550.c`) | a ring of input characters; enable bits | read, write, tick | host terminal, ISA bus |
| Network (`net.c`, `net_ip.c`) | one chain of packets for all interfaces, TCP and UDP connection tables | send, receive, poll sockets | interfaces, host sockets |
| LANCE (`dev_le.c`) | CSRs, SRAM with two rings, a packet in each direction | register access, tick | network, driver |
| Disk images (`diskimage.c`) | files, overlays, bitmaps, stdio streams | read, write | disk controllers |
| IDE controller (`dev_wdc.c`) | one buffer, command, counts, `int_assert` | register and data access, tick | disk images, ISA bus |
| Main loop (`emul.c`, `machine.c`) | `running`, `single_step`, tick counters | run, idle, step | CPUs, debugger |
| Other CPU families | registers, their own MMUs | the same `cpu_dyntrans.c`, other instructions | the same |
| Machines, PROMs, loaders, settings, debugger commands | configuration | set-up code, parsers | - |

What is hard, and what makes each part correct:

* *Dyntrans and MMU.* Three views of one mapping (guest TLB, arrays,
  `vph_tlb_entry[]`) are kept in step by hand, across evictions, TLB writes,
  ASID changes, write-protection of translated pages, isolated caches, and a
  translation cache that is thrown away when full. Correct: the fast tables say
  nothing that the guest's TLB does not say now; the halves agree; no pointer
  into a dead cache is left; invalidation reaches all translated code.
* *Devices.* The search depends on order, window and hint, each maintained by
  registration and removal. Correct: a search finds the device at an address if
  there is one, never another, and ends.
* *Framebuffers.* Most writes go unnoticed by design. Correct: what differs
  from the screen is redrawn; nobody keeps a pointer to a freed buffer.
* *Timers.* The handler interrupts list surgery and read-modify-write.
  Correct: it never meets a freed timer, a disabled clock is quiet, and an
  enabled one keeps interrupting.
* *Network interface.* The chip works in ticks that fall between any two steps of
  the driver, and packets span buffers and ticks. Correct: whole packets in
  order, once each, announced by an interrupt that acknowledging another does
  not lose.
* *Disks.* Data and bitmap of an overlay are two files behind two streams, and
  the controller's buffer serves both directions. Correct: a death of the
  emulator damages only what was just being written; sectors arrive as asked;
  commands end.
* *TCP gateway.* It acknowledges to the guest what a host socket has taken, and
  keeps one segment to send again. Correct: both streams intact under loss,
  partial writes and reuse of slots; the end after the data; slots given back.
* *Interrupts and consoles.* A level is asserted by ticks and cleared by
  acknowledgements, across a cascade of two controllers. Correct: the
  processor's line is what the registers say, and everything is served.
* *Interrupt registry, main loop*: counts of users, order of ticks, stepping.
  Not modelled.

## 2. The modules

| Module | Models |
|---|---|
| `Dyntrans` | the caches of one CPU, as operators from one cache state to the next |
| `Mips3k` (extends `Dyntrans`) | the R3000 on top: TLB, EntryHi, Status, `memory_rw()` on RAM, and every instruction that reaches the caches |
| `MemoryDevices` | device registry and search |
| `Framebuffer` | writes behind `memory_rw()`'s back, tick and resize |
| `Timer` | the timers of `timer.c` |
| `Rtc` (extends `Timer`) | the clocks of the test machines, the signal, and the main program's interruptible steps |
| `Net` | the chain of packets and ARP, as operators |
| `PacketChannel` | abstract: an ordered channel of whole packets |
| `Lance` (extends `Net`) | the LANCE and its driver; implements `PacketChannel` |
| `CrashDisk` | abstract: a disk of which a death damages recent blocks only |
| `DiskImage` | images, overlays, bitmaps, streams, death |
| `Wdc` (extends `DiskImage`) | the IDE controller and its driver; implements `CrashDisk` |
| `Nat` | TCP connections of the gateway, the guest's TCP and the sockets |
| `Isa` | both 8259s and the ISA bus, as operators |
| `Console` | the input ring, as operators |
| `Serial` (extends `Isa`, `Console`) | serial port, IDE interrupts and a guest that handles them |
| `MC...` | small instances for TLC (`Serial` needs none) |
| `...Proofs` | theorems and proofs |

Inside a module, operators with the comment "A bug to be caught" are never
used: each is the neighbouring definition with a mistake that could plausibly
be made in the code, and exists to confirm that the properties notice it.

### Dyntrans

`DyntransState` is a record with the fields of the code. `valid` and
`writeflag` are the entries of `vph_tlb_entry[]` with that flag; entries count
from 1 so that index 0 is a miss, as in `vaddr_to_tlbindex`. A physpage is named
by its place in the translation cache and 0 is the null pointer. `ics` is the
set of slots that are translated; what they were translated to is not needed.
`UpdateTranslationTable` has the miss case (`AddTranslation`, with the
round-robin victim) and the hit case (`ChangeTranslation`). `InvalidateVaddr`,
`InvalidateAll`, `MarkNonWritable` and `InvalidateCode` are the four uses of
`invalidate_translation_caches()` and `invalidate_code_translation()`.
`PcToPointersGeneric` is the pc lookup: translate the address, map the page,
throw the cache away if it is full, find or allocate the physpage, write-protect
the page. `Translate` is the tail of `to_be_translated` with read-ahead.

Abstractions: a host page is the physical page it holds, all physical pages are
RAM, the order in which a physpage chain or the VPH table is scanned does not
matter, `n_translated_instrs` and single-step flags are left out, and the
static victim counter belongs to the CPU (with several CPUs it is shared, which
only changes the choice of victims).

### Mips3k

One action per kind of step: `RunInstr` (continue at the current pc),
`Interrupt` (an exception sends the pc to `Vector`), `Jump`, `Load`, `Store`,
`ToBeTranslated`, `DeviceAccess` (a device that uses `memory_rw()` with
PHYSICAL and NO_EXCEPTIONS), `TlbWrite`, `WriteEntryHi`, `LoadEntryHi` (tlbr),
`WriteStatus`, `Debugger`. Each contains everything the handler does, e.g. a
store that misses translates the address, raises an exception and looks up the
vector's page, or allocates the memblock, enters the mapping, and throws away
code translated from that page. Loads and stores that hit the fast tables
change nothing here; that they may is what `FastTablesCoherent` is about.

The guest is any program that does not make two TLB entries match one address,
maps only mapped pages, and runs in kernel mode. In `Spec` it uses `tlbr` only
on entries of its own address space; `TlbrSpec` drops this restriction and is
what the run `tlbr` explores. The machine has no RAM mirror (`dev_ram.c`).
`running` becomes FALSE where the code exits.

### MemoryDevices

`devices` is the C array, which after a removal is longer than `n` and keeps the
old last element, `At(i)` is what a read of it can yield (anything, beyond its
end). `Register` finds the place that the loop finds and `RegisterCollision` is
its exit. `Access` starts a search and `Probe` is one round of the loop. Left
out: the checks of `dyntrans_data`, debug output, addresses that wrap around at
2^64, and accesses that reach past a device's end.

### Framebuffer

Addresses are counted in pages, and the area to be redrawn in the same unit
(the code uses lines, and rounds outwards). `fast` is what each CPU's fast
tables know of the framebuffer. `SlowRead` and `SlowWrite` pass through
`memory_rw()` and `dev_fb_access()`; `FastWrite` passes nothing. `painted` and
`undrawn` record what each CPU has written and the screen does not show. X11 is
assumed to be in use. `Resize` blanks the screen, as `x11_fb_resize()` does;
`Growth` says whether new resolutions are larger ones, the only ones that the
code redraws. `dev_fb_resize()` is modelled as `dev_fbctrl.c` calls it; its
callers in `dev_sgi_gbe.c` are outside.

### Timer and Rtc

Time is relative to `timer_current_time`; `due` is `next_tick_at` in these
terms. Every operation of the main program is a sequence of steps (`op.steps`),
split wherever it touches what the handler reads or writes; `Sigalrm` is the
whole handler and may come between any two. `pending_interrupts --` is a load
and a store, as compilers emit it, and the time at which a changed timer is next
due is computed in a register before it is stored. `Visited` is the set of
timers a walk along the list comes to, defined without assuming that the list is
well formed. Frequencies are positive; the lower bound that the code puts on them
(`timer.c:82-83`, `139-140`) is left out.

### Net, Lance and PacketChannel

A packet is a sequence of cells, a buffer holds `BufLen` of them. A tick is a
sequence of steps (`tick`): take a packet, fill descriptors, empty descriptors,
set the interrupt line; it is one call in the code, and the driver does nothing
during it. Every register access ends with a tick, as in `dev_le_access()`.
`posted`, `wire` and `got` are histories: cells given to the chip, cells sent,
packets read. The refinement maps the channel's `pending` to what is in the
receive ring, in the chip and in the chain together, so that copying a packet
from one to the next is a stutter. STOP leaves RXON on (the variant that follows
the manual is compiled out, "doesn't work with Ultrix"): if the chip receives
while the driver builds new rings, `late` becomes TRUE and nothing is promised
until the next start; the abstract channel has `broken` for this. The driver
sets the '1111' mark of its descriptors and gives buffers of 12 to 1900 octets;
a descriptor without them, at which the chip stops (`dev_le.c:310-315`,
`424-429`), is left out.

### DiskImage, Wdc and CrashDisk

An access is a sequence of calls on streams, and the emulator may die between
any two. A stream has the file's `content` and what is still `dirty` in it; it
is flushed by the next `fseek()`, which precedes every access. The
refinement maps the disk to what a restarted emulator would read, taken through
the streams as long as it lives, and `recent` to the blocks whose data or bit of
the bitmap is still in a stream. Files are shorter than the disk as a rule: an
overlay begins as two empty files (`doc/misc.html`), and the size of the disk is
rounded up to full cylinders. A stream therefore knows how far its file reaches
(`extent`), and grows with a write behind its end. `Fetched` is one round of
`fread_helper()`: a block that its file does not have leaves the caller's buffer
as it was (`Leftovers`) and is counted in `short`; `ZeroFilled` is what
`diskimage__internal_access()` makes of that, zeros at the end of the buffer. The
host itself does not crash:
`fsync()`, which the code calls without `fflush()` if asked to, makes no
difference to the streams and is left out. In `Wdc` the buffer `inbuf` is shared
by reads and writes; READ and WRITE interrupt for every sector, READMULTI and
WRITEMULTI once. `wdc__read()` reads in chunks (`ChunkRead`, 64 sectors each in
the code), each an access of its own. `ImagesAssumption` and `SectorsAssumption`
say of the files the emulator is started with only that they end at the end of a
block, every block with all its parts. The code's ring would look empty if so many abandoned
commands left data in it that it filled up exactly; what `Cut` then takes from
it is unspecified, and neither the refinement nor the types depend on it.

### Nat

Slots are the records of `tcp_connections[]`. `net_ip_tcp` is the whole handler
of a segment from the guest, `net_tcp_rx_avail` the poll of one slot: finish
connecting, send again, or read from the socket (`Serve`); `Ended` is the poll
in which `read()` returns nothing or fails. Both have two alternatives, for what
the first `select()` says. A socket that is writable opens the connection, with
or without something to read in the same poll. One that is not ends the poll of
a CONNECTED slot, but a slot that is TRYINGTOCONNECT goes on to the second
`select()` and may be read before its SYN is sent: `early` records this. That
happens when the connection is made between the two calls and the slot's initial
number is 2^31 or more. The guest ignores the octets, the SYN is numbered behind
them, and the first acknowledgement throws away the gateway's only copy: the
guest's stream has a gap, and the properties about it except this case. The
socket is `full` when its peer does not take what the guest sends, until the
peer does (`Drain`); `broken` also stands for a connection that the gateway
gives up because its socket is full. The guest's TCP and the socket
are external and as free as the code lets them be: segments to the guest are
lost or taken in part (`MaxLost`), the socket is full, takes a part, says
EAGAIN, refuses, or ends. Sequence numbers are modulo `W`, and start close
enough to it to wrap around. The guest respects the window that
`net_ip_tcp_connectionreply()` announces (`Window`, the constant 4096 of
`net_ip.c:304`): neither new nor repeated data goes further beyond what was
acknowledged to it. While it waits for a SYN it ignores other segments; a guest
that answers them with a reset is not modelled. The gateway's own limits are part of the model: the
answer to a SYN is never repeated, and data that comes with a FIN is dropped and
not acknowledged.

### Isa, Console and Serial

`irr` and `ier` are sets of bits. `isa_interrupt_common` recomputes the cascade,
the line to the processor and `last_int`; the 8259's own recalculation after an
end of interrupt or a new mask does less, which is why they are separate
operators. The guest finds the line with the poll command, and either masks and
acknowledges first or handles the device first. The console's ring forgets its
contents when it overflows, as the code's does. The terminal has no end of file,
at which the loop of `console_charavail()` would not end (`console.c:373`).

## 3. The runs

Passing runs:

| Run | Instance | Shows |
|---|---|---|
| `caches` | 3 virtual and 2 physical pages, kseg0 and its kseg1 alias, 2 slots, 2 vph entries, 1 TLB entry, cache of 1 page | types, both halves of the fast tables agree, and with the TLB; no dangling physpage, the bitmap covers all translations, isolated stores blocked |
| `asids` | 3 pages, 2 TLB entries, 2 ASIDs, 1 vph entry | the same across ASID changes and global pages |
| `devices` | addresses 0..4, alignment 2, 3 devices, hints up to 3 | sorted list, window, exact search, termination |
| `framebuffer` | 2 CPUs, 2 pages, 1 resize | updates by `cpus[0]` are redrawn, no pointer to a freed buffer |
| `timers` | 2 clocks, 2 timers | list, quiet when disabled, signal always handled, keeps interrupting |
| `lance` | 2 interfaces, rings of 2, packets of 1 or 2 buffers, 1 sent and 2 arriving, 1 restart, modes with receiver or transmitter off | implements `PacketChannel`; partial packets and transmission in order; no lost interrupt; delivery |
| `disk` | 3 blocks, 2 of them in one byte of the bitmap, a base file of 1 block, no or 2 overlays, one of them empty, sectors of 2 parts, 3 commands that read up to 3 or write up to 2 sectors, chunks of 2, 1 abandoned, 1 death | implements `CrashDisk`, at most 2 blocks at risk; writes arrive; reads intact without overlays, and with them if what is missing comes last; commands end |
| `tcp` | 1 slot, 1 connection with 1 or 2 octets out and 3 in or 2 short connections, initial numbers in either half of the space, segments of 2, numbers modulo 8, 1 loss | both streams intact and end after data unless the socket was read early, acknowledged is written, outside data arrives, slots freed |
| `serial` | port on line 4, disks on 14 and 15, ring of 4, chunks of 2, 4 characters, 2 disk commands | line to the processor, nothing typed is lost, everything typed is read, disks served |

Why the bounds are enough: the vph table is full, and its victim in use, as soon
as there is one page more than entries; the cache is thrown away with one page
more than fits; two TLB entries and two ASIDs give every combination of global,
same and other address space for the entry written and one other; a read-ahead
needs two slots. A list of two timers has a first and a last element to remove,
a frequency of one tick in two signals can be postponed. A packet of two buffers
in a ring of two fills the ring and wraps around; with one more packet waiting,
the ring is full in the middle of a packet. Two blocks that share a byte of the
bitmap and one that does not are all the cases of a read-modify-write of that
byte; two sectors give a first and a last, and a read of three in chunks of two
ends within a chunk, with the end of a file before, in or after it. Three octets in segments of two need
a second segment, so that a segment can be lost, taken in part and sent again
while more waits; one slot makes the second connection reuse it. Four characters
fill a ring of four, which then looks empty; two lines behind the cascade are
pending together. What no bound can show is left to the proofs: a translation
cache with more than one page, and tables of any size, are covered by the
theorems. `CHECK_DEADLOCK FALSE` stands where the emulator may exit (`Mips3k`,
`MemoryDevices`) or the bounded driver or guest has nothing left to do (`Wdc`,
`Nat`).

Runs that end in a violation, each a disagreement between the code and a
comment or document of the repository (details under "findings" in
`PROJECT.json`):

| Run | What the code does |
|---|---|
| `tlbr` | `tlbr` loads another ASID without invalidating translations of the old one |
| `disk_overlays` | zeros for a block that no file has are put at the end of the buffer, over blocks that an overlay has |
| `isa_last_int` | an end of interrupt raises the processor's line for another interrupt but leaves `last_int`, which footbridge, gt and prep machines read, at the old line |

Other disagreements met while modelling are recorded with the hazards in
`PROJECT.json`: a translated page may be writable (`cpu_dyntrans.c:827`), a RAM
mirror enters physical addresses as virtual ones (`memory_rw.c:500`), the last
device is still found after its removal (`memory.c:472`), and writes of CPUs
other than `cpus[0]` are noticed once only (`memory.c:294`), a connection may be
read before the guest knows of it (`net_ip.c:1492`; without its exception
`StreamsIntact` is violated), and acknowledging one interrupt of the clock takes
with it those that arrive meanwhile (`dev_rtc.c:134`). The comment at
`cpu_dyntrans.c:1211-1213` is out of date: it says that invalidating a virtual
address leaves `vph_tlb_entry[]` alone, but the code clears the entry's `valid`
(`cpu_dyntrans.c:1032-1033`), which is what the model does. Two more concern code
at the edge of the models. When a packet ends in a later buffer than it
began, `le_rx()` sets STP on its last buffer too, because it clears
`rx_middle_bit` before it looks at it (`dev_le.c:469-475`); the driver modelled
here goes by ENP. And `bus_isa_init()` copies `pending_timer_interrupts` before
anybody has set it (`bus_isa.c:224`).

## 4. Fairness

* `MemoryDevices`: weak fairness of `Probe`. The search is a loop inside
  `memory_rw()` that nothing interrupts.
* `Rtc`: weak fairness of the main program's steps (it is a running program);
  strong fairness of the signal (the interval timer sends it whatever the
  program does) and of each clock's tick function (called after a number of
  instructions, whatever the guest does). `SyncEvery` and `Lags` say that the
  host's clock is not set back by more than the time that passes meanwhile.
  `KeepsInterrupting` in addition assumes of the guest that it acknowledges only
  interrupts that are raised: one that acknowledges all the time can eat every
  tick.
* `Lance`: weak fairness of the chip's steps within a tick (one call) and of
  the tick function (`machine_add_tickfunction`); strong fairness of the driver,
  which ticks may interrupt again and again but not stop.
* `Wdc`: weak fairness of the steps of an access (one call) and of the driver,
  which goes on with a command that it has begun. New commands are not fair.
* `Nat`: strong fairness of polling each slot (every tick of an interface polls;
  the bound `MaxChain` on the chain may disable it meanwhile), weak fairness of
  the guest's receiving and acknowledging, strong fairness of its repeating a
  FIN, as every TCP does. A poll reads when the outside has octets left, so its
  fairness includes that what the outside sends reaches the socket. Nothing is
  fair about the outside's taking: a full socket may stay full, is then neither
  read nor sent again from, and `OutsideDataArrives` is stated under the
  condition that it is not full again and again.
* `Serial`: weak fairness of the tick functions of the port and of the disks
  with an interrupt, and of the guest's steps.

## 5. What is proved

For all values of the constants that satisfy the named assumptions:

| Theorem | Statement |
|---|---|
| `Mips3kProofs!TypeCorrect` | `Spec => []TypeOK` |
| `...!TablesAlwaysConsistent` | `[]FastTablesConsistent` |
| `...!TablesAlwaysCoherent` | `[]FastTablesCoherent` |
| `...!PhysPagesAlwaysLive` | `[]NoDanglingPhysPage` |
| `...!BitmapAlwaysCovers` | `[]BitmapCoversTranslations` |
| `...!IsolatedStoresAlwaysBlocked` | `[]IsolatedStoresBlocked` |
| `MemoryDevicesProofs!AlwaysTyped` | `Spec => []TypeOK` |
| `...!AlwaysSorted` | `[]SortedDisjoint` |
| `...!AlwaysInWindow` | `[]WindowCovers` |
| `...!AlwaysExactWhenHinted` | `[]HintedLookupExact` |
| `FramebufferProofs!AlwaysTyped` | `Spec => []TypeOK` |
| `...!NeverFreed` | `[]NoFreedFramebuffer` |
| `...!UpdatesAlwaysNoticed` | `Growth = {TRUE}` implies `[]Cpu0UpdatesNoticed` |
| `WdcProofs!DiskRefinement` | `Spec => ImplementsDisk` |
| `...!TwoBlocksAtRisk` | `[]FewBlocksAtRisk` |
| `...!TypeCorrect` | `[]TypeOK` |
| `...!WrittenArrives` | `[]WritesArrive` |
| `...!ReadIntact` | `[]ReadsIntact` |
| `RtcProofs!TypeCorrect` | `Spec => []TypeOK` |
| `...!ListSound` | `[]HandlerSeesTimers` |
| `...!DisabledIsQuiet` | `[]QuietWhenDisabled` |
| `...!AlwaysHandled` | `[]SignalHandled` |
| `SerialProofs!LineCorrect` | `Spec => []LineIsPending` |
| `...!NothingLost` | `[]NothingTypedIsLost` |
| `NatProofs!NatTypes` | `Spec => []TypeOK` |
| `...!NatStreamsIntact` | `[]StreamsIntact` |
| `...!NatAckedIsWritten` | `[]Acked(p)` for every port `p` that is not `early` |
| `...!NatEndAfterData` | `[]EndAfterData` |
| `LanceProofs!RefinesChannel` | `Spec => ImplementsChannel` |
| `...!PartialPacketIsCopied` | `[]PartialPacketMatches` |
| `...!EveryCellInOrder` | `[]TransmittedInOrder` |
| `...!InterruptComes` | `[]NoLostInterrupt` |
| `...!TypeCorrect` | `[]TypeOK` |

*Mips3k.* None of the properties is inductive alone: a TLB write drops one
entry and relies on the fast tables holding no other translation of the page,
which holds because the halves agree, which holds because an eviction finds the
arrays of its victim. `IInv` is the conjunction of the guest's obligations, of
types, of agreement between the halves and with the TLB (with no host_store at
all while isolated), of live physpages and of covering bitmaps.
The first half of `Mips3kProofs` proves for every operator of `Dyntrans`, once
and for all TLBs, which of these it preserves; the second only composes these
lemmas action by action.

*MemoryDevices.* A search keeps an invariant: no device outside `start..end`
contains the address. With a hint inside the list every probe either finds the
device or excludes what sortedness allows it to. With a hint beyond the end
the first probe reads a stale entry; that case is the hazard at `memory.c:472`.

*Framebuffer.* `Cpu0UpdatesNoticed` needs `WritableNoticed`: what `cpus[0]` may
write to unnoticed lies between the limits. A tick empties the limits and takes
away precisely those permissions.

*Wdc, DiskImage.* From the two assumptions about the files. `ImageInv` says what
an access has still to do and what of it is in a stream: only the last overlay
is ever dirty, its data in at most one block and its bitmap in at most one byte,
and a block whose bit is not yet written is one that the access is at. With it
every step of an access is a step of `CrashDisk` or a stutter: the call that
changes what a restarted emulator would read is the `fwrite()` of the data when
the block was in the overlay already, and of the bitmap when it was not. It also
bounds the blocks at risk. `ShapeInv` relates the phases of driver, controller
and access: how many parts are in the buffer in each, what was asked for and
what is left of it; the types follow. `AgreeInv` adds the contents, position by
position: what the driver has moved, what is in the buffer and what is on the
disk make up what was asked for. For a read in progress it says which blocks of
the chunk their file had, and that `short` counts the others: if these are the
last ones, or there is no overlay, the zeros at the end of the buffer fall on
just them. It gives `WritesArrive` and `ReadsIntact`, and
says nothing any more once a command was abandoned, as the properties do.

*Rtc.* From `TimerAssumption` and `RtcAssumption`. `Visited`, the walk of the
handler, is treated as the least set closed under `next`: a walk along a list
without branches changes by just the timer that was linked or unlinked. `TimersInv`
says for every step of every operation what is linked, published or about to be
freed, and which of the counters may still be stored back by the main program.
The handler preserves it wherever it comes because it changes neither links nor
anything that a step in progress relies on.

*Serial.* From `ConsoleAssumption`. The line to the processor is inductive with
`LineOK`, which every operator of `Isa` preserves or restores. For the input,
`StreamOK` says that read, ring and terminal together are what was typed.
`console_charavail()` is a loop, modelled by a recursive function of the number
of turns; that the number it chooses exists is shown by a least counterexample,
and every turn keeps the concatenation of ring and terminal and leaves an entry
of the ring free, so that `console_makeavail()` never forgets its contents.

*Nat.* From `NatAssumption`: the slots are numbered from 1, and a segment and
the announced window are both smaller than the sequence space (1400 and 4096
against 2^32 in the code). A number modulo `W` says nothing alone. `NatInv`
therefore gives every segment in the chain a place in the two streams: how many
of the guest's octets it acknowledges, and the last octet it brings. The first
lies between what the guest knows to be acknowledged and what the socket has
taken, the second between what the guest has taken and what was read from the
socket; along the chain neither decreases for a connection. A slot either waits
for its socket to connect, with nothing on its way to the guest, or its numbers
are those of both streams and its buffer holds the last octets read. Positions
that are compared differ by less than `W`, the guest's by the window and the
gateway's by the segment, so that equal numbers are equal positions: a repeated
segment is recognised, and a new one is appended where it belongs. Without the
window the induction fails where a guest with `W` octets in flight sends one
that looks like an old one; hence the constant. A segment with the end carries
no data and stands behind the last octet read, and no slot is disconnected while
the socket still has octets, unless the socket broke or the guest closed first;
this is `EndAfterData`. Of a connection whose socket was read early `NatInv`
keeps only the types: its numbers no longer are positions of a stream. The
second half of `NatProofs` shows that such a connection stays typed and touches
neither the slots nor the segments of others, so that everything above holds for
each of the others as before.

*Lance.* From `NetAssumption` (the interfaces of the ethernet are a list) and
`LanceAssumption` (rings and buffers are not empty, and the NULL pointer is not
a packet). `Inv` has six parts. `Types`. `Receiver`: how full a buffer may be,
where the offset lies, and that a descriptor of the chip is not the end of a
packet. `Receiving`: from the driver's place on there are descriptors to read
and then those of the chip, whose place is where they begin, and what the
descriptors hold of an unfinished packet is what was copied of it.
`Transmitting`: the same for the other ring, with the cells in order, and a
packet beginning just where another has ended. `Announced`: a packet in the ring
has RINT set, or the driver has seen it set, or is reading. `Interrupts`: INTR
and the line follow from the bits between ticks. While the driver has built new
rings and not given INIT, the places of the chip are those of the old ones;
`Receiving` then says that the ring is untouched, and once the chip has received
into it (`late`) nothing, as the properties do. What a ring holds, what waits in
the chain and what is copied to the interfaces are recursive functions on the
places of a sequence. Lemmas say how they change when one descriptor does, when
a place moves by one, and when a link is added or removed; each rests on
`CountUp`, induction along an interval, which follows from a least
counterexample. For the refinement every action is shown to be one step of the
channel: what is sent to this interface is `Send`, reading the end of a packet
is `Deliver`, building rings and INIT are `Lose`, as they drop a front of what is
pending, and everything else leaves `pending` as it is.

Only model-checked: liveness (`LookupTerminates`, `KeepsInterrupting`,
`Delivered`, `CommandsEnd`, `OutsideDataArrives`, `SlotsFreed`,
`EverythingTypedIsRead`, `DisksServed`), which these provers do not reach,
`AckedIsWritten` for connections that were read early, and everything that ends
in a violation. The types of `MemoryDevices` and
`Framebuffer` are proved and need no run of their own.

## 6. What is not modelled

* MMUs other than the R3000's, user mode, the 64-bit tables, physpage ranges,
  instruction combinations, native code.
* What instructions compute, FPU, formats of files, packets, SCSI commands.
* Set-up code of machines, firmware tables, parsers, host I/O.
* Two CPUs that share guest memory: code that one translates and another
  overwrites (listed as a hazard).
* Of the network: UDP, DHCP, ICMP and DNS of the gateway, tap devices with their
  filters, networks that span emulators. Of the LANCE: loopback and address
  filters. Of the disks: SCSI, ATAPI, tapes, IDENTIFY, geometry, read-only
  images, files that end within a block. Of the ISA bus: 8253, keyboard, loopback of the serial port.
* The interrupt registry and the main loop. Most of the 433 source files are
  instruction sets, register files of single devices and set-up code, whose
  correctness is their agreement with a data sheet: a model would repeat them
  line by line and have nothing to check them against.

`PROJECT.json` lists all components with their status, and all hazards,
including those that no property covers yet.

## 7. Plan

1. *More of the core.* MIPS count/compare as second client of `Timer`
   (`cpu_mips_coproc.c`, `cpu_dyntrans.c`: a counter and COUNT itself, both
   shared with the handler). A second CPU in `Mips3k` for cross-CPU code
   invalidation. The R4000 MMU: pairs of pages, page masks, and the L2/L3
   tables with reference counts of the 64-bit mode.
2. *Interrupt registry and main loop.* `interrupt.c` (user counts, removal);
   `emul_run()` / `machine_run()`: tick functions, stopped CPUs, stepping.
3. *Abstract specifications.* "Memory as the guest sees it" (a function from
   virtual address to value or exception), refined by the fast and slow paths of
   `Mips3k`; "a set of devices", refined by `MemoryDevices`.
