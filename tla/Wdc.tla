-------------------------------- MODULE Wdc ---------------------------------
(***************************************************************************)
(* The IDE controller (dev_wdc.c) on top of a disk image, and a driver in  *)
(* the guest.  Reads and writes share one buffer.  A read command fills it *)
(* with all its sectors at once; WRITE takes one sector from it as soon as *)
(* it holds whole sectors, WRITEMULTI all of them.  An access to the data  *)
(* register moves a part of a sector, and a sector has Parts of them.      *)
(*                                                                         *)
(* The driver is external: it waits for an interrupt, reads the status     *)
(* register, and moves the next sector.  It may abandon a command and      *)
(* reset the controller.  The emulator may die at any step.                *)
(***************************************************************************)
EXTENDS DiskImage

CONSTANTS
    Parts,          \* parts of a sector
    MaxCount,       \* sectors of a command whose count is 0 (256 in the code)
    MaxPerChunk,    \* sectors that are read by one access (64 in the code)
    Payloads,       \* what the driver writes, a value for every sector
    MaxDeaths,      \* bound on the times the emulator dies
    MaxAbandoned,   \* bound on the commands the driver abandons
    MaxCommands     \* bound on the commands

ASSUME WdcAssumption ==
    Parts \in Nat \ {0} /\ MaxCount \in Nat \ {0} /\ MaxPerChunk \in Nat \ {0}
        /\ MaxDeaths \in Nat /\ MaxAbandoned \in Nat /\ MaxCommands \in Nat

(* Every block of the files and of the buffer has its parts.               *)
IsSector(v) == v = [j \in 1..Parts |-> v[j]]

ASSUME SectorsAssumption ==
    /\ IsSector(Zero) /\ \A v \in Leftovers: IsSector(v)
    /\ \A i \in Images, b \in Blocks:
           /\ IsSector(i.base.content[b])
           /\ \A n \in DOMAIN i.overlays: IsSector(i.overlays[n].data.content[b])

VARIABLES
    d,          \* struct wdc_data
    irq,        \* the interrupt line
    driver,     \* what the driver is doing
    expected,   \* what the driver believes the sectors hold
    counts      \* commands, abandoned commands and deaths

vars == <<files, access, d, irq, driver, expected, counts>>

(* A sector in which every part is the same.                               *)
Sector(v) == [i \in 1..Parts |-> v]

InbufSize == (2 * MaxCount + 1) * Parts

Controller == [inbuf |-> <<>>, int_assert |-> FALSE, write_in_progress |-> "no",
               write_count |-> 0, write_offset |-> 0, read_count |-> 0]

Idle == [phase |-> "idle", command |-> "none", sector |-> 0, count |-> 0,
         left |-> 0, parts |-> 0, data |-> <<>>, done |-> <<>>]

(* Everything but the image, when the emulator starts.                     *)
Started == d = Controller /\ irq = FALSE /\ driver = Idle

Init ==
    /\ InitFiles /\ Started
    /\ expected = [b \in Blocks |-> Contents(b)]
    /\ counts = [commands |-> 0, abandoned |-> 0, deaths |-> 0]

-----------------------------------------------------------------------------
(* The controller.                                                         *)

(* The ring buffer: a head that overtakes the tail forgets everything.     *)
AddToInbuf(inbuf, parts) ==
    LET all == inbuf \o parts
        n   == Len(all) % InbufSize
    IN  SubSeq(all, Len(all) - n + 1, Len(all))

(* A count of zero stands for the largest one.                             *)
Count(seccnt) == IF seccnt = 0 THEN MaxCount ELSE seccnt

(* dev_wdc_tick(), which ends every access to a register.                  *)
Interrupt(dd) == irq' = (irq \/ dd.int_assert)

SetDevice(dd) == d' = dd /\ Interrupt(dd)

(* wdc__read(), which READ and READMULTI call, reads the sectors in chunks *)
(* and keeps the count of those it has not yet asked for (a local variable *)
(* in the code).                                                           *)
Chunk(n) == IF n > MaxPerChunk THEN MaxPerChunk ELSE n

CommandRead(b, n) ==
    /\ Read(b, Chunk(n))
    /\ d' = [d EXCEPT !.read_count = n - Chunk(n)] /\ irq' = irq

(* The parts of sectors, one after the other.                              *)
Join(sectors) ==
    [k \in 1..Len(sectors) * Parts |->
        sectors[((k - 1) \div Parts) + 1][((k - 1) % Parts) + 1]]

(* A chunk is there and goes into the buffer.  The last one asserts the    *)
(* interrupt.                                                              *)
ChunkRead ==
    /\ access.kind = "read" /\ access.left = 0
    /\ IF d.read_count = 0 THEN access' = NoAccess
       ELSE Read(access.block, Chunk(d.read_count))
    /\ SetDevice([d EXCEPT !.inbuf = AddToInbuf(@, Join(ZeroFilled(access))),
                           !.int_assert = @ \/ d.read_count = 0,
                           !.read_count = @ - Chunk(@)])
    /\ UNCHANGED files

(* wdc__write().                                                           *)
CommandWrite(command, b, n) ==
    /\ SetDevice([d EXCEPT !.write_in_progress = command, !.write_count = n,
                           !.write_offset = b])
    /\ access' = access

(* A bug to be caught: the last sector is not announced.                   *)
MoreSectorsButLast(inbuf) == Len(inbuf) > Parts /\ Len(inbuf) % Parts = 0

(* Reading the data register.                                              *)
MoreSectors(inbuf) == inbuf # <<>> /\ Len(inbuf) % Parts = 0

ReadPart ==
    LET rest == Tail(d.inbuf)
    IN  SetDevice([d EXCEPT !.inbuf = rest, !.int_assert = @ \/ MoreSectors(rest)])

(* The sectors that are written to the image now, if the buffer holds      *)
(* enough.                                                                 *)
SectorsDue(dd) ==
    CASE dd.write_in_progress = "WRITE" /\ Len(dd.inbuf) % Parts = 0 -> 1
      [] dd.write_in_progress = "WRITEMULTI"
            /\ Len(dd.inbuf) % (Parts * dd.write_count) = 0 -> dd.write_count
      [] OTHER -> 0

(* Sectors as the image gets them.                                         *)
Cut(parts, n) == [i \in 1..n |-> [j \in 1..Parts |-> parts[(i - 1) * Parts + j]]]

(* A bug to be caught: the offset is counted in parts.                     *)
WrittenInParts(dd, n) ==
    [dd EXCEPT !.inbuf = SubSeq(@, n * Parts + 1, Len(@)),
               !.write_count = @ - n,
               !.write_offset = @ + n * Parts,
               !.int_assert = TRUE,
               !.write_in_progress = IF dd.write_count = n THEN "no" ELSE @]

(* The controller after n sectors have left the buffer.                    *)
Written(dd, n) ==
    [dd EXCEPT !.inbuf = SubSeq(@, n * Parts + 1, Len(@)),
               !.write_count = @ - n,
               !.write_offset = @ + n,
               !.int_assert = TRUE,
               !.write_in_progress = IF dd.write_count = n THEN "no" ELSE @]

(* Writing the data register.                                              *)
WritePart(v) ==
    LET dd == [d EXCEPT !.inbuf = AddToInbuf(@, <<v>>)]
        n  == SectorsDue(dd)
    IN  IF n = 0 THEN SetDevice(dd) /\ access' = access
        ELSE SetDevice(Written(dd, n)) /\ Write(dd.write_offset, Cut(dd.inbuf, n))

(* Reading the status register.                                            *)
ReadStatus == d' = [d EXCEPT !.int_assert = FALSE] /\ irq' = FALSE

(* diskimage_access() goes on, or returns to wdc__read().                  *)
ImageStep ==
    /\ \/ (ReadBlock \/ WriteBase \/ WriteData \/ MarkBlock) /\ UNCHANGED <<d, irq>>
       \/ ChunkRead
    /\ UNCHANGED <<driver, expected, counts>>

-----------------------------------------------------------------------------
(* The driver.                                                             *)

Reads  == {"READ", "READMULTI"}
Writes == {"WRITE", "WRITEMULTI"}

(* The parts that are moved between two interrupts.                        *)
Round(command, left) == Parts * (IF command \in {"READ", "WRITE"} THEN 1 ELSE left)

(* The emulator does one thing at a time.                                  *)
Running == access = NoAccess

Issue(command, b, seccnt, data) ==
    /\ Running /\ driver.phase = "idle" /\ counts.commands < MaxCommands
    /\ counts' = [counts EXCEPT !.commands = @ + 1]
    /\ b + Count(seccnt) <= NBlocks
    /\ driver' = [Idle EXCEPT !.phase = IF command \in Reads THEN "wait" ELSE "move",
                              !.command = command, !.sector = b,
                              !.count = Count(seccnt), !.left = Count(seccnt),
                              !.parts = Round(command, Count(seccnt)), !.data = data]
    /\ IF command \in Reads THEN CommandRead(b, Count(seccnt))
       ELSE CommandWrite(command, b, Count(seccnt))
    /\ UNCHANGED <<files, expected>>

(* One part is moved.  After the last part of a round the driver waits,    *)
(* unless everything has been read.                                        *)
Moved(dr) ==
    IF dr.parts > 1 THEN [dr EXCEPT !.parts = @ - 1]
    ELSE LET left == dr.left - Round(dr.command, dr.left) \div Parts
         IN  IF left = 0 /\ dr.command \in Reads THEN Idle
             ELSE [dr EXCEPT !.left = left, !.parts = Round(dr.command, left),
                             !.phase = "wait"]

MoveIn ==
    /\ Running /\ driver.phase = "move" /\ driver.command \in Reads /\ d.inbuf # <<>>
    /\ ReadPart
    /\ driver' = Moved([driver EXCEPT !.done = Append(@, Head(d.inbuf))])
    /\ UNCHANGED <<files, access, expected, counts>>

MoveOut ==
    /\ Running /\ driver.phase = "move" /\ driver.command \in Writes
    /\ WritePart(driver.data[Len(driver.done) \div Parts + 1])
    /\ driver' = Moved([driver EXCEPT !.done = Append(@, "part")])
    /\ UNCHANGED <<files, expected, counts>>

(* The interrupt the driver waits for.  A sector that has been written is  *)
(* there from now on.                                                      *)
Interrupted ==
    /\ Running /\ driver.phase = "wait" /\ irq
    /\ ReadStatus
    /\ driver' = IF driver.left = 0 THEN Idle ELSE [driver EXCEPT !.phase = "move"]
    /\ expected' = [b \in Blocks |->
                       IF /\ driver.command \in Writes
                          /\ b \in driver.sector..driver.sector + driver.count - driver.left - 1
                       THEN Sector(driver.data[b - driver.sector + 1]) ELSE expected[b]]
    /\ UNCHANGED <<files, access, counts>>

(* An interrupt when the driver waits for none.                            *)
Spurious ==
    /\ Running /\ driver.phase = "idle" /\ irq
    /\ ReadStatus
    /\ UNCHANGED <<files, access, driver, expected, counts>>

(* The driver gives up a command.  The reset it does through the alternate *)
(* control register changes nothing but cur_command.                       *)
Abandon ==
    /\ Running /\ driver.phase # "idle" /\ counts.abandoned < MaxAbandoned
    /\ driver' = Idle
    /\ counts' = [counts EXCEPT !.abandoned = @ + 1]
    /\ UNCHANGED <<files, access, d, irq, expected>>

(* The emulator dies in the middle of anything, and is started again.      *)
DieAndRestart ==
    /\ counts.deaths < MaxDeaths
    /\ counts' = [counts EXCEPT !.deaths = @ + 1]
    /\ Die
    /\ d' = Controller /\ irq' = FALSE /\ driver' = Idle
    /\ expected' = [b \in Blocks |-> Contents(b)']

DriverStep == MoveIn \/ MoveOut \/ Interrupted

Next ==
    \/ ImageStep
    \/ DriverStep
    \/ \E command \in Reads, b \in Blocks, seccnt \in 0..MaxCount - 1:
           Issue(command, b, seccnt, <<>>)
    \/ \E command \in Writes, b \in Blocks, seccnt \in 0..MaxCount - 1, data \in Payloads:
           Len(data) = Count(seccnt) /\ Issue(command, b, seccnt, data)
    \/ Spurious \/ Abandon \/ DieAndRestart

Spec == Init /\ [][Next]_vars

(* An access to the image comes to its end, and the driver goes on with a  *)
(* command it has given.                                                   *)
FairSpec == Spec /\ WF_vars(ImageStep) /\ WF_vars(DriverStep)

-----------------------------------------------------------------------------
(* Properties.                                                             *)

Abandoned == counts.abandoned > 0

(* Type invariant of the controller and the driver.                        *)
TypeOK ==
    /\ access.kind \in {"none", "read", "write"} /\ access.left \in 0..MaxCount
    /\ Len(d.inbuf) < InbufSize
    /\ d.write_in_progress \in Writes \cup {"no"}
    /\ d.write_count \in 0..MaxCount /\ d.write_offset \in 0..NBlocks
    /\ driver.phase \in {"idle", "wait", "move"} /\ driver.left \in 0..driver.count
    /\ irq \in BOOLEAN /\ DOMAIN expected = Blocks

(* The blocks a call of diskimage_access has still to write.               *)
ToWrite ==
    IF access.kind # "write" THEN NoData
    ELSE [b \in access.block..access.block + access.left - 1 |->
              access.data[b - access.block + 1]]

Image == INSTANCE CrashDisk WITH
             disk <- [b \in Blocks |-> Contents(b)], writing <- ToWrite,
             recent <- InStreams, deaths <- counts.deaths

(* The files, the bitmaps and the streams together implement a disk whose  *)
(* blocks hold what was written last, and of which the death of the        *)
(* emulator may damage only the blocks that are still in a stream.         *)
ImplementsDisk == Image!Spec

(* With overlays the death of the emulator can damage two blocks at most,  *)
(* the block being written and the one written before it.                  *)
FewBlocksAtRisk == nr_of_overlays > 0 => Cardinality(InStreams) <= 2

(* When no command was abandoned, the sectors the driver has written are   *)
(* what the image holds when the driver is idle.                           *)
WritesArrive ==
    Running /\ driver.phase = "idle" /\ ~Abandoned =>
        \A b \in Blocks: Contents(b) = expected[b]

(* The sectors of a command that lie behind the end of the file they are   *)
(* taken from are its last ones.                                           *)
MissingAtEnd ==
    \A b, c \in driver.sector..driver.sector + driver.count - 1:
        b < c /\ InFile(c) => InFile(b)

(* A read command whose sectors have all come.                             *)
ReadComplete ==
    Running /\ driver.phase # "idle" /\ driver.command \in Reads /\ ~Abandoned

(* What the driver has read and what it will find in the buffer is what    *)
(* the image holds in the sectors it has asked for.                        *)
SectorsRead ==
    LET all == driver.done \o d.inbuf
    IN  /\ Len(all) = driver.count * Parts
        /\ \A i \in 1..driver.count, j \in 1..Parts:
               all[(i - 1) * Parts + j] = Contents(driver.sector + i - 1)[j]

(* When no command was abandoned, a read returns what the image holds, and *)
(* zeros for what lies behind the end of the files: the buffer that reads  *)
(* and writes share has nothing else in it.  With overlays this needs the  *)
(* missing sectors to be the last ones of the command (fread_helper,       *)
(* diskimage__internal_access, wdc__read).                                 *)
ReadsIntact == ReadComplete /\ (nr_of_overlays = 0 \/ MissingAtEnd) => SectorsRead

(* What the comment of fread_helper says: a read takes every block from    *)
(* the last overlay that has it, or from the image itself.  The code does  *)
(* not do that when a sector behind the end of the image is read together  *)
(* with one that an overlay has: zeros replace the latter.                 *)
OverlaysRead == ReadComplete => SectorsRead

(* A command comes to its end: the interrupts for which the driver waits   *)
(* are asserted, one for every sector or one for all of them.              *)
CommandsEnd == driver.phase # "idle" ~> (driver.phase = "idle" \/ Abandoned)
=============================================================================
