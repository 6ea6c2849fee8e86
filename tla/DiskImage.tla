----------------------------- MODULE DiskImage ------------------------------
(***************************************************************************)
(* Disk images with overlays (diskimage.c).  An overlay is a file of data  *)
(* and a file with one bit for every block it has; reads take the last     *)
(* overlay that has the block, writes go to the last overlay.              *)
(*                                                                         *)
(* The files are stdio streams: what is written stays in the stream until  *)
(* the next fseek() on it, and is lost when the process dies before that.  *)
(* An access is a sequence of steps, so that the process may die between   *)
(* any two of them.                                                        *)
(*                                                                         *)
(* A file may be shorter than the image: the size of a disk is rounded up  *)
(* to whole cylinders, and an overlay begins as two empty files.  Files    *)
(* end at the end of a block.                                              *)
(***************************************************************************)
EXTENDS Naturals, Sequences, FiniteSets, FiniteSetsExt

CONSTANTS
    NBlocks,        \* blocks of the image
    BlocksPerByte,  \* bits of a byte of the bitmap that stand for blocks
    Zero,           \* a block of zeros
    Leftovers,      \* what a block of the caller's buffer may hold before a read
    Images          \* the possible base files and overlays, before the first run

Blocks == 0..NBlocks - 1

ASSUME DiskImageAssumption == NBlocks \in Nat \ {0} /\ BlocksPerByte \in Nat \ {0}

(* The byte of the bitmap that holds the bit of a block.                   *)
Byte(b) == b \div BlocksPerByte

(* A file has a size, and after its end there is nothing.                  *)
IsFile(file, places, nothing) ==
    /\ DOMAIN file.content = places /\ file.size \in Nat
    /\ \A x \in places: x >= file.size => file.content[x] = nothing

ASSUME ImagesAssumption ==
    \A i \in Images:
        /\ IsFile(i.base, Blocks, Zero)
        /\ Len(i.overlays) \in Nat /\ DOMAIN i.overlays = 1..Len(i.overlays)
        /\ \A n \in DOMAIN i.overlays:
               /\ IsFile(i.overlays[n].data, Blocks, Zero)
               /\ IsFile(i.overlays[n].bitmap, {Byte(b): b \in Blocks}, {})

VARIABLES
    f,          \* the base file
    overlays,   \* its overlays, each with f_data and f_bitmap
    access      \* the access in progress

files == <<f, overlays>>

nr_of_overlays == Len(overlays)

-----------------------------------------------------------------------------
(* Streams: what the file holds, the places it is long enough for, and     *)
(* what has been written since the last fseek().                           *)

NoData == [x \in {} |-> Zero]

Stream(content, extent) == [content |-> content, extent |-> extent, dirty |-> NoData]

(* A write behind the end makes the file longer.  What is between the old  *)
(* end and the new data reads as zeros.                                    *)
Extended(s, written) == {x \in DOMAIN s.content: \E y \in s.extent \cup written: x <= y}

(* What an fread() after an fseek() returns.                               *)
fread(s, x) == IF x \in DOMAIN s.dirty THEN s.dirty[x] ELSE s.content[x]

fseek(s) == Stream([x \in DOMAIN s.content |-> fread(s, x)], Extended(s, DOMAIN s.dirty))

fwrite(s, written) == [s EXCEPT !.dirty = written]

(* A bug to be caught: a write joins what the stream holds already.        *)
WriteBuffered(s, written) ==
    fwrite(s, [x \in DOMAIN s.dirty \cup DOMAIN written |->
                   IF x \in DOMAIN written THEN written[x] ELSE s.dirty[x]])

(* fseek() and fwrite(), one after the other.                              *)
WriteAt(s, written) == fwrite(fseek(s), written)

(* The stream of a process that starts after this one has died, when of    *)
(* what was in the stream only the part kept had reached the file.         *)
AfterDeath(s, kept) ==
    Stream([x \in DOMAIN s.content |-> IF x \in kept THEN s.dirty[x] ELSE s.content[x]],
           Extended(s, kept))

(* A bug to be caught: the other bits of the byte are not kept.            *)
BitmapOneBit(o, b) == {b}

(* The bitmap's byte with one more bit.                                    *)
BitmapByte(o, b) == fread(o.f_bitmap, Byte(b)) \cup {b}

overlay_set_block_in_use(o, b) ==
    [o EXCEPT !.f_bitmap = WriteAt(@, [x \in {Byte(b)} |-> BitmapByte(o, b)])]

overlay_has_block(o, b) == b \in fread(o.f_bitmap, Byte(b))

Has(b) == {n \in 1..nr_of_overlays: overlay_has_block(overlays[n], b)}

(* A bug to be caught: the search starts with the first overlay.           *)
FirstOverlay(b) == IF Has(b) = {} THEN 0 ELSE Min(Has(b))

(* The overlay that a read takes, or 0 for the base file.                  *)
ReadFrom(b) == IF Has(b) = {} THEN 0 ELSE Max(Has(b))

Source(b) == IF ReadFrom(b) = 0 THEN f ELSE overlays[ReadFrom(b)].f_data

(* What the image holds in a block.                                        *)
Contents(b) == fread(Source(b), b)

(* The file a block is taken from is long enough to hold it.               *)
InFile(b) == b \in Extended(Source(b), DOMAIN Source(b).dirty)

-----------------------------------------------------------------------------
NoAccess == [kind |-> "none", block |-> 0, left |-> 0, data |-> <<>>, short |-> 0,
             step |-> "data"]

fopen(file) == Stream(file.content, 0..file.size - 1)

InitFiles ==
    /\ \E i \in Images: f = fopen(i.base)
                     /\ overlays = [n \in DOMAIN i.overlays |->
                            [f_data   |-> fopen(i.overlays[n].data),
                             f_bitmap |-> fopen(i.overlays[n].bitmap)]]
    /\ access = NoAccess

(* diskimage_access() is called.                                           *)
Read(b, n) == access' = [NoAccess EXCEPT !.kind = "read", !.block = b, !.left = n]

Write(b, data) ==
    access' = [NoAccess EXCEPT !.kind = "write", !.block = b, !.left = Len(data),
                               !.data = data]

(* The access after one block has been read.  A block that the file does   *)
(* not have leaves the buffer as it was, and is missing from the total.    *)
Fetched(a, old) ==
    [a EXCEPT !.block = @ + 1, !.left = @ - 1,
              !.data = Append(@, IF InFile(a.block) THEN Contents(a.block) ELSE old),
              !.short = IF InFile(a.block) THEN @ ELSE @ + 1]

(* fread_helper(), one block: the bitmaps that are looked at and the file  *)
(* that is read are seeked in.  Without overlays all the blocks are read   *)
(* by one fread(), which comes to the same.                                *)
ReadBlock ==
    /\ access.kind = "read" /\ access.left > 0
    /\ \E old \in Leftovers: access' = Fetched(access, old)
    /\ LET n == ReadFrom(access.block)
       IN  /\ f' = IF n = 0 THEN fseek(f) ELSE f
           /\ overlays' = [m \in DOMAIN overlays |->
                  [f_data   |-> IF m = n THEN fseek(overlays[m].f_data) ELSE overlays[m].f_data,
                   f_bitmap |-> IF m >= n THEN fseek(overlays[m].f_bitmap)
                                ELSE overlays[m].f_bitmap]]

(* A bug to be caught: the buffer is returned as it is.                    *)
NotFilled(a) == a.data

(* The buffer that diskimage__internal_access() returns: as many blocks as *)
(* are missing from the total are set to zeros, at the END of the buffer.  *)
ZeroFilled(a) ==
    [i \in 1..Len(a.data) |-> IF i > Len(a.data) - a.short THEN Zero ELSE a.data[i]]

(* The access after one block has been written.                            *)
NextBlock(a) ==
    IF a.left = 1 THEN NoAccess
    ELSE [a EXCEPT !.block = @ + 1, !.left = @ - 1, !.step = "data", !.data = Tail(@)]

(* fwrite_helper() without overlays: all the blocks at once.               *)
WriteBase ==
    /\ access.kind = "write" /\ nr_of_overlays = 0 /\ access' = NoAccess
    /\ f' = WriteAt(f, [b \in access.block..access.block + access.left - 1 |->
                            access.data[b - access.block + 1]])
    /\ overlays' = overlays

(* fwrite_helper() with overlays, one block: the data, then the bit.       *)
WriteData ==
    /\ access.kind = "write" /\ nr_of_overlays > 0 /\ access.step = "data"
    /\ access' = [access EXCEPT !.step = "bitmap"]
    /\ overlays' = [overlays EXCEPT ![nr_of_overlays].f_data =
                        WriteAt(@, [b \in {access.block} |-> Head(access.data)])]
    /\ f' = f

MarkBlock ==
    /\ access.kind = "write" /\ access.step = "bitmap" /\ access' = NextBlock(access)
    /\ overlays' = [overlays EXCEPT ![nr_of_overlays] =
                        overlay_set_block_in_use(@, access.block)]
    /\ f' = f

(* The process dies, and another one opens the same files.  A block or a   *)
(* byte is smaller than the stream's buffer and is lost; a longer write to *)
(* the base file may have reached the file in part.                        *)
Die ==
    /\ \E kept \in SUBSET DOMAIN f.dirty: f' = AfterDeath(f, kept)
    /\ overlays' = [n \in DOMAIN overlays |->
                        [f_data   |-> AfterDeath(overlays[n].f_data, {}),
                         f_bitmap |-> AfterDeath(overlays[n].f_bitmap, {})]]
    /\ access' = NoAccess

-----------------------------------------------------------------------------
(* The blocks whose data or whose bit is still in a stream.                *)
InStreams ==
    DOMAIN f.dirty \cup
    UNION {DOMAIN overlays[n].f_data.dirty \cup
           UNION {overlays[n].f_bitmap.dirty[x] \ overlays[n].f_bitmap.content[x]:
                      x \in DOMAIN overlays[n].f_bitmap.dirty}:
               n \in 1..nr_of_overlays}
=============================================================================
