----------------------------- MODULE WdcProofs ------------------------------
(***************************************************************************)
(* The disk image implements CrashDisk, and the IDE controller moves the   *)
(* driver's sectors, for any number of blocks, overlays, sectors and parts *)
(* and however often the emulator dies.                                    *)
(***************************************************************************)
EXTENDS Wdc, SequenceTheorems, FiniteSetTheorems, WellFoundedInduction, TLAPS

-----------------------------------------------------------------------------
(* Streams.                                                                *)

Bytes == {Byte(b): b \in Blocks}

(* A stream on a file that has the places in D.                            *)
StreamOn(s, D) ==
    /\ s = [content |-> s.content, extent |-> s.extent, dirty |-> s.dirty]
    /\ DOMAIN s.content = D /\ DOMAIN s.dirty \subseteq D

(* What is read from a stream: what was written last.                      *)
LEMMA Reading ==
    ASSUME NEW s, NEW D, StreamOn(s, D), NEW x \in D
    PROVE  fread(s, x) = IF x \in DOMAIN s.dirty THEN s.dirty[x] ELSE s.content[x]
  BY DEF fread

(* A new stream.                                                           *)
LEMMA Opening ==
    ASSUME NEW c, NEW e, NEW D, DOMAIN c = D
    PROVE  /\ StreamOn(Stream(c, e), D) /\ Stream(c, e).extent = e
           /\ Stream(c, e).content = c /\ DOMAIN Stream(c, e).dirty = {}
  BY DEF Stream, StreamOn, NoData

(* fseek() empties the stream into the file.                               *)
LEMMA Seeking ==
    ASSUME NEW s, NEW D, StreamOn(s, D)
    PROVE  /\ StreamOn(fseek(s), D) /\ DOMAIN fseek(s).dirty = {}
           /\ fseek(s).extent = Extended(s, DOMAIN s.dirty)
           /\ \A x \in D: fseek(s).content[x] = fread(s, x)
           /\ \A x \in D: fread(fseek(s), x) = fread(s, x)
<1>1. /\ StreamOn(fseek(s), D) /\ DOMAIN fseek(s).dirty = {}
      /\ fseek(s).extent = Extended(s, DOMAIN s.dirty)
      /\ fseek(s).content = [x \in D |-> fread(s, x)]
  BY Opening DEF fseek, StreamOn
<1>2. \A x \in D: fseek(s).content[x] = fread(s, x)
  BY <1>1
<1>3. ASSUME NEW x \in D PROVE fread(fseek(s), x) = fread(s, x)
  BY <1>1, <1>2, Reading
<1> QED BY <1>1, <1>2, <1>3

(* Writing leaves what is written in the stream, and the rest in the file. *)
LEMMA Writing ==
    ASSUME NEW s, NEW D, StreamOn(s, D), NEW w, DOMAIN w \subseteq D
    PROVE  /\ StreamOn(WriteAt(s, w), D) /\ WriteAt(s, w).dirty = w
           /\ WriteAt(s, w).extent = Extended(s, DOMAIN s.dirty)
           /\ \A x \in D: WriteAt(s, w).content[x] = fread(s, x)
           /\ \A x \in D: fread(WriteAt(s, w), x) = IF x \in DOMAIN w THEN w[x] ELSE fread(s, x)
<1>1. StreamOn(fseek(s), D)
  BY Seeking
<1>2. /\ StreamOn(WriteAt(s, w), D) /\ WriteAt(s, w).dirty = w
      /\ WriteAt(s, w).content = fseek(s).content /\ WriteAt(s, w).extent = fseek(s).extent
  BY <1>1 DEF WriteAt, fwrite, StreamOn
<1>3. \A x \in D: WriteAt(s, w).content[x] = fread(s, x)
  BY <1>2, Seeking
<1>4. WriteAt(s, w).extent = Extended(s, DOMAIN s.dirty)
  BY <1>2, Seeking
<1> QED BY <1>2, <1>3, <1>4, Reading

(* A death loses what was in the stream, but for what is kept.             *)
LEMMA Dying ==
    ASSUME NEW s, NEW D, StreamOn(s, D), NEW kept \in SUBSET DOMAIN s.dirty
    PROVE  LET t == AfterDeath(s, kept)
           IN  /\ StreamOn(t, D) /\ DOMAIN t.dirty = {} /\ t.extent = Extended(s, kept)
               /\ \A x \in D: t.content[x] = IF x \in kept THEN s.dirty[x] ELSE s.content[x]
               /\ \A x \in D: fread(t, x) = t.content[x]
<1> DEFINE t == AfterDeath(s, kept)
<1>1. /\ StreamOn(t, D) /\ DOMAIN t.dirty = {} /\ t.extent = Extended(s, kept)
      /\ \A x \in D: t.content[x] = IF x \in kept THEN s.dirty[x] ELSE s.content[x]
  BY Opening DEF AfterDeath, StreamOn, Stream
<1> HIDE DEF t
<1>2. \A x \in D: fread(t, x) = t.content[x]
  BY <1>1, Reading
<1> QED BY <1>1, <1>2 DEF t

-----------------------------------------------------------------------------
(* The overlays.                                                           *)

(* Every nonempty set of natural numbers has a least element.              *)
LEMMA LeastNatural ==
    ASSUME NEW T \in SUBSET Nat, T # {}
    PROVE  \E x \in T: \A y \in T: x <= y
<1> DEFINE R == {ss \in Nat \X Nat: ss[1] < ss[2]}
<1>1. IsWellFoundedOn(R, Nat)
  BY NatLessThanWellFounded, Zenon DEF OpToRel
<1> HIDE DEF R
<1>2. \E x \in T: \A y \in T: <<y, x>> \notin R
  BY <1>1, WFMin, Zenon
<1>3. \A x, y \in T: <<y, x>> \notin R => x <= y
  BY DEF R
<1> QED BY <1>2, <1>3

(* A nonempty set of overlays has a last one, and Max finds it.            *)
LEMMA LastOverlay ==
    ASSUME NEW n \in Nat, NEW T \in SUBSET (1..n), T # {}
    PROVE  Max(T) \in T /\ \A y \in T: Max(T) >= y
<1> DEFINE U == {k \in Nat: n - k \in T}
<1>1. \A y \in T: n - y \in U
  OBVIOUS
<1>2. PICK u \in U: \A y \in U: u <= y
  BY <1>1, LeastNatural
<1>3. \E x \in T: \A y \in T: x >= y
  BY <1>1, <1>2
<1> QED BY <1>3 DEF Max

(* An overlay: its two files, and a bitmap to which bits are only added.   *)
OverlayOK(o) ==
    /\ o = [f_data |-> o.f_data, f_bitmap |-> o.f_bitmap]
    /\ StreamOn(o.f_data, Blocks) /\ StreamOn(o.f_bitmap, Bytes)
    /\ \A x \in DOMAIN o.f_bitmap.dirty: o.f_bitmap.content[x] \subseteq o.f_bitmap.dirty[x]

FilesOK ==
    /\ StreamOn(f, Blocks)
    /\ Len(overlays) \in Nat /\ DOMAIN overlays = 1..Len(overlays)
    /\ \A n \in 1..Len(overlays): OverlayOK(overlays[n])

(* The bits that are in the stream and not yet in the file.                *)
NewBits(o) ==
    UNION {o.f_bitmap.dirty[x] \ o.f_bitmap.content[x]: x \in DOMAIN o.f_bitmap.dirty}

(* Nothing is in the streams of an overlay.                                *)
Settled(o) == DOMAIN o.f_data.dirty = {} /\ DOMAIN o.f_bitmap.dirty = {}

(* Only the last overlay is written to, and a stream holds one block.      *)
OneBlockEach ==
    nr_of_overlays > 0 =>
        /\ DOMAIN f.dirty = {}
        /\ \A n \in 1..nr_of_overlays - 1: Settled(overlays[n])
        /\ \E b, c: /\ DOMAIN overlays[nr_of_overlays].f_data.dirty \subseteq {b}
                    /\ NewBits(overlays[nr_of_overlays]) \subseteq {c}

LEMMA BlockByte ==
    ASSUME NEW b \in Blocks
    PROVE  Byte(b) \in Bytes
  BY DEF Bytes

(* The overlay from which a block is read.                                 *)
LEMMA ReadFromType ==
    ASSUME FilesOK, NEW b
    PROVE  /\ ReadFrom(b) \in 0..nr_of_overlays
           /\ nr_of_overlays \in Has(b) => ReadFrom(b) = nr_of_overlays
           /\ nr_of_overlays = 0 => ReadFrom(b) = 0
<1>1. Has(b) \in SUBSET (1..nr_of_overlays) /\ nr_of_overlays \in Nat
  BY DEF Has, FilesOK, nr_of_overlays
<1>2. CASE Has(b) = {}
  BY <1>1, <1>2 DEF ReadFrom
<1>3. CASE Has(b) # {}
  <2>1. Max(Has(b)) \in Has(b) /\ \A y \in Has(b): Max(Has(b)) >= y
    BY <1>1, <1>3, LastOverlay
  <2> QED BY <1>1, <1>3, <2>1 DEF ReadFrom
<1> QED BY <1>2, <1>3

(* What is still in the streams.                                           *)
LEMMA InStreamsIff ==
    ASSUME NEW b
    PROVE  b \in InStreams <=>
               \/ b \in DOMAIN f.dirty
               \/ \E n \in 1..nr_of_overlays: \/ b \in DOMAIN overlays[n].f_data.dirty
                                              \/ b \in NewBits(overlays[n])
  BY DEF InStreams, NewBits

(* When nothing that a block is read from differs, the block is the same.  *)
LEMMA SameContents ==
    ASSUME FilesOK, Len(overlays') = Len(overlays), NEW b \in Blocks,
           fread(f, b)' = fread(f, b),
           \A n \in 1..nr_of_overlays:
               /\ overlay_has_block(overlays'[n], b) <=> overlay_has_block(overlays[n], b)
               /\ n = ReadFrom(b) => fread(overlays'[n].f_data, b) = fread(overlays[n].f_data, b)
    PROVE  Contents(b)' = Contents(b) /\ ReadFrom(b)' = ReadFrom(b)
<1>1. Has(b)' = Has(b)
  BY DEF Has, nr_of_overlays
<1>2. ReadFrom(b)' = ReadFrom(b)
  BY <1>1 DEF ReadFrom
<1>3. ReadFrom(b) = 0 \/ ReadFrom(b) \in 1..nr_of_overlays
  BY ReadFromType DEF FilesOK, nr_of_overlays
<1> QED BY <1>2, <1>3 DEF Contents, Source

-----------------------------------------------------------------------------
(* What the steps of an access do to the files.                            *)

(* The same number of overlays.                                            *)
LEMMA SameLen ==
    ASSUME FilesOK, DOMAIN overlays' = DOMAIN overlays
    PROVE  Len(overlays') = Len(overlays) /\ DOMAIN overlays' = 1..Len(overlays')
  BY DEF FilesOK

(* fread_helper() changes nothing that is read, and empties streams only.  *)
LEMMA ReadBlockFiles ==
    ASSUME FilesOK, ReadBlock
    PROVE  /\ FilesOK' /\ Len(overlays') = Len(overlays)
           /\ \A b \in Blocks: Contents(b)' = Contents(b) /\ ReadFrom(b)' = ReadFrom(b)
           /\ InStreams' \subseteq InStreams
           /\ OneBlockEach => OneBlockEach'
<1>1. Len(overlays') = Len(overlays) /\ DOMAIN overlays' = 1..Len(overlays')
  BY SameLen DEF ReadBlock
<1>2. f' = f \/ f' = fseek(f)
  BY DEF ReadBlock
<1>3. /\ StreamOn(f', Blocks) /\ DOMAIN f'.dirty \subseteq DOMAIN f.dirty
      /\ \A b \in Blocks: fread(f', b) = fread(f, b)
  BY <1>2, Seeking DEF FilesOK
<1>4. ASSUME NEW n \in 1..Len(overlays)
      PROVE  /\ OverlayOK(overlays'[n])
             /\ DOMAIN overlays'[n].f_data.dirty \subseteq DOMAIN overlays[n].f_data.dirty
             /\ NewBits(overlays'[n]) \subseteq NewBits(overlays[n])
             /\ DOMAIN overlays'[n].f_bitmap.dirty \subseteq DOMAIN overlays[n].f_bitmap.dirty
             /\ \A b \in Blocks: fread(overlays'[n].f_data, b) = fread(overlays[n].f_data, b)
             /\ \A x \in Bytes: fread(overlays'[n].f_bitmap, x) = fread(overlays[n].f_bitmap, x)
  <2> DEFINE o == overlays[n]
             p == overlays'[n]
  <2>1. OverlayOK(o)
    BY DEF FilesOK
  <2>2. /\ p = [f_data |-> p.f_data, f_bitmap |-> p.f_bitmap]
        /\ p.f_data = o.f_data \/ p.f_data = fseek(o.f_data)
        /\ p.f_bitmap = o.f_bitmap \/ p.f_bitmap = fseek(o.f_bitmap)
    BY DEF ReadBlock, FilesOK
  <2> HIDE DEF o, p
  <2>3. /\ StreamOn(p.f_data, Blocks)
        /\ DOMAIN p.f_data.dirty \subseteq DOMAIN o.f_data.dirty
        /\ \A b \in Blocks: fread(p.f_data, b) = fread(o.f_data, b)
    BY <2>1, <2>2, Seeking DEF OverlayOK
  <2>4. /\ StreamOn(p.f_bitmap, Bytes)
        /\ DOMAIN p.f_bitmap.dirty = {} \/ p.f_bitmap = o.f_bitmap
        /\ \A x \in Bytes: fread(p.f_bitmap, x) = fread(o.f_bitmap, x)
    BY <2>1, <2>2, Seeking DEF OverlayOK
  <2>5. NewBits(p) \subseteq NewBits(o)
    BY <2>4 DEF NewBits
  <2>6. OverlayOK(p)
    BY <2>1, <2>2, <2>3, <2>4 DEF OverlayOK
  <2> QED BY <2>3, <2>4, <2>5, <2>6 DEF o, p
<1>5. FilesOK'
  BY <1>1, <1>3, <1>4 DEF FilesOK
<1>6. ASSUME NEW b \in Blocks PROVE Contents(b)' = Contents(b) /\ ReadFrom(b)' = ReadFrom(b)
  BY <1>1, <1>3, <1>4, SameContents, BlockByte DEF overlay_has_block, nr_of_overlays
<1>7. InStreams' \subseteq InStreams
  BY <1>1, <1>3, <1>4 DEF InStreams, NewBits, nr_of_overlays
<1>8. ASSUME OneBlockEach, Len(overlays) > 0 PROVE OneBlockEach'
  <2> DEFINE n == Len(overlays)
  <2>1. n \in Nat /\ n \in 1..n /\ \A m \in 1..n - 1: m \in 1..n
    BY <1>8 DEF FilesOK
  <2>2. /\ DOMAIN f.dirty = {} /\ \A m \in 1..n - 1: Settled(overlays[m])
        /\ \E b, c: DOMAIN overlays[n].f_data.dirty \subseteq {b} /\ NewBits(overlays[n]) \subseteq {c}
    BY <1>8 DEF OneBlockEach, nr_of_overlays
  <2>3. DOMAIN f'.dirty = {} /\ \A m \in 1..n - 1: Settled(overlays'[m])
    BY <1>3, <1>4, <2>1, <2>2 DEF Settled
  <2>4. \E b, c: /\ DOMAIN overlays'[n].f_data.dirty \subseteq {b}
                 /\ NewBits(overlays'[n]) \subseteq {c}
    BY <1>4, <2>1, <2>2
  <2> QED BY <1>1, <2>3, <2>4 DEF OneBlockEach, nr_of_overlays
<1>9. Len(overlays) = 0 => OneBlockEach'
  BY <1>1 DEF OneBlockEach, nr_of_overlays
<1> QED BY <1>1, <1>5, <1>6, <1>7, <1>8, <1>9 DEF FilesOK

(* fwrite_helper() without overlays writes the blocks, and no other.       *)
LEMMA WriteBaseFiles ==
    ASSUME FilesOK, WriteBase,
           access.block..access.block + access.left - 1 \subseteq Blocks
    PROVE  /\ FilesOK' /\ overlays' = overlays /\ nr_of_overlays = 0
           /\ \A b \in Blocks:
                  Contents(b)' = IF b \in DOMAIN ToWrite THEN ToWrite[b] ELSE Contents(b)
           /\ InStreams' \subseteq DOMAIN ToWrite
           /\ OneBlockEach'
<1>1. access.kind = "write" /\ nr_of_overlays = 0 /\ overlays' = overlays
  BY DEF WriteBase
<1>2. f' = WriteAt(f, ToWrite) /\ DOMAIN ToWrite \subseteq Blocks
  BY <1>1 DEF WriteBase, ToWrite
<1>3. /\ StreamOn(f', Blocks) /\ f'.dirty = ToWrite
      /\ \A b \in Blocks:
             fread(f', b) = IF b \in DOMAIN ToWrite THEN ToWrite[b] ELSE fread(f, b)
  BY <1>2, Writing DEF FilesOK
<1>4. FilesOK'
  BY <1>1, <1>3 DEF FilesOK
<1>5. \A b: ReadFrom(b) = 0 /\ ReadFrom(b)' = 0
  <2>1. \A b: Has(b) = {} /\ Has(b)' = {}
    BY <1>1 DEF Has, nr_of_overlays
  <2> QED BY <2>1 DEF ReadFrom
<1>6. \A b \in Blocks:
          Contents(b)' = IF b \in DOMAIN ToWrite THEN ToWrite[b] ELSE Contents(b)
  BY <1>3, <1>5 DEF Contents, Source
<1>7. InStreams' \subseteq DOMAIN ToWrite
  BY <1>1, <1>3 DEF InStreams, nr_of_overlays
<1>8. OneBlockEach'
  BY <1>1 DEF OneBlockEach, nr_of_overlays
<1> QED BY <1>1, <1>4, <1>6, <1>7, <1>8

(* Steps that change the last overlay only.                                *)
LEMMA OneOverlay ==
    ASSUME FilesOK, nr_of_overlays > 0, f' = f, NEW p,
           overlays' = [overlays EXCEPT ![nr_of_overlays] = p], OverlayOK(p)
    PROVE  /\ FilesOK' /\ nr_of_overlays' = nr_of_overlays
           /\ nr_of_overlays \in 1..nr_of_overlays /\ overlays'[nr_of_overlays] = p
           /\ \A n \in 1..nr_of_overlays: n # nr_of_overlays => overlays'[n] = overlays[n]
           /\ OneBlockEach /\ (\E b, c: DOMAIN p.f_data.dirty \subseteq {b} /\ NewBits(p) \subseteq {c})
                  => OneBlockEach'
<1> DEFINE n == Len(overlays)
<1>1. n \in Nat /\ n \in 1..n /\ n = nr_of_overlays /\ DOMAIN overlays = 1..n
  BY DEF FilesOK, nr_of_overlays
<1>2. Len(overlays') = n /\ DOMAIN overlays' = 1..n
  BY <1>1, SameLen
<1>3. overlays'[n] = p /\ \A m \in 1..n: m # n => overlays'[m] = overlays[m]
  BY <1>1
<1>4. FilesOK'
  BY <1>1, <1>2, <1>3 DEF FilesOK
<1>5. ASSUME OneBlockEach,
             \E b, c: DOMAIN p.f_data.dirty \subseteq {b} /\ NewBits(p) \subseteq {c}
      PROVE  OneBlockEach'
  <2>1. /\ DOMAIN f'.dirty = {} /\ \A m \in 1..n - 1: Settled(overlays[m])
    BY <1>1, <1>5 DEF OneBlockEach
  <2>2. \A m \in 1..n - 1: m \in 1..n /\ m # n
    BY <1>1
  <2>3. \A m \in 1..n - 1: Settled(overlays'[m])
    BY <1>3, <2>1, <2>2
  <2> QED BY <1>2, <1>3, <1>5, <2>1, <2>3 DEF OneBlockEach, nr_of_overlays
<1> QED BY <1>1, <1>2, <1>3, <1>4, <1>5 DEF nr_of_overlays

(* fwrite_helper() with overlays: the data of one block.                   *)
LEMMA WriteDataFiles ==
    ASSUME FilesOK, WriteData, access.block \in Blocks
    PROVE  /\ FilesOK' /\ nr_of_overlays' = nr_of_overlays
           /\ fread(overlays'[nr_of_overlays].f_data, access.block) = Head(access.data)
           /\ \A b \in Blocks: \/ Contents(b)' = Contents(b)
                               \/ b = access.block /\ Contents(b)' = Head(access.data)
           /\ InStreams' \subseteq InStreams \cup {access.block}
           /\ OneBlockEach => OneBlockEach'
<1> DEFINE n == nr_of_overlays
           w == [b \in {access.block} |-> Head(access.data)]
           o == overlays[n]
           p == [f_data |-> WriteAt(o.f_data, w), f_bitmap |-> o.f_bitmap]
<1>1. n > 0 /\ f' = f /\ overlays' = [overlays EXCEPT ![n].f_data = WriteAt(@, w)]
  BY DEF WriteData
<1>2. n \in 1..n /\ n \in DOMAIN overlays /\ OverlayOK(o)
  BY <1>1 DEF FilesOK, nr_of_overlays
<1>3. overlays' = [overlays EXCEPT ![n] = p]
  <2>1. [o EXCEPT !.f_data = WriteAt(o.f_data, w)] = p
    BY <1>2 DEF OverlayOK
  <2>2. overlays' = [overlays EXCEPT ![n] = [o EXCEPT !.f_data = WriteAt(o.f_data, w)]]
    BY <1>1
  <2> QED BY <2>1, <2>2
<1>4. DOMAIN w = {access.block} /\ w[access.block] = Head(access.data)
  OBVIOUS
<1> HIDE DEF w
<1>5. /\ StreamOn(p.f_data, Blocks) /\ p.f_data.dirty = w
      /\ \A x \in Blocks: fread(p.f_data, x) = IF x = access.block THEN Head(access.data)
                                               ELSE fread(o.f_data, x)
  BY <1>2, <1>4, Writing DEF OverlayOK
<1>6. OverlayOK(p) /\ NewBits(p) = NewBits(o)
  BY <1>2, <1>5 DEF OverlayOK, NewBits
<1> HIDE DEF p
<1>7. /\ FilesOK' /\ n' = n /\ overlays'[n] = p
      /\ \A m \in 1..n: m # n => overlays'[m] = overlays[m]
      /\ OneBlockEach /\ (\E b, c: DOMAIN p.f_data.dirty \subseteq {b} /\ NewBits(p) \subseteq {c})
             => OneBlockEach'
  BY <1>1, <1>3, <1>6, OneOverlay
<1>8. OneBlockEach => OneBlockEach'
  BY <1>1, <1>4, <1>5, <1>6, <1>7 DEF OneBlockEach
<1>9. p.f_bitmap = o.f_bitmap
  BY DEF p
<1>10. ASSUME NEW b \in Blocks
       PROVE  \/ Contents(b)' = Contents(b)
              \/ b = access.block /\ Contents(b)' = Head(access.data)
  <2>1. \A m \in 1..n: overlay_has_block(overlays'[m], b) <=> overlay_has_block(overlays[m], b)
    BY <1>7, <1>9 DEF overlay_has_block
  <2>2. Has(b)' = Has(b)
    BY <1>7, <2>1 DEF Has
  <2>3. ReadFrom(b)' = ReadFrom(b) /\ ReadFrom(b) \in 0..n
    BY <2>2, ReadFromType DEF ReadFrom
  <2>4. CASE ReadFrom(b) = n
    BY <1>1, <1>5, <1>7, <2>3, <2>4 DEF Contents, Source
  <2>5. CASE ReadFrom(b) = 0
    BY <1>1, <2>3, <2>5 DEF Contents, Source
  <2>6. CASE ReadFrom(b) # n /\ ReadFrom(b) # 0
    <3>1. ReadFrom(b) \in 1..n
      BY <1>2, <2>3, <2>6 DEF FilesOK, nr_of_overlays
    <3> QED BY <1>7, <2>3, <2>6, <3>1 DEF Contents, Source
  <2> QED BY <2>4, <2>5, <2>6
<1>11. InStreams' \subseteq InStreams \cup {access.block}
  <2>1. DOMAIN p.f_data.dirty = {access.block}
    BY <1>4, <1>5
  <2>2. \A m \in 1..n: DOMAIN overlays'[m].f_data.dirty \subseteq
                           DOMAIN overlays[m].f_data.dirty \cup {access.block}
                       /\ NewBits(overlays'[m]) = NewBits(overlays[m])
    BY <1>6, <1>7, <2>1
  <2> HIDE DEF n
  <2>3. ASSUME NEW b \in InStreams' PROVE b \in InStreams \cup {access.block}
    BY <1>1, <1>7, <2>2, <2>3 DEF InStreams, NewBits, n
  <2> QED BY <2>3
<1> QED BY <1>2, <1>5, <1>7, <1>8, <1>10, <1>11

(* overlay_set_block_in_use(): from now on the block is read from the last *)
(* overlay, and no other block is read from another place than before.     *)
LEMMA MarkBlockFiles ==
    ASSUME FilesOK, MarkBlock, nr_of_overlays > 0, access.block \in Blocks
    PROVE  /\ FilesOK' /\ nr_of_overlays' = nr_of_overlays
           /\ overlays'[nr_of_overlays].f_data = overlays[nr_of_overlays].f_data
           /\ \A b \in Blocks: b # access.block => Contents(b)' = Contents(b)
           /\ \A b \in Blocks: b = access.block =>
                  Contents(b)' = fread(overlays[nr_of_overlays].f_data, b)
           /\ InStreams' \subseteq InStreams \cup {access.block}
           /\ OneBlockEach => OneBlockEach'
<1> DEFINE n == nr_of_overlays
           k == access.block
           o == overlays[n]
           w == [x \in {Byte(k)} |-> fread(o.f_bitmap, Byte(k)) \cup {k}]
           p == [f_data |-> o.f_data, f_bitmap |-> WriteAt(o.f_bitmap, w)]
<1>1. f' = f /\ overlays' = [overlays EXCEPT ![n] = overlay_set_block_in_use(o, k)]
  BY DEF MarkBlock
<1>2. n \in 1..n /\ n \in Nat /\ n \in DOMAIN overlays /\ OverlayOK(o)
  BY DEF FilesOK, nr_of_overlays
<1>3. overlay_set_block_in_use(o, k) = p
  BY <1>2 DEF OverlayOK, overlay_set_block_in_use, BitmapByte
<1>4. DOMAIN w = {Byte(k)} /\ w[Byte(k)] = fread(o.f_bitmap, Byte(k)) \cup {k}
  OBVIOUS
<1> HIDE DEF w
<1>5. /\ StreamOn(p.f_bitmap, Bytes) /\ p.f_bitmap.dirty = w
      /\ \A x \in Bytes: p.f_bitmap.content[x] = fread(o.f_bitmap, x)
      /\ \A x \in Bytes: fread(p.f_bitmap, x) =
             IF x = Byte(k) THEN fread(o.f_bitmap, x) \cup {k} ELSE fread(o.f_bitmap, x)
  BY <1>2, <1>4, Writing, BlockByte DEF OverlayOK
<1>6. p.f_data = o.f_data /\ p = [f_data |-> p.f_data, f_bitmap |-> p.f_bitmap]
  OBVIOUS
<1> HIDE DEF p
<1>7. OverlayOK(p) /\ NewBits(p) \subseteq {k}
  BY <1>2, <1>4, <1>5, <1>6, BlockByte DEF OverlayOK, NewBits
<1>8. /\ FilesOK' /\ n' = n /\ overlays'[n] = p
      /\ \A m \in 1..n: m # n => overlays'[m] = overlays[m]
      /\ OneBlockEach /\ (\E b, c: DOMAIN p.f_data.dirty \subseteq {b} /\ NewBits(p) \subseteq {c})
             => OneBlockEach'
  BY <1>1, <1>3, <1>7, OneOverlay
<1>9. OneBlockEach => OneBlockEach'
  BY <1>6, <1>7, <1>8 DEF OneBlockEach
<1>10. ASSUME NEW b \in Blocks, b # k PROVE Contents(b)' = Contents(b)
  <2>1. \A m \in 1..n: overlay_has_block(overlays'[m], b) <=> overlay_has_block(overlays[m], b)
    BY <1>5, <1>8, <1>10, BlockByte DEF overlay_has_block
  <2>2. \A m \in 1..n: fread(overlays'[m].f_data, b) = fread(overlays[m].f_data, b)
    BY <1>6, <1>8
  <2> QED BY <1>1, <1>8, <2>1, <2>2, SameContents DEF nr_of_overlays
<1>11. ASSUME NEW b \in Blocks, b = k PROVE Contents(b)' = fread(o.f_data, b)
  <2>1. n \in Has(b)'
    BY <1>2, <1>5, <1>8, <1>11, BlockByte DEF Has, overlay_has_block
  <2>2. ReadFrom(b)' = n
    <3>1. Has(b)' \in SUBSET (1..n)
      BY <1>8 DEF Has
    <3>2. Max(Has(b)') \in Has(b)' /\ \A y \in Has(b)': Max(Has(b)') >= y
      BY <1>2, <2>1, <3>1, LastOverlay
    <3> QED BY <1>2, <2>1, <3>1, <3>2 DEF ReadFrom
  <2> QED BY <1>2, <1>6, <1>8, <2>2 DEF Contents, Source
<1>12. InStreams' \subseteq InStreams \cup {k}
  <2>1. \A m \in 1..n: /\ DOMAIN overlays'[m].f_data.dirty \subseteq
                              DOMAIN overlays[m].f_data.dirty
                       /\ NewBits(overlays'[m]) \subseteq NewBits(overlays[m]) \cup {k}
    BY <1>6, <1>7, <1>8
  <2> HIDE DEF n
  <2>2. ASSUME NEW b \in InStreams' PROVE b \in InStreams \cup {k}
    <3>1. \/ b \in DOMAIN f'.dirty
          \/ \E m \in 1..n': \/ b \in DOMAIN overlays'[m].f_data.dirty
                             \/ b \in NewBits(overlays'[m])
      BY <2>2 DEF InStreams, NewBits, n
    <3>2. \A m \in 1..n: /\ DOMAIN overlays[m].f_data.dirty \subseteq InStreams
                          /\ NewBits(overlays[m]) \subseteq InStreams
      BY DEF InStreams, NewBits, n
    <3>3. CASE b \in DOMAIN f'.dirty
      BY <1>1, <3>3 DEF InStreams
    <3>4. ASSUME NEW m \in 1..n, \/ b \in DOMAIN overlays'[m].f_data.dirty
                                 \/ b \in NewBits(overlays'[m])
          PROVE  b \in InStreams \cup {k}
      BY <2>1, <3>2, <3>4
    <3> QED BY <1>8, <3>1, <3>3, <3>4
  <2> QED BY <2>2
<1> QED BY <1>2, <1>6, <1>8, <1>9, <1>10, <1>11, <1>12

(* The death of the emulator: the streams are empty, and a block that was  *)
(* in none of them is what it was.                                         *)
LEMMA DieFiles ==
    ASSUME FilesOK, Die
    PROVE  /\ FilesOK' /\ Len(overlays') = Len(overlays)
           /\ \A b \in Blocks \ InStreams: Contents(b)' = Contents(b)
           /\ InStreams' = {}
           /\ OneBlockEach'
<1> DEFINE n == Len(overlays)
<1>1. n \in Nat /\ Len(overlays') = n /\ DOMAIN overlays' = 1..n
  BY SameLen DEF Die, FilesOK
<1>2. /\ StreamOn(f', Blocks) /\ DOMAIN f'.dirty = {}
      /\ \A b \in Blocks \ DOMAIN f.dirty: fread(f', b) = fread(f, b)
  <2>1. PICK kept \in SUBSET DOMAIN f.dirty: f' = AfterDeath(f, kept)
    BY DEF Die
  <2> QED BY <2>1, Dying, Reading DEF FilesOK
<1>3. ASSUME NEW m \in 1..n
      PROVE  /\ OverlayOK(overlays'[m]) /\ Settled(overlays'[m]) /\ NewBits(overlays'[m]) = {}
             /\ \A b \in Blocks \ DOMAIN overlays[m].f_data.dirty:
                    fread(overlays'[m].f_data, b) = fread(overlays[m].f_data, b)
             /\ \A b \in Blocks \ NewBits(overlays[m]):
                    overlay_has_block(overlays'[m], b) <=> overlay_has_block(overlays[m], b)
  <2> DEFINE o == overlays[m]
             p == overlays'[m]
  <2>1. OverlayOK(o)
    BY DEF FilesOK
  <2>2. p = [f_data |-> AfterDeath(o.f_data, {}), f_bitmap |-> AfterDeath(o.f_bitmap, {})]
    BY DEF Die, FilesOK
  <2> HIDE DEF o, p
  <2>3. /\ StreamOn(p.f_data, Blocks) /\ DOMAIN p.f_data.dirty = {}
        /\ \A x \in Blocks: fread(p.f_data, x) = o.f_data.content[x]
    BY <2>1, <2>2, Dying DEF OverlayOK
  <2>4. /\ StreamOn(p.f_bitmap, Bytes) /\ DOMAIN p.f_bitmap.dirty = {}
        /\ \A x \in Bytes: fread(p.f_bitmap, x) = o.f_bitmap.content[x]
    BY <2>1, <2>2, Dying DEF OverlayOK
  <2>5. \A b \in Blocks \ DOMAIN o.f_data.dirty: fread(p.f_data, b) = fread(o.f_data, b)
    BY <2>1, <2>3, Reading DEF OverlayOK
  <2>6. ASSUME NEW b \in Blocks \ NewBits(o)
        PROVE  overlay_has_block(p, b) <=> overlay_has_block(o, b)
    BY <2>1, <2>4, <2>6, Reading, BlockByte DEF OverlayOK, NewBits, overlay_has_block
  <2>7. OverlayOK(p) /\ Settled(p) /\ NewBits(p) = {}
    BY <2>2, <2>3, <2>4 DEF OverlayOK, Settled, NewBits
  <2> QED BY <2>5, <2>6, <2>7 DEF o, p
<1>4. FilesOK'
  BY <1>1, <1>2, <1>3 DEF FilesOK
<1>5. ASSUME NEW b \in Blocks \ InStreams PROVE Contents(b)' = Contents(b)
  <2>1. b \notin DOMAIN f.dirty /\ \A m \in 1..n: /\ b \notin DOMAIN overlays[m].f_data.dirty
                                                  /\ b \notin NewBits(overlays[m])
    BY <1>5, InStreamsIff DEF nr_of_overlays
  <2> QED BY <1>1, <1>2, <1>3, <2>1, SameContents DEF nr_of_overlays
<1>6. InStreams' = {}
  BY <1>1, <1>2, <1>3 DEF InStreams, NewBits, Settled, nr_of_overlays
<1>7. OneBlockEach'
  BY <1>1, <1>2, <1>3 DEF OneBlockEach, Settled, nr_of_overlays
<1> QED BY <1>1, <1>4, <1>5, <1>6, <1>7

-----------------------------------------------------------------------------
(* Sequences of anything.                                                  *)

IsSeq(s) == Len(s) \in Nat /\ s = [i \in 1..Len(s) |-> s[i]]

LEMMA FunctionIsSeq ==
    ASSUME NEW s, NEW n \in Nat, s = [i \in 1..n |-> s[i]]
    PROVE  IsSeq(s) /\ Len(s) = n
  BY DEF IsSeq

LEMMA SeqIsSeq ==
    ASSUME NEW S, NEW s \in Seq(S)
    PROVE  IsSeq(s)
  BY DEF IsSeq

LEMMA TailIsSeq ==
    ASSUME NEW s, IsSeq(s), Len(s) > 0
    PROVE  /\ IsSeq(Tail(s)) /\ Len(Tail(s)) = Len(s) - 1 /\ Head(s) = s[1]
           /\ \A i \in 1..Len(s) - 1: Tail(s)[i] = s[i + 1]
<1> DEFINE S == {s[i]: i \in 1..Len(s)}
<1>1. s \in Seq(S)
  BY DEF IsSeq
<1> HIDE DEF S
<1>2. Tail(s) \in Seq(S) /\ s # <<>>
  BY <1>1
<1>3. IsSeq(Tail(s))
  BY <1>2, SeqIsSeq
<1> QED BY <1>1, <1>2, <1>3

LEMMA AppendIsSeq ==
    ASSUME NEW s, IsSeq(s), NEW v
    PROVE  /\ IsSeq(Append(s, v)) /\ Len(Append(s, v)) = Len(s) + 1
           /\ \A i \in 1..Len(s): Append(s, v)[i] = s[i]
           /\ Append(s, v)[Len(s) + 1] = v
<1> DEFINE S == {s[i]: i \in 1..Len(s)} \cup {v}
<1>1. s \in Seq(S) /\ v \in S
  BY DEF IsSeq
<1> HIDE DEF S
<1>2. Append(s, v) \in Seq(S)
  BY <1>1
<1>3. IsSeq(Append(s, v))
  BY <1>2, SeqIsSeq
<1> QED BY <1>1, <1>2, <1>3

-----------------------------------------------------------------------------
(* The access in progress.  A block whose data is written and whose bit is *)
(* not yet set is read from the last overlay once it is.                   *)
AccessOK ==
    /\ access = [kind |-> access.kind, block |-> access.block, left |-> access.left,
                 data |-> access.data, short |-> access.short, step |-> access.step]
    /\ access.kind \in {"none", "read", "write"} /\ access.step \in {"data", "bitmap"}
    /\ access.block \in Nat /\ access.left \in 0..MaxCount
    /\ access.kind # "none" => access.block + access.left <= NBlocks
    /\ access.kind = "read" => IsSeq(access.data) /\ access.short \in 0..Len(access.data)
    /\ access.kind = "write" => /\ IsSeq(access.data) /\ Len(access.data) = access.left
                               /\ access.left > 0
    /\ access.step = "bitmap" =>
           /\ access.kind = "write" /\ nr_of_overlays > 0
           /\ fread(overlays[nr_of_overlays].f_data, access.block) = access.data[1]

(* The write command in progress fits into the image.                      *)
ControllerOK ==
    /\ d = [inbuf |-> d.inbuf, int_assert |-> d.int_assert,
            write_in_progress |-> d.write_in_progress, write_count |-> d.write_count,
            write_offset |-> d.write_offset, read_count |-> d.read_count]
    /\ d.read_count \in 0..MaxCount
    /\ d.int_assert \in BOOLEAN /\ d.write_in_progress \in Writes \cup {"no"}
    /\ d.write_count \in 0..MaxCount /\ d.write_offset \in Nat
    /\ d.write_offset + d.write_count <= NBlocks
    /\ d.write_in_progress # "no" => d.write_count > 0

(* So does the read command.                                               *)
ReadingOK ==
    access.kind = "read" => access.block + access.left + d.read_count <= NBlocks

CountsOK == counts \in [commands: Nat, abandoned: Nat, deaths: Nat]

(* The inductive invariant of the image.                                   *)
ImageInv == FilesOK /\ OneBlockEach /\ AccessOK /\ ControllerOK /\ ReadingOK /\ CountsOK

LEMMA NoAccessOK ==
    ASSUME access' = NoAccess
    PROVE  AccessOK' /\ ReadingOK' /\ ToWrite' = NoData
  BY DiskImageAssumption, WdcAssumption DEF AccessOK, ReadingOK, NoAccess, ToWrite

(* The blocks of an access.                                                *)
LEMMA AccessBlocks ==
    ASSUME AccessOK, access.kind # "none", access.left > 0
    PROVE  /\ access.block \in Blocks
           /\ access.block..access.block + access.left - 1 \subseteq Blocks
           /\ access.block \in access.block..access.block + access.left - 1
  BY DiskImageAssumption DEF AccessOK, Blocks

(* The access after a block is what is left of it.                         *)
LEMMA NextBlockOK ==
    ASSUME AccessOK, access.kind = "write", access' = NextBlock(access)
    PROVE  /\ AccessOK' /\ ReadingOK'
           /\ DOMAIN ToWrite' = DOMAIN ToWrite \ {access.block}
           /\ \A b \in DOMAIN ToWrite': ToWrite'[b] = ToWrite[b]
<1>1. CASE access.left = 1
  <2>1. access' = NoAccess
    BY <1>1 DEF NextBlock
  <2>2. DOMAIN ToWrite \subseteq {access.block}
    BY <1>1 DEF ToWrite, NoData, AccessOK
  <2> QED BY <2>1, <2>2, NoAccessOK DEF NoData
<1>2. CASE access.left # 1
  <2> DEFINE a == access
             rest == Tail(a.data)
  <2>1. access' = [kind |-> a.kind, block |-> a.block + 1, left |-> a.left - 1,
                   data |-> rest, short |-> a.short, step |-> "data"]
    BY <1>2 DEF NextBlock, AccessOK
  <2>2. a.left \in Nat /\ a.left > 1 /\ a.block \in Nat
    BY <1>2 DEF AccessOK
  <2>3. /\ access' = [kind |-> access'.kind, block |-> access'.block, left |-> access'.left,
                      data |-> access'.data, short |-> access'.short, step |-> access'.step]
        /\ access'.kind = a.kind /\ access'.block = a.block + 1 /\ access'.left = a.left - 1
        /\ access'.data = rest /\ access'.step = "data"
    BY <2>1
  <2>4. /\ access'.block \in Nat /\ access'.left \in 0..MaxCount /\ access'.left > 0
        /\ access'.block + access'.left <= NBlocks
    BY <2>2, <2>3, WdcAssumption, DiskImageAssumption DEF AccessOK
  <2>5. IsSeq(a.data) /\ Len(a.data) = a.left
    BY DEF AccessOK
  <2>6. /\ IsSeq(rest) /\ Len(rest) = a.left - 1
        /\ \A i \in 1..a.left - 1: rest[i] = a.data[i + 1]
    BY <2>2, <2>5, TailIsSeq
  <2> HIDE DEF rest
  <2>7. AccessOK' /\ ReadingOK'
    BY <2>3, <2>4, <2>6 DEF AccessOK, ReadingOK
  <2>8. /\ ToWrite' = [b \in a.block + 1..a.block + a.left - 1 |-> rest[b - a.block]]
        /\ ToWrite = [b \in a.block..a.block + a.left - 1 |-> a.data[b - a.block + 1]]
    BY SMTT(30), <2>1, <2>2 DEF ToWrite
  <2>9. DOMAIN ToWrite' = DOMAIN ToWrite \ {a.block}
    BY <2>2, <2>8
  <2>10. ASSUME NEW b \in DOMAIN ToWrite' PROVE ToWrite'[b] = ToWrite[b]
    <3>1. b \in a.block + 1..a.block + a.left - 1
      BY <2>8
    <3>2. b - a.block \in 1..a.left - 1 /\ b \in a.block..a.block + a.left - 1
      BY <2>2, <3>1
    <3>3. rest[b - a.block] = a.data[b - a.block + 1]
      BY <2>6, <3>2
    <3> QED BY <2>8, <3>1, <3>2, <3>3
  <2> QED BY <2>7, <2>9, <2>10
<1> QED BY <1>1, <1>2

(* One more block has been read.                                           *)
OneMore(a, b, seen, c) ==
    /\ b.kind = "read" /\ b.block = a.block + 1 /\ b.left = a.left - 1
    /\ Len(b.data) = Len(a.data) + 1
    /\ \A i \in 1..Len(a.data): b.data[i] = a.data[i]
    /\ seen => b.short = a.short /\ b.data[Len(a.data) + 1] = c
    /\ ~seen => b.short = a.short + 1

LEMMA FetchedOK ==
    ASSUME AccessOK, ReadingOK, ControllerOK, ReadBlock, d' = d
    PROVE  /\ AccessOK' /\ ReadingOK' /\ ToWrite = NoData /\ ToWrite' = NoData
           /\ OneMore(access, access', InFile(access.block), Contents(access.block))
           /\ access.kind = "read" /\ access.left > 0
<1> DEFINE seen == InFile(access.block)
           c == Contents(access.block)
<1>1. access.kind = "read" /\ access.left > 0
  BY DEF ReadBlock
<1>2. PICK old \in Leftovers: access' = Fetched(access, old)
  BY DEF ReadBlock
<1> DEFINE v == IF seen THEN c ELSE old
           short == IF seen THEN access.short ELSE access.short + 1
           data == Append(access.data, v)
<1>3. access' = [kind |-> access.kind, block |-> access.block + 1, left |-> access.left - 1,
                 data |-> data, short |-> short, step |-> access.step]
  BY <1>2 DEF Fetched, AccessOK
<1>4. IsSeq(access.data) /\ Len(access.data) \in Nat /\ access.short \in 0..Len(access.data)
  BY <1>1 DEF AccessOK, IsSeq
<1>5. /\ IsSeq(data) /\ Len(data) = Len(access.data) + 1 /\ data[Len(access.data) + 1] = v
      /\ \A i \in 1..Len(access.data): data[i] = access.data[i]
  BY <1>4, AppendIsSeq
<1>6. /\ seen => v = c /\ short = access.short
      /\ ~seen => short = access.short + 1
  OBVIOUS
<1> HIDE DEF seen, c, v, short, data
<1>7. short \in 0..Len(data)
  BY <1>4, <1>5, <1>6
<1>8. /\ access' = [kind |-> access'.kind, block |-> access'.block, left |-> access'.left,
                    data |-> access'.data, short |-> access'.short, step |-> access'.step]
      /\ access'.kind = access.kind /\ access'.block = access.block + 1
      /\ access'.left = access.left - 1 /\ access'.data = data /\ access'.short = short
      /\ access'.step = access.step
  BY <1>3
<1>9. /\ access.block \in Nat /\ access.left \in 0..MaxCount
      /\ access.block + access.left + d.read_count <= NBlocks
      /\ access.block + access.left <= NBlocks /\ d.read_count \in 0..MaxCount
  BY <1>1 DEF AccessOK, ReadingOK, ControllerOK
<1>10. /\ access'.block \in Nat /\ access'.left \in 0..MaxCount
       /\ access'.block + access'.left <= NBlocks
       /\ access'.block + access'.left + d.read_count <= NBlocks
  BY <1>1, <1>8, <1>9, WdcAssumption, DiskImageAssumption
<1>11. access.step = "data"
  BY <1>1 DEF AccessOK
<1>12. AccessOK' /\ ReadingOK'
  BY <1>1, <1>5, <1>7, <1>8, <1>10, <1>11 DEF AccessOK, ReadingOK
<1>13. OneMore(access, access', seen, c)
  BY <1>1, <1>5, <1>6, <1>8 DEF OneMore
<1> QED BY <1>1, <1>8, <1>12, <1>13 DEF ToWrite, seen, c

(* A chunk is a part of what is left to read.                              *)
LEMMA ChunkType ==
    ASSUME NEW n \in 0..MaxCount
    PROVE  /\ Chunk(n) \in 0..n /\ n - Chunk(n) \in 0..MaxCount
           /\ n > 0 => Chunk(n) > 0
           /\ n = 0 => n - Chunk(n) = 0
  BY WdcAssumption DEF Chunk

(* A chunk has been read, and the next one is asked for, if any.           *)
LEMMA ChunkReadOK ==
    ASSUME AccessOK, ReadingOK, ControllerOK, ChunkRead
    PROVE  /\ AccessOK' /\ ReadingOK' /\ ControllerOK' /\ ToWrite = NoData /\ ToWrite' = NoData
           /\ UNCHANGED files /\ access.kind = "read" /\ access.left = 0
           /\ d'.inbuf = AddToInbuf(d.inbuf, Join(ZeroFilled(access)))
           /\ d'.write_in_progress = d.write_in_progress
           /\ irq' = (irq \/ d'.int_assert)
           /\ \/ /\ d.read_count = 0 /\ d'.read_count = 0 /\ access' = NoAccess
              \/ /\ d.read_count > 0 /\ access'.kind = "read" /\ access'.block = access.block
                 /\ access'.left = Chunk(d.read_count) /\ Len(access'.data) = 0
                 /\ d'.read_count = d.read_count - Chunk(d.read_count)
<1> DEFINE inbuf == AddToInbuf(d.inbuf, Join(ZeroFilled(access)))
           int_assert == d.int_assert \/ d.read_count = 0
           n == Chunk(d.read_count)
<1>1. /\ access.kind = "read" /\ access.left = 0 /\ UNCHANGED files
      /\ d' = [d EXCEPT !.inbuf = inbuf, !.int_assert = int_assert, !.read_count = @ - Chunk(@)]
      /\ irq' = (irq \/ d'.int_assert)
  BY DEF ChunkRead, SetDevice, Interrupt
<1>2. int_assert \in BOOLEAN
  OBVIOUS
<1> HIDE DEF inbuf, int_assert
<1>3. d' = [inbuf |-> inbuf, int_assert |-> int_assert,
            write_in_progress |-> d.write_in_progress, write_count |-> d.write_count,
            write_offset |-> d.write_offset, read_count |-> d.read_count - n]
  BY <1>1 DEF ControllerOK
<1>4. /\ n \in 0..d.read_count /\ d.read_count - n \in 0..MaxCount /\ d.read_count \in 0..MaxCount
      /\ d.read_count > 0 => n > 0
      /\ d.read_count = 0 => d.read_count - n = 0
  <2> DEFINE k == d.read_count
  <2>1. k \in 0..MaxCount
    BY DEF ControllerOK
  <2> HIDE DEF k
  <2>2. /\ Chunk(k) \in 0..k /\ k - Chunk(k) \in 0..MaxCount
        /\ k > 0 => Chunk(k) > 0
        /\ k = 0 => k - Chunk(k) = 0
    BY <2>1, ChunkType
  <2> QED BY <2>1, <2>2 DEF k
<1> HIDE DEF n
<1>5. ControllerOK'
  BY <1>2, <1>3, <1>4 DEF ControllerOK
<1>6. /\ d'.inbuf = inbuf /\ d'.write_in_progress = d.write_in_progress
      /\ d'.read_count = d.read_count - n
  BY <1>3
<1>7. CASE d.read_count = 0
  <2>1. access' = NoAccess
    BY <1>7 DEF ChunkRead
  <2>2. AccessOK' /\ ReadingOK' /\ ToWrite' = NoData
    BY <2>1, NoAccessOK
  <2>3. d.read_count - n = 0
    BY <1>4, <1>7, Zenon
  <2> QED BY <1>1, <1>5, <1>6, <1>7, <2>1, <2>2, <2>3 DEF ToWrite, inbuf
<1>8. CASE d.read_count # 0
  <2>1. access' = [kind |-> "read", block |-> access.block, left |-> n, data |-> <<>>,
                   short |-> 0, step |-> "data"]
    BY <1>8 DEF ChunkRead, Read, NoAccess, n
  <2>2. /\ access.block \in Nat /\ access.block + d.read_count <= NBlocks
    BY <1>1, <1>4 DEF AccessOK, ReadingOK
  <2>3. /\ access.block + n <= NBlocks /\ access.block + n + (d.read_count - n) <= NBlocks
        /\ n \in 0..MaxCount /\ d.read_count > 0
    BY <1>4, <1>8, <2>2, WdcAssumption, DiskImageAssumption
  <2>4. IsSeq(<<>>) /\ Len(<<>>) = 0
    BY DEF IsSeq
  <2>5. /\ access' = [kind |-> access'.kind, block |-> access'.block, left |-> access'.left,
                      data |-> access'.data, short |-> access'.short, step |-> access'.step]
        /\ access'.kind = "read" /\ access'.block = access.block /\ access'.left = n
        /\ access'.data = <<>> /\ access'.short = 0 /\ access'.step = "data"
    BY <2>1
  <2>6. AccessOK' /\ ReadingOK'
    BY <1>6, <2>2, <2>3, <2>4, <2>5 DEF AccessOK, ReadingOK
  <2> QED BY <1>1, <1>5, <1>6, <2>3, <2>4, <2>5, <2>6 DEF ToWrite, n, inbuf
<1> QED BY <1>7, <1>8

(* Steps that leave the files alone.                                       *)
LEMMA FilesUnchanged ==
    ASSUME FilesOK, OneBlockEach, UNCHANGED files
    PROVE  /\ FilesOK' /\ OneBlockEach'
           /\ [b \in Blocks |-> Contents(b)]' = [b \in Blocks |-> Contents(b)]
           /\ \A b: Contents(b)' = Contents(b)
           /\ InStreams' = InStreams
<1>1. f' = f /\ overlays' = overlays
  BY DEF files
<1>2. \A b: Has(b)' = Has(b)
  BY <1>1 DEF Has, nr_of_overlays
<1>3. \A b: Contents(b)' = Contents(b)
  BY <1>1, <1>2 DEF Contents, Source, ReadFrom
<1>4. [b \in Blocks |-> Contents(b)]' = [b \in Blocks |-> Contents(b)]
  BY <1>3
<1>5. FilesOK' /\ OneBlockEach'
  BY <1>1 DEF FilesOK, OneBlockEach, nr_of_overlays
<1>6. InStreams' = InStreams
  BY <1>1 DEF InStreams, nr_of_overlays
<1> QED BY <1>3, <1>4, <1>5, <1>6

-----------------------------------------------------------------------------
(* Every step is a step of CrashDisk, or changes nothing of it.            *)

(* What CrashDisk calls a Put.                                             *)
LEMMA PutStep ==
    ASSUME counts'.deaths = counts.deaths,
           DOMAIN ToWrite' \subseteq DOMAIN ToWrite,
           \A b \in DOMAIN ToWrite': ToWrite'[b] = ToWrite[b],
           \A b \in Blocks:
               \/ b \in DOMAIN ToWrite /\ Contents(b)' = ToWrite[b]
               \/ b \notin DOMAIN ToWrite \ DOMAIN ToWrite' /\ Contents(b)' = Contents(b),
           InStreams' \subseteq InStreams \cup DOMAIN ToWrite
    PROVE  Image!Put /\ Image!Next
<1>1. Image!Put
  BY DEF Image!Put
<1> QED BY <1>1 DEF Image!Next

(* One step of diskimage_access().                                         *)
LEMMA ImageStepPut ==
    ASSUME ImageInv, ImageStep
    PROVE  ImageInv' /\ Image!Put /\ Image!Next
<1>0. FilesOK /\ OneBlockEach /\ AccessOK /\ ControllerOK /\ ReadingOK /\ CountsOK
  BY DEF ImageInv
<1>1. counts' = counts
  BY DEF ImageStep
<1>2. CountsOK'
  BY <1>0, <1>1 DEF CountsOK
<1>3. CASE ReadBlock
  <2>1. d' = d
    BY <1>3 DEF ImageStep, ReadBlock, ChunkRead
  <2>2. AccessOK' /\ ReadingOK' /\ ToWrite = NoData /\ ToWrite' = NoData
    BY <1>0, <1>3, <2>1, FetchedOK
  <2>3. ImageInv'
    BY <1>0, <1>2, <1>3, <2>1, <2>2, ReadBlockFiles DEF ImageInv, ControllerOK
  <2>4. Image!Put /\ Image!Next
    BY <1>0, <1>1, <1>3, <2>2, ReadBlockFiles, PutStep DEF NoData
  <2> QED BY <2>3, <2>4
<1>7. CASE ChunkRead
  <2>1. /\ AccessOK' /\ ReadingOK' /\ ControllerOK' /\ ToWrite = NoData /\ ToWrite' = NoData
        /\ UNCHANGED files
    BY <1>0, <1>7, ChunkReadOK
  <2>2. /\ FilesOK' /\ OneBlockEach' /\ InStreams' = InStreams
        /\ \A b: Contents(b)' = Contents(b)
    BY <1>0, <2>1, FilesUnchanged
  <2>3. Image!Put /\ Image!Next
    BY <1>1, <2>1, <2>2, PutStep DEF NoData
  <2> QED BY <1>2, <2>1, <2>2, <2>3 DEF ImageInv
<1>4. CASE WriteBase
  <2>1. access.kind = "write" /\ access' = NoAccess /\ d' = d
    BY <1>4 DEF WriteBase, ImageStep, ChunkRead
  <2>2. AccessOK' /\ ReadingOK' /\ DOMAIN ToWrite' = {}
    BY <2>1, NoAccessOK DEF NoData
  <2>3. access.block..access.block + access.left - 1 \subseteq Blocks
    BY <1>0, <2>1, AccessBlocks DEF AccessOK
  <2>4. ImageInv'
    BY <1>0, <1>2, <1>4, <2>1, <2>2, <2>3, WriteBaseFiles DEF ImageInv, ControllerOK
  <2>5. Image!Put /\ Image!Next
    BY <1>0, <1>1, <1>4, <2>2, <2>3, WriteBaseFiles, PutStep
  <2> QED BY <2>4, <2>5
<1>5. CASE WriteData
  <2>1. /\ access.kind = "write" /\ access' = [access EXCEPT !.step = "bitmap"] /\ d' = d
        /\ nr_of_overlays > 0
    BY <1>5 DEF WriteData, ImageStep, ChunkRead
  <2>2. access.block \in Blocks /\ access.block \in DOMAIN ToWrite
    BY <1>0, <2>1, AccessBlocks DEF ToWrite, AccessOK
  <2>3. Head(access.data) = access.data[1] /\ ToWrite[access.block] = access.data[1]
    BY <1>0, <2>1, <2>2, TailIsSeq DEF AccessOK, ToWrite
  <2>4. /\ FilesOK' /\ nr_of_overlays' = nr_of_overlays /\ OneBlockEach'
        /\ fread(overlays'[nr_of_overlays].f_data, access.block) = access.data[1]
    BY <1>0, <1>5, <2>2, <2>3, WriteDataFiles
  <2>5. /\ access' = [kind |-> access'.kind, block |-> access'.block, left |-> access'.left,
                      data |-> access'.data, short |-> access'.short, step |-> access'.step]
        /\ access'.kind = access.kind /\ access'.block = access.block
        /\ access'.left = access.left /\ access'.data = access.data /\ access'.step = "bitmap"
    BY <1>0, <2>1 DEF AccessOK
  <2>6. AccessOK' /\ ReadingOK'
    BY <1>0, <2>1, <2>4, <2>5 DEF AccessOK, ReadingOK
  <2>7. ToWrite' = ToWrite
    BY <2>5 DEF ToWrite
  <2>8. ImageInv'
    BY <1>0, <1>2, <2>1, <2>4, <2>6 DEF ImageInv, ControllerOK
  <2>9. Image!Put /\ Image!Next
    BY <1>0, <1>1, <1>5, <2>2, <2>3, <2>7, WriteDataFiles, PutStep
  <2> QED BY <2>8, <2>9
<1>6. CASE MarkBlock
  <2>1. access.kind = "write" /\ access.step = "bitmap" /\ access' = NextBlock(access) /\ d' = d
    BY <1>6 DEF MarkBlock, ImageStep, ChunkRead
  <2>2. access.block \in Blocks /\ access.block \in DOMAIN ToWrite
    BY <1>0, <2>1, AccessBlocks DEF ToWrite, AccessOK
  <2>3. /\ nr_of_overlays > 0 /\ ToWrite[access.block] = access.data[1]
        /\ fread(overlays[nr_of_overlays].f_data, access.block) = access.data[1]
    BY <1>0, <2>1, <2>2 DEF AccessOK, ToWrite
  <2>4. /\ AccessOK' /\ ReadingOK' /\ DOMAIN ToWrite' = DOMAIN ToWrite \ {access.block}
        /\ \A b \in DOMAIN ToWrite': ToWrite'[b] = ToWrite[b]
    BY <1>0, <2>1, NextBlockOK
  <2>5. ImageInv'
    BY <1>0, <1>2, <1>6, <2>1, <2>2, <2>3, <2>4, MarkBlockFiles DEF ImageInv, ControllerOK
  <2>6. Image!Put /\ Image!Next
    BY <1>0, <1>1, <1>6, <2>2, <2>3, <2>4, MarkBlockFiles, PutStep
  <2> QED BY <2>5, <2>6
<1> QED BY <1>3, <1>4, <1>5, <1>6, <1>7 DEF ImageStep

LEMMA AccessUnchanged ==
    ASSUME AccessOK, UNCHANGED <<files, access>>
    PROVE  AccessOK' /\ ToWrite' = ToWrite
  BY DEF AccessOK, ToWrite, files, nr_of_overlays

(* The sectors that are written are sectors of the command.                *)
LEMMA SectorsDueType ==
    ASSUME ControllerOK, NEW dd, dd.write_in_progress = d.write_in_progress,
           dd.write_count = d.write_count, SectorsDue(dd) # 0
    PROVE  SectorsDue(dd) \in 1..d.write_count /\ d.write_in_progress # "no"
<1>1. \/ dd.write_in_progress = "WRITE" /\ SectorsDue(dd) = 1
      \/ dd.write_in_progress = "WRITEMULTI" /\ SectorsDue(dd) = dd.write_count
  BY DEF SectorsDue
<1> QED BY <1>1, WdcAssumption DEF ControllerOK

(* The controller after sectors have been written.                         *)
LEMMA WrittenRecord ==
    ASSUME NEW dd, NEW n, NEW e, e = Written(dd, n),
           dd = [inbuf |-> dd.inbuf, int_assert |-> dd.int_assert,
                 write_in_progress |-> dd.write_in_progress, write_count |-> dd.write_count,
                 write_offset |-> dd.write_offset, read_count |-> dd.read_count]
    PROVE  e = [inbuf |-> SubSeq(dd.inbuf, n * Parts + 1, Len(dd.inbuf)), int_assert |-> TRUE,
                write_in_progress |-> IF dd.write_count = n THEN "no" ELSE dd.write_in_progress,
                write_count |-> dd.write_count - n, write_offset |-> dd.write_offset + n,
                read_count |-> dd.read_count]
  BY DEF Written

(* Writing the data register either leaves the image alone or calls        *)
(* diskimage_access() for sectors of the command.                          *)
LEMMA WritePartOK ==
    ASSUME ImageInv, access = NoAccess, UNCHANGED <<files, counts>>, NEW v, WritePart(v)
    PROVE  ImageInv' /\ (Image!Next \/ UNCHANGED Image!image)
<1>0. FilesOK /\ OneBlockEach /\ AccessOK /\ ControllerOK /\ CountsOK
  BY DEF ImageInv
<1>1. /\ FilesOK' /\ OneBlockEach' /\ CountsOK'
      /\ [b \in Blocks |-> Contents(b)]' = [b \in Blocks |-> Contents(b)]
      /\ InStreams' = InStreams /\ counts'.deaths = counts.deaths
  BY <1>0, FilesUnchanged DEF CountsOK
<1> DEFINE dd == [d EXCEPT !.inbuf = AddToInbuf(@, <<v>>)]
           n == SectorsDue(dd)
<1>2. /\ dd = [inbuf |-> dd.inbuf, int_assert |-> dd.int_assert,
               write_in_progress |-> dd.write_in_progress, write_count |-> dd.write_count,
               write_offset |-> dd.write_offset, read_count |-> dd.read_count]
      /\ dd.read_count = d.read_count /\ dd.int_assert = d.int_assert /\ dd.write_in_progress = d.write_in_progress
      /\ dd.write_count = d.write_count /\ dd.write_offset = d.write_offset
  BY <1>0 DEF ControllerOK
<1>3. IF n = 0 THEN d' = dd /\ access' = access
      ELSE d' = Written(dd, n) /\ Write(dd.write_offset, Cut(dd.inbuf, n))
  BY DEF WritePart, SetDevice
<1> HIDE DEF dd
<1>4. CASE n = 0
  <2>1. ControllerOK'
    BY <1>0, <1>2, <1>3, <1>4 DEF ControllerOK
  <2>2. AccessOK' /\ ToWrite' = ToWrite
    BY <1>0, <1>3, <1>4, AccessUnchanged
  <2>3. ReadingOK'
    BY <1>3, <1>4 DEF ReadingOK, NoAccess
  <2> QED BY <1>1, <2>1, <2>2, <2>3 DEF ImageInv, Image!image
<1>5. CASE n # 0
  <2>1. n \in 1..d.write_count /\ d.write_in_progress # "no"
    BY <1>0, <1>2, <1>5, SectorsDueType
  <2> HIDE DEF n
  <2>2. n \in Nat /\ n \in 1..MaxCount /\ d.write_offset + n <= NBlocks
        /\ d.write_offset \in Nat /\ d.write_count \in Nat
    BY <1>0, <2>1, WdcAssumption, DiskImageAssumption DEF ControllerOK
  <2>3. /\ d' = [inbuf |-> d'.inbuf, int_assert |-> d'.int_assert,
                 write_in_progress |-> d'.write_in_progress,
                 write_count |-> d'.write_count, write_offset |-> d'.write_offset,
                 read_count |-> d'.read_count]
        /\ d'.int_assert = TRUE /\ d'.read_count = d.read_count
        /\ d'.write_count = d.write_count - n /\ d'.write_offset = d.write_offset + n
        /\ d'.write_in_progress = IF d.write_count = n THEN "no" ELSE d.write_in_progress
    BY <1>2, <1>3, <1>5, WrittenRecord
  <2>4. ControllerOK'
    <3>1. /\ d'.write_count \in 0..MaxCount /\ d'.write_offset \in Nat
          /\ d'.read_count \in 0..MaxCount /\ d'.write_offset + d'.write_count <= NBlocks
          /\ d'.write_in_progress # "no" => d'.write_count > 0
      BY <1>0, <2>1, <2>2, <2>3, WdcAssumption, DiskImageAssumption DEF ControllerOK
    <3>2. d'.int_assert \in BOOLEAN /\ d'.write_in_progress \in Writes \cup {"no"}
      BY <1>0, <2>3 DEF ControllerOK
    <3> QED BY <2>3, <3>1, <3>2 DEF ControllerOK
  <2> DEFINE data == Cut(dd.inbuf, n)
  <2>5. IsSeq(data) /\ Len(data) = n
    BY <2>2, FunctionIsSeq DEF Cut
  <2>6. access' = [kind |-> "write", block |-> d.write_offset, left |-> n, data |-> data,
                   short |-> 0, step |-> "data"]
    BY <1>2, <1>3, <1>5, <2>5 DEF Write, NoAccess
  <2> HIDE DEF data
  <2>7. AccessOK' /\ ReadingOK'
    BY <2>2, <2>5, <2>6, WdcAssumption DEF AccessOK, ReadingOK
  <2>8. ToWrite = NoData /\ DOMAIN ToWrite' \subseteq Blocks
    BY <2>2, <2>6, DiskImageAssumption DEF ToWrite, NoAccess, Blocks
  <2>9. Image!Next
    BY <1>1, <2>8 DEF Image!Next, Image!Call, NoData
  <2> QED BY <1>1, <2>4, <2>7, <2>9 DEF ImageInv
<1> QED BY <1>4, <1>5

(* Steps that touch neither the files nor the access.                      *)
LEMMA QuietStep ==
    ASSUME ImageInv, UNCHANGED <<files, access>>, ControllerOK', CountsOK',
           access = NoAccess \/ d' = d, counts'.deaths = counts.deaths
    PROVE  ImageInv' /\ UNCHANGED Image!image
<1>0. FilesOK /\ OneBlockEach /\ AccessOK
  BY DEF ImageInv
<1>1. /\ FilesOK' /\ OneBlockEach' /\ InStreams' = InStreams
      /\ [b \in Blocks |-> Contents(b)]' = [b \in Blocks |-> Contents(b)]
  BY <1>0, FilesUnchanged
<1>2. AccessOK' /\ ToWrite' = ToWrite
  BY <1>0, AccessUnchanged
<1>3. ReadingOK'
  BY DEF ImageInv, ReadingOK, NoAccess
<1> QED BY <1>1, <1>2, <1>3 DEF ImageInv, Image!image

(* The driver gives a command.                                             *)
LEMMA IssueStep ==
    ASSUME ImageInv, NEW command \in Reads \cup Writes, NEW b \in Blocks,
           NEW seccnt \in 0..MaxCount - 1, NEW data, Issue(command, b, seccnt, data)
    PROVE  ImageInv' /\ UNCHANGED Image!image
<1>0. FilesOK /\ OneBlockEach /\ AccessOK /\ ControllerOK /\ CountsOK
  BY DEF ImageInv
<1> DEFINE n == Count(seccnt)
<1>1. n \in 1..MaxCount /\ b \in Nat /\ b + n <= NBlocks
  BY WdcAssumption, DiskImageAssumption DEF Count, Blocks, Issue
<1> HIDE DEF n
<1>2. /\ FilesOK' /\ OneBlockEach' /\ InStreams' = InStreams
      /\ [c \in Blocks |-> Contents(c)]' = [c \in Blocks |-> Contents(c)]
  BY <1>0, FilesUnchanged DEF Issue
<1>3. CountsOK' /\ counts'.deaths = counts.deaths /\ access = NoAccess
  BY <1>0 DEF CountsOK, Issue, Running
<1>4. CASE command \in Reads
  <2> DEFINE m == Chunk(n)
  <2>1. /\ access' = [kind |-> "read", block |-> b, left |-> m, data |-> <<>>, short |-> 0,
                      step |-> "data"]
        /\ d' = [d EXCEPT !.read_count = n - m]
    BY <1>4 DEF Issue, CommandRead, Read, NoAccess, n
  <2>2. m \in 0..n /\ n - m \in 0..MaxCount
    BY <1>1, ChunkType
  <2> HIDE DEF m
  <2>3. /\ m \in 0..MaxCount /\ b + m <= NBlocks /\ b + m + (n - m) <= NBlocks
    BY <1>1, <2>2, WdcAssumption, DiskImageAssumption
  <2>4. IsSeq(<<>>) /\ Len(<<>>) = 0
    BY DEF IsSeq
  <2>5. d' = [inbuf |-> d.inbuf, int_assert |-> d.int_assert,
              write_in_progress |-> d.write_in_progress, write_count |-> d.write_count,
              write_offset |-> d.write_offset, read_count |-> n - m]
    BY <1>0, <2>1 DEF ControllerOK
  <2>6. ControllerOK'
    BY <1>0, <2>2, <2>5 DEF ControllerOK
  <2>7. AccessOK' /\ ReadingOK' /\ ToWrite' = NoData /\ ToWrite = NoData
    BY <1>1, <1>3, <2>1, <2>3, <2>4, <2>5, WdcAssumption DEF AccessOK, ReadingOK, ToWrite, NoAccess
  <2> QED BY <1>0, <1>2, <1>3, <2>6, <2>7 DEF ImageInv, Image!image
<1>5. CASE command \notin Reads
  <2>1. access' = access /\ UNCHANGED files
    BY <1>5 DEF Issue, CommandWrite
  <2>2. /\ d' = [inbuf |-> d.inbuf, int_assert |-> d.int_assert,
                 write_in_progress |-> command, write_count |-> n, write_offset |-> b,
                 read_count |-> d.read_count]
    BY <1>0, <1>5 DEF Issue, CommandWrite, SetDevice, ControllerOK, n
  <2>3. ControllerOK'
    BY <1>0, <1>1, <1>5, <2>2, WdcAssumption, DiskImageAssumption DEF ControllerOK
  <2> QED BY <1>3, <2>1, <2>3, QuietStep
<1> QED BY <1>4, <1>5

(* The emulator dies.                                                      *)
LEMMA DieStep ==
    ASSUME ImageInv, DieAndRestart
    PROVE  ImageInv' /\ Image!Next
<1>0. FilesOK /\ CountsOK
  BY DEF ImageInv
<1>1. Die /\ access' = NoAccess /\ d' = Controller
  BY DEF DieAndRestart, Die
<1>2. CountsOK' /\ counts'.deaths = counts.deaths + 1
  BY <1>0 DEF CountsOK, DieAndRestart
<1>3. AccessOK' /\ ReadingOK' /\ ToWrite' = NoData
  BY <1>1, NoAccessOK
<1>4. ControllerOK'
  BY <1>1, WdcAssumption, DiskImageAssumption DEF Controller, ControllerOK
<1>5. ImageInv'
  BY <1>0, <1>1, <1>2, <1>3, <1>4, DieFiles DEF ImageInv
<1>6. Image!Die
  BY <1>0, <1>1, <1>2, <1>3, DieFiles DEF Image!Die, NoData
<1> QED BY <1>5, <1>6 DEF Image!Next

LEMMA StatusStep ==
    ASSUME ControllerOK, ReadStatus
    PROVE  ControllerOK'
  BY DEF ControllerOK, ReadStatus

(* Initially nothing is in the streams.                                    *)
LEMMA InitImage ==
    ASSUME Init
    PROVE  ImageInv /\ Image!Init
<1>1. PICK i \in Images: f = fopen(i.base)
                      /\ overlays = [n \in DOMAIN i.overlays |->
                             [f_data   |-> fopen(i.overlays[n].data),
                              f_bitmap |-> fopen(i.overlays[n].bitmap)]]
  BY DEF Init, InitFiles
<1>2. /\ DOMAIN i.base.content = Blocks
      /\ Len(i.overlays) \in Nat /\ DOMAIN i.overlays = 1..Len(i.overlays)
      /\ \A n \in DOMAIN i.overlays: /\ DOMAIN i.overlays[n].data.content = Blocks
                                     /\ DOMAIN i.overlays[n].bitmap.content = Bytes
  BY ImagesAssumption DEF Bytes, IsFile
<1>3. StreamOn(f, Blocks) /\ DOMAIN f.dirty = {}
  BY <1>1, <1>2, Opening DEF fopen
<1>4. DOMAIN overlays = 1..Len(i.overlays) /\ Len(overlays) = Len(i.overlays)
  BY <1>1, <1>2
<1>5. ASSUME NEW n \in 1..Len(overlays)
      PROVE  OverlayOK(overlays[n]) /\ Settled(overlays[n]) /\ NewBits(overlays[n]) = {}
  <2>1. overlays[n] = [f_data   |-> fopen(i.overlays[n].data),
                       f_bitmap |-> fopen(i.overlays[n].bitmap)]
    BY <1>1, <1>2, <1>4
  <2>2. /\ StreamOn(overlays[n].f_data, Blocks) /\ DOMAIN overlays[n].f_data.dirty = {}
        /\ StreamOn(overlays[n].f_bitmap, Bytes) /\ DOMAIN overlays[n].f_bitmap.dirty = {}
    BY <1>2, <1>4, <2>1, Opening DEF fopen
  <2> QED BY <2>1, <2>2 DEF OverlayOK, Settled, NewBits
<1>6. FilesOK
  BY <1>2, <1>3, <1>4, <1>5 DEF FilesOK
<1>7. OneBlockEach
  <2>1. ASSUME Len(overlays) > 0
        PROVE  \E b, c: /\ DOMAIN overlays[Len(overlays)].f_data.dirty \subseteq {b}
                        /\ NewBits(overlays[Len(overlays)]) \subseteq {c}
    <3>1. Len(overlays) \in 1..Len(overlays)
      BY <1>2, <1>4, <2>1
    <3>2. /\ DOMAIN overlays[Len(overlays)].f_data.dirty = {}
          /\ NewBits(overlays[Len(overlays)]) = {}
      BY <1>5, <3>1 DEF Settled
    <3> QED BY <3>2, Zenon
  <2>2. \A n \in 1..Len(overlays) - 1: Settled(overlays[n])
    BY <1>2, <1>4, <1>5
  <2> QED BY <1>3, <2>1, <2>2 DEF OneBlockEach, nr_of_overlays
<1>8. AccessOK /\ ReadingOK /\ ToWrite = NoData
  BY DiskImageAssumption, WdcAssumption DEF Init, InitFiles, AccessOK, ReadingOK, NoAccess, ToWrite
<1>9. ControllerOK
  BY DiskImageAssumption, WdcAssumption DEF Init, Started, Controller, ControllerOK
<1>10. CountsOK /\ counts.deaths = 0
  BY DEF Init, CountsOK
<1>11. InStreams = {}
  BY <1>3, <1>5 DEF InStreams, NewBits, Settled, nr_of_overlays
<1> QED BY <1>6, <1>7, <1>8, <1>9, <1>10, <1>11 DEF ImageInv, Image!Init, NoData

(* Every step preserves the invariant and maps to a step of CrashDisk, or  *)
(* to none.                                                                *)
LEMMA ImageNext ==
    ASSUME ImageInv, [Next]_vars
    PROVE  ImageInv' /\ [Image!Next]_(Image!image)
<1>0. ControllerOK /\ CountsOK
  BY DEF ImageInv
<1>1. CASE ImageStep
  BY <1>1, ImageStepPut
<1>2. CASE MoveIn
  <2>1. UNCHANGED <<files, access, counts>> /\ ControllerOK' /\ access = NoAccess
    BY <1>0, <1>2 DEF MoveIn, ReadPart, SetDevice, ControllerOK, MoreSectors, Running
  <2> QED BY <1>0, <2>1, QuietStep DEF CountsOK
<1>3. CASE MoveOut
  <2>1. /\ access = NoAccess /\ UNCHANGED <<files, counts>>
        /\ WritePart(driver.data[Len(driver.done) \div Parts + 1])
    BY <1>3 DEF MoveOut, Running
  <2> QED BY <2>1, WritePartOK
<1>4. CASE Interrupted \/ Spurious
  <2>1. UNCHANGED <<files, access, counts>> /\ ReadStatus /\ access = NoAccess
    BY <1>4 DEF Interrupted, Spurious, Running
  <2> QED BY <1>0, <2>1, StatusStep, QuietStep DEF CountsOK
<1>5. CASE Abandon
  <2>1. UNCHANGED <<files, access, d>> /\ CountsOK' /\ counts'.deaths = counts.deaths
    BY <1>0, <1>5 DEF Abandon, CountsOK
  <2> QED BY <1>0, <2>1, QuietStep DEF ControllerOK
<1>6. ASSUME NEW command \in Reads, NEW b \in Blocks, NEW seccnt \in 0..MaxCount - 1,
             Issue(command, b, seccnt, <<>>)
      PROVE  ImageInv' /\ [Image!Next]_(Image!image)
  BY <1>6, IssueStep
<1>7. ASSUME NEW command \in Writes, NEW b \in Blocks, NEW seccnt \in 0..MaxCount - 1,
             NEW data \in Payloads, Issue(command, b, seccnt, data)
      PROVE  ImageInv' /\ [Image!Next]_(Image!image)
  BY <1>7, IssueStep
<1>8. CASE DieAndRestart
  BY <1>8, DieStep
<1>9. CASE UNCHANGED vars
  <2>1. UNCHANGED <<files, access, d, counts>>
    BY <1>9 DEF vars
  <2> QED BY <1>0, <2>1, QuietStep DEF ControllerOK, CountsOK
<1> QED
  BY <1>1, <1>2, <1>3, <1>4, <1>5, <1>6, <1>7, <1>8, <1>9 DEF Next, DriverStep

(* The files, the bitmaps and the streams together implement a disk whose  *)
(* blocks hold what was written last, and of which the death of the        *)
(* emulator may damage only blocks that are still in a stream              *)
(* (fwrite_helper, fread_helper, overlay_set_block_in_use).                *)
THEOREM DiskRefinement == Spec => ImplementsDisk
<1>1. Init => ImageInv /\ Image!Init
  BY InitImage
<1>2. ImageInv /\ [Next]_vars => ImageInv' /\ [Image!Next]_(Image!image)
  BY ImageNext
<1> QED BY <1>1, <1>2, PTL DEF Spec, ImplementsDisk, Image!Spec

(* With overlays the death of the emulator can damage two blocks at most:  *)
(* only the last overlay is written to, and each of its two streams holds  *)
(* one block (fwrite_helper seeks before every block).                     *)
THEOREM TwoBlocksAtRisk == Spec => []FewBlocksAtRisk
<1>1. Init => ImageInv
  BY InitImage
<1>2. ImageInv /\ [Next]_vars => ImageInv'
  BY ImageNext
<1>3. ImageInv => FewBlocksAtRisk
  <2> SUFFICES ASSUME ImageInv, nr_of_overlays > 0 PROVE Cardinality(InStreams) <= 2
    BY DEF FewBlocksAtRisk
  <2> DEFINE n == nr_of_overlays
  <2>1. FilesOK /\ OneBlockEach /\ n \in Nat
    BY DEF ImageInv, FilesOK, nr_of_overlays
  <2>2. PICK b, c: /\ DOMAIN overlays[n].f_data.dirty \subseteq {b}
                   /\ NewBits(overlays[n]) \subseteq {c}
    BY <2>1 DEF OneBlockEach
  <2>3. \A m \in 1..n - 1: DOMAIN overlays[m].f_data.dirty = {} /\ NewBits(overlays[m]) = {}
    BY <2>1 DEF OneBlockEach, Settled, NewBits
  <2>4. \A m \in 1..n: m \in 1..n - 1 \/ m = n
    BY <2>1
  <2>5. InStreams \subseteq {b, c}
    BY <2>1, <2>2, <2>3, <2>4, InStreamsIff DEF OneBlockEach
  <2>6. IsFiniteSet({b, c}) /\ Cardinality({b, c}) <= 2
    <3>1. {b, c} = {b} \cup {c}
      OBVIOUS
    <3>2. IsFiniteSet({b}) /\ Cardinality({b}) = 1
      BY FS_Singleton
    <3>3. /\ IsFiniteSet({b} \cup {c})
          /\ Cardinality({b} \cup {c}) = IF c \in {b} THEN Cardinality({b})
                                         ELSE Cardinality({b}) + 1
      BY <3>2, FS_AddElement
    <3> QED BY <3>1, <3>2, <3>3
  <2>7. Cardinality(InStreams) \in Nat /\ Cardinality(InStreams) <= Cardinality({b, c})
        /\ Cardinality({b, c}) \in Nat
    BY <2>5, <2>6, FS_Subset, FS_CardinalityType
  <2> QED BY <2>6, <2>7
<1> QED BY <1>1, <1>2, <1>3, PTL DEF Spec

-----------------------------------------------------------------------------
(* The shape of the data: sectors, the buffer and the driver's state.      *)

LEMMA ConcatIsSeq ==
    ASSUME NEW s, NEW t, IsSeq(s), IsSeq(t)
    PROVE  /\ IsSeq(s \o t) /\ Len(s \o t) = Len(s) + Len(t)
           /\ \A i \in 1..Len(s): (s \o t)[i] = s[i]
           /\ \A i \in 1..Len(t): (s \o t)[Len(s) + i] = t[i]
<1> DEFINE S == {s[i]: i \in 1..Len(s)} \cup {t[i]: i \in 1..Len(t)}
<1>1. s \in Seq(S) /\ t \in Seq(S)
  BY DEF IsSeq
<1> HIDE DEF S
<1>2. s \o t \in Seq(S) /\ Len(s \o t) = Len(s) + Len(t)
  BY <1>1
<1>3. IsSeq(s \o t)
  BY <1>2, SeqIsSeq
<1>4. \A i \in 1..Len(s): (s \o t)[i] = s[i]
  BY <1>1
<1>5. \A i \in 1..Len(t): (s \o t)[Len(s) + i] = t[i]
  BY <1>1
<1> QED BY <1>2, <1>3, <1>4, <1>5

(* The end of a sequence, from some place on.                              *)
LEMMA RestIsSeq ==
    ASSUME NEW s, IsSeq(s), NEW m \in Nat \ {0}
    PROVE  LET t == SubSeq(s, m, Len(s))
           IN  /\ IsSeq(t) /\ Len(t) = IF m <= Len(s) THEN Len(s) - m + 1 ELSE 0
               /\ \A i \in 1..Len(s) - m + 1: t[i] = s[m + i - 1]
<1> DEFINE S == {s[i]: i \in 1..Len(s)}
           t == SubSeq(s, m, Len(s))
<1>1. Len(s) \in Int /\ m \in Int /\ \A i \in m..Len(s): s[i] \in S
  BY DEF IsSeq
<1> HIDE DEF S
<1>2. /\ t \in Seq(S) /\ Len(t) = IF m <= Len(s) THEN Len(s) - m + 1 ELSE 0
      /\ \A i \in 1..Len(s) - m + 1: t[i] = s[m + i - 1]
  BY <1>1, SubSeqProperties
<1>3. IsSeq(t)
  BY <1>2, SeqIsSeq
<1> QED BY <1>2, <1>3

(* Two sequences with the same elements.                                   *)
LEMMA SameSeq ==
    ASSUME NEW s, NEW t, IsSeq(s), IsSeq(t), Len(s) = Len(t),
           \A i \in 1..Len(s): s[i] = t[i]
    PROVE  s = t
  BY DEF IsSeq

(* Moving the first element of one sequence to the end of another.         *)
LEMMA MoveElement ==
    ASSUME NEW s, NEW t, IsSeq(s), IsSeq(t), Len(t) > 0
    PROVE  Append(s, Head(t)) \o Tail(t) = s \o t
<1> DEFINE a == Append(s, Head(t))
           b == Tail(t)
<1>1. /\ IsSeq(a) /\ Len(a) = Len(s) + 1 /\ a[Len(s) + 1] = t[1]
      /\ \A i \in 1..Len(s): a[i] = s[i]
  BY AppendIsSeq, TailIsSeq
<1>2. IsSeq(b) /\ Len(b) = Len(t) - 1 /\ \A i \in 1..Len(t) - 1: b[i] = t[i + 1]
  BY TailIsSeq
<1> HIDE DEF a, b
<1>3. Len(s) \in Nat /\ Len(t) \in Nat
  BY DEF IsSeq
<1>4. /\ IsSeq(a \o b) /\ Len(a \o b) = Len(s) + Len(t)
      /\ \A i \in 1..Len(a): (a \o b)[i] = a[i]
      /\ \A i \in 1..Len(b): (a \o b)[Len(a) + i] = b[i]
  <2>1. /\ IsSeq(a \o b) /\ Len(a \o b) = Len(a) + Len(b)
        /\ \A i \in 1..Len(a): (a \o b)[i] = a[i]
        /\ \A i \in 1..Len(b): (a \o b)[Len(a) + i] = b[i]
    <3>1. IsSeq(a) /\ IsSeq(b)
      BY <1>1, <1>2
    <3> QED BY <3>1, ConcatIsSeq
  <2>2. Len(a) + Len(b) = Len(s) + Len(t)
    BY <1>1, <1>2, <1>3
  <2> QED BY <2>1, <2>2
<1>5. /\ IsSeq(s \o t) /\ Len(s \o t) = Len(s) + Len(t)
      /\ \A i \in 1..Len(s): (s \o t)[i] = s[i]
      /\ \A i \in 1..Len(t): (s \o t)[Len(s) + i] = t[i]
  BY ConcatIsSeq
<1>6. ASSUME NEW i \in 1..Len(s) + Len(t) PROVE (a \o b)[i] = (s \o t)[i]
  <2>1. CASE i <= Len(s)
    BY <1>1, <1>3, <1>4, <1>5, <2>1
  <2>2. CASE i = Len(s) + 1
    BY <1>1, <1>3, <1>4, <1>5, <2>2
  <2>3. CASE i > Len(s) + 1
    <3> DEFINE k == i - Len(s) - 1
    <3>1. k \in 1..Len(b) /\ k + 1 \in 1..Len(t) /\ i = Len(a) + k /\ i = Len(s) + (k + 1)
          /\ k \in 1..Len(t) - 1
      BY <1>1, <1>2, <1>3, <2>3
    <3> HIDE DEF k
    <3>2. (a \o b)[i] = b[k]
      BY <1>4, <3>1
    <3>3. (s \o t)[i] = t[k + 1]
      BY <1>5, <3>1
    <3>4. b[k] = t[k + 1]
      BY <1>2, <3>1
    <3> QED BY <3>2, <3>3, <3>4
  <2>4. i <= Len(s) \/ i = Len(s) + 1 \/ i > Len(s) + 1
    BY <1>3
  <2> QED BY <2>1, <2>2, <2>3, <2>4, Zenon
<1> QED BY <1>4, <1>5, <1>6, SameSeq DEF a, b

(* Multiples of the parts of a sector.                                     *)
LEMMA Multiples ==
    ASSUME NEW k \in Nat, NEW r \in Nat
    PROVE  /\ k * Parts \in Nat /\ (k + 1) * Parts = k * Parts + Parts
           /\ (k * Parts + r) \div Parts = k + (r \div Parts)
           /\ (Parts * k) \div Parts = k /\ Parts * k = k * Parts
           /\ r < Parts => r \div Parts = 0
  BY WdcAssumption

LEMMA MultiplesMonotonic ==
    ASSUME NEW a \in Nat, NEW b \in Nat, a <= b
    PROVE  a * Parts <= b * Parts
  BY WdcAssumption

LEMMA Remainders ==
    ASSUME NEW m \in Nat \ {0}, NEW x \in Nat
    PROVE  /\ x % m \in Nat /\ x % m < m /\ x % m <= x
           /\ x < m => x % m = x
           /\ x \in 1..m => (x % m = 0 <=> x = m)
  OBVIOUS

LEMMA InbufSizeType ==
    /\ InbufSize \in Nat \ {0}
    /\ MaxCount * Parts \in Nat /\ MaxCount * Parts + Parts <= InbufSize
  BY WdcAssumption DEF InbufSize

(* A stream of sectors, with zeros behind its end.                         *)
OfSectors(s) == /\ \A b \in Blocks: IsSector(s.content[b])
                /\ \A b \in DOMAIN s.dirty: IsSector(s.dirty[b])
                /\ s.extent \subseteq Nat
                /\ \A b \in Blocks: b \notin s.extent => s.content[b] = Zero

(* Every block of the files and of the access is a sector.                 *)
SectorsOK ==
    /\ OfSectors(f) /\ \A n \in 1..Len(overlays): OfSectors(overlays[n].f_data)
    /\ access.kind = "write" => \A i \in 1..access.left: IsSector(access.data[i])

LEMMA SectorIsSeq ==
    ASSUME NEW v, IsSector(v)
    PROVE  IsSeq(v) /\ Len(v) = Parts
  BY FunctionIsSeq, WdcAssumption DEF IsSector

(* The extent of a file that has been written to.                          *)
LEMMA ExtendedType ==
    ASSUME NEW s, StreamOn(s, Blocks), NEW w \in SUBSET Blocks
    PROVE  /\ Extended(s, w) \subseteq Blocks /\ Extended(s, w) \subseteq Nat
           /\ \A x \in Blocks: x \in s.extent \cup w => x \in Extended(s, w)
<1>1. Blocks \subseteq Nat
  BY DiskImageAssumption DEF Blocks
<1>2. Extended(s, w) \subseteq Blocks
  BY DEF Extended, StreamOn
<1>3. ASSUME NEW x \in Blocks, x \in s.extent \cup w PROVE x \in Extended(s, w)
  BY <1>1, <1>3 DEF Extended, StreamOn
<1> QED BY <1>1, <1>2, <1>3

LEMMA SeekSectors ==
    ASSUME NEW s, StreamOn(s, Blocks), OfSectors(s)
    PROVE  /\ OfSectors(fseek(s)) /\ \A b \in Blocks: IsSector(fread(s, b))
           /\ \A b \in Blocks: b \notin Extended(s, DOMAIN s.dirty) => fread(s, b) = Zero
<1>1. \A b \in Blocks: IsSector(fread(s, b))
  BY Reading DEF OfSectors
<1>2. /\ \A b \in Blocks: fseek(s).content[b] = fread(s, b)
      /\ DOMAIN fseek(s).dirty = {} /\ fseek(s).extent = Extended(s, DOMAIN s.dirty)
  BY Seeking
<1> DEFINE w == DOMAIN s.dirty
<1>3. w \in SUBSET Blocks
  BY DEF StreamOn
<1> HIDE DEF w
<1>4. /\ Extended(s, w) \subseteq Nat
      /\ \A x \in Blocks: x \in s.extent \cup w => x \in Extended(s, w)
  BY <1>3, ExtendedType
<1>5. ASSUME NEW b \in Blocks, b \notin Extended(s, w) PROVE fread(s, b) = Zero
  <2>1. b \notin s.extent /\ b \notin DOMAIN s.dirty
    BY <1>4, <1>5 DEF w
  <2>2. fread(s, b) = s.content[b]
    BY <2>1, Reading
  <2> QED BY <2>1, <2>2 DEF OfSectors
<1> QED BY <1>1, <1>2, <1>4, <1>5 DEF OfSectors, w

LEMMA WriteSectors ==
    ASSUME NEW s, StreamOn(s, Blocks), OfSectors(s), NEW w, DOMAIN w \subseteq Blocks,
           \A b \in DOMAIN w: IsSector(w[b])
    PROVE  OfSectors(WriteAt(s, w))
<1>1. /\ WriteAt(s, w).dirty = w
      /\ WriteAt(s, w).extent = fseek(s).extent
      /\ \A b \in Blocks: WriteAt(s, w).content[b] = fseek(s).content[b]
  <2>1. /\ WriteAt(s, w).dirty = w /\ WriteAt(s, w).extent = Extended(s, DOMAIN s.dirty)
        /\ \A x \in Blocks: WriteAt(s, w).content[x] = fread(s, x)
    BY Writing
  <2>2. /\ fseek(s).extent = Extended(s, DOMAIN s.dirty)
        /\ \A x \in Blocks: fseek(s).content[x] = fread(s, x)
    BY Seeking
  <2> QED BY <2>1, <2>2
<1>2. OfSectors(fseek(s))
  BY SeekSectors
<1> QED BY <1>1, <1>2 DEF OfSectors

LEMMA DeathSectors ==
    ASSUME NEW s, StreamOn(s, Blocks), OfSectors(s), NEW kept \in SUBSET DOMAIN s.dirty
    PROVE  OfSectors(AfterDeath(s, kept))
<1> DEFINE t == AfterDeath(s, kept)
<1>1. /\ DOMAIN t.dirty = {} /\ t.extent = Extended(s, kept)
      /\ \A x \in Blocks: t.content[x] = IF x \in kept THEN s.dirty[x] ELSE s.content[x]
  BY Dying
<1> HIDE DEF t
<1>2. kept \in SUBSET Blocks
  BY DEF StreamOn
<1>3. /\ Extended(s, kept) \subseteq Nat
      /\ \A x \in Blocks: x \in s.extent \cup kept => x \in Extended(s, kept)
  BY <1>2, ExtendedType
<1>4. OfSectors(t)
  BY <1>1, <1>3 DEF OfSectors
<1> QED BY <1>4 DEF t

(* The file that a block is read from.                                     *)
LEMMA SourceOK ==
    ASSUME FilesOK, SectorsOK, NEW b \in Blocks
    PROVE  StreamOn(Source(b), Blocks) /\ OfSectors(Source(b))
<1>1. ReadFrom(b) = 0 \/ ReadFrom(b) \in 1..Len(overlays)
  BY ReadFromType DEF FilesOK, nr_of_overlays
<1>2. CASE ReadFrom(b) = 0
  BY <1>2 DEF Source, FilesOK, SectorsOK
<1>3. CASE ReadFrom(b) # 0
  BY <1>1, <1>3 DEF Source, FilesOK, OverlayOK, SectorsOK
<1> QED BY <1>2, <1>3

(* What is read from the image is a sector, and zeros behind the end of    *)
(* the file it is read from.                                               *)
LEMMA ContentsSector ==
    ASSUME FilesOK, SectorsOK, NEW b \in Blocks
    PROVE  IsSector(Contents(b)) /\ (~InFile(b) => Contents(b) = Zero)
<1> DEFINE s == Source(b)
<1>1. StreamOn(s, Blocks) /\ OfSectors(s)
  BY SourceOK
<1> HIDE DEF s
<1>2. /\ IsSector(fread(s, b))
      /\ b \notin Extended(s, DOMAIN s.dirty) => fread(s, b) = Zero
  BY <1>1, SeekSectors
<1> QED BY <1>2 DEF Contents, InFile, s

(* Extents have no holes.                                                  *)
LEMMA ExtendedDown ==
    ASSUME NEW s, StreamOn(s, Blocks), OfSectors(s), NEW w \in SUBSET Blocks,
           NEW b \in Blocks, NEW c \in Blocks, b < c, c \in Extended(s, w)
    PROVE  b \in Extended(s, w)
<1>1. PICK y \in s.extent \cup w: c <= y
  BY DEF Extended
<1>2. y \in Nat /\ b \in Nat /\ c \in Nat
  <2>1. Blocks \subseteq Nat /\ s.extent \subseteq Nat
    BY DiskImageAssumption DEF OfSectors, Blocks
  <2> QED BY <2>1
<1>3. b <= y
  BY <1>1, <1>2
<1> QED BY <1>1, <1>3 DEF Extended, StreamOn

(* fseek() does not change what a file is long enough for.                 *)
LEMMA SeekExtent ==
    ASSUME NEW s, StreamOn(s, Blocks), OfSectors(s)
    PROVE  Extended(fseek(s), DOMAIN fseek(s).dirty) = Extended(s, DOMAIN s.dirty)
<1> DEFINE t == fseek(s)
           e == Extended(s, DOMAIN s.dirty)
<1>1. StreamOn(t, Blocks) /\ DOMAIN t.dirty = {} /\ t.extent = e
  BY Seeking
<1> HIDE DEF t
<1>2. DOMAIN s.dirty \in SUBSET Blocks
  BY DEF StreamOn
<1>3. e \subseteq Blocks /\ e \subseteq Nat
  BY <1>2, ExtendedType
<1>4. ASSUME NEW x \in Extended(t, DOMAIN t.dirty) PROVE x \in e
  <2>1. x \in Blocks /\ \E y \in e: x <= y
    BY <1>1, <1>4 DEF Extended, StreamOn
  <2>2. PICK y \in e: x <= y
    BY <2>1
  <2>3. y \in Blocks /\ x \in Nat /\ y \in Nat
    BY <1>3, <2>1, DiskImageAssumption DEF Blocks
  <2>4. CASE x = y
    BY <2>4
  <2>5. CASE x # y
    <3>1. x < y
      BY <2>2, <2>3, <2>5
    <3> QED BY <1>2, <2>1, <2>3, <3>1, ExtendedDown
  <2> QED BY <2>4, <2>5
<1> HIDE DEF e
<1>5. ASSUME NEW x \in e PROVE x \in Extended(t, DOMAIN t.dirty)
  <2>1. x <= x /\ x \in DOMAIN t.content
    BY <1>1, <1>3, <1>5 DEF StreamOn
  <2> QED BY <1>1, <1>5, <2>1 DEF Extended
<1> QED BY <1>4, <1>5 DEF t, e

(* Without overlays the missing sectors are the last ones.                 *)
LEMMA NoOverlaysOrdered ==
    ASSUME FilesOK, SectorsOK, nr_of_overlays = 0, NEW b \in Blocks, NEW c \in Blocks,
           b < c, InFile(c)
    PROVE  InFile(b)
<1>1. ReadFrom(b) = 0 /\ ReadFrom(c) = 0
  BY ReadFromType
<1>2. Source(b) = f /\ Source(c) = f
  BY <1>1 DEF Source
<1>3. StreamOn(f, Blocks) /\ OfSectors(f) /\ DOMAIN f.dirty \in SUBSET Blocks
  BY DEF FilesOK, SectorsOK, StreamOn
<1>4. c \in Extended(f, DOMAIN f.dirty)
  BY <1>2 DEF InFile
<1>5. b \in Extended(f, DOMAIN f.dirty)
  BY <1>3, <1>4, ExtendedDown
<1> QED BY <1>2, <1>5 DEF InFile

(* fread_helper() does not change what the files are long enough for.      *)
LEMMA ReadBlockInFile ==
    ASSUME FilesOK, OneBlockEach, SectorsOK, AccessOK, ReadBlock, NEW b \in Blocks
    PROVE  InFile(b)' = InFile(b)
<1>1. ReadFrom(b)' = ReadFrom(b)
  BY ReadBlockFiles
<1>2. /\ StreamOn(f, Blocks) /\ OfSectors(f) /\ DOMAIN overlays = 1..Len(overlays)
      /\ \A n \in 1..Len(overlays): /\ StreamOn(overlays[n].f_data, Blocks)
                                    /\ OfSectors(overlays[n].f_data)
  BY DEF FilesOK, OverlayOK, SectorsOK
<1>3. f' = f \/ f' = fseek(f)
  BY DEF ReadBlock
<1>4. Extended(f', DOMAIN f'.dirty) = Extended(f, DOMAIN f.dirty)
  BY <1>2, <1>3, SeekExtent
<1>5. ASSUME NEW n \in 1..Len(overlays)
      PROVE  Extended(overlays'[n].f_data, DOMAIN overlays'[n].f_data.dirty) =
                 Extended(overlays[n].f_data, DOMAIN overlays[n].f_data.dirty)
  <2>1. \/ overlays'[n].f_data = overlays[n].f_data
        \/ overlays'[n].f_data = fseek(overlays[n].f_data)
    BY <1>2 DEF ReadBlock
  <2> QED BY <1>2, <2>1, SeekExtent
<1>6. CASE ReadFrom(b) = 0
  BY <1>1, <1>4, <1>6 DEF InFile, Source
<1>7. CASE ReadFrom(b) # 0
  <2>1. ReadFrom(b) \in 1..Len(overlays)
    BY <1>7, ReadFromType DEF FilesOK, nr_of_overlays
  <2> QED BY <1>1, <1>5, <1>7, <2>1 DEF InFile, Source
<1> QED BY <1>6, <1>7

(* The steps of an access keep sectors sectors.                            *)
LEMMA ImageStepSectors ==
    ASSUME ImageInv, SectorsOK, ReadBlock \/ WriteBase \/ WriteData \/ MarkBlock
    PROVE  SectorsOK'
<1>0. /\ FilesOK /\ AccessOK /\ OfSectors(f) /\ StreamOn(f, Blocks)
      /\ Len(overlays) \in Nat /\ DOMAIN overlays = 1..Len(overlays)
      /\ \A n \in 1..Len(overlays): /\ StreamOn(overlays[n].f_data, Blocks)
                                    /\ OfSectors(overlays[n].f_data)
  BY DEF ImageInv, FilesOK, OverlayOK, SectorsOK
<1>1. ASSUME access.kind = "write", access' = NextBlock(access)
      PROVE  access'.kind = "write" => \A i \in 1..access'.left: IsSector(access'.data[i])
  <2>1. CASE access.left = 1
    BY <1>0, <1>1, <2>1 DEF NextBlock, NoAccess, AccessOK
  <2>2. CASE access.left # 1
    <3>1. IsSeq(access.data) /\ Len(access.data) = access.left /\ access.left > 1
          /\ access.left \in Nat
      BY <1>0, <1>1, <2>2 DEF AccessOK
    <3>2. access.data # <<>>
      BY <3>1
    <3>3. access'.left = access.left - 1 /\ access'.data = Tail(access.data)
      BY <1>0, <1>1, <2>2, <3>2 DEF NextBlock, AccessOK
    <3>4. \A i \in 1..access.left - 1: Tail(access.data)[i] = access.data[i + 1]
      BY <3>1, TailIsSeq
    <3>5. \A i \in 1..access.left - 1: i + 1 \in 1..access.left
      BY <3>1
    <3> QED BY <1>1, <2>2, <3>1, <3>3, <3>4, <3>5 DEF SectorsOK
  <2> QED BY <2>1, <2>2
<1>2. CASE ReadBlock
  <2>1. access'.kind = "read" /\ (f' = f \/ f' = fseek(f))
    BY <1>0, <1>2 DEF ReadBlock, Fetched, AccessOK
  <2>2. OfSectors(f')
    BY <1>0, <2>1, SeekSectors
  <2>3. Len(overlays') = Len(overlays)
    BY <1>0, <1>2, ReadBlockFiles
  <2>4. ASSUME NEW n \in 1..Len(overlays) PROVE OfSectors(overlays'[n].f_data)
    <3>1. \/ overlays'[n].f_data = overlays[n].f_data
          \/ overlays'[n].f_data = fseek(overlays[n].f_data)
      BY <1>0, <1>2 DEF ReadBlock
    <3> QED BY <1>0, <3>1, SeekSectors
  <2> QED BY <2>1, <2>2, <2>3, <2>4 DEF SectorsOK
<1>3. CASE WriteBase
  <2>1. /\ access.kind = "write" /\ access' = NoAccess /\ overlays' = overlays
        /\ f' = WriteAt(f, ToWrite)
    BY <1>3 DEF WriteBase, ToWrite
  <2>2. DOMAIN ToWrite = access.block..access.block + access.left - 1
        /\ \A b \in DOMAIN ToWrite: ToWrite[b] = access.data[b - access.block + 1]
    BY <2>1 DEF ToWrite
  <2>3. \A b \in DOMAIN ToWrite: b - access.block + 1 \in 1..access.left
    BY <1>0, <2>2 DEF AccessOK
  <2>4. DOMAIN ToWrite \subseteq Blocks /\ \A b \in DOMAIN ToWrite: IsSector(ToWrite[b])
    BY <1>0, <2>1, <2>2, <2>3, AccessBlocks DEF SectorsOK, AccessOK
  <2>5. OfSectors(f')
    BY <1>0, <2>1, <2>4, WriteSectors
  <2> QED BY <1>0, <2>1, <2>5 DEF SectorsOK, NoAccess
<1>4. CASE WriteData
  <2> DEFINE n == Len(overlays)
             w == [b \in {access.block} |-> Head(access.data)]
  <2>1. /\ access.kind = "write" /\ access' = [access EXCEPT !.step = "bitmap"] /\ f' = f
        /\ n > 0 /\ overlays' = [overlays EXCEPT ![n].f_data = WriteAt(@, w)]
    BY <1>4 DEF WriteData, nr_of_overlays
  <2>2. access.block \in Blocks
    BY <1>0, <2>1, AccessBlocks DEF AccessOK
  <2>3. IsSector(Head(access.data))
    <3>1. access.left > 0 /\ access.left \in Nat /\ IsSeq(access.data)
          /\ Len(access.data) = access.left
      BY <1>0, <2>1 DEF AccessOK
    <3>2. Head(access.data) = access.data[1]
      BY <3>1, TailIsSeq
    <3>3. 1 \in 1..access.left /\ \A i \in 1..access.left: IsSector(access.data[i])
      BY <2>1, <3>1 DEF SectorsOK
    <3> QED BY <3>2, <3>3
  <2>4. n \in 1..n /\ OfSectors(WriteAt(overlays[n].f_data, w))
    BY <1>0, <2>1, <2>2, <2>3, WriteSectors
  <2> HIDE DEF w
  <2>5. OverlayOK(overlays[n])
    BY <1>0, <2>4 DEF FilesOK
  <2>6. overlays'[n].f_data = WriteAt(overlays[n].f_data, w)
    BY <1>0, <2>1, <2>4, <2>5 DEF OverlayOK
  <2>7. Len(overlays') = n /\ \A m \in 1..n: m # n => overlays'[m] = overlays[m]
    BY <1>0, <2>1, SameLen
  <2>8. access'.kind = access.kind /\ access'.left = access.left /\ access'.data = access.data
    BY <1>0, <2>1 DEF AccessOK
  <2> QED BY <1>0, <2>1, <2>4, <2>6, <2>7, <2>8 DEF SectorsOK
<1>5. CASE MarkBlock
  <2>1. /\ access.kind = "write" /\ access' = NextBlock(access) /\ f' = f
        /\ nr_of_overlays > 0
    BY <1>0, <1>5 DEF MarkBlock, AccessOK
  <2>2. access.block \in Blocks
    BY <1>0, <2>1, AccessBlocks DEF AccessOK
  <2>3. /\ nr_of_overlays' = nr_of_overlays
        /\ overlays'[nr_of_overlays].f_data = overlays[nr_of_overlays].f_data
    BY <1>0, <1>5, <2>1, <2>2, MarkBlockFiles
  <2>4. \A m \in 1..nr_of_overlays: overlays'[m].f_data = overlays[m].f_data
    BY <1>0, <1>5, <2>3 DEF MarkBlock, nr_of_overlays
  <2> QED BY <1>0, <1>1, <2>1, <2>3, <2>4 DEF SectorsOK, nr_of_overlays
<1> QED BY <1>2, <1>3, <1>4, <1>5

(* The buffer is a sequence that is not full.                              *)
BufferOK == IsSeq(d.inbuf) /\ Len(d.inbuf) < InbufSize

DriverRecord(r) ==
    r = [phase |-> r.phase, command |-> r.command, sector |-> r.sector, count |-> r.count,
         left |-> r.left, parts |-> r.parts, data |-> r.data, done |-> r.done]

DriverOK ==
    /\ DriverRecord(driver)
    /\ driver.phase \in {"idle", "wait", "move"}
    /\ driver.command \in Reads \cup Writes \cup {"none"}
    /\ driver.sector \in Nat /\ driver.count \in 0..MaxCount
    /\ driver.sector + driver.count <= NBlocks
    /\ driver.left \in 0..driver.count /\ driver.parts \in Nat
    /\ driver.phase = "move" => driver.left > 0
    /\ driver.left > 0 => driver.parts > 0
    /\ driver.phase = "idle" => access = NoAccess
    /\ IsSeq(driver.done)

ShapeInv ==
    /\ SectorsOK /\ BufferOK /\ DriverOK
    /\ irq \in BOOLEAN /\ DOMAIN expected = Blocks

(* What is in the buffer after more has been put into it: everything, when *)
(* there is room for it.                                                   *)
LEMMA AddToInbufOK ==
    ASSUME NEW s, IsSeq(s), NEW t, IsSeq(t)
    PROVE  /\ IsSeq(AddToInbuf(s, t)) /\ Len(AddToInbuf(s, t)) < InbufSize
           /\ Len(s) + Len(t) < InbufSize => AddToInbuf(s, t) = s \o t
<1> DEFINE all == s \o t
           n == Len(all) % InbufSize
<1>1. IsSeq(all) /\ Len(all) = Len(s) + Len(t) /\ Len(all) \in Nat
  BY ConcatIsSeq DEF IsSeq
<1>2. n \in Nat /\ n < InbufSize /\ n <= Len(all) /\ (Len(all) < InbufSize => n = Len(all))
  BY <1>1, InbufSizeType, Remainders
<1> HIDE DEF all, n
<1>3. AddToInbuf(s, t) = SubSeq(all, Len(all) - n + 1, Len(all))
  BY DEF AddToInbuf, all, n
<1> DEFINE m == Len(all) - n + 1
           u == SubSeq(all, m, Len(all))
<1>4. m \in Nat \ {0}
  BY <1>1, <1>2
<1> HIDE DEF m
<1>5. /\ IsSeq(u) /\ Len(u) = IF m <= Len(all) THEN Len(all) - m + 1 ELSE 0
      /\ \A i \in 1..Len(all) - m + 1: u[i] = all[m + i - 1]
  BY <1>1, <1>4, RestIsSeq
<1> HIDE DEF u
<1>6. AddToInbuf(s, t) = u
  BY <1>3 DEF u, m
<1>7. Len(u) = n
  BY <1>1, <1>2, <1>5 DEF m
<1>8. ASSUME n = Len(all) PROVE u = all
  <2>1. m = 1
    BY <1>1, <1>8 DEF m
  <2>2. \A i \in 1..Len(all): u[i] = all[i]
    BY <1>1, <1>5, <2>1
  <2> QED BY <1>1, <1>5, <1>7, <1>8, <2>2, SameSeq
<1> QED BY <1>1, <1>2, <1>5, <1>6, <1>7, <1>8 DEF all

(* The sectors of a round.                                                 *)
Sectors(command, left) == IF command \in {"READ", "WRITE"} THEN 1 ELSE left

LEMMA RoundSectors ==
    ASSUME NEW command, NEW left \in Nat
    PROVE  LET n == Sectors(command, left)
           IN  /\ Round(command, left) = n * Parts /\ Round(command, left) \div Parts = n
               /\ Round(command, left) \in Nat /\ n \in Nat
               /\ left > 0 => n \in 1..left /\ Round(command, left) > 0
<1> DEFINE n == Sectors(command, left)
<1>1. n \in Nat /\ (left > 0 => n \in 1..left)
  BY DEF Sectors
<1>2. Round(command, left) = Parts * n
  BY DEF Round, Sectors
<1> HIDE DEF n
<1>3. Parts * n = n * Parts /\ (Parts * n) \div Parts = n /\ n * Parts \in Nat
  BY <1>1, Multiples
<1>4. left > 0 => n * Parts > 0
  BY <1>1, WdcAssumption
<1> QED BY <1>1, <1>2, <1>3, <1>4 DEF n

(* The driver after it has moved one part.                                 *)
LEMMA MovedCases ==
    ASSUME NEW dr, NEW e, e = Moved(dr), DriverRecord(dr),
           dr.left \in Nat \ {0}, dr.parts \in Nat \ {0}
    PROVE  LET n == Sectors(dr.command, dr.left)
           IN  \/ /\ dr.parts = 1 /\ dr.left = n /\ dr.command \in Reads /\ e = Idle
               \/ /\ DriverRecord(e) /\ e.command = dr.command /\ e.sector = dr.sector
                  /\ e.count = dr.count /\ e.data = dr.data /\ e.done = dr.done
                  /\ \/ /\ dr.parts > 1 /\ e.phase = dr.phase /\ e.left = dr.left
                        /\ e.parts = dr.parts - 1
                     \/ /\ dr.parts = 1 /\ e.phase = "wait" /\ e.left = dr.left - n
                        /\ e.parts = Round(dr.command, dr.left - n)
                        /\ ~(dr.left = n /\ dr.command \in Reads)
<1> DEFINE n == Sectors(dr.command, dr.left)
<1>1. n \in Nat /\ n \in 1..dr.left /\ Round(dr.command, dr.left) \div Parts = n
  BY RoundSectors
<1> HIDE DEF n
<1>2. CASE dr.parts > 1
  <2> DEFINE parts == dr.parts - 1
  <2>1. e = [dr EXCEPT !.parts = parts]
    BY <1>2 DEF Moved
  <2> HIDE DEF parts
  <2>2. /\ DriverRecord(e) /\ e.phase = dr.phase /\ e.command = dr.command
        /\ e.sector = dr.sector /\ e.count = dr.count /\ e.left = dr.left
        /\ e.parts = parts /\ e.data = dr.data /\ e.done = dr.done
    BY <2>1 DEF DriverRecord
  <2> QED BY <1>2, <2>2 DEF parts
<1>3. CASE dr.parts = 1 /\ dr.left = n /\ dr.command \in Reads
  BY <1>1, <1>3 DEF Moved, n
<1>4. CASE dr.parts = 1 /\ ~(dr.left = n /\ dr.command \in Reads)
  <2> DEFINE left == dr.left - Round(dr.command, dr.left) \div Parts
             parts == Round(dr.command, left)
  <2>1. left = dr.left - n /\ ~(dr.parts > 1) /\ ~(left = 0 /\ dr.command \in Reads)
    BY <1>1, <1>4
  <2> HIDE DEF left
  <2>2. e = [dr EXCEPT !.left = left, !.parts = parts, !.phase = "wait"]
    BY <2>1, Zenon DEF Moved, left
  <2> HIDE DEF parts
  <2>3. /\ DriverRecord(e) /\ e.phase = "wait" /\ e.command = dr.command
        /\ e.sector = dr.sector /\ e.count = dr.count /\ e.left = left
        /\ e.parts = parts /\ e.data = dr.data /\ e.done = dr.done
    BY <2>2 DEF DriverRecord
  <2> QED BY <1>4, <2>1, <2>3 DEF n, parts
<1> QED BY <1>2, <1>3, <1>4 DEF n

LEMMA SectorsUnchanged ==
    ASSUME SectorsOK, UNCHANGED files, access' = access \/ access'.kind # "write"
    PROVE  SectorsOK'
  BY DEF SectorsOK, files

LEMMA IdleRecord ==
    /\ DriverRecord(Idle) /\ Idle.phase = "idle" /\ Idle.command = "none" /\ Idle.sector = 0
    /\ Idle.count = 0 /\ Idle.left = 0 /\ Idle.parts = 0 /\ Idle.data = <<>>
    /\ Idle.done = <<>> /\ IsSeq(Idle.done)
<1>1. IsSeq(<<>>)
  BY DEF IsSeq
<1>2. /\ Idle.phase = "idle" /\ Idle.command = "none" /\ Idle.sector = 0
      /\ Idle.count = 0 /\ Idle.left = 0 /\ Idle.parts = 0 /\ Idle.data = <<>>
      /\ Idle.done = <<>>
  BY DEF Idle
<1>3. DriverRecord(Idle)
  BY DEF DriverRecord, Idle
<1> QED BY <1>1, <1>2, <1>3

LEMMA BecomesIdle ==
    ASSUME driver' = Idle, access' = NoAccess
    PROVE  DriverOK'
  BY IdleRecord, WdcAssumption, DiskImageAssumption DEF DriverOK

(* When the emulator starts.                                               *)
LEMMA StartedShape ==
    ASSUME d = Controller, driver = Idle, access = NoAccess
    PROVE  BufferOK /\ DriverOK
<1>1. IsSeq(<<>>) /\ Len(<<>>) = 0
  BY DEF IsSeq
<1>2. BufferOK
  BY <1>1, InbufSizeType DEF BufferOK, Controller
<1>3. DriverOK
  BY IdleRecord, WdcAssumption, DiskImageAssumption DEF DriverOK
<1> QED BY <1>2, <1>3

(* A file is as long as its size, and zeros follow.                        *)
LEMMA OpenSectors ==
    ASSUME NEW file, IsFile(file, Blocks, Zero), \A b \in Blocks: IsSector(file.content[b])
    PROVE  OfSectors(fopen(file))
<1>1. /\ fopen(file).content = file.content /\ DOMAIN fopen(file).dirty = {}
      /\ fopen(file).extent = 0..file.size - 1
  BY DEF fopen, Stream, NoData
<1>2. file.size \in Nat /\ Blocks \subseteq Nat
  BY DiskImageAssumption DEF IsFile, Blocks
<1>3. fopen(file).extent \subseteq Nat
  BY <1>1, <1>2
<1>4. \A b \in Blocks: b \notin 0..file.size - 1 => file.content[b] = Zero
  BY <1>2 DEF IsFile
<1> QED BY <1>1, <1>3, <1>4 DEF OfSectors

LEMMA InitShape ==
    ASSUME Init
    PROVE  ShapeInv
<1>1. PICK i \in Images: f = fopen(i.base)
                      /\ overlays = [n \in DOMAIN i.overlays |->
                             [f_data   |-> fopen(i.overlays[n].data),
                              f_bitmap |-> fopen(i.overlays[n].bitmap)]]
  BY DEF Init, InitFiles
<1>2. /\ Len(i.overlays) \in Nat /\ DOMAIN i.overlays = 1..Len(i.overlays)
      /\ \A b \in Blocks: IsSector(i.base.content[b])
      /\ \A n \in DOMAIN i.overlays: \A b \in Blocks: IsSector(i.overlays[n].data.content[b])
      /\ IsFile(i.base, Blocks, Zero)
      /\ \A n \in DOMAIN i.overlays: IsFile(i.overlays[n].data, Blocks, Zero)
  BY ImagesAssumption, SectorsAssumption
<1>3. OfSectors(f)
  BY <1>1, <1>2, OpenSectors
<1>4. Len(overlays) = Len(i.overlays)
  BY <1>1, <1>2
<1>5. ASSUME NEW n \in 1..Len(overlays) PROVE OfSectors(overlays[n].f_data)
  <2>1. n \in DOMAIN i.overlays
    BY <1>2, <1>4
  <2>2. overlays[n].f_data = fopen(i.overlays[n].data)
    BY <1>1, <2>1
  <2> QED BY <1>2, <2>1, <2>2, OpenSectors
<1>6. SectorsOK
  BY <1>3, <1>5 DEF SectorsOK, Init, InitFiles, NoAccess
<1>7. BufferOK /\ DriverOK
  BY StartedShape DEF Init, InitFiles, Started
<1> QED BY <1>6, <1>7 DEF ShapeInv, Init, Started

(* The driver's state after a part has been moved.                         *)
LEMMA MovedDriver ==
    ASSUME DriverOK, driver.phase = "move", NEW v,
           driver' = Moved([driver EXCEPT !.done = Append(@, v)])
    PROVE  LET n == Sectors(driver.command, driver.left)
           IN  /\ driver.left \in Nat \ {0} /\ driver.parts \in Nat \ {0}
               /\ n \in 1..driver.left
               /\ \/ /\ driver.parts = 1 /\ driver.left = n /\ driver.command \in Reads
                     /\ driver' = Idle
                  \/ /\ DriverRecord(driver') /\ driver'.command = driver.command
                     /\ driver'.sector = driver.sector /\ driver'.count = driver.count
                     /\ driver'.data = driver.data /\ driver'.done = Append(driver.done, v)
                     /\ \/ /\ driver.parts > 1 /\ driver'.phase = "move"
                           /\ driver'.left = driver.left /\ driver'.parts = driver.parts - 1
                        \/ /\ driver.parts = 1 /\ driver'.phase = "wait"
                           /\ driver'.left = driver.left - n
                           /\ driver'.parts = Round(driver.command, driver.left - n)
                           /\ ~(driver.left = n /\ driver.command \in Reads)
<1> DEFINE done == Append(driver.done, v)
           dr == [driver EXCEPT !.done = done]
<1>1. driver' = Moved(dr)
  OBVIOUS
<1> HIDE DEF done, dr
<1>2. DriverRecord(driver) /\ dr = [driver EXCEPT !.done = done]
  BY DEF DriverOK, dr
<1>3. /\ DriverRecord(dr) /\ dr.phase = driver.phase /\ dr.command = driver.command
      /\ dr.sector = driver.sector /\ dr.count = driver.count /\ dr.left = driver.left
      /\ dr.parts = driver.parts /\ dr.data = driver.data /\ dr.done = done
  BY <1>2 DEF DriverRecord
<1>4. driver.left \in Nat \ {0} /\ driver.parts \in Nat \ {0}
  BY WdcAssumption DEF DriverOK
<1>5. Sectors(driver.command, driver.left) \in 1..driver.left
  BY <1>4, RoundSectors
<1> DEFINE n == Sectors(dr.command, dr.left)
<1>6. \/ /\ dr.parts = 1 /\ dr.left = n /\ dr.command \in Reads /\ driver' = Idle
      \/ /\ DriverRecord(driver') /\ driver'.command = dr.command
         /\ driver'.sector = dr.sector /\ driver'.count = dr.count
         /\ driver'.data = dr.data /\ driver'.done = dr.done
         /\ \/ /\ dr.parts > 1 /\ driver'.phase = dr.phase /\ driver'.left = dr.left
               /\ driver'.parts = dr.parts - 1
            \/ /\ dr.parts = 1 /\ driver'.phase = "wait" /\ driver'.left = dr.left - n
               /\ driver'.parts = Round(dr.command, dr.left - n)
               /\ ~(dr.left = n /\ dr.command \in Reads)
  BY <1>1, <1>3, <1>4, MovedCases
<1>7. n = Sectors(driver.command, driver.left)
  BY <1>3
<1> HIDE DEF n
<1> QED BY <1>3, <1>4, <1>5, <1>6, <1>7 DEF done

LEMMA MovedOK ==
    ASSUME DriverOK, driver.phase = "move", access = NoAccess, NEW v,
           driver' = Moved([driver EXCEPT !.done = Append(@, v)]),
           driver.command \in Writes \/ access' = NoAccess
    PROVE  DriverOK'
<1> DEFINE n == Sectors(driver.command, driver.left)
<1>1. /\ driver.left \in Nat \ {0} /\ driver.parts \in Nat \ {0} /\ n \in 1..driver.left
      /\ \/ /\ driver.parts = 1 /\ driver.left = n /\ driver.command \in Reads
            /\ driver' = Idle
         \/ /\ DriverRecord(driver') /\ driver'.command = driver.command
            /\ driver'.sector = driver.sector /\ driver'.count = driver.count
            /\ driver'.data = driver.data /\ driver'.done = Append(driver.done, v)
            /\ \/ /\ driver.parts > 1 /\ driver'.phase = "move"
                  /\ driver'.left = driver.left /\ driver'.parts = driver.parts - 1
               \/ /\ driver.parts = 1 /\ driver'.phase = "wait"
                  /\ driver'.left = driver.left - n
                  /\ driver'.parts = Round(driver.command, driver.left - n)
  BY MovedDriver
<1>2. IsSeq(Append(driver.done, v))
  BY AppendIsSeq DEF DriverOK
<1>3. /\ driver.left <= driver.count /\ driver.count \in 0..MaxCount /\ driver.count \in Nat
      /\ driver.sector \in Nat /\ driver.sector + driver.count <= NBlocks
      /\ driver.command \in Reads \cup Writes \cup {"none"}
  BY WdcAssumption DEF DriverOK
<1>4. CASE driver' = Idle /\ driver.command \in Reads
  <2>1. access' = NoAccess
    BY <1>4 DEF Reads, Writes
  <2> QED BY <1>4, <2>1, BecomesIdle
<1>5. CASE /\ DriverRecord(driver') /\ driver'.command = driver.command
           /\ driver'.sector = driver.sector /\ driver'.count = driver.count
           /\ driver'.data = driver.data /\ driver'.done = Append(driver.done, v)
           /\ \/ /\ driver.parts > 1 /\ driver'.phase = "move"
                 /\ driver'.left = driver.left /\ driver'.parts = driver.parts - 1
              \/ /\ driver.parts = 1 /\ driver'.phase = "wait"
                 /\ driver'.left = driver.left - n
                 /\ driver'.parts = Round(driver.command, driver.left - n)
  <2>1. driver.left - n \in 0..driver.count /\ driver.left - n \in Nat
    BY <1>1, <1>3
  <2>2. /\ Round(driver.command, driver.left - n) \in Nat
        /\ driver.left - n > 0 => Round(driver.command, driver.left - n) > 0
    BY <2>1, RoundSectors
  <2> HIDE DEF n
  <2>3. driver'.phase \in {"wait", "move"} /\ (driver'.phase = "move" => driver'.left > 0)
    BY <1>1, <1>5
  <2>4. /\ driver'.left \in 0..driver'.count /\ driver'.parts \in Nat
        /\ driver'.left > 0 => driver'.parts > 0
    BY <1>1, <1>3, <1>5, <2>1, <2>2
  <2> QED BY <1>2, <1>3, <1>5, <2>3, <2>4 DEF DriverOK
<1> QED BY <1>1, <1>4, <1>5

(* A command has been given.                                               *)
LEMMA IssueShape ==
    ASSUME ImageInv, ShapeInv, NEW command \in Reads \cup Writes, NEW b \in Blocks,
           NEW seccnt \in 0..MaxCount - 1, NEW data, Issue(command, b, seccnt, data)
    PROVE  ShapeInv'
<1> DEFINE n == Count(seccnt)
           parts == Round(command, n)
           phase == IF command \in Reads THEN "wait" ELSE "move"
<1>1. n \in 1..MaxCount /\ n \in Nat /\ n > 0 /\ b \in Nat /\ b + n <= NBlocks
  BY WdcAssumption, DiskImageAssumption DEF Count, Blocks, Issue
<1>2. parts \in Nat /\ parts > 0
  BY <1>1, RoundSectors
<1> HIDE DEF n, parts, phase
<1>3. driver' = [Idle EXCEPT !.phase = phase, !.command = command, !.sector = b,
                             !.count = n, !.left = n, !.parts = parts, !.data = data]
  BY DEF Issue, n, parts, phase
<1>4. /\ DriverRecord(driver') /\ driver'.phase = phase /\ driver'.command = command
      /\ driver'.sector = b /\ driver'.count = n /\ driver'.left = n
      /\ driver'.parts = parts /\ driver'.done = <<>>
  BY <1>3 DEF DriverRecord, Idle
<1>5. phase \in {"wait", "move"} /\ IsSeq(<<>>)
  BY DEF phase, IsSeq
<1>6. DriverOK'
  BY <1>1, <1>2, <1>4, <1>5 DEF DriverOK
<1>7. SectorsOK'
  <2>1. UNCHANGED files /\ access = NoAccess
    BY DEF Issue, Running
  <2>2. access' = access \/ access'.kind # "write"
    BY DEF Issue, CommandRead, CommandWrite, Read, NoAccess
  <2> QED BY <2>1, <2>2, SectorsUnchanged DEF ShapeInv
<1>8. d'.inbuf = d.inbuf /\ irq' \in BOOLEAN /\ expected' = expected
  BY DEF Issue, CommandRead, CommandWrite, SetDevice, Interrupt, ImageInv, ControllerOK, ShapeInv
<1> QED BY <1>6, <1>7, <1>8 DEF ShapeInv, BufferOK

(* The places of the parts of n sectors.                                   *)
LEMMA Places ==
    ASSUME NEW n \in Nat, NEW i \in 1..n, NEW j \in 1..Parts
    PROVE  /\ (i - 1) * Parts + j \in 1..n * Parts
           /\ (((i - 1) * Parts + j) - 1) \div Parts = i - 1
<1>1. (i - 1) * Parts + j \in 1..n * Parts
  BY WdcAssumption
<1>2. i - 1 \in Nat /\ j - 1 \in 0..Parts - 1
  BY WdcAssumption
<1>3. ((i - 1) * Parts + (j - 1)) \div Parts = i - 1
  BY <1>2, WdcAssumption
<1>4. (i - 1) * Parts + (j - 1) = ((i - 1) * Parts + j) - 1
  BY WdcAssumption
<1> QED BY <1>1, <1>3, <1>4

LEMMA PlaceInSector ==
    ASSUME NEW i \in Nat \ {0}, NEW j \in 1..Parts
    PROVE  (((i - 1) * Parts + j) - 1) % Parts = j - 1
<1> DEFINE q == i - 1
           r == j - 1
<1>1. q \in Nat /\ r \in 0..Parts - 1 /\ ((i - 1) * Parts + j) - 1 = q * Parts + r
  BY WdcAssumption
<1> HIDE DEF q, r
<1>2. q * Parts \in Nat
  BY <1>1, WdcAssumption
<1>3. (q * Parts + r) % Parts = r
  BY <1>1, <1>2, WdcAssumption
<1> QED BY <1>1, <1>3 DEF r

(* The parts of sectors, one after the other.                              *)
LEMMA JoinOK ==
    ASSUME NEW z, NEW n \in Nat, Len(z) = n
    PROVE  /\ IsSeq(Join(z)) /\ Len(Join(z)) = n * Parts
           /\ \A i \in 1..n, j \in 1..Parts: Join(z)[(i - 1) * Parts + j] = z[i][j]
<1>1. n * Parts \in Nat
  BY Multiples
<1>2. Join(z) = [k \in 1..n * Parts |-> z[((k - 1) \div Parts) + 1][((k - 1) % Parts) + 1]]
  BY DEF Join
<1>3. Join(z) = [k \in 1..n * Parts |-> Join(z)[k]]
  BY <1>2
<1>4. IsSeq(Join(z)) /\ Len(Join(z)) = n * Parts
  BY <1>1, <1>3, FunctionIsSeq
<1>5. ASSUME NEW i \in 1..n, NEW j \in 1..Parts
      PROVE  Join(z)[(i - 1) * Parts + j] = z[i][j]
  <2> DEFINE k == (i - 1) * Parts + j
  <2>1. k \in 1..n * Parts /\ (k - 1) \div Parts = i - 1
    BY Places
  <2>2. (k - 1) % Parts = j - 1
    BY PlaceInSector
  <2> HIDE DEF k
  <2>3. Join(z)[k] = z[((k - 1) \div Parts) + 1][((k - 1) % Parts) + 1]
    BY <1>2, <2>1
  <2>4. ((k - 1) \div Parts) + 1 = i /\ ((k - 1) % Parts) + 1 = j
    BY <2>1, <2>2, WdcAssumption
  <2>5. Join(z)[k] = z[i][j]
    BY <2>3, <2>4
  <2> QED BY <2>5 DEF k
<1> QED BY <1>4, <1>5

(* What a chunk puts into the buffer.                                      *)
LEMMA ChunkJoined ==
    ASSUME AccessOK, access.kind = "read"
    PROVE  LET t == Join(ZeroFilled(access))
               n == Len(access.data)
           IN  /\ IsSeq(t) /\ Len(t) = n * Parts /\ n \in Nat
               /\ \A i \in 1..n, j \in 1..Parts:
                      t[(i - 1) * Parts + j] =
                          (IF i > n - access.short THEN Zero ELSE access.data[i])[j]
<1> DEFINE z == ZeroFilled(access)
           n == Len(access.data)
<1>1. n \in Nat
  BY DEF AccessOK, IsSeq
<1>2. z = [i \in 1..n |-> IF i > n - access.short THEN Zero ELSE access.data[i]]
  BY DEF ZeroFilled
<1>3. z = [i \in 1..n |-> z[i]]
  BY <1>2
<1> HIDE DEF z, n
<1>4. Len(z) = n
  BY <1>1, <1>3, FunctionIsSeq
<1>5. /\ IsSeq(Join(z)) /\ Len(Join(z)) = n * Parts
      /\ \A i \in 1..n, j \in 1..Parts: Join(z)[(i - 1) * Parts + j] = z[i][j]
  BY <1>1, <1>4, JoinOK
<1>6. \A i \in 1..n: z[i] = IF i > n - access.short THEN Zero ELSE access.data[i]
  BY <1>2
<1>7. \A i \in 1..n, j \in 1..Parts:
          Join(z)[(i - 1) * Parts + j] = (IF i > n - access.short THEN Zero ELSE access.data[i])[j]
  BY <1>5, <1>6, Zenon
<1> QED BY <1>1, <1>5, <1>7 DEF z, n

(* One step of diskimage_access(), or its return.                          *)
LEMMA ImageStepShape ==
    ASSUME ImageInv, ShapeInv, ImageStep
    PROVE  ShapeInv'
<1>1. /\ UNCHANGED <<driver, expected>>
      /\ \/ (ReadBlock \/ WriteBase \/ WriteData \/ MarkBlock) /\ UNCHANGED <<d, irq>>
         \/ ChunkRead
  BY DEF ImageStep
<1>2. /\ SectorsOK /\ BufferOK /\ DriverOK /\ FilesOK /\ AccessOK /\ ControllerOK /\ ReadingOK
      /\ irq \in BOOLEAN /\ DOMAIN expected = Blocks
  BY DEF ShapeInv, ImageInv
<1>3. access.kind # "none"
  BY <1>1 DEF ReadBlock, WriteBase, WriteData, MarkBlock, ChunkRead
<1>4. driver.phase # "idle"
  BY <1>2, <1>3 DEF DriverOK, NoAccess
<1>5. DriverOK'
  BY <1>1, <1>2, <1>4 DEF DriverOK
<1>6. CASE ReadBlock \/ WriteBase \/ WriteData \/ MarkBlock
  <2>1. UNCHANGED <<d, irq>>
    BY <1>1, <1>6 DEF ChunkRead, ReadBlock, WriteBase, WriteData, MarkBlock
  <2>2. SectorsOK'
    BY <1>6, ImageStepSectors DEF ShapeInv
  <2> QED BY <1>1, <1>2, <1>5, <2>1, <2>2 DEF ShapeInv, BufferOK
<1>7. CASE ChunkRead
  <2> DEFINE joined == Join(ZeroFilled(access))
  <2>1. /\ d'.inbuf = AddToInbuf(d.inbuf, joined) /\ irq' = (irq \/ d'.int_assert)
        /\ UNCHANGED files /\ (access' = NoAccess \/ access'.kind = "read")
    BY <1>2, <1>7, ChunkReadOK
  <2>2. IsSeq(joined)
    BY <1>2, <1>7, ChunkJoined DEF ChunkRead
  <2> HIDE DEF joined
  <2>3. BufferOK'
    BY <1>2, <2>1, <2>2, AddToInbufOK DEF BufferOK
  <2>4. SectorsOK'
    <3>1. access'.kind # "write"
      BY <2>1 DEF NoAccess
    <3> QED BY <1>2, <2>1, <3>1, SectorsUnchanged
  <2>5. irq' \in BOOLEAN
    BY <2>1
  <2> QED BY <1>1, <1>2, <1>5, <2>3, <2>4, <2>5 DEF ShapeInv
<1> QED BY <1>1, <1>6, <1>7

(* What writing the data register does to the buffer and the access.       *)
LEMMA WritePartCases ==
    ASSUME ControllerOK, BufferOK, NEW v, WritePart(v)
    PROVE  \E dd:
               /\ dd.inbuf = AddToInbuf(d.inbuf, <<v>>)
               /\ dd.write_in_progress = d.write_in_progress
               /\ dd.write_count = d.write_count /\ dd.write_offset = d.write_offset
               /\ IsSeq(dd.inbuf) /\ Len(dd.inbuf) < InbufSize
               /\ irq' = (irq \/ d'.int_assert)
               /\ \/ SectorsDue(dd) = 0 /\ access' = access /\ d' = dd
                  \/ LET n == SectorsDue(dd)
                     IN  /\ n # 0 /\ n \in 1..d.write_count /\ d.write_in_progress # "no"
                         /\ d'.inbuf = SubSeq(dd.inbuf, n * Parts + 1, Len(dd.inbuf))
                         /\ d'.write_count = d.write_count - n
                         /\ d'.write_offset = d.write_offset + n
                         /\ d'.write_in_progress =
                                IF d.write_count = n THEN "no" ELSE d.write_in_progress
                         /\ Write(d.write_offset, Cut(dd.inbuf, n))
<1> DEFINE inbuf == AddToInbuf(d.inbuf, <<v>>)
           dd == [d EXCEPT !.inbuf = inbuf]
           n == SectorsDue(dd)
<1>1. IsSeq(inbuf) /\ Len(inbuf) < InbufSize
  <2>1. IsSeq(<<v>>)
    BY DEF IsSeq
  <2> QED BY <2>1, AddToInbufOK DEF BufferOK
<1>2. IF n = 0 THEN SetDevice(dd) /\ access' = access
      ELSE SetDevice(Written(dd, n)) /\ Write(dd.write_offset, Cut(dd.inbuf, n))
  BY DEF WritePart
<1> HIDE DEF inbuf, dd
<1>3. dd = [d EXCEPT !.inbuf = inbuf]
  BY DEF dd
<1>4. /\ dd = [inbuf |-> dd.inbuf, int_assert |-> dd.int_assert,
               write_in_progress |-> dd.write_in_progress, write_count |-> dd.write_count,
               write_offset |-> dd.write_offset, read_count |-> dd.read_count]
      /\ dd.inbuf = inbuf /\ dd.write_in_progress = d.write_in_progress
      /\ dd.write_count = d.write_count /\ dd.write_offset = d.write_offset
  BY <1>3 DEF ControllerOK
<1>5. CASE n = 0
  <2>1. SetDevice(dd) /\ access' = access
    BY <1>2, <1>5
  <2> HIDE DEF n
  <2>2. d' = dd /\ irq' = (irq \/ d'.int_assert)
    BY <2>1 DEF SetDevice, Interrupt
  <2> QED BY <1>1, <1>4, <1>5, <2>1, <2>2 DEF n, inbuf
<1>6. CASE n # 0
  <2>1. n \in 1..d.write_count /\ d.write_in_progress # "no"
    BY <1>4, <1>6, SectorsDueType
  <2>2. SetDevice(Written(dd, n)) /\ Write(dd.write_offset, Cut(dd.inbuf, n))
    BY <1>2, <1>6
  <2> HIDE DEF n
  <2>3. d' = Written(dd, n) /\ irq' = (irq \/ d'.int_assert)
    BY <2>2 DEF SetDevice, Interrupt
  <2>4. d' = [inbuf |-> SubSeq(dd.inbuf, n * Parts + 1, Len(dd.inbuf)), int_assert |-> TRUE,
              write_in_progress |-> IF dd.write_count = n THEN "no" ELSE dd.write_in_progress,
              write_count |-> dd.write_count - n, write_offset |-> dd.write_offset + n,
              read_count |-> dd.read_count]
    BY <1>4, <2>3, WrittenRecord
  <2>5. /\ d'.inbuf = SubSeq(dd.inbuf, n * Parts + 1, Len(dd.inbuf))
        /\ d'.write_count = d.write_count - n /\ d'.write_offset = d.write_offset + n
        /\ d'.write_in_progress = IF d.write_count = n THEN "no" ELSE d.write_in_progress
    BY <1>4, <2>4
  <2>6. Write(d.write_offset, Cut(dd.inbuf, n))
    BY <1>4, <2>2
  <2> QED BY <1>1, <1>4, <1>6, <2>1, <2>3, <2>5, <2>6 DEF n, inbuf
<1> QED BY <1>5, <1>6

(* A part is written to the data register.                                 *)
LEMMA MoveOutShape ==
    ASSUME ImageInv, ShapeInv, MoveOut
    PROVE  ShapeInv'
<1>1. /\ access = NoAccess /\ driver.phase = "move" /\ driver.command \in Writes
      /\ UNCHANGED <<files, expected>>
      /\ driver' = Moved([driver EXCEPT !.done = Append(@, "part")])
  BY DEF MoveOut, Running
<1>2. PICK v: WritePart(v)
  BY DEF MoveOut
<1>3. SectorsOK /\ BufferOK /\ DriverOK /\ ControllerOK
  BY DEF ShapeInv, ImageInv
<1>4. DriverOK'
  BY <1>1, <1>3, MovedOK
<1>5. PICK dd:
          /\ IsSeq(dd.inbuf) /\ Len(dd.inbuf) < InbufSize
          /\ irq' = (irq \/ d'.int_assert)
          /\ \/ access' = access /\ d' = dd
             \/ \E n \in 1..d.write_count:
                    /\ d'.inbuf = SubSeq(dd.inbuf, n * Parts + 1, Len(dd.inbuf))
                    /\ Write(d.write_offset, Cut(dd.inbuf, n))
  BY <1>2, <1>3, WritePartCases
<1>6. irq' \in BOOLEAN
  BY <1>5
<1>7. CASE access' = access /\ d' = dd
  BY <1>1, <1>3, <1>4, <1>5, <1>6, <1>7, SectorsUnchanged DEF ShapeInv, BufferOK
<1>8. CASE \E n \in 1..d.write_count:
               /\ d'.inbuf = SubSeq(dd.inbuf, n * Parts + 1, Len(dd.inbuf))
               /\ Write(d.write_offset, Cut(dd.inbuf, n))
  <2>1. PICK n \in 1..d.write_count:
               /\ d'.inbuf = SubSeq(dd.inbuf, n * Parts + 1, Len(dd.inbuf))
               /\ Write(d.write_offset, Cut(dd.inbuf, n))
    BY <1>8
  <2> DEFINE m == n * Parts + 1
             data == Cut(dd.inbuf, n)
  <2>2. n \in Nat /\ m \in Nat \ {0}
    <3>1. n \in Nat
      BY <1>3, WdcAssumption DEF ControllerOK
    <3>2. n * Parts \in Nat
      BY <3>1, Multiples
    <3> QED BY <3>1, <3>2
  <2>3. data = [i \in 1..n |-> data[i]] /\ \A i \in 1..n: IsSector(data[i])
    BY DEF Cut, IsSector
  <2> HIDE DEF m, data
  <2>4. IsSeq(d'.inbuf) /\ Len(d'.inbuf) = IF m <= Len(dd.inbuf) THEN Len(dd.inbuf) - m + 1 ELSE 0
    BY <1>5, <2>1, <2>2, RestIsSeq DEF m
  <2>5. BufferOK'
    BY <1>5, <2>2, <2>4, InbufSizeType DEF BufferOK, IsSeq
  <2>6. Len(data) = n
    BY <2>2, <2>3, FunctionIsSeq
  <2>7. access'.left = n /\ access'.data = data
    BY <2>1, <2>6 DEF Write, NoAccess, data
  <2>8. SectorsOK'
    BY <1>1, <1>3, <2>3, <2>7 DEF SectorsOK, files
  <2> QED BY <1>1, <1>3, <1>4, <1>6, <2>5, <2>8 DEF ShapeInv
<1> QED BY <1>5, <1>7, <1>8

(* A part is read from the data register.                                  *)
LEMMA MoveInShape ==
    ASSUME ImageInv, ShapeInv, MoveIn
    PROVE  ShapeInv'
<1>1. /\ access = NoAccess /\ access' = access /\ driver.phase = "move" /\ d.inbuf # <<>>
      /\ UNCHANGED <<files, expected>> /\ ReadPart
      /\ driver' = Moved([driver EXCEPT !.done = Append(@, Head(d.inbuf))])
  BY DEF MoveIn, Running
<1>2. SectorsOK /\ BufferOK /\ DriverOK /\ ControllerOK
  BY DEF ShapeInv, ImageInv
<1>3. DriverOK'
  BY <1>1, <1>2, MovedOK
<1>4. d'.inbuf = Tail(d.inbuf) /\ irq' = (irq \/ d'.int_assert)
  BY <1>1, <1>2 DEF ReadPart, SetDevice, Interrupt, ControllerOK
<1>5. Len(d.inbuf) > 0
  BY <1>1, <1>2 DEF BufferOK, IsSeq
<1>6. BufferOK'
  <2>1. IsSeq(Tail(d.inbuf)) /\ Len(Tail(d.inbuf)) = Len(d.inbuf) - 1
    BY <1>2, <1>5, TailIsSeq DEF BufferOK
  <2>2. Len(d.inbuf) \in Nat /\ Len(d.inbuf) < InbufSize
    BY <1>2 DEF BufferOK, IsSeq
  <2>3. Len(d.inbuf) - 1 < InbufSize
    BY <2>2, InbufSizeType
  <2> QED BY <1>4, <2>1, <2>3 DEF BufferOK
<1>7. SectorsOK'
  BY <1>1, <1>2, SectorsUnchanged
<1>8. irq' \in BOOLEAN
  BY <1>4
<1> QED BY <1>1, <1>3, <1>6, <1>7, <1>8 DEF ShapeInv

(* The status register is read.                                            *)
LEMMA InterruptShape ==
    ASSUME ImageInv, ShapeInv, Interrupted \/ Spurious
    PROVE  ShapeInv'
<1>1. /\ access = NoAccess /\ access' = access /\ UNCHANGED files
      /\ ReadStatus
      /\ expected' = expected \/ Interrupted
  BY DEF Interrupted, Spurious, Running
<1>2. SectorsOK /\ BufferOK /\ DriverOK /\ ControllerOK
  BY DEF ShapeInv, ImageInv
<1>3. \/ driver' = driver \/ driver' = Idle
      \/ driver' = [driver EXCEPT !.phase = "move"] /\ driver.left # 0
  BY DEF Interrupted, Spurious
<1>4. DriverOK'
  <2>1. CASE driver' = driver
    BY <1>1, <1>2, <2>1 DEF DriverOK
  <2>2. CASE driver' = Idle
    BY <1>1, <2>2, BecomesIdle
  <2>3. CASE driver' = [driver EXCEPT !.phase = "move"] /\ driver.left # 0
    <3>1. DriverRecord(driver)
      BY <1>2 DEF DriverOK
    <3>2. /\ DriverRecord(driver') /\ driver'.phase = "move" /\ driver'.command = driver.command
          /\ driver'.sector = driver.sector /\ driver'.count = driver.count
          /\ driver'.left = driver.left /\ driver'.parts = driver.parts
          /\ driver'.data = driver.data /\ driver'.done = driver.done
      BY <2>3, <3>1 DEF DriverRecord
    <3>3. driver.left > 0
      BY <1>2, <2>3, WdcAssumption DEF DriverOK
    <3> QED BY <1>1, <1>2, <3>2, <3>3 DEF DriverOK
  <2> QED BY <1>3, <2>1, <2>2, <2>3
<1>5. d'.inbuf = d.inbuf /\ irq' = FALSE
  BY <1>1, <1>2 DEF ReadStatus, ControllerOK
<1>6. DOMAIN expected' = Blocks
  BY <1>1 DEF Interrupted, ShapeInv
<1>7. SectorsOK'
  BY <1>1, <1>2, SectorsUnchanged
<1> QED BY <1>2, <1>4, <1>5, <1>6, <1>7 DEF ShapeInv, BufferOK

LEMMA DieShape ==
    ASSUME ImageInv, ShapeInv, DieAndRestart
    PROVE  ShapeInv'
<1>1. /\ Die /\ access' = NoAccess /\ d' = Controller /\ driver' = Idle /\ irq' = FALSE
      /\ DOMAIN expected' = Blocks
  BY DEF DieAndRestart, Die
<1>2. FilesOK /\ SectorsOK
  BY DEF ImageInv, ShapeInv
<1>3. DriverOK'
  BY <1>1, BecomesIdle
<1>4. IsSeq(<<>>) /\ Len(<<>>) = 0
  BY DEF IsSeq
<1>5. BufferOK'
  BY <1>1, <1>4, InbufSizeType DEF BufferOK, Controller
<1>6. OfSectors(f')
  <2>1. PICK kept \in SUBSET DOMAIN f.dirty: f' = AfterDeath(f, kept)
    BY <1>1 DEF Die
  <2> QED BY <1>2, <2>1, DeathSectors DEF FilesOK, SectorsOK
<1>7. Len(overlays') = Len(overlays)
  BY <1>1, <1>2, DieFiles
<1>8. ASSUME NEW n \in 1..Len(overlays) PROVE OfSectors(overlays'[n].f_data)
  <2>1. overlays'[n].f_data = AfterDeath(overlays[n].f_data, {})
    BY <1>1, <1>2 DEF Die, FilesOK
  <2>2. StreamOn(overlays[n].f_data, Blocks) /\ OfSectors(overlays[n].f_data)
    BY <1>2 DEF FilesOK, OverlayOK, SectorsOK
  <2> QED BY <2>1, <2>2, DeathSectors
<1>9. SectorsOK'
  BY <1>1, <1>6, <1>7, <1>8 DEF SectorsOK, NoAccess
<1> QED BY <1>1, <1>3, <1>5, <1>9 DEF ShapeInv

LEMMA ShapeNext ==
    ASSUME ImageInv, ShapeInv, [Next]_vars
    PROVE  ShapeInv'
<1>1. CASE Abandon
  <2>1. UNCHANGED <<files, access, d, irq, expected>> /\ driver' = Idle /\ access' = NoAccess
    BY <1>1 DEF Abandon, Running
  <2>2. DriverOK'
    BY <2>1, BecomesIdle
  <2>3. SectorsOK'
    BY <2>1, SectorsUnchanged DEF ShapeInv
  <2> QED BY <2>1, <2>2, <2>3 DEF ShapeInv, BufferOK
<1>2. CASE UNCHANGED vars
  <2>1. UNCHANGED <<files, access, d, irq, driver, expected>>
    BY <1>2 DEF vars
  <2>2. SectorsOK'
    BY <2>1, SectorsUnchanged DEF ShapeInv
  <2> QED BY <2>1, <2>2 DEF ShapeInv, BufferOK, DriverOK
<1> QED
  BY <1>1, <1>2, ImageStepShape, MoveInShape, MoveOutShape, InterruptShape, IssueShape, DieShape
  DEF Next, DriverStep

(* The controller and the driver keep to their types: the buffer is never  *)
(* full and a command never leaves the image, even when commands are       *)
(* abandoned (wdc_addtoinbuf, wdc__write).                                 *)
THEOREM TypeCorrect == Spec => []TypeOK
<1>1. Init => ImageInv /\ ShapeInv
  BY InitImage, InitShape
<1>2. ImageInv /\ ShapeInv /\ [Next]_vars => ImageInv' /\ ShapeInv'
  BY ImageNext, ShapeNext
<1>3. ImageInv /\ ShapeInv => TypeOK
  BY WdcAssumption, DiskImageAssumption
  DEF ImageInv, ShapeInv, AccessOK, ControllerOK, BufferOK, DriverOK, TypeOK
<1> QED BY <1>1, <1>2, <1>3, PTL DEF Spec

-----------------------------------------------------------------------------
(* What the driver and the controller agree on, as long as no command has  *)
(* been abandoned.                                                         *)

(* What a block will hold when the access has come to its end, and what    *)
(* the driver has asked for.                                               *)
Target(b) == IF b \in DOMAIN ToWrite THEN ToWrite[b] ELSE Contents(b)

Asked(b) ==
    IF /\ driver.command \in Writes
       /\ b \in driver.sector..driver.sector + driver.count - driver.left - 1
    THEN Sector(driver.data[b - driver.sector + 1]) ELSE expected[b]

DiskAgrees == \A b \in Blocks: Target(b) = Asked(b)

IdleAgrees ==
    driver.phase = "idle" =>
        /\ driver.command = "none" /\ d.inbuf = <<>> /\ d.write_in_progress = "no"

(* A read: the sectors that are there are the ones that were asked for, in *)
(* the driver's memory or in the buffer.                                   *)
Available ==
    IF access.kind = "read"
    THEN driver.count - access.left - d.read_count - Len(access.data) ELSE driver.count

SectorsHeld ==
    \A i \in 1..Available, j \in 1..Parts:
        (driver.done \o d.inbuf)[(i - 1) * Parts + j] = Contents(driver.sector + i - 1)[j]

(* The access goes on behind them.                                         *)
ReadingPlace ==
    access.kind = "read" =>
        /\ driver.phase = "wait"
        /\ access.left + d.read_count + Len(access.data) <= driver.count
        /\ access.block = driver.sector + driver.count - access.left - d.read_count

(* What the access has read so far: the sectors that are missing are the   *)
(* last ones, and there are as many as have been counted.                  *)
BlockHeld(i, b) ==
    /\ InFile(b) <=> i <= Len(access.data) - access.short
    /\ InFile(b) => access.data[i] = Contents(b)

ChunkHeld ==
    access.kind = "read" =>
        \A i \in 1..Len(access.data): BlockHeld(i, driver.sector + Available + i - 1)

ReadAgrees ==
    driver.phase # "idle" /\ driver.command \in Reads =>
        /\ driver.left > 0 /\ access.kind # "write" /\ d.write_in_progress = "no"
        /\ driver.parts <= Round(driver.command, driver.left)
        /\ driver.phase = "wait" => driver.parts = Round(driver.command, driver.left)
        /\ ReadingPlace
        /\ Len(driver.done) = (driver.count - driver.left) * Parts
                                + Round(driver.command, driver.left) - driver.parts
        /\ Len(driver.done) + Len(d.inbuf) = Available * Parts
        /\ MissingAtEnd => SectorsHeld /\ ChunkHeld

(* A write: the buffer holds the parts of the round so far.                *)
WriteAgrees ==
    driver.phase # "idle" /\ driver.command \in Writes =>
        /\ d.write_count = driver.left /\ access.kind # "read"
        /\ d.write_offset = driver.sector + driver.count - driver.left
        /\ d.write_in_progress = IF driver.left = 0 THEN "no" ELSE driver.command
        /\ driver.parts <= Round(driver.command, driver.left)
        /\ driver.phase = "wait" => driver.parts = Round(driver.command, driver.left)
        /\ Len(d.inbuf) = Round(driver.command, driver.left) - driver.parts
        /\ Len(driver.done) = (driver.count - driver.left) * Parts + Len(d.inbuf)
        /\ \A q \in 1..Len(d.inbuf):
               d.inbuf[q] = driver.data[driver.count - driver.left + ((q - 1) \div Parts) + 1]

Agree ==
    /\ driver.phase # "idle" => driver.command # "none"
    /\ DiskAgrees /\ IdleAgrees /\ ReadAgrees /\ WriteAgrees

AgreeInv == Abandoned \/ Agree

(* The steps of an access bring the blocks nearer to what was asked for.   *)
LEMMA PutTarget ==
    ASSUME Image!Put
    PROVE  \A b \in Blocks: Target(b)' = Target(b)
<1>1. /\ DOMAIN ToWrite' \subseteq DOMAIN ToWrite
      /\ \A b \in DOMAIN ToWrite': ToWrite'[b] = ToWrite[b]
      /\ \A b \in Blocks:
             \/ b \in DOMAIN ToWrite /\ Contents(b)' = ToWrite[b]
             \/ b \notin DOMAIN ToWrite \ DOMAIN ToWrite' /\ Contents(b)' = Contents(b)
  BY DEF Image!Put
<1> QED BY <1>1 DEF Target

(* Without an access a block holds what is read.                           *)
LEMMA NoAccessTarget ==
    ASSUME access.kind # "write"
    PROVE  \A b: Target(b) = Contents(b)
  BY DEF Target, ToWrite, NoData

LEMMA NoAccessTargetNext ==
    ASSUME access'.kind # "write"
    PROVE  \A b: Target(b)' = Contents(b)'
  BY DEF Target, ToWrite, NoData

LEMMA ConcatAssoc ==
    ASSUME NEW s, NEW t, NEW u, IsSeq(s), IsSeq(t), IsSeq(u)
    PROVE  s \o (t \o u) = (s \o t) \o u
<1> DEFINE S == {s[i]: i \in 1..Len(s)} \cup {t[i]: i \in 1..Len(t)}
                  \cup {u[i]: i \in 1..Len(u)}
<1>1. s \in Seq(S) /\ t \in Seq(S) /\ u \in Seq(S)
  BY SMTT(30) DEF IsSeq
<1> HIDE DEF S
<1> QED BY <1>1, ConcatAssociative

(* A sequence of n sectors, and one with others behind them.               *)
OfSize(s, n) == IsSeq(s) /\ Len(s) = n * Parts

Followed(s, n, t, m, u) ==
    \A j \in 1..Parts:
        /\ \A i \in 1..n: u[(i - 1) * Parts + j] = s[(i - 1) * Parts + j]
        /\ \A i \in 1..m: u[(n + i - 1) * Parts + j] = t[(i - 1) * Parts + j]

LEMMA Behind ==
    ASSUME NEW n \in Nat, NEW i \in Nat \ {0}, NEW j \in Nat
    PROVE  (n + i - 1) * Parts + j = n * Parts + ((i - 1) * Parts + j)
  BY WdcAssumption

LEMMA SectorsAppended ==
    ASSUME NEW s, NEW n \in Nat, OfSize(s, n), NEW t, NEW m \in Nat, OfSize(t, m)
    PROVE  Followed(s, n, t, m, s \o t) /\ OfSize(s \o t, n + m)
<1>1. IsSeq(s) /\ IsSeq(t) /\ Len(s) = n * Parts /\ Len(t) = m * Parts
  BY DEF OfSize
<1>2. /\ \A i \in 1..Len(s): (s \o t)[i] = s[i]
      /\ \A i \in 1..Len(t): (s \o t)[Len(s) + i] = t[i]
      /\ IsSeq(s \o t) /\ Len(s \o t) = Len(s) + Len(t)
  BY <1>1, ConcatIsSeq
<1>3. ASSUME NEW i \in 1..n, NEW j \in 1..Parts
      PROVE  (s \o t)[(i - 1) * Parts + j] = s[(i - 1) * Parts + j]
  <2>1. (i - 1) * Parts + j \in 1..n * Parts
    BY Places
  <2> QED BY <1>1, <1>2, <2>1, Zenon
<1>4. ASSUME NEW i \in 1..m, NEW j \in 1..Parts
      PROVE  (s \o t)[(n + i - 1) * Parts + j] = t[(i - 1) * Parts + j]
  <2> DEFINE k == (i - 1) * Parts + j
             x == n * Parts
             y == (n + i - 1) * Parts + j
  <2>1. k \in 1..m * Parts
    BY Places
  <2>2. y = x + k
    <3>1. i \in Nat \ {0} /\ j \in Nat
      BY WdcAssumption
    <3> QED BY <3>1, Behind
  <2> HIDE DEF k, x, y
  <2>3. (s \o t)[x + k] = t[k]
    BY <1>1, <1>2, <2>1, Zenon DEF x
  <2>4. (s \o t)[y] = t[k]
    BY <2>2, <2>3, Zenon
  <2> QED BY <2>4, Zenon DEF y, k
<1>5. (n + m) * Parts = n * Parts + m * Parts
  BY WdcAssumption
<1> QED BY <1>1, <1>2, <1>3, <1>4, <1>5, Zenon DEF OfSize, Followed

(* A command that has been given is a read or a write.                     *)
LEMMA ReadsOrWrites ==
    ASSUME DriverOK, driver.command # "none"
    PROVE  /\ driver.command \in Reads \/ driver.command \in Writes
           /\ ~(driver.command \in Reads /\ driver.command \in Writes)
  BY DEF DriverOK, Reads, Writes

(* What is read of the files does not change with anything else.           *)
LEMMA SameFiles ==
    ASSUME UNCHANGED files
    PROVE  \A b: Contents(b)' = Contents(b) /\ InFile(b)' = InFile(b)
  BY DEF files, Contents, InFile, Source, ReadFrom, Has, nr_of_overlays

LEMMA SameMissing ==
    ASSUME UNCHANGED files, driver'.sector = driver.sector, driver'.count = driver.count
    PROVE  MissingAtEnd' = MissingAtEnd
  BY SameFiles, Zenon DEF MissingAtEnd

(* Sectors go into the buffer, behind what has been read and what is in    *)
(* the buffer already.                                                     *)
LEMMA SectorsBuffered ==
    ASSUME NEW done, NEW inbuf, IsSeq(done), IsSeq(inbuf), NEW t, NEW m \in Nat, OfSize(t, m),
           NEW n \in Nat, n + m <= MaxCount, OfSize(done \o inbuf, n)
    PROVE  LET new == AddToInbuf(inbuf, t)
           IN  Followed(done \o inbuf, n, t, m, done \o new) /\ OfSize(done \o new, n + m)
<1>1. IsSeq(t) /\ Len(t) = m * Parts
  BY DEF OfSize
<1>2. Len(done \o inbuf) = Len(done) + Len(inbuf)
  BY ConcatIsSeq
<1>3. done \o (inbuf \o t) = (done \o inbuf) \o t
  BY <1>1, ConcatAssoc
<1>4. /\ Followed(done \o inbuf, n, t, m, (done \o inbuf) \o t)
      /\ OfSize((done \o inbuf) \o t, n + m)
  BY SectorsAppended
<1>5. n + m \in Nat /\ MaxCount \in Nat /\ Parts \in Nat \ {0}
  BY WdcAssumption
<1>6. (n + m) * Parts <= MaxCount * Parts
  BY <1>5, MultiplesMonotonic
<1>7. (n + m) * Parts = n * Parts + m * Parts /\ n * Parts \in Nat /\ m * Parts \in Nat
  BY WdcAssumption
<1>8. MaxCount * Parts \in Nat /\ MaxCount * Parts + Parts <= InbufSize /\ InbufSize \in Nat
  BY InbufSizeType
<1>9. Len(inbuf) + Len(t) < InbufSize
  <2> DEFINE l == Len(inbuf)
             k == Len(done)
             x == n * Parts
             w == m * Parts
             y == MaxCount * Parts
             z == (n + m) * Parts
  <2>1. /\ l \in Nat /\ k \in Nat /\ x \in Nat /\ w \in Nat /\ y \in Nat /\ k + l = x
        /\ z <= y /\ z = x + w /\ y + Parts <= InbufSize /\ InbufSize \in Nat
        /\ Parts \in Nat \ {0}
    BY <1>2, <1>5, <1>6, <1>7, <1>8 DEF IsSeq, OfSize
  <2> HIDE DEF l, k, x, w, y, z
  <2>2. l + w < InbufSize
    BY <2>1
  <2> QED BY <1>1, <2>2 DEF l, w
<1>10. AddToInbuf(inbuf, t) = inbuf \o t
  BY <1>1, <1>9, AddToInbufOK
<1> QED BY <1>3, <1>4, <1>10

(* The places of a read in the image.                                      *)
LEMMA ReadingBlocks ==
    ASSUME AccessOK, ControllerOK, DriverOK, ReadingPlace, access.kind = "read"
    PROVE  LET n == Available
               m == Len(access.data)
           IN  /\ n \in Nat /\ m \in Nat /\ access.left \in Nat /\ d.read_count \in Nat
               /\ driver.count \in Nat /\ driver.count <= MaxCount
               /\ driver.sector \in Nat /\ n + m + access.left + d.read_count = driver.count
               /\ access.block = driver.sector + n + m
               /\ \A b \in driver.sector..driver.sector + driver.count - 1: b \in Blocks
<1> DEFINE n == Available
           m == Len(access.data)
           r == d.read_count
<1>1. m \in Nat /\ access.left \in Nat /\ r \in Nat
  BY WdcAssumption DEF AccessOK, ControllerOK, IsSeq
<1>2. /\ driver.count \in Nat /\ driver.count <= MaxCount
      /\ driver.sector \in Nat /\ driver.sector + driver.count <= NBlocks
  BY WdcAssumption DEF DriverOK
<1>3. /\ n = driver.count - access.left - r - m
      /\ access.left + r + m <= driver.count
      /\ access.block = driver.sector + driver.count - access.left - r
  BY DEF Available, ReadingPlace
<1> HIDE DEF n, m, r
<1>4. /\ n \in Nat /\ n + m + access.left + r = driver.count
      /\ access.block = driver.sector + n + m
  BY <1>1, <1>2, <1>3
<1>5. \A b \in driver.sector..driver.sector + driver.count - 1: b \in Blocks
  BY <1>2, DiskImageAssumption DEF Blocks
<1> QED BY <1>1, <1>2, <1>4, <1>5 DEF n, m, r

(* A block has been read.                                                  *)
LEMMA ReadBlockAgrees ==
    ASSUME ImageInv, ShapeInv, ReadBlock, d' = d, driver' = driver, ReadAgrees,
           driver.phase # "idle", driver.command \in Reads
    PROVE  ReadAgrees'
<1>1. /\ SectorsOK /\ DriverOK /\ FilesOK /\ OneBlockEach /\ AccessOK /\ ControllerOK
      /\ ReadingOK
  BY DEF ShapeInv, ImageInv
<1> DEFINE n == Available
           m == Len(access.data)
           blocks == driver.sector..driver.sector + driver.count - 1
<1>2. /\ access.kind = "read" /\ access.left > 0
      /\ OneMore(access, access', InFile(access.block), Contents(access.block))
      /\ AccessOK'
  BY <1>1, FetchedOK
<1>3. /\ driver.left > 0 /\ d.write_in_progress = "no" /\ ReadingPlace
      /\ driver.parts <= Round(driver.command, driver.left)
      /\ driver.phase = "wait" /\ driver.parts = Round(driver.command, driver.left)
      /\ Len(driver.done) = (driver.count - driver.left) * Parts
                               + Round(driver.command, driver.left) - driver.parts
      /\ Len(driver.done) + Len(d.inbuf) = n * Parts
      /\ MissingAtEnd => SectorsHeld /\ ChunkHeld
  BY <1>2 DEF ReadAgrees, ReadingPlace
<1>4. /\ n \in Nat /\ m \in Nat /\ access.left \in Nat /\ d.read_count \in Nat
      /\ driver.count \in Nat
      /\ driver.sector \in Nat /\ n + m + access.left + d.read_count = driver.count
      /\ access.block = driver.sector + n + m
      /\ \A b \in blocks: b \in Blocks
  BY <1>1, <1>2, <1>3, ReadingBlocks
<1>5. /\ access'.kind = "read" /\ access'.block = access.block + 1
      /\ access'.left = access.left - 1 /\ Len(access'.data) = m + 1
      /\ \A i \in 1..m: access'.data[i] = access.data[i]
      /\ InFile(access.block) => /\ access'.short = access.short
                                 /\ access'.data[m + 1] = Contents(access.block)
      /\ ~InFile(access.block) => access'.short = access.short + 1
  BY <1>2 DEF OneMore
<1>6. access.short \in 0..m
  BY <1>1, <1>2 DEF AccessOK
<1>7. Available' = driver.count - access'.left - d.read_count - Len(access'.data)
  BY <1>5 DEF Available
<1> HIDE DEF n, m, blocks
<1>8. Available' = n
  <2> DEFINE r == d.read_count
             c == driver.count
             l == access.left
             l2 == access'.left
             m2 == Len(access'.data)
  <2>1. /\ n \in Nat /\ m \in Nat /\ l \in Nat /\ r \in Nat /\ c \in Nat
        /\ n + m + l + r = c /\ l2 = l - 1 /\ m2 = m + 1 /\ Available' = c - l2 - r - m2
    BY <1>4, <1>5, <1>7
  <2> HIDE DEF r, c, l, l2, m2
  <2> QED BY <2>1
<1>9. ReadingPlace'
  <2> DEFINE r == d.read_count
             c == driver.count
             l == access.left
             m2 == Len(access'.data)
  <2>1. /\ n \in Nat /\ m \in Nat /\ l \in Nat /\ r \in Nat /\ c \in Nat /\ driver.sector \in Nat
        /\ n + m + l + r = c /\ m2 = m + 1
        /\ access.block = driver.sector + n + m
    BY <1>4, <1>5
  <2> HIDE DEF r, c, l, m2
  <2>2. (l - 1) + r + m2 <= c /\ access.block + 1 = driver.sector + c - (l - 1) - r
    BY <2>1
  <2> QED BY <1>3, <1>5, <2>2 DEF ReadingPlace, r, c, l, m2
<1>10. ASSUME NEW b \in blocks
       PROVE  b \in Blocks /\ Contents(b)' = Contents(b) /\ InFile(b)' = InFile(b)
  BY <1>1, <1>4, <1>10, ReadBlockFiles, ReadBlockInFile
<1>11. MissingAtEnd' = MissingAtEnd
  BY <1>10, Zenon DEF MissingAtEnd, blocks
<1>12. ASSUME MissingAtEnd PROVE SectorsHeld'
  <2>1. ASSUME NEW i \in 1..n, NEW j \in 1..Parts
        PROVE  (driver.done \o d.inbuf)[(i - 1) * Parts + j] = Contents(driver.sector + i - 1)'[j]
    <3>1. driver.sector + i - 1 \in blocks
      BY <1>4 DEF blocks
    <3>2. (driver.done \o d.inbuf)[(i - 1) * Parts + j] = Contents(driver.sector + i - 1)[j]
      BY <1>3, <1>12, Zenon DEF SectorsHeld, n
    <3> QED BY <1>10, <3>1, <3>2, Zenon
  <2> QED BY <1>8, <2>1, Zenon DEF SectorsHeld
<1>13. ASSUME MissingAtEnd PROVE ChunkHeld'
  <2> DEFINE c == access.block
             e == access'.short
             B(i) == driver.sector + n + i - 1
  <2>1. ASSUME NEW i \in 1..m
        PROVE  /\ InFile(B(i)) <=> i <= m - access.short
               /\ InFile(B(i)) => access.data[i] = Contents(B(i))
    BY <1>2, <1>3, <1>13, Zenon DEF ChunkHeld, BlockHeld, n, m
  <2>2. /\ c \in blocks /\ c = B(m + 1)
        /\ \A i \in 1..m: B(i) \in blocks /\ B(i) < c
    BY <1>2, <1>4 DEF blocks
  <2> HIDE DEF B, c, e
  <2>3. ASSUME NEW i \in 1..m, InFile(c) PROVE InFile(B(i))
    BY <1>13, <2>2, <2>3, Zenon DEF MissingAtEnd, blocks
  <2>4. ASSUME InFile(c) PROVE access.short = 0
    <3>1. CASE m = 0
      BY <1>6, <3>1
    <3>2. CASE m # 0
      <4>1. m \in 1..m
        BY <1>4, <3>2
      <4>2. m <= m - access.short
        BY <2>1, <2>3, <2>4, <4>1
      <4> QED BY <1>4, <1>6, <4>2
    <3> QED BY <3>1, <3>2
  <2>5. ASSUME NEW i \in 1..m + 1
        PROVE  /\ InFile(B(i)) <=> i <= (m + 1) - e
               /\ InFile(B(i)) => access'.data[i] = Contents(B(i))
               /\ B(i) \in blocks
    <3>1. CASE i = m + 1
      <4>1. CASE InFile(c)
        <5>1. e = 0
          BY <1>5, <2>4, <4>1 DEF c, e
        <5>2. i <= (m + 1) - e
          BY <1>4, <3>1, <5>1
        <5> QED BY <1>5, <2>2, <3>1, <4>1, <5>2 DEF c
      <4>2. CASE ~InFile(c)
        <5>1. e = access.short + 1
          BY <1>5, <4>2 DEF c, e
        <5>2. ~(i <= (m + 1) - e)
          BY <1>4, <1>6, <3>1, <5>1
        <5> QED BY <2>2, <3>1, <4>2, <5>2
      <4> QED BY <4>1, <4>2
    <3>2. CASE i # m + 1
      <4>1. i \in 1..m
        BY <1>4, <3>2
      <4>2. /\ InFile(B(i)) => access'.data[i] = Contents(B(i))
            /\ B(i) \in blocks
        BY <1>5, <2>1, <2>2, <4>1
      <4>3. CASE InFile(c)
        <5>1. e = 0 /\ InFile(B(i))
          BY <1>5, <2>3, <2>4, <4>1, <4>3 DEF c, e
        <5>2. i <= (m + 1) - e
          BY <1>4, <4>1, <5>1
        <5> QED BY <4>2, <5>1, <5>2
      <4>4. CASE ~InFile(c)
        <5>1. e = access.short + 1
          BY <1>5, <4>4 DEF c, e
        <5> DEFINE z == access.short
        <5>2. m \in Nat /\ z \in 0..m /\ e = z + 1
          BY <1>4, <1>6, <5>1
        <5> HIDE DEF z
        <5>3. (m + 1) - e = m - z
          BY <5>2
        <5> QED BY <2>1, <4>1, <4>2, <5>3 DEF z
      <4> QED BY <4>3, <4>4
    <3> QED BY <3>1, <3>2
  <2>6. ASSUME NEW i \in 1..m + 1, NEW b, b = B(i) PROVE BlockHeld(i, b)'
    <3>1. /\ InFile(b)' <=> i <= (m + 1) - e
          /\ InFile(b)' => access'.data[i] = Contents(b)'
      BY <1>10, <2>5, <2>6
    <3> QED BY <1>5, <3>1, Zenon DEF BlockHeld, e
  <2>7. ASSUME NEW i \in 1..m + 1 PROVE BlockHeld(i, driver.sector + Available + i - 1)'
    <3>1. (driver.sector + Available + i - 1)' = B(i)
      BY <1>8 DEF B
    <3> QED BY <2>6, <3>1, Zenon
  <2> QED BY <1>5, <2>7, Zenon DEF ChunkHeld
<1>14. Len(driver.done) + Len(d.inbuf) = Available' * Parts
  BY <1>3, <1>8
<1>15. MissingAtEnd' => SectorsHeld' /\ ChunkHeld'
  BY <1>11, <1>12, <1>13, Zenon
<1> HIDE DEF ReadBlock
<1> QED BY <1>3, <1>5, <1>9, <1>14, <1>15 DEF ReadAgrees

(* A chunk goes into the buffer.                                           *)
LEMMA ChunkReadAgrees ==
    ASSUME ImageInv, ShapeInv, ChunkRead, driver' = driver, ReadAgrees,
           driver.phase # "idle", driver.command \in Reads
    PROVE  ReadAgrees'
<1>1. /\ SectorsOK /\ BufferOK /\ DriverOK /\ FilesOK /\ AccessOK /\ ControllerOK /\ ReadingOK
  BY DEF ShapeInv, ImageInv
<1> DEFINE n == Available
           m == Len(access.data)
           t == Join(ZeroFilled(access))
           r == d.read_count
<1>2. /\ UNCHANGED files /\ access.kind = "read" /\ access.left = 0
      /\ d'.inbuf = AddToInbuf(d.inbuf, t)
      /\ d'.write_in_progress = d.write_in_progress
      /\ \/ r = 0 /\ d'.read_count = 0 /\ access' = NoAccess
         \/ /\ r > 0 /\ access'.kind = "read" /\ access'.block = access.block
            /\ access'.left = Chunk(r) /\ Len(access'.data) = 0
            /\ d'.read_count = r - Chunk(r)
  BY <1>1, ChunkReadOK
<1>3. /\ driver.left > 0 /\ d.write_in_progress = "no" /\ ReadingPlace
      /\ driver.parts <= Round(driver.command, driver.left)
      /\ driver.phase = "wait" /\ driver.parts = Round(driver.command, driver.left)
      /\ Len(driver.done) = (driver.count - driver.left) * Parts
                               + Round(driver.command, driver.left) - driver.parts
      /\ Len(driver.done) + Len(d.inbuf) = n * Parts
      /\ MissingAtEnd => SectorsHeld /\ ChunkHeld
  BY <1>2 DEF ReadAgrees, ReadingPlace
<1>4. /\ n \in Nat /\ m \in Nat /\ r \in Nat
      /\ driver.count \in Nat /\ driver.count <= MaxCount
      /\ driver.sector \in Nat /\ n + m + access.left + r = driver.count
      /\ access.block = driver.sector + n + m
      /\ \A b \in driver.sector..driver.sector + driver.count - 1: b \in Blocks
  BY <1>1, <1>2, <1>3, ReadingBlocks
<1>5. /\ IsSeq(t) /\ Len(t) = m * Parts
      /\ \A i \in 1..m, j \in 1..Parts:
             t[(i - 1) * Parts + j] = (IF i > m - access.short THEN Zero ELSE access.data[i])[j]
  BY <1>1, <1>2, ChunkJoined
<1> HIDE DEF t, n, m
<1>6. n + m + r = driver.count /\ n + m <= MaxCount /\ n + m \in Nat /\ r \in 0..MaxCount
  <2> DEFINE c == driver.count
  <2>1. /\ n \in Nat /\ m \in Nat /\ r \in Nat /\ c \in Nat /\ c <= MaxCount /\ n + m + 0 + r = c
    BY <1>2, <1>4
  <2> HIDE DEF c, r
  <2>2. n + m + r = c /\ n + m <= MaxCount /\ n + m \in Nat /\ r \in 0..MaxCount
    BY <2>1, WdcAssumption
  <2> QED BY <2>2 DEF c
<1>7. /\ Available' = n + m /\ ReadingPlace' /\ ChunkHeld' /\ access'.kind # "write"
  <2>1. CASE r = 0 /\ d'.read_count = 0 /\ access' = NoAccess
    <3>1. access'.kind = "none"
      BY <2>1 DEF NoAccess
    <3>2. n + m = driver.count
      BY <1>4, <1>6, <2>1
    <3> QED BY <3>1, <3>2 DEF Available, ReadingPlace, ChunkHeld
  <2>2. CASE /\ r > 0 /\ access'.kind = "read" /\ access'.block = access.block
             /\ access'.left = Chunk(r) /\ Len(access'.data) = 0
             /\ d'.read_count = r - Chunk(r)
    <3> DEFINE k == Chunk(r)
    <3> HIDE DEF r
    <3>1. k \in 0..r
      BY <1>6, ChunkType
    <3> HIDE DEF k
    <3> DEFINE c == driver.count
               l2 == access'.left
               r2 == d'.read_count
               m2 == Len(access'.data)
    <3>2. /\ n \in Nat /\ m \in Nat /\ r \in Nat /\ c \in Nat /\ n + m + r = c
          /\ l2 = k /\ m2 = 0 /\ r2 = r - k /\ k \in 0..r
          /\ access.block = driver.sector + n + m /\ driver.sector \in Nat
      BY <1>4, <1>6, <2>2, <3>1 DEF k
    <3> HIDE DEF c, l2, r2, m2
    <3>3. /\ c - l2 - r2 - m2 = n + m /\ l2 + r2 + m2 <= c
          /\ access.block = driver.sector + c - l2 - r2
      BY <3>2
    <3>4. Available' = n + m
      BY <2>2, <3>3 DEF Available, c, l2, r2, m2
    <3>5. ReadingPlace'
      BY <1>3, <2>2, <3>3 DEF ReadingPlace, c, l2, r2, m2
    <3>6. ChunkHeld'
      BY <2>2 DEF ChunkHeld
    <3> QED BY <2>2, <3>4, <3>5, <3>6
  <2> QED BY <1>2, <2>1, <2>2
<1>8. IsSeq(driver.done) /\ IsSeq(d.inbuf)
  BY <1>1 DEF DriverOK, BufferOK
<1>9. OfSize(driver.done \o d.inbuf, n) /\ OfSize(t, m)
  <2>1. IsSeq(driver.done \o d.inbuf)
        /\ Len(driver.done \o d.inbuf) = Len(driver.done) + Len(d.inbuf)
    BY <1>8, ConcatIsSeq
  <2> QED BY <1>3, <1>5, <2>1, Zenon DEF OfSize
<1>10. /\ Followed(driver.done \o d.inbuf, n, t, m, driver.done \o d'.inbuf)
       /\ OfSize(driver.done \o d'.inbuf, n + m)
  BY <1>2, <1>4, <1>6, <1>8, <1>9, SectorsBuffered
<1>11. Len(driver.done) + Len(d'.inbuf) = Available' * Parts
  <2>1. IsSeq(d'.inbuf)
    BY <1>2, <1>5, <1>8, AddToInbufOK
  <2>2. Len(driver.done \o d'.inbuf) = Len(driver.done) + Len(d'.inbuf)
    BY <1>8, <2>1, ConcatIsSeq
  <2> QED BY <1>7, <1>10, <2>2 DEF OfSize
<1>12. /\ \A b: Contents(b)' = Contents(b)
       /\ MissingAtEnd' = MissingAtEnd
  BY <1>2, SameFiles, SameMissing
<1>13. ASSUME MissingAtEnd, NEW i \in 1..n + m, NEW j \in 1..Parts
       PROVE  (driver.done \o d'.inbuf)[(i - 1) * Parts + j] = Contents(driver.sector + i - 1)[j]
  <2>1. CASE i \in 1..n
    <3>1. (driver.done \o d.inbuf)[(i - 1) * Parts + j] = Contents(driver.sector + i - 1)[j]
      BY <1>3, <1>13, <2>1, Zenon DEF SectorsHeld, n
    <3> QED BY <1>10, <2>1, <3>1, Zenon DEF Followed
  <2>2. CASE i \notin 1..n
    <3> DEFINE k == i - n
               b == driver.sector + n + k - 1
    <3>1. k \in 1..m /\ n + k - 1 = i - 1 /\ b = driver.sector + i - 1 /\ b \in Blocks
      BY <1>4, <1>6, <2>2
    <3> HIDE DEF k
    <3>2. (driver.done \o d'.inbuf)[(n + k - 1) * Parts + j] = t[(k - 1) * Parts + j]
      BY <1>10, <3>1, Zenon DEF Followed
    <3>3. /\ InFile(b) <=> k <= m - access.short
          /\ InFile(b) => access.data[k] = Contents(b)
      BY <1>2, <1>3, <1>13, <3>1, Zenon DEF ChunkHeld, BlockHeld, n, m
    <3> HIDE DEF b
    <3>4. ~InFile(b) => Contents(b) = Zero
      BY <1>1, <3>1, ContentsSector
    <3>5. access.short \in 0..m
      BY <1>1, <1>2 DEF AccessOK, m
    <3>6. k > m - access.short <=> ~(k <= m - access.short)
      BY <1>4, <3>1, <3>5
    <3>7. Contents(b) = IF k > m - access.short THEN Zero ELSE access.data[k]
      BY <3>3, <3>4, <3>6, Zenon
    <3>8. t[(k - 1) * Parts + j] = Contents(b)[j]
      BY <1>5, <3>1, <3>7, Zenon
    <3> QED BY <3>1, <3>2, <3>8, Zenon
  <2> QED BY <2>1, <2>2
<1>14. ASSUME MissingAtEnd PROVE SectorsHeld'
  BY <1>7, <1>12, <1>13, <1>14, Zenon DEF SectorsHeld
<1>15. MissingAtEnd' => SectorsHeld' /\ ChunkHeld'
  BY <1>7, <1>12, <1>14, Zenon
<1>16. d'.write_in_progress = "no"
  BY <1>2, <1>3
<1> HIDE DEF ChunkRead
<1> QED BY <1>3, <1>7, <1>11, <1>15, <1>16 DEF ReadAgrees

(* One step of diskimage_access().                                         *)
LEMMA ImageStepAgrees ==
    ASSUME ImageInv, ShapeInv, Agree, ImageStep
    PROVE  Agree'
<1>1. /\ driver' = driver /\ expected' = expected
      /\ (ReadBlock /\ d' = d) \/ ChunkRead \/ ((WriteBase \/ WriteData \/ MarkBlock) /\ d' = d)
  BY DEF ImageStep
<1>2. DriverOK /\ AccessOK
  BY DEF ImageInv, ShapeInv
<1>3. access.kind # "none" /\ driver.phase # "idle" /\ driver.command # "none"
  <2>1. access.kind # "none"
    BY <1>1 DEF ReadBlock, WriteBase, WriteData, MarkBlock, ChunkRead
  <2> QED BY <1>2, <2>1 DEF DriverOK, NoAccess, Agree
<1>4. DiskAgrees'
  <2>1. \A b \in Blocks: Target(b)' = Target(b)
    BY ImageStepPut, PutTarget
  <2>2. \A b: Asked(b)' = Asked(b)
    BY <1>1 DEF Asked
  <2> QED BY <2>1, <2>2 DEF DiskAgrees, Agree
<1>5. CASE (ReadBlock /\ d' = d) \/ ChunkRead
  <2>1. driver.command \in Reads /\ driver.command \notin Writes
    BY <1>2, <1>3, <1>5, ReadsOrWrites DEF ReadBlock, ChunkRead, WriteAgrees, Agree
  <2>2. ReadAgrees'
    BY <1>1, <1>3, <1>5, <2>1, ReadBlockAgrees, ChunkReadAgrees DEF Agree
  <2> QED BY <1>1, <1>3, <1>4, <2>1, <2>2 DEF Agree, IdleAgrees, WriteAgrees
<1>6. CASE (WriteBase \/ WriteData \/ MarkBlock) /\ d' = d
  <2>1. access.kind = "write"
    BY <1>6 DEF WriteBase, WriteData, MarkBlock
  <2>2. driver.command \in Writes /\ driver.command \notin Reads
    BY <1>2, <1>3, <2>1, ReadsOrWrites DEF ReadAgrees, Agree
  <2>3. access'.kind # "read"
    <3>1. \/ access' = NoAccess \/ access' = [access EXCEPT !.step = "bitmap"]
          \/ access.left # 1 /\ access' = NextBlock(access)
      BY <1>6 DEF WriteBase, WriteData, MarkBlock, NextBlock
    <3>2. CASE access' = NoAccess
      BY <3>2 DEF NoAccess
    <3>3. CASE access' = [access EXCEPT !.step = "bitmap"]
      BY <1>2, <2>1, <3>3 DEF AccessOK
    <3>4. CASE access.left # 1 /\ access' = NextBlock(access)
      BY <1>2, <2>1, <3>4 DEF NextBlock, AccessOK
    <3> QED BY <3>1, <3>2, <3>3, <3>4
  <2>4. WriteAgrees'
    BY <1>1, <1>6, <2>3 DEF Agree, WriteAgrees
  <2> QED BY <1>1, <1>3, <1>4, <2>2, <2>4 DEF Agree, IdleAgrees, ReadAgrees
<1> QED BY <1>1, <1>5, <1>6

(* The driver has no command.                                              *)
LEMMA IdleStates ==
    ASSUME driver' = Idle
    PROVE  /\ driver'.phase = "idle" /\ driver'.command = "none"
           /\ \A b: Asked(b)' = expected'[b]
  BY IdleRecord DEF Asked, Writes

(* The driver goes idle, or stays it.                                      *)
LEMMA IdleAgree ==
    ASSUME driver' = Idle, d'.inbuf = <<>>, d'.write_in_progress = "no", access'.kind # "write",
           \A b \in Blocks: Contents(b)' = expected'[b]
    PROVE  Agree'
<1>1. /\ driver'.phase = "idle" /\ driver'.command = "none"
      /\ \A b: Asked(b)' = expected'[b]
  BY IdleStates
<1>2. DiskAgrees'
  BY <1>1, NoAccessTargetNext DEF DiskAgrees
<1> QED BY <1>1, <1>2 DEF Agree, IdleAgrees, ReadAgrees, WriteAgrees

LEMMA DieAgrees ==
    ASSUME DieAndRestart
    PROVE  Agree'
<1>1. /\ driver' = Idle /\ d'.inbuf = <<>> /\ d'.write_in_progress = "no"
      /\ access'.kind # "write"
  BY DEF DieAndRestart, Die, Controller, NoAccess
<1>2. \A b \in Blocks: Contents(b)' = expected'[b]
  BY DEF DieAndRestart
<1> QED BY <1>1, <1>2, IdleAgree

LEMMA InitAgrees ==
    ASSUME Init
    PROVE  AgreeInv
<1>1. driver = Idle /\ d = Controller /\ access = NoAccess
  BY DEF Init, InitFiles, Started
<1>2. driver.phase = "idle" /\ driver.command = "none"
  BY <1>1, IdleRecord
<1>3. d.inbuf = <<>> /\ d.write_in_progress = "no" /\ access.kind # "write"
  BY <1>1 DEF Controller, NoAccess
<1>4. DiskAgrees
  BY <1>2, <1>3, NoAccessTarget DEF DiskAgrees, Asked, Writes, Init
<1> QED BY <1>2, <1>3, <1>4 DEF AgreeInv, Agree, IdleAgrees, ReadAgrees, WriteAgrees

(* The status register is read.                                            *)
LEMMA InterruptAgrees ==
    ASSUME ImageInv, ShapeInv, Agree, Interrupted
    PROVE  Agree'
<1>1. /\ access = NoAccess /\ access' = access /\ UNCHANGED files /\ driver.phase = "wait"
      /\ driver' = IF driver.left = 0 THEN Idle ELSE [driver EXCEPT !.phase = "move"]
      /\ expected' = [b \in Blocks |-> Asked(b)] /\ ReadStatus
  BY DEF Interrupted, Running, Asked
<1>2. BufferOK /\ DriverOK /\ ControllerOK
  BY DEF ShapeInv, ImageInv
<1>3. /\ d'.inbuf = d.inbuf /\ d'.write_in_progress = d.write_in_progress
      /\ d'.write_count = d.write_count /\ d'.write_offset = d.write_offset
  BY <1>1, <1>2 DEF ReadStatus, ControllerOK
<1>4. access.kind = "none" /\ access'.kind = "none"
  BY <1>1 DEF NoAccess
<1>5. \A b \in Blocks: Contents(b)' = Asked(b) /\ Contents(b)' = Contents(b)
  BY <1>1, <1>4, SameFiles, NoAccessTarget DEF Agree, DiskAgrees
<1>6. driver.command # "none"
  BY <1>1 DEF Agree
<1>7. CASE driver.left = 0
  <2>1. driver.command \in Writes
    BY <1>1, <1>2, <1>6, <1>7, ReadsOrWrites DEF Agree, ReadAgrees
  <2>2. Len(d.inbuf) = 0 /\ d.write_in_progress = "no"
    <3>1. /\ driver.parts = Round(driver.command, driver.left) /\ d.write_in_progress = "no"
          /\ Len(d.inbuf) = Round(driver.command, driver.left) - driver.parts
      BY <1>1, <1>7, <2>1 DEF Agree, WriteAgrees
    <3> QED BY <1>2, <3>1 DEF DriverOK
  <2>3. d.inbuf = <<>>
    BY <1>2, <2>2 DEF BufferOK, IsSeq
  <2>4. driver' = Idle /\ \A b \in Blocks: Contents(b)' = expected'[b]
    BY <1>1, <1>5, <1>7
  <2> QED BY <1>3, <1>4, <2>2, <2>3, <2>4, IdleAgree
<1>8. CASE driver.left # 0
  <2>1. DriverRecord(driver) /\ driver' = [driver EXCEPT !.phase = "move"]
    BY <1>1, <1>2, <1>8 DEF DriverOK
  <2>2. /\ driver'.phase = "move" /\ driver'.command = driver.command
        /\ driver'.sector = driver.sector /\ driver'.count = driver.count
        /\ driver'.left = driver.left /\ driver'.parts = driver.parts
        /\ driver'.data = driver.data /\ driver'.done = driver.done
    BY <2>1 DEF DriverRecord
  <2>3. DiskAgrees'
    <3>1. \A b \in Blocks: Asked(b)' = Asked(b)
      BY <1>1, <2>2 DEF Asked
    <3> QED BY <1>4, <1>5, <3>1, NoAccessTargetNext DEF DiskAgrees
  <2>4. Available' = Available
    BY <1>4, <2>2 DEF Available
  <2>5. (\A b: Contents(b)' = Contents(b)) /\ MissingAtEnd' = MissingAtEnd
    BY <1>1, <2>2, SameFiles, SameMissing
  <2>6. SectorsHeld' = SectorsHeld /\ ReadingPlace' /\ ChunkHeld'
    BY ZenonT(60), <1>3, <1>4, <2>2, <2>4, <2>5 DEF SectorsHeld, ReadingPlace, ChunkHeld
  <2>7. ReadAgrees'
    BY <1>1, <1>3, <1>4, <2>2, <2>4, <2>5, <2>6 DEF Agree, ReadAgrees
  <2>8. WriteAgrees'
    BY <1>1, <1>3, <1>4, <2>2 DEF Agree, WriteAgrees
  <2> QED BY <1>6, <2>2, <2>3, <2>7, <2>8 DEF Agree, IdleAgrees
<1> QED BY <1>7, <1>8

(* A command has been given.                                               *)
LEMMA IssueAgrees ==
    ASSUME ImageInv, ShapeInv, Agree, NEW command \in Reads \cup Writes, NEW b \in Blocks,
           NEW seccnt \in 0..MaxCount - 1, NEW data, Issue(command, b, seccnt, data)
    PROVE  Agree'
<1> DEFINE n == Count(seccnt)
           parts == Round(command, n)
           phase == IF command \in Reads THEN "wait" ELSE "move"
<1>1. n \in 1..MaxCount /\ n \in Nat /\ n > 0 /\ b \in Nat
  BY WdcAssumption, DiskImageAssumption DEF Count, Blocks
<1>2. parts \in Nat
  BY <1>1, RoundSectors
<1>3. /\ access = NoAccess /\ driver.phase = "idle" /\ UNCHANGED files /\ expected' = expected
      /\ IF command \in Reads THEN CommandRead(b, n) ELSE CommandWrite(command, b, n)
  BY DEF Issue, Running
<1> HIDE DEF n, parts, phase
<1>4. driver' = [Idle EXCEPT !.phase = phase, !.command = command, !.sector = b,
                             !.count = n, !.left = n, !.parts = parts, !.data = data]
  BY DEF Issue, n, parts, phase
<1>5. /\ driver'.phase = phase /\ driver'.command = command
      /\ driver'.sector = b /\ driver'.count = n /\ driver'.left = n
      /\ driver'.parts = parts /\ driver'.done = <<>>
  BY <1>4 DEF Idle
<1>6. /\ driver.command = "none" /\ d.inbuf = <<>> /\ d.write_in_progress = "no"
  BY <1>3 DEF Agree, IdleAgrees
<1>7. access.kind = "none" /\ ControllerOK
  BY <1>3 DEF NoAccess, ImageInv
<1>8. command # "none" /\ phase # "idle" /\ Len(<<>>) = 0 /\ ~(command \in Reads /\ command \in Writes)
  BY DEF Reads, Writes, phase
<1>9. \A c \in Blocks: Contents(c)' = expected[c]
  <2>1. \A c \in Blocks: Asked(c) = expected[c]
    BY <1>6 DEF Asked, Writes
  <2> QED BY <1>3, <1>7, <2>1, SameFiles, NoAccessTarget DEF Agree, DiskAgrees
<1>10. \A c: Asked(c)' = expected[c]
  BY <1>1, <1>3, <1>5 DEF Asked
<1>11. CASE command \in Reads
  <2> DEFINE k == Chunk(n)
             r == n - k
  <2>1. k \in 0..n /\ r \in 0..MaxCount
    BY <1>1, ChunkType, WdcAssumption
  <2>2. access' = [NoAccess EXCEPT !.kind = "read", !.block = b, !.left = k]
        /\ d' = [d EXCEPT !.read_count = r]
    BY <1>3, <1>11 DEF CommandRead, Read
  <2> HIDE DEF k, r
  <2>3. access'.kind = "read" /\ access'.block = b /\ access'.left = k /\ access'.data = <<>>
    BY <2>2 DEF NoAccess
  <2>4. d'.inbuf = d.inbuf /\ d'.write_in_progress = d.write_in_progress /\ d'.read_count = r
    BY <1>7, <2>2 DEF ControllerOK
  <2>5. DiskAgrees'
    BY <1>9, <1>10, <2>3, NoAccessTargetNext DEF DiskAgrees
  <2>6. k + r + 0 = n /\ k \in Nat /\ r \in Nat /\ n - k - r - 0 = 0 /\ b = b + n - k - r
    BY <1>1, <2>1 DEF r
  <2>7. Available' = 0
    BY <1>5, <1>8, <2>3, <2>4, <2>6 DEF Available
  <2>8. ReadingPlace' /\ ChunkHeld' /\ SectorsHeld'
    <3>1. k + r + 0 <= n
      BY <1>1, <2>6
    <3>2. ReadingPlace'
      BY <1>5, <1>8, <1>11, <2>3, <2>4, <2>6, <3>1 DEF ReadingPlace, phase
    <3>3. ChunkHeld'
      BY <1>8, <2>3 DEF ChunkHeld
    <3>4. SectorsHeld'
      BY <2>7 DEF SectorsHeld
    <3> QED BY <3>2, <3>3, <3>4
  <2>9. ReadAgrees'
    <3>1. 0 * Parts = 0 /\ n - n = 0
      BY <1>1, WdcAssumption
    <3>2. /\ driver'.left > 0 /\ access'.kind # "write" /\ d'.write_in_progress = "no"
          /\ driver'.parts = Round(driver'.command, driver'.left) /\ driver'.parts \in Nat
      BY <1>1, <1>2, <1>5, <1>6, <1>11, <2>3, <2>4 DEF parts
    <3>3. Len(driver'.done) = (driver'.count - driver'.left) * Parts
                               + Round(driver'.command, driver'.left) - driver'.parts
      BY <1>2, <1>5, <1>8, <3>1, <3>2
    <3>4. Len(driver'.done) + Len(d'.inbuf) = Available' * Parts
      BY <1>5, <1>6, <1>8, <2>4, <2>7, <3>1
    <3>5. driver'.parts <= Round(driver'.command, driver'.left)
      BY <3>2
    <3> QED BY <2>8, <3>2, <3>3, <3>4, <3>5 DEF ReadAgrees
  <2> QED BY <1>5, <1>8, <1>11, <2>5, <2>9 DEF Agree, IdleAgrees, WriteAgrees
<1>12. CASE command \in Writes
  <2> DEFINE e == [d EXCEPT !.write_in_progress = command, !.write_count = n, !.write_offset = b]
  <2>1. access' = access /\ d' = e
    BY <1>3, <1>8, <1>12 DEF CommandWrite, SetDevice
  <2>2. /\ d'.inbuf = d.inbuf /\ d'.write_in_progress = command /\ d'.write_count = n
        /\ d'.write_offset = b
    BY <1>7, <2>1 DEF ControllerOK
  <2> HIDE DEF e
  <2>3. DiskAgrees'
    BY <1>7, <1>9, <1>10, <2>1, NoAccessTargetNext DEF DiskAgrees
  <2>4. WriteAgrees'
    <3>1. 0 * Parts = 0 /\ n - n = 0
      BY <1>1, WdcAssumption
    <3>2. /\ d'.write_count = driver'.left /\ access'.kind # "read"
          /\ d'.write_offset = driver'.sector + driver'.count - driver'.left
          /\ d'.write_in_progress = IF driver'.left = 0 THEN "no" ELSE driver'.command
          /\ driver'.parts = Round(driver'.command, driver'.left) /\ driver'.parts \in Nat
      BY <1>1, <1>2, <1>5, <1>7, <2>1, <2>2 DEF parts
    <3>3. Len(d'.inbuf) = 0 /\ Len(driver'.done) = 0
      BY <1>5, <1>6, <1>8, <2>2
    <3>4. /\ Len(d'.inbuf) = Round(driver'.command, driver'.left) - driver'.parts
          /\ Len(driver'.done) = (driver'.count - driver'.left) * Parts + Len(d'.inbuf)
      BY <1>5, <3>1, <3>2, <3>3
    <3> QED BY <3>2, <3>3, <3>4 DEF WriteAgrees
  <2> QED BY <1>5, <1>8, <1>12, <2>3, <2>4 DEF Agree, IdleAgrees, ReadAgrees
<1> QED BY <1>11, <1>12

(* Sectors that have been read or written are counted in parts.            *)
LEMMA Counting ==
    ASSUME NEW count \in Nat, NEW left \in 0..count, NEW n \in 0..left
    PROVE  /\ (count - left) * Parts \in Nat
           /\ (count - (left - n)) * Parts = (count - left) * Parts + n * Parts
           /\ count * Parts = (count - left) * Parts + left * Parts
  BY WdcAssumption

(* A part is read from the data register.                                  *)
LEMMA MoveInAgrees ==
    ASSUME ImageInv, ShapeInv, Agree, MoveIn
    PROVE  Agree'
<1>1. /\ access = NoAccess /\ access' = access /\ driver.phase = "move" /\ d.inbuf # <<>>
      /\ driver.command \in Reads /\ UNCHANGED files /\ expected' = expected /\ ReadPart
      /\ driver' = Moved([driver EXCEPT !.done = Append(@, Head(d.inbuf))])
  BY DEF MoveIn, Running
<1>2. BufferOK /\ DriverOK /\ ControllerOK
  BY DEF ShapeInv, ImageInv
<1> DEFINE n == Sectors(driver.command, driver.left)
           done == driver.done
           inbuf == d.inbuf
           v == Head(inbuf)
           R == Round(driver.command, driver.left)
<1>3. /\ driver.left \in Nat \ {0} /\ driver.parts \in Nat \ {0} /\ n \in 1..driver.left
      /\ \/ /\ driver.parts = 1 /\ driver.left = n /\ driver' = Idle
         \/ /\ driver'.command = driver.command
            /\ driver'.sector = driver.sector /\ driver'.count = driver.count
            /\ driver'.done = Append(done, v)
            /\ \/ /\ driver.parts > 1 /\ driver'.phase = "move"
                  /\ driver'.left = driver.left /\ driver'.parts = driver.parts - 1
               \/ /\ driver.parts = 1 /\ driver'.phase = "wait"
                  /\ driver'.left = driver.left - n
                  /\ driver'.parts = Round(driver.command, driver.left - n)
                  /\ driver.left # n
  BY <1>1, <1>2, MovedDriver
<1>4. d'.inbuf = Tail(inbuf) /\ d'.write_in_progress = d.write_in_progress
  BY <1>1, <1>2 DEF ReadPart, SetDevice, ControllerOK
<1>5. access.kind = "none" /\ access'.kind = "none"
  BY <1>1 DEF NoAccess
<1>6. /\ driver.left > 0 /\ d.write_in_progress = "no" /\ driver.parts <= R
      /\ Len(done) = (driver.count - driver.left) * Parts + R - driver.parts
      /\ Len(done) + Len(inbuf) = driver.count * Parts
      /\ Available = driver.count /\ (MissingAtEnd => SectorsHeld)
  BY <1>1, <1>5 DEF Agree, ReadAgrees, Available
<1>7. /\ IsSeq(done) /\ IsSeq(inbuf) /\ Len(done) \in Nat /\ Len(inbuf) \in Nat /\ Len(inbuf) > 0
      /\ driver.count \in Nat /\ driver.left \in 0..driver.count
  <2>1. IsSeq(done) /\ IsSeq(inbuf)
    BY <1>2 DEF DriverOK, BufferOK
  <2>2. Len(done) \in Nat /\ Len(inbuf) \in Nat /\ Len(inbuf) > 0
    BY <1>1, <2>1 DEF IsSeq
  <2>3. driver.count \in Nat /\ driver.left \in 0..driver.count
    BY <1>2, WdcAssumption DEF DriverOK
  <2> QED BY <2>1, <2>2, <2>3
<1> HIDE DEF done, inbuf
<1>8. /\ IsSeq(Append(done, v)) /\ Len(Append(done, v)) = Len(done) + 1
  BY <1>7, AppendIsSeq
<1>9. /\ IsSeq(Tail(inbuf)) /\ Len(Tail(inbuf)) = Len(inbuf) - 1
      /\ Append(done, v) \o Tail(inbuf) = done \o inbuf
  BY <1>7, TailIsSeq, MoveElement
<1>10. R = n * Parts /\ R \in Nat /\ n \in Nat
  BY <1>3, RoundSectors
<1>11. /\ (driver.count - driver.left) * Parts \in Nat
       /\ (driver.count - (driver.left - n)) * Parts = (driver.count - driver.left) * Parts + n * Parts
       /\ driver.count * Parts = (driver.count - driver.left) * Parts + driver.left * Parts
  <2>1. driver.count \in Nat /\ driver.left \in 0..driver.count /\ n \in 0..driver.left
    BY <1>3, <1>7, <1>10
  <2> HIDE DEF n
  <2> QED BY <2>1, Counting
<1>12. \A c \in Blocks: Contents(c)' = expected'[c] /\ Contents(c)' = Contents(c)
  <2>1. \A c \in Blocks: Asked(c) = expected[c]
    BY <1>1 DEF Asked, Reads, Writes
  <2> QED BY <1>1, <1>5, <2>1, SameFiles, NoAccessTarget DEF Agree, DiskAgrees
<1> DEFINE m == Len(done)
           l == Len(inbuf)
           x == (driver.count - driver.left) * Parts
           y == driver.count * Parts
<1>13. /\ m \in Nat /\ l \in Nat /\ x \in Nat /\ m = x + R - driver.parts /\ m + l = y
       /\ driver.left = n => y = x + R
       /\ (driver.count - (driver.left - n)) * Parts = x + R
  BY <1>6, <1>7, <1>10, <1>11
<1>14. CASE driver.parts = 1 /\ driver.left = n /\ driver' = Idle
  <2>1. Len(Tail(inbuf)) = 0
    <3> HIDE DEF m, l, x, y, R, n
    <3>1. l = 1
      BY <1>10, <1>13, <1>14
    <3> QED BY <1>9, <3>1 DEF l
  <2>2. d'.inbuf = <<>>
    BY <1>4, <1>9, <2>1 DEF IsSeq
  <2> QED BY <1>4, <1>5, <1>6, <1>12, <1>14, <2>2, IdleAgree
<1>15. CASE /\ driver'.command = driver.command
            /\ driver'.sector = driver.sector /\ driver'.count = driver.count
            /\ driver'.done = Append(done, v)
            /\ \/ /\ driver.parts > 1 /\ driver'.phase = "move"
                  /\ driver'.left = driver.left /\ driver'.parts = driver.parts - 1
               \/ /\ driver.parts = 1 /\ driver'.phase = "wait"
                  /\ driver'.left = driver.left - n
                  /\ driver'.parts = Round(driver.command, driver.left - n)
                  /\ driver.left # n
  <2>1. DiskAgrees'
    <3>1. \A c: Asked(c)' = expected'[c]
      BY <1>1, <1>15 DEF Asked, Reads, Writes
    <3> QED BY <1>5, <1>12, <3>1, NoAccessTargetNext DEF DiskAgrees
  <2>2. Available' = driver.count
    BY <1>5, <1>15 DEF Available
  <2>3. Len(driver'.done) + Len(d'.inbuf) = driver.count * Parts
    <3>1. Len(driver'.done) = m + 1 /\ Len(d'.inbuf) = l - 1
      BY <1>4, <1>8, <1>9, <1>15
    <3> HIDE DEF m, l, x, y
    <3> QED BY <1>13, <3>1 DEF y
  <2>4. MissingAtEnd' => SectorsHeld' /\ ChunkHeld'
    <3>1. driver'.done \o d'.inbuf = driver.done \o d.inbuf
      BY <1>4, <1>9, <1>15 DEF done, inbuf
    <3>2. (\A c: Contents(c)' = Contents(c)) /\ MissingAtEnd' = MissingAtEnd
      BY <1>1, <1>15, SameFiles, SameMissing
    <3>3. driver'.sector = driver.sector /\ Available' = Available
      BY <1>6, <1>15, <2>2
    <3>4. SectorsHeld' = SectorsHeld
      BY <3>1, <3>2, <3>3, ZenonT(60) DEF SectorsHeld
    <3>5. ChunkHeld'
      BY <1>5 DEF ChunkHeld
    <3> QED BY <1>6, <3>2, <3>4, <3>5, Zenon
  <2>5. /\ driver'.left > 0 /\ driver'.parts <= Round(driver.command, driver'.left)
        /\ driver'.phase = "wait" => driver'.parts = Round(driver.command, driver'.left)
        /\ Len(driver'.done) = (driver.count - driver'.left) * Parts
                                 + Round(driver.command, driver'.left) - driver'.parts
    <3>1. Len(driver'.done) = m + 1
      BY <1>8, <1>15
    <3>2. CASE /\ driver.parts > 1 /\ driver'.phase = "move"
               /\ driver'.left = driver.left /\ driver'.parts = driver.parts - 1
      <4>1. m + 1 = x + R - (driver.parts - 1) /\ driver.parts - 1 <= R
        <5> DEFINE p == driver.parts
        <5>1. m = x + R - p /\ p \in Nat /\ p <= R /\ R \in Nat /\ x \in Nat
          BY <1>3, <1>6, <1>10, <1>13
        <5> HIDE DEF m, x, R, p
        <5>2. m + 1 = x + R - (p - 1) /\ p - 1 <= R
          BY <5>1
        <5> QED BY <5>2 DEF p
      <4> QED BY <1>3, <3>1, <3>2, <4>1
    <3>3. CASE /\ driver.parts = 1 /\ driver'.phase = "wait"
               /\ driver'.left = driver.left - n
               /\ driver'.parts = Round(driver.command, driver.left - n)
               /\ driver.left # n
      <4> DEFINE S == Round(driver.command, driver.left - n)
      <4>1. driver.left - n \in Nat /\ driver.left - n > 0
        BY <1>3, <3>3
      <4>2. S \in Nat
        BY <4>1, RoundSectors
      <4>3. m + 1 = (driver.count - (driver.left - n)) * Parts
        <5> DEFINE z == (driver.count - (driver.left - n)) * Parts
        <5>1. z = x + R
          BY <1>13
        <5> HIDE DEF m, l, x, y, R, z
        <5>2. m + 1 = z
          BY <1>10, <1>13, <3>3, <5>1
        <5> QED BY <5>2 DEF z
      <4> HIDE DEF n, S
      <4>4. /\ driver'.left > 0 /\ driver'.parts = S /\ S <= S
            /\ Len(driver'.done) = (driver.count - driver'.left) * Parts
        BY <3>1, <3>3, <4>1, <4>2, <4>3 DEF S
      <4>5. driver'.left = driver.left - n /\ (driver.count - driver'.left) * Parts \in Nat
        BY <3>3, <4>4, <3>1, <1>13
      <4> DEFINE w == (driver.count - driver'.left) * Parts
      <4>6. w \in Nat /\ Len(driver'.done) = w /\ driver'.parts = S
        BY <4>4, <4>5
      <4> HIDE DEF w
      <4>7. Len(driver'.done) = w + S - driver'.parts /\ driver'.parts <= S
        BY <4>2, <4>6
      <4> QED BY <4>4, <4>5, <4>7 DEF w, S
    <3> QED BY <1>15, <3>2, <3>3
  <2>6. driver'.phase # "idle" /\ driver.command # "none" /\ driver.command \notin Writes
    BY <1>1, <1>15 DEF Reads, Writes
  <2>7. ReadAgrees'
    <3>1. ReadingPlace'
      BY <1>5 DEF ReadingPlace
    <3> QED BY <1>4, <1>5, <1>6, <1>15, <2>2, <2>3, <2>4, <2>5, <3>1 DEF ReadAgrees
  <2> QED BY <1>15, <2>1, <2>6, <2>7 DEF Agree, IdleAgrees, WriteAgrees
<1> QED BY <1>3, <1>14, <1>15

(* A round fits into the buffer.                                           *)
LEMMA RoundFits ==
    ASSUME NEW command, NEW left \in 1..MaxCount
    PROVE  Round(command, left) \in Nat \ {0} /\ Round(command, left) < InbufSize
<1> DEFINE n == Sectors(command, left)
<1>1. left \in Nat /\ left > 0 /\ MaxCount \in Nat
  BY WdcAssumption
<1>2. Round(command, left) = n * Parts /\ Round(command, left) \in Nat /\ n \in 1..left
      /\ Round(command, left) > 0
  BY <1>1, RoundSectors
<1> HIDE DEF n
<1>3. n \in Nat /\ n <= MaxCount
  BY <1>1, <1>2
<1>4. n * Parts <= MaxCount * Parts
  BY <1>1, <1>3, MultiplesMonotonic
<1> DEFINE x == n * Parts
           y == MaxCount * Parts
<1>5. x <= y /\ y \in Nat /\ y + Parts <= InbufSize /\ InbufSize \in Nat /\ Parts \in Nat \ {0}
      /\ Round(command, left) = x
  BY <1>2, <1>4, InbufSizeType, WdcAssumption
<1> HIDE DEF x, y
<1> QED BY <1>2, <1>5

(* The sectors leave the buffer when the round is complete.                *)
LEMMA DueSectors ==
    ASSUME NEW dd, NEW command \in Writes, NEW left \in 1..MaxCount,
           dd.write_in_progress = command, dd.write_count = left,
           Len(dd.inbuf) \in 1..Round(command, left)
    PROVE  SectorsDue(dd) =
               IF Len(dd.inbuf) = Round(command, left) THEN Sectors(command, left) ELSE 0
<1> DEFINE l == Len(dd.inbuf)
           R == Round(command, left)
<1>1. R \in Nat \ {0} /\ l \in 1..R /\ l \in Nat
  BY RoundFits
<1> HIDE DEF l
<1>2. l % R = 0 <=> l = R
  <2> HIDE DEF R
  <2> QED BY <1>1, Remainders
<1>3. CASE command = "WRITE"
  <2>1. R = Parts * 1 /\ Sectors(command, left) = 1
    BY <1>3 DEF Round, Sectors
  <2>2. R = Parts
    BY <2>1, WdcAssumption
  <2>3. SectorsDue(dd) = IF l % Parts = 0 THEN 1 ELSE 0
    BY <1>3 DEF SectorsDue, l
  <2> HIDE DEF R
  <2> QED BY <1>2, <2>1, <2>2, <2>3 DEF l, R
<1>4. CASE command = "WRITEMULTI"
  <2>1. R = Parts * left /\ Sectors(command, left) = left
    BY <1>4 DEF Round, Sectors
  <2>2. SectorsDue(dd) = IF l % (Parts * left) = 0 THEN left ELSE 0
    BY <1>4 DEF SectorsDue, l
  <2> HIDE DEF R
  <2> QED BY <1>2, <2>1, <2>2 DEF l, R
<1> QED BY <1>3, <1>4 DEF Writes

(* The buffer holds parts of what is to be written, from a sector on.      *)
Holds(inbuf, data, k) ==
    \A q \in 1..Len(inbuf): inbuf[q] = data[k + ((q - 1) \div Parts) + 1]

LEMMA CutSectors ==
    ASSUME NEW inbuf, NEW data, NEW k \in Nat, NEW n \in Nat, Holds(inbuf, data, k)
    PROVE  Len(inbuf) = n * Parts => \A i \in 1..n: Cut(inbuf, n)[i] = Sector(data[k + i])
<1>1. ASSUME NEW i \in 1..n, NEW j \in 1..Parts
      PROVE  Len(inbuf) = n * Parts => inbuf[(i - 1) * Parts + j] = data[k + i]
  <2> DEFINE q == (i - 1) * Parts + j
             p == (q - 1) \div Parts
  <2>1. q \in 1..n * Parts
    BY Places
  <2>2. p = i - 1
    BY Places, Zenon
  <2>3. q \in 1..Len(inbuf) => inbuf[q] = data[k + p + 1]
    BY Zenon DEF Holds
  <2> HIDE DEF q, p
  <2>4. k + p + 1 = k + i
    BY <2>2
  <2> QED BY <2>1, <2>3, <2>4, Zenon DEF q
<1> QED BY <1>1, Zenon DEF Cut, Sector

(* One more part.                                                          *)
LEMMA PartBuffered ==
    ASSUME NEW inbuf, IsSeq(inbuf), NEW data, NEW k \in Nat, Holds(inbuf, data, k),
           NEW v
    PROVE  Len(inbuf) + 1 < InbufSize /\ v = data[k + (Len(inbuf) \div Parts) + 1] =>
               LET new == AddToInbuf(inbuf, <<v>>)
               IN  IsSeq(new) /\ Len(new) = Len(inbuf) + 1 /\ Holds(new, data, k)
<1> DEFINE new == inbuf \o <<v>>
           l == Len(inbuf)
<1>1. IsSeq(<<v>>) /\ Len(<<v>>) = 1 /\ <<v>>[1] = v
  BY DEF IsSeq
<1>2. /\ IsSeq(new) /\ Len(new) = l + 1 /\ \A i \in 1..l: new[i] = inbuf[i]
      /\ new[l + 1] = v
  <2>1. new = Append(inbuf, v)
    BY AppendIsSeq
  <2> HIDE DEF new
  <2> QED BY <2>1, AppendIsSeq
<1>3. AddToInbuf(inbuf, <<v>>) = new \/ ~(l + 1 < InbufSize)
  BY <1>1, AddToInbufOK
<1>4. l \in Nat
  BY DEF IsSeq
<1> HIDE DEF new
<1>5. v = data[k + (l \div Parts) + 1] => Holds(new, data, k)
  <2> SUFFICES ASSUME v = data[k + (l \div Parts) + 1], NEW q \in 1..l + 1
               PROVE  new[q] = data[k + ((q - 1) \div Parts) + 1]
    BY <1>2 DEF Holds
  <2>1. CASE q \in 1..l
    BY <1>2, <2>1 DEF Holds
  <2>2. CASE q = l + 1
    <3>1. q - 1 = l
      BY <1>4, <2>2
    <3> QED BY <1>2, <2>2, <3>1
  <2>3. q \in 1..l \/ q = l + 1
    BY <1>4
  <2> QED BY <2>1, <2>2, <2>3
<1> QED BY <1>2, <1>3, <1>5

(* A part is written to the data register, and the round is not complete.  *)
(* Otherwise its sectors are given to the image.                           *)
LEMMA MoveOutAgrees ==
    ASSUME ImageInv, ShapeInv, Agree, MoveOut
    PROVE  Agree'
<1>1. /\ access = NoAccess /\ driver.phase = "move" /\ driver.command \in Writes
      /\ UNCHANGED files /\ expected' = expected
      /\ driver' = Moved([driver EXCEPT !.done = Append(@, "part")])
  BY DEF MoveOut, Running
<1>2. BufferOK /\ DriverOK /\ ControllerOK
  BY DEF ShapeInv, ImageInv
<1> DEFINE n == Sectors(driver.command, driver.left)
           R == Round(driver.command, driver.left)
           k == driver.count - driver.left
           inbuf == d.inbuf
           v == driver.data[Len(driver.done) \div Parts + 1]
<1>3. /\ driver.left \in Nat \ {0} /\ driver.parts \in Nat \ {0} /\ n \in 1..driver.left
      /\ driver'.command = driver.command
      /\ driver'.sector = driver.sector /\ driver'.count = driver.count
      /\ driver'.data = driver.data /\ driver'.done = Append(driver.done, "part")
      /\ \/ /\ driver.parts > 1 /\ driver'.phase = "move"
            /\ driver'.left = driver.left /\ driver'.parts = driver.parts - 1
         \/ /\ driver.parts = 1 /\ driver'.phase = "wait"
            /\ driver'.left = driver.left - n
            /\ driver'.parts = Round(driver.command, driver.left - n)
  <2>1. driver.command \notin Reads
    BY <1>1 DEF Reads, Writes
  <2> QED BY <1>1, <1>2, <2>1, MovedDriver
<1>4. WritePart(v)
  BY DEF MoveOut
<1>5. access.kind = "none" /\ driver.command # "none" /\ driver.command \notin Reads
  BY <1>1 DEF NoAccess, Reads, Writes
<1>6. /\ d.write_count = driver.left /\ d.write_offset = driver.sector + driver.count - driver.left
      /\ d.write_in_progress = driver.command
      /\ driver.parts <= R /\ Len(inbuf) = R - driver.parts
      /\ Len(driver.done) = k * Parts + Len(inbuf)
      /\ Holds(inbuf, driver.data, k)
  BY <1>1, <1>3 DEF Agree, WriteAgrees, Holds
<1>7. /\ driver.count \in 0..MaxCount /\ driver.count \in Nat /\ driver.left \in 0..driver.count
      /\ driver.left \in 1..MaxCount /\ k \in Nat /\ n \in Nat /\ n \in 0..driver.left
      /\ driver.sector \in Nat /\ driver.sector + driver.count <= NBlocks
  BY SMTT(30), <1>2, <1>3, WdcAssumption DEF DriverOK
<1>8. /\ R = n * Parts /\ R \in Nat \ {0} /\ R < InbufSize
  BY <1>3, <1>7, RoundSectors, RoundFits
<1>9. /\ (driver.count - (driver.left - n)) * Parts = k * Parts + n * Parts
      /\ k * Parts \in Nat
  <2>1. driver.count \in Nat /\ driver.left \in 0..driver.count /\ n \in 0..driver.left
    BY <1>7
  <2> HIDE DEF n
  <2> QED BY <2>1, Counting
<1>10. IsSeq(inbuf) /\ IsSeq(driver.done) /\ Len(inbuf) \in Nat /\ Len(driver.done) \in Nat
  BY <1>2 DEF BufferOK, DriverOK, IsSeq
<1>11. v = driver.data[k + (Len(inbuf) \div Parts) + 1]
  <2> DEFINE l == Len(inbuf)
  <2>1. (k * Parts + l) \div Parts = k + (l \div Parts)
    BY <1>7, <1>10, Multiples
  <2> QED BY <1>6, <2>1
<1>12. Len(driver'.done) = Len(driver.done) + 1
  BY <1>3, <1>10, AppendIsSeq
<1> HIDE DEF v, n, R, k
<1>13. Len(inbuf) + 1 \in 1..R /\ Len(inbuf) + 1 < InbufSize
       /\ (Len(inbuf) + 1 = R <=> driver.parts = 1)
  <2> DEFINE l == Len(inbuf)
             p == driver.parts
  <2>1. l \in Nat /\ p \in Nat \ {0} /\ p <= R /\ l = R - p /\ R \in Nat \ {0} /\ R < InbufSize
        /\ InbufSize \in Nat
    BY <1>3, <1>6, <1>8, <1>10, InbufSizeType
  <2> HIDE DEF l, p
  <2>2. l + 1 \in 1..R /\ l + 1 < InbufSize /\ (l + 1 = R <=> p = 1)
    BY <2>1
  <2> QED BY <2>2 DEF l, p
<1>14. LET new == AddToInbuf(inbuf, <<v>>)
       IN  IsSeq(new) /\ Len(new) = Len(inbuf) + 1 /\ Holds(new, driver.data, k)
  BY <1>6, <1>7, <1>10, <1>11, <1>13, PartBuffered
<1>15. PICK dd:
          /\ dd.inbuf = AddToInbuf(d.inbuf, <<v>>)
          /\ dd.write_in_progress = d.write_in_progress
          /\ dd.write_count = d.write_count /\ dd.write_offset = d.write_offset
          /\ \/ SectorsDue(dd) = 0 /\ access' = access /\ d' = dd
             \/ LET m == SectorsDue(dd)
                IN  /\ m # 0
                    /\ d'.inbuf = SubSeq(dd.inbuf, m * Parts + 1, Len(dd.inbuf))
                    /\ d'.write_count = d.write_count - m
                    /\ d'.write_offset = d.write_offset + m
                    /\ d'.write_in_progress =
                           IF d.write_count = m THEN "no" ELSE d.write_in_progress
                    /\ Write(d.write_offset, Cut(dd.inbuf, m))
  BY <1>2, <1>4, WritePartCases
<1>16. IsSeq(dd.inbuf) /\ Len(dd.inbuf) = Len(inbuf) + 1 /\ Holds(dd.inbuf, driver.data, k)
  BY <1>14, <1>15
<1>17. SectorsDue(dd) = IF driver.parts = 1 THEN n ELSE 0
  <2>1. /\ dd.write_in_progress = driver.command /\ dd.write_count = driver.left
        /\ Len(dd.inbuf) \in 1..Round(driver.command, driver.left)
        /\ driver.left \in 1..MaxCount
    BY <1>6, <1>7, <1>13, <1>15, <1>16 DEF R
  <2>2. SectorsDue(dd) = IF Len(dd.inbuf) = Round(driver.command, driver.left)
                         THEN Sectors(driver.command, driver.left) ELSE 0
    BY <1>1, <2>1, DueSectors
  <2> QED BY <1>13, <1>16, <2>2 DEF R, n
<1>18. \A c \in Blocks: Contents(c)' = Asked(c)
  BY <1>1, <1>5, SameFiles, NoAccessTarget DEF Agree, DiskAgrees
<1>19. n \in Nat \ {0}
  BY <1>3, <1>7 DEF n
<1>20. CASE driver.parts > 1
  <2>1. /\ d'.inbuf = dd.inbuf /\ d'.write_in_progress = d.write_in_progress
        /\ d'.write_count = d.write_count /\ d'.write_offset = d.write_offset
        /\ access' = access
    BY <1>15, <1>17, <1>20
  <2>2. /\ driver'.phase = "move" /\ driver'.left = driver.left
        /\ driver'.parts = driver.parts - 1
    BY <1>3, <1>20
  <2>3. DiskAgrees'
    <3>1. \A c: Asked(c)' = Asked(c)
      BY <1>1, <1>3, <2>2 DEF Asked
    <3> QED BY <1>5, <1>18, <2>1, <3>1, NoAccessTargetNext DEF DiskAgrees
  <2>4. /\ driver'.parts <= R /\ Len(d'.inbuf) = R - driver'.parts
        /\ Len(driver'.done) = k * Parts + Len(d'.inbuf)
    <3> DEFINE l == Len(inbuf)
               p == driver.parts
               x == k * Parts
               m == Len(driver.done)
    <3>1. /\ l \in Nat /\ p \in Nat \ {0} /\ p <= R /\ l = R - p /\ R \in Nat /\ x \in Nat
          /\ m = x + l /\ Len(d'.inbuf) = l + 1 /\ Len(driver'.done) = m + 1
          /\ driver'.parts = p - 1
      BY <1>3, <1>6, <1>8, <1>9, <1>10, <1>12, <1>16, <2>1, <2>2
    <3> HIDE DEF l, p, x, m
    <3>2. p - 1 <= R /\ l + 1 = R - (p - 1) /\ m + 1 = x + (l + 1)
      BY <3>1
    <3> QED BY <3>1, <3>2 DEF x
  <2>5. /\ d'.write_count = driver'.left /\ access'.kind # "read"
        /\ d'.write_offset = driver'.sector + driver'.count - driver'.left
        /\ d'.write_in_progress = IF driver'.left = 0 THEN "no" ELSE driver'.command
        /\ driver'.phase # "wait" /\ driver'.phase # "idle"
    BY <1>3, <1>5, <1>6, <2>1, <2>2
  <2>6. /\ Round(driver'.command, driver'.left) = R /\ driver'.count - driver'.left = k
        /\ Holds(d'.inbuf, driver'.data, k)
    BY <1>3, <1>16, <2>1, <2>2 DEF R, k
  <2>7. WriteAgrees'
    BY <2>4, <2>5, <2>6 DEF WriteAgrees, Holds
  <2> QED BY <1>3, <1>5, <2>3, <2>5, <2>7 DEF Agree, IdleAgrees, ReadAgrees
<1>21. CASE driver.parts = 1
  <2>1. /\ d'.inbuf = SubSeq(dd.inbuf, n * Parts + 1, Len(dd.inbuf))
        /\ d'.write_count = d.write_count - n /\ d'.write_offset = d.write_offset + n
        /\ d'.write_in_progress = IF d.write_count = n THEN "no" ELSE d.write_in_progress
        /\ Write(d.write_offset, Cut(dd.inbuf, n))
    BY <1>15, <1>17, <1>19, <1>21
  <2>2. /\ driver'.phase = "wait" /\ driver'.left = driver.left - n
        /\ driver'.parts = Round(driver.command, driver.left - n)
    BY <1>3, <1>21 DEF n
  <2>3. Len(dd.inbuf) = n * Parts
    BY <1>8, <1>13, <1>16, <1>21
  <2>4. Len(d'.inbuf) = 0 /\ IsSeq(d'.inbuf)
    <3> DEFINE m == n * Parts + 1
               s == dd.inbuf
    <3>1. m \in Nat \ {0} /\ IsSeq(s) /\ ~(m <= Len(s))
      <4>1. n * Parts \in Nat
        BY <1>8
      <4> QED BY <1>16, <2>3, <4>1
    <3> HIDE DEF m, s
    <3>2. LET t == SubSeq(s, m, Len(s)) IN IsSeq(t) /\ Len(t) = IF m <= Len(s) THEN Len(s) - m + 1 ELSE 0
      BY <3>1, RestIsSeq
    <3> QED BY <2>1, <3>1, <3>2 DEF m, s
  <2> DEFINE data == Cut(dd.inbuf, n)
             offset == driver.sector + k
  <2>5. IsSeq(data) /\ Len(data) = n
    BY <1>19, FunctionIsSeq DEF Cut
  <2>6. \A i \in 1..n: data[i] = Sector(driver.data[k + i])
    BY <1>7, <1>16, <2>3, CutSectors
  <2> HIDE DEF data, offset
  <2>7. offset \in Nat /\ d.write_offset = offset
    BY <1>6, <1>7 DEF offset, k
  <2>8. /\ access'.kind = "write" /\ access'.block = offset /\ access'.left = n
        /\ access'.data = data
    BY <2>1, <2>5, <2>7 DEF Write, NoAccess, data
  <2>9. ASSUME NEW c \in Blocks PROVE Target(c)' = Asked(c)'
    <3>1. ToWrite' = [b \in offset..offset + n - 1 |-> data[b - offset + 1]]
      BY <2>8 DEF ToWrite
    <3>2. driver'.sector + driver'.count - driver'.left - 1 = offset + n - 1
      BY SMTT(30), <1>3, <1>7, <1>19, <2>2, <2>7 DEF offset, k
    <3>3. CASE c \in offset..offset + n - 1
      <4>1. c - offset + 1 \in 1..n /\ k + (c - offset + 1) = c - driver.sector + 1
            /\ c \in driver.sector..offset + n - 1
        BY <1>7, <1>19, <2>7, <3>3 DEF offset
      <4>2. Target(c)' = data[c - offset + 1]
        BY <3>1, <3>3 DEF Target
      <4>3. Asked(c)' = Sector(driver.data[c - driver.sector + 1])
        BY <1>1, <1>3, <3>2, <4>1 DEF Asked
      <4> QED BY <2>6, <4>1, <4>2, <4>3
    <3>4. CASE c \notin offset..offset + n - 1
      <4>1. Target(c)' = Contents(c)'
        BY <3>1, <3>4 DEF Target
      <4>2. c \in driver.sector..offset + n - 1 <=>
                c \in driver.sector..driver.sector + driver.count - driver.left - 1
        BY <1>7, <1>19, <2>7, <3>4, DiskImageAssumption DEF offset, k, Blocks
      <4>3. Asked(c)' = Asked(c)
        BY <1>1, <1>3, <3>2, <4>2 DEF Asked
      <4> QED BY <1>18, <4>1, <4>3
    <3> QED BY <3>3, <3>4
  <2>10. DiskAgrees'
    BY <2>9 DEF DiskAgrees
  <2>11. /\ d'.write_count = driver'.left /\ access'.kind # "read"
         /\ d'.write_offset = driver'.sector + driver'.count - driver'.left
         /\ d'.write_in_progress = IF driver'.left = 0 THEN "no" ELSE driver'.command
         /\ driver'.phase # "idle" /\ driver'.left \in Nat
    <3>1. /\ driver.left - n \in Nat /\ (driver.left - n = 0 <=> driver.left = n)
          /\ offset + n = driver.sector + driver.count - (driver.left - n)
      BY <1>7, <1>19 DEF offset, k
    <3>2. d'.write_count = driver'.left /\ driver'.left \in Nat /\ driver'.phase # "idle"
      BY <1>6, <2>1, <2>2, <3>1
    <3>3. d'.write_offset = driver'.sector + driver'.count - driver'.left
      BY <1>3, <2>1, <2>2, <2>7, <3>1
    <3>4. d'.write_in_progress = IF driver'.left = 0 THEN "no" ELSE driver'.command
      BY <1>3, <1>6, <2>1, <2>2, <3>1
    <3> QED BY <2>8, <3>2, <3>3, <3>4
  <2>12. /\ driver'.parts = Round(driver'.command, driver'.left)
         /\ Round(driver'.command, driver'.left) \in Nat
    BY <1>3, <2>2, <2>11, RoundSectors
  <2>13. Len(driver'.done) = (driver'.count - driver'.left) * Parts
    <3> DEFINE x == k * Parts
               y == n * Parts
               m == Len(driver.done)
               l == Len(inbuf)
    <3>1. /\ x \in Nat /\ y \in Nat /\ m = x + l /\ l \in Nat /\ l + 1 = y
          /\ Len(driver'.done) = m + 1
          /\ (driver.count - (driver.left - n)) * Parts = x + y
      BY <1>6, <1>8, <1>9, <1>10, <1>12, <1>13, <1>21
    <3> HIDE DEF x, y, m, l
    <3>2. m + 1 = x + y
      BY <3>1
    <3> QED BY <1>3, <2>2, <3>1, <3>2
  <2>14. WriteAgrees'
    <3> DEFINE w == (driver'.count - driver'.left) * Parts
               Q == Round(driver'.command, driver'.left)
    <3>1. Len(driver'.done) = w /\ driver'.parts = Q /\ Q \in Nat /\ Len(driver'.done) \in Nat
      BY <1>10, <1>12, <2>12, <2>13
    <3> HIDE DEF w, Q
    <3>2. /\ Len(d'.inbuf) = Q - driver'.parts /\ driver'.parts <= Q
          /\ Len(driver'.done) = w + Len(d'.inbuf)
      BY <2>4, <3>1
    <3> QED BY <2>4, <2>11, <3>1, <3>2 DEF WriteAgrees, w, Q
  <2> QED BY <1>3, <1>5, <2>10, <2>11, <2>14 DEF Agree, IdleAgrees, ReadAgrees
<1> QED BY <1>3, <1>20, <1>21

LEMMA AgreeNext ==
    ASSUME ImageInv, ShapeInv, AgreeInv, [Next]_vars
    PROVE  AgreeInv'
<1>1. counts.abandoned \in Nat
  BY DEF ImageInv, CountsOK
<1>2. Abandoned => Abandoned'
  <2>1. counts'.abandoned = counts.abandoned \/ counts'.abandoned = counts.abandoned + 1
    <3>1. counts = [commands |-> counts.commands, abandoned |-> counts.abandoned,
                    deaths |-> counts.deaths]
      BY DEF ImageInv, CountsOK
    <3> QED BY <3>1 DEF Next, vars, ImageStep, DriverStep, MoveIn, MoveOut, Interrupted, Issue,
                        Spurious, Abandon, DieAndRestart
  <2> QED BY <1>1, <2>1 DEF Abandoned
<1>3. CASE Abandon
  <2>1. counts' = [counts EXCEPT !.abandoned = @ + 1]
    BY <1>3 DEF Abandon
  <2>2. counts'.abandoned = counts.abandoned + 1
    BY <2>1 DEF ImageInv, CountsOK
  <2> QED BY <1>1, <2>2 DEF Abandoned, AgreeInv
<1>4. ASSUME Agree, Spurious PROVE Agree'
  <2>1. /\ access' = access /\ driver' = driver /\ expected' = expected /\ UNCHANGED files
        /\ ReadStatus /\ driver.phase = "idle"
    BY <1>4 DEF Spurious
  <2>2. d'.inbuf = d.inbuf /\ d'.write_in_progress = d.write_in_progress
    BY <2>1 DEF ReadStatus, ImageInv, ControllerOK
  <2>3. \A c: Target(c)' = Target(c) /\ Asked(c)' = Asked(c)
    BY <2>1, SameFiles DEF Target, ToWrite, Asked
  <2> QED BY <1>4, <2>1, <2>2, <2>3 DEF Agree, DiskAgrees, IdleAgrees, ReadAgrees, WriteAgrees
<1>5. ASSUME Agree, UNCHANGED vars PROVE Agree'
  <2>1. UNCHANGED <<files, access, d, driver, expected>>
    BY <1>5 DEF vars
  <2>2. \A c: Target(c)' = Target(c) /\ Asked(c)' = Asked(c) /\ Contents(c)' = Contents(c)
    BY <2>1, SameFiles DEF Target, ToWrite, Asked
  <2>3. Available' = Available
    BY <2>1 DEF Available
  <2>4. ReadAgrees'
    <3>1. \A c: InFile(c)' = InFile(c)
      BY <2>1, SameFiles
    <3>2. MissingAtEnd' = MissingAtEnd
      BY <2>1, SameMissing
    <3>3. SectorsHeld' = SectorsHeld /\ ReadingPlace' = ReadingPlace
      BY <2>1, <2>2, <2>3, ZenonT(60) DEF SectorsHeld, ReadingPlace
    <3>4. ChunkHeld' = ChunkHeld
      BY <2>1, <2>2, <2>3, <3>1, ZenonT(60) DEF ChunkHeld, BlockHeld
    <3> QED BY <1>5, <2>1, <2>3, <3>2, <3>3, <3>4 DEF Agree, ReadAgrees
  <2>5. DiskAgrees' /\ IdleAgrees' /\ WriteAgrees'
    BY <1>5, <2>1, <2>2 DEF Agree, DiskAgrees, IdleAgrees, WriteAgrees
  <2> QED BY <1>5, <2>1, <2>4, <2>5 DEF Agree
<1>6. ASSUME Agree, NEW command \in Reads, NEW b \in Blocks, NEW seccnt \in 0..MaxCount - 1,
             Issue(command, b, seccnt, <<>>)
      PROVE  Agree'
  BY <1>6, IssueAgrees
<1>7. ASSUME Agree, NEW command \in Writes, NEW b \in Blocks, NEW seccnt \in 0..MaxCount - 1,
             NEW data \in Payloads, Issue(command, b, seccnt, data)
      PROVE  Agree'
  BY <1>7, IssueAgrees
<1>8. Agree /\ ~Abandon => Agree'
  BY <1>4, <1>5, <1>6, <1>7, ImageStepAgrees, MoveInAgrees, MoveOutAgrees, InterruptAgrees,
     DieAgrees
  DEF Next, DriverStep
<1> QED BY <1>2, <1>3, <1>8 DEF AgreeInv

(* The files, the controller and the driver agree in every state.          *)
LEMMA Agreement == Spec => [](ImageInv /\ ShapeInv /\ AgreeInv)
<1>1. Init => ImageInv /\ ShapeInv /\ AgreeInv
  BY InitImage, InitShape, InitAgrees
<1>2. ImageInv /\ ShapeInv /\ AgreeInv /\ [Next]_vars => ImageInv' /\ ShapeInv' /\ AgreeInv'
  BY ImageNext, ShapeNext, AgreeNext
<1> QED BY <1>1, <1>2, PTL DEF Spec

(* What the driver has written is what the image holds, whatever the size  *)
(* of the commands and however often the emulator has died before: the     *)
(* sectors that wdc_write takes from the buffer go to the blocks of the    *)
(* command and none is lost or written twice.                              *)
THEOREM WrittenArrives == Spec => []WritesArrive
<1>1. ImageInv /\ ShapeInv /\ AgreeInv => WritesArrive
  <2> SUFFICES ASSUME AgreeInv, Running, driver.phase = "idle", ~Abandoned, NEW b \in Blocks
               PROVE  Contents(b) = expected[b]
    BY DEF WritesArrive
  <2>1. access.kind # "write" /\ driver.command = "none" /\ Target(b) = Asked(b)
    BY DEF Running, NoAccess, AgreeInv, Agree, IdleAgrees, DiskAgrees
  <2> QED BY <2>1, NoAccessTarget DEF Asked, Writes
<1> QED BY <1>1, Agreement, PTL

(* What the driver has read and what is in the buffer is what the image    *)
(* holds, with zeros for what is behind the end of the files: always when  *)
(* there are no overlays, and with overlays for every command whose        *)
(* missing sectors are its last ones.  Sectors of other commands are never *)
(* in the buffer, whose size is enough for any count.                      *)
THEOREM ReadIntact == Spec => []ReadsIntact
<1>1. ImageInv /\ ShapeInv /\ AgreeInv => ReadsIntact
  <2> SUFFICES ASSUME ImageInv, ShapeInv, AgreeInv, Running, driver.phase # "idle", ~Abandoned,
                      driver.command \in Reads, nr_of_overlays = 0 \/ MissingAtEnd
               PROVE  SectorsRead
    BY DEF ReadsIntact, ReadComplete
  <2>1. Available = driver.count
    BY DEF Running, NoAccess, Available
  <2>2. FilesOK /\ SectorsOK /\ DriverOK /\ BufferOK
    BY DEF ImageInv, ShapeInv
  <2>3. MissingAtEnd
    <3>1. CASE nr_of_overlays = 0
      <4>1. driver.sector..driver.sector + driver.count - 1 \subseteq Blocks
        BY <2>2, WdcAssumption, DiskImageAssumption DEF DriverOK, Blocks
      <4> QED BY <2>2, <3>1, <4>1, NoOverlaysOrdered DEF MissingAtEnd
    <3> QED BY <3>1
  <2>4. /\ Len(driver.done) + Len(d.inbuf) = driver.count * Parts
        /\ SectorsHeld
    BY <2>1, <2>3 DEF AgreeInv, Agree, ReadAgrees
  <2>5. Len(driver.done \o d.inbuf) = Len(driver.done) + Len(d.inbuf)
    BY <2>2, ConcatIsSeq DEF BufferOK, DriverOK
  <2> QED BY <2>1, <2>4, <2>5, Zenon DEF SectorsHeld, SectorsRead
<1> QED BY <1>1, Agreement, PTL

=============================================================================
