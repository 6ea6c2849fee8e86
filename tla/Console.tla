------------------------------ MODULE Console -------------------------------
(***************************************************************************)
(* The input of a console (console.c): characters come from the host's     *)
(* terminal in chunks and wait in a ring of FifoLen entries, which counts  *)
(* as empty when it is full.                                               *)
(*                                                                         *)
(* The terminal has no end of file: select() reports one as something to   *)
(* read, read() returns 0, and the loop of console_charavail() would never *)
(* end.  Without it every turn takes a character at least, and the loop    *)
(* stops after FifoLen turns at the latest.                                *)
(***************************************************************************)
EXTENDS Naturals, Sequences

CONSTANTS
    FifoLen,    \* CONSOLE_FIFO_LEN (4096 in the code)
    Chunk       \* characters taken at a time (100 in the code)

ASSUME ConsoleAssumption == FifoLen \in Nat \ {0} /\ Chunk \in 1..FifoLen

(* console_makeavail(), once for every character: the ring forgets all of  *)
(* its contents when the head reaches the tail.                            *)
console_makeavail(fifo, chars) ==
    LET all == fifo \o chars
        n   == Len(all) % FifoLen
    IN  SubSeq(all, Len(all) - n + 1, Len(all))

console_room_left_in_fifo(fifo) == FifoLen - Len(fifo)

(* A bug to be caught: the chunk just fits.                                *)
RoomForLess(fifo) == console_room_left_in_fifo(fifo) >= Chunk

(* Room for a chunk, and one entry more.                                   *)
RoomForChunk(fifo) == console_room_left_in_fifo(fifo) >= Chunk + 1

Least(a, b) == IF a < b THEN a ELSE b

(* One read of the terminal.                                               *)
TakeChunk(c) ==
    LET n == Least(Chunk, Len(c.stdin))
    IN  [stdin |-> SubSeq(c.stdin, n + 1, Len(c.stdin)),
         fifo  |-> console_makeavail(c.fifo, SubSeq(c.stdin, 1, n))]

(* The console after console_charavail(): chunks are taken as long as they *)
(* are there and there is room, at most FifoLen times.                     *)
console_charavail(c) ==
    LET taken[k \in 0..FifoLen] ==
            IF k = 0 THEN c
            ELSE LET p == taken[k - 1]
                 IN  IF p.stdin # <<>> /\ RoomForChunk(p.fifo) THEN TakeChunk(p) ELSE p
    IN  taken[FifoLen]

(* console_readchar(), when console_charavail() has found a character.     *)
console_readchar(c) == [c EXCEPT !.fifo = Tail(@)]
=============================================================================
