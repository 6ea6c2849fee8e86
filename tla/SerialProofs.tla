---------------------------- MODULE SerialProofs ----------------------------
(***************************************************************************)
(* The line to the processor is what the two 8259s say it is, whoever      *)
(* changes them last; and the console loses nothing that is typed, for     *)
(* every length of its ring and of a chunk.                                *)
(***************************************************************************)
EXTENDS Serial, SequenceTheorems, WellFoundedInduction, TLAPS

-----------------------------------------------------------------------------
(* The interrupt controllers.                                              *)

(* The state of the controllers is a record of six fields.                 *)
IsaOK(s) ==
    /\ s = [irr1 |-> s.irr1, ier1 |-> s.ier1, irr2 |-> s.irr2, ier2 |-> s.ier2,
            cpu |-> s.cpu, last_int |-> s.last_int]
    /\ s.cpu \in BOOLEAN

(* LineIsPending, of any state of the controllers.                         *)
LineOK(s) == IsaOK(s) /\ (s.cpu <=> Pending1(s) # {})

(* What is shown of a new state t that was made from s, before the line    *)
(* has been brought up to date: the line is still that of s.               *)
LineOf(t, s) == IsaOK(t) /\ t.cpu = s.cpu

LEMMA CascadeLine ==
    ASSUME NEW s, IsaOK(s)
    PROVE  LineOf(Cascade(s), s)
  BY DEF Cascade, LineOf, IsaOK

(* The line is set.                                                        *)
LEMMA SetLine ==
    ASSUME NEW t, NEW u, NEW up \in BOOLEAN, NEW last, IsaOK(t), up <=> Pending1(t) # {},
           \/ u = [t EXCEPT !.cpu = up]
           \/ u = [t EXCEPT !.cpu = up, !.last_int = last]
    PROVE  LineOK(u)
<1>1. t = [irr1 |-> t.irr1, ier1 |-> t.ier1, irr2 |-> t.irr2, ier2 |-> t.ier2,
           cpu |-> t.cpu, last_int |-> t.last_int]
  BY DEF IsaOK
<1>2. \E l: u = [irr1 |-> t.irr1, ier1 |-> t.ier1, irr2 |-> t.irr2, ier2 |-> t.ier2,
                cpu |-> up, last_int |-> l]
  BY <1>1
<1>3. PICK l: u = [irr1 |-> t.irr1, ier1 |-> t.ier1, irr2 |-> t.irr2, ier2 |-> t.ier2,
                   cpu |-> up, last_int |-> l]
  BY <1>2
<1>4. u.irr1 = t.irr1 /\ u.ier1 = t.ier1 /\ u.irr2 = t.irr2 /\ u.ier2 = t.ier2
      /\ u.cpu = up /\ u.last_int = l
  BY <1>3
<1>5. IsaOK(u)
  BY <1>3, <1>4 DEF IsaOK
<1> QED BY <1>4, <1>5 DEF LineOK, Pending1

(* isa_interrupt_common() is told what was pending, and the line fits it.  *)
LEMMA CommonLine ==
    ASSUME NEW s, NEW old, IsaOK(s), s.cpu <=> old # {}
    PROVE  LineOK(isa_interrupt_common(s, old))
<1> DEFINE t == Cascade(s)
           last == Min(PendingLines(t) \cup {16})
<1>1. IsaOK(t) /\ t.cpu = s.cpu
  BY CascadeLine DEF LineOf
<1>2. isa_interrupt_common(s, old) =
          CASE Pending1(t) = old -> t
            [] Pending1(t) # old /\ Pending1(t) = {} -> [t EXCEPT !.cpu = FALSE]
            [] OTHER -> [t EXCEPT !.cpu = TRUE, !.last_int = last]
  BY DEF isa_interrupt_common
<1> HIDE DEF t, last
<1>3. CASE Pending1(t) = old
  BY <1>1, <1>2, <1>3 DEF LineOK
<1>4. CASE Pending1(t) # old /\ Pending1(t) = {}
  <2>1. isa_interrupt_common(s, old) = [t EXCEPT !.cpu = FALSE]
    BY <1>2, <1>4
  <2> QED BY <1>1, <1>4, <2>1, SetLine
<1>5. CASE Pending1(t) # old /\ Pending1(t) # {}
  <2>1. isa_interrupt_common(s, old) = [t EXCEPT !.cpu = TRUE, !.last_int = last]
    BY <1>2, <1>5
  <2> QED BY <1>1, <1>5, <2>1, SetLine
<1> QED BY <1>3, <1>4, <1>5

LEMMA AssertLine ==
    ASSUME NEW s, NEW line, LineOK(s)
    PROVE  LineOK(isa_interrupt_assert(s, line)) /\ LineOK(isa_interrupt_deassert(s, line))
<1> DEFINE t == IF line < 8 THEN [s EXCEPT !.irr1 = @ \ {line}]
                            ELSE [s EXCEPT !.irr2 = @ \ {line - 8}]
<1>1. LineOf(Requested(s, line), s)
  BY DEF Requested, LineOf, LineOK, IsaOK
<1>2. LineOf(t, s)
  BY DEF LineOf, LineOK, IsaOK
<1> HIDE DEF t
<1>3. s.cpu <=> Pending1(s) # {}
  BY DEF LineOK
<1>4. LineOK(isa_interrupt_common(Requested(s, line), Pending1(s)))
  BY <1>1, <1>3, CommonLine DEF LineOf
<1>5. LineOK(isa_interrupt_common(t, Pending1(s)))
  BY <1>2, <1>3, CommonLine DEF LineOf
<1> QED BY <1>4, <1>5 DEF isa_interrupt_assert, isa_interrupt_deassert, t

LEMMA RecalculateLine ==
    ASSUME NEW s, NEW t, LineOK(s), LineOf(t, s)
    PROVE  /\ LineOK(Recalculate1(s, t))
           /\ Pending1(t) = Pending1(s) => LineOK(Recalculate2(s, t))
<1>1. IsaOK(t) /\ t.cpu = s.cpu /\ (s.cpu <=> Pending1(s) # {})
  BY DEF LineOK, LineOf
<1>2. LineOK(Recalculate1(s, t))
  <2>1. CASE Pending1(s) = Pending1(t)
    BY <1>1, <2>1 DEF Recalculate1, LineOK
  <2>2. CASE Pending1(s) # Pending1(t)
    <3>1. Recalculate1(s, t) = [t EXCEPT !.cpu = Pending1(t) # {}]
      BY <2>2 DEF Recalculate1
    <3>2. (Pending1(t) # {}) \in BOOLEAN
      OBVIOUS
    <3> QED BY <1>1, <3>1, <3>2, SetLine
  <2> QED BY <2>1, <2>2
<1>3. ASSUME Pending1(t) = Pending1(s) PROVE LineOK(Recalculate2(s, t))
  <2>1. LineOK(t)
    BY <1>1, <1>3 DEF LineOK
  <2>2. LineOK(isa_interrupt_assert(t, 2)) /\ LineOK(isa_interrupt_deassert(t, 2))
    BY <2>1, AssertLine
  <2> QED BY <2>1, <2>2 DEF Recalculate2
<1> QED BY <1>2, <1>3

(* The end of an interrupt, and writing a mask.                            *)
LEMMA ControllerLine ==
    ASSUME NEW s, NEW bit, NEW mask, LineOK(s)
    PROVE  /\ LineOK(SpecificEoi1(s, bit)) /\ LineOK(SpecificEoi2(s, bit))
           /\ LineOK(WriteMask1(s, mask)) /\ LineOK(WriteMask2(s, mask))
<1>1. LineOK(SpecificEoi1(s, bit))
  <2>1. LineOf([s EXCEPT !.irr1 = @ \ {bit}], s)
    BY DEF LineOf, LineOK, IsaOK
  <2> QED BY <2>1, RecalculateLine DEF SpecificEoi1
<1>2. LineOK(SpecificEoi2(s, bit))
  <2>1. LineOf([s EXCEPT !.irr2 = @ \ {bit}], s)
        /\ Pending1([s EXCEPT !.irr2 = @ \ {bit}]) = Pending1(s)
    BY DEF LineOf, LineOK, IsaOK, Pending1
  <2> QED BY <2>1, RecalculateLine DEF SpecificEoi2
<1>3. LineOK(WriteMask1(s, mask))
  <2>1. LineOf([s EXCEPT !.ier1 = mask], s)
    BY DEF LineOf, LineOK, IsaOK
  <2> QED BY <2>1, RecalculateLine DEF WriteMask1
<1>4. LineOK(WriteMask2(s, mask))
  <2>1. LineOf([s EXCEPT !.ier2 = mask], s)
        /\ Pending1([s EXCEPT !.ier2 = mask]) = Pending1(s)
    BY DEF LineOf, LineOK, IsaOK, Pending1
  <2> QED BY <2>1, RecalculateLine DEF WriteMask2
<1> QED BY <1>1, <1>2, <1>3, <1>4

LEMMA LineInit == Init => LineOK(isa)
  BY DEF Init, NoInterrupts, LineOK, IsaOK, Pending1

(* Every step makes the new state by one of these, if it changes it.       *)
LEMMA TickLine ==
    ASSUME LineOK(isa), NEW u, NEW c, dev_ns16550_tick(u, c)
    PROVE  LineOK(isa)'
<1>1. isa' \in {isa, isa_interrupt_assert(isa, UartLine), isa_interrupt_deassert(isa, UartLine)}
  BY DEF dev_ns16550_tick, Asserted
<1> QED BY <1>1, AssertLine

LEMMA LineNext == LineOK(isa) /\ [Next]_vars => LineOK(isa)'
<1> SUFFICES ASSUME LineOK(isa), [Next]_vars PROVE LineOK(isa)'
  OBVIOUS
<1>1. CASE UartTick \/ Send \/ Port
  BY <1>1, TickLine DEF UartTick, Send, Port, WriteMcr, WriteIer, ReadIir
<1>2. ASSUME NEW l \in Disks, DiskTick(l) \/ DiskDone(l) PROVE LineOK(isa)'
  BY <1>2, AssertLine DEF DiskTick, DiskDone
<1>3. CASE Type \/ Interrupt \/ Interrupt2
  <2>1. isa' = isa
    BY <1>3 DEF Type, Interrupt, Interrupt2
  <2> QED BY <2>1
<1>4. CASE Controllers
  <2>1. \/ \E mask: isa' \in {WriteMask1(isa, mask), WriteMask2(isa, mask)}
        \/ \E bit: isa' \in {SpecificEoi1(isa, bit), SpecificEoi2(isa, bit)}
    BY <1>4 DEF Controllers, SetMask
  <2> QED BY <2>1, ControllerLine
<1>5. CASE ReadData
  <2>1. isa' = isa \/ \E c: dev_ns16550_tick(uart, c)
    BY <1>5 DEF ReadData
  <2> QED BY <2>1, TickLine
<1>6. CASE ReadStatus
  BY <1>6, AssertLine DEF ReadStatus
<1>7. CASE UNCHANGED vars
  <2>1. isa' = isa
    BY <1>7 DEF vars
  <2> QED BY <2>1
<1> QED BY <1>1, <1>2, <1>3, <1>4, <1>5, <1>6, <1>7 DEF Next, GuestStep

(* The line to the processor is up exactly when an unmasked interrupt is   *)
(* pending, whichever of isa_interrupt_common() and the recalculation of   *)
(* dev_8259.c has changed it last, for any lines of the controllers.       *)
THEOREM LineCorrect == Spec => []LineIsPending
<1>1. LineOK(isa) => LineIsPending
  BY DEF LineOK, LineIsPending
<1> QED BY <1>1, LineInit, LineNext, PTL DEF Spec

-----------------------------------------------------------------------------
(* The console.                                                            *)

ConOK(c) ==
    /\ c = [stdin |-> c.stdin, fifo |-> c.fifo]
    /\ c.stdin \in Seq(Nat) /\ c.fifo \in Seq(Nat) /\ Len(c.fifo) < FifoLen

(* All that waits, in order.                                               *)
Whole(c) == c.fifo \o c.stdin

(* One turn of the loop of console_charavail().                            *)
Turn(c) == IF c.stdin # <<>> /\ RoomForChunk(c.fifo) THEN TakeChunk(c) ELSE c

(* The state after each of the first n turns.                              *)
Turns(f, c, n) == f = [k \in 0..n |-> IF k = 0 THEN c ELSE Turn(f[k - 1])]

LEMMA CharavailTurns ==
    ASSUME NEW c
    PROVE  console_charavail(c) = (CHOOSE f: Turns(f, c, FifoLen))[FifoLen]
  BY DEF console_charavail, Turns, Turn

LEMMA Associative ==
    ASSUME NEW s \in Seq(Nat), NEW t \in Seq(Nat), NEW u \in Seq(Nat)
    PROVE  (s \o t) \o u = s \o (t \o u)
  BY SMTT(30), ConcatAssociative

(* The first n characters of t are appended to s.                          *)
LEMMA MoveFirst ==
    ASSUME NEW s \in Seq(Nat), NEW t \in Seq(Nat), NEW n \in 0..Len(t)
    PROVE  /\ SubSeq(t, 1, n) \in Seq(Nat) /\ SubSeq(t, n + 1, Len(t)) \in Seq(Nat)
           /\ s \o SubSeq(t, 1, n) \in Seq(Nat)
           /\ Len(s \o SubSeq(t, 1, n)) = Len(s) + n
           /\ (s \o SubSeq(t, 1, n)) \o SubSeq(t, n + 1, Len(t)) = s \o t
<1> DEFINE first == SubSeq(t, 1, n)
           rest == SubSeq(t, n + 1, Len(t))
<1>1. Len(t) \in Nat /\ \A i \in 1..Len(t): t[i] \in Nat
  OBVIOUS
<1>2. first \in Seq(Nat) /\ Len(first) = IF 1 <= n THEN n - 1 + 1 ELSE 0
  BY <1>1, SubSeqProperties
<1>3. rest \in Seq(Nat) /\ Len(first) = n
  BY <1>1, <1>2, SubSeqProperties
<1>4. 1 \in 1..Len(t) + 1 /\ n \in 1 - 1..Len(t) /\ Len(t) \in n..Len(t)
  BY <1>1
<1>5. first \o rest = SubSeq(t, 1, Len(t))
  BY <1>4, ConcatAdjacentSubSeq, Zenon
<1>6. first \o rest = t
  BY <1>5, SubSeqFull
<1> HIDE DEF first, rest
<1>7. (s \o first) \o rest = s \o (first \o rest)
  <2>1. s \in Seq(Nat) /\ first \in Seq(Nat) /\ rest \in Seq(Nat)
    BY <1>2, <1>3
  <2> QED BY <2>1, Associative
<1>8. s \o first \in Seq(Nat) /\ Len(s \o first) = Len(s) + n
  BY <1>2, <1>3, ConcatProperties
<1>9. first \in Seq(Nat) /\ rest \in Seq(Nat) /\ (s \o first) \o rest = s \o t
  BY <1>2, <1>3, <1>6, <1>7
<1> QED BY <1>8, <1>9 DEF first, rest

(* A chunk for which there is room keeps the ring from filling up, and     *)
(* goes to the end of what waits in it.                                    *)
LEMMA TurnKeeps ==
    ASSUME NEW c, ConOK(c)
    PROVE  ConOK(Turn(c)) /\ Whole(Turn(c)) = Whole(c)
<1>1. CASE ~(c.stdin # <<>> /\ RoomForChunk(c.fifo))
  <2>1. Turn(c) = c
    BY <1>1 DEF Turn
  <2> QED BY <2>1
<1>2. CASE c.stdin # <<>> /\ RoomForChunk(c.fifo)
  <2> DEFINE n == Least(Chunk, Len(c.stdin))
             first == SubSeq(c.stdin, 1, n)
             rest == SubSeq(c.stdin, n + 1, Len(c.stdin))
             all == c.fifo \o first
             new == console_makeavail(c.fifo, first)
  <2>1. c.stdin \in Seq(Nat) /\ c.fifo \in Seq(Nat) /\ FifoLen \in Nat \ {0} /\ Chunk \in Nat
        /\ Len(c.stdin) \in Nat /\ Len(c.fifo) \in Nat
    BY ConsoleAssumption DEF ConOK
  <2>2. n \in Nat /\ n <= Chunk /\ n <= Len(c.stdin)
    BY <2>1 DEF Least
  <2>3. FifoLen - Len(c.fifo) >= Chunk + 1
    BY <1>2 DEF RoomForChunk, console_room_left_in_fifo
  <2>4. Turn(c) = [stdin |-> rest, fifo |-> new]
    BY <1>2 DEF Turn, TakeChunk
  <2>5. n \in 0..Len(c.stdin)
    BY <2>1, <2>2
  <2> HIDE DEF n
  <2>6. /\ rest \in Seq(Nat) /\ all \in Seq(Nat) /\ Len(all) = Len(c.fifo) + n
        /\ all \o rest = c.fifo \o c.stdin
    BY <2>1, <2>5, MoveFirst
  <2> HIDE DEF first, rest, all
  <2>7. Len(all) < FifoLen /\ Len(all) \in Nat
    <3>1. \A len, room, chunk, size \in Nat:
              room - len >= chunk + 1 /\ size <= chunk => len + size < room /\ len + size \in Nat
      OBVIOUS
    <3>2. Len(c.fifo) \in Nat /\ FifoLen \in Nat /\ Chunk \in Nat /\ n \in Nat
      BY <2>1, <2>2
    <3>3. Len(c.fifo) + n < FifoLen /\ Len(c.fifo) + n \in Nat
      BY <2>2, <2>3, <3>1, <3>2
    <3> QED BY <2>6, <3>3
  <2>8. Len(all) % FifoLen = Len(all)
    <3>1. \A a \in Nat, b \in Nat \ {0}: a < b => a % b = a
      OBVIOUS
    <3> QED BY <2>1, <2>7, <3>1
  <2>9. new = all
    <3>1. new = SubSeq(all, Len(all) - Len(all) + 1, Len(all))
      BY <2>8 DEF console_makeavail, all
    <3>2. Len(all) - Len(all) + 1 = 1
      BY <2>7
    <3>3. SubSeq(all, 1, Len(all)) = all
      BY <2>6, SubSeqFull
    <3> QED BY <3>1, <3>2, <3>3
  <2> HIDE DEF new
  <2>10. Turn(c).stdin = rest /\ Turn(c).fifo = all
    BY <2>4, <2>9
  <2>11. ConOK(Turn(c))
    BY <2>4, <2>6, <2>7, <2>9, <2>10 DEF ConOK
  <2> QED BY <2>6, <2>10, <2>11 DEF Whole
<1> QED BY <1>1, <1>2

(* A nonempty set of natural numbers has a least element.                  *)
LEMMA LeastNatural ==
    ASSUME NEW T \in SUBSET Nat, T # {}
    PROVE  \E x \in T: \A y \in T: x <= y
<1> DEFINE R == {ss \in Nat \X Nat: ss[1] < ss[2]}
<1>1. IsWellFoundedOn(R, Nat)
  BY NatLessThanWellFounded, Zenon DEF OpToRel
<1> HIDE DEF R
<1>2. \E x \in T: \A y \in T: <<y, x>> \notin R
  BY <1>1, WFMin, Zenon
<1>3. \A x, y \in T: <<y, x>> \notin R => x <= y
  BY DEF R
<1> QED BY <1>2, <1>3

(* The loop is well defined, however many turns it takes.                  *)
LEMMA TurnsExist ==
    ASSUME NEW c, NEW n \in Nat
    PROVE  \E f: Turns(f, c, n)
<1> DEFINE Bad == {m \in Nat: ~\E f: Turns(f, c, m)}
<1> SUFFICES ASSUME Bad # {} PROVE FALSE
  OBVIOUS
<1>1. PICK m \in Bad: \A y \in Bad: m <= y
  BY LeastNatural
<1>2. m \in Nat /\ ~\E f: Turns(f, c, m)
  OBVIOUS
<1>3. CASE m = 0
  <2> DEFINE f == [k \in 0..0 |-> c]
  <2>1. f = [k \in 0..0 |-> IF k = 0 THEN c ELSE Turn(f[k - 1])]
    OBVIOUS
  <2> QED BY <1>2, <1>3, <2>1 DEF Turns
<1>4. CASE m # 0
  <2>1. m - 1 \in Nat /\ m - 1 \notin Bad
    BY <1>1, <1>2, <1>4
  <2>2. PICK f: Turns(f, c, m - 1)
    BY <2>1
  <2> DEFINE g == [k \in 0..m |-> IF k = m THEN Turn(f[m - 1]) ELSE f[k]]
  <2>3. ASSUME NEW k \in 0..m
        PROVE  g[k] = IF k = 0 THEN c ELSE Turn(g[k - 1])
    <3>1. \A j \in 0..m - 1: f[j] = IF j = 0 THEN c ELSE Turn(f[j - 1])
      BY <2>2 DEF Turns
    <3>2. CASE k = m
      <4>1. g[k] = Turn(f[m - 1]) /\ g[m - 1] = f[m - 1]
        BY <1>2, <2>1, <3>2
      <4> QED BY <1>4, <3>2, <4>1
    <3>3. CASE k # m
      <4>1. k \in 0..m - 1 /\ g[k] = f[k]
        BY <1>2, <2>1, <3>3
      <4>2. k # 0 => g[k - 1] = f[k - 1]
        BY <1>2, <3>3
      <4> QED BY <3>1, <4>1, <4>2
    <3> QED BY <3>2, <3>3
  <2>4. g = [k \in 0..m |-> g[k]]
    OBVIOUS
  <2> HIDE DEF g
  <2>5. Turns(g, c, m)
    BY <2>3, <2>4 DEF Turns
  <2> QED BY <1>2, <2>5
<1> QED BY <1>3, <1>4

(* What holds after every turn.                                            *)
LEMMA TurnsKeep ==
    ASSUME NEW c, NEW n \in Nat, NEW f, ConOK(c), Turns(f, c, n)
    PROVE  ConOK(f[n]) /\ Whole(f[n]) = Whole(c)
<1> DEFINE Bad == {m \in 0..n: ~(ConOK(f[m]) /\ Whole(f[m]) = Whole(c))}
<1> SUFFICES ASSUME Bad # {} PROVE FALSE
  OBVIOUS
<1>0. Bad \in SUBSET Nat
  OBVIOUS
<1>1. PICK m \in Bad: \A y \in Bad: m <= y
  <2> HIDE DEF Bad
  <2> QED BY <1>0, LeastNatural
<1>2. m \in 0..n /\ ~(ConOK(f[m]) /\ Whole(f[m]) = Whole(c))
      /\ f[m] = IF m = 0 THEN c ELSE Turn(f[m - 1])
  BY DEF Turns
<1>3. m # 0
  BY <1>2
<1>4. m - 1 \in 0..n /\ m - 1 \notin Bad
  BY <1>1, <1>2, <1>3
<1>5. ConOK(f[m - 1]) /\ Whole(f[m - 1]) = Whole(c)
  BY <1>4
<1> QED BY <1>2, <1>3, <1>5, TurnKeeps

(* console_charavail() moves characters from the terminal to the ring, and *)
(* changes neither their order nor their number.                           *)
LEMMA CharavailKeeps ==
    ASSUME NEW c, ConOK(c)
    PROVE  ConOK(console_charavail(c)) /\ Whole(console_charavail(c)) = Whole(c)
<1>1. FifoLen \in Nat
  BY ConsoleAssumption
<1>2. \E f: Turns(f, c, FifoLen)
  BY <1>1, TurnsExist
<1>3. Turns(CHOOSE f: Turns(f, c, FifoLen), c, FifoLen)
  BY <1>2
<1> QED BY <1>1, <1>3, TurnsKeep, CharavailTurns

-----------------------------------------------------------------------------
(* What was typed.                                                         *)

FirstTyped(n) == [k \in 1..n |-> k]

(* What the guest has read, and what waits in the console.                 *)
StreamOK ==
    /\ ConOK(con) /\ got \in Seq(Nat) /\ typed \in Nat
    /\ got \o Whole(con) = FirstTyped(typed)

(* A console that another one was made from, with nothing lost.            *)
LEMMA ConsoleStep ==
    ASSUME StreamOK, NEW c, ConOK(c), Whole(c) = Whole(con), con' = console_charavail(c),
           UNCHANGED <<got, typed>>
    PROVE  StreamOK'
<1>1. ConOK(con') /\ Whole(con') = Whole(con)
  BY CharavailKeeps
<1> QED BY <1>1 DEF StreamOK

LEMMA TypeStep ==
    ASSUME StreamOK, Type
    PROVE  StreamOK'
<1>1. /\ typed \in Nat /\ typed' = typed + 1 /\ got' = got /\ got \in Seq(Nat)
      /\ con' = [con EXCEPT !.stdin = Append(@, typed')]
  BY DEF Type, StreamOK
<1>2. /\ con = [stdin |-> con.stdin, fifo |-> con.fifo] /\ con.stdin \in Seq(Nat)
      /\ con.fifo \in Seq(Nat) /\ Len(con.fifo) < FifoLen
  BY DEF StreamOK, ConOK
<1> DEFINE in == con.stdin
           fifo == con.fifo
           t == typed + 1
<1>3. con' = [stdin |-> Append(in, t), fifo |-> fifo]
  BY <1>1, <1>2
<1>4. /\ con'.stdin = Append(in, t) /\ con'.fifo = fifo
      /\ con' = [stdin |-> con'.stdin, fifo |-> con'.fifo]
  BY <1>3
<1>5. in \in Seq(Nat) /\ fifo \in Seq(Nat) /\ t \in Nat
  BY <1>1, <1>2
<1> HIDE DEF in, fifo, t
<1>6. Append(in, t) \in Seq(Nat) /\ <<t>> \in Seq(Nat) /\ Append(in, t) = in \o <<t>>
  BY <1>5, AppendIsConcat
<1>7. ConOK(con)'
  BY <1>2, <1>4, <1>5, <1>6 DEF ConOK, fifo
<1>8. fifo \o Append(in, t) = (fifo \o in) \o <<t>>
  BY <1>5, <1>6, Associative
<1>9. fifo \o in \in Seq(Nat)
  BY <1>5, ConcatProperties
<1>10. got \o (fifo \o Append(in, t)) = (got \o (fifo \o in)) \o <<t>>
  <2> DEFINE whole == fifo \o in
  <2>1. got \o (whole \o <<t>>) = (got \o whole) \o <<t>>
    <3> HIDE DEF whole
    <3>1. whole \in Seq(Nat) /\ got \in Seq(Nat) /\ <<t>> \in Seq(Nat)
      BY <1>1, <1>6, <1>9 DEF whole
    <3> QED BY <3>1, Associative
  <2> QED BY <1>8, <2>1
<1>11. got \o (fifo \o in) = FirstTyped(typed)
  BY DEF StreamOK, Whole, fifo, in
<1>12. FirstTyped(typed) \o <<t>> = FirstTyped(t)
  <2>1. FirstTyped(typed) \in Seq(Nat) /\ Len(FirstTyped(typed)) = typed
    BY <1>1 DEF FirstTyped
  <2>2. Append(FirstTyped(typed), t) = FirstTyped(typed) \o <<t>>
    BY <1>5, <2>1, AppendIsConcat
  <2>3. Append(FirstTyped(typed), t) = FirstTyped(t)
    BY <1>1 DEF FirstTyped, t
  <2> QED BY <2>2, <2>3
<1>13. got' \o Whole(con') = FirstTyped(typed')
  BY <1>1, <1>4, <1>10, <1>11, <1>12 DEF Whole, t
<1>14. got' \in Seq(Nat) /\ typed' \in Nat
  BY <1>1
<1> QED BY <1>7, <1>13, <1>14 DEF StreamOK

(* The guest reads the first character of the ring.                        *)
LEMMA ReadStep ==
    ASSUME StreamOK, ReadData
    PROVE  StreamOK'
<1> DEFINE p == console_charavail(con)
<1>1. ConOK(con) /\ ConOK(p) /\ Whole(p) = Whole(con) /\ got \in Seq(Nat) /\ typed' = typed
      /\ typed \in Nat
  BY CharavailKeeps DEF StreamOK, ReadData
<1>2. \/ con' = p /\ got' = got
      \/ /\ p.fifo # <<>> /\ got' = Append(got, Head(p.fifo))
         /\ con' = console_charavail(console_readchar(p))
  BY DEF ReadData, dev_ns16550_tick
<1> HIDE DEF p
<1>3. CASE con' = p /\ got' = got
  BY <1>1, <1>3 DEF StreamOK
<1>4. CASE /\ p.fifo # <<>> /\ got' = Append(got, Head(p.fifo))
           /\ con' = console_charavail(console_readchar(p))
  <2> DEFINE q == console_readchar(p)
             h == Head(p.fifo)
             rest == Tail(p.fifo)
             in == p.stdin
  <2>1. /\ p = [stdin |-> in, fifo |-> p.fifo] /\ in \in Seq(Nat) /\ p.fifo \in Seq(Nat)
        /\ Len(p.fifo) < FifoLen
    BY <1>1 DEF ConOK
  <2>2. h \in Nat /\ rest \in Seq(Nat) /\ Len(rest) = Len(p.fifo) - 1
    BY <1>4, <2>1, HeadTailProperties
  <2>3. p.fifo = <<h>> \o rest
    <3>1. <<h>> \in Seq(Nat)
      BY <2>2
    <3> QED BY <1>4, <2>1, <2>2, <3>1
  <2>4. q = [stdin |-> in, fifo |-> rest]
    <3>1. q = [p EXCEPT !.fifo = rest]
      BY DEF console_readchar
    <3> HIDE DEF q, rest, in
    <3> QED BY <2>1, <3>1
  <2>5. q.stdin = in /\ q.fifo = rest /\ q = [stdin |-> q.stdin, fifo |-> q.fifo]
    BY <2>4
  <2>6. Len(rest) < FifoLen
    BY <2>1, <2>2, ConsoleAssumption
  <2> HIDE DEF q, h, rest, in
  <2>7. ConOK(q)
    BY <2>1, <2>2, <2>5, <2>6 DEF ConOK
  <2>8. ConOK(con') /\ Whole(con') = Whole(q)
    BY <1>4, <2>7, CharavailKeeps DEF q
  <2>9. <<h>> \in Seq(Nat) /\ rest \o in \in Seq(Nat)
    BY <2>1, <2>2, ConcatProperties
  <2>10. got' = got \o <<h>> /\ got' \in Seq(Nat)
    <3>1. got' = Append(got, h)
      BY <1>4 DEF h
    <3> QED BY <1>1, <2>2, <3>1, AppendIsConcat, AppendProperties
  <2>11. Whole(p) = <<h>> \o (rest \o in)
    <3>1. Whole(p) = (<<h>> \o rest) \o in
      BY <2>3 DEF Whole, in
    <3> QED BY <2>1, <2>2, <2>9, <3>1, Associative
  <2>12. (got \o <<h>>) \o (rest \o in) = got \o (<<h>> \o (rest \o in))
    BY <1>1, <2>9, Associative
  <2>13. Whole(con') = rest \o in
    BY <2>5, <2>8 DEF Whole
  <2>14. got' \o Whole(con') = got \o Whole(con)
    BY <1>1, <2>10, <2>11, <2>12, <2>13
  <2> QED BY <1>1, <2>8, <2>10, <2>14 DEF StreamOK
<1> QED BY <1>2, <1>3, <1>4

LEMMA StreamInit == Init => StreamOK
<1> SUFFICES ASSUME Init PROVE StreamOK
  OBVIOUS
<1>1. con = [stdin |-> <<>>, fifo |-> <<>>] /\ got = <<>> /\ typed = 0
  BY DEF Init
<1>2. ConOK(con) /\ con.stdin = <<>> /\ con.fifo = <<>>
  BY <1>1, ConsoleAssumption DEF ConOK
<1>3. <<>> \o (<<>> \o <<>>) = FirstTyped(0)
  BY DEF FirstTyped
<1> QED BY <1>1, <1>2, <1>3 DEF StreamOK, Whole

LEMMA StreamNext == StreamOK /\ [Next]_vars => StreamOK'
<1> SUFFICES ASSUME StreamOK, [Next]_vars PROVE StreamOK'
  OBVIOUS
<1>1. ASSUME UNCHANGED <<con, got, typed>> PROVE StreamOK'
  BY <1>1 DEF StreamOK
<1>2. CASE UartTick \/ Send \/ Port
  <2>1. con' = console_charavail(con) /\ UNCHANGED <<got, typed>>
    BY <1>2 DEF UartTick, Send, Port, WriteMcr, WriteIer, ReadIir, dev_ns16550_tick
  <2>2. ConOK(con)
    BY DEF StreamOK
  <2> QED BY <2>1, <2>2, ConsoleStep
<1>3. CASE \E l \in Disks: DiskTick(l) \/ DiskDone(l)
  BY <1>1, <1>3 DEF DiskTick, DiskDone
<1>4. CASE Type
  BY <1>4, TypeStep
<1>5. CASE Interrupt \/ Interrupt2 \/ Controllers \/ ReadStatus
  BY <1>1, <1>5 DEF Interrupt, Interrupt2, Controllers, ReadStatus
<1>6. CASE ReadData
  BY <1>6, ReadStep
<1>7. CASE UNCHANGED vars
  BY <1>1, <1>7 DEF vars
<1> QED BY <1>2, <1>3, <1>4, <1>5, <1>6, <1>7 DEF Next, GuestStep

(* What the user types is what the guest reads, in order and without gaps, *)
(* for every length of the ring and of a chunk: console_charavail() always *)
(* leaves an entry of the ring free (console.c).                           *)
THEOREM NothingLost == Spec => []NothingTypedIsLost
<1>1. StreamOK => NothingTypedIsLost
  <2> SUFFICES ASSUME StreamOK PROVE NothingTypedIsLost
    OBVIOUS
  <2>1. got \in Seq(Nat) /\ con.fifo \in Seq(Nat) /\ con.stdin \in Seq(Nat)
        /\ got \o (con.fifo \o con.stdin) = FirstTyped(typed)
    BY DEF StreamOK, ConOK, Whole
  <2>2. (got \o con.fifo) \o con.stdin = FirstTyped(typed)
    BY <2>1, Associative
  <2> QED BY <2>2 DEF NothingTypedIsLost, FirstTyped
<1> QED BY <1>1, StreamInit, StreamNext, PTL DEF Spec

=============================================================================
