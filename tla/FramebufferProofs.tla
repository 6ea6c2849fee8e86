------------------------- MODULE FramebufferProofs --------------------------
(* Proofs about framebuffers of any size.                                  *)
EXTENDS Framebuffer, TLAPS

(* A page that cpus[0] can write to unnoticed lies between the limits.     *)
WritableNoticed == \A p \in Pages : fast[Cpu0][p].mode = "write" => p \in In(window)

(* The type invariant does not depend on the number of CPUs.               *)
LEMMA InitTypeOK == Init => TypeOK
  BY FramebufferAssumption
  DEF Init, TypeOK, Pages, Mapping, Range, Empty, Unmapped

(* Widening a range keeps what it held and adds what it is widened by.     *)
LEMMA WidenIn ==
  ASSUME NEW r \in Range, NEW lo \in 0..NPages, NEW hi \in 0..NPages
  PROVE  /\ Widen(r, lo, hi) \in Range
         /\ In(r) \subseteq In(Widen(r, lo, hi))
         /\ \A p \in Pages : lo <= p /\ p < hi => p \in In(Widen(r, lo, hi))
  BY FramebufferAssumption DEF Range, In, Widen, Pages

LEMMA NextTypeOK ==
  ASSUME TypeOK, [Next]_vars
  PROVE  TypeOK'
<1> USE FramebufferAssumption
<1>1. ASSUME NEW p \in Pages PROVE p \in 0..NPages /\ p + 1 \in 0..NPages
  BY <1>1 DEF Pages
<1>2. Empty \in Range /\ Unmapped \in Mapping
  BY DEF Empty, Range, Unmapped, Mapping
<1>3. ASSUME NEW c \in Cpus, NEW p \in Pages, SlowRead(c, p)
      PROVE  TypeOK'
  BY <1>3 DEF TypeOK, SlowRead, Mapping
<1>4. ASSUME NEW c \in Cpus, NEW p \in Pages, NEW changes \in BOOLEAN,
             SlowWrite(c, p, changes)
      PROVE  TypeOK'
  <2>0. Widen(window, p, p + 1) \in Range /\ Widen(update, p, p + 1) \in Range
    BY <1>1, WidenIn DEF TypeOK
  <2>1. window' \in Range /\ update' \in Range
    BY <1>4, <2>0 DEF TypeOK, SlowWrite, Note
  <2>2. fast' \in [Cpus -> [Pages -> Mapping]]
    BY <1>4 DEF TypeOK, SlowWrite, Mapping
  <2>3. painted' \in [Cpus -> SUBSET Pages]
    <3>1. CASE changes
      BY <1>4, <3>1 DEF TypeOK, SlowWrite
    <3>2. CASE ~changes
      BY <1>4, <3>2 DEF TypeOK, SlowWrite
    <3>. QED
      BY <3>1, <3>2
  <2>4. undrawn' \in [Cpus -> SUBSET Pages]
    <3>1. CASE changes
      BY <1>4, <3>1 DEF TypeOK, SlowWrite
    <3>2. CASE ~changes
      BY <1>4, <3>2 DEF TypeOK, SlowWrite
    <3>. QED
      BY <3>1, <3>2
  <2>. QED
    BY <1>4, <2>1, <2>2, <2>3, <2>4 DEF TypeOK, SlowWrite
<1>5. ASSUME NEW c \in Cpus, NEW p \in Pages, FastWrite(c, p)
      PROVE  TypeOK'
  BY <1>5 DEF TypeOK, FastWrite
<1>6. ASSUME NEW c \in Cpus, NEW p \in Pages, Forget(c, p)
      PROVE  TypeOK'
  BY <1>2, <1>6 DEF TypeOK, Forget
<1>7. ASSUME Tick
      PROVE  TypeOK'
  <2>1. MarkNonWritable(fast[Cpu0], window) \in [Pages -> Mapping]
    BY DEF TypeOK, MarkNonWritable, Mapping
  <2>2. fast' \in [Cpus -> [Pages -> Mapping]]
    BY <1>7, <2>1 DEF TypeOK, Tick
  <2>. QED
    BY <1>2, <1>7, <2>2 DEF TypeOK, Tick
<1>8. ASSUME NEW larger \in Growth, Resize(larger)
      PROVE  TypeOK'
  <2>1. fast' \in [Cpus -> [Pages -> Mapping]]
    BY <1>2, <1>8 DEF Resize, InvalidateCpus
  <2>2. update' \in Range /\ resizes' \in 0..MaxResizes
    BY <1>8 DEF TypeOK, Resize, Range
  <2>. QED
    BY <1>2, <1>8, <2>1, <2>2 DEF TypeOK, Resize
<1>9. CASE UNCHANGED vars
  BY <1>9 DEF vars, TypeOK
<1>. QED
  BY <1>3, <1>4, <1>5, <1>6, <1>7, <1>8, <1>9 DEF Next

-----------------------------------------------------------------------------
(* The limits that dev_fb_access() widens stay within the framebuffer      *)
(* however writes, ticks and changes of resolution follow one another.     *)
THEOREM AlwaysTyped == Spec => []TypeOK
  BY InitTypeOK, NextTypeOK, PTL DEF Spec

(* A change of resolution leaves no CPU with a pointer into the old        *)
(* framebuffer, and nothing later brings one back.                         *)
THEOREM NeverFreed == Spec => []NoFreedFramebuffer
<1> USE FramebufferAssumption
<1>1. Init => NoFreedFramebuffer
  BY DEF Init, NoFreedFramebuffer, Unmapped
<1>2. TypeOK /\ NoFreedFramebuffer /\ [Next]_vars => NoFreedFramebuffer'
  <2> SUFFICES ASSUME TypeOK, NoFreedFramebuffer, [Next]_vars
               PROVE  NoFreedFramebuffer'
    OBVIOUS
  <2>1. ASSUME NEW c \in Cpus, NEW p \in Pages, SlowRead(c, p)
        PROVE  NoFreedFramebuffer'
    BY <2>1 DEF TypeOK, NoFreedFramebuffer, SlowRead
  <2>2. ASSUME NEW c \in Cpus, NEW p \in Pages, NEW changes \in BOOLEAN,
               SlowWrite(c, p, changes)
        PROVE  NoFreedFramebuffer'
    BY <2>2 DEF TypeOK, NoFreedFramebuffer, SlowWrite
  <2>3. ASSUME NEW c \in Cpus, NEW p \in Pages, FastWrite(c, p) \/ Forget(c, p)
        PROVE  NoFreedFramebuffer'
    <3>1. CASE FastWrite(c, p)
      BY <3>1 DEF NoFreedFramebuffer, FastWrite
    <3>2. CASE Forget(c, p)
      <4>1. fast'[c][p].mode = "none"
        BY <3>2 DEF TypeOK, Forget, Unmapped
      <4>2. \A d \in Cpus, q \in Pages : d # c \/ q # p => fast'[d][q] = fast[d][q]
        BY <3>2 DEF TypeOK, Forget
      <4>. QED
        BY <3>2, <4>1, <4>2 DEF NoFreedFramebuffer, Forget
    <3>. QED
      BY <2>3, <3>1, <3>2
  <2>4. CASE Tick
    <3>1. \A p \in Pages :
            /\ MarkNonWritable(fast[Cpu0], window)[p].of = fast[Cpu0][p].of
            /\ MarkNonWritable(fast[Cpu0], window)[p].mode # "none"
                 => fast[Cpu0][p].mode # "none"
      BY DEF TypeOK, MarkNonWritable, Mapping
    <3>. QED
      BY <2>4, <3>1 DEF TypeOK, NoFreedFramebuffer, Tick
  <2>5. ASSUME NEW larger \in Growth, Resize(larger)
        PROVE  NoFreedFramebuffer'
    BY <2>5 DEF NoFreedFramebuffer, Resize, InvalidateCpus, Unmapped
  <2>6. CASE UNCHANGED vars
    BY <2>6 DEF vars, NoFreedFramebuffer
  <2>. QED
    BY <2>1, <2>2, <2>3, <2>4, <2>5, <2>6 DEF Next
<1>. QED
  BY <1>1, <1>2, InitTypeOK, NextTypeOK, PTL DEF Spec

-----------------------------------------------------------------------------
(* If the resolution is never lowered, every page that cpus[0] has written *)
(* to and that differs from the screen lies in the area that the next tick *)
(* redraws, for any number of CPUs.                                        *)
THEOREM UpdatesAlwaysNoticed == Growth = {TRUE} => (Spec => []Cpu0UpdatesNoticed)
<1> SUFFICES ASSUME Growth = {TRUE}
             PROVE  Spec => []Cpu0UpdatesNoticed
  OBVIOUS
<1> USE FramebufferAssumption
<1> DEFINE IInv == WritableNoticed /\ Cpu0UpdatesNoticed
<1>1. Init => IInv
  BY DEF Init, WritableNoticed, Cpu0UpdatesNoticed, Unmapped
<1>2. TypeOK /\ IInv /\ [Next]_vars => IInv'
  <2> SUFFICES ASSUME TypeOK, IInv, [Next]_vars
               PROVE  IInv'
    OBVIOUS
  <2>0. /\ window \in Range /\ update \in Range
        /\ window.lo \in 0..NPages /\ window.hi \in 0..NPages
    BY DEF TypeOK, Range
  <2>1. ASSUME NEW c \in Cpus, NEW p \in Pages, SlowRead(c, p)
        PROVE  IInv'
    <3>1. WritableNoticed'
      BY <2>1 DEF TypeOK, WritableNoticed, SlowRead
    <3>. QED
      BY <2>1, <3>1 DEF Cpu0UpdatesNoticed, SlowRead, Area
  <2>2. ASSUME NEW c \in Cpus, NEW p \in Pages, NEW changes \in BOOLEAN,
               SlowWrite(c, p, changes)
        PROVE  IInv'
    <3>1. p \in 0..NPages /\ p + 1 \in 0..NPages /\ p < p + 1
      BY DEF Pages
    <3>2. window' \in Range /\ In(window) \subseteq In(window') /\ p \in In(window')
      <4>1. window' = Widen(window, p, p + 1)
        BY <2>2 DEF SlowWrite, Note
      <4>2. p <= p
        BY DEF Pages
      <4>. QED
        BY <2>0, <3>1, <4>1, <4>2, WidenIn
    <3>3. WritableNoticed'
      <4>1. \A q \in Pages : q # p => fast'[Cpu0][q] = fast[Cpu0][q]
        BY <2>2 DEF TypeOK, SlowWrite
      <4>. QED
        BY <3>2, <4>1 DEF WritableNoticed
    <3>4. /\ window'.lo \in 0..NPages /\ window'.hi \in 0..NPages
          /\ window'.lo <= window.lo /\ window.hi <= window'.hi
      BY <2>0, <2>2, <3>1, <3>2 DEF SlowWrite, Note, Widen, Range
    <3>5. update' \in Range /\ update'.lo <= update.lo /\ update.hi <= update'.hi
      BY <2>0, <2>2, <3>1 DEF SlowWrite, Widen, Range
    <3>6. In(window') \subseteq Area'
      BY <3>4, <3>5, WidenIn DEF In, Area
    <3>7. Area \subseteq Area'
      BY <2>0, <3>4, <3>5 DEF In, Widen, Range, Pages, Area
    <3>8. undrawn'[Cpu0] \subseteq undrawn[Cpu0] \cup {p}
      BY <2>2 DEF TypeOK, SlowWrite
    <3>. QED
      BY <3>2, <3>3, <3>6, <3>7, <3>8 DEF Cpu0UpdatesNoticed
  <2>3. ASSUME NEW c \in Cpus, NEW p \in Pages, FastWrite(c, p)
        PROVE  IInv'
    <3>1. Area' = Area /\ WritableNoticed'
      BY <2>3 DEF WritableNoticed, FastWrite, Area
    <3>2. CASE c = Cpu0
      <4>1. p \in In(window)
        BY <2>3, <3>2 DEF WritableNoticed, FastWrite
      <4>2. p \in Area
        BY <2>0, <4>1, WidenIn DEF In, Area
      <4>3. undrawn'[Cpu0] = undrawn[Cpu0] \cup {p}
        BY <2>3, <3>2 DEF TypeOK, FastWrite
      <4>. QED
        BY <3>1, <4>2, <4>3 DEF Cpu0UpdatesNoticed
    <3>3. CASE c # Cpu0
      <4>1. undrawn'[Cpu0] = undrawn[Cpu0]
        BY <2>3, <3>3 DEF TypeOK, FastWrite
      <4>. QED
        BY <3>1, <4>1 DEF Cpu0UpdatesNoticed
    <3>. QED
      BY <3>2, <3>3
  <2>4. ASSUME NEW c \in Cpus, NEW p \in Pages, Forget(c, p)
        PROVE  IInv'
    <3>1. WritableNoticed'
      BY <2>4 DEF TypeOK, WritableNoticed, Forget, Unmapped
    <3>. QED
      BY <2>4, <3>1 DEF Cpu0UpdatesNoticed, Forget, Area
  <2>5. CASE Tick
    <3>1. \A p \in Pages : MarkNonWritable(fast[Cpu0], window)[p].mode # "write"
      BY DEF TypeOK, MarkNonWritable, Mapping, WritableNoticed
    <3>2. fast'[Cpu0] = MarkNonWritable(fast[Cpu0], window)
      BY <2>5 DEF TypeOK, Tick
    <3>3. undrawn'[Cpu0] = {}
      BY <2>5 DEF Tick, Cpu0UpdatesNoticed
    <3>. QED
      BY <3>1, <3>2, <3>3 DEF WritableNoticed, Cpu0UpdatesNoticed
  <2>6. ASSUME NEW larger \in Growth, Resize(larger)
        PROVE  IInv'
    <3>1. WritableNoticed'
      BY <2>6 DEF WritableNoticed, Resize, InvalidateCpus, Unmapped
    <3>2. update' = [lo |-> 0, hi |-> NPages] /\ window' = Empty
      BY <2>6 DEF Resize
    <3>3. Area' = Pages
      BY <3>2 DEF In, Widen, Empty, Pages, Area
    <3>4. undrawn'[Cpu0] \subseteq Pages
      BY <2>6 DEF TypeOK, Resize
    <3>. QED
      BY <3>1, <3>3, <3>4 DEF Cpu0UpdatesNoticed
  <2>7. CASE UNCHANGED vars
    BY <2>7 DEF vars, WritableNoticed, Cpu0UpdatesNoticed, Area
  <2>. QED
    BY <2>1, <2>2, <2>3, <2>4, <2>5, <2>6, <2>7 DEF Next
<1>. QED
  BY <1>1, <1>2, InitTypeOK, NextTypeOK, PTL DEF Spec
=============================================================================
