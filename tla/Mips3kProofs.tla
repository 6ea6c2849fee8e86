---------------------------- MODULE Mips3kProofs ----------------------------
(***************************************************************************)
(* The invariants of Mips3k, for any number of pages, TLB entries, address *)
(* spaces, vph_tlb_entry[] entries and physpages.                          *)
(*                                                                         *)
(* None of the invariants is inductive on its own.  update_translation_    *)
(* table keeps the two halves of the tables consistent only if a page that *)
(* is already mapped keeps its physical address, which holds because the   *)
(* tables agree with the guest's TLB; and that, in turn, survives a TLB    *)
(* write only because invalidation finds every mapping, that is, because   *)
(* the tables are consistent.  So they are proved together.                *)
(*                                                                         *)
(* The first part says what every operation of Dyntrans preserves, of any  *)
(* cache state; the second composes these lemmas action by action.         *)
(***************************************************************************)
EXTENDS Mips3k, SequenceTheorems, TLAPS

-----------------------------------------------------------------------------
(* The operations of Dyntrans.                                             *)

(* The inductive part of the caches' invariant. *)
Typed(d) == d \in DyntransState /\ Len(d.tc) <= TcPages

Sound(d) == /\ Typed(d)
            /\ TablesConsistent(d)
            /\ PhysPagesLive(d)
            /\ BitmapCovers(d)

(* e has the translation cache of d. *)
SameCode(d, e) == e.tc = d.tc /\ e.cur_ic_page = d.cur_ic_page /\ e.pc = d.pc

(* e maps nothing that d does not map. *)
Shrinks(d, e) ==
    \A v \in VPages : /\ e.host_load[v] \in {NULL, d.host_load[v]}
                      /\ e.host_store[v] \in {NULL, d.host_store[v]}

(* e maps v to p, writable only if wf or if d maps v writable, and nothing  *)
(* else that d does not map.                                                *)
Maps(d, e, v, p, wf) ==
    /\ e.host_load[v] = p
    /\ e.host_store[v] = NULL \/ (e.host_store[v] = p /\ (wf \/ d.host_store[v] = p))
    /\ \A w \in VPages \ {v} : /\ e.host_load[w] \in {NULL, d.host_load[w]}
                               /\ e.host_store[w] \in {NULL, d.host_store[w]}

-----------------------------------------------------------------------------
(* The fast translation tables.                                            *)

(* A page with an index has a host pointer, to the physical page that the  *)
(* arrays name.                                                            *)
LEMMA MappedPage ==
    ASSUME NEW d, Sound(d), NEW v \in VPages
    PROVE  /\ d.vaddr_to_tlbindex[v] # 0 =>
                 /\ d.vaddr_to_tlbindex[v] \in d.valid
                 /\ d.vaddr_page[d.vaddr_to_tlbindex[v]] = v
                 /\ d.host_load[v] = d.phys_addr[v]
                 /\ d.host_store[v] \in {NULL, d.phys_addr[v]}
           /\ d.host_load[v] # NULL => d.vaddr_to_tlbindex[v] # 0
           /\ d.host_load[v] = NULL => d.vaddr_to_tlbindex[v] = 0
<1>1. d.phys_addr[v] \in PPages
  BY DEF Sound, Typed, DyntransState
<1> QED BY <1>1, DyntransAssumption
        DEF Sound, TablesConsistent, EntriesConsistent, ArraysConsistent

(* invalidate_tlb_entry of any set of pages keeps the tables sound.        *)
LEMMA InvalidateSound ==
    ASSUME NEW d, Sound(d), NEW W \in SUBSET VPages
    PROVE  LET e == InvalidateTlbEntries(d, W)
           IN  /\ Sound(e) /\ SameCode(d, e) /\ Shrinks(d, e)
               /\ e.next_victim = d.next_victim
               /\ e.vaddr_page = d.vaddr_page
               /\ \A v \in VPages : e.vaddr_to_tlbindex[v] =
                     IF v \in W THEN 0 ELSE d.vaddr_to_tlbindex[v]
               /\ e.valid = d.valid \ {d.vaddr_to_tlbindex[v] : v \in W}
<1> DEFINE vs == d.valid \ {d.vaddr_to_tlbindex[v] : v \in W}
           hl == [v \in VPages |-> IF v \in W THEN NULL ELSE d.host_load[v]]
           hs == [v \in VPages |-> IF v \in W THEN NULL ELSE d.host_store[v]]
           pa == [v \in VPages |-> IF v \in W THEN 0 ELSE d.phys_addr[v]]
           pp == [v \in VPages |-> IF v \in W THEN 0 ELSE d.phys_page[v]]
           ti == [v \in VPages |-> IF v \in W THEN 0 ELSE d.vaddr_to_tlbindex[v]]
           e  == [d EXCEPT !.valid = vs, !.host_load = hl, !.host_store = hs,
                           !.phys_addr = pa, !.phys_page = pp,
                           !.vaddr_to_tlbindex = ti]
<1>1. e = InvalidateTlbEntries(d, W)
  BY DEF InvalidateTlbEntries
<1>2. d \in DyntransState
  BY DEF Sound, Typed
<1>3. /\ vs \in SUBSET Vph
      /\ hl \in [VPages -> HostPtr]
      /\ hs \in [VPages -> HostPtr]
      /\ pa \in [VPages -> PPages]
      /\ pp \in [VPages -> 0..TcPages]
      /\ ti \in [VPages -> 0..MaxVph]
  BY <1>2, DyntransAssumption DEF DyntransState, HostPtr
<1>4. \A v \in VPages :
        /\ hl[v] = IF v \in W THEN NULL ELSE d.host_load[v]
        /\ hs[v] = IF v \in W THEN NULL ELSE d.host_store[v]
        /\ pa[v] = IF v \in W THEN 0 ELSE d.phys_addr[v]
        /\ pp[v] = IF v \in W THEN 0 ELSE d.phys_page[v]
        /\ ti[v] = IF v \in W THEN 0 ELSE d.vaddr_to_tlbindex[v]
  OBVIOUS
<1>5. \A v \in VPages \ W : d.vaddr_to_tlbindex[v] # 0 =>
                               d.vaddr_to_tlbindex[v] \in vs
  BY MappedPage
<1>6. \A r \in vs : d.vaddr_page[r] \in VPages \ W
  BY <1>2 DEF Sound, TablesConsistent, EntriesConsistent, DyntransState
<1>7. \A v \in VPages : v \in W \/ v \notin W
  OBVIOUS
<1>8. vs \subseteq d.valid
  OBVIOUS
<1> HIDE DEF vs, hl, hs, pa, pp, ti
<1>9. /\ e.valid = vs /\ e.writeflag = d.writeflag
      /\ e.vaddr_page = d.vaddr_page /\ e.paddr_page = d.paddr_page
      /\ e.next_victim = d.next_victim
      /\ e.host_load = hl /\ e.host_store = hs
      /\ e.phys_addr = pa /\ e.phys_page = pp /\ e.vaddr_to_tlbindex = ti
      /\ SameCode(d, e)
  BY <1>2 DEF DyntransState, SameCode
<1>10. e \in DyntransState
  BY <1>2, <1>3 DEF DyntransState
<1> HIDE DEF e
<1>11. Typed(e)
  BY <1>9, <1>10 DEF Sound, Typed, SameCode
<1>12. EntriesConsistent(e)
  BY <1>4, <1>6, <1>8, <1>9 DEF Sound, TablesConsistent, EntriesConsistent
<1>13. ArraysConsistent(e)
  BY ZenonT(40), <1>4, <1>5, <1>9 DEF Sound, TablesConsistent, ArraysConsistent
<1>14. PhysPagesLive(e)
  BY <1>4, <1>9 DEF Sound, PhysPagesLive, SameCode
<1>15. BitmapCovers(e)
  BY <1>9 DEF Sound, BitmapCovers, SameCode
<1>16. Shrinks(d, e)
  BY <1>4, <1>9 DEF Shrinks
<1> QED BY <1>1, <1>4, <1>9, <1>11, <1>12, <1>13, <1>14, <1>15, <1>16
        DEF Sound, TablesConsistent, vs

(* Marking the mappings of a physical page as non-writable keeps the       *)
(* tables sound.                                                           *)
LEMMA MarkNonWritableSound ==
    ASSUME NEW d, Sound(d), NEW p
    PROVE  LET e == MarkNonWritable(d, p)
           IN  Sound(e) /\ SameCode(d, e) /\ Shrinks(d, e)
<1> DEFINE R  == EntriesOf(d, p)
           wr == d.writeflag \ R
           hs == [v \in VPages |-> IF v \in PagesOf(d, R) THEN NULL
                                   ELSE d.host_store[v]]
           e  == [d EXCEPT !.writeflag = wr, !.host_store = hs]
<1>1. e = MarkNonWritable(d, p)
  BY DEF MarkNonWritable
<1>2. d \in DyntransState
  BY DEF Sound, Typed
<1>3. wr \in SUBSET Vph /\ hs \in [VPages -> HostPtr]
  BY <1>2 DEF DyntransState, HostPtr
<1>4. \A r \in d.valid :
        /\ r \in R => hs[d.vaddr_page[r]] = NULL
        /\ r \notin R => hs[d.vaddr_page[r]] = d.host_store[d.vaddr_page[r]]
  BY <1>2 DEF Sound, TablesConsistent, EntriesConsistent, DyntransState,
              EntriesOf, PagesOf
<1>5. \A v \in VPages : hs[v] \in {NULL, d.host_store[v]}
  OBVIOUS
<1>6. \A r \in Vph : r \in wr <=> r \in d.writeflag /\ r \notin R
  BY <1>2 DEF DyntransState
<1> HIDE DEF R, wr, hs
<1>7. /\ e.valid = d.valid /\ e.writeflag = wr
      /\ e.vaddr_page = d.vaddr_page /\ e.paddr_page = d.paddr_page
      /\ e.host_load = d.host_load /\ e.host_store = hs
      /\ e.phys_addr = d.phys_addr /\ e.phys_page = d.phys_page
      /\ e.vaddr_to_tlbindex = d.vaddr_to_tlbindex
      /\ SameCode(d, e)
  BY <1>2 DEF DyntransState, SameCode
<1>8. e \in DyntransState
  BY <1>2, <1>3 DEF DyntransState
<1> HIDE DEF e
<1>9. Typed(e)
  BY <1>7, <1>8 DEF Sound, Typed, SameCode
<1>10. EntriesConsistent(e)
  BY <1>2, <1>4, <1>6, <1>7 DEF Sound, TablesConsistent, EntriesConsistent, DyntransState
<1>11. ArraysConsistent(e)
  BY <1>5, <1>7 DEF Sound, TablesConsistent, ArraysConsistent
<1>12. PhysPagesLive(e) /\ BitmapCovers(e)
  BY <1>7 DEF Sound, PhysPagesLive, BitmapCovers, SameCode
<1>13. Shrinks(d, e)
  BY <1>5, <1>7 DEF Shrinks
<1> QED BY <1>1, <1>7, <1>9, <1>10, <1>11, <1>12, <1>13 DEF Sound, TablesConsistent

(* A miss in update_translation_table throws out the next victim and enters *)
(* the new mapping in its place.                                           *)
LEMMA AddSound ==
    ASSUME NEW d, Sound(d), NEW v \in VPages, NEW p \in PPages,
           NEW wf \in BOOLEAN, d.vaddr_to_tlbindex[v] = 0
    PROVE  LET e == AddTranslation(d, v, p, wf)
           IN  Sound(e) /\ SameCode(d, e) /\ Maps(d, e, v, p, wf)
<1> DEFINE r  == d.next_victim
           W  == PagesOf(d, d.valid \cap {r})
           c  == InvalidateTlbEntries(d, W)
           vs == c.valid \cup {r}
           wr == IF wf THEN c.writeflag \cup {r} ELSE c.writeflag \ {r}
           va == [c.vaddr_page EXCEPT ![r] = v]
           pg == [c.paddr_page EXCEPT ![r] = p]
           nv == IF r = MaxVph THEN 1 ELSE r + 1
           hl == [c.host_load EXCEPT ![v] = p]
           hs == [c.host_store EXCEPT ![v] = IF wf THEN p ELSE NULL]
           pa == [c.phys_addr EXCEPT ![v] = p]
           pp == [c.phys_page EXCEPT ![v] = 0]
           ti == [c.vaddr_to_tlbindex EXCEPT ![v] = r]
           e  == [c EXCEPT !.valid = vs, !.writeflag = wr, !.vaddr_page = va,
                           !.paddr_page = pg, !.next_victim = nv,
                           !.host_load = hl, !.host_store = hs,
                           !.phys_addr = pa, !.phys_page = pp,
                           !.vaddr_to_tlbindex = ti]
<1>1. e = AddTranslation(d, v, p, wf)
  BY DEF AddTranslation
<1>2. d \in DyntransState /\ r \in Vph /\ W \in SUBSET VPages
  BY DEF Sound, Typed, DyntransState, PagesOf
<1> HIDE DEF W
<1>3. /\ Sound(c) /\ SameCode(d, c) /\ Shrinks(d, c)
      /\ \A w \in VPages : c.vaddr_to_tlbindex[w] =
            IF w \in W THEN 0 ELSE d.vaddr_to_tlbindex[w]
      /\ c.valid = d.valid \ {d.vaddr_to_tlbindex[w] : w \in W}
  BY <1>2, InvalidateSound
<1>4. c \in DyntransState
  BY <1>3 DEF Sound, Typed
<1>5. c.vaddr_to_tlbindex[v] = 0
  BY <1>3
<1>6. r \notin c.valid
  <2>1. r \in d.valid => d.vaddr_page[r] \in W
    BY DEF PagesOf, W
  <2>2. r \in d.valid => d.vaddr_to_tlbindex[d.vaddr_page[r]] = r
    BY DEF Sound, TablesConsistent, EntriesConsistent
  <2> QED BY <1>3, <2>1, <2>2
<1> HIDE DEF c
<1>7. /\ r # 0 /\ r \in 0..MaxVph
      /\ \A w \in VPages : c.vaddr_to_tlbindex[w] # r
  <2>1. r # 0 /\ r \in 0..MaxVph
    BY <1>2, DyntransAssumption DEF Vph
  <2>2. \A w \in VPages : c.vaddr_to_tlbindex[w] # 0 => c.vaddr_to_tlbindex[w] \in c.valid
    BY <1>3, MappedPage
  <2> QED BY <2>1, <2>2, <1>6
<1>8. /\ vs \in SUBSET Vph /\ wr \in SUBSET Vph
      /\ va \in [Vph -> VPages] /\ pg \in [Vph -> PPages]
      /\ hl \in [VPages -> HostPtr] /\ hs \in [VPages -> HostPtr]
      /\ pa \in [VPages -> PPages] /\ pp \in [VPages -> 0..TcPages]
  BY SMTT(30), <1>2, <1>4, DyntransAssumption DEF DyntransState, HostPtr
<1>9. nv \in Vph /\ ti \in [VPages -> 0..MaxVph]
  <2>1. nv \in Vph
    BY <1>2, DyntransAssumption DEF Vph
  <2> QED BY <2>1, <1>4, <1>7 DEF DyntransState
<1>10. \A q \in Vph :
         /\ va[q] = IF q = r THEN v ELSE c.vaddr_page[q]
         /\ pg[q] = IF q = r THEN p ELSE c.paddr_page[q]
         /\ q \in vs <=> q = r \/ q \in c.valid
         /\ q \in wr <=> IF q = r THEN wf ELSE q \in c.writeflag
  BY <1>4 DEF DyntransState
<1>11. \A w \in VPages :
         /\ hl[w] = IF w = v THEN p ELSE c.host_load[w]
         /\ hs[w] = IF w = v THEN (IF wf THEN p ELSE NULL) ELSE c.host_store[w]
         /\ pa[w] = IF w = v THEN p ELSE c.phys_addr[w]
         /\ pp[w] = IF w = v THEN 0 ELSE c.phys_page[w]
         /\ ti[w] = IF w = v THEN r ELSE c.vaddr_to_tlbindex[w]
  BY <1>4 DEF DyntransState
<1>12. vs \subseteq Vph /\ c.valid \subseteq Vph
  BY <1>4, <1>8 DEF DyntransState
<1> HIDE DEF r, vs, wr, va, pg, nv, hl, hs, pa, pp, ti
<1>13. /\ e.valid = vs /\ e.writeflag = wr
       /\ e.vaddr_page = va /\ e.paddr_page = pg
       /\ e.host_load = hl /\ e.host_store = hs
       /\ e.phys_addr = pa /\ e.phys_page = pp /\ e.vaddr_to_tlbindex = ti
       /\ SameCode(c, e)
  BY <1>4 DEF DyntransState, SameCode
<1>14. e \in DyntransState
  BY <1>4, <1>8, <1>9 DEF DyntransState
<1> HIDE DEF e
<1>15. Typed(e)
  BY <1>3, <1>13, <1>14 DEF Sound, Typed, SameCode
<1>16. EntriesConsistent(e)
  <2> SUFFICES ASSUME NEW q \in vs
               PROVE  /\ ti[va[q]] = q /\ hl[va[q]] = pg[q] /\ pa[va[q]] = pg[q]
                      /\ hs[va[q]] = IF q \in wr THEN pg[q] ELSE NULL
    BY <1>13 DEF EntriesConsistent
  <2>1. CASE q = r
    BY <2>1, <1>2, <1>10, <1>11
  <2>2. CASE q # r
    <3>1. q \in c.valid /\ q \in Vph
      BY <2>2, <1>10, <1>12
    <3>2. c.vaddr_page[q] \in VPages /\ c.vaddr_to_tlbindex[c.vaddr_page[q]] = q
      BY <3>1, <1>3, <1>4 DEF Sound, TablesConsistent, EntriesConsistent, DyntransState
    <3>3. c.vaddr_page[q] # v
      BY <3>1, <3>2, <1>5, <1>12, DyntransAssumption DEF Vph
    <3> QED BY <2>2, <3>1, <3>2, <3>3, <1>3, <1>10, <1>11
            DEF Sound, TablesConsistent, EntriesConsistent
  <2> QED BY <2>1, <2>2
<1>17. ArraysConsistent(e)
  <2> SUFFICES ASSUME NEW w \in VPages
               PROVE  IF ti[w] = 0 THEN hl[w] = NULL /\ hs[w] = NULL /\ pp[w] = 0
                      ELSE ti[w] \in vs /\ va[ti[w]] = w
    BY <1>13 DEF ArraysConsistent
  <2>1. CASE w = v
    BY <2>1, <1>2, <1>7, <1>10, <1>11
  <2>2. CASE w # v
    <3>1. c.vaddr_to_tlbindex[w] # r
      BY <1>7
    <3>2. c.vaddr_to_tlbindex[w] # 0 => c.vaddr_to_tlbindex[w] \in Vph
      BY <1>3, <1>12, MappedPage
    <3> QED BY <2>2, <3>1, <3>2, <1>3, <1>10, <1>11
            DEF Sound, TablesConsistent, ArraysConsistent
  <2> QED BY <2>1, <2>2
<1>18. PhysPagesLive(e) /\ BitmapCovers(e)
  BY <1>3, <1>11, <1>13 DEF Sound, PhysPagesLive, BitmapCovers, SameCode
<1>19. Maps(d, e, v, p, wf)
  BY <1>3, <1>11, <1>13 DEF Maps, Shrinks
<1>20. SameCode(d, e)
  BY <1>3, <1>13 DEF SameCode
<1> QED BY <1>1, <1>15, <1>16, <1>17, <1>18, <1>19, <1>20 DEF Sound, TablesConsistent

(* A hit in update_translation_table, for a page that still has the same   *)
(* physical address, at most makes the mapping writable.                   *)
LEMMA ChangeSound ==
    ASSUME NEW d, Sound(d), NEW v \in VPages, NEW p \in PPages,
           NEW wf \in BOOLEAN, d.vaddr_to_tlbindex[v] # 0, d.phys_addr[v] = p
    PROVE  LET e == ChangeTranslation(d, v, p, wf)
           IN  Sound(e) /\ SameCode(d, e) /\ Maps(d, e, v, p, wf)
<1> DEFINE r  == d.vaddr_to_tlbindex[v]
           wr == IF wf THEN d.writeflag \cup {r} ELSE d.writeflag
           hl == [d.host_load EXCEPT ![v] = IF d.phys_addr[v] = p THEN @ ELSE p]
           hs == [d.host_store EXCEPT ![v] =
                    IF wf THEN p ELSE IF d.phys_addr[v] = p THEN @ ELSE NULL]
           pa == [d.phys_addr EXCEPT ![v] = p]
           pp == [d.phys_page EXCEPT ![v] = 0]
           e  == [d EXCEPT !.writeflag = wr, !.phys_page = pp, !.host_load = hl,
                           !.host_store = hs, !.phys_addr = pa]
<1>1. e = ChangeTranslation(d, v, p, wf)
  BY DEF ChangeTranslation
<1>2. d \in DyntransState
  BY DEF Sound, Typed
<1>3. /\ r \in d.valid /\ r \in Vph /\ d.vaddr_page[r] = v
      /\ d.host_load[v] = p /\ d.host_store[v] \in {NULL, p}
  BY <1>2, MappedPage DEF DyntransState
<1>4. /\ wr \in SUBSET Vph
      /\ hl \in [VPages -> HostPtr] /\ hs \in [VPages -> HostPtr]
      /\ pa \in [VPages -> PPages] /\ pp \in [VPages -> 0..TcPages]
  BY <1>2, <1>3, DyntransAssumption DEF DyntransState, HostPtr
<1>5. \A w \in VPages :
        /\ hl[w] = d.host_load[w]
        /\ hs[w] = IF w = v /\ wf THEN p ELSE d.host_store[w]
        /\ pa[w] = d.phys_addr[w]
        /\ pp[w] = IF w = v THEN 0 ELSE d.phys_page[w]
  BY <1>2 DEF DyntransState
<1>6. \A q \in Vph : q \in wr <=> q \in d.writeflag \/ (q = r /\ wf)
  OBVIOUS
<1>7. \A q \in d.valid : q # r => d.vaddr_page[q] # v
  BY DEF Sound, TablesConsistent, EntriesConsistent
<1>8. d.valid \subseteq Vph /\ \A q \in Vph : d.vaddr_page[q] \in VPages
  BY <1>2 DEF DyntransState
<1> HIDE DEF r, wr, hl, hs, pa, pp
<1>9. /\ e.valid = d.valid /\ e.writeflag = wr
      /\ e.vaddr_page = d.vaddr_page /\ e.paddr_page = d.paddr_page
      /\ e.host_load = hl /\ e.host_store = hs
      /\ e.phys_addr = pa /\ e.phys_page = pp
      /\ e.vaddr_to_tlbindex = d.vaddr_to_tlbindex
      /\ SameCode(d, e)
  BY <1>2 DEF DyntransState, SameCode
<1>10. e \in DyntransState
  BY <1>2, <1>4 DEF DyntransState
<1> HIDE DEF e
<1>11. Typed(e)
  BY <1>9, <1>10 DEF Sound, Typed, SameCode
<1>12. EntriesConsistent(e)
  BY <1>3, <1>5, <1>6, <1>7, <1>8, <1>9
  DEF Sound, TablesConsistent, EntriesConsistent
<1>13. ArraysConsistent(e)
  BY <1>5, <1>9 DEF Sound, TablesConsistent, ArraysConsistent
<1>14. PhysPagesLive(e) /\ BitmapCovers(e)
  BY <1>5, <1>9 DEF Sound, PhysPagesLive, BitmapCovers, SameCode
<1>15. Maps(d, e, v, p, wf)
  BY <1>3, <1>5, <1>9 DEF Maps
<1> QED BY <1>1, <1>9, <1>11, <1>12, <1>13, <1>14, <1>15 DEF Sound, TablesConsistent

(* Dropping mappings cannot make the tables disagree with the guest. *)
LEMMA ShrinksAgrees ==
    ASSUME NEW d, NEW e, NEW xl, NEW ws, Shrinks(d, e), Agrees(d, xl, ws)
    PROVE  Agrees(e, xl, ws)
BY DEF Shrinks, Agrees

(* update_translation_table keeps the tables sound when it is given what   *)
(* the guest's own translation says.  The hypothesis on xl is needed: on a *)
(* hit the code does not update paddr_page of the vph_tlb_entry.           *)
LEMMA UpdateSound ==
    ASSUME NEW d, Sound(d), NEW xl, NEW ws, Agrees(d, xl, ws),
           NEW v \in VPages, NEW p \in PPages, xl[v] = p,
           NEW wf \in BOOLEAN, wf => v \in ws
    PROVE  LET e == UpdateTranslationTable(d, v, p, wf)
           IN  /\ Sound(e) /\ SameCode(d, e) /\ Agrees(e, xl, ws)
               /\ e.host_load[v] = p
<1> DEFINE e == UpdateTranslationTable(d, v, p, wf)
<1>1. Sound(e) /\ SameCode(d, e) /\ Maps(d, e, v, p, wf)
  <2>1. CASE d.vaddr_to_tlbindex[v] = 0
    BY <2>1, AddSound DEF UpdateTranslationTable
  <2>2. CASE d.vaddr_to_tlbindex[v] # 0
    <3>1. d.phys_addr[v] = p
      BY <2>2, MappedPage DEF Agrees
    <3> QED BY <2>2, <3>1, ChangeSound DEF UpdateTranslationTable
  <2> QED BY <2>1, <2>2
<1> HIDE DEF e
<1>2. Agrees(e, xl, ws)
  BY <1>1, DyntransAssumption DEF Maps, Agrees
<1> QED BY <1>1, <1>2 DEF e, Maps

-----------------------------------------------------------------------------
(* The translation cache.                                                  *)

(* The walk of the chain finds the physpage of p. *)
LEMMA FindPageInChain ==
    ASSUME NEW d, Sound(d), NEW p, Chain(d, p) # {}
    PROVE  /\ FindPage(d, p) \in DOMAIN d.tc
           /\ d.tc[FindPage(d, p)].physaddr = p
           /\ FindPage(d, p) \in 1..TcPages
<1>1. d.tc \in Seq(PhysPage) /\ Len(d.tc) <= TcPages
  BY DEF Sound, Typed, DyntransState
<1>2. Len(d.tc) \in Nat /\ DOMAIN d.tc = 1..Len(d.tc)
  BY <1>1, LenProperties
<1>3. PICK o \in Chain(d, p) : TRUE
  OBVIOUS
<1>4. o \in DOMAIN d.tc /\ d.tc[o].physaddr = p
  BY <1>3 DEF Chain
<1>5. \A q \in Chain(d, p) : q <= o
  BY <1>2, <1>4 DEF Chain, Sound, PhysPagesLive
<1>6. FindPage(d, p) \in Chain(d, p)
  BY <1>3, <1>5 DEF FindPage
<1> QED BY <1>1, <1>2, <1>6, DyntransAssumption DEF Chain

(* Forgetting the physpage of some pages keeps the caches sound. *)
LEMMA ForgetSound ==
    ASSUME NEW d, Sound(d), NEW R
    PROVE  LET e == ForgetPhysPages(d, R)
           IN  Sound(e) /\ SameCode(d, e) /\ Shrinks(d, e)
<1> DEFINE pp == [v \in VPages |-> IF v \in PagesOf(d, R) THEN 0 ELSE d.phys_page[v]]
           e  == [d EXCEPT !.phys_page = pp]
<1>1. e = ForgetPhysPages(d, R)
  BY DEF ForgetPhysPages
<1>2. d \in DyntransState
  BY DEF Sound, Typed
<1>3. pp \in [VPages -> 0..TcPages]
  BY <1>2, DyntransAssumption DEF DyntransState
<1>4. \A v \in VPages : pp[v] \in {0, d.phys_page[v]}
  OBVIOUS
<1> HIDE DEF pp
<1>5. /\ e.valid = d.valid /\ e.writeflag = d.writeflag
      /\ e.vaddr_page = d.vaddr_page /\ e.paddr_page = d.paddr_page
      /\ e.host_load = d.host_load /\ e.host_store = d.host_store
      /\ e.phys_addr = d.phys_addr /\ e.phys_page = pp
      /\ e.vaddr_to_tlbindex = d.vaddr_to_tlbindex
      /\ SameCode(d, e)
  BY <1>2 DEF DyntransState, SameCode
<1>6. e \in DyntransState
  BY <1>2, <1>3 DEF DyntransState
<1> HIDE DEF e
<1>7. Typed(e)
  BY <1>5, <1>6 DEF Sound, Typed, SameCode
<1>8. TablesConsistent(e)
  BY <1>4, <1>5 DEF Sound, TablesConsistent, EntriesConsistent, ArraysConsistent
<1>9. PhysPagesLive(e) /\ BitmapCovers(e)
  BY <1>4, <1>5 DEF Sound, PhysPagesLive, BitmapCovers, SameCode
<1>10. Shrinks(d, e)
  BY <1>5 DEF Shrinks
<1> QED BY <1>1, <1>5, <1>7, <1>8, <1>9, <1>10 DEF Sound

(* Writing one physpage over with one of the same physical address, whose  *)
(* bitmap covers its translations, keeps the caches sound.                 *)
LEMMA RewritePageSound ==
    ASSUME NEW d, Sound(d), NEW o \in DOMAIN d.tc, NEW page \in PhysPage,
           page.physaddr = d.tc[o].physaddr,
           \A s \in page.ics : RangeOf[s] \in page.translations_bitmap
    PROVE  LET e == [d EXCEPT !.tc[o] = page]
           IN  /\ Sound(e) /\ Shrinks(d, e) /\ DOMAIN e.tc = DOMAIN d.tc
               /\ e.cur_ic_page = d.cur_ic_page /\ e.pc = d.pc
<1> DEFINE t == [d.tc EXCEPT ![o] = page]
           e == [d EXCEPT !.tc = t]
<1>1. e = [d EXCEPT !.tc[o] = page]
  OBVIOUS
<1>2. d \in DyntransState /\ d.tc \in Seq(PhysPage)
  BY DEF Sound, Typed, DyntransState
<1>3. DOMAIN d.tc = 1..Len(d.tc) /\ Len(d.tc) \in Nat
  BY <1>2, LenProperties
<1>4. t \in Seq(PhysPage) /\ Len(t) = Len(d.tc)
  BY <1>2, <1>3, ExceptSeq
<1>5. \A q \in DOMAIN d.tc : t[q] = IF q = o THEN page ELSE d.tc[q]
  BY <1>2
<1>6. DOMAIN t = DOMAIN d.tc
  BY <1>3, <1>4, LenProperties
<1> HIDE DEF t
<1>7. /\ e.valid = d.valid /\ e.writeflag = d.writeflag
      /\ e.vaddr_page = d.vaddr_page /\ e.paddr_page = d.paddr_page
      /\ e.host_load = d.host_load /\ e.host_store = d.host_store
      /\ e.phys_addr = d.phys_addr /\ e.phys_page = d.phys_page
      /\ e.vaddr_to_tlbindex = d.vaddr_to_tlbindex
      /\ e.tc = t /\ e.cur_ic_page = d.cur_ic_page /\ e.pc = d.pc
  BY <1>2 DEF DyntransState
<1>8. e \in DyntransState
  BY <1>2, <1>4 DEF DyntransState
<1> HIDE DEF e
<1>9. Typed(e)
  BY <1>4, <1>7, <1>8 DEF Sound, Typed
<1>10. TablesConsistent(e)
  BY <1>7 DEF Sound, TablesConsistent, EntriesConsistent, ArraysConsistent
<1>11. PhysPagesLive(e)
  BY <1>5, <1>6, <1>7 DEF Sound, PhysPagesLive
<1>12. BitmapCovers(e)
  BY <1>5, <1>6, <1>7 DEF Sound, BitmapCovers
<1>13. Shrinks(d, e)
  BY <1>7 DEF Shrinks
<1> QED BY <1>1, <1>6, <1>7, <1>9, <1>10, <1>11, <1>12, <1>13 DEF Sound

(* invalidate_code_translation clears every translation of the page.       *)
LEMMA InvalidateCodeSound ==
    ASSUME NEW d, Sound(d), NEW p
    PROVE  LET e == InvalidateCode(d, p)
           IN  /\ Sound(e) /\ Shrinks(d, e) /\ DOMAIN e.tc = DOMAIN d.tc
               /\ e.cur_ic_page = d.cur_ic_page /\ e.pc = d.pc
<1>1. CASE Chain(d, p) = {}
  BY <1>1 DEF InvalidateCode, Shrinks
<1>2. CASE Chain(d, p) # {}
  <2> DEFINE o == FindPage(d, p)
             page == ClearTranslations(d.tc[o])
             c == [d EXCEPT !.tc[o] = page]
             R == EntriesOf(d, p)
  <2>1. o \in DOMAIN d.tc
    BY <1>2, FindPageInChain
  <2>2. d.tc \in Seq(PhysPage) /\ DOMAIN d.tc = 1..Len(d.tc)
    BY LenProperties DEF Sound, Typed, DyntransState
  <2>3. d.tc[o] \in PhysPage
    BY <2>1, <2>2, ElementOfSeq
  <2>4. page \in PhysPage /\ page.physaddr = d.tc[o].physaddr
    BY <2>3 DEF ClearTranslations, PhysPage
  <2>5. \A s \in page.ics : RangeOf[s] \in page.translations_bitmap
    <3>1. page.ics = {s \in d.tc[o].ics : RangeOf[s] \notin d.tc[o].translations_bitmap}
      BY <2>3 DEF ClearTranslations, PhysPage
    <3>2. \A s \in d.tc[o].ics : RangeOf[s] \in d.tc[o].translations_bitmap
      BY <2>1 DEF Sound, BitmapCovers
    <3> QED BY <3>1, <3>2
  <2>6. InvalidateCode(d, p) = ForgetPhysPages(c, R)
    BY <1>2 DEF InvalidateCode
  <2> HIDE DEF o, page, R
  <2>7. /\ Sound(c) /\ Shrinks(d, c) /\ DOMAIN c.tc = DOMAIN d.tc
        /\ c.cur_ic_page = d.cur_ic_page /\ c.pc = d.pc
    BY <2>1, <2>4, <2>5, RewritePageSound
  <2> HIDE DEF c
  <2>8. LET e == ForgetPhysPages(c, R)
        IN  Sound(e) /\ SameCode(c, e) /\ Shrinks(c, e)
    BY <2>7, ForgetSound
  <2> QED BY <2>6, <2>7, <2>8 DEF SameCode, Shrinks
<1> QED BY <1>1, <1>2

(* Throwing the whole translation cache away leaves no phys_page behind.   *)
(* (cur_ic_page is stale until the caller sets it.)                        *)
LEMMA ResetSound ==
    ASSUME NEW d, Sound(d)
    PROVE  LET e == ResetTc(d)
           IN  Sound(e) /\ Shrinks(d, e) /\ e.tc = <<>> /\ e.pc = d.pc
               /\ \A v \in VPages : e.phys_page[v] = 0
<1> DEFINE pp == [v \in VPages |-> IF v \in PagesOf([d EXCEPT !.tc = <<>>], d.valid)
                                   THEN 0 ELSE d.phys_page[v]]
           e  == [d EXCEPT !.tc = <<>>, !.phys_page = pp]
<1>1. d \in DyntransState
  BY DEF Sound, Typed
<1>2. e = ResetTc(d)
  BY <1>1 DEF ResetTc, ForgetPhysPages, DyntransState
<1>3. PagesOf([d EXCEPT !.tc = <<>>], d.valid) = PagesOf(d, d.valid)
  BY <1>1 DEF PagesOf, DyntransState
<1>4. pp \in [VPages -> 0..TcPages]
  BY <1>1, DyntransAssumption DEF DyntransState
<1>5. \A v \in VPages : pp[v] = 0
  <2> SUFFICES ASSUME NEW v \in VPages, v \notin PagesOf(d, d.valid)
               PROVE  d.phys_page[v] = 0
    BY <1>3
  <2>1. d.vaddr_to_tlbindex[v] = 0
    BY MappedPage DEF PagesOf
  <2> QED BY <2>1 DEF Sound, TablesConsistent, ArraysConsistent
<1>6. <<>> \in Seq(PhysPage) /\ Len(<<>>) = 0 /\ DOMAIN <<>> = {}
  BY EmptySeq
<1> HIDE DEF pp
<1>7. /\ e.valid = d.valid /\ e.writeflag = d.writeflag
      /\ e.vaddr_page = d.vaddr_page /\ e.paddr_page = d.paddr_page
      /\ e.host_load = d.host_load /\ e.host_store = d.host_store
      /\ e.phys_addr = d.phys_addr /\ e.phys_page = pp
      /\ e.vaddr_to_tlbindex = d.vaddr_to_tlbindex
      /\ e.tc = <<>> /\ e.pc = d.pc
  BY <1>1 DEF DyntransState
<1>8. e \in DyntransState
  BY <1>1, <1>4, <1>6 DEF DyntransState
<1> HIDE DEF e
<1>9. Typed(e)
  BY <1>6, <1>7, <1>8, DyntransAssumption DEF Typed
<1>10. TablesConsistent(e)
  BY <1>5, <1>7 DEF Sound, TablesConsistent, EntriesConsistent, ArraysConsistent
<1>11. PhysPagesLive(e) /\ BitmapCovers(e)
  BY <1>5, <1>6, <1>7 DEF PhysPagesLive, BitmapCovers
<1>12. Shrinks(d, e)
  BY <1>7 DEF Shrinks
<1> QED BY <1>2, <1>5, <1>7, <1>9, <1>10, <1>11, <1>12 DEF Sound

(* After the check for a full cache there is room for one more physpage.   *)
LEMMA ResetIfFullSound ==
    ASSUME NEW d, Sound(d)
    PROVE  LET e == ResetTcIfFull(d)
           IN  Sound(e) /\ Shrinks(d, e) /\ Len(e.tc) < TcPages
<1>1. Len(d.tc) \in Nat /\ Len(<<>>) = 0
  BY LenProperties, EmptySeq DEF Sound, Typed, DyntransState
<1>2. CASE Len(d.tc) >= TcPages
  BY <1>1, <1>2, ResetSound, DyntransAssumption DEF ResetTcIfFull
<1>3. CASE ~(Len(d.tc) >= TcPages)
  BY <1>1, <1>3, DyntransAssumption DEF ResetTcIfFull, Shrinks
<1> QED BY <1>2, <1>3

(* The chain of p has a physpage after tc_allocate_default_page.           *)
LEMMA AllocateSound ==
    ASSUME NEW d, Sound(d), NEW p \in PPages, Len(d.tc) < TcPages
    PROVE  LET e == AllocatePage(d, p)
           IN  Sound(e) /\ Shrinks(d, e) /\ Chain(e, p) # {}
<1>1. CASE Chain(d, p) # {}
  BY <1>1 DEF AllocatePage, Shrinks
<1>2. CASE Chain(d, p) = {}
  <2> DEFINE page == [physaddr |-> p, ics |-> {}, translations_bitmap |-> {}]
             t == Append(d.tc, page)
             n == Len(d.tc) + 1
             e == [d EXCEPT !.tc = t]
  <2>1. e = AllocatePage(d, p)
    BY <1>2 DEF AllocatePage
  <2>2. d \in DyntransState /\ d.tc \in Seq(PhysPage)
    BY DEF Sound, Typed, DyntransState
  <2>3. /\ page \in PhysPage /\ page.physaddr = p /\ page.ics = {}
    BY DEF PhysPage
  <2>4. Len(d.tc) \in Nat /\ DOMAIN d.tc = 1..Len(d.tc)
    BY <2>2, LenProperties
  <2> HIDE DEF page
  <2>5. /\ t \in Seq(PhysPage) /\ Len(t) = n
        /\ \A i \in 1..Len(d.tc) : t[i] = d.tc[i]
        /\ t[n] = page
    BY <2>2, <2>3, AppendProperties
  <2>6. DOMAIN t = 1..n
    BY <2>5, LenProperties
  <2>7. \A i \in 1..n : i = n \/ i \in DOMAIN d.tc
    BY <2>4
  <2>8. n \in 1..n /\ \A i \in DOMAIN d.tc : i \in 1..n /\ i # n
    BY <2>4
  <2>9. \A i \in DOMAIN d.tc : d.tc[i].physaddr # p
    BY <1>2 DEF Chain
  <2> HIDE DEF t
  <2>10. /\ e.valid = d.valid /\ e.writeflag = d.writeflag
         /\ e.vaddr_page = d.vaddr_page /\ e.paddr_page = d.paddr_page
         /\ e.host_load = d.host_load /\ e.host_store = d.host_store
         /\ e.phys_addr = d.phys_addr /\ e.phys_page = d.phys_page
         /\ e.vaddr_to_tlbindex = d.vaddr_to_tlbindex
         /\ e.tc = t
    BY <2>2 DEF DyntransState
  <2>11. e \in DyntransState
    BY <2>2, <2>5 DEF DyntransState
  <2>12. Len(t) <= TcPages
    BY <2>4, <2>5, DyntransAssumption
  <2> HIDE DEF n, e
  <2>13. Typed(e)
    BY <2>10, <2>11, <2>12 DEF Typed
  <2>14. TablesConsistent(e)
    BY <2>10 DEF Sound, TablesConsistent, EntriesConsistent, ArraysConsistent
  <2>15. PhysPagesLive(e)
    BY SMTT(30), <2>3, <2>4, <2>5, <2>6, <2>7, <2>8, <2>9, <2>10 DEF Sound, PhysPagesLive
  <2>16. BitmapCovers(e)
    BY <2>3, <2>4, <2>5, <2>6, <2>7, <2>10 DEF Sound, BitmapCovers
  <2>17. n \in Chain(e, p)
    BY <2>3, <2>5, <2>6, <2>8, <2>10 DEF Chain
  <2>18. Shrinks(d, e)
    BY <2>10 DEF Shrinks
  <2> QED BY <2>1, <2>13, <2>14, <2>15, <2>16, <2>17, <2>18 DEF Sound
<1> QED BY <1>1, <1>2

(* phys_page is set to the physpage of the page's own physical address.    *)
LEMMA SetPhysPageSound ==
    ASSUME NEW d, Sound(d), NEW p, Chain(d, p) # {}, NEW v \in VPages,
           d.host_load[v] # NULL => d.phys_addr[v] = p
    PROVE  LET e == SetPhysPage(d, v, p)
           IN  Sound(e) /\ Shrinks(d, e) /\ e.tc = d.tc
<1>1. CASE d.host_load[v] = NULL
  BY <1>1 DEF SetPhysPage, Shrinks
<1>2. CASE d.host_load[v] # NULL
  <2> DEFINE o  == FindPage(d, p)
             pp == [d.phys_page EXCEPT ![v] = o]
             e  == [d EXCEPT !.phys_page = pp]
  <2>1. e = SetPhysPage(d, v, p)
    BY <1>2 DEF SetPhysPage
  <2>2. d \in DyntransState
    BY DEF Sound, Typed
  <2>3. o \in DOMAIN d.tc /\ d.tc[o].physaddr = p /\ o \in 1..TcPages
    BY FindPageInChain
  <2> HIDE DEF o
  <2>4. pp \in [VPages -> 0..TcPages]
    BY <2>2, <2>3, DyntransAssumption DEF DyntransState
  <2>5. \A w \in VPages : pp[w] = IF w = v THEN o ELSE d.phys_page[w]
    BY <2>2 DEF DyntransState
  <2>6. d.vaddr_to_tlbindex[v] # 0
    BY <1>2, MappedPage
  <2> HIDE DEF pp
  <2>7. /\ e.valid = d.valid /\ e.writeflag = d.writeflag
        /\ e.vaddr_page = d.vaddr_page /\ e.paddr_page = d.paddr_page
        /\ e.host_load = d.host_load /\ e.host_store = d.host_store
        /\ e.phys_addr = d.phys_addr /\ e.phys_page = pp
        /\ e.vaddr_to_tlbindex = d.vaddr_to_tlbindex
        /\ e.tc = d.tc
    BY <2>2 DEF DyntransState
  <2>8. e \in DyntransState
    BY <2>2, <2>4 DEF DyntransState
  <2> HIDE DEF e
  <2>9. Typed(e)
    BY <2>7, <2>8 DEF Sound, Typed
  <2>10. TablesConsistent(e)
    BY <2>5, <2>6, <2>7 DEF Sound, TablesConsistent, EntriesConsistent, ArraysConsistent
  <2>11. PhysPagesLive(e) /\ BitmapCovers(e)
    BY <1>2, <2>3, <2>5, <2>7 DEF Sound, PhysPagesLive, BitmapCovers
  <2>12. Shrinks(d, e)
    BY <2>7 DEF Shrinks
  <2> QED BY <2>1, <2>7, <2>9, <2>10, <2>11, <2>12 DEF Sound
<1> QED BY <1>1, <1>2

(* Moving the pc to a page whose physpage is o. *)
LEMMA MoveSound ==
    ASSUME NEW d, Sound(d), NEW v \in VPages, NEW o \in DOMAIN d.tc
    PROVE  LET e == [d EXCEPT !.pc = v, !.cur_ic_page = o]
           IN  Sound(e) /\ Shrinks(d, e) /\ CurIcPageLive(e)
<1> DEFINE e == [d EXCEPT !.pc = v, !.cur_ic_page = o]
<1>1. d \in DyntransState /\ d.tc \in Seq(PhysPage) /\ Len(d.tc) <= TcPages
  BY DEF Sound, Typed, DyntransState
<1>2. Len(d.tc) \in Nat /\ DOMAIN d.tc = 1..Len(d.tc)
  BY <1>1, LenProperties
<1>3. o \in 0..TcPages
  BY <1>1, <1>2, DyntransAssumption
<1>4. /\ e.valid = d.valid /\ e.writeflag = d.writeflag
      /\ e.vaddr_page = d.vaddr_page /\ e.paddr_page = d.paddr_page
      /\ e.host_load = d.host_load /\ e.host_store = d.host_store
      /\ e.phys_addr = d.phys_addr /\ e.phys_page = d.phys_page
      /\ e.vaddr_to_tlbindex = d.vaddr_to_tlbindex
      /\ e.tc = d.tc /\ e.cur_ic_page = o
  BY <1>1 DEF DyntransState
<1>5. e \in DyntransState
  BY <1>1, <1>3 DEF DyntransState
<1> HIDE DEF e
<1>6. Typed(e)
  BY <1>4, <1>5 DEF Sound, Typed
<1>7. TablesConsistent(e)
  BY <1>4 DEF Sound, TablesConsistent, EntriesConsistent, ArraysConsistent
<1>8. PhysPagesLive(e) /\ BitmapCovers(e)
  BY <1>4 DEF Sound, PhysPagesLive, BitmapCovers
<1>9. Shrinks(d, e) /\ CurIcPageLive(e)
  BY <1>4 DEF Shrinks, CurIcPageLive
<1> QED BY <1>6, <1>7, <1>8, <1>9 DEF Sound, e

(* The caches are sound and agree with the guest's translation. *)
Faithful(d, xl, ws) == Sound(d) /\ Agrees(d, xl, ws)

(* pc_to_pointers_generic leaves the caches sound and cur_ic_page live,    *)
(* even when it had to throw the translation cache away.                   *)
LEMMA PcToPointersGenericSound ==
    ASSUME NEW d, NEW xl \in [VPages -> HostPtr], NEW ws, Faithful(d, xl, ws),
           NEW v \in VPages, NEW p \in PPages, xl[v] = p, NEW ram
    PROVE  LET e == PcToPointersGeneric(d, v, p, ram)
           IN  Faithful(e, xl, ws) /\ CurIcPageLive(e)
<1> DEFINE d1 == MapCodePage(d, v, p, ram)
           d2 == ResetTcIfFull(d1)
           d3 == AllocatePage(d2, p)
           d4 == SetPhysPage(d3, v, p)
           d5 == ProtectIfUntranslated(d4, p)
           d6 == [d5 EXCEPT !.pc = v, !.cur_ic_page = FindPage(d5, p)]
<1>1. d6 = PcToPointersGeneric(d, v, p, ram)
  BY DEF PcToPointersGeneric, SetPointers
<1>2. Faithful(d1, xl, ws)
  BY UpdateSound DEF MapCodePage, Faithful
<1> HIDE DEF d1
<1>3. Faithful(d2, xl, ws) /\ Len(d2.tc) < TcPages
  BY <1>2, ResetIfFullSound, ShrinksAgrees DEF Faithful
<1> HIDE DEF d2
<1>4. Faithful(d3, xl, ws) /\ Chain(d3, p) # {}
  BY <1>3, AllocateSound, ShrinksAgrees DEF Faithful
<1> HIDE DEF d3
<1>5. d3.host_load[v] # NULL => d3.phys_addr[v] = p
  BY <1>4, MappedPage DEF Faithful, Agrees
<1>6. Faithful(d4, xl, ws) /\ d4.tc = d3.tc
  BY <1>4, <1>5, SetPhysPageSound, ShrinksAgrees DEF Faithful
<1> HIDE DEF d4
<1>7. Faithful(d5, xl, ws) /\ d5.tc = d4.tc
  <2>1. CASE d4.tc[FindPage(d4, p)].translations_bitmap = {}
    BY <2>1, <1>6, MarkNonWritableSound, ShrinksAgrees
    DEF ProtectIfUntranslated, Faithful, SameCode
  <2>2. CASE d4.tc[FindPage(d4, p)].translations_bitmap # {}
    BY <2>2, <1>6 DEF ProtectIfUntranslated
  <2> QED BY <2>1, <2>2
<1> HIDE DEF d5
<1>8. FindPage(d5, p) \in DOMAIN d5.tc
  <2>1. Chain(d5, p) # {}
    BY <1>4, <1>6, <1>7 DEF Chain
  <2> QED BY <2>1, <1>7, FindPageInChain DEF Faithful
<1>9. Faithful(d6, xl, ws) /\ CurIcPageLive(d6)
  BY <1>7, <1>8, MoveSound, ShrinksAgrees DEF Faithful
<1> HIDE DEF d6
<1> QED BY <1>1, <1>9

(* pc_to_pointers of a page that can be fetched from. *)
LEMMA PcToMappedPageSound ==
    ASSUME NEW d, NEW xl \in [VPages -> HostPtr], NEW ws, Faithful(d, xl, ws),
           NEW v \in VPages, NEW ram,
           d.phys_page[v] # 0 \/ FetchPaddr(d, xl, v) # NULL
    PROVE  LET e == PcToMappedPage(d, xl, ram, v)
           IN  Faithful(e, xl, ws) /\ CurIcPageLive(e)
<1>1. CASE d.phys_page[v] # 0
  <2>1. d.phys_page[v] \in DOMAIN d.tc
    BY <1>1 DEF Faithful, Sound, PhysPagesLive
  <2> QED BY <1>1, <2>1, MoveSound, ShrinksAgrees DEF Faithful, PcToMappedPage
<1>2. CASE d.phys_page[v] = 0
  <2> DEFINE p == FetchPaddr(d, xl, v)
  <2>1. p = xl[v] /\ p \in PPages
    <3>1. CASE d.host_load[v] # NULL
      <4>1. p = d.phys_addr[v]
        BY <3>1 DEF FetchPaddr
      <4>2. d.phys_addr[v] \in PPages
        BY DEF Faithful, Sound, Typed, DyntransState
      <4> QED BY <3>1, <4>1, <4>2, MappedPage DEF Faithful, Agrees
    <3>2. CASE d.host_load[v] = NULL
      BY <1>2, <3>2 DEF FetchPaddr, HostPtr
    <3> QED BY <3>1, <3>2
  <2> HIDE DEF p
  <2>2. PcToMappedPage(d, xl, ram, v) = PcToPointersGeneric(d, v, p, ram)
    BY <1>2 DEF PcToMappedPage, p
  <2> QED BY <2>1, <2>2, PcToPointersGenericSound
<1> QED BY <1>1, <1>2

(* pc_to_pointers, with the detour over the exception handler when the     *)
(* page cannot be fetched from.                                            *)
LEMMA PcToPointersSound ==
    ASSUME NEW d, NEW xl \in [VPages -> HostPtr], NEW ws, Faithful(d, xl, ws),
           NEW v \in VPages, NEW ram,
           NEW vector \in VPages, xl[vector] # NULL
    PROVE  LET e == PcToPointers(d, xl, ram, vector, v)
           IN  Faithful(e, xl, ws) /\ CurIcPageLive(e)
<1>0. ASSUME NEW c, Faithful(c, xl, ws)
      PROVE  FetchPaddr(c, xl, vector) = xl[vector]
  BY <1>0, MappedPage DEF FetchPaddr, Faithful, Agrees
<1>1. CASE d.phys_page[v] # 0 \/ FetchPaddr(d, xl, v) # NULL
  BY <1>1, PcToMappedPageSound DEF PcToPointers
<1>2. CASE ~(d.phys_page[v] # 0 \/ FetchPaddr(d, xl, v) # NULL)
  <2> DEFINE c == PcToMappedPage(d, xl, ram, vector)
             p == FetchPaddr(c, xl, vector)
  <2>1. PcToPointers(d, xl, ram, vector, v)
          = PcToPointersGeneric(c, vector, p, ram)
    BY <1>2 DEF PcToPointers
  <2>2. Faithful(c, xl, ws)
    BY <1>0, PcToMappedPageSound
  <2> HIDE DEF c
  <2>3. p = xl[vector] /\ p \in PPages
    BY <1>0, <2>2 DEF HostPtr
  <2> HIDE DEF p
  <2> QED BY <2>1, <2>2, <2>3, PcToPointersGenericSound
<1> QED BY <1>1, <1>2

(* Translating slots of the current page sets their bitmap bits. *)
LEMMA TranslateSound ==
    ASSUME NEW d, Sound(d), CurIcPageLive(d), d.cur_ic_page # 0,
           NEW S \in SUBSET Slots
    PROVE  LET e == Translate(d, S)
           IN  Sound(e) /\ Shrinks(d, e) /\ CurIcPageLive(e)
<1> DEFINE o == d.cur_ic_page
           old == d.tc[o]
           page == AddTranslations(old, S)
           e == [d EXCEPT !.tc[o] = page]
<1>1. o \in DOMAIN d.tc
  BY DEF CurIcPageLive
<1>2. d.tc \in Seq(PhysPage) /\ DOMAIN d.tc = 1..Len(d.tc)
  BY LenProperties DEF Sound, Typed, DyntransState
<1>3. old \in PhysPage
  BY <1>1, <1>2, ElementOfSeq
<1>4. \A s \in old.ics : RangeOf[s] \in old.translations_bitmap
  BY <1>1 DEF Sound, BitmapCovers
<1>5. e = Translate(d, S)
  BY DEF Translate
<1> HIDE DEF old
<1>6. /\ page.physaddr = old.physaddr
      /\ page.ics = old.ics \cup S
      /\ page.translations_bitmap =
            old.translations_bitmap \cup {RangeOf[s] : s \in S}
  BY <1>3 DEF PhysPage, AddTranslations
<1>7. page \in PhysPage
  BY <1>3 DEF PhysPage, Ranges, AddTranslations
<1>8. \A s \in page.ics : RangeOf[s] \in page.translations_bitmap
  BY <1>4, <1>6
<1> HIDE DEF page
<1>9. /\ Sound(e) /\ Shrinks(d, e) /\ DOMAIN e.tc = DOMAIN d.tc
      /\ e.cur_ic_page = d.cur_ic_page
  BY <1>1, <1>6, <1>7, <1>8, RewritePageSound DEF old
<1> HIDE DEF e
<1> QED BY <1>5, <1>9 DEF CurIcPageLive

-----------------------------------------------------------------------------
(* The actions of Mips3k.                                                  *)

(* The pages that host_store may be set for: none while caches are isolated. *)
Storable(t, a, z) == IF z THEN {} ELSE Writable(t, a)

Current(d, t, a, z) == Faithful(d, Fetch(t, a), Storable(t, a, z))

Good(d, t, a, z) == Current(d, t, a, z) /\ CurIcPageLive(d)

GuestState == /\ tlbs \in [TlbIndex -> TlbEntry]
              /\ asid \in Asids
              /\ isolated \in BOOLEAN
              /\ allocated \in SUBSET PPages
              /\ running \in BOOLEAN
              /\ GuestTlb(tlbs)

IInv == GuestState /\ Good(dyn, tlbs, asid, isolated)

-----------------------------------------------------------------------------
(* Address translation.                                                    *)

(* At most one entry matches a mapped page, so the one that is found is    *)
(* the one that matches.                                                   *)
LEMMA OneMatch ==
    ASSUME NEW t, GuestTlb(t), NEW a, NEW v \in Mapped, NEW j \in Matches(t, a, v)
    PROVE  Matches(t, a, v) = {j} /\ Match(t, a, v) = j
<1>1. \A k \in Matches(t, a, v) : k = j
  BY DEF GuestTlb, NoDuplicate, Matches
<1>2. Matches(t, a, v) = {j}
  BY <1>1
<1> QED BY <1>2 DEF Match

(* What translate_v2p returns for a mapped page with a matching entry. *)
LEMMA TranslateMatch ==
    ASSUME NEW t \in [TlbIndex -> TlbEntry], GuestTlb(t), NEW a,
           NEW v \in Mapped, NEW j \in Matches(t, a, v)
    PROVE  /\ \A w \in BOOLEAN : TranslateOk(t, a, v, w) =
                IF ~t[j].v \/ (w /\ ~t[j].d) THEN 0 ELSE IF t[j].d THEN 2 ELSE 1
           /\ TranslatePaddr(t, a, v) = t[j].pfn
           /\ t[j].pfn \in PPages
           /\ \A w \in BOOLEAN : TranslateOk(t, a, v, w) # 0 => t[j].v
           /\ \A w \in BOOLEAN : TranslateOk(t, a, v, w) = 2 => t[j].v /\ t[j].d
           /\ t[j].v => TranslateOk(t, a, v, FALSE) # 0
           /\ t[j].v /\ t[j].d => TranslateOk(t, a, v, TRUE) = 2
<1>1. Match(t, a, v) = j /\ Matches(t, a, v) # {} /\ v \notin Kseg /\ j \in TlbIndex
  BY OneMatch DEF Mapped, Matches
<1>2. t[j] \in TlbEntry
  BY <1>1
<1>3. t[j].pfn \in PPages /\ t[j].v \in BOOLEAN /\ t[j].d \in BOOLEAN
  BY <1>2 DEF TlbEntry
<1>4. \A w \in BOOLEAN : TranslateOk(t, a, v, w) =
        IF ~t[j].v \/ (w /\ ~t[j].d) THEN 0 ELSE IF t[j].d THEN 2 ELSE 1
  BY <1>1 DEF TranslateOk
<1>5. TranslatePaddr(t, a, v) = t[j].pfn
  BY <1>1 DEF TranslatePaddr
<1>6. t[j].v => TranslateOk(t, a, v, FALSE) # 0
  <2>1. TranslateOk(t, a, v, FALSE) = IF ~t[j].v THEN 0 ELSE IF t[j].d THEN 2 ELSE 1
    BY <1>1 DEF TranslateOk
  <2>2. t[j].v => TranslateOk(t, a, v, FALSE) \in {1, 2}
    BY <2>1
  <2>3. 0 \notin {1, 2}
    OBVIOUS
  <2> QED BY <2>2, <2>3, Zenon
<1>7. t[j].v /\ t[j].d => TranslateOk(t, a, v, TRUE) = 2
  BY <1>4
<1>8. \A w \in BOOLEAN : TranslateOk(t, a, v, w) # 0 => t[j].v
  BY <1>4
<1>9. \A w \in BOOLEAN : TranslateOk(t, a, v, w) = 2 => t[j].v /\ t[j].d
  BY <1>4
<1> QED BY <1>3, <1>4, <1>5, <1>6, <1>7, <1>8, <1>9

(* The two directions of a translation: what the fast tables may hold is   *)
(* what an access finds.                                                   *)
LEMMA TranslateFetch ==
    ASSUME NEW t \in [TlbIndex -> TlbEntry], GuestTlb(t), NEW a,
           NEW v \in VPages, NEW w \in BOOLEAN, TranslateOk(t, a, v, w) # 0
    PROVE  /\ TranslatePaddr(t, a, v) \in PPages
           /\ Fetch(t, a)[v] = TranslatePaddr(t, a, v)
           /\ TranslateOk(t, a, v, w) = 2 => v \in Writable(t, a)
<1>1. CASE v \in Kseg
  BY <1>1, MipsAssumption DEF TranslateOk, TranslatePaddr, Fetch, Writable
<1>2. CASE v \notin Kseg
  <2>1. v \in Mapped /\ Matches(t, a, v) # {}
    BY <1>2 DEF Mapped, TranslateOk
  <2>2. PICK j \in Matches(t, a, v) : TRUE
    BY <2>1
  <2>3. /\ \A x \in BOOLEAN : TranslateOk(t, a, v, x) =
              IF ~t[j].v \/ (x /\ ~t[j].d) THEN 0 ELSE IF t[j].d THEN 2 ELSE 1
        /\ TranslatePaddr(t, a, v) = t[j].pfn
        /\ t[j].pfn \in PPages
        /\ TranslateOk(t, a, v, w) = 2 => t[j].v /\ t[j].d
    BY <2>1, <2>2, TranslateMatch
  <2>4. TranslateOk(t, a, v, FALSE) # 0
    BY <2>3
  <2>5. TranslateOk(t, a, v, w) = 2 => TranslateOk(t, a, v, TRUE) = 2
    BY <2>3
  <2> QED BY <2>3, <2>4, <2>5 DEF Fetch, Writable
<1> QED BY <1>1, <1>2

LEMMA FetchType ==
    ASSUME NEW t \in [TlbIndex -> TlbEntry], GuestTlb(t), NEW a
    PROVE  /\ Fetch(t, a) \in [VPages -> HostPtr]
           /\ Vector \in VPages
           /\ Fetch(t, a)[Vector] # NULL
           /\ \A v \in Kseg : v \in VPages /\ Fetch(t, a)[v] = KsegPhys[v] /\ v \in Writable(t, a)
<1>1. \A v \in VPages : Fetch(t, a)[v] \in HostPtr
  <2> SUFFICES ASSUME NEW v \in VPages, TranslateOk(t, a, v, FALSE) # 0
               PROVE  TranslatePaddr(t, a, v) \in PPages
    BY DEF Fetch, HostPtr
  <2> QED BY TranslateFetch
<1>2. \A v \in Kseg : v \in VPages /\ Fetch(t, a)[v] = KsegPhys[v] /\ v \in Writable(t, a)
  BY MipsAssumption DEF Fetch, TranslateOk, TranslatePaddr, Writable
<1>3. Vector \in Kseg /\ KsegPhys[Vector] \in PPages
  BY MipsAssumption
<1>4. Fetch(t, a) = [v \in VPages |-> Fetch(t, a)[v]]
  BY DEF Fetch
<1> QED BY <1>1, <1>2, <1>3, <1>4, DyntransAssumption

-----------------------------------------------------------------------------
(* The operations that the actions share.                                  *)

LEMMA PcToGood ==
    ASSUME IInv, NEW d, Current(d, tlbs, asid, isolated), NEW v \in VPages
    PROVE  Good(PcTo(d, v), tlbs, asid, isolated)
BY FetchType, PcToPointersSound DEF IInv, GuestState, Current, Good, PcTo

(* memory_rw keeps the caches good if what it maps is what the guest's     *)
(* translation says.                                                       *)
LEMMA MemoryRwGood ==
    ASSUME NEW d, NEW t, NEW a, NEW z, Good(d, t, a, z),
           NEW v \in VPages, NEW p \in PPages,
           NEW write \in BOOLEAN, NEW map \in BOOLEAN, NEW wf \in BOOLEAN,
           NEW inval \in BOOLEAN,
           map => Fetch(t, a)[v] = p /\ (wf => v \in Storable(t, a, z))
    PROVE  LET e == MemoryRw(d, v, p, write, map, wf, inval)
           IN  Good(e, t, a, z) /\ e.cur_ic_page = d.cur_ic_page
<1> DEFINE c == IF map THEN UpdateTranslationTable(d, v, p, wf) ELSE d
           e == MemoryRw(d, v, p, write, map, wf, inval)
<1>1. Current(c, t, a, z) /\ c.tc = d.tc /\ c.cur_ic_page = d.cur_ic_page
  BY UpdateSound DEF Good, Current, Faithful, SameCode
<1>2. e \in {d, c, InvalidateCode(c, p)}
  BY DEF MemoryRw
<1> HIDE DEF c
<1>3. /\ Current(InvalidateCode(c, p), t, a, z)
      /\ DOMAIN InvalidateCode(c, p).tc = DOMAIN c.tc
      /\ InvalidateCode(c, p).cur_ic_page = c.cur_ic_page
  BY <1>1, InvalidateCodeSound, ShrinksAgrees DEF Current, Faithful
<1> HIDE DEF e
<1>4. Good(e, t, a, z) /\ e.cur_ic_page = d.cur_ic_page
  BY <1>1, <1>2, <1>3 DEF Good, CurIcPageLive
<1> QED BY <1>4 DEF e

(* Invalidating any pages, and with them the code pointers of the CPU left *)
(* alone, keeps the caches good.                                           *)
LEMMA InvalidateGood ==
    ASSUME NEW d, NEW t, NEW a, NEW z, Good(d, t, a, z), NEW W \in SUBSET VPages
    PROVE  Good(InvalidateTlbEntries(d, W), t, a, z)
BY InvalidateSound, ShrinksAgrees DEF Good, Current, Faithful, SameCode, CurIcPageLive

LEMMA InvalidateAllGood ==
    ASSUME NEW d, NEW t, NEW a, NEW z, Good(d, t, a, z)
    PROVE  Good(InvalidateAll(d), t, a, z)
<1>1. PagesOf(d, d.valid) \in SUBSET VPages
  BY DEF PagesOf, Good, Current, Faithful, Sound, Typed, DyntransState
<1> QED BY <1>1, InvalidateGood DEF InvalidateAll

LEMMA InvalidateCodeGood ==
    ASSUME NEW d, NEW t, NEW a, NEW z, Good(d, t, a, z), NEW p
    PROVE  Good(InvalidateCode(d, p), t, a, z)
BY InvalidateCodeSound, ShrinksAgrees DEF Good, Current, Faithful, CurIcPageLive

(* Forgetting the current page, as the debugger does. *)
LEMMA NoCurrentPage ==
    ASSUME NEW d, NEW t, NEW a, NEW z, Current(d, t, a, z)
    PROVE  Good([d EXCEPT !.cur_ic_page = 0], t, a, z)
<1> DEFINE e == [d EXCEPT !.cur_ic_page = 0]
<1>1. d \in DyntransState
  BY DEF Current, Faithful, Sound, Typed
<1>2. /\ e.valid = d.valid /\ e.writeflag = d.writeflag
      /\ e.vaddr_page = d.vaddr_page /\ e.paddr_page = d.paddr_page
      /\ e.host_load = d.host_load /\ e.host_store = d.host_store
      /\ e.phys_addr = d.phys_addr /\ e.phys_page = d.phys_page
      /\ e.vaddr_to_tlbindex = d.vaddr_to_tlbindex
      /\ e.tc = d.tc /\ e.cur_ic_page = 0
  BY <1>1 DEF DyntransState
<1>3. e \in DyntransState
  <2>1. 0 \in 0..TcPages
    BY DyntransAssumption
  <2> QED BY <1>1, <2>1 DEF DyntransState
<1> HIDE DEF e
<1>4. Typed(e)
  BY <1>2, <1>3 DEF Current, Faithful, Sound, Typed
<1>5. TablesConsistent(e)
  BY <1>2 DEF Current, Faithful, Sound, TablesConsistent, EntriesConsistent,
              ArraysConsistent
<1>6. PhysPagesLive(e) /\ BitmapCovers(e)
  BY <1>2 DEF Current, Faithful, Sound, PhysPagesLive, BitmapCovers
<1>7. Agrees(e, Fetch(t, a), Storable(t, a, z)) /\ CurIcPageLive(e)
  BY <1>2 DEF Current, Faithful, Agrees, CurIcPageLive
<1> QED BY <1>4, <1>5, <1>6, <1>7 DEF Good, Current, Faithful, Sound, e

-----------------------------------------------------------------------------
(* The guest's TLB and address space.                                      *)

(* A mapping that survives the replacement of entry i is of another entry, *)
(* which the new one cannot shadow.                                        *)
LEMMA SurvivesTlbWrite ==
    ASSUME NEW t \in [TlbIndex -> TlbEntry], GuestTlb(t), NEW a, NEW i \in TlbIndex,
           NEW e \in TlbEntry, e.asid = a, NoDuplicate(t, i, e), e.v => e.vpn \in Mapped,
           NEW v \in VPages, Fetch(t, a)[v] # NULL,
           ~(t[i].v /\ (t[i].g \/ t[i].asid = a) /\ t[i].vpn = v)
    PROVE  LET u == [t EXCEPT ![i] = e]
           IN  /\ Fetch(u, a)[v] = Fetch(t, a)[v]
               /\ v \in Writable(t, a) => v \in Writable(u, a)
<1> DEFINE u == [t EXCEPT ![i] = e]
<1>1. CASE v \in Kseg
  BY <1>1 DEF Fetch, Writable, TranslateOk, TranslatePaddr
<1>2. CASE v \notin Kseg
  <2>1. v \in Mapped /\ TranslateOk(t, a, v, FALSE) # 0 /\ Matches(t, a, v) # {}
    BY <1>2 DEF Mapped, Fetch, TranslateOk
  <2>2. PICK j \in Matches(t, a, v) : TRUE
    BY <2>1
  <2>3. t[j].v /\ j \in TlbIndex /\ t[j].vpn = v /\ (t[j].g \/ t[j].asid = a)
    <3>1. t[j].v
      BY <2>1, <2>2, TranslateMatch
    <3> QED BY <3>1, <2>2 DEF Matches
  <2>4. j # i
    BY <2>3
  <2>5. u[j] = t[j] /\ u[i] = e /\ \A k \in TlbIndex \ {i} : u[k] = t[k]
    BY <2>3, <2>4
  <2>6. e.vpn # v
    BY <2>1, <2>3, <2>4 DEF NoDuplicate
  <2>7. Matches(u, a, v) = Matches(t, a, v)
    <3>1. i \notin Matches(u, a, v) /\ i \notin Matches(t, a, v)
      BY <2>1, <2>2, <2>4, <2>5, <2>6, OneMatch DEF Matches
    <3>2. \A k \in TlbIndex \ {i} : k \in Matches(u, a, v) <=> k \in Matches(t, a, v)
      BY <2>5 DEF Matches
    <3> QED BY <3>1, <3>2 DEF Matches
  <2>8. Match(t, a, v) = j
    BY <2>1, <2>2, OneMatch
  <2>9. Match(u, a, v) = Match(t, a, v)
    BY <2>7 DEF Match
  <2> HIDE DEF u
  <2>10. \A w \in BOOLEAN : TranslateOk(u, a, v, w) = TranslateOk(t, a, v, w)
    BY <2>5, <2>7, <2>8, <2>9 DEF TranslateOk
  <2>11. TranslatePaddr(u, a, v) = TranslatePaddr(t, a, v)
    BY <2>5, <2>8, <2>9 DEF TranslatePaddr
  <2> QED BY <2>10, <2>11 DEF Fetch, Writable, u
<1> QED BY <1>1, <1>2

(* A TLB write that duplicates nothing leaves a TLB without duplicates. *)
LEMMA TlbWriteUnique ==
    ASSUME NEW t \in [TlbIndex -> TlbEntry], GuestTlb(t), NEW i \in TlbIndex,
           NEW e \in TlbEntry, NoDuplicate(t, i, e), e.v => e.vpn \in Mapped
    PROVE  GuestTlb([t EXCEPT ![i] = e])
<1> DEFINE u == [t EXCEPT ![i] = e]
<1>1. u[i] = e /\ \A k \in TlbIndex \ {i} : u[k] = t[k]
  OBVIOUS
<1> HIDE DEF u
<1>2. \A k \in TlbIndex : u[k].v => u[k].vpn \in Mapped
  BY <1>1 DEF GuestTlb
<1>3. ASSUME NEW k \in TlbIndex, NEW j \in TlbIndex \ {k},
             u[j].vpn = u[k].vpn, u[k].vpn \in Mapped
      PROVE  ~(u[j].g \/ u[k].g \/ u[j].asid = u[k].asid)
  <2>1. CASE k = i
    BY <1>1, <1>3, <2>1 DEF NoDuplicate
  <2>2. CASE j = i
    BY <1>1, <1>3, <2>2 DEF NoDuplicate
  <2>3. CASE k # i /\ j # i
    BY <1>1, <1>3, <2>3 DEF GuestTlb, NoDuplicate
  <2> QED BY <2>1, <2>2, <2>3
<1> QED BY <1>2, <1>3 DEF GuestTlb, NoDuplicate, u

(* The entry just written is the one that translates its page. *)
LEMMA NewEntryTranslates ==
    ASSUME NEW t \in [TlbIndex -> TlbEntry], GuestTlb(t), NEW a, NEW i \in TlbIndex,
           t[i].asid = a, t[i].v
    PROVE  /\ t[i].vpn \in VPages
           /\ Fetch(t, a)[t[i].vpn] = t[i].pfn
           /\ t[i].d => t[i].vpn \in Writable(t, a)
<1> DEFINE v == t[i].vpn
<1>1. v \in Mapped /\ v \in VPages
  BY DEF GuestTlb, Mapped
<1>2. i \in Matches(t, a, v)
  BY DEF Matches
<1> HIDE DEF v
<1>3. /\ TranslateOk(t, a, v, FALSE) # 0
      /\ t[i].d => TranslateOk(t, a, v, TRUE) = 2
      /\ TranslatePaddr(t, a, v) = t[i].pfn
  <2>1. TranslateOk(t, a, v, FALSE) # 0
    BY <1>1, <1>2, TranslateMatch
  <2>2. t[i].d => TranslateOk(t, a, v, TRUE) = 2
    BY <1>1, <1>2, TranslateMatch
  <2>3. Match(t, a, v) = i
    BY <1>1, <1>2, OneMatch
  <2> QED BY <1>1, <2>1, <2>2, <2>3 DEF TranslatePaddr, Mapped
<1>4. Fetch(t, a)[v] = t[i].pfn
  BY <1>1, <1>3 DEF Fetch
<1>5. t[i].d => v \in Writable(t, a)
  BY <1>1, <1>3 DEF Writable
<1> QED BY <1>1, <1>4, <1>5 DEF v

(* coproc_tlbwri: the old mapping goes, mappings of other entries stay     *)
(* right, and the mapping that is entered is the one the new entry makes.  *)
LEMMA TlbWriteStep ==
    ASSUME IInv, NEW i \in TlbIndex, NEW e \in GuestEntry, TlbWrite(i, e)
    PROVE  IInv'
<1> DEFINE u  == [tlbs EXCEPT ![i] = e]
           d1 == InvalidateOld(dyn, i)
           d2 == InvalidateDirty(d1, e)
           d3 == EnterNew(d2, e)
<1>1. /\ tlbs \in [TlbIndex -> TlbEntry] /\ GuestTlb(tlbs) /\ asid \in Asids
      /\ Good(dyn, tlbs, asid, isolated) /\ tlbs' = u
      /\ asid' = asid /\ isolated' = isolated /\ allocated' = allocated
      /\ isolated \in BOOLEAN /\ running' \in BOOLEAN
      /\ dyn' = IF isolated THEN d2 ELSE d3
  BY DEF IInv, GuestState, TlbWrite
<1>2. e \in TlbEntry /\ e.asid = asid /\ NoDuplicate(tlbs, i, e)
      /\ (e.v => e.vpn \in Mapped)
  BY DEF TlbWrite, GuestEntry
<1>3. u \in [TlbIndex -> TlbEntry] /\ GuestTlb(u) /\ u[i] = e
  BY <1>1, <1>2, TlbWriteUnique
<1>4. tlbs[i].vpn \in VPages
  BY <1>1 DEF TlbEntry
<1>5. Good(d1, tlbs, asid, isolated)
  BY <1>1, <1>4, InvalidateGood DEF InvalidateOld, InvalidateVaddr
<1>6. ASSUME NEW v \in VPages, d1.host_load[v] # NULL
      PROVE  ~(tlbs[i].v /\ (tlbs[i].g \/ tlbs[i].asid = asid) /\ tlbs[i].vpn = v)
  <2> SUFFICES ASSUME tlbs[i].v, tlbs[i].g \/ tlbs[i].asid = asid, tlbs[i].vpn = v
               PROVE  FALSE
    OBVIOUS
  <2>1. d1 = InvalidateTlbEntries(dyn, {v})
    BY DEF InvalidateOld, InvalidateVaddr
  <2>2. Sound(dyn)
    BY <1>1 DEF Good, Current, Faithful
  <2>3. d1.vaddr_to_tlbindex[v] = 0
    BY <2>1, <2>2, InvalidateSound
  <2>4. Sound(d1)
    BY <1>5 DEF Good, Current, Faithful
  <2> HIDE DEF d1
  <2> QED BY <1>6, <2>3, <2>4, MappedPage
<1> HIDE DEF d1
<1>7. Agrees(d1, Fetch(u, asid), Storable(u, asid, isolated))
  <2> SUFFICES ASSUME NEW v \in VPages
               PROVE  /\ d1.host_load[v] # NULL => d1.host_load[v] = Fetch(u, asid)[v]
                      /\ d1.host_store[v] # NULL =>
                            /\ d1.host_store[v] = Fetch(u, asid)[v]
                            /\ v \in Storable(u, asid, isolated)
    BY DEF Agrees
  <2>1. /\ d1.host_load[v] # NULL => d1.host_load[v] = Fetch(tlbs, asid)[v]
        /\ d1.host_store[v] # NULL =>
              /\ d1.host_store[v] = Fetch(tlbs, asid)[v]
              /\ v \in Storable(tlbs, asid, isolated)
    BY <1>5 DEF Good, Current, Faithful, Agrees
  <2>2. d1.host_store[v] # NULL => d1.host_load[v] # NULL
    BY <1>5 DEF Good, Current, Faithful, Sound, TablesConsistent, ArraysConsistent,
                EntriesConsistent
  <2>3. CASE d1.host_load[v] # NULL
    <3>1. Fetch(tlbs, asid)[v] # NULL
      BY <2>1, <2>3
    <3>2. /\ Fetch(u, asid)[v] = Fetch(tlbs, asid)[v]
          /\ v \in Writable(tlbs, asid) => v \in Writable(u, asid)
      BY ZenonT(40), <1>1, <1>2, <1>6, <2>3, <3>1, SurvivesTlbWrite
    <3> QED BY <2>1, <3>2 DEF Storable
  <2> QED BY <2>2, <2>3
<1> HIDE DEF u
<1>8. Good(d1, u, asid, isolated)
  BY <1>5, <1>7 DEF Good, Current, Faithful
<1>9. Good(d2, u, asid, isolated)
  BY <1>8, InvalidateCodeGood DEF InvalidateDirty
<1> HIDE DEF d2
<1>10. ~isolated => Good(d3, u, asid, isolated)
  <2> SUFFICES ASSUME ~isolated PROVE Good(d3, u, asid, isolated)
    OBVIOUS
  <2>1. CASE ~(e.v /\ e.pfn \in allocated)
    BY <1>9, <2>1 DEF EnterNew
  <2>2. CASE e.v /\ e.pfn \in allocated
    <3>1. /\ e.vpn \in VPages /\ Fetch(u, asid)[e.vpn] = e.pfn
          /\ e.d => e.vpn \in Storable(u, asid, isolated)
      BY <1>2, <1>3, <2>2, NewEntryTranslates DEF Storable
    <3>2. e.pfn \in PPages /\ e.d \in BOOLEAN
      BY <1>2 DEF TlbEntry
    <3>3. d3 = UpdateTranslationTable(d2, e.vpn, e.pfn, e.d)
      BY <2>2 DEF EnterNew
    <3> QED BY <1>9, <3>1, <3>2, <3>3, UpdateSound
            DEF Good, Current, Faithful, SameCode, CurIcPageLive
  <2> QED BY <2>1, <2>2
<1> HIDE DEF d3
<1>11. Good(dyn', tlbs', asid', isolated')
  BY <1>1, <1>9, <1>10
<1> QED BY <1>1, <1>3, <1>11 DEF IInv, GuestState

(* A write of EntryHi: a mapping that survives invalidate_asid is global,  *)
(* and therefore the same in the new address space.                        *)
LEMMA WriteEntryHiStep ==
    ASSUME IInv, NEW a \in Asids, WriteEntryHi(a)
    PROVE  IInv'
<1>1. /\ tlbs \in [TlbIndex -> TlbEntry] /\ GuestTlb(tlbs)
      /\ Good(dyn, tlbs, asid, isolated) /\ tlbs' = tlbs /\ asid' = a
      /\ isolated' = isolated /\ allocated' = allocated /\ running' = running
      /\ dyn' = IF a # asid THEN InvalidateAsid(dyn, asid) ELSE dyn
  BY DEF IInv, GuestState, WriteEntryHi
<1>2. Good(dyn', tlbs, a, isolated)
  <2>1. CASE a = asid
    BY <1>1, <2>1
  <2>2. CASE a # asid
    <3> DEFINE J == {j \in TlbIndex : tlbs[j].asid = asid /\ tlbs[j].v /\ ~tlbs[j].g}
               W == {tlbs[j].vpn : j \in J}
               d == InvalidateTlbEntries(dyn, W)
    <3>1. dyn' = d
      BY <1>1, <2>2 DEF InvalidateAsid
    <3>2. W \in SUBSET VPages
      BY <1>1 DEF TlbEntry
    <3>3. \A j \in TlbIndex : tlbs[j].asid = asid /\ tlbs[j].v /\ ~tlbs[j].g =>
                                 tlbs[j].vpn \in W
      OBVIOUS
    <3> HIDE DEF W
    <3>4. Good(d, tlbs, asid, isolated)
      BY <1>1, <3>2, InvalidateGood
    <3>5. \A v \in W : d.vaddr_to_tlbindex[v] = 0
      BY <1>1, <3>2, InvalidateSound DEF Good, Current, Faithful
    <3> HIDE DEF d
    <3>6. ASSUME NEW v \in VPages, d.host_load[v] # NULL
          PROVE  /\ Fetch(tlbs, a)[v] = Fetch(tlbs, asid)[v]
                 /\ v \in Writable(tlbs, asid) => v \in Writable(tlbs, a)
      <4>1. v \notin W
        BY <3>4, <3>5, <3>6, MappedPage DEF Good, Current, Faithful
      <4>2. Fetch(tlbs, asid)[v] # NULL
        BY <3>4, <3>6 DEF Good, Current, Faithful, Agrees
      <4>3. CASE v \in Kseg
        BY <4>3 DEF Fetch, Writable, TranslateOk, TranslatePaddr
      <4>4. CASE v \notin Kseg
        <5>1. v \in Mapped /\ TranslateOk(tlbs, asid, v, FALSE) # 0
              /\ Matches(tlbs, asid, v) # {}
          BY <4>2, <4>4 DEF Mapped, Fetch, TranslateOk
        <5>2. PICK j \in Matches(tlbs, asid, v) : TRUE
          BY <5>1
        <5>3. tlbs[j].v
          BY <1>1, <5>1, <5>2, TranslateMatch
        <5>4. j \in TlbIndex /\ tlbs[j].vpn = v /\ (tlbs[j].g \/ tlbs[j].asid = asid)
          BY <5>2 DEF Matches
        <5>5. tlbs[j].g
          BY <3>3, <4>1, <5>3, <5>4
        <5>6. j \in Matches(tlbs, a, v)
          BY <5>4, <5>5 DEF Matches
        <5>7. /\ Match(tlbs, asid, v) = j /\ Match(tlbs, a, v) = j
              /\ Matches(tlbs, a, v) # {}
          BY <1>1, <5>1, <5>2, <5>6, OneMatch
        <5>8. \A w \in BOOLEAN : TranslateOk(tlbs, a, v, w) = TranslateOk(tlbs, asid, v, w)
          BY <5>1, <5>7 DEF TranslateOk
        <5>9. TranslatePaddr(tlbs, a, v) = TranslatePaddr(tlbs, asid, v)
          BY <5>7 DEF TranslatePaddr
        <5> QED BY <5>8, <5>9 DEF Fetch, Writable
      <4> QED BY <4>3, <4>4
    <3>7. \A v \in VPages : d.host_store[v] # NULL => d.host_load[v] # NULL
      BY <3>4 DEF Good, Current, Faithful, Sound, TablesConsistent,
                  ArraysConsistent, EntriesConsistent
    <3>8. Agrees(d, Fetch(tlbs, a), Storable(tlbs, a, isolated))
      BY <3>4, <3>6, <3>7 DEF Good, Current, Faithful, Agrees, Storable
    <3> QED BY <3>1, <3>4, <3>8 DEF Good, Current, Faithful
  <2> QED BY <2>1, <2>2
<1> QED BY <1>1, <1>2 DEF IInv, GuestState

-----------------------------------------------------------------------------
(* The other actions leave the guest's translation alone.                  *)

(* A step that only has to keep the caches good. *)
LEMMA CacheStep ==
    ASSUME IInv, Good(dyn', tlbs, asid, isolated), tlbs' = tlbs, asid' = asid,
           isolated' = isolated, allocated' \in SUBSET PPages, running' \in BOOLEAN
    PROVE  IInv'
BY DEF IInv, GuestState

LEMMA AllocatedType ==
    ASSUME IInv, NEW p \in PPages, NEW write \in BOOLEAN
    PROVE  AllocatedAfter(p, write) \in SUBSET PPages
BY DEF IInv, GuestState, AllocatedAfter

LEMMA DataAccessStep ==
    ASSUME IInv, NEW v \in VPages, NEW write \in BOOLEAN, DataAccess(v, write)
    PROVE  IInv'
<1> DEFINE ok == TranslateOk(tlbs, asid, v, write)
           p  == TranslatePaddr(tlbs, asid, v)
<1>1. tlbs' = tlbs /\ asid' = asid /\ isolated' = isolated /\ running' = running
  BY DEF DataAccess
<1>2. /\ isolated \in BOOLEAN /\ running \in BOOLEAN /\ allocated \in SUBSET PPages
      /\ Good(dyn, tlbs, asid, isolated) /\ Vector \in VPages
  BY FetchType DEF IInv, GuestState
<1>3. CASE ok = 0 /\ dyn' = PcTo(dyn, Vector) /\ allocated' = allocated
  <2>1. Good(PcTo(dyn, Vector), tlbs, asid, isolated)
    BY <1>2, PcToGood DEF Good
  <2> QED BY <1>1, <1>2, <1>3, <2>1, CacheStep
<1>4. CASE dyn' = dyn /\ allocated' = allocated
  BY <1>1, <1>2, <1>4, CacheStep
<1>5. CASE /\ ok # 0
           /\ dyn' = MemoryRw(dyn, v, p, write, ~isolated, ok = 2, ok = 2)
           /\ allocated' = AllocatedAfter(p, write)
  <2>1. /\ p \in PPages /\ Fetch(tlbs, asid)[v] = p
        /\ ~isolated => (ok = 2 => v \in Storable(tlbs, asid, isolated))
    BY <1>5, TranslateFetch DEF IInv, GuestState, Storable
  <2> HIDE DEF ok, p
  <2>2. (ok = 2) \in BOOLEAN /\ (~isolated) \in BOOLEAN
    OBVIOUS
  <2>3. Good(dyn', tlbs, asid, isolated)
    BY ZenonT(40), <1>2, <1>5, <2>1, <2>2, MemoryRwGood
  <2>4. allocated' \in SUBSET PPages
    BY <1>5, <2>1, AllocatedType
  <2> QED BY <1>1, <1>2, <2>3, <2>4, CacheStep
<1> QED BY <1>3, <1>4, <1>5 DEF DataAccess

LEMMA DeviceAccessStep ==
    ASSUME IInv, NEW p \in PPages, NEW write \in BOOLEAN, DeviceAccess(p, write)
    PROVE  IInv'
<1>1. /\ p \in VPages /\ Good(dyn, tlbs, asid, isolated)
      /\ isolated \in BOOLEAN /\ running \in BOOLEAN
  BY MipsAssumption DEF IInv, GuestState
<1>2. Good(dyn', tlbs, asid, isolated)
  BY <1>1, MemoryRwGood DEF DeviceAccess
<1> QED BY <1>1, <1>2, AllocatedType, CacheStep DEF DeviceAccess

LEMMA FlowStep ==
    ASSUME IInv, RunInstr \/ Interrupt \/ \E v \in VPages : Jump(v)
    PROVE  IInv'
<1>1. /\ Current(dyn, tlbs, asid, isolated) /\ dyn.pc \in VPages /\ Vector \in VPages
      /\ isolated \in BOOLEAN /\ running \in BOOLEAN /\ allocated \in SUBSET PPages
  BY FetchType DEF IInv, GuestState, Good, Current, Faithful, Sound, Typed, DyntransState
<1>2. Good(PcTo(dyn, dyn.pc), tlbs, asid, isolated)
  BY <1>1, PcToGood
<1>3. Good(PcTo(PcTo(dyn, dyn.pc), Vector), tlbs, asid, isolated)
  BY <1>1, <1>2, PcToGood DEF Good
<1>4. \A v \in VPages : Good(PcTo(dyn, v), tlbs, asid, isolated)
  BY <1>1, PcToGood
<1>5. Good(dyn', tlbs, asid, isolated)
  BY <1>2, <1>3, <1>4 DEF RunInstr, Interrupt, Jump
<1>6. /\ tlbs' = tlbs /\ asid' = asid /\ isolated' = isolated
      /\ allocated' = allocated /\ running' = running
  BY DEF RunInstr, Interrupt, Jump
<1> QED BY <1>1, <1>5, <1>6, CacheStep

LEMMA ToBeTranslatedStep ==
    ASSUME IInv, NEW s \in Slots, NEW k \in Slots, ToBeTranslated(s, k)
    PROVE  IInv'
<1> DEFINE S  == {x \in Slots : s <= x /\ x <= k}
           ok == TranslateOk(tlbs, asid, dyn.pc, FALSE)
           p  == TranslatePaddr(tlbs, asid, dyn.pc)
           c  == MemoryRw(dyn, dyn.pc, p, FALSE, ~isolated, FALSE, FALSE)
<1>1. /\ Good(dyn, tlbs, asid, isolated) /\ dyn.pc \in VPages /\ Vector \in VPages
      /\ isolated \in BOOLEAN /\ running \in BOOLEAN /\ allocated \in SUBSET PPages
  BY FetchType DEF IInv, GuestState, Good, Current, Faithful, Sound, Typed, DyntransState
<1>2. /\ tlbs' = tlbs /\ asid' = asid /\ isolated' = isolated
      /\ allocated' = allocated /\ dyn.cur_ic_page # 0
  BY DEF ToBeTranslated
<1>3. running' \in BOOLEAN
  BY <1>1 DEF ToBeTranslated
<1>4. S \in SUBSET Slots
  OBVIOUS
<1>5. ASSUME NEW d, Good(d, tlbs, asid, isolated), d.cur_ic_page # 0
      PROVE  Good(Translate(d, S), tlbs, asid, isolated)
  BY <1>4, <1>5, TranslateSound, ShrinksAgrees DEF Good, Current, Faithful
<1>6. CASE dyn' = Translate(dyn, S)
  BY <1>1, <1>2, <1>3, <1>5, <1>6, CacheStep
<1>7. CASE ok # 0 /\ dyn' = Translate(c, S)
  <2>1. p \in PPages /\ Fetch(tlbs, asid)[dyn.pc] = p
    BY <1>1, <1>7, TranslateFetch DEF IInv, GuestState
  <2> HIDE DEF p
  <2> DEFINE e == UpdateTranslationTable(dyn, dyn.pc, p, FALSE)
  <2>2. c \in {dyn, e}
    BY DEF MemoryRw
  <2>3. Good(e, tlbs, asid, isolated) /\ e.cur_ic_page = dyn.cur_ic_page
    <3>1. Sound(dyn) /\ Agrees(dyn, Fetch(tlbs, asid), Storable(tlbs, asid, isolated))
      BY <1>1 DEF Good, Current, Faithful
    <3>2. /\ Sound(e) /\ SameCode(dyn, e)
          /\ Agrees(e, Fetch(tlbs, asid), Storable(tlbs, asid, isolated))
      BY <1>1, <2>1, <3>1, UpdateSound
    <3> HIDE DEF e
    <3> QED BY <1>1, <3>2 DEF Good, Current, Faithful, SameCode, CurIcPageLive
  <2>4. Good(c, tlbs, asid, isolated) /\ c.cur_ic_page = dyn.cur_ic_page
    <3> HIDE DEF c, e
    <3> QED BY <1>1, <2>2, <2>3
  <2> HIDE DEF c
  <2> QED BY <1>1, <1>2, <1>3, <1>5, <1>7, <2>4, CacheStep
<1>8. CASE dyn' = PcTo(dyn, Vector)
  <2>1. Good(PcTo(dyn, Vector), tlbs, asid, isolated)
    BY <1>1, PcToGood DEF Good
  <2> QED BY <1>1, <1>2, <1>3, <1>8, <2>1, CacheStep
<1> QED BY <1>6, <1>7, <1>8 DEF ToBeTranslated

LEMMA DebuggerStep ==
    ASSUME IInv, Debugger
    PROVE  IInv'
<1> DEFINE d1 == ResetTc(dyn)
           d2 == InvalidateAll(d1)
<1>1. /\ Good(dyn, tlbs, asid, isolated) /\ isolated \in BOOLEAN /\ running \in BOOLEAN
      /\ allocated \in SUBSET PPages
  BY DEF IInv, GuestState
<1>2. Current(d1, tlbs, asid, isolated)
  BY <1>1, ResetSound, ShrinksAgrees DEF Good, Current, Faithful
<1> HIDE DEF d1
<1>3. PagesOf(d1, d1.valid) \in SUBSET VPages
  BY <1>2 DEF PagesOf, Current, Faithful, Sound, Typed, DyntransState
<1>4. Current(d2, tlbs, asid, isolated)
  BY <1>2, <1>3, InvalidateSound, ShrinksAgrees DEF Current, Faithful, InvalidateAll
<1>5. dyn' = [d2 EXCEPT !.cur_ic_page = 0]
  BY DEF Debugger, d1
<1> HIDE DEF d2
<1>6. Good(dyn', tlbs, asid, isolated)
  BY <1>4, <1>5, NoCurrentPage
<1> QED BY <1>1, <1>6, CacheStep DEF Debugger

(* Isolating the caches drops every mapping, the writable ones too; ending *)
(* the isolation only allows more.                                         *)
LEMMA WriteStatusStep ==
    ASSUME IInv, NEW isol \in BOOLEAN, WriteStatus(isol)
    PROVE  IInv'
<1>1. /\ Good(dyn, tlbs, asid, isolated) /\ isolated \in BOOLEAN
      /\ tlbs' = tlbs /\ asid' = asid /\ allocated' = allocated /\ running' = running
      /\ isolated' = isol
      /\ dyn' = IF isol /\ ~isolated THEN InvalidateAll(dyn) ELSE dyn
  BY DEF IInv, GuestState, WriteStatus
<1>2. CASE isol /\ ~isolated
  <2> DEFINE d == InvalidateAll(dyn)
             W == PagesOf(dyn, dyn.valid)
  <2>1. Good(d, tlbs, asid, isolated)
    BY <1>1, InvalidateAllGood
  <2>2. W \in SUBSET VPages /\ Sound(dyn)
    BY <1>1 DEF PagesOf, Good, Current, Faithful, Sound, Typed, DyntransState
  <2>3. \A v \in VPages : d.vaddr_to_tlbindex[v] =
                           IF v \in W THEN 0 ELSE dyn.vaddr_to_tlbindex[v]
    BY <2>2, InvalidateSound DEF InvalidateAll
  <2>4. \A v \in VPages : dyn.vaddr_to_tlbindex[v] # 0 => v \in W
    BY <2>2, MappedPage DEF PagesOf
  <2> HIDE DEF d, W
  <2>5. \A v \in VPages : d.host_load[v] = NULL /\ d.host_store[v] = NULL
    BY <2>1, <2>3, <2>4
    DEF Good, Current, Faithful, Sound, TablesConsistent, ArraysConsistent
  <2>6. Good(d, tlbs, asid, isol)
    BY <2>1, <2>5 DEF Good, Current, Faithful, Agrees
  <2> QED BY <1>1, <1>2, <2>6 DEF IInv, GuestState, d
<1>3. CASE ~(isol /\ ~isolated)
  <2>1. Good(dyn, tlbs, asid, isol)
    BY <1>1, <1>3 DEF Good, Current, Faithful, Agrees, Storable
  <2> QED BY <1>1, <1>3, <2>1 DEF IInv, GuestState
<1> QED BY <1>2, <1>3

-----------------------------------------------------------------------------
(* The theorems.                                                           *)

LEMMA InitInv == Init => IInv
<1> SUFFICES ASSUME Init PROVE IInv
  OBVIOUS
<1>1. dyn = InitDyntrans(Vector) /\ Vector \in VPages
  BY MipsAssumption DEF Init
<1>2. PICK a \in Asids, p \in PPages :
        tlbs = [i \in TlbIndex |-> [vpn |-> Vector, asid |-> a, pfn |-> p,
                                    g |-> FALSE, v |-> FALSE, d |-> FALSE]]
  BY DEF Init
<1>3. tlbs \in [TlbIndex -> TlbEntry]
  BY <1>1, <1>2 DEF TlbEntry
<1>4. GuestTlb(tlbs)
  BY <1>2, MipsAssumption DEF GuestTlb, NoDuplicate, Mapped
<1>5. GuestState
  BY <1>3, <1>4 DEF GuestState, Init
<1>6. /\ dyn.valid = {} /\ dyn.tc = <<>> /\ dyn.cur_ic_page = 0
      /\ \A v \in VPages : /\ dyn.host_load[v] = NULL /\ dyn.host_store[v] = NULL
                           /\ dyn.phys_page[v] = 0 /\ dyn.vaddr_to_tlbindex[v] = 0
  BY <1>1 DEF InitDyntrans
<1>7. <<>> \in Seq(PhysPage) /\ Len(<<>>) = 0 /\ DOMAIN <<>> = {}
  BY EmptySeq
<1>8. dyn \in DyntransState
  <2>1. 1 \in Vph /\ 0 \in 0..TcPages /\ 0 \in 0..MaxVph /\ 0 \in PPages
    BY DyntransAssumption DEF Vph
  <2> QED BY <1>1, <1>7, <2>1 DEF InitDyntrans, DyntransState, HostPtr
<1>9. Typed(dyn)
  BY <1>6, <1>7, <1>8, DyntransAssumption DEF Typed
<1>10. TablesConsistent(dyn)
  BY <1>6 DEF TablesConsistent, EntriesConsistent, ArraysConsistent
<1>11. PhysPagesLive(dyn) /\ BitmapCovers(dyn) /\ CurIcPageLive(dyn)
  BY <1>6, <1>7 DEF PhysPagesLive, BitmapCovers, CurIcPageLive
<1>12. Agrees(dyn, Fetch(tlbs, asid), Storable(tlbs, asid, isolated))
  BY <1>6 DEF Agrees
<1> QED BY <1>5, <1>9, <1>10, <1>11, <1>12
        DEF IInv, Good, Current, Faithful, Sound

LEMMA NextInv == IInv /\ [Next]_vars => IInv'
<1> SUFFICES ASSUME IInv, [Next]_vars PROVE IInv'
  OBVIOUS
<1>1. CASE RunInstr \/ Interrupt \/ \E v \in VPages : Jump(v)
  BY <1>1, FlowStep
<1>2. CASE Debugger
  BY <1>2, DebuggerStep
<1>3. CASE \E v \in VPages : Load(v) \/ Store(v)
  BY <1>3, DataAccessStep DEF Load, Store
<1>4. CASE \E s, k \in Slots : ToBeTranslated(s, k)
  BY <1>4, ToBeTranslatedStep
<1>5. CASE \E p \in PPages, write \in BOOLEAN : DeviceAccess(p, write)
  BY <1>5, DeviceAccessStep
<1>6. CASE \E i \in TlbIndex, e \in GuestEntry : TlbWrite(i, e)
  BY <1>6, TlbWriteStep
<1>7. CASE \E a \in Asids : WriteEntryHi(a)
  BY <1>7, WriteEntryHiStep
<1>8. CASE \E i \in TlbIndex : tlbs[i].asid = asid /\ LoadEntryHi(i)
  BY <1>8 DEF LoadEntryHi, IInv, GuestState
<1>9. CASE \E isol \in BOOLEAN : WriteStatus(isol)
  BY <1>9, WriteStatusStep
<1>10. CASE UNCHANGED vars
  BY <1>10 DEF vars, IInv, GuestState
<1> QED BY <1>1, <1>2, <1>3, <1>4, <1>5, <1>6, <1>7, <1>8, <1>9, <1>10 DEF Next

(* The inductive invariant holds of every behaviour.                       *)
THEOREM Invariance == Spec => []IInv
BY InitInv, NextInv, PTL DEF Spec

(* Type correctness, and the translation cache stays within its size.      *)
THEOREM TypeCorrect == Spec => []TypeOK
<1>1. IInv => TypeOK
  BY DEF IInv, GuestState, Good, Current, Faithful, Sound, Typed, TypeOK
<1> QED BY <1>1, Invariance, PTL

(* cpu_dyntrans.c's two representations of the fast tables never disagree. *)
THEOREM TablesAlwaysConsistent == Spec => []FastTablesConsistent
<1>1. IInv => FastTablesConsistent
  BY DEF IInv, Good, Current, Faithful, Sound, FastTablesConsistent
<1> QED BY <1>1, Invariance, PTL

(* No pointer to a physpage outlives the translation cache it points into. *)
THEOREM PhysPagesAlwaysLive == Spec => []NoDanglingPhysPage
<1>1. IInv => NoDanglingPhysPage
  BY DEF IInv, Good, Current, Faithful, Sound, NoDanglingPhysPage
<1> QED BY <1>1, Invariance, PTL

(* Code invalidation reaches every translated instruction of a page.       *)
THEOREM BitmapAlwaysCovers == Spec => []BitmapCoversTranslations
<1>1. IInv => BitmapCoversTranslations
  BY DEF IInv, Good, Current, Faithful, Sound, BitmapCoversTranslations
<1> QED BY <1>1, Invariance, PTL

(* The fast tables say only what the guest's TLB says.                     *)
THEOREM TablesAlwaysCoherent == Spec => []FastTablesCoherent
<1>1. IInv => FastTablesCoherent
  BY DEF IInv, Good, Current, Faithful, FastTablesCoherent, Agrees, Storable
<1> QED BY <1>1, Invariance, PTL

(* No store takes the fast path while the caches are isolated.             *)
THEOREM IsolatedStoresAlwaysBlocked == Spec => []IsolatedStoresBlocked
<1>1. IInv => IsolatedStoresBlocked
  BY DEF IInv, Good, Current, Faithful, IsolatedStoresBlocked, Agrees, Storable
<1> QED BY <1>1, Invariance, PTL
=============================================================================
