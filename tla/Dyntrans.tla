------------------------------ MODULE Dyntrans ------------------------------
(***************************************************************************)
(* The translation caches of one emulated CPU (cpu_dyntrans.c, MODE32).    *)
(*                                                                         *)
(* A CPU keeps two caches in front of the guest's memory.                  *)
(*                                                                         *)
(*  - The fast translation tables: for every virtual page the arrays       *)
(*    host_load, host_store, phys_addr, phys_page and vaddr_to_tlbindex,   *)
(*    and a linear array vph_tlb_entry[] of at most MAX_VPH_TLB_ENTRIES    *)
(*    entries that says which virtual pages are mapped at all.             *)
(*                                                                         *)
(*  - The translation cache proper: "physpages" of decoded instructions,   *)
(*    one per physical page of guest code, allocated one after the other   *)
(*    and thrown away all at once when the cache is full.                  *)
(*                                                                         *)
(* The code calls several of these operations in a row inside one guest    *)
(* instruction, so each operation is an operator from a cache state d to   *)
(* the next one, and the modules of the processors compose them.           *)
(* A host page is identified with the physical page it holds.              *)
(***************************************************************************)
EXTENDS Naturals, Sequences

CONSTANTS
    VPages,         \* virtual page numbers
    PPages,         \* physical page numbers (all of them RAM)
    NULL,           \* the null host pointer
    MaxVph,         \* DYNTRANS_MAX_VPH_TLB_ENTRIES
    TcPages,        \* physpages that fit below dyntrans_cache_size
    Slots,          \* instruction slots (ics[]) of a page
    RangeOf         \* the bit of translations_bitmap that stands for a slot

ASSUME DyntransAssumption ==
    /\ VPages \subseteq Nat
    /\ PPages \subseteq Nat
    /\ 0 \in PPages
    /\ NULL \notin PPages
    /\ MaxVph \in Nat \ {0}
    /\ TcPages \in Nat \ {0}
    /\ Slots \subseteq Nat
    /\ RangeOf \in [Slots -> Nat]

Vph == 1..MaxVph
HostPtr == PPages \cup {NULL}
Ranges == {RangeOf[s] : s \in Slots}

(* A physpage.  ics holds the slots that are translated; every other slot  *)
(* still points to instr(to_be_translated).                                *)
PhysPage == [physaddr : PPages, ics : SUBSET Slots,
             translations_bitmap : SUBSET Ranges]

(***************************************************************************)
(* The cache state of a CPU.  The fields of vph_tlb_entry[] come first;    *)
(* valid and writeflag are the sets of entries where the flag is set.      *)
(* Entries are numbered from 1, so that vaddr_to_tlbindex[v] = 0 is a      *)
(* miss, as in the code.  next_victim is the static round-robin counter of *)
(* update_translation_table.  A physpage is named by its place in the      *)
(* translation cache, 0 being the null pointer; Len(tc) stands for         *)
(* translation_cache_cur_ofs.                                              *)
(***************************************************************************)
DyntransState ==
    [valid             : SUBSET Vph,
     writeflag         : SUBSET Vph,
     vaddr_page        : [Vph -> VPages],
     paddr_page        : [Vph -> PPages],
     next_victim       : Vph,
     host_load         : [VPages -> HostPtr],
     host_store        : [VPages -> HostPtr],
     phys_addr         : [VPages -> PPages],
     phys_page         : [VPages -> 0..TcPages],
     vaddr_to_tlbindex : [VPages -> 0..MaxVph],
     tc                : Seq(PhysPage),
     cur_ic_page       : 0..TcPages,
     pc                : VPages]

InitDyntrans(startpc) ==
    [valid             |-> {},
     writeflag         |-> {},
     vaddr_page        |-> [r \in Vph |-> startpc],
     paddr_page        |-> [r \in Vph |-> 0],
     next_victim       |-> 1,
     host_load         |-> [v \in VPages |-> NULL],
     host_store        |-> [v \in VPages |-> NULL],
     phys_addr         |-> [v \in VPages |-> 0],
     phys_page         |-> [v \in VPages |-> 0],
     vaddr_to_tlbindex |-> [v \in VPages |-> 0],
     tc                |-> <<>>,
     cur_ic_page       |-> 0,
     pc                |-> startpc]

-----------------------------------------------------------------------------
(* The fast translation tables.                                            *)

(* The virtual pages that the vph_tlb_entry[] entries R name. *)
PagesOf(d, R) == {d.vaddr_page[r] : r \in R}

(* The entries that INVALIDATE_PADDR selects. *)
EntriesOf(d, p) == {r \in d.valid : d.paddr_page[r] = p}

(* XXX_invalidate_tlb_entry() on every page of W, without                  *)
(* JUST_MARK_AS_NON_WRITABLE.                                              *)
InvalidateTlbEntries(d, W) ==
    [d EXCEPT
        !.valid = @ \ {d.vaddr_to_tlbindex[v] : v \in W},
        !.host_load  = [v \in VPages |-> IF v \in W THEN NULL ELSE d.host_load[v]],
        !.host_store = [v \in VPages |-> IF v \in W THEN NULL ELSE d.host_store[v]],
        !.phys_addr  = [v \in VPages |-> IF v \in W THEN 0 ELSE d.phys_addr[v]],
        !.phys_page  = [v \in VPages |-> IF v \in W THEN 0 ELSE d.phys_page[v]],
        !.vaddr_to_tlbindex =
            [v \in VPages |-> IF v \in W THEN 0 ELSE d.vaddr_to_tlbindex[v]]]

(* XXX_invalidate_translation_caches(addr, INVALIDATE_VADDR).              *)
InvalidateVaddr(d, v) == InvalidateTlbEntries(d, {v})

(* XXX_invalidate_translation_caches(0, INVALIDATE_ALL).                   *)
InvalidateAll(d) == InvalidateTlbEntries(d, PagesOf(d, d.valid))

(* XXX_invalidate_translation_caches(paddr,                                *)
(*     JUST_MARK_AS_NON_WRITABLE | INVALIDATE_PADDR).                      *)
MarkNonWritable(d, p) ==
    LET R == EntriesOf(d, p)
    IN  [d EXCEPT
            !.writeflag = @ \ R,
            !.host_store = [v \in VPages |->
                IF v \in PagesOf(d, R) THEN NULL ELSE d.host_store[v]]]

(* A bug to be caught: the entry is reused, but the page it held is not    *)
(* invalidated first.                                                      *)
AddWithoutEviction(d, v, p, wf) ==
    LET r == d.next_victim
    IN  [d EXCEPT
            !.valid = @ \cup {r},
            !.writeflag = IF wf THEN @ \cup {r} ELSE @ \ {r},
            !.vaddr_page[r] = v,
            !.paddr_page[r] = p,
            !.next_victim = IF r = MaxVph THEN 1 ELSE r + 1,
            !.host_load[v]  = p,
            !.host_store[v] = IF wf THEN p ELSE NULL,
            !.phys_addr[v]  = p,
            !.phys_page[v]  = 0,
            !.vaddr_to_tlbindex[v] = r]

(* XXX_update_translation_table(), a miss: the next entry in turn is       *)
(* thrown out and reused.                                                  *)
AddTranslation(d, v, p, wf) ==
    LET r == d.next_victim
        e == InvalidateTlbEntries(d, PagesOf(d, d.valid \cap {r}))
    IN  [e EXCEPT
            !.valid = @ \cup {r},
            !.writeflag = IF wf THEN @ \cup {r} ELSE @ \ {r},
            !.vaddr_page[r] = v,
            !.paddr_page[r] = p,
            !.next_victim = IF r = MaxVph THEN 1 ELSE r + 1,
            !.host_load[v]  = p,
            !.host_store[v] = IF wf THEN p ELSE NULL,
            !.phys_addr[v]  = p,
            !.phys_page[v]  = 0,
            !.vaddr_to_tlbindex[v] = r]

(* XXX_update_translation_table(), a hit.  When the physical page changes, *)
(* the arrays are rewritten but paddr_page of the entry is not.            *)
ChangeTranslation(d, v, p, wf) ==
    [d EXCEPT
        !.writeflag = IF wf THEN @ \cup {d.vaddr_to_tlbindex[v]} ELSE @,
        !.phys_page[v]  = 0,
        !.host_load[v]  = IF d.phys_addr[v] = p THEN @ ELSE p,
        !.host_store[v] = IF wf THEN p
                          ELSE IF d.phys_addr[v] = p THEN @ ELSE NULL,
        !.phys_addr[v]  = p]

UpdateTranslationTable(d, v, p, wf) ==
    IF d.vaddr_to_tlbindex[v] = 0 THEN AddTranslation(d, v, p, wf)
                                  ELSE ChangeTranslation(d, v, p, wf)

-----------------------------------------------------------------------------
(* The translation cache.                                                  *)

(* The physpages found by walking the chain of p's base table entry.       *)
Chain(d, p) == {o \in DOMAIN d.tc : d.tc[o].physaddr = p}

(* New pages go first in the chain, so the walk stops at the newest one.   *)
FindPage(d, p) == CHOOSE o \in Chain(d, p) : \A q \in Chain(d, p) : q <= o

(* The tail of XXX_invalidate_code_translation(): forget the physpage of   *)
(* the virtual pages whose vph_tlb_entry is in R.                          *)
ForgetPhysPages(d, R) ==
    [d EXCEPT !.phys_page =
        [v \in VPages |-> IF v \in PagesOf(d, R) THEN 0 ELSE d.phys_page[v]]]

(* Every slot in a range whose bit is set goes back to to_be_translated.   *)
ClearTranslations(page) ==
    [page EXCEPT
        !.ics = {s \in @ : RangeOf[s] \notin page.translations_bitmap},
        !.translations_bitmap = {}]

(* XXX_invalidate_code_translation(paddr, INVALIDATE_PADDR).               *)
InvalidateCode(d, p) ==
    IF Chain(d, p) = {}
    THEN d
    ELSE ForgetPhysPages([d EXCEPT !.tc[FindPage(d, p)] = ClearTranslations(@)],
                         EntriesOf(d, p))

(* A bug to be caught: the cache is thrown away, the pointers are kept.    *)
ResetTcOnly(d) == [d EXCEPT !.tc = <<>>]

(* cpu_create_or_reset_tc().                                               *)
ResetTc(d) == ForgetPhysPages([d EXCEPT !.tc = <<>>], d.valid)

(* XXX_tc_allocate_default_page(), if the chain has no page for p yet.     *)
AllocatePage(d, p) ==
    IF Chain(d, p) # {} THEN d
    ELSE [d EXCEPT !.tc = Append(@,
             [physaddr |-> p, ics |-> {}, translations_bitmap |-> {}])]

(* A page without translations is write protected before code on it is     *)
(* translated.                                                             *)
ProtectIfUntranslated(d, p) ==
    IF d.tc[FindPage(d, p)].translations_bitmap = {}
    THEN MarkNonWritable(d, p) ELSE d

SetPhysPage(d, v, p) ==
    IF d.host_load[v] # NULL THEN [d EXCEPT !.phys_page[v] = FindPage(d, p)]
                             ELSE d

SetPointers(d, v, p) == [d EXCEPT !.pc = v, !.cur_ic_page = FindPage(d, p)]

(* The fetch address as pc_to_pointers_generic() finds it: from the fast   *)
(* tables, or from translate_v2p (xl, NULL where it raises an exception).  *)
FetchPaddr(d, xl, v) == IF d.host_load[v] # NULL THEN d.phys_addr[v] ELSE xl[v]

(* Map the code page read-only, if it is not mapped and exists in the host.*)
MapCodePage(d, v, p, allocated) ==
    IF d.host_load[v] = NULL /\ p \in allocated
    THEN UpdateTranslationTable(d, v, p, FALSE) ELSE d

(* A bug to be caught: the limit is compared with > instead of >=.         *)
ResetTcIfTooFull(d) == IF Len(d.tc) > TcPages THEN ResetTc(d) ELSE d

ResetTcIfFull(d) == IF Len(d.tc) >= TcPages THEN ResetTc(d) ELSE d

(* XXX_pc_to_pointers_generic(), once the fetch address p is known.        *)
PcToPointersGeneric(d, v, p, allocated) ==
    LET d1 == MapCodePage(d, v, p, allocated)
        d2 == ResetTcIfFull(d1)
        d3 == AllocatePage(d2, p)
        d4 == SetPhysPage(d3, v, p)
        d5 == ProtectIfUntranslated(d4, p)
    IN  SetPointers(d5, v, p)

(* XXX_pc_to_pointers() for a page that can be fetched from.               *)
PcToMappedPage(d, xl, allocated, v) ==
    IF d.phys_page[v] # 0
    THEN [d EXCEPT !.pc = v, !.cur_ic_page = d.phys_page[v]]
    ELSE PcToPointersGeneric(d, v, FetchPaddr(d, xl, v), allocated)

(* XXX_pc_to_pointers().  When the fetch address does not translate, the   *)
(* exception first moves the pc to the handler (vector) and looks that up, *)
(* and then the interrupted lookup goes on with the handler's address.     *)
PcToPointers(d, xl, allocated, vector, v) ==
    IF d.phys_page[v] # 0 \/ FetchPaddr(d, xl, v) # NULL
    THEN PcToMappedPage(d, xl, allocated, v)
    ELSE LET e == PcToMappedPage(d, xl, allocated, vector)
         IN  PcToPointersGeneric(e, vector, FetchPaddr(e, xl, vector), allocated)

(* A bug to be caught: only the first slot's bit is set, not those of the  *)
(* slots that are read ahead.                                              *)
AddTranslationsFirstBit(page, S) ==
    [page EXCEPT !.ics = @ \cup S,
                 !.translations_bitmap =
                     @ \cup {RangeOf[s] : s \in {x \in S : \A y \in S : x <= y}}]

(* The end of to_be_translated: the slots S have been translated on the    *)
(* current page, the first one and those read ahead.                       *)
AddTranslations(page, S) ==
    [page EXCEPT !.ics = @ \cup S,
                 !.translations_bitmap = @ \cup {RangeOf[s] : s \in S}]

Translate(d, S) == [d EXCEPT !.tc[d.cur_ic_page] = AddTranslations(@, S)]

-----------------------------------------------------------------------------
(* What a cache state must satisfy.  The processors' modules check and     *)
(* prove these of every reachable state.                                   *)

(* The two halves of the fast tables describe the same set of mappings:    *)
(* every valid vph_tlb_entry is the one vaddr_to_tlbindex of its page      *)
(* names, and a page has a host pointer, and physical page, exactly when   *)
(* such an entry exists.  (Eviction, invalidation by address and           *)
(* write-protection all find their pages through this correspondence.)     *)
EntriesConsistent(d) ==
    \A r \in d.valid :
        LET v == d.vaddr_page[r]
            p == d.paddr_page[r]
        IN  /\ d.vaddr_to_tlbindex[v] = r
            /\ d.host_load[v] = p
            /\ d.phys_addr[v] = p
            /\ d.host_store[v] = IF r \in d.writeflag THEN p ELSE NULL

ArraysConsistent(d) ==
    \A v \in VPages :
        IF d.vaddr_to_tlbindex[v] = 0
        THEN d.host_load[v] = NULL /\ d.host_store[v] = NULL /\ d.phys_page[v] = 0
        ELSE LET r == d.vaddr_to_tlbindex[v]
             IN  r \in d.valid /\ d.vaddr_page[r] = v

TablesConsistent(d) == EntriesConsistent(d) /\ ArraysConsistent(d)

(* phys_page points to a physpage of the present translation cache, the    *)
(* one of the page's own physical address; no physical page has two.       *)
PhysPagesLive(d) ==
    /\ \A v \in VPages : d.phys_page[v] # 0 =>
          /\ d.phys_page[v] \in DOMAIN d.tc
          /\ d.tc[d.phys_page[v]].physaddr = d.phys_addr[v]
    /\ \A o, q \in DOMAIN d.tc : d.tc[o].physaddr = d.tc[q].physaddr => o = q

CurIcPageLive(d) == d.cur_ic_page # 0 => d.cur_ic_page \in DOMAIN d.tc

(* Every translated slot lies in a range whose bit is set.                 *)
BitmapCovers(d) ==
    \A o \in DOMAIN d.tc : \A s \in d.tc[o].ics :
        RangeOf[s] \in d.tc[o].translations_bitmap

(* The fast tables say only what the guest's own translation says: xl is   *)
(* the physical page of every virtual page (NULL if there is none), and    *)
(* writable the set of pages that may be stored to.                        *)
Agrees(d, xl, writable) ==
    \A v \in VPages :
        /\ d.host_load[v] # NULL => d.host_load[v] = xl[v]
        /\ d.host_store[v] # NULL => d.host_store[v] = xl[v] /\ v \in writable

=============================================================================
