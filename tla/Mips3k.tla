------------------------------- MODULE Mips3k -------------------------------
(***************************************************************************)
(* An R3000 CPU running on top of the dyntrans caches: the guest's TLB and *)
(* the coprocessor 0 state that address translation depends on             *)
(* (cpu_mips_coproc.c, memory_mips_v2p.c), the slow memory path            *)
(* (memory_rw.c) and the instructions that reach the caches.               *)
(*                                                                         *)
(* The guest is any program that never makes two TLB entries match the     *)
(* same address (on the real chip that shuts the TLB down) and maps only   *)
(* pages of the mapped segment.  Instructions whose effect stays inside    *)
(* the registers, and loads and stores that hit the fast tables, change    *)
(* nothing here.                                                           *)
(***************************************************************************)
EXTENDS Dyntrans

CONSTANTS
    Kseg,           \* virtual pages of kseg0 and kseg1, mapped directly
    KsegPhys,       \* the physical page behind each of them
    Uncached,       \* those of kseg1
    Vector,         \* the page of the exception handlers
    Asids,          \* address space identifiers
    NTlb            \* cp->nr_of_tlbs

VARIABLES
    dyn,            \* the translation caches
    tlbs,           \* cp0->tlbs[]
    asid,           \* the ASID field of EntryHi
    isolated,       \* MIPS1_ISOL_CACHES in Status
    allocated,      \* physical pages whose memblock exists in the host
    running         \* cpu->running, FALSE also once the emulator has exited

vars == <<dyn, tlbs, asid, isolated, allocated, running>>

ASSUME MipsAssumption ==
    /\ Kseg \subseteq VPages
    /\ KsegPhys \in [Kseg -> PPages]
    /\ Uncached \subseteq Kseg
    /\ Vector \in Kseg
    /\ PPages \subseteq VPages
    /\ NTlb \in Nat

TlbIndex == 1..NTlb
Mapped == VPages \ Kseg

TlbEntry == [vpn : VPages, asid : Asids, pfn : PPages,
             g : BOOLEAN, v : BOOLEAN, d : BOOLEAN]

(* What the guest may write: a mapping of the mapped segment, or an entry  *)
(* that is out of the way (not valid, with an address that never reaches   *)
(* the TLB).                                                               *)
GuestEntry == {e \in TlbEntry : e.vpn \in Mapped \/ ~e.v}

-----------------------------------------------------------------------------
(* translate_v2p_mmu3k().                                                  *)

(* The entries that a VPN and ASID comparison selects for page v.          *)
Matches(t, a, v) == {i \in TlbIndex : t[i].vpn = v /\ (t[i].g \/ t[i].asid = a)}
Match(t, a, v) == CHOOSE i \in Matches(t, a, v) : TRUE

(* The return value: 0 failure, 1 read only, 2 read/write.                 *)
TranslateOk(t, a, v, write) ==
    IF v \in Kseg THEN 2
    ELSE IF Matches(t, a, v) = {} THEN 0
    ELSE LET e == t[Match(t, a, v)]
         IN  IF ~e.v \/ (write /\ ~e.d) THEN 0 ELSE IF e.d THEN 2 ELSE 1

TranslatePaddr(t, a, v) ==
    IF v \in Kseg THEN KsegPhys[v] ELSE t[Match(t, a, v)].pfn

(* Instruction fetch as Dyntrans wants it: NULL where it raises an exception. *)
Fetch(t, a) ==
    [v \in VPages |-> IF TranslateOk(t, a, v, FALSE) = 0 THEN NULL
                      ELSE TranslatePaddr(t, a, v)]

(* The pages a store may reach. *)
Writable(t, a) == {v \in VPages : TranslateOk(t, a, v, TRUE) = 2}

PcTo(d, v) == PcToPointers(d, Fetch(tlbs, asid), allocated, Vector, v)

-----------------------------------------------------------------------------
(* memory_rw() once the address has been translated to RAM page p.         *)

(* memory_paddr_to_hostaddr() allocates the memblock on a write.           *)
AllocatedAfter(p, write) == IF write THEN allocated \cup {p} ELSE allocated

(* map: the access goes into the fast tables under the address v, writable *)
(* if wf.  A write, or a data access to a page that is now writable,       *)
(* throws away the code translated from the page.                          *)
MemoryRw(d, v, p, write, map, wf, inval) ==
    IF ~write /\ p \notin allocated
    THEN d
    ELSE LET e == IF map THEN UpdateTranslationTable(d, v, p, wf) ELSE d
         IN  IF write \/ inval THEN InvalidateCode(e, p) ELSE e

(* A load or store of the guest that misses the fast tables.  While the    *)
(* caches are isolated, cached addresses only reach the emulated cache and *)
(* uncached ones leave the fast tables alone.                              *)
DataAccess(v, write) ==
    LET ok == TranslateOk(tlbs, asid, v, write)
        p  == TranslatePaddr(tlbs, asid, v)
    IN  /\ IF write THEN dyn.host_store[v] = NULL ELSE dyn.host_load[v] = NULL
        /\ \/ /\ ok = 0
              /\ dyn' = PcTo(dyn, Vector)
              /\ UNCHANGED allocated
           \/ /\ ok # 0
              /\ isolated /\ v \notin Uncached
              /\ UNCHANGED <<dyn, allocated>>
           \/ /\ ok # 0
              /\ ~isolated \/ v \in Uncached
              /\ dyn' = MemoryRw(dyn, v, p, write, ~isolated, ok = 2, ok = 2)
              /\ allocated' = AllocatedAfter(p, write)
        /\ UNCHANGED <<tlbs, asid, isolated, running>>

(* The CPU is executing a translated instruction.                          *)
Executing == /\ running
             /\ dyn.cur_ic_page # 0
             /\ dyn.tc[dyn.cur_ic_page].ics # {}

Load(v) == Executing /\ DataAccess(v, FALSE)

Store(v) == Executing /\ DataAccess(v, TRUE)

(* A device reads or writes RAM with PHYSICAL | NO_EXCEPTIONS.  (Its cache *)
(* flag is CACHE_DATA, whose value is zero.)                               *)
DeviceAccess(p, write) ==
    /\ running
    /\ dyn' = MemoryRw(dyn, p, p, write, FALSE, FALSE, TRUE)
    /\ allocated' = AllocatedAfter(p, write)
    /\ UNCHANGED <<tlbs, asid, isolated, running>>

-----------------------------------------------------------------------------
(* Instruction flow.                                                       *)

(* XXX_run_instr() starts a new slice, without or with an interrupt.       *)
RunInstr ==
    /\ running
    /\ dyn' = PcTo(dyn, dyn.pc)
    /\ UNCHANGED <<tlbs, asid, isolated, allocated, running>>

Interrupt ==
    /\ running
    /\ dyn' = PcTo(PcTo(dyn, dyn.pc), Vector)
    /\ UNCHANGED <<tlbs, asid, isolated, allocated, running>>

(* A jump to another page, or off the end of this one.                     *)
Jump(v) ==
    /\ Executing
    /\ dyn' = PcTo(dyn, v)
    /\ UNCHANGED <<tlbs, asid, isolated, allocated, running>>

(* to_be_translated: slot s and the slots up to k that are read ahead.     *)
(* The instruction word comes from the fast tables or through memory_rw;   *)
(* if that raises an exception the CPU is stopped.                         *)
ToBeTranslated(s, k) ==
    LET S  == {x \in Slots : s <= x /\ x <= k}
        ok == TranslateOk(tlbs, asid, dyn.pc, FALSE)
        p  == TranslatePaddr(tlbs, asid, dyn.pc)
    IN  /\ running
        /\ dyn.cur_ic_page # 0
        /\ s <= k
        /\ S \cap dyn.tc[dyn.cur_ic_page].ics = {}
        /\ \/ /\ dyn.host_load[dyn.pc] # NULL
              /\ dyn' = Translate(dyn, S)
              /\ UNCHANGED running
           \/ /\ dyn.host_load[dyn.pc] = NULL
              /\ ok # 0
              /\ dyn' = Translate(
                    MemoryRw(dyn, dyn.pc, p, FALSE, ~isolated, FALSE, FALSE), S)
              /\ UNCHANGED running
           \/ /\ dyn.host_load[dyn.pc] = NULL
              /\ ok = 0
              /\ dyn' = PcTo(dyn, Vector)
              /\ running' = FALSE
        /\ UNCHANGED <<tlbs, asid, isolated, allocated>>

(* debugger(): all translations are dropped; the CPU looks its pc up again *)
(* when it continues.                                                      *)
Debugger ==
    /\ running
    /\ dyn' = [InvalidateAll(ResetTc(dyn)) EXCEPT !.cur_ic_page = 0]
    /\ UNCHANGED <<tlbs, asid, isolated, allocated, running>>

-----------------------------------------------------------------------------
(* Coprocessor 0.                                                          *)

(* No other entry matches an address that e matches.                       *)
NoDuplicate(t, i, e) ==
    \A j \in TlbIndex \ {i} :
        (t[j].vpn = e.vpn /\ e.vpn \in Mapped)
            => ~(t[j].g \/ e.g \/ t[j].asid = e.asid)

(* A bug to be caught: only global entries are dropped.                    *)
InvalidateOldGlobal(d, i) ==
    IF tlbs[i].v /\ tlbs[i].g
    THEN InvalidateVaddr(d, tlbs[i].vpn) ELSE d

(* coproc_tlbwri(), MMU3K: the translation of the old entry is dropped, if *)
(* it can be active; code on a page that becomes writable is dropped; and  *)
(* a translation is entered for the new one if its memblock exists.        *)
InvalidateOld(d, i) ==
    IF tlbs[i].v /\ (tlbs[i].g \/ tlbs[i].asid = asid)
    THEN InvalidateVaddr(d, tlbs[i].vpn) ELSE d

InvalidateDirty(d, e) == IF e.d THEN InvalidateCode(d, e.pfn) ELSE d

EnterNew(d, e) ==
    IF e.v /\ e.pfn \in allocated
    THEN UpdateTranslationTable(d, e.vpn, e.pfn, e.d) ELSE d

TlbWrite(i, e) ==
    /\ Executing
    /\ e.asid = asid
    /\ NoDuplicate(tlbs, i, e)
    /\ tlbs' = [tlbs EXCEPT ![i] = e]
    /\ \/ /\ ~isolated
          /\ dyn' = EnterNew(InvalidateDirty(InvalidateOld(dyn, i), e), e)
          /\ UNCHANGED running
       \/ /\ isolated            \* "Wow! Interesting case": exit(1)
          /\ dyn' = InvalidateDirty(InvalidateOld(dyn, i), e)
          /\ running' = FALSE
    /\ UNCHANGED <<asid, isolated, allocated>>

(* A bug to be caught: the loop over the TLB stops after the first entry.  *)
InvalidateAsidFirst(d, a) ==
    LET J == {j \in TlbIndex : tlbs[j].asid = a /\ tlbs[j].v /\ ~tlbs[j].g}
    IN  InvalidateTlbEntries(d, {tlbs[i].vpn : i \in
            {j \in J : \A k \in J : j <= k}})

(* invalidate_asid().                                                      *)
InvalidateAsid(d, a) ==
    InvalidateTlbEntries(d, {tlbs[i].vpn : i \in
        {j \in TlbIndex : tlbs[j].asid = a /\ tlbs[j].v /\ ~tlbs[j].g}})

(* coproc_register_write(), COP0_ENTRYHI.                                  *)
WriteEntryHi(a) ==
    /\ Executing
    /\ asid' = a
    /\ dyn' = IF a # asid THEN InvalidateAsid(dyn, asid) ELSE dyn
    /\ UNCHANGED <<tlbs, isolated, allocated, running>>

(* coproc_tlbpr(), tlbr: EntryHi is loaded from the entry, nothing is      *)
(* invalidated.                                                            *)
LoadEntryHi(i) ==
    /\ Executing
    /\ asid' = tlbs[i].asid
    /\ UNCHANGED <<dyn, tlbs, isolated, allocated, running>>

(* A bug to be caught: isolating the caches keeps the fast tables.         *)
WriteStatusOnly(isol) ==
    /\ Executing
    /\ isolated' = isol
    /\ UNCHANGED <<dyn, tlbs, asid, allocated, running>>

(* coproc_register_write(), COP0_STATUS: the isolate-caches bit.           *)
WriteStatus(isol) ==
    /\ Executing
    /\ isolated' = isol
    /\ dyn' = IF isol /\ ~isolated THEN InvalidateAll(dyn) ELSE dyn
    /\ UNCHANGED <<tlbs, asid, allocated, running>>

-----------------------------------------------------------------------------

Init ==
    /\ dyn = InitDyntrans(Vector)
    /\ \E a \in Asids, p \in PPages :
         tlbs = [i \in TlbIndex |-> [vpn |-> Vector, asid |-> a, pfn |-> p,
                                     g |-> FALSE, v |-> FALSE, d |-> FALSE]]
    /\ asid \in Asids
    /\ isolated = FALSE
    /\ allocated \in SUBSET PPages
    /\ running = TRUE

Next ==
    \/ RunInstr
    \/ Interrupt
    \/ Debugger
    \/ \E v \in VPages : Jump(v) \/ Load(v) \/ Store(v)
    \/ \E s, k \in Slots : ToBeTranslated(s, k)
    \/ \E p \in PPages, write \in BOOLEAN : DeviceAccess(p, write)
    \/ \E i \in TlbIndex, e \in GuestEntry : TlbWrite(i, e)
    \/ \E a \in Asids : WriteEntryHi(a)
    \/ \E i \in TlbIndex : tlbs[i].asid = asid /\ LoadEntryHi(i)
    \/ \E isol \in BOOLEAN : WriteStatus(isol)

Spec == Init /\ [][Next]_vars

-----------------------------------------------------------------------------
(* What the caches promise.                                                *)

(* Every component has its type, and the translation cache never grows     *)
(* beyond the size it was allocated with.                                  *)
TypeOK ==
    /\ dyn \in DyntransState
    /\ Len(dyn.tc) <= TcPages
    /\ tlbs \in [TlbIndex -> TlbEntry]
    /\ asid \in Asids
    /\ isolated \in BOOLEAN
    /\ allocated \in SUBSET PPages
    /\ running \in BOOLEAN

(* The two halves of the fast tables never disagree about which virtual    *)
(* pages are mapped, to which physical page, and how, whatever sequence of *)
(* misses, evictions, invalidations and write-protections led there.       *)
FastTablesConsistent == TablesConsistent(dyn)

(* No pointer into the translation cache dangles, although a full cache is *)
(* thrown away as a whole, and executing by phys_page executes the code of *)
(* the physical page that the virtual page is mapped to.                   *)
NoDanglingPhysPage == PhysPagesLive(dyn) /\ CurIcPageLive(dyn)

(* Invalidating the code of a page reaches every instruction translated    *)
(* from it, because each lies in a range whose bitmap bit is set.          *)
BitmapCoversTranslations == BitmapCovers(dyn)

(* The guest's side of the bargain: no address matches two TLB entries,    *)
(* and valid entries are for the mapped segment.                           *)
GuestTlb(t) ==
    \A i \in TlbIndex : /\ NoDuplicate(t, i, t[i])
                        /\ t[i].v => t[i].vpn \in Mapped

(* The fast tables never say anything the guest's TLB does not say now: a  *)
(* load through host_load reaches the page that translate_v2p would find,  *)
(* and host_store is set only where a store would be allowed.  This is     *)
(* what lets coproc_tlbwri skip entries of other address spaces ("No other *)
(* address translations should be active anyway").                         *)
FastTablesCoherent == Agrees(dyn, Fetch(tlbs, asid), Writable(tlbs, asid))

(* While the caches are isolated (an R3000 guest does that to flush them), *)
(* no store of the guest can take the fast path into RAM: a cached store   *)
(* must only reach the emulated cache.                                     *)
IsolatedStoresBlocked == isolated => \A v \in VPages : dyn.host_store[v] = NULL

-----------------------------------------------------------------------------
(* tlbr of an entry of another address space.                              *)
TlbrSpec == Init /\ [][Next \/ \E i \in TlbIndex : LoadEntryHi(i)]_vars
=============================================================================
