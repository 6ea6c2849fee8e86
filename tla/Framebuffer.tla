---------------------------- MODULE Framebuffer -----------------------------
(***************************************************************************)
(* A framebuffer that the guest writes to through the fast translation     *)
(* tables (DM_DYNTRANS_OK | DM_DYNTRANS_WRITE_OK; memory_rw.c, memory.c,   *)
(* dev_fb.c, dev_fbctrl.c).                                                *)
(*                                                                         *)
(* Only the first write to a page goes through memory_rw(), which notes    *)
(* the page in dyntrans_write_low and dyntrans_write_high and maps it      *)
(* writable.  Further writes go unnoticed.  Now and then the tick function *)
(* of the framebuffer fetches the two limits, redraws everything between   *)
(* them, and marks those pages as non-writable again, so that the next     *)
(* write is noticed.  Addresses are counted in pages.                      *)
(***************************************************************************)
EXTENDS Naturals

CONSTANTS
    Cpus,           \* the CPUs of the machine
    Cpu0,           \* cpus[0], on whose behalf tick functions are called
    NPages,         \* size of the framebuffer in pages
    Growth,         \* whether a new resolution is larger than the old one
    MaxResizes      \* bound on the number of resolution changes

ASSUME FramebufferAssumption ==
    /\ Cpu0 \in Cpus
    /\ NPages \in Nat
    /\ Growth \subseteq BOOLEAN
    /\ MaxResizes \in Nat

VARIABLES
    fast,           \* per CPU and page: the fast table's host_load, host_store
    window,         \* dyntrans_write_low and _high
    update,         \* update_y1 and update_y2 of the framebuffer
    resizes,        \* which framebuffer (malloc) is in use
    painted,        \* per CPU: the pages it has written to
    undrawn         \* per CPU: those of them that differ from the screen

vars == <<fast, window, update, resizes, painted, undrawn>>

Pages == 0..NPages-1

(* A range of pages lo..hi-1.  Empty stands for the values that nothing    *)
(* has been noted since, (uint64_t) -1 and 0.                              *)
Range == [lo : 0..NPages, hi : 0..NPages]
Empty == [lo |-> NPages, hi |-> 0]
In(r) == {p \in Pages : r.lo <= p /\ p < r.hi}
Widen(r, lo, hi) == [lo |-> IF lo < r.lo THEN lo ELSE r.lo,
                     hi |-> IF hi > r.hi THEN hi ELSE r.hi]

(* A page in the fast tables: mode, and the framebuffer it points into.    *)
Unmapped == [mode |-> "none", of |-> 0]
Mapping == [mode : {"none", "read", "write"}, of : 0..MaxResizes]

-----------------------------------------------------------------------------

(* memory_rw() on a page that is not mapped for reading.                   *)
SlowRead(c, p) ==
    /\ fast[c][p].mode = "none"
    /\ fast' = [fast EXCEPT ![c][p] = [mode |-> "read", of |-> resizes]]
    /\ UNCHANGED <<window, update, resizes, painted, undrawn>>

(* The limits after a write to page p.                                     *)
Note(p) == Widen(window, p, p + 1)

(* memory_rw() on a page that is not mapped for writing; dev_fb_access()   *)
(* returns early if the data is what the framebuffer already holds.        *)
SlowWrite(c, p, changes) ==
    /\ fast[c][p].mode # "write"
    /\ fast' = [fast EXCEPT ![c][p] = [mode |-> "write", of |-> resizes]]
    /\ window' = Note(p)
    /\ IF changes
       THEN /\ update' = Widen(update, p, p + 1)
            /\ painted' = [painted EXCEPT ![c] = @ \cup {p}]
            /\ undrawn' = [undrawn EXCEPT ![c] = @ \cup {p}]
       ELSE UNCHANGED <<update, painted, undrawn>>
    /\ UNCHANGED resizes

(* A store instruction that hits host_store.                               *)
FastWrite(c, p) ==
    /\ fast[c][p].mode = "write"
    /\ painted' = [painted EXCEPT ![c] = @ \cup {p}]
    /\ undrawn' = [undrawn EXCEPT ![c] = @ \cup {p}]
    /\ UNCHANGED <<fast, window, update, resizes>>

(* The page leaves the fast tables of a CPU for any other reason.          *)
Forget(c, p) ==
    /\ fast[c][p].mode # "none"
    /\ fast' = [fast EXCEPT ![c][p] = Unmapped]
    /\ UNCHANGED <<window, update, resizes, painted, undrawn>>

(* A bug to be caught: the last page is not marked.                        *)
MarkNonWritableButLast(f, r) ==
    [p \in Pages |-> IF p \in In(r) /\ p + 1 < r.hi /\ f[p].mode = "write"
                     THEN [f[p] EXCEPT !.mode = "read"] ELSE f[p]]

(* The loop at the end of memory_device_dyntrans_access().                 *)
MarkNonWritable(f, r) ==
    [p \in Pages |-> IF p \in In(r) /\ f[p].mode = "write"
                     THEN [f[p] EXCEPT !.mode = "read"] ELSE f[p]]

(* What the next tick redraws.                                             *)
Area == In(Widen(update, window.lo, window.hi))

(* The tick function of dev_fb.c.                                          *)
Tick ==
    /\ fast' = [fast EXCEPT ![Cpu0] = MarkNonWritable(@, window)]
    /\ window' = Empty
    /\ undrawn' = [c \in Cpus |-> undrawn[c] \ Area]
    /\ update' = Empty
    /\ UNCHANGED <<resizes, painted>>

(* A bug to be caught: only the CPU that asked for the new resolution      *)
(* drops its translations.                                                 *)
InvalidateCpu0 == [fast EXCEPT ![Cpu0] = [p \in Pages |-> Unmapped]]

(* "Remember to invalidate all translations for anyone who might have used *)
(* the old framebuffer".                                                   *)
InvalidateCpus == [c \in Cpus |-> [p \in Pages |-> Unmapped]]

(* fbctrl's SET_RESOLUTION: dev_fb_resize() copies the framebuffer to a    *)
(* new one and frees it, memory_device_update_data() forgets the limits,   *)
(* and x11_fb_resize() blanks the screen.  Only a framebuffer that is      *)
(* larger than the old one is drawn as a whole.                            *)
Resize(larger) ==
    /\ resizes < MaxResizes
    /\ resizes' = resizes + 1
    /\ update' = IF larger THEN [lo |-> 0, hi |-> NPages] ELSE update
    /\ window' = Empty
    /\ fast' = InvalidateCpus
    /\ undrawn' = painted
    /\ UNCHANGED painted

-----------------------------------------------------------------------------

Init ==
    /\ fast = [c \in Cpus |-> [p \in Pages |-> Unmapped]]
    /\ window = Empty
    /\ update = Empty
    /\ resizes = 0
    /\ painted = [c \in Cpus |-> {}]
    /\ undrawn = [c \in Cpus |-> {}]

Next ==
    \/ \E c \in Cpus, p \in Pages :
         \/ SlowRead(c, p)
         \/ \E changes \in BOOLEAN : SlowWrite(c, p, changes)
         \/ FastWrite(c, p)
         \/ Forget(c, p)
    \/ Tick
    \/ \E larger \in Growth : Resize(larger)

Spec == Init /\ [][Next]_vars

-----------------------------------------------------------------------------

TypeOK ==
    /\ fast \in [Cpus -> [Pages -> Mapping]]
    /\ window \in Range
    /\ update \in Range
    /\ resizes \in 0..MaxResizes
    /\ painted \in [Cpus -> SUBSET Pages]
    /\ undrawn \in [Cpus -> SUBSET Pages]

(* Every page that cpus[0] has written to and that differs from the        *)
(* screen, its latest write noticed by memory_rw() or not, lies in the     *)
(* area that the next tick redraws, whatever the other CPUs do (dev_fb.c:  *)
(* "we should keep a track of which area(s) we modify").                   *)
Cpu0UpdatesNoticed == undrawn[Cpu0] \subseteq Area

(* No CPU can reach a framebuffer that has been freed.                     *)
NoFreedFramebuffer ==
    \A c \in Cpus, p \in Pages : fast[c][p].mode # "none" => fast[c][p].of = resizes
=============================================================================
