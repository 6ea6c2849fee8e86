--------------------------- MODULE MemoryDevices ----------------------------
(***************************************************************************)
(* The memory mapped devices of a machine: memory_device_register(),       *)
(* memory_device_remove() (memory.c) and the search for the device at a    *)
(* physical address at the start of memory_rw() (memory_rw.c).             *)
(*                                                                         *)
(* mem->devices[] is sorted by address, so the search is a binary one.     *)
(* Its first probe is not the middle but last_accessed_device, a hint that *)
(* registering and removing devices have to keep in step with the array.   *)
(*                                                                         *)
(* Devices are registered while the machine is set up and by the debugger; *)
(* they are removed by the debugger, between two instructions.             *)
(***************************************************************************)
EXTENDS Integers

CONSTANTS
    MaxAddr,        \* stands for the 64-bit address with all bits set
    Align,          \* mem->dev_dyntrans_alignment + 1
    MaxDevices,     \* bound: devices registered at the same time
    MaxLast         \* bound: registering stops when the hint has drifted so far

ASSUME MemoryDevicesAssumption ==
    /\ MaxAddr \in Nat
    /\ Align \in Nat \ {0}
    /\ MaxDevices \in Nat
    /\ MaxLast \in Nat

VARIABLES
    devices,        \* mem->devices[], an array that may be longer than n
    n,              \* mem->n_mmapped_devices
    minaddr,        \* mem->mmap_dev_minaddr
    maxaddr,        \* mem->mmap_dev_maxaddr
    last,           \* mem->last_accessed_device
    lookup,         \* the search of the present, or latest, memory_rw()
    running         \* FALSE once the emulator has exited

vars == <<devices, n, minaddr, maxaddr, last, lookup, running>>

Addr == 0..MaxAddr
Device == {d \in [baseaddr : Addr, endaddr : Addr] : d.baseaddr < d.endaddr}

Contains(d, a) == d.baseaddr <= a /\ a < d.endaddr

(* The searches: none yet, or one for paddr that began at hint and now has *)
(* the local variables start, end and i.                                   *)
Idle == [state |-> "idle", paddr |-> 0, hint |-> 0, start |-> 0, end |-> -1, i |-> 0]

Init ==
    /\ devices = [j \in {} |-> 0]
    /\ n = 0
    /\ minaddr = MaxAddr
    /\ maxaddr = 0
    /\ last = 0
    /\ lookup = Idle
    /\ running = TRUE

-----------------------------------------------------------------------------
(* memory_device_register().                                               *)

(* A bug to be caught: only the device behind is compared.                 *)
FitsBefore(d, i) == i < n => d.endaddr <= devices[i].baseaddr

(* d fits in front of devices[i] and behind devices[i-1].                  *)
Fits(d, i) == /\ i < n => d.endaddr <= devices[i].baseaddr
              /\ i > 0 => devices[i-1].endaddr <= d.baseaddr

Collides(d) == \E i \in 0..n-1 : /\ devices[i].baseaddr < d.endaddr
                                 /\ d.baseaddr < devices[i].endaddr

PageStart(a) == a - (a % Align)

(* The array is reallocated to the new size and d is moved in at newi.     *)
Insert(d, newi) ==
    [j \in 0..n |-> IF j < newi THEN devices[j]
                    ELSE IF j = newi THEN d ELSE devices[j-1]]

(* A bug to be caught: a device that begins inside the window is taken to  *)
(* end there too.                                                          *)
WidenWindowFromBase(d) ==
    /\ minaddr' = IF d.baseaddr < minaddr THEN PageStart(d.baseaddr) ELSE minaddr
    /\ maxaddr' = IF d.baseaddr > maxaddr
                  THEN PageStart(d.endaddr - 1) + Align ELSE maxaddr

(* The window of addresses outside which memory_rw() does not search.      *)
WidenWindow(d) ==
    /\ minaddr' = IF d.baseaddr < minaddr THEN PageStart(d.baseaddr) ELSE minaddr
    /\ maxaddr' = IF d.endaddr > maxaddr
                  THEN PageStart(d.endaddr - 1) + Align ELSE maxaddr

Register(d) ==
    /\ running
    /\ lookup.state # "probe"
    /\ n < MaxDevices /\ last < MaxLast
    /\ \E newi \in 0..n :
         /\ Fits(d, newi)
         /\ devices' = Insert(d, newi)
         /\ last' = IF newi < last THEN last + 1 ELSE last
    /\ n' = n + 1
    /\ WidenWindow(d)
    /\ lookup' = Idle
    /\ UNCHANGED running

(* "collides with device": exit(1).                                        *)
RegisterCollision(d) ==
    /\ running
    /\ lookup.state # "probe"
    /\ Collides(d)
    /\ running' = FALSE
    /\ UNCHANGED <<devices, n, minaddr, maxaddr, last, lookup>>

-----------------------------------------------------------------------------
(* memory_device_remove().                                                 *)

(* The array is not reallocated: the last place keeps what it held.        *)
Remove(i) ==
    /\ running
    /\ lookup.state # "probe"
    /\ n' = n - 1
    /\ IF i = n - 1
       THEN UNCHANGED <<devices, last>>
       ELSE /\ devices' = [j \in DOMAIN devices |->
                             IF i <= j /\ j < n - 1 THEN devices[j+1] ELSE devices[j]]
            /\ last' = IF i <= last /\ last > 0 THEN last - 1 ELSE last
    /\ lookup' = Idle
    /\ UNCHANGED <<minaddr, maxaddr, running>>

-----------------------------------------------------------------------------
(* The search in memory_rw().                                              *)

Access(a) ==
    /\ running
    /\ lookup.state # "probe"
    /\ lookup' = [state |-> IF minaddr <= a /\ a < maxaddr THEN "probe" ELSE "ram",
                  paddr |-> a, hint |-> last, start |-> 0, end |-> n - 1, i |-> last]
    /\ UNCHANGED <<devices, n, minaddr, maxaddr, last, running>>

(* What devices[i] holds; beyond the end of the array that is undefined.   *)
At(i) == IF i \in DOMAIN devices THEN {devices[i]} ELSE Device

(* A bug to be caught: a single device that is left is not looked at.      *)
NarrowStopsEarly(l, d) ==
    LET s == IF l.paddr >= d.endaddr THEN l.i + 1 ELSE l.start
        e == IF l.paddr < d.baseaddr THEN l.i - 1 ELSE l.end
    IN  [l EXCEPT !.start = s, !.end = e, !.i = (s + e) \div 2,
                  !.state = IF s < e THEN "probe" ELSE "ram"]

(* A bug to be caught: the lower half is entered with the probed device    *)
(* still in it.                                                            *)
NarrowTooLittle(l, d) ==
    LET s == IF l.paddr >= d.endaddr THEN l.i ELSE l.start
        e == IF l.paddr < d.baseaddr THEN l.i - 1 ELSE l.end
    IN  [l EXCEPT !.start = s, !.end = e, !.i = (s + e) \div 2,
                  !.state = IF s <= e THEN "probe" ELSE "ram"]

(* The rest of the loop body when devices[i] is not the one, and the loop  *)
(* condition.                                                              *)
Narrow(l, d) ==
    LET s == IF l.paddr >= d.endaddr THEN l.i + 1 ELSE l.start
        e == IF l.paddr < d.baseaddr THEN l.i - 1 ELSE l.end
    IN  [l EXCEPT !.start = s, !.end = e, !.i = (s + e) \div 2,
                  !.state = IF s <= e THEN "probe" ELSE "ram"]

Probe ==
    /\ running
    /\ lookup.state = "probe"
    /\ \E d \in At(lookup.i) :
         \/ /\ Contains(d, lookup.paddr)
            /\ lookup' = [lookup EXCEPT !.state = "device"]
            /\ last' = lookup.i
         \/ /\ ~Contains(d, lookup.paddr)
            /\ lookup' = Narrow(lookup, d)
            /\ UNCHANGED last
    /\ UNCHANGED <<devices, n, minaddr, maxaddr, running>>

-----------------------------------------------------------------------------

Next ==
    \/ \E d \in Device : Register(d) \/ RegisterCollision(d)
    \/ \E i \in 0..n-1 : Remove(i)
    \/ \E a \in Addr : Access(a)
    \/ Probe

(* memory_rw() is called and runs to its end by itself.                    *)
Spec == Init /\ [][Next]_vars /\ WF_vars(Probe)

-----------------------------------------------------------------------------

Registered == {devices[j] : j \in 0..n-1}

TypeOK ==
    /\ n \in 0..MaxDevices
    /\ \E size \in 0..MaxDevices : n <= size /\ devices \in [0..size-1 -> Device]
    /\ minaddr \in Addr
    /\ maxaddr \in Nat
    /\ last \in Nat
    /\ lookup \in [state : {"idle", "probe", "device", "ram"}, paddr : Addr,
                   hint : Nat, start : Nat, end : Int, i : Int]
    /\ running \in BOOLEAN

(* The registered devices are sorted by address and none overlaps another, *)
(* whatever was registered and removed in whatever order: the binary       *)
(* search depends on it.                                                   *)
SortedDisjoint == \A i, j \in 0..n-1 : i < j => devices[i].endaddr <= devices[j].baseaddr

(* Every registered device lies inside the window, so memory_rw() searches *)
(* for it.                                                                 *)
WindowCovers == \A d \in Registered : minaddr <= d.baseaddr /\ d.endaddr <= maxaddr

(* What a finished search has to have found: a registered device that      *)
(* holds the address, or that there is none.                               *)
Exact ==
    /\ lookup.state = "device" => lookup.i \in 0..n-1 /\ Contains(devices[lookup.i], lookup.paddr)
    /\ lookup.state = "ram" => \A d \in Registered : ~Contains(d, lookup.paddr)

(* A search that begins at a registered device is exact, although its      *)
(* first probe may be anywhere in the array.                               *)
HintedLookupExact == lookup.hint < n => Exact

(* Every search comes to an end, also one that begins beyond the end of    *)
(* the list.                                                               *)
LookupTerminates == lookup.state = "probe" ~> lookup.state # "probe"
=============================================================================
