------------------------ MODULE MemoryDevicesProofs -------------------------
(* Proofs that the search for a memory mapped device is exact, for address *)
(* spaces and device lists of any size.                                    *)
EXTENDS MemoryDevices, TLAPS

(* What the loop keeps true: the device that holds the address, if one     *)
(* does, is still in start..end, and so is the next probe.                 *)
SearchInv ==
    /\ lookup.state = "probe" => lookup.i \in Nat
    /\ lookup.state = "probe" /\ lookup.hint < n =>
        /\ lookup.end <= n - 1
        /\ lookup.start <= lookup.i /\ lookup.i <= lookup.end
        /\ \A k \in 0..n-1 : Contains(devices[k], lookup.paddr)
                                => lookup.start <= k /\ k <= lookup.end

IInv == TypeOK /\ SortedDisjoint /\ WindowCovers /\ SearchInv /\ HintedLookupExact

-----------------------------------------------------------------------------
(* The initial state satisfies the invariant.                              *)
LEMMA InitInv == Init => IInv
  BY MemoryDevicesAssumption
  DEF Init, IInv, TypeOK, SortedDisjoint, WindowCovers, SearchInv,
      HintedLookupExact, Exact, Registered, Idle, Addr, Device

(* PageStart rounds down, by less than Align.                              *)
LEMMA PageStartBound ==
  ASSUME NEW a \in Nat
  PROVE  PageStart(a) \in Nat /\ PageStart(a) <= a /\ a < PageStart(a) + Align
  BY MemoryDevicesAssumption, Z3 DEF PageStart

(* Registering a device keeps the list sorted and inside the window.       *)
LEMMA RegisterInv ==
  ASSUME IInv, NEW d \in Device, Register(d)
  PROVE  IInv'
<1> USE MemoryDevicesAssumption
<1>1. PICK newi \in 0..n : /\ Fits(d, newi)
                           /\ devices' = Insert(d, newi)
                           /\ last' = IF newi < last THEN last + 1 ELSE last
  BY DEF Register
<1>2. /\ n \in Nat /\ n < MaxDevices /\ n' = n + 1
      /\ d \in [baseaddr : Addr, endaddr : Addr] /\ d.baseaddr < d.endaddr
      /\ d.baseaddr \in Nat /\ d.endaddr \in Nat /\ d.endaddr <= MaxAddr
  BY DEF IInv, TypeOK, Register, Device, Addr
<1>3. \A j \in 0..n-1 : /\ devices[j] \in Device
                        /\ devices[j].baseaddr \in Nat /\ devices[j].endaddr \in Nat
                        /\ devices[j].baseaddr < devices[j].endaddr
  BY DEF IInv, TypeOK, Device, Addr
<1>4. devices' \in [0..n -> Device]
  <2>1. \A j \in 0..n : (IF j < newi THEN devices[j]
                         ELSE IF j = newi THEN d ELSE devices[j-1]) \in Device
    BY <1>2, <1>3
  <2>. QED
    BY <1>1, <2>1 DEF Insert
<1>5. /\ PageStart(d.baseaddr) \in Nat /\ PageStart(d.baseaddr) <= d.baseaddr
      /\ PageStart(d.endaddr - 1) \in Nat
      /\ d.endaddr <= PageStart(d.endaddr - 1) + Align
  <2>1. d.endaddr - 1 \in Nat
    BY <1>2
  <2>. QED
    BY <1>2, <2>1, PageStartBound
<1>w. /\ minaddr' \in {minaddr, PageStart(d.baseaddr)}
      /\ maxaddr' \in {maxaddr, PageStart(d.endaddr - 1) + Align}
  BY DEF Register, WidenWindow
<1>6. TypeOK'
  <2>1. \E size \in 0..MaxDevices : n' <= size /\ devices' \in [0..size-1 -> Device]
    <3>1. n + 1 \in 0..MaxDevices /\ n' <= n + 1 /\ 0..(n+1)-1 = 0..n
      BY <1>2
    <3>. QED
      BY <3>1, <1>4
  <2>2. minaddr' \in Addr /\ maxaddr' \in Nat
    <3>1. minaddr \in Addr /\ maxaddr \in Nat
      BY DEF IInv, TypeOK
    <3>2. PageStart(d.baseaddr) \in Addr
      BY <1>2, <1>5 DEF Addr
    <3>3. PageStart(d.endaddr - 1) + Align \in Nat
      BY <1>5
    <3>. QED
      BY <1>w, <3>1, <3>2, <3>3
  <2>3. last' \in Nat
    BY <1>1, <1>2 DEF IInv, TypeOK
  <2>4. lookup' \in [state : {"idle", "probe", "device", "ram"}, paddr : Addr,
                     hint : Nat, start : Nat, end : Int, i : Int]
    BY DEF Register, Idle, Addr
  <2>5. n' \in 0..MaxDevices /\ running' \in BOOLEAN
    BY <1>2 DEF IInv, TypeOK, Register
  <2>. QED
    BY <2>1, <2>2, <2>3, <2>4, <2>5 DEF TypeOK, Device, Addr
<1>7. SortedDisjoint'
  <2> SUFFICES ASSUME NEW i \in 0..n, NEW j \in 0..n, i < j
               PROVE  devices'[i].endaddr <= devices'[j].baseaddr
    BY <1>2 DEF SortedDisjoint
  <2>1. CASE j < newi
    BY <1>1, <1>2, <1>3, <2>1 DEF Insert, IInv, SortedDisjoint
  <2>2. CASE j = newi
    <3>1. newi - 1 \in 0..n-1 /\ devices[newi-1].endaddr <= d.baseaddr
      BY <1>1, <1>2, <2>2 DEF Fits
    <3>2. devices[i].endaddr <= devices[newi-1].endaddr
      BY <1>2, <1>3, <2>2, <3>1 DEF IInv, SortedDisjoint
    <3>. QED
      BY <1>1, <1>2, <1>3, <2>2, <3>1, <3>2 DEF Insert
  <2>3. CASE j > newi
    <3>1. j - 1 \in 0..n-1 /\ devices'[j] = devices[j-1]
      BY <1>1, <1>2, <2>3 DEF Insert
    <3>2. CASE i < newi
      BY <1>1, <1>2, <1>3, <2>3, <3>1, <3>2 DEF Insert, IInv, SortedDisjoint
    <3>3. CASE i = newi
      <4>1. newi \in 0..n-1 /\ d.endaddr <= devices[newi].baseaddr
        BY <1>1, <1>2, <2>3 DEF Fits
      <4>2. devices[newi].baseaddr <= devices[j-1].baseaddr
        BY <1>2, <1>3, <2>3, <3>1, <4>1 DEF IInv, SortedDisjoint
      <4>. QED
        BY <1>1, <1>2, <1>3, <3>1, <3>3, <4>1, <4>2 DEF Insert
    <3>4. CASE i > newi
      BY SMTT(30), <1>1, <1>2, <1>3, <2>3, <3>1, <3>4 DEF Insert, IInv, SortedDisjoint
    <3>. QED
      BY <1>2, <3>2, <3>3, <3>4
  <2>. QED
    BY <1>2, <2>1, <2>2, <2>3
<1>8. WindowCovers'
  <2> SUFFICES ASSUME NEW j \in 0..n
               PROVE  minaddr' <= devices'[j].baseaddr /\ devices'[j].endaddr <= maxaddr'
    BY <1>2 DEF WindowCovers, Registered
  <2>1. minaddr' <= d.baseaddr /\ d.endaddr <= maxaddr'
    BY SMTT(30), <1>2, <1>5 DEF IInv, TypeOK, Register, WidenWindow, Addr
  <2>2. minaddr \in Nat /\ maxaddr \in Nat /\ minaddr' \in Nat /\ maxaddr' \in Nat
    BY <1>6 DEF IInv, TypeOK, Addr
  <2>5. minaddr' <= minaddr /\ maxaddr <= maxaddr'
    BY <1>2, <1>5, <2>2 DEF Register, WidenWindow
  <2>3. \A k \in 0..n-1 : minaddr <= devices[k].baseaddr /\ devices[k].endaddr <= maxaddr
    BY DEF IInv, WindowCovers, Registered
  <2>4. devices'[j] = d \/ \E k \in 0..n-1 : devices'[j] = devices[k]
    BY <1>1, <1>2 DEF Insert
  <2>. QED
    BY <1>2, <1>3, <2>1, <2>2, <2>3, <2>4, <2>5
<1>9. lookup'.state = "idle"
  BY DEF Register, Idle
<1>. QED
  BY <1>6, <1>7, <1>8, <1>9 DEF IInv, SearchInv, HintedLookupExact, Exact

(* Removing a device moves the ones behind it down by one place.           *)
LEMMA RemoveInv ==
  ASSUME IInv, NEW i \in 0..n-1, Remove(i)
  PROVE  IInv'
<1> USE MemoryDevicesAssumption
<1>1. PICK size \in 0..MaxDevices : n <= size /\ devices \in [0..size-1 -> Device]
  BY DEF IInv, TypeOK
<1>2. n \in Nat /\ n' = n - 1 /\ n' \in Nat /\ i \in Nat /\ i < n
  BY DEF IInv, TypeOK, Remove
<1>3. devices' \in [0..size-1 -> Device]
  BY <1>1, <1>2 DEF Remove
<1>4. \A j \in 0..n-2 : devices'[j] = IF i <= j THEN devices[j+1] ELSE devices[j]
  BY <1>1, <1>2 DEF Remove
<1>5. TypeOK'
  <2>1. n' \in 0..MaxDevices /\ n' <= size
    BY <1>1, <1>2
  <2>2. last' \in Nat
    BY DEF IInv, TypeOK, Remove
  <2>3. lookup' \in [state : {"idle", "probe", "device", "ram"}, paddr : Addr,
                     hint : Nat, start : Nat, end : Int, i : Int]
    BY DEF Remove, Idle, Addr
  <2>. QED
    BY <1>1, <1>3, <2>1, <2>2, <2>3 DEF IInv, TypeOK, Remove
<1>6. SortedDisjoint'
  <2> SUFFICES ASSUME NEW j \in 0..n-2, NEW k \in 0..n-2, j < k
               PROVE  devices'[j].endaddr <= devices'[k].baseaddr
    BY <1>2 DEF SortedDisjoint
  <2>1. /\ j+1 \in 0..n-1 /\ k+1 \in 0..n-1 /\ j+1 < k+1
        /\ j \in 0..n-1 /\ k \in 0..n-1 /\ j < k+1
    BY <1>2
  <2>2. i <= j => i <= k
    BY <1>2
  <2>. QED
    BY <1>4, <2>1, <2>2 DEF IInv, SortedDisjoint
<1>7. WindowCovers'
  <2>1. \A j \in 0..n-2 : j \in 0..n-1 /\ j+1 \in 0..n-1
    BY <1>2
  <2>2. \A j \in 0..n-2 : devices'[j] \in Registered
    BY <1>4, <2>1 DEF Registered
  <2>. QED
    BY <1>2, <2>2 DEF IInv, WindowCovers, Registered, Remove
<1>8. lookup'.state = "idle"
  BY DEF Remove, Idle
<1>. QED
  BY <1>5, <1>6, <1>7, <1>8 DEF IInv, SearchInv, HintedLookupExact, Exact

(* A search starts with the whole list, or is over at once because the     *)
(* address lies outside the window.                                        *)
LEMMA AccessInv ==
  ASSUME IInv, NEW a \in Addr, Access(a)
  PROVE  IInv'
<1> USE MemoryDevicesAssumption
<1>1. n \in Nat /\ last \in Nat /\ a \in Nat /\ UNCHANGED <<devices, n, minaddr, maxaddr, last, running>>
  BY DEF IInv, TypeOK, Access, Addr
<1>2. lookup' = [state |-> IF minaddr <= a /\ a < maxaddr THEN "probe" ELSE "ram",
                 paddr |-> a, hint |-> last, start |-> 0, end |-> n - 1, i |-> last]
  BY DEF Access
<1>3. lookup' \in [state : {"idle", "probe", "device", "ram"}, paddr : Addr,
                   hint : Nat, start : Nat, end : Int, i : Int]
  BY <1>1, <1>2
<1>4. TypeOK' /\ SortedDisjoint' /\ WindowCovers'
  BY <1>1, <1>3 DEF IInv, TypeOK, SortedDisjoint, WindowCovers, Registered, Device, Addr
<1>5. SearchInv'
  BY <1>1, <1>2 DEF SearchInv
<1>6. HintedLookupExact'
  <2> SUFFICES ASSUME lookup'.state = "ram", NEW k \in 0..n-1
               PROVE  ~Contains(devices[k], a)
    BY <1>1, <1>2 DEF HintedLookupExact, Exact, Registered
  <2>1. ~(minaddr <= a /\ a < maxaddr)
    BY <1>2
  <2>2. minaddr <= devices[k].baseaddr /\ devices[k].endaddr <= maxaddr
    BY DEF IInv, WindowCovers, Registered
  <2>3. devices[k] \in Device /\ minaddr \in Nat /\ maxaddr \in Nat
    BY <1>1 DEF IInv, TypeOK, Addr
  <2>4. devices[k].baseaddr \in Nat /\ devices[k].endaddr \in Nat
    BY <2>3 DEF Device, Addr
  <2>. QED
    BY <1>1, <2>1, <2>2, <2>3, <2>4 DEF Contains
<1>. QED
  BY <1>4, <1>5, <1>6 DEF IInv

(* A probe that misses cuts off only devices that cannot hold the address. *)
LEMMA ProbeInv ==
  ASSUME IInv, Probe
  PROVE  IInv'
<1> USE MemoryDevicesAssumption
<1>1. PICK d \in At(lookup.i) :
         \/ /\ Contains(d, lookup.paddr)
            /\ lookup' = [lookup EXCEPT !.state = "device"]
            /\ last' = lookup.i
         \/ /\ ~Contains(d, lookup.paddr)
            /\ lookup' = Narrow(lookup, d)
            /\ UNCHANGED last
  BY DEF Probe
<1>2. /\ n \in Nat /\ UNCHANGED <<devices, n, minaddr, maxaddr, running>>
      /\ lookup.state = "probe"
      /\ lookup \in [state : {"idle", "probe", "device", "ram"}, paddr : Addr,
                     hint : Nat, start : Nat, end : Int, i : Int]
      /\ lookup.paddr \in Nat /\ lookup.start \in Nat /\ lookup.end \in Int /\ lookup.i \in Int
  BY DEF IInv, TypeOK, Probe, Addr
<1>3. \A j \in 0..n-1 : /\ devices[j] \in Device
                        /\ devices[j].baseaddr \in Nat /\ devices[j].endaddr \in Nat
                        /\ devices[j].baseaddr < devices[j].endaddr
  BY DEF IInv, TypeOK, Device, Addr
<1>4. d \in Device /\ d.baseaddr \in Nat /\ d.endaddr \in Nat /\ d.baseaddr < d.endaddr
  <2>1. d \in Device
    BY DEF At, IInv, TypeOK
  <2>. QED
    BY <2>1 DEF Device, Addr
<1>5. lookup.hint < n => lookup.i \in 0..n-1 /\ d = devices[lookup.i]
  <2>1. lookup.hint < n => lookup.i \in 0..n-1
    BY <1>2 DEF IInv, SearchInv
  <2>2. lookup.i \in 0..n-1 => lookup.i \in DOMAIN devices
    BY DEF IInv, TypeOK
  <2>. QED
    BY <2>1, <2>2 DEF At
<1>6. SortedDisjoint' /\ WindowCovers'
  BY <1>2 DEF IInv, SortedDisjoint, WindowCovers, Registered
<1>7. CASE /\ Contains(d, lookup.paddr)
           /\ lookup' = [lookup EXCEPT !.state = "device"]
           /\ last' = lookup.i
  <2>1. /\ lookup' \in [state : {"idle", "probe", "device", "ram"}, paddr : Addr,
                        hint : Nat, start : Nat, end : Int, i : Int]
        /\ lookup'.state = "device" /\ lookup'.i = lookup.i
        /\ lookup'.paddr = lookup.paddr /\ lookup'.hint = lookup.hint
    BY <1>2, <1>7
  <2>2. last' \in Nat
    BY <1>2, <1>7 DEF IInv, SearchInv
  <2>3. TypeOK'
    BY <1>2, <2>1, <2>2 DEF IInv, TypeOK, Device, Addr
  <2>4. SearchInv' /\ HintedLookupExact'
    BY <1>2, <1>5, <1>7, <2>1 DEF SearchInv, HintedLookupExact, Exact
  <2>. QED
    BY <1>6, <2>3, <2>4 DEF IInv
<1>8. CASE /\ ~Contains(d, lookup.paddr)
           /\ lookup' = Narrow(lookup, d)
           /\ UNCHANGED last
  <2> DEFINE s == IF lookup.paddr >= d.endaddr THEN lookup.i + 1 ELSE lookup.start
             e == IF lookup.paddr < d.baseaddr THEN lookup.i - 1 ELSE lookup.end
  <2>1. s \in Nat /\ e \in Int
    BY <1>2, <1>4 DEF IInv, SearchInv
  <2>2. (s + e) \div 2 \in Int /\ (s <= e => s <= (s + e) \div 2 /\ (s + e) \div 2 <= e)
    <3> HIDE DEF s, e
    <3>. QED
      BY <2>1, Z3
  <2>3. lookup' = [lookup EXCEPT !.start = s, !.end = e, !.i = (s + e) \div 2,
                                 !.state = IF s <= e THEN "probe" ELSE "ram"]
    BY <1>8 DEF Narrow
  <2>4. /\ lookup'.start = s /\ lookup'.end = e /\ lookup'.i = (s + e) \div 2
        /\ lookup'.state = IF s <= e THEN "probe" ELSE "ram"
        /\ lookup'.paddr = lookup.paddr /\ lookup'.hint = lookup.hint
        /\ lookup' \in [state : {"idle", "probe", "device", "ram"}, paddr : Addr,
                        hint : Nat, start : Nat, end : Int, i : Int]
    <3> HIDE DEF s, e
    <3>. QED
      BY <1>2, <2>1, <2>2, <2>3
  <2>5. TypeOK'
    BY <1>2, <1>8, <2>4 DEF IInv, TypeOK, Device, Addr
  (* Where the list is sorted, the device is not on the side that is cut. *)
  <2>6. ASSUME lookup.hint < n, NEW k \in 0..n-1, Contains(devices[k], lookup.paddr)
        PROVE  s <= k /\ k <= e
    <3>1. lookup.start <= k /\ k <= lookup.end
      BY <1>2, <2>6 DEF IInv, SearchInv
    <3>2. lookup.paddr >= d.endaddr => lookup.i < k
      <4> SUFFICES ASSUME lookup.paddr >= d.endaddr, k <= lookup.i
                   PROVE  FALSE
        BY <1>2, <2>6
      <4>1. k < lookup.i => devices[k].endaddr <= d.baseaddr
        BY <1>5, <2>6 DEF IInv, SortedDisjoint
      <4>. QED
        BY <1>2, <1>3, <1>4, <1>5, <2>6, <4>1 DEF Contains
    <3>3. lookup.paddr < d.baseaddr => k < lookup.i
      <4> SUFFICES ASSUME lookup.paddr < d.baseaddr, lookup.i <= k
                   PROVE  FALSE
        BY <1>2, <2>6
      <4>1. lookup.i < k => d.endaddr <= devices[k].baseaddr
        BY <1>5, <2>6 DEF IInv, SortedDisjoint
      <4>. QED
        BY <1>2, <1>3, <1>4, <1>5, <2>6, <4>1 DEF Contains
    <3>. QED
      BY <1>2, <3>1, <3>2, <3>3
  <2>7. SearchInv'
    <3>1. lookup'.state = "probe" => s <= e /\ (s + e) \div 2 \in Nat
      <4> HIDE DEF s, e
      <4>. QED
        BY <2>1, <2>2, <2>4
    <3>2. lookup.hint < n => e <= n - 1
      BY <1>2, <1>5 DEF IInv, SearchInv
    <3> HIDE DEF s, e
    <3>. QED
      BY <1>2, <2>2, <2>4, <2>6, <3>1, <3>2 DEF SearchInv
  <2>8. HintedLookupExact'
    <3> HIDE DEF s, e
    <3> SUFFICES ASSUME lookup.hint < n, lookup'.state = "ram", NEW k \in 0..n-1,
                        Contains(devices[k], lookup.paddr)
                 PROVE  FALSE
      BY <1>2, <2>4 DEF HintedLookupExact, Exact, Registered
    <3>. QED
      BY <2>1, <2>4, <2>6
  <2>. QED
    BY <1>6, <2>5, <2>7, <2>8 DEF IInv
<1>. QED
  BY <1>1, <1>7, <1>8

-----------------------------------------------------------------------------
(* The invariant holds in every reachable state.                           *)
LEMMA Invariance == Spec => []IInv
<1>1. IInv /\ [Next]_vars => IInv'
  <2> SUFFICES ASSUME IInv, [Next]_vars
               PROVE  IInv'
    OBVIOUS
  <2>1. CASE \E d \in Device : Register(d)
    BY <2>1, RegisterInv
  <2>2. CASE \E d \in Device : RegisterCollision(d)
    BY <2>2 DEF RegisterCollision, IInv, TypeOK, SortedDisjoint, WindowCovers,
                SearchInv, HintedLookupExact, Exact, Registered, Device, Addr
  <2>3. CASE \E i \in 0..n-1 : Remove(i)
    BY <2>3, RemoveInv
  <2>4. CASE \E a \in Addr : Access(a)
    BY <2>4, AccessInv
  <2>5. CASE Probe
    BY <2>5, ProbeInv
  <2>6. CASE UNCHANGED vars
    BY <2>6 DEF vars, IInv, TypeOK, SortedDisjoint, WindowCovers,
                SearchInv, HintedLookupExact, Exact, Registered, Device, Addr
  <2>. QED
    BY <2>1, <2>2, <2>3, <2>4, <2>5, <2>6 DEF Next
<1>. QED
  BY InitInv, <1>1, PTL DEF Spec

(* The hint stays a natural number and the list within its bound, whatever *)
(* registrations and removals come between two accesses.                   *)
THEOREM AlwaysTyped == Spec => []TypeOK
  BY Invariance, PTL DEF IInv

(* However devices are registered and removed, mem->devices[] stays sorted *)
(* and without overlaps.                                                   *)
THEOREM AlwaysSorted == Spec => []SortedDisjoint
  BY Invariance, PTL DEF IInv

(* minaddr and maxaddr, which removals never narrow, always enclose every  *)
(* registered device: memory_rw() skips the search for none of them.       *)
THEOREM AlwaysInWindow == Spec => []WindowCovers
  BY Invariance, PTL DEF IInv

(* A search of memory_rw() that begins at a registered device finds the    *)
(* device at the address exactly when there is one.                        *)
THEOREM AlwaysExactWhenHinted == Spec => []HintedLookupExact
  BY Invariance, PTL DEF IInv
=============================================================================
