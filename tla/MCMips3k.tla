----------------------------- MODULE MCMips3k -------------------------------
(* Mips3k on small machines of three virtual pages.                        *)
EXTENDS Mips3k, TLC

ThreePages == 0..2
TwoPages == 0..1
OnePage == {0}
NoPages == {}

(* Page 0 is mapped by the guest's TLB; 1 and 2 are kseg0. *)
TwoKseg0 == {1, 2}

(* Page 2 is the kseg1 alias of page 1. *)
Kseg1 == {2}
AliasPhys == (1 :> 0) @@ (2 :> 0)

(* Pages 0 and 2 are mapped by the TLB. *)
OneKseg0 == {1}
OneKseg0Phys == 1 :> 0

OneSlot == {0}
TwoSlots == 0..1
RangePerSlot == [s \in Slots |-> s]

AsidSymmetry == Permutations(Asids)
=============================================================================
