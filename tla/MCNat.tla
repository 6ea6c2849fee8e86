------------------------------- MODULE MCNat --------------------------------
(* Nat with one connection that moves several segments, or two short ones  *)
(* that share the slot; sequence numbers wrap around.                      *)
EXTENDS Nat

MCSlots == 1..1

MCLoads == {[p |-> [out |-> 2, in |-> 3, iss |-> 1]],
            [p |-> [out |-> 1, in |-> 3, iss |-> 5]],
            [p |-> [out |-> 1, in |-> 1, iss |-> 5], q |-> [out |-> 0, in |-> 1, iss |-> 1]]}
=============================================================================
