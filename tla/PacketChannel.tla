--------------------------- MODULE PacketChannel ----------------------------
(***************************************************************************)
(* What a network interface promises to its driver: whole packets, in the  *)
(* order in which they were sent, each at most once.  A driver that starts *)
(* the interface anew may lose the oldest packets that wait, and no other. *)
(***************************************************************************)
EXTENDS Naturals, Sequences

VARIABLES
    pending,    \* packets on their way to the driver
    got,        \* packets the driver has read
    broken      \* nothing is promised while this is TRUE

chan == <<pending, got, broken>>

Init == pending = <<>> /\ got = <<>> /\ broken = FALSE

(* Packets are sent to the interface.                                      *)
Send ==
    /\ Len(pending') > Len(pending)
    /\ SubSeq(pending', 1, Len(pending)) = pending
    /\ got' = got

Deliver ==
    /\ pending # <<>>
    /\ got' = Append(got, Head(pending))
    /\ pending' = Tail(pending)

(* The interface is started anew.                                          *)
Lose ==
    /\ \E k \in 0..Len(pending): pending' = SubSeq(pending, k + 1, Len(pending))
    /\ got' = got

Next ==
    \/ ~broken /\ ~broken' /\ (Send \/ Deliver \/ Lose)
    \/ broken
    \/ broken'

Spec == Init /\ [][Next]_chan
=============================================================================
