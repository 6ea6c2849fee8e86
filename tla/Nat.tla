-------------------------------- MODULE Nat ---------------------------------
(***************************************************************************)
(* The TCP side of the gateway (net_ip.c): it answers the guest's TCP      *)
(* segments itself and moves the data through sockets of the host.  There  *)
(* is a slot for every connection.  Towards the guest the gateway sends    *)
(* one segment, keeps it until it is acknowledged, and sends it again      *)
(* after some rounds.  Segments of the guest come in by a call and are     *)
(* handled at once; segments for the guest wait in the chain of packets.   *)
(*                                                                         *)
(* External: the TCP of the guest, one connection for every port, which    *)
(* may lose segments or take a part of one; and the socket, which may      *)
(* refuse, be full as long as its peer takes nothing, take a part of the   *)
(* data, fail, or end.  Octet n of a direction is the number n.            *)
(***************************************************************************)
EXTENDS Integers, Sequences, FiniteSets, FiniteSetsExt

CONSTANTS
    Slots,          \* 1..MAX_TCP_CONNECTIONS
    Ports,          \* the guest's ports
    W,              \* sequence numbers are taken modulo W (2^32 in the code)
    GuestIss,       \* the guest's initial sequence number
    MaxSegment,     \* octets in a segment (1400 in the code)
    Window,         \* the window the gateway announces (4096 in the code)
    ResendRounds,   \* rounds before a segment is sent again (10000 in the code)
    Loads,          \* for the ports in use, the octets to send either way and the
                    \* initial sequence number the gateway picks
    MaxChain,       \* bound on the chain of packets
    MaxLost         \* bound on the segments that are lost

ASSUME NatAssumption ==
    /\ IsFiniteSet(Slots) /\ Slots = 1..Cardinality(Slots)
    /\ W \in Nat /\ W >= 4 /\ GuestIss \in 0..W - 1
    /\ MaxSegment \in 1..W - 1 /\ Window \in 1..W - 1 /\ ResendRounds \in Nat
    /\ MaxLost \in Nat
    /\ \A load \in Loads: /\ DOMAIN load \subseteq Ports
                         /\ \A p \in DOMAIN load: /\ load[p].out \in Nat /\ load[p].in \in Nat
                                                  /\ load[p].iss \in 0..W - 1

VARIABLES
    tcp_connections,    \* the slots
    packets,            \* what waits in the chain for the guest
    guest,              \* the guest's end of every connection
    outside,            \* the socket's end of every connection
    lost                \* segments that have been lost

vars == <<tcp_connections, packets, guest, outside, lost>>

-----------------------------------------------------------------------------
(* A bug to be caught: sequence numbers are wider than 32 bits.            *)
PlusWide(a, n) == a + n

Plus(a, n) == (a + n) % W

(* (int32_t) a - (int32_t) b > 0                                           *)
After(a, b) == (a - b) % W \in 1..(W \div 2) - 1

States == {"TRYINGTOCONNECT", "CONNECTED", "DISCONNECTED", "DISCONNECTED2"}

(* A bug to be caught: > is taken for >=.                                  *)
DisconnectedEarly(c) == c.state # "TRYINGTOCONNECT"

(* state >= TCP_OUTSIDE_DISCONNECTED                                       *)
Disconnected(c) == c.state \in {"DISCONNECTED", "DISCONNECTED2"}

(* A slot that is not in use: tcp_closeconnection().                       *)
Unused == [in_use |-> FALSE]

(* A slot for a new connection.                                            *)
NewConnection(p, seqnr, iss) ==
    [in_use |-> TRUE, port |-> p, state |-> "TRYINGTOCONNECT",
     inside_seqnr |-> seqnr, inside_acknr |-> 0,
     outside_seqnr |-> iss, outside_acknr |-> 0,
     incoming_buf |-> <<>>, incoming_buf_seqnr |-> 0, incoming_buf_rounds |-> 0]

(* net_ip_tcp_connectionreply(): the segment it makes ...                  *)
Reply(c, syn, rst, data) ==
    [port |-> c.port, seq |-> c.outside_seqnr, ack |-> c.outside_acknr,
     syn |-> syn, rst |-> rst, fin |-> Disconnected(c), data |-> data]

Ack(c) == Reply(c, FALSE, FALSE, <<>>)

(* ... and the slot after data has been sent.                              *)
Sent(c, data) == [c EXCEPT !.outside_seqnr = Plus(@, Len(data))]

Queue(s) == packets' = packets \o s

Set(i, c) == tcp_connections' = [tcp_connections EXCEPT ![i] = c]

-----------------------------------------------------------------------------
(* net_ip_tcp(), for a segment m of the guest.                             *)

Known(m) == {i \in Slots: tcp_connections[i].in_use /\ tcp_connections[i].port = m.port}

Free == {i \in Slots: ~tcp_connections[i].in_use}

(* Not a connection and no SYN, a redundant SYN, or too many connections.  *)
Ignore(m) ==
    /\ \/ Known(m) = {} /\ (~m.syn \/ Free = {})
       \/ Known(m) # {} /\ m.syn
    /\ UNCHANGED <<tcp_connections, packets, outside>>

(* A new outgoing connection takes the last free slot.                     *)
NewOutgoing(m) ==
    /\ Known(m) = {} /\ m.syn /\ Free # {}
    /\ Set(Max(Free), NewConnection(m.port, m.seq, outside[m.port].iss))
    /\ UNCHANGED <<packets, outside>>

(* The acknowledgement in the segment.                                     *)
Acknowledged(c, m) ==
    [c EXCEPT !.inside_acknr = m.ack, !.inside_seqnr = m.seq,
              !.incoming_buf = IF m.ack = c.outside_seqnr THEN <<>> ELSE @]

(* A bug to be caught: everything is acknowledged, taken or not.           *)
WrittenAll(c, n) == [c EXCEPT !.outside_acknr = Plus(@, MaxSegment)]

(* The socket has taken n octets.                                          *)
Written(c, n) == [c EXCEPT !.outside_acknr = Plus(@, n)]

(* The data goes to the socket if it is what comes next, and the answer    *)
(* acknowledges what the socket has taken, which may fill it.  No answer   *)
(* if the socket says EAGAIN; disconnected if it is full or fails.         *)
WriteOutside(i, c, m) ==
    \/ /\ m.seq # c.outside_acknr
       /\ Set(i, c) /\ Queue(<<Ack(c)>>) /\ UNCHANGED outside
    \/ /\ m.seq = c.outside_acknr /\ ~outside[c.port].full
       /\ \E n \in 1..Len(m.data), full \in BOOLEAN:
              /\ Set(i, Written(c, n)) /\ Queue(<<Ack(Written(c, n))>>)
              /\ outside' = [outside EXCEPT ![c.port].got = @ \o SubSeq(m.data, 1, n),
                                            ![c.port].full = full]
    \/ /\ m.seq = c.outside_acknr /\ ~outside[c.port].full
       /\ Set(i, c) /\ UNCHANGED <<packets, outside>>
    \/ /\ m.seq = c.outside_acknr
       /\ LET dead == [c EXCEPT !.state = "DISCONNECTED"]
          IN  Set(i, dead) /\ Queue(<<Ack(dead)>>)
       /\ outside' = [outside EXCEPT ![c.port].broken = TRUE]

(* A bug to be caught: the guest's FIN does not count.                     *)
AfterFinSame(c) == [c EXCEPT !.state = "DISCONNECTED"]

(* The guest has sent FIN.                                                 *)
AfterFin(c) == [c EXCEPT !.state = "DISCONNECTED2"]

(* RST, the last acknowledgement (all segments but SYN have one), FIN when *)
(* the outside has disconnected already, FIN, and all the rest.            *)
Segment(m) == \E i \in Known(m):
    LET c == tcp_connections[i]
    IN  /\ ~m.syn
        /\ \/ /\ m.rst \/ c.state = "DISCONNECTED2"
              /\ Set(i, Unused) /\ Queue(<<Reply(c, FALSE, TRUE, <<>>)>>)
              /\ UNCHANGED outside
           \/ /\ ~m.rst /\ m.fin /\ c.state = "DISCONNECTED"
              /\ Set(i, AfterFin(c)) /\ Queue(<<Ack([c EXCEPT !.state = "CONNECTED"])>>)
              /\ UNCHANGED outside
           \/ /\ ~m.rst /\ m.fin /\ ~Disconnected(c)
              /\ Set(i, AfterFin(c)) /\ Queue(<<Ack(c), Ack(AfterFin(c))>>)
              /\ UNCHANGED outside
           \/ /\ ~m.rst /\ ~m.fin /\ c.state # "DISCONNECTED2"
              /\ LET a == Acknowledged(c, m)
                 IN  \/ c.state = "CONNECTED" /\ m.data # <<>> /\ WriteOutside(i, a, m)
                     \/ /\ c.state # "CONNECTED" \/ m.data = <<>>
                        /\ Set(i, a) /\ UNCHANGED <<packets, outside>>

net_ip_tcp(m) == Ignore(m) \/ NewOutgoing(m) \/ Segment(m)

-----------------------------------------------------------------------------
(* net_tcp_rx_avail(), one connection.                                     *)

(* The connection when the socket has become writable.                     *)
Opened(c) ==
    IF c.state # "TRYINGTOCONNECT" THEN c
    ELSE [c EXCEPT !.state = "CONNECTED", !.outside_acknr = Plus(c.inside_seqnr, 1),
                   !.outside_seqnr = Plus(@, 1)]

(* The SYN that tells the guest.                                           *)
Opening(c) ==
    IF c.state # "TRYINGTOCONNECT" THEN <<>>
    ELSE <<Reply([Opened(c) EXCEPT !.outside_seqnr = c.outside_seqnr], TRUE, FALSE, <<>>)>>

(* A bug to be caught: a segment goes out again under the next number.     *)
ResentAsNew(c) == [c EXCEPT !.incoming_buf_rounds = 0]

(* The slot from which the kept segment is sent again.                     *)
Resent(c) == [c EXCEPT !.incoming_buf_rounds = 0, !.outside_seqnr = c.incoming_buf_seqnr]

(* A bug to be caught: data is read though a segment waits for its         *)
(* acknowledgement.                                                        *)
AlwaysReady(c) == TRUE

(* The guest has acknowledged everything.                                  *)
GuestReady(c) == c.incoming_buf = <<>> /\ ~After(c.outside_seqnr, c.inside_acknr)

(* The slot with n octets read from the socket in its buffer.              *)
Buffered(c, data) ==
    [c EXCEPT !.incoming_buf = data, !.incoming_buf_rounds = 0,
              !.incoming_buf_seqnr = c.outside_seqnr]

NextData(p, n) == [k \in 1..n |-> outside[p].read + k]

Unread(p) == outside[p].todo - outside[p].read

Active(i) ==
    /\ tcp_connections[i].in_use /\ ~Disconnected(tcp_connections[i])
    /\ Len(packets) < MaxChain

(* The guest has not been told of the connection.                          *)
Unopened(c) == c.state = "TRYINGTOCONNECT"

(* What follows for the slot c, opened just now if s is its SYN.  A        *)
(* segment is kept: count, or send it again.  Nothing is kept: read, if    *)
(* the guest is ready and the second select() finds something.             *)
Serve(i, c, s) ==
    \/ /\ c.incoming_buf # <<>> /\ c.incoming_buf_rounds < ResendRounds
       /\ Set(i, [c EXCEPT !.incoming_buf_rounds = @ + 1])
       /\ Queue(s) /\ UNCHANGED outside
    \/ /\ c.incoming_buf # <<>> /\ c.incoming_buf_rounds = ResendRounds
       /\ Set(i, Sent(Resent(c), c.incoming_buf))
       /\ Queue(s \o <<Reply(Resent(c), FALSE, FALSE, c.incoming_buf)>>)
       /\ UNCHANGED outside
    \/ /\ GuestReady(c)
       /\ \E n \in 1..MaxSegment:
              /\ n <= Unread(c.port)
              /\ LET data == NextData(c.port, n)
                 IN  /\ Set(i, Sent(Buffered(c, data), data))
                     /\ Queue(s \o <<Reply(c, FALSE, FALSE, data)>>)
              /\ outside' = [outside EXCEPT ![c.port].read = @ + n,
                                            ![c.port].early = @ \/ Unopened(c)]
    \/ /\ c.incoming_buf = <<>> /\ s # <<>>
       /\ Set(i, c) /\ Queue(s) /\ UNCHANGED outside

(* The first select() finds the socket writable; or not, which ends the    *)
(* matter only if the slot is CONNECTED.                                   *)
net_tcp_rx_avail(i) == Active(i) /\
    LET c == tcp_connections[i]
    IN  \/ ~outside[c.port].full /\ Serve(i, Opened(c), Opening(c))
        \/ Unopened(c) /\ Serve(i, c, <<>>)

(* read() returns 0, or fails, which also is what becomes of a connection  *)
(* that was refused.                                                       *)
Over(i, c, s) ==
    LET dead == [c EXCEPT !.state = "DISCONNECTED"]
    IN  /\ GuestReady(c)
        /\ Set(i, dead) /\ Queue(s \o <<Ack(dead)>>)
        /\ \E broken \in BOOLEAN:
               /\ Unread(c.port) = 0 \/ broken
               /\ outside' = [outside EXCEPT ![c.port].broken = broken,
                                             ![c.port].early = @ \/ Unopened(c)]

(* The outside ends the connection.                                        *)
Ended(i) == Active(i) /\
    LET c == tcp_connections[i]
    IN  \/ ~outside[c.port].full /\ Over(i, Opened(c), Opening(c))
        \/ Unopened(c) /\ Over(i, c, <<>>)

(* select() reports that the connection was refused or has timed out.      *)
Refused(i) == Active(i) /\
    LET c == tcp_connections[i]
    IN  /\ Set(i, [c EXCEPT !.state = "DISCONNECTED"])
        /\ outside' = [outside EXCEPT ![c.port].broken = TRUE]
        /\ UNCHANGED packets

(* The peer takes data, and the socket is writable again.                  *)
Drain(p) ==
    /\ outside[p].full /\ outside' = [outside EXCEPT ![p].full = FALSE]
    /\ UNCHANGED <<tcp_connections, packets, guest, lost>>

-----------------------------------------------------------------------------
(* The guest.                                                              *)

Closed(todo) == [st |-> "closed", todo |-> todo, irs |-> 0, got |-> <<>>, una |-> 0, nxt |-> 0,
                 fin |-> FALSE, ack_due |-> FALSE]

Connected(p) == guest[p].st \in {"established", "closing"}

(* The sequence number of what comes after the first n octets.             *)
SeqOut(n) == Plus(GuestIss, n + 1)
SeqIn(g)  == Plus(g.irs, Len(g.got))

Syn(p) == [port |-> p, seq |-> GuestIss, ack |-> 0, syn |-> TRUE, rst |-> FALSE,
           fin |-> FALSE, data |-> <<>>]

(* A segment with the octets from the pos-th to the end-th.                *)
Octets(p, pos, end, fin, rst) ==
    [port |-> p, seq |-> SeqOut(pos), syn |-> FALSE, rst |-> rst, fin |-> fin,
     ack  |-> Plus(SeqIn(guest[p]), IF guest[p].fin THEN 1 ELSE 0),
     data |-> [k \in 1..end - pos |-> pos + k]]

Guest(p, g) == guest' = [guest EXCEPT ![p] = [g EXCEPT !.ack_due = FALSE]]

Connect(p) ==
    /\ guest[p].st \in {"closed", "syn_sent"} /\ net_ip_tcp(Syn(p))
    /\ Guest(p, [guest[p] EXCEPT !.st = "syn_sent"]) /\ UNCHANGED lost

(* New octets, as many as the window allows, or all that have not been     *)
(* acknowledged.                                                           *)
SendData(p) ==
    /\ guest[p].st = "established" /\ Len(packets) < MaxChain
    /\ \E end \in guest[p].nxt..guest[p].todo, pos \in {guest[p].una, guest[p].nxt}:
           /\ pos < end /\ end - pos <= MaxSegment /\ end - guest[p].una <= Window
           /\ pos = guest[p].nxt \/ end = guest[p].nxt
           /\ net_ip_tcp(Octets(p, pos, end, FALSE, FALSE))
           /\ Guest(p, [guest[p] EXCEPT !.nxt = end])
    /\ UNCHANGED lost

SendAck(p) ==
    /\ Connected(p) /\ guest[p].ack_due
    /\ net_ip_tcp(Octets(p, guest[p].nxt, guest[p].nxt, FALSE, FALSE))
    /\ Guest(p, guest[p]) /\ UNCHANGED lost

(* The last octets and a FIN.                                              *)
Close(p) ==
    /\ guest[p].st = "established" /\ Len(packets) < MaxChain
    /\ \E n \in 0..MaxSegment:
           /\ guest[p].nxt + n <= guest[p].todo /\ guest[p].nxt + n - guest[p].una <= Window
           /\ net_ip_tcp(Octets(p, guest[p].nxt, guest[p].nxt + n, TRUE, FALSE))
           /\ Guest(p, [guest[p] EXCEPT !.nxt = @ + n, !.st = "closing"])
    /\ UNCHANGED lost

ResendFin(p) ==
    /\ guest[p].st = "closing" /\ Len(packets) < MaxChain
    /\ net_ip_tcp(Octets(p, guest[p].una, guest[p].nxt, TRUE, FALSE))
    /\ Guest(p, guest[p]) /\ UNCHANGED lost

Abort(p) ==
    /\ guest[p].st = "established" /\ Len(packets) < MaxChain
    /\ net_ip_tcp(Octets(p, guest[p].nxt, guest[p].nxt, FALSE, TRUE))
    /\ Guest(p, [guest[p] EXCEPT !.st = "done"]) /\ UNCHANGED lost

(* What a segment from the gateway acknowledges.                           *)
Una(g, m) ==
    LET n == (m.ack - SeqOut(g.una)) % W IN IF n <= g.nxt - g.una THEN g.una + n ELSE g.una

(* The octets of a segment that come next.                                 *)
Fresh(g, m) == LET n == (SeqIn(g) - m.seq) % W IN SubSeq(m.data, n + 1, Len(m.data))

Taken(g, m, data) ==
    LET new == [g EXCEPT !.una = Una(g, m), !.got = @ \o data]
    IN  [new EXCEPT !.fin = @ \/ (m.fin /\ Plus(m.seq, Len(m.data)) = SeqIn(new)),
                    !.ack_due = @ \/ m.fin \/ m.data # <<>>]

Handle(g, m, data) ==
    IF g.st = "syn_sent" /\ m.syn /\ m.ack = SeqOut(0)
        THEN [g EXCEPT !.st = "established", !.irs = Plus(m.seq, 1), !.ack_due = TRUE]
    ELSE IF g.st \in {"established", "closing"} /\ ~m.syn
        THEN IF m.rst THEN [g EXCEPT !.st = "done"] ELSE Taken(g, m, data)
    ELSE g

Receive ==
    /\ packets # <<>> /\ packets' = Tail(packets)
    /\ LET m == Head(packets)
       IN  guest' = [guest EXCEPT ![m.port] = Handle(@, m, Fresh(@, m))]
    /\ UNCHANGED <<tcp_connections, outside, lost>>

(* A segment is lost, or the guest has no room for all of it.              *)
Lose ==
    /\ packets # <<>> /\ packets' = Tail(packets) /\ lost < MaxLost /\ lost' = lost + 1
    /\ LET m == Head(packets)
       IN  \/ guest' = guest
          \/ \E n \in 1..Len(Fresh(guest[m.port], m)) - 1:
                 guest' = [guest EXCEPT ![m.port] =
                               Handle(@, m, SubSeq(Fresh(@, m), 1, n))]
    /\ UNCHANGED <<tcp_connections, outside>>

-----------------------------------------------------------------------------
Init ==
    /\ tcp_connections = [i \in Slots |-> Unused]
    /\ packets = <<>> /\ lost = 0
    /\ \E load \in Loads:
           /\ guest = [p \in Ports |-> IF p \in DOMAIN load THEN Closed(load[p].out)
                                     ELSE [Closed(0) EXCEPT !.st = "unused"]]
           /\ outside = [p \in Ports |->
                             [todo |-> IF p \in DOMAIN load THEN load[p].in ELSE 0,
                              iss  |-> IF p \in DOMAIN load THEN load[p].iss ELSE 0,
                              read |-> 0, got |-> <<>>, broken |-> FALSE,
                              full |-> FALSE, early |-> FALSE]]

Poll(i) == net_tcp_rx_avail(i) /\ UNCHANGED <<guest, lost>>

Fail(i) == (Ended(i) \/ Refused(i)) /\ UNCHANGED <<guest, lost>>

Next ==
    \/ \E i \in Slots: Poll(i) \/ Fail(i)
    \/ \E p \in Ports: \/ Connect(p) \/ SendData(p) \/ SendAck(p)
                       \/ Close(p) \/ ResendFin(p) \/ Abort(p) \/ Drain(p)
    \/ Receive \/ Lose

Spec == Init /\ [][Next]_vars

(* The network interface polls at every tick, so a connection is looked at *)
(* again and again (MaxChain is a bound of the model, hence SF); the guest *)
(* takes what waits, acknowledges it, and repeats its FIN.                 *)
FairSpec ==
    /\ Spec /\ WF_vars(Receive)
    /\ \A i \in Slots: SF_vars(Poll(i))
    /\ \A p \in Ports: WF_vars(SendAck(p)) /\ SF_vars(ResendFin(p))

-----------------------------------------------------------------------------
(* Properties.                                                             *)

(* Type invariant of the connections.                                      *)
TypeOK ==
    \A i \in Slots: LET c == tcp_connections[i] IN c.in_use =>
        /\ c.state \in States /\ c.port \in Ports
        /\ {c.inside_seqnr, c.inside_acknr, c.outside_seqnr, c.outside_acknr,
            c.incoming_buf_seqnr} \subseteq 0..W - 1
        /\ c.incoming_buf_rounds \in 0..ResendRounds
        /\ Len(c.incoming_buf) <= MaxSegment

InOrder(octets) == octets = [k \in DOMAIN octets |-> k]

(* Whatever is lost, sent again, taken in part or left from an earlier     *)
(* connection in the same slot: the octets that arrive on either side are  *)
(* the first ones that were sent, in order, each of them once, unless the  *)
(* socket was read before the guest knew of the connection.                *)
StreamsIntact ==
    \A p \in Ports: ~outside[p].early => InOrder(guest[p].got) /\ InOrder(outside[p].got)

Acked(p) == InOrder(outside[p].got) /\ guest[p].una <= Len(outside[p].got)

(* What the gateway acknowledges to the guest, which then forgets it, has  *)
(* been taken by the socket, in order.                                     *)
AckedIsWritten == \A p \in Ports: Acked(p)

(* As long as the guest has not closed the connection, it sees the end     *)
(* only after all the data, unless the connection has failed outside or    *)
(* its socket was read before the guest knew of it.                        *)
EndAfterData ==
    \A p \in Ports:
        guest[p].st = "established" /\ guest[p].fin /\ ~outside[p].broken /\ ~outside[p].early
            => Len(guest[p].got) = outside[p].todo

(* All that the outside sends arrives at the guest, if the peer goes on    *)
(* taking what the guest sends (a socket that stays full is not read), as  *)
(* long as the outside does not fail and the guest keeps the connection,   *)
(* and the socket was not read before the guest knew of it.                *)
OutsideDataArrives ==
    \A p \in Ports: []<>(~outside[p].full) =>
        (guest[p].st = "established" /\ ~outside[p].early ~>
             \/ Len(guest[p].got) = outside[p].todo
             \/ outside[p].broken \/ guest[p].st # "established")

(* A connection that the guest closes gives its slot back.                 *)
SlotsFreed ==
    \A p \in Ports: guest[p].st = "closing" ~>
        \A i \in Slots: tcp_connections[i].in_use => tcp_connections[i].port # p
=============================================================================
