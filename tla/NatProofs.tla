------------------------------ MODULE NatProofs -----------------------------
(***************************************************************************)
(* Proofs about Nat: for any number of slots, ports and octets, and for    *)
(* sequence numbers modulo any W that exceeds the window and a segment,    *)
(* both streams of every connection are intact, unless its socket was read *)
(* before the guest knew of it.                                            *)
(***************************************************************************)
EXTENDS Nat, FiniteSetTheorems, SequenceTheorems, WellFoundedInduction, TLAPS

-----------------------------------------------------------------------------
(* Numbers modulo W.                                                       *)

LEMMA Multiples ==
    ASSUME NEW w \in Nat \ {0}, NEW k \in Int, w * k < w, -w < w * k
    PROVE  k = 0
<1>1. k >= 1 => w * k >= w
  OBVIOUS
<1>2. k <= -1 => w * k <= -w
  OBVIOUS
<1> QED BY <1>1, <1>2

(* A remainder is determined by its bounds.                                *)
LEMMA RemainderIs ==
    ASSUME NEW x \in Int, NEW w \in Nat \ {0}, NEW q \in Int, NEW r \in 0..w - 1,
           x = w * q + r
    PROVE  x % w = r
<1> DEFINE q1 == x \div w
           r1 == x % w
<1>1. q1 \in Int /\ r1 \in 0..w - 1 /\ x = w * q1 + r1
  OBVIOUS
<1> HIDE DEF q1, r1
<1>2. w * (q1 - q) = w * q1 - w * q
  BY <1>1
<1>3. q1 - q = 0
  <2> DEFINE k == q1 - q
             y == w * k
             a == w * q1
             b == w * q
  <2>1. k \in Int /\ y \in Int /\ a \in Int /\ b \in Int /\ y = a - b
    BY <1>1, <1>2
  <2>2. x = a + r1 /\ x = b + r
    BY <1>1
  <2> HIDE DEF a, b
  <2>3. y < w /\ -w < y
    <3> HIDE DEF y
    <3> QED BY <1>1, <2>1, <2>2
  <2> HIDE DEF k
  <2> QED BY <2>1, <2>3, Multiples DEF y, k
<1>4. q1 = q
  BY <1>1, <1>3
<1> QED BY <1>1, <1>4 DEF r1

LEMMA Remainder ==
    ASSUME NEW x \in Int, NEW w \in Nat \ {0}
    PROVE  /\ x % w \in 0..w - 1 /\ x \div w \in Int
           /\ x = w * (x \div w) + (x % w)
  OBVIOUS

LEMMA Bounds ==
    /\ W \in Nat \ {0} /\ GuestIss \in 0..W - 1 /\ ResendRounds \in Nat
    /\ MaxSegment \in Nat \ {0} /\ MaxSegment < W /\ Window \in Nat \ {0} /\ Window < W
  BY NatAssumption

LEMMA PlusType ==
    ASSUME NEW x \in Int, NEW n \in Int
    PROVE  Plus(x, n) \in 0..W - 1 /\ Plus(x, n) \in Int
<1>1. W \in Nat \ {0} /\ x + n \in Int
  BY Bounds
<1>2. (x + n) % W \in 0..W - 1
  BY <1>1, Remainder
<1> QED BY <1>1, <1>2 DEF Plus

LEMMA PlusIs ==
    ASSUME NEW x \in Int, NEW n \in Int
    PROVE  \E q \in Int: x + n = W * q + Plus(x, n)
<1> DEFINE y == x + n
<1>1. W \in Nat \ {0} /\ y \in Int
  BY Bounds
<1>2. Plus(x, n) = y % W
  BY DEF Plus
<1> HIDE DEF y
<1>3. y = W * (y \div W) + (y % W) /\ y \div W \in Int
  BY <1>1, Remainder
<1> QED BY <1>2, <1>3 DEF y

LEMMA PlusPlus ==
    ASSUME NEW x \in Int, NEW m \in Int, NEW n \in Int
    PROVE  Plus(Plus(x, m), n) = Plus(x, m + n)
<1> DEFINE r == Plus(x, m)
           s == Plus(r, n)
<1>1. W \in Nat \ {0} /\ r \in Int
  BY PlusType, Bounds
<1>2. PICK q \in Int: x + m = W * q + r
  BY PlusIs
<1> HIDE DEF r
<1>3. PICK k \in Int: r + n = W * k + s
  BY <1>1, PlusIs
<1>4. s \in 0..W - 1
  BY <1>1, PlusType
<1> HIDE DEF s
<1>5. W * (q + k) = W * q + W * k /\ q + k \in Int
  BY <1>1
<1>6. x + (m + n) = W * (q + k) + s /\ x + (m + n) \in Int
  BY <1>1, <1>2, <1>3, <1>4, <1>5
<1>7. (x + (m + n)) % W = s
  BY <1>1, <1>4, <1>5, <1>6, RemainderIs
<1> QED BY <1>7 DEF Plus, s, r

(* How far one number is ahead of another.                                 *)
LEMMA Ahead ==
    ASSUME NEW x \in Int, NEW a \in Int, NEW b \in Int, a <= b, b - a < W
    PROVE  (Plus(x, b) - Plus(x, a)) % W = b - a
<1> DEFINE r == Plus(x, a)
           s == Plus(x, b)
<1>1. W \in Nat \ {0} /\ r \in Int /\ s \in Int
  BY PlusType, Bounds
<1>2. PICK q \in Int: x + a = W * q + r
  BY PlusIs
<1>3. PICK k \in Int: x + b = W * k + s
  BY PlusIs
<1> HIDE DEF r, s
<1>4. W * (q - k) = W * q - W * k /\ q - k \in Int
  BY <1>1
<1>5. s - r = W * (q - k) + (b - a) /\ s - r \in Int
  BY <1>1, <1>2, <1>3, <1>4
<1>6. b - a \in 0..W - 1
  BY <1>1
<1>7. (s - r) % W = b - a
  BY <1>1, <1>4, <1>5, <1>6, RemainderIs
<1> QED BY <1>7 DEF r, s

(* Within W numbers, a number stands for one octet only.                   *)
LEMMA PlusInjective ==
    ASSUME NEW x \in Int, NEW a \in Int, NEW b \in Int, a - b < W, b - a < W,
           Plus(x, a) = Plus(x, b)
    PROVE  a = b
<1>1. Plus(x, a) \in Int /\ Plus(x, a) - Plus(x, a) = 0
  BY PlusType, Bounds
<1>2. 0 % W = 0
  <2>1. 0 = W * 0 + 0 /\ W \in Nat \ {0}
    BY Bounds
  <2> QED BY <2>1, RemainderIs
<1>3. CASE a <= b
  BY <1>1, <1>2, <1>3, Ahead
<1>4. CASE b <= a
  BY <1>1, <1>2, <1>4, Ahead
<1> QED BY <1>3, <1>4

-----------------------------------------------------------------------------
(* Octets.                                                                 *)

(* The first n octets; the n octets up to the e-th.                        *)
First(n) == [k \in 1..n |-> k]
UpTo(e, n) == [k \in 1..n |-> e - n + k]

LEMMA UpToSeq ==
    ASSUME NEW e \in Nat, NEW n \in 0..e
    PROVE  /\ UpTo(e, n) \in Seq(Nat) /\ Len(UpTo(e, n)) = n
           /\ \A k \in 1..n: UpTo(e, n)[k] = e - n + k
           /\ UpTo(e, n) = <<>> <=> n = 0
<1>1. n \in Nat /\ \A k \in 1..n: e - n + k \in Nat
  OBVIOUS
<1>2. UpTo(e, n) \in [1..n -> Nat]
  BY <1>1 DEF UpTo
<1>3. UpTo(e, n) \in Seq(Nat) /\ Len(UpTo(e, n)) = n
  BY <1>1, <1>2
<1> HIDE DEF UpTo
<1>4. UpTo(e, n) = <<>> <=> n = 0
  BY <1>3
<1> QED BY <1>3, <1>4 DEF UpTo

LEMMA FirstSeq ==
    ASSUME NEW n \in Nat
    PROVE  First(n) \in Seq(Nat) /\ Len(First(n)) = n /\ \A k \in 1..n: First(n)[k] = k
<1>1. First(n) \in [1..n -> Nat]
  BY DEF First
<1>2. First(n) \in Seq(Nat) /\ Len(First(n)) = n
  BY <1>1
<1> QED BY <1>2 DEF First

LEMMA Join ==
    ASSUME NEW a \in Nat, NEW b \in Nat, a <= b
    PROVE  First(a) \o UpTo(b, b - a) = First(b)
<1> DEFINE n == b - a
           s == First(a)
           t == UpTo(b, n)
           u == First(b)
<1>1. n \in Nat /\ n \in 0..b /\ a + n = b /\ b - n = a
  OBVIOUS
<1>2. /\ s \in Seq(Nat) /\ Len(s) = a /\ \A k \in 1..a: s[k] = k
      /\ u \in Seq(Nat) /\ Len(u) = b /\ \A k \in 1..b: u[k] = k
  BY FirstSeq
<1> HIDE DEF n
<1>3. t \in Seq(Nat) /\ Len(t) = n /\ \A k \in 1..n: t[k] = a + k
  BY <1>1, UpToSeq
<1> HIDE DEF s, t, u
<1>4. s \o t \in Seq(Nat) /\ Len(s \o t) = b
  BY <1>1, <1>2, <1>3
<1>5. ASSUME NEW k \in 1..b PROVE (s \o t)[k] = u[k]
  <2>1. CASE k <= a
    BY <1>2, <1>3, <2>1
  <2>2. CASE k > a
    <3>1. k - a \in 1..n /\ a + (k - a) = k
      BY <1>1, <2>2
    <3>2. (s \o t)[k] = t[k - a]
      BY <1>1, <1>2, <1>3, <2>2
    <3>3. t[k - a] = a + (k - a)
      BY <1>3, <3>1
    <3>4. u[k] = k
      BY <1>2
    <3> QED BY <3>1, <3>2, <3>3, <3>4
  <2>3. k <= a \/ k > a
    OBVIOUS
  <2> QED BY <2>1, <2>2, <2>3
<1>6. s \o t = u
  BY <1>2, <1>4, <1>5, SMTT(40)
<1> QED BY <1>6 DEF s, t, u, n

LEMMA PartOf ==
    ASSUME NEW e \in Nat, NEW n \in 0..e, NEW i \in Nat \ {0}, NEW j \in 0..n, i <= j + 1
    PROVE  SubSeq(UpTo(e, n), i, j) = UpTo(e - n + j, j - i + 1)
<1> DEFINE s == UpTo(e, n)
           t == SubSeq(s, i, j)
           d == e - n + j
           l == j - i + 1
           u == UpTo(d, l)
<1>1. /\ s \in Seq(Nat) /\ Len(s) = n /\ \A k \in 1..n: s[k] = e - n + k
  BY UpToSeq
<1>2. d \in Nat /\ l \in 0..d /\ n \in Nat /\ d - l = e - n + i - 1
  OBVIOUS
<1>3. /\ u \in Seq(Nat) /\ Len(u) = l /\ \A k \in 1..l: u[k] = d - l + k
  <2> HIDE DEF d, l
  <2> QED BY <1>2, UpToSeq
<1> HIDE DEF s, u
<1>4. t \in Seq(Nat) /\ Len(t) = l /\ \A k \in 1..l: t[k] = s[i + k - 1]
  BY <1>1, <1>2
<1> HIDE DEF t
<1>5. \A k \in 1..l: t[k] = u[k]
  BY <1>1, <1>2, <1>3, <1>4
<1>6. t = u
  BY <1>3, <1>4, <1>5
<1> QED BY <1>6 DEF t, s, u

-----------------------------------------------------------------------------
(* The inductive invariant.                                                *)

Stages == {"unused", "closed", "syn_sent", "established", "closing", "done"}

Guests == [st: Stages, todo: Nat, irs: 0..W - 1, got: Seq(Nat), una: Nat, nxt: Nat,
           fin: BOOLEAN, ack_due: BOOLEAN]

Sockets == [todo: Nat, iss: 0..W - 1, read: Nat, got: Seq(Nat), broken: BOOLEAN,
            full: BOOLEAN, early: BOOLEAN]

Segments == [port: Ports, seq: 0..W - 1, ack: 0..W - 1, syn: BOOLEAN, rst: BOOLEAN,
             fin: BOOLEAN, data: Seq(Nat)]

(* The number of the first octet from the outside.                         *)
Base(o) == Plus(o.iss, 1)

(* The guest has not heard from the gateway.                               *)
Early(g) == g.st \in {"unused", "closed", "syn_sent"}

Alive(g) == g.st \in {"established", "closing"}

(* Both ends of a connection.  Either end is ahead of the other by no more *)
(* than the sequence numbers can tell apart.                               *)
PortOK(g, o) ==
    /\ g \in Guests /\ o \in Sockets
    /\ g.got = First(Len(g.got)) /\ o.got = First(Len(o.got))
    /\ g.una <= Len(o.got) /\ Len(o.got) <= g.nxt /\ g.nxt <= g.una + Window
    /\ Len(g.got) <= o.read /\ o.read <= Len(g.got) + MaxSegment
    /\ Early(g) => Len(g.got) = 0 /\ g.nxt = 0 /\ ~g.fin
    /\ Alive(g) => g.irs = Base(o)
    /\ g.fin => Len(g.got) = o.read

(* A segment of the gateway, that acknowledges a octets and brings those   *)
(* up to the e-th.                                                         *)
SegmentOK(m, a, e, g, o) ==
    LET n == Len(m.data)
    IN  /\ g.una <= a /\ a <= Len(o.got) /\ m.ack = SeqOut(a)
        /\ Len(g.got) <= e /\ e <= o.read
        /\ n <= e /\ n <= MaxSegment /\ m.data = UpTo(e, n)
        /\ m.seq = Plus(Base(o), e - n)
        /\ n > 0 => e - n <= Len(g.got)
        /\ m.fin => n = 0 /\ e = o.read

SynOK(m, o) == m.seq = o.iss /\ ~m.fin

PacketOK(m, a, e, g, o) == IF m.syn THEN SynOK(m, o) ELSE SegmentOK(m, a, e, g, o)

(* Of a port whose socket was read early only the types are known.         *)
PacketIs(m, a, e, g, o) == o.early \/ PacketOK(m, a, e, g, o)

(* In the chain, a and e never decrease.                                   *)
ChainOf(pk, a, e, gs, os) ==
    /\ \A j \in 1..Len(pk): PacketIs(pk[j], a[j], e[j], gs[pk[j].port], os[pk[j].port])
    /\ \A j, k \in 1..Len(pk):
           j < k /\ pk[j].port = pk[k].port /\ ~pk[j].syn /\ ~pk[k].syn /\ ~os[pk[j].port].early
               => a[j] <= a[k] /\ e[j] <= e[k]

Chain(pk, gs, os) ==
    /\ pk \in Seq(Segments)
    /\ \E a, e \in [1..Len(pk) -> Nat]: ChainOf(pk, a, e, gs, os)

(* No segment, or no end, is on its way to port p.                         *)
Quiet(pk, p) == \A j \in 1..Len(pk): pk[j].port # p
NoFin(pk, p) == \A j \in 1..Len(pk): pk[j].port = p => ~pk[j].fin

(* A slot whose socket is not connected yet, or never was.                 *)
Waiting(c, g, o, pk) ==
    /\ Early(g) /\ Quiet(pk, c.port) /\ o.read = 0
    /\ c.state \in {"TRYINGTOCONNECT", "DISCONNECTED"}
    /\ c.state = "TRYINGTOCONNECT" =>
           c.inside_seqnr = GuestIss /\ c.outside_seqnr = o.iss /\ c.incoming_buf = <<>>

(* The kept segment.                                                       *)
BufferOK(c, g, o) ==
    LET n == Len(c.incoming_buf)
    IN  /\ n <= o.read /\ c.incoming_buf = UpTo(o.read, n) /\ o.read - n <= Len(g.got)
        /\ n > 0 => c.incoming_buf_seqnr = Plus(Base(o), o.read - n)

Synced(c, g, o) ==
    /\ c.state # "TRYINGTOCONNECT"
    /\ c.outside_acknr = SeqOut(Len(o.got))
    /\ c.outside_seqnr = Plus(Base(o), o.read)
    /\ ~Disconnected(c) => BufferOK(c, g, o)

Connections == [in_use: {TRUE}, port: Ports, state: States,
                inside_seqnr: 0..W - 1, inside_acknr: 0..W - 1,
                outside_seqnr: 0..W - 1, outside_acknr: 0..W - 1,
                incoming_buf: Seq(Nat), incoming_buf_seqnr: 0..W - 1,
                incoming_buf_rounds: 0..ResendRounds]

(* The end of a connection is seen only if the outside has ended.  It has  *)
(* ended in time if nothing was left to read.                              *)
InTime(g, o) ==
    g.st \in {"closing", "done"} \/ o.broken \/ o.read = o.todo

SlotOK(c, g, o, pk) ==
    /\ c \in Connections /\ Len(c.incoming_buf) <= MaxSegment
    /\ Waiting(c, g, o, pk) \/ Synced(c, g, o)
    /\ ~Disconnected(c) => ~g.fin /\ NoFin(pk, c.port)
    /\ Disconnected(c) => InTime(g, o)

EndOK(g, o, pk, p) == g.fin \/ ~NoFin(pk, p) => InTime(g, o)

InUse(t, p, i) == t[i].in_use /\ t[i].port = p

(* A guest that has not heard from the gateway and has no slot.            *)
StartOK(t, g, o, pk, p) ==
    Early(g) /\ (\A i \in Slots: ~InUse(t, p, i)) => Quiet(pk, p) /\ o.read = 0

(* Again, of an early socket only the types are known.                     *)
SlotIs(c, g, o, pk) ==
    c \in Connections /\ Len(c.incoming_buf) <= MaxSegment /\ (o.early \/ SlotOK(c, g, o, pk))

PortIs(t, g, o, pk, p) ==
    /\ g \in Guests /\ o \in Sockets
    /\ o.early \/ (PortOK(g, o) /\ EndOK(g, o, pk, p) /\ StartOK(t, g, o, pk, p))

SlotsOK(t, pk, gs, os) ==
    /\ DOMAIN t = Slots
    /\ \A i \in Slots: t[i] = Unused \/ SlotIs(t[i], gs[t[i].port], os[t[i].port], pk)
    /\ \A p \in Ports, i, j \in Slots: InUse(t, p, i) /\ InUse(t, p, j) => i = j

PortsOK(t, pk, gs, os) ==
    /\ DOMAIN gs = Ports /\ DOMAIN os = Ports
    /\ \A p \in Ports: PortIs(t, gs[p], os[p], pk, p)

Inv(t, pk, gs, os) == PortsOK(t, pk, gs, os) /\ Chain(pk, gs, os) /\ SlotsOK(t, pk, gs, os)

NatInv == Inv(tcp_connections, packets, guest, outside)

Clean(p) == ~outside[p].early

-----------------------------------------------------------------------------
(* The chain of packets.                                                   *)

LEMMA SeqOutType ==
    ASSUME NEW n \in Nat
    PROVE  SeqOut(n) \in 0..W - 1
<1>1. GuestIss \in Int /\ n + 1 \in Int
  BY Bounds
<1> QED BY <1>1, PlusType DEF SeqOut

LEMMA BaseType ==
    ASSUME NEW o \in Sockets, NEW n \in Int
    PROVE  Base(o) \in 0..W - 1 /\ Plus(Base(o), n) \in 0..W - 1 /\ Base(o) \in Int
<1>1. o.iss \in Int
  BY Bounds DEF Sockets
<1>2. Plus(o.iss, 1) \in 0..W - 1 /\ Plus(o.iss, 1) \in Int
  <2>1. 1 \in Int
    OBVIOUS
  <2> QED BY Zenon, <1>1, <2>1, PlusType
<1>3. Base(o) \in 0..W - 1 /\ Base(o) \in Int
  BY <1>2 DEF Base
<1> QED BY <1>3, PlusType

LEMMA SegmentType ==
    ASSUME NEW m \in Segments
    PROVE  /\ m.port \in Ports /\ m.seq \in 0..W - 1 /\ m.ack \in 0..W - 1
           /\ m.data \in Seq(Nat) /\ Len(m.data) \in Nat
  BY DEF Segments

LEMMA GuestType ==
    ASSUME NEW g \in Guests
    PROVE  /\ g.una \in Nat /\ g.nxt \in Nat /\ g.got \in Seq(Nat) /\ Len(g.got) \in Nat
           /\ g.todo \in Nat /\ g.irs \in 0..W - 1
  BY DEF Guests

LEMMA SocketType ==
    ASSUME NEW o \in Sockets
    PROVE  /\ o.todo \in Nat /\ o.read \in Nat /\ o.got \in Seq(Nat) /\ Len(o.got) \in Nat
           /\ o.iss \in 0..W - 1
  BY DEF Sockets

(* Everything but port p is as before.                                     *)
Elsewhere(gs, gs1, p) == \A q \in Ports \ {p}: gs1[q] = gs[q]

(* The gateway or the socket has got ahead.                                *)
LEMMA PacketKept ==
    ASSUME NEW m, NEW a \in Nat, NEW e \in Nat, NEW g, NEW o, NEW g1, NEW o1,
           PacketOK(m, a, e, g, o), g1.una = g.una, g1.got = g.got, o1.iss = o.iss,
           Len(o.got) \in Nat, Len(o1.got) \in Nat, Len(o.got) <= Len(o1.got),
           o.read \in Nat, o1.read \in Nat, o.read <= o1.read,
           m.fin => o1.read = o.read
    PROVE  PacketOK(m, a, e, g1, o1)
<1>1. Base(o1) = Base(o)
  BY DEF Base
<1>2. CASE m.syn
  BY <1>2 DEF PacketOK, SynOK
<1>3. CASE ~m.syn
  <2>1. SegmentOK(m, a, e, g, o)
    BY <1>3 DEF PacketOK
  <2>2. a <= Len(o.got) /\ e <= o.read /\ (m.fin => e = o.read)
    BY <2>1 DEF SegmentOK
  <2>3. a <= Len(o1.got) /\ e <= o1.read /\ (m.fin => e = o1.read)
    BY <2>2
  <2>4. SegmentOK(m, a, e, g1, o1)
    BY <1>1, <2>1, <2>3 DEF SegmentOK
  <2> QED BY <1>3, <2>4 DEF PacketOK
<1> QED BY <1>2, <1>3

LEMMA ChainKept ==
    ASSUME NEW pk, NEW gs, NEW os, NEW gs1, NEW os1, NEW p \in Ports,
           Chain(pk, gs, os), Elsewhere(gs, gs1, p), Elsewhere(os, os1, p),
           gs1[p].una = gs[p].una, gs1[p].got = gs[p].got, os1[p].iss = os[p].iss,
           Len(os[p].got) \in Nat, Len(os1[p].got) \in Nat, Len(os[p].got) <= Len(os1[p].got),
           os[p].read \in Nat, os1[p].read \in Nat, os[p].read <= os1[p].read,
           NoFin(pk, p) \/ os1[p].read = os[p].read, ~os[p].early
    PROVE  Chain(pk, gs1, os1)
<1>1. pk \in Seq(Segments)
  BY DEF Chain
<1>2. PICK a, e \in [1..Len(pk) -> Nat]: ChainOf(pk, a, e, gs, os)
  BY DEF Chain
<1>3. ASSUME NEW j \in 1..Len(pk)
      PROVE  PacketIs(pk[j], a[j], e[j], gs1[pk[j].port], os1[pk[j].port])
  <2>1. pk[j] \in Segments /\ a[j] \in Nat /\ e[j] \in Nat
    BY <1>1
  <2>2. pk[j].port \in Ports
    BY <2>1, SegmentType
  <2>3. PacketIs(pk[j], a[j], e[j], gs[pk[j].port], os[pk[j].port])
    BY <1>2 DEF ChainOf
  <2>4. CASE pk[j].port # p
    BY <2>2, <2>3, <2>4 DEF Elsewhere
  <2>5. CASE pk[j].port = p
    <3>1. pk[j].fin => os1[p].read = os[p].read
      BY <2>5 DEF NoFin
    <3>2. PacketOK(pk[j], a[j], e[j], gs[p], os[p])
      BY <2>3, <2>5 DEF PacketIs
    <3>3. PacketOK(pk[j], a[j], e[j], gs1[p], os1[p])
      BY <2>1, <3>1, <3>2, PacketKept
    <3> QED BY <2>5, <3>3 DEF PacketIs
  <2> QED BY <2>4, <2>5
<1>4. ASSUME NEW j \in 1..Len(pk), ~os1[pk[j].port].early PROVE ~os[pk[j].port].early
  <2>1. pk[j].port \in Ports
    BY <1>1, SegmentType
  <2> QED BY <1>4, <2>1 DEF Elsewhere
<1>5. ChainOf(pk, a, e, gs1, os1)
  BY <1>2, <1>3, <1>4 DEF ChainOf
<1> QED BY <1>1, <1>5 DEF Chain

(* The gateway sends a segment.                                            *)
LEMMA ChainLonger ==
    ASSUME NEW pk, NEW gs, NEW os, NEW m \in Segments, Chain(pk, gs, os),
           Len(os[m.port].got) \in Nat, os[m.port].read \in Nat,
           PacketIs(m, Len(os[m.port].got), os[m.port].read, gs[m.port], os[m.port])
    PROVE  Chain(pk \o <<m>>, gs, os)
<1> DEFINE l == Len(pk)
           r == pk \o <<m>>
           x == Len(os[m.port].got)
           y == os[m.port].read
<1>1. pk \in Seq(Segments) /\ l \in Nat
  BY DEF Chain
<1>2. PICK a, e \in [1..l -> Nat]: ChainOf(pk, a, e, gs, os)
  BY DEF Chain
<1>3. /\ r \in Seq(Segments) /\ Len(r) = l + 1 /\ r[l + 1] = m
      /\ \A j \in 1..l: r[j] = pk[j]
  BY <1>1
<1> DEFINE a1 == [j \in 1..l + 1 |-> IF j = l + 1 THEN x ELSE a[j]]
           e1 == [j \in 1..l + 1 |-> IF j = l + 1 THEN y ELSE e[j]]
<1> HIDE DEF r, x, y, l
<1>4. /\ a1 \in [1..l + 1 -> Nat] /\ e1 \in [1..l + 1 -> Nat]
      /\ a1[l + 1] = x /\ e1[l + 1] = y
      /\ \A j \in 1..l: a1[j] = a[j] /\ e1[j] = e[j]
  <2>1. x \in Nat /\ y \in Nat
    BY DEF x, y
  <2> QED BY <1>1, <2>1
<1> HIDE DEF a1, e1
<1>5. \A j \in 1..l: PacketIs(pk[j], a[j], e[j], gs[pk[j].port], os[pk[j].port])
  BY <1>2 DEF ChainOf, l
<1>6. ASSUME NEW j \in 1..l, pk[j].port = m.port, ~pk[j].syn, ~os[m.port].early
      PROVE  a[j] <= x /\ e[j] <= y
  <2>1. SegmentOK(pk[j], a[j], e[j], gs[m.port], os[m.port])
    BY <1>5, <1>6 DEF PacketIs, PacketOK
  <2> QED BY <2>1 DEF SegmentOK, x, y
<1>7. \A j \in 1..l + 1: PacketIs(r[j], a1[j], e1[j], gs[r[j].port], os[r[j].port])
  <2>1. PacketIs(m, x, y, gs[m.port], os[m.port])
    BY DEF x, y
  <2>2. \A j \in 1..l + 1: j \in 1..l \/ j = l + 1
    BY <1>1
  <2> QED BY <1>3, <1>4, <1>5, <2>1, <2>2
<1>8. ASSUME NEW j \in 1..l + 1, NEW k \in 1..l + 1,
             j < k, r[j].port = r[k].port, ~r[j].syn, ~r[k].syn,
             ~os[r[j].port].early
      PROVE  a1[j] <= a1[k] /\ e1[j] <= e1[k]
  <2>1. j \in 1..l /\ r[j] = pk[j] /\ a1[j] = a[j] /\ e1[j] = e[j]
    <3>1. j \in 1..l
      BY <1>1, <1>8
    <3> QED BY <1>3, <1>4, <3>1
  <2>2. CASE k = l + 1
    BY <1>3, <1>4, <1>6, <1>8, <2>1, <2>2
  <2>3. CASE k # l + 1
    <3>1. k \in 1..l /\ r[k] = pk[k] /\ a1[k] = a[k] /\ e1[k] = e[k]
      <4>1. k \in 1..l
        BY <1>1, <2>3
      <4> QED BY <1>3, <1>4, <4>1
    <3>2. a[j] <= a[k] /\ e[j] <= e[k]
      BY <1>2, <1>8, <2>1, <3>1 DEF ChainOf, l
    <3> QED BY <2>1, <3>1, <3>2
  <2> QED BY <2>2, <2>3
<1>9. ChainOf(r, a1, e1, gs, os)
  BY <1>3, <1>7, <1>8 DEF ChainOf
<1> QED BY <1>3, <1>4, <1>9 DEF Chain, r

(* How the guest may get ahead by a segment with the bounds a and e.       *)
Advance(g, g1, m, a, e) ==
    \/ g1.una = g.una /\ g1.got = g.got
    \/ /\ ~m.syn /\ g1.una \in Nat /\ g.una <= g1.una /\ g1.una <= a
       /\ Len(g.got) <= Len(g1.got) /\ Len(g1.got) <= e

LEMMA PacketAdvanced ==
    ASSUME NEW m, NEW a \in Nat, NEW e \in Nat, NEW n \in Segments, NEW b \in Nat, NEW f \in Nat,
           NEW g \in Guests, NEW g1 \in Guests, NEW o,
           Advance(g, g1, m, a, e), PacketOK(n, b, f, g, o),
           ~m.syn /\ ~n.syn => a <= b /\ e <= f
    PROVE  PacketOK(n, b, f, g1, o)
<1>1. CASE n.syn
  BY <1>1 DEF PacketOK, SynOK
<1>2. CASE ~n.syn
  <2> DEFINE x == Len(n.data)
             in == Len(g.got)
             in1 == Len(g1.got)
  <2>1. SegmentOK(n, b, f, g, o)
    BY <1>2 DEF PacketOK
  <2>2. g.una \in Nat /\ in \in Nat /\ g1.una \in Nat /\ in1 \in Nat /\ x \in Nat
    BY GuestType, SegmentType
  <2>3. /\ g.una <= b /\ in <= f /\ (x > 0 => f - x <= in)
    BY <2>1 DEF SegmentOK
  <2>4. \/ g1.una = g.una /\ in1 = in
        \/ g1.una <= b /\ in <= in1 /\ in1 <= f
    BY <1>2, <2>2 DEF Advance
  <2> HIDE DEF x, in, in1
  <2>5. g1.una <= b /\ in1 <= f /\ (x > 0 => f - x <= in1)
    BY <2>2, <2>3, <2>4
  <2>6. SegmentOK(n, b, f, g1, o)
    BY <2>1, <2>5 DEF SegmentOK, x, in1
  <2> QED BY <1>2, <2>6 DEF PacketOK
<1> QED BY <1>1, <1>2

(* A segment arrives, or is lost.                                          *)
LEMMA ChainShorter ==
    ASSUME NEW pk, NEW gs, NEW os, Chain(pk, gs, os), pk # <<>>,
           \A q \in Ports: gs[q] \in Guests
    PROVE  LET m == Head(pk)
               p == m.port
           IN  /\ m \in Segments /\ Tail(pk) \in Seq(Segments)
               /\ \E a, e \in Nat:
                     /\ PacketIs(m, a, e, gs[p], os[p])
                     /\ \A gs1: Elsewhere(gs, gs1, p) /\ gs1[p] \in Guests
                               /\ (os[p].early \/ Advance(gs[p], gs1[p], m, a, e))
                               => Chain(Tail(pk), gs1, os)
<1> DEFINE l == Len(pk)
           m == Head(pk)
           p == m.port
           r == Tail(pk)
<1>1. pk \in Seq(Segments) /\ l \in Nat /\ l > 0
  BY DEF Chain
<1>2. PICK a, e \in [1..l -> Nat]: ChainOf(pk, a, e, gs, os)
  BY DEF Chain
<1>3. /\ r \in Seq(Segments) /\ Len(r) = l - 1 /\ m = pk[1] /\ m \in Segments
      /\ \A j \in 1..l - 1: r[j] = pk[j + 1]
  BY <1>1
<1> HIDE DEF l, r
<1>4. PacketIs(m, a[1], e[1], gs[p], os[p]) /\ a[1] \in Nat /\ e[1] \in Nat
  <2>1. 1 \in 1..l
    BY <1>1
  <2>2. PacketIs(pk[1], a[1], e[1], gs[pk[1].port], os[pk[1].port])
    BY <1>2, <2>1 DEF ChainOf, l
  <2>3. a[1] \in Nat /\ e[1] \in Nat
    BY <2>1
  <2> HIDE DEF m
  <2> QED BY <1>3, <2>2, <2>3 DEF p
<1> DEFINE a1 == [j \in 1..l - 1 |-> a[j + 1]]
           e1 == [j \in 1..l - 1 |-> e[j + 1]]
<1>5. /\ a1 \in [1..l - 1 -> Nat] /\ e1 \in [1..l - 1 -> Nat]
      /\ \A j \in 1..l - 1: a1[j] = a[j + 1] /\ e1[j] = e[j + 1]
  BY <1>1
<1> HIDE DEF a1, e1, m
<1>6. ASSUME NEW gs1, Elsewhere(gs, gs1, p), gs1[p] \in Guests,
             os[p].early \/ Advance(gs[p], gs1[p], m, a[1], e[1])
      PROVE  Chain(r, gs1, os)
  <2>1. ASSUME NEW j \in 1..l - 1
        PROVE  PacketIs(r[j], a1[j], e1[j], gs1[r[j].port], os[r[j].port])
    <3> DEFINE k == j + 1
               n == pk[k]
    <3>1. k \in 1..l /\ 1 \in 1..l /\ 1 < k
      BY <1>1
    <3>2. r[j] = n /\ a1[j] = a[k] /\ e1[j] = e[k]
      BY <1>3, <1>5
    <3>3. n \in Segments /\ a[k] \in Nat /\ e[k] \in Nat
      BY <1>1, <3>1 DEF l
    <3>4. PacketIs(n, a[k], e[k], gs[n.port], os[n.port])
      BY <1>2, <3>1 DEF ChainOf, l
    <3>5. n.port = p /\ ~m.syn /\ ~n.syn /\ ~os[p].early => a[1] <= a[k] /\ e[1] <= e[k]
      BY <1>2, <1>3, <3>1 DEF ChainOf, l
    <3> HIDE DEF k, n
    <3>6. n.port \in Ports
      BY <3>3, SegmentType
    <3>7. CASE n.port # p
      BY <1>6, <3>2, <3>4, <3>6, <3>7 DEF Elsewhere
    <3>8. CASE n.port = p /\ ~os[p].early
      <4>1. PacketOK(n, a[k], e[k], gs[p], os[p]) /\ gs[p] \in Guests
        BY <3>4, <3>6, <3>8 DEF PacketIs
      <4>2. PacketOK(n, a[k], e[k], gs1[p], os[p])
        BY <1>4, <1>6, <3>3, <3>5, <3>8, <4>1, PacketAdvanced
      <4> QED BY <3>2, <3>8, <4>2 DEF PacketIs
    <3>9. CASE n.port = p /\ os[p].early
      BY <3>2, <3>9 DEF PacketIs
    <3> QED BY <3>7, <3>8, <3>9
  <2>2. ASSUME NEW j \in 1..l - 1, NEW k \in 1..l - 1,
               j < k, r[j].port = r[k].port, ~r[j].syn, ~r[k].syn,
               ~os[r[j].port].early
        PROVE  a1[j] <= a1[k] /\ e1[j] <= e1[k]
    <3> HIDE DEF m, p
    <3>0. j < k
      BY <2>2, Zenon
    <3>a. r[j] = pk[j + 1] /\ r[k] = pk[k + 1]
      BY <1>3, Zenon
    <3>b. j + 1 \in 1..l /\ k + 1 \in 1..l /\ j + 1 < k + 1
      BY <1>1, <3>0
    <3>1. /\ j + 1 \in 1..l /\ k + 1 \in 1..l /\ j + 1 < k + 1
          /\ r[j] = pk[j + 1] /\ r[k] = pk[k + 1]
      BY <3>a, <3>b
    <3>2. a[j + 1] <= a[k + 1] /\ e[j + 1] <= e[k + 1]
      BY <1>2, <2>2, <3>1 DEF ChainOf, l
    <3> QED BY <1>5, <3>2
  <2>3. ChainOf(r, a1, e1, gs1, os)
    BY <1>3, <2>1, <2>2 DEF ChainOf
  <2> QED BY <1>3, <1>5, <2>3 DEF Chain
<1> QED BY <1>3, <1>4, <1>6 DEF r, m

-----------------------------------------------------------------------------
(* A step that concerns one port.                                          *)

(* No new segments for other ports.                                        *)
Others(pk, pk1, p) ==
    \A j \in 1..Len(pk1): pk1[j].port # p => \E k \in 1..Len(pk): pk1[j] = pk[k]

LEMMA OthersQuiet ==
    ASSUME NEW pk, NEW pk1, NEW p, NEW q, p # q, Others(pk, pk1, p)
    PROVE  (Quiet(pk, q) => Quiet(pk1, q)) /\ (NoFin(pk, q) => NoFin(pk1, q))
  BY DEF Others, Quiet, NoFin

(* At most one slot is changed, and it is or becomes the slot of the port. *)
Changed(t, t1, p, i) ==
    /\ \A j \in Slots \ {i}: t1[j] = t[j] /\ ~InUse(t, p, j)
    /\ i \in Slots => t[i] = Unused \/ t[i].port = p

LEMMA SlotFacts ==
    ASSUME NEW t, NEW pk, NEW gs, NEW os, SlotsOK(t, pk, gs, os), NEW i \in Slots
    PROVE  \/ t[i] = Unused /\ ~t[i].in_use
           \/ /\ t[i] # Unused /\ t[i] \in Connections /\ t[i].in_use
              /\ t[i].port \in Ports /\ InUse(t, t[i].port, i)
              /\ SlotIs(t[i], gs[t[i].port], os[t[i].port], pk)
<1>1. t[i] = Unused \/ SlotIs(t[i], gs[t[i].port], os[t[i].port], pk)
  BY DEF SlotsOK
<1>2. ~Unused.in_use
  BY DEF Unused
<1>3. CASE t[i] = Unused
  BY <1>2, <1>3
<1>4. CASE SlotIs(t[i], gs[t[i].port], os[t[i].port], pk)
  <2>1. t[i] \in Connections
    BY <1>4 DEF SlotIs
  <2>2. t[i].in_use /\ t[i].port \in Ports
    BY <2>1 DEF Connections
  <2> QED BY <1>2, <1>4, <2>1, <2>2 DEF InUse
<1> QED BY <1>1, <1>3, <1>4

LEMMA PortStep ==
    ASSUME NEW t, NEW pk, NEW gs, NEW os, Inv(t, pk, gs, os),
           NEW t1, NEW pk1, NEW gs1, NEW os1, NEW p \in Ports, NEW i,
           DOMAIN t1 = Slots, DOMAIN gs1 = Ports, DOMAIN os1 = Ports,
           Elsewhere(gs, gs1, p), Elsewhere(os, os1, p), Others(pk, pk1, p),
           PortIs(t1, gs1[p], os1[p], pk1, p), Chain(pk1, gs1, os1), Changed(t, t1, p, i),
           i \in Slots => t1[i] = Unused \/ (SlotIs(t1[i], gs1[p], os1[p], pk1) /\ t1[i].port = p)
    PROVE  Inv(t1, pk1, gs1, os1)
<1>1. SlotsOK(t, pk, gs, os) /\ PortsOK(t, pk, gs, os)
  BY DEF Inv
<1>2. ASSUME NEW q \in Ports, q # p
      PROVE  /\ gs1[q] = gs[q] /\ os1[q] = os[q]
             /\ (Quiet(pk, q) => Quiet(pk1, q)) /\ (NoFin(pk, q) => NoFin(pk1, q))
  BY <1>2, OthersQuiet DEF Elsewhere
<1>3. ASSUME NEW q \in Ports, q # p
      PROVE  PortIs(t1, gs1[q], os1[q], pk1, q)
  <2>1. PortIs(t, gs[q], os[q], pk, q)
    BY <1>1 DEF PortsOK
  <2>2. EndOK(gs[q], os[q], pk, q) => EndOK(gs1[q], os1[q], pk1, q)
    BY <1>2, <1>3 DEF EndOK
  <2>3. (\A j \in Slots: ~InUse(t1, q, j)) => \A j \in Slots: ~InUse(t, q, j)
    <3>1. ~Unused.in_use
      BY DEF Unused
    <3>2. i \in Slots => ~InUse(t, q, i)
      BY <1>3, <3>1 DEF Changed, InUse
    <3>3. \A j \in Slots \ {i}: t1[j] = t[j]
      BY DEF Changed
    <3> QED BY <3>2, <3>3 DEF InUse
  <2>4. StartOK(t, gs[q], os[q], pk, q) => StartOK(t1, gs1[q], os1[q], pk1, q)
    BY <1>2, <1>3, <2>3 DEF StartOK
  <2> QED BY <1>2, <1>3, <2>1, <2>2, <2>4 DEF PortIs
<1>4. PortsOK(t1, pk1, gs1, os1)
  BY <1>3 DEF PortsOK
<1>5. ASSUME NEW j \in Slots
      PROVE  t1[j] = Unused \/ SlotIs(t1[j], gs1[t1[j].port], os1[t1[j].port], pk1)
  <2>1. CASE j = i
    BY <2>1
  <2>2. CASE j # i
    <3>1. t1[j] = t[j] /\ ~InUse(t, p, j)
      BY <2>2 DEF Changed
    <3>2. CASE t[j] = Unused
      BY <3>1, <3>2
    <3>3. CASE t[j] # Unused
      <4> DEFINE c == t[j]
                 q == c.port
      <4>1. q \in Ports /\ SlotIs(c, gs[q], os[q], pk) /\ InUse(t, q, j)
        BY <1>1, <3>3, SlotFacts
      <4>2. q # p
        BY <3>1, <4>1
      <4> HIDE DEF c
      <4>3. SlotIs(c, gs[q], os[q], pk1)
        BY <1>2, <4>1, <4>2 DEF SlotIs, SlotOK, Waiting
      <4>4. SlotIs(c, gs1[q], os1[q], pk1)
        BY <1>2, <4>1, <4>2, <4>3
      <4> QED BY <3>1, <4>4 DEF c
    <3> QED BY <3>2, <3>3
  <2> QED BY <2>1, <2>2
<1>6. ASSUME NEW q \in Ports, NEW j \in Slots, NEW k \in Slots,
             InUse(t1, q, j), InUse(t1, q, k)
      PROVE  j = k
  <2>1. ~Unused.in_use
    BY DEF Unused
  <2>2. \A m \in Slots \ {i}: t1[m] = t[m] /\ ~InUse(t, p, m)
    BY DEF Changed
  <2>3. CASE q = p
    BY <1>6, <2>2, <2>3 DEF InUse
  <2>4. CASE q # p
    <3>1. j # i /\ k # i
      BY <1>6, <2>1, <2>4 DEF InUse
    <3>2. InUse(t, q, j) /\ InUse(t, q, k)
      BY <1>6, <2>2, <3>1 DEF InUse
    <3> QED BY <1>1, <3>2 DEF SlotsOK
  <2> QED BY <2>3, <2>4
<1>7. SlotsOK(t1, pk1, gs1, os1)
  BY <1>5, <1>6 DEF SlotsOK
<1> QED BY <1>4, <1>7 DEF Inv

(* One value of a function changes, or it stays as it is.                  *)
Becomes(f, f1, x, v) == f1 = [f EXCEPT ![x] = v] \/ (f1 = f /\ v = f[x])

LEMMA BecomesFacts ==
    ASSUME NEW f, NEW f1, NEW x \in DOMAIN f, NEW v, Becomes(f, f1, x, v)
    PROVE  DOMAIN f1 = DOMAIN f /\ f1[x] = v /\ \A y \in DOMAIN f \ {x}: f1[y] = f[y]
<1>1. CASE f1 = [f EXCEPT ![x] = v]
  BY <1>1
<1>2. CASE f1 = f /\ v = f[x]
  BY <1>2
<1> QED BY <1>1, <1>2 DEF Becomes

(* The same for a function of ports.                                       *)
LEMMA BecomesPort ==
    ASSUME NEW f, NEW f1, NEW p \in Ports, NEW v, Becomes(f, f1, p, v), DOMAIN f = Ports
    PROVE  DOMAIN f1 = Ports /\ f1[p] = v /\ Elsewhere(f, f1, p)
<1>1. p \in DOMAIN f
  OBVIOUS
<1>2. DOMAIN f1 = DOMAIN f /\ f1[p] = v /\ \A y \in DOMAIN f \ {p}: f1[y] = f[y]
  BY <1>1, BecomesFacts
<1> QED BY <1>2 DEF Elsewhere

LEMMA SlotNumbers == \E n \in Nat: Slots = 1..n
<1>1. Cardinality(Slots) \in Nat
  BY NatAssumption, FS_CardinalityType
<1> QED BY <1>1, NatAssumption

(* The port has no slot.                                                   *)
LEMMA NoSlotStep ==
    ASSUME NatInv, NEW p \in Ports, \A i \in Slots: ~InUse(tcp_connections, p, i), NEW g1,
           tcp_connections' = tcp_connections,
           Becomes(guest, guest', p, g1), outside' = outside,
           PortOK(g1, outside[p]), EndOK(g1, outside[p], packets', p),
           Chain(packets', guest', outside'), Others(packets, packets', p),
           ~Early(g1) \/ (Quiet(packets', p) /\ outside[p].read = 0)
    PROVE  NatInv'
<1>1. /\ Inv(tcp_connections, packets, guest, outside)
      /\ DOMAIN tcp_connections = Slots /\ DOMAIN guest = Ports /\ DOMAIN outside = Ports
  BY DEF NatInv, Inv, SlotsOK, PortsOK
<1>2. /\ guest'[p] = g1 /\ outside'[p] = outside[p]
      /\ DOMAIN tcp_connections' = Slots /\ DOMAIN guest' = Ports /\ DOMAIN outside' = Ports
      /\ Elsewhere(guest, guest', p) /\ Elsewhere(outside, outside', p)
  <2>1. guest'[p] = g1 /\ DOMAIN guest' = Ports /\ Elsewhere(guest, guest', p)
    BY <1>1, BecomesPort
  <2> QED BY <1>1, <2>1 DEF Elsewhere
<1>3. 0 \notin Slots
  BY SlotNumbers
<1>4. Changed(tcp_connections, tcp_connections', p, 0)
  BY <1>3 DEF Changed
<1>5. PortIs(tcp_connections', g1, outside[p], packets', p)
  BY DEF StartOK, PortIs, PortOK
<1>6. Inv(tcp_connections', packets', guest', outside')
  BY <1>1, <1>2, <1>3, <1>4, <1>5, PortStep
<1> QED BY <1>6 DEF NatInv

(* The slot of a port changes.                                             *)
LEMMA SlotStep ==
    ASSUME NatInv, NEW i \in Slots, NEW p \in Ports, InUse(tcp_connections, p, i),
           NEW c1, NEW g1, NEW o1,
           Becomes(tcp_connections, tcp_connections', i, c1),
           Becomes(guest, guest', p, g1), Becomes(outside, outside', p, o1),
           PortOK(g1, o1), EndOK(g1, o1, packets', p), Chain(packets', guest', outside'),
           Others(packets, packets', p),
           \/ c1 = Unused /\ ~Early(g1)
           \/ SlotOK(c1, g1, o1, packets') /\ c1.port = p
    PROVE  NatInv'
<1>1. /\ Inv(tcp_connections, packets, guest, outside)
      /\ SlotsOK(tcp_connections, packets, guest, outside)
      /\ DOMAIN tcp_connections = Slots /\ DOMAIN guest = Ports /\ DOMAIN outside = Ports
  BY DEF NatInv, Inv, SlotsOK, PortsOK
<1>2. /\ tcp_connections'[i] = c1 /\ guest'[p] = g1 /\ outside'[p] = o1
      /\ DOMAIN tcp_connections' = Slots /\ DOMAIN guest' = Ports /\ DOMAIN outside' = Ports
      /\ \A j \in Slots \ {i}: tcp_connections'[j] = tcp_connections[j]
      /\ Elsewhere(guest, guest', p) /\ Elsewhere(outside, outside', p)
  <2>1. guest'[p] = g1 /\ DOMAIN guest' = Ports /\ Elsewhere(guest, guest', p)
    BY <1>1, BecomesPort
  <2>2. outside'[p] = o1 /\ DOMAIN outside' = Ports /\ Elsewhere(outside, outside', p)
    BY <1>1, BecomesPort
  <2>3. i \in DOMAIN tcp_connections
    BY <1>1
  <2>4. /\ DOMAIN tcp_connections' = DOMAIN tcp_connections /\ tcp_connections'[i] = c1
        /\ \A j \in DOMAIN tcp_connections \ {i}: tcp_connections'[j] = tcp_connections[j]
    <3> DEFINE t == tcp_connections
               t1 == tcp_connections'
    <3>1. i \in DOMAIN t /\ Becomes(t, t1, i, c1)
      BY <2>3
    <3> HIDE DEF t, t1
    <3>2. DOMAIN t1 = DOMAIN t /\ t1[i] = c1 /\ \A j \in DOMAIN t \ {i}: t1[j] = t[j]
      BY <3>1, BecomesFacts
    <3> QED BY <3>2 DEF t, t1
  <2> QED BY <1>1, <2>1, <2>2, <2>4
<1>3. Changed(tcp_connections, tcp_connections', p, i)
  <2>1. \A j \in Slots \ {i}: ~InUse(tcp_connections, p, j)
    BY <1>1 DEF SlotsOK
  <2>2. tcp_connections[i].port = p
    BY DEF InUse
  <2> QED BY <1>2, <2>1, <2>2 DEF Changed
<1>4. StartOK(tcp_connections', g1, o1, packets', p)
  <2>1. CASE ~Early(g1)
    BY <2>1 DEF StartOK
  <2>2. CASE SlotOK(c1, g1, o1, packets') /\ c1.port = p
    <3>1. c1.in_use
      BY <2>2 DEF SlotOK, Connections
    <3> QED BY <1>2, <2>2, <3>1 DEF StartOK, InUse
  <2> QED BY <2>1, <2>2
<1>5. /\ PortIs(tcp_connections', g1, o1, packets', p)
      /\ c1 = Unused \/ (SlotIs(c1, g1, o1, packets') /\ c1.port = p)
  BY <1>4 DEF PortIs, PortOK, SlotIs, SlotOK
<1>6. Inv(tcp_connections', packets', guest', outside')
  BY <1>1, <1>2, <1>3, <1>5, PortStep
<1> QED BY <1>6 DEF NatInv

-----------------------------------------------------------------------------
(* What the gateway sends.                                                 *)

LEMMA ReplyType ==
    ASSUME NEW c \in Connections, NEW rst \in BOOLEAN, NEW data \in Seq(Nat)
    PROVE  LET m == Reply(c, FALSE, rst, data)
           IN  /\ m \in Segments /\ m.port = c.port /\ m.seq = c.outside_seqnr
               /\ m.ack = c.outside_acknr /\ m.data = data
               /\ ~m.syn /\ (m.fin <=> Disconnected(c))
<1>1. /\ c.port \in Ports /\ c.outside_seqnr \in 0..W - 1 /\ c.outside_acknr \in 0..W - 1
      /\ Disconnected(c) \in BOOLEAN
  BY DEF Connections, Disconnected
<1> QED BY <1>1 DEF Reply, Segments

(* The last n octets that were read, and an acknowledgement of all that    *)
(* the socket has taken.                                                   *)
LEMMA ReplyOK ==
    ASSUME NEW g, NEW o, PortOK(g, o), NEW c \in Connections, NEW rst \in BOOLEAN,
           NEW n \in 0..MaxSegment, n <= o.read,
           c.outside_acknr = SeqOut(Len(o.got)),
           c.outside_seqnr = Plus(Base(o), o.read - n),
           n > 0 => o.read - n <= Len(g.got) /\ ~Disconnected(c)
    PROVE  LET m == Reply(c, FALSE, rst, UpTo(o.read, n))
           IN  m \in Segments /\ PacketOK(m, Len(o.got), o.read, g, o)
<1> DEFINE m == Reply(c, FALSE, rst, UpTo(o.read, n))
<1>1. /\ g \in Guests /\ o \in Sockets /\ g.una <= Len(o.got) /\ Len(g.got) <= o.read
  BY DEF PortOK
<1>2. o.read \in Nat /\ Len(o.got) \in Nat /\ n \in 0..o.read /\ n <= MaxSegment /\ n \in Nat
  BY <1>1, SocketType, Bounds
<1>3. UpTo(o.read, n) \in Seq(Nat) /\ Len(UpTo(o.read, n)) = n
  BY <1>2, UpToSeq
<1>4. /\ m \in Segments /\ m.seq = c.outside_seqnr /\ m.ack = c.outside_acknr
      /\ m.data = UpTo(o.read, n) /\ ~m.syn /\ (m.fin <=> Disconnected(c))
  BY <1>3, ReplyType
<1> HIDE DEF m
<1>5. Disconnected(c) => n = 0
  BY <1>2
<1>6. SegmentOK(m, Len(o.got), o.read, g, o)
  BY <1>1, <1>2, <1>3, <1>4, <1>5 DEF SegmentOK
<1> QED BY <1>4, <1>6 DEF PacketOK, m

LEMMA QueueOne ==
    ASSUME NEW pk \in Seq(Segments), NEW m \in Segments, NEW p, m.port = p
    PROVE  LET pk1 == pk \o <<m>>
           IN  /\ pk1 \in Seq(Segments) /\ Others(pk, pk1, p)
               /\ NoFin(pk1, p) <=> NoFin(pk, p) /\ ~m.fin
<1> DEFINE pk1 == pk \o <<m>>
           l == Len(pk)
<1>1. /\ l \in Nat /\ pk1 \in Seq(Segments) /\ Len(pk1) = l + 1 /\ pk1[l + 1] = m
      /\ \A j \in 1..l: pk1[j] = pk[j]
  OBVIOUS
<1>2. \A j \in 1..l + 1: j \in 1..l \/ j = l + 1
  BY <1>1
<1>3. l + 1 \in 1..l + 1 /\ \A j \in 1..l: j \in 1..l + 1
  BY <1>1
<1> HIDE DEF pk1, l
<1>4. Others(pk, pk1, p)
  BY <1>1, <1>2 DEF Others, l
<1>5. NoFin(pk1, p) <=> NoFin(pk, p) /\ ~m.fin
  <2>1. NoFin(pk1, p) <=> \A j \in 1..l + 1: pk1[j].port = p => ~pk1[j].fin
    BY <1>1 DEF NoFin
  <2>2. NoFin(pk, p) <=> \A j \in 1..l: pk[j].port = p => ~pk[j].fin
    BY DEF NoFin, l
  <2> QED BY <1>1, <1>2, <1>3, <2>1, <2>2
<1> QED BY <1>1, <1>4, <1>5 DEF pk1

LEMMA OthersTwice ==
    ASSUME NEW pk, NEW pk1, NEW pk2, NEW p, Others(pk, pk1, p), Others(pk1, pk2, p)
    PROVE  Others(pk, pk2, p)
  BY DEF Others

LEMMA OthersSame ==
    ASSUME NEW pk, NEW p
    PROVE  Others(pk, pk, p)
  BY DEF Others

LEMMA QueueLast ==
    ASSUME NEW S, NEW pk \in Seq(S), NEW s \in Seq(S), NEW m \in S
    PROVE  pk \o (s \o <<m>>) = (pk \o s) \o <<m>>
<1>1. <<m>> \in Seq(S)
  OBVIOUS
<1> QED BY <1>1, ConcatAssociative

LEMMA QueueTwo ==
    ASSUME NEW S, NEW pk \in Seq(S), NEW m \in S, NEW n \in S
    PROVE  pk \o <<m, n>> = (pk \o <<m>>) \o <<n>>
<1>1. <<m>> \in Seq(S) /\ <<n>> \in Seq(S) /\ <<m, n>> \in Seq(S)
  OBVIOUS
<1>2. /\ <<m>> \o <<n>> \in Seq(S) /\ Len(<<m>> \o <<n>>) = 2 /\ Len(<<m, n>>) = 2
      /\ (<<m>> \o <<n>>)[1] = m /\ (<<m>> \o <<n>>)[2] = n
  BY <1>1
<1>3. <<m, n>>[1] = m /\ <<m, n>>[2] = n /\ \A j \in 1..2: j = 1 \/ j = 2
  OBVIOUS
<1> DEFINE s == <<m>> \o <<n>>
           t == <<m, n>>
<1>4. /\ s \in Seq(S) /\ t \in Seq(S) /\ Len(s) = 2 /\ Len(t) = 2
      /\ \A j \in 1..2: s[j] = t[j]
  BY <1>1, <1>2, <1>3
<1> HIDE DEF s, t
<1>5. s = t
  BY <1>4
<1>6. <<m>> \o <<n>> = <<m, n>>
  BY <1>5 DEF s, t
<1>7. pk \o (<<m>> \o <<n>>) = (pk \o <<m>>) \o <<n>>
  BY <1>1, QueueLast
<1> QED BY Zenon, <1>6, <1>7

(* A segment without data.                                                 *)
LEMMA AnswerOK ==
    ASSUME NEW pk, NEW gs, NEW os, Chain(pk, gs, os), NEW p \in Ports, PortOK(gs[p], os[p]),
           NEW c \in Connections, c.port = p, NEW rst \in BOOLEAN,
           c.outside_acknr = SeqOut(Len(os[p].got)),
           c.outside_seqnr = Plus(Base(os[p]), os[p].read)
    PROVE  LET m == Reply(c, FALSE, rst, <<>>)
               pk1 == pk \o <<m>>
           IN  /\ m \in Segments /\ pk1 \in Seq(Segments)
               /\ Chain(pk1, gs, os) /\ Others(pk, pk1, p)
               /\ NoFin(pk1, p) <=> NoFin(pk, p) /\ ~Disconnected(c)
<1> DEFINE m == Reply(c, FALSE, rst, <<>>)
<1>1. os[p].read \in Nat /\ Len(os[p].got) \in Nat
  BY SocketType DEF PortOK
<1>2. 0 \in 0..MaxSegment /\ os[p].read - 0 = os[p].read /\ 0 <= os[p].read
  BY <1>1, Bounds
<1>3. UpTo(os[p].read, 0) = <<>>
  BY <1>1, UpToSeq
<1>4. m \in Segments /\ PacketOK(m, Len(os[p].got), os[p].read, gs[p], os[p])
  <2> DEFINE n == 0
             r == Reply(c, FALSE, rst, UpTo(os[p].read, n))
  <2>1. n \in 0..MaxSegment /\ n <= os[p].read /\ ~(n > 0) /\ os[p].read - n = os[p].read
    BY <1>2
  <2> HIDE DEF n
  <2>2. r \in Segments /\ PacketOK(r, Len(os[p].got), os[p].read, gs[p], os[p])
    BY <2>1, ReplyOK
  <2> QED BY <1>3, <2>2 DEF n
<1>5. m.port = p /\ (m.fin <=> Disconnected(c))
  <2>1. <<>> \in Seq(Nat)
    OBVIOUS
  <2> QED BY <2>1, ReplyType
<1>6. pk \in Seq(Segments)
  BY DEF Chain
<1> HIDE DEF m
<1>7. Chain(pk \o <<m>>, gs, os)
  BY <1>1, <1>4, <1>5, ChainLonger DEF PacketIs
<1> QED BY <1>4, <1>5, <1>6, <1>7, QueueOne DEF m

-----------------------------------------------------------------------------
(* A segment m of the guest with the octets from the pos-th to the end-th; *)
(* g1 is the guest after it.                                               *)

Sending(g, g1, m, pos, end) ==
    /\ Alive(g) /\ g1 \in Guests
    /\ g1.got = g.got /\ g1.una = g.una /\ g1.fin = g.fin /\ g1.irs = g.irs
    /\ g.nxt <= g1.nxt /\ g1.nxt <= g.una + Window
    /\ pos \in {g.una, g.nxt} /\ end \in Nat /\ pos <= end /\ end <= g1.nxt
    /\ m.seq = SeqOut(pos) /\ m.data = UpTo(end, end - pos)
    /\ m.ack = Plus(SeqIn(g), IF g.fin THEN 1 ELSE 0)
    /\ ~m.syn /\ (m.fin => g1.st = "closing") /\ g1.st \in {g.st, "closing", "done"}

LEMMA SendingKeeps ==
    ASSUME NEW g, NEW g1, NEW o, NEW m, NEW pos, NEW end,
           PortOK(g, o), Sending(g, g1, m, pos, end)
    PROVE  /\ PortOK(g1, o) /\ ~Early(g) /\ ~Early(g1) /\ (InTime(g, o) => InTime(g1, o))
<1>1. /\ g \in Guests /\ g1 \in Guests /\ o \in Sockets /\ Alive(g)
      /\ g1.got = g.got /\ g1.una = g.una /\ g1.fin = g.fin /\ g1.irs = g.irs
      /\ g.nxt <= g1.nxt /\ g1.nxt <= g.una + Window /\ g1.st \in {g.st, "closing", "done"}
  BY DEF Sending, PortOK
<1>2. ~Early(g) /\ ~Early(g1) /\ g.irs = Base(o)
  BY <1>1 DEF Early, Alive, PortOK
<1>3. Len(o.got) <= g1.nxt
  BY <1>1, GuestType, SocketType DEF PortOK
<1>4. PortOK(g1, o)
  BY <1>1, <1>2, <1>3 DEF PortOK
<1>5. InTime(g, o) => InTime(g1, o)
  BY <1>1 DEF InTime
<1> QED BY <1>2, <1>4, <1>5

LEMMA SendingTypes ==
    ASSUME NEW g \in Guests, NEW g1, NEW m, NEW pos, NEW end, Sending(g, g1, m, pos, end)
    PROVE  /\ m.seq \in 0..W - 1 /\ m.ack \in 0..W - 1 /\ pos \in Nat /\ end - pos \in 0..end
           /\ m.data \in Seq(Nat) /\ Len(m.data) = end - pos
<1>1. g.una \in Nat /\ g.nxt \in Nat /\ g.irs \in Int /\ Len(g.got) \in Int
  BY GuestType, Bounds
<1>2. pos \in Nat /\ end \in Nat /\ end - pos \in 0..end
  BY <1>1 DEF Sending
<1>3. m.seq \in 0..W - 1
  BY <1>2, SeqOutType DEF Sending
<1>4. SeqIn(g) \in Int
  BY <1>1, PlusType DEF SeqIn
<1>5. (IF g.fin THEN 1 ELSE 0) \in Int
  OBVIOUS
<1>6. m.ack \in 0..W - 1
  BY <1>4, <1>5, PlusType DEF Sending
<1>7. m.data \in Seq(Nat) /\ Len(m.data) = end - pos
  BY <1>2, UpToSeq DEF Sending
<1> QED BY <1>2, <1>3, <1>6, <1>7

(* The kept segment is forgotten only if the guest has taken all of it.    *)
LEMMA AckedSlot ==
    ASSUME NEW c, NEW g, NEW o, NEW pk, NEW g1, NEW m, NEW pos, NEW end,
           PortOK(g, o), SlotOK(c, g, o, pk), Sending(g, g1, m, pos, end)
    PROVE  LET a == Acknowledged(c, m)
           IN  /\ a \in Connections /\ a.port = c.port /\ a.state = c.state
               /\ Len(a.incoming_buf) <= MaxSegment /\ Synced(a, g, o)
<1> DEFINE a == Acknowledged(c, m)
           buf == IF m.ack = c.outside_seqnr THEN <<>> ELSE c.incoming_buf
<1>1. /\ g \in Guests /\ o \in Sockets /\ c \in Connections /\ ~Early(g) /\ Alive(g)
      /\ Synced(c, g, o) /\ Len(c.incoming_buf) <= MaxSegment
  BY SendingKeeps DEF PortOK, SlotOK, Waiting, Sending
<1>2. /\ c.incoming_buf \in Seq(Nat) /\ <<>> \in Seq(Nat) /\ Len(<<>>) = 0
      /\ buf \in Seq(Nat)
  BY <1>1 DEF Connections
<1>3. m.seq \in 0..W - 1 /\ m.ack \in 0..W - 1
  BY <1>1, SendingTypes
<1>4. /\ a \in Connections /\ a.port = c.port /\ a.state = c.state
      /\ a.outside_seqnr = c.outside_seqnr /\ a.outside_acknr = c.outside_acknr
      /\ a.incoming_buf = buf /\ a.incoming_buf_seqnr = c.incoming_buf_seqnr
  <2> HIDE DEF buf
  <2>1. a = [c EXCEPT !.inside_acknr = m.ack, !.inside_seqnr = m.seq, !.incoming_buf = buf]
    BY DEF Acknowledged, buf
  <2> HIDE DEF a
  <2> QED BY <1>1, <1>2, <1>3, <2>1 DEF Connections
<1>5. Len(buf) <= MaxSegment
  BY <1>1, <1>2, Bounds
<1> HIDE DEF a
<1>6. ASSUME ~Disconnected(c) PROVE BufferOK(a, g, o)
  <2>1. BufferOK(c, g, o) /\ c.outside_seqnr = Plus(Base(o), o.read) /\ ~g.fin
    BY <1>1, <1>6 DEF Synced, SlotOK
  <2>2. CASE m.ack = c.outside_seqnr
    <3>1. /\ o.read \in Nat /\ Len(g.got) \in Nat /\ g.irs \in Int /\ g.irs = Base(o)
          /\ Len(g.got) <= o.read /\ o.read <= Len(g.got) + MaxSegment
      BY <1>1, GuestType, SocketType, Bounds DEF PortOK
    <3>2. m.ack = Plus(Plus(Base(o), Len(g.got)), 0)
      BY <2>1, <3>1 DEF Sending, SeqIn
    <3>3. m.ack = Plus(Base(o), Len(g.got))
      <4>1. Len(g.got) \in Int /\ 0 \in Int /\ Len(g.got) + 0 = Len(g.got) /\ Base(o) \in Int
        BY <3>1
      <4>2. Plus(Plus(Base(o), Len(g.got)), 0) = Plus(Base(o), Len(g.got) + 0)
        BY Zenon, <4>1, PlusPlus
      <4> QED BY <3>2, <4>1, <4>2
    <3>4. Len(g.got) = o.read
      <4> DEFINE x == Len(g.got)
                 y == o.read
      <4>1. x \in Int /\ y \in Int /\ x - y < W /\ y - x < W /\ Base(o) \in Int
        BY <3>1, Bounds
      <4>2. Plus(Base(o), x) = Plus(Base(o), y)
        BY <2>1, <2>2, <3>3
      <4> HIDE DEF x, y
      <4>3. x = y
        BY <4>1, <4>2, PlusInjective
      <4> QED BY <4>3 DEF x, y
    <3>5. a.incoming_buf = <<>>
      BY <1>4, <2>2
    <3>6. UpTo(o.read, 0) = <<>>
      BY <3>1, UpToSeq
    <3> QED BY <1>2, <3>1, <3>4, <3>5, <3>6 DEF BufferOK
  <2>3. CASE m.ack # c.outside_seqnr
    BY <1>4, <2>1, <2>3 DEF BufferOK
  <2> QED BY <2>2, <2>3
<1>7. Synced(a, g, o)
  BY <1>1, <1>4, <1>6 DEF Synced, Disconnected
<1> QED BY <1>4, <1>5, <1>7 DEF a

-----------------------------------------------------------------------------
(* The segment is handled.                                                 *)

(* What is known of a slot and its port.                                   *)
LEMMA AtSlot ==
    ASSUME NatInv, NEW i \in Slots, NEW p \in Ports, Clean(p), InUse(tcp_connections, p, i)
    PROVE  /\ PortOK(guest[p], outside[p]) /\ EndOK(guest[p], outside[p], packets, p)
           /\ SlotOK(tcp_connections[i], guest[p], outside[p], packets)
           /\ tcp_connections[i] \in Connections /\ tcp_connections[i].port = p
           /\ Chain(packets, guest, outside) /\ packets \in Seq(Segments)
           /\ p \in DOMAIN guest /\ p \in DOMAIN outside /\ i \in DOMAIN tcp_connections
<1>1. /\ SlotsOK(tcp_connections, packets, guest, outside)
      /\ PortsOK(tcp_connections, packets, guest, outside)
      /\ Chain(packets, guest, outside)
  BY DEF NatInv, Inv
<1>2. tcp_connections[i].in_use /\ tcp_connections[i].port = p
  BY DEF InUse
<1>3. /\ SlotOK(tcp_connections[i], guest[p], outside[p], packets)
      /\ tcp_connections[i] \in Connections
  BY <1>1, <1>2, SlotFacts DEF SlotIs, Clean
<1>4. PortOK(guest[p], outside[p]) /\ EndOK(guest[p], outside[p], packets, p)
  BY <1>1 DEF PortsOK, PortIs, Clean
<1> QED BY <1>1, <1>2, <1>3, <1>4 DEF PortsOK, SlotsOK, Chain

LEMMA AtPort ==
    ASSUME NatInv, NEW p \in Ports, Clean(p)
    PROVE  /\ PortOK(guest[p], outside[p]) /\ EndOK(guest[p], outside[p], packets, p)
           /\ StartOK(tcp_connections, guest[p], outside[p], packets, p)
           /\ Chain(packets, guest, outside) /\ packets \in Seq(Segments)
           /\ p \in DOMAIN guest /\ p \in DOMAIN outside
  BY DEF NatInv, Inv, PortsOK, PortIs, Chain, Clean

(* The chain stays in order when the guest has sent something, or the      *)
(* socket has taken something.                                             *)
LEMMA SendChain ==
    ASSUME NatInv, NEW p \in Ports, Clean(p), NEW g1, NEW o1, PortOK(g1, o1),
           Becomes(guest, guest', p, g1), Becomes(outside, outside', p, o1),
           g1.una = guest[p].una, g1.got = guest[p].got, o1.iss = outside[p].iss,
           Len(outside[p].got) <= Len(o1.got), outside[p].read <= o1.read,
           NoFin(packets, p) \/ o1.read = outside[p].read
    PROVE  Chain(packets, guest', outside') /\ guest'[p] = g1 /\ outside'[p] = o1
<1>1. /\ DOMAIN guest = Ports /\ DOMAIN outside = Ports /\ Chain(packets, guest, outside)
      /\ PortOK(guest[p], outside[p])
  BY DEF NatInv, Inv, PortsOK, PortIs, Clean
<1>2. /\ guest'[p] = g1 /\ outside'[p] = o1
      /\ Elsewhere(guest, guest', p) /\ Elsewhere(outside, outside', p)
  BY <1>1, BecomesPort
<1>3. /\ Len(outside[p].got) \in Nat /\ outside[p].read \in Nat
      /\ Len(o1.got) \in Nat /\ o1.read \in Nat
  BY <1>1, SocketType DEF PortOK
<1>4. ~outside[p].early
  BY DEF Clean
<1> QED BY <1>1, <1>2, <1>3, <1>4, ChainKept

LEMMA AnswerStep ==
    ASSUME NatInv, NEW i \in Slots, NEW p \in Ports, Clean(p), InUse(tcp_connections, p, i),
           NEW c1, NEW g1, NEW o1, PortOK(g1, o1),
           Becomes(tcp_connections, tcp_connections', i, c1),
           Becomes(guest, guest', p, g1), Becomes(outside, outside', p, o1),
           Chain(packets', guest', outside'), Others(packets, packets', p),
           g1.fin = guest[p].fin, ~Early(g1),
           InTime(guest[p], outside[p]) => InTime(g1, o1),
           NoFin(packets, p) => NoFin(packets', p) \/ InTime(g1, o1),
           \/ c1 = Unused
           \/ /\ c1 \in Connections /\ c1.port = p /\ Len(c1.incoming_buf) <= MaxSegment
              /\ Synced(c1, g1, o1) /\ (Disconnected(c1) => InTime(g1, o1))
              /\ Disconnected(tcp_connections[i]) => Disconnected(c1)
              /\ NoFin(packets, p) /\ ~Disconnected(c1) => NoFin(packets', p)
    PROVE  NatInv'
<1>1. /\ EndOK(guest[p], outside[p], packets, p)
      /\ SlotOK(tcp_connections[i], guest[p], outside[p], packets)
      /\ tcp_connections[i].port = p
  BY AtSlot
<1>2. EndOK(g1, o1, packets', p)
  BY <1>1 DEF EndOK
<1>3. CASE c1 = Unused
  BY <1>2, <1>3, SlotStep
<1>4. CASE c1 # Unused
  <2>1. ~Disconnected(c1) => ~g1.fin /\ NoFin(packets', p)
    BY <1>1, <1>4 DEF SlotOK
  <2>2. SlotOK(c1, g1, o1, packets')
    BY <1>4, <2>1 DEF SlotOK
  <2> QED BY <1>2, <1>4, <2>2, SlotStep
<1> QED BY <1>3, <1>4

(* The slot that gets the guest's segment.                                 *)
SendOK(i, p, g1) ==
    LET c == tcp_connections[i]
        o == outside[p]
    IN  /\ PortOK(guest[p], o) /\ PortOK(g1, o) /\ ~Early(g1)
        /\ SlotOK(c, guest[p], o, packets)
        /\ c \in Connections /\ c.port = p /\ Len(c.incoming_buf) <= MaxSegment
        /\ Synced(c, guest[p], o) /\ Synced(c, g1, o)
        /\ InTime(guest[p], o) => InTime(g1, o)
        /\ Disconnected(c) => InTime(g1, o)
        /\ g1.fin = guest[p].fin /\ g1.una = guest[p].una /\ g1.got = guest[p].got
        /\ i \in DOMAIN tcp_connections /\ p \in DOMAIN outside

LEMMA SendFacts ==
    ASSUME NatInv, NEW i \in Slots, NEW p \in Ports, Clean(p), InUse(tcp_connections, p, i),
           NEW g1, NEW m, NEW pos, NEW end, Sending(guest[p], g1, m, pos, end)
    PROVE  SendOK(i, p, g1)
<1>1. /\ PortOK(guest[p], outside[p]) /\ SlotOK(tcp_connections[i], guest[p], outside[p], packets)
      /\ i \in DOMAIN tcp_connections /\ p \in DOMAIN outside
  BY AtSlot
<1>2. /\ PortOK(g1, outside[p]) /\ ~Early(guest[p]) /\ ~Early(g1)
      /\ InTime(guest[p], outside[p]) => InTime(g1, outside[p])
  BY <1>1, SendingKeeps
<1>3. tcp_connections[i] \in Connections /\ tcp_connections[i].port = p
  BY AtSlot
<1>4. g1.fin = guest[p].fin /\ g1.una = guest[p].una /\ g1.got = guest[p].got
  BY DEF Sending
<1>5. Synced(tcp_connections[i], guest[p], outside[p])
  BY <1>1, <1>2 DEF SlotOK, Waiting
<1>6. Synced(tcp_connections[i], g1, outside[p])
  BY <1>5, <1>4 DEF Synced, BufferOK
<1>7. /\ Len(tcp_connections[i].incoming_buf) <= MaxSegment
      /\ Disconnected(tcp_connections[i]) => InTime(g1, outside[p])
  BY <1>1, <1>2 DEF SlotOK
<1> QED
  BY <1>1, <1>2, <1>3, <1>4, <1>5, <1>6, <1>7 DEF SendOK

(* The socket's end does not change.                                       *)
LEMMA SendChainSame ==
    ASSUME NatInv, NEW p \in Ports, Clean(p), NEW g1, PortOK(g1, outside[p]),
           Becomes(guest, guest', p, g1), outside' = outside,
           g1.una = guest[p].una, g1.got = guest[p].got
    PROVE  /\ Chain(packets, guest', outside') /\ guest'[p] = g1
           /\ Becomes(outside, outside', p, outside[p])
<1>1. Becomes(outside, outside', p, outside[p])
  BY DEF Becomes
<1>2. outside[p] \in Sockets
  BY DEF PortOK
<1>3. Len(outside[p].got) <= Len(outside[p].got) /\ outside[p].read <= outside[p].read
  BY <1>2, SocketType
<1> QED
  BY <1>1, <1>3, SendChain

(* The chain with an answer from slot c.                                   *)
Answer(pk, pk1, c) == \E rst \in BOOLEAN: pk1 = pk \o <<Reply(c, FALSE, rst, <<>>)>>

LEMMA Answered ==
    ASSUME NEW pk, NEW pk1, NEW gs, NEW os, NEW p \in Ports, NEW c,
           Chain(pk, gs, os), Answer(pk, pk1, c), PortOK(gs[p], os[p]),
           c \in Connections, c.port = p,
           c.outside_acknr = SeqOut(Len(os[p].got)),
           c.outside_seqnr = Plus(Base(os[p]), os[p].read)
    PROVE  /\ Chain(pk1, gs, os) /\ Others(pk, pk1, p)
           /\ NoFin(pk1, p) <=> NoFin(pk, p) /\ ~Disconnected(c)
<1>1. PICK rst \in BOOLEAN: pk1 = pk \o <<Reply(c, FALSE, rst, <<>>)>>
  BY DEF Answer
<1> QED
  BY <1>1, AnswerOK

LEMMA AnswerQueued ==
    ASSUME NEW p \in Ports, NEW c, NEW g1, NEW o1, guest'[p] = g1, outside'[p] = o1,
           Chain(packets, guest', outside'), Answer(packets, packets', c), PortOK(g1, o1),
           c \in Connections, c.port = p,
           c.outside_acknr = SeqOut(Len(o1.got)), c.outside_seqnr = Plus(Base(o1), o1.read)
    PROVE  /\ Chain(packets', guest', outside') /\ Others(packets, packets', p)
           /\ NoFin(packets', p) <=> NoFin(packets, p) /\ ~Disconnected(c)
<1> DEFINE gs == guest'
           os == outside'
           pk1 == packets'
<1>1. /\ Chain(packets, gs, os) /\ Answer(packets, pk1, c) /\ PortOK(gs[p], os[p])
      /\ c.outside_acknr = SeqOut(Len(os[p].got))
      /\ c.outside_seqnr = Plus(Base(os[p]), os[p].read)
  OBVIOUS
<1>2. /\ Chain(pk1, gs, os) /\ Others(packets, pk1, p)
      /\ NoFin(pk1, p) <=> NoFin(packets, p) /\ ~Disconnected(c)
  <2> HIDE DEF gs, os, pk1
  <2> QED BY <1>1, Answered
<1> QED
  BY <1>2

(* RST, or the last acknowledgement.                                       *)
LEMMA ResetStep ==
    ASSUME NatInv, NEW i \in Slots, NEW p \in Ports, Clean(p), InUse(tcp_connections, p, i),
           NEW g1, NEW m, NEW pos, NEW end, Sending(guest[p], g1, m, pos, end),
           Becomes(guest, guest', p, g1),
           Set(i, Unused), Queue(<<Reply(tcp_connections[i], FALSE, TRUE, <<>>)>>),
           outside' = outside
    PROVE  NatInv'
<1> DEFINE c == tcp_connections[i]
           o == outside[p]
<1>1. /\ PortOK(guest[p], o) /\ PortOK(g1, o) /\ ~Early(g1)
      /\ c \in Connections /\ c.port = p /\ Synced(c, g1, o)
      /\ InTime(guest[p], o) => InTime(g1, o)
      /\ Disconnected(c) => InTime(g1, o)
      /\ g1.fin = guest[p].fin /\ g1.una = guest[p].una /\ g1.got = guest[p].got
      /\ i \in DOMAIN tcp_connections
  BY SendFacts DEF SendOK
<1>2. /\ Chain(packets, guest', outside') /\ guest'[p] = g1
      /\ Becomes(outside, outside', p, o)
  BY <1>1, SendChainSame
<1>3. Becomes(tcp_connections, tcp_connections', i, Unused)
  BY DEF Becomes, Set
<1>4. /\ c.outside_acknr = SeqOut(Len(o.got)) /\ c.outside_seqnr = Plus(Base(o), o.read)
      /\ outside'[p] = o
  BY <1>1 DEF Synced
<1>5. Answer(packets, packets', c)
  BY DEF Queue, Answer
<1>6. /\ Chain(packets', guest', outside') /\ Others(packets, packets', p)
      /\ NoFin(packets', p) <=> NoFin(packets, p) /\ ~Disconnected(c)
  BY <1>1, <1>2, <1>4, <1>5, AnswerQueued
<1> QED
  BY <1>1, <1>2, <1>3, <1>6, AnswerStep

(* Two answers, with the numbers of slot c.                                *)
LEMMA AnswersQueued ==
    ASSUME NEW p \in Ports, NEW c, NEW c1, NEW g1, NEW o1, guest'[p] = g1, outside'[p] = o1,
           Chain(packets, guest', outside'), packets' = packets \o <<Ack(c), Ack(c1)>>,
           PortOK(g1, o1), c \in Connections, c.port = p, c1 \in Connections, c1.port = p,
           c.outside_acknr = SeqOut(Len(o1.got)), c.outside_seqnr = Plus(Base(o1), o1.read),
           c1.outside_acknr = c.outside_acknr, c1.outside_seqnr = c.outside_seqnr
    PROVE  Chain(packets', guest', outside') /\ Others(packets, packets', p)
<1> DEFINE gs == guest'
           os == outside'
           pk1 == packets \o <<Ack(c)>>
           pk2 == packets'
<1>1. /\ Chain(packets, gs, os) /\ PortOK(gs[p], os[p])
      /\ c.outside_acknr = SeqOut(Len(os[p].got))
      /\ c.outside_seqnr = Plus(Base(os[p]), os[p].read)
      /\ c1.outside_acknr = SeqOut(Len(os[p].got))
      /\ c1.outside_seqnr = Plus(Base(os[p]), os[p].read)
  OBVIOUS
<1>2. <<>> \in Seq(Nat) /\ FALSE \in BOOLEAN
  OBVIOUS
<1>3. Ack(c) \in Segments /\ Ack(c1) \in Segments
  BY <1>2, ReplyType, Zenon DEF Ack
<1>4. packets \in Seq(Segments)
  BY <1>1 DEF Chain
<1>5. pk2 = pk1 \o <<Ack(c1)>>
  <2> DEFINE pk == packets
             n == Ack(c)
             n1 == Ack(c1)
  <2>1. n \in Segments /\ n1 \in Segments /\ pk \in Seq(Segments)
    BY <1>3, <1>4
  <2>2. pk \o <<n, n1>> = (pk \o <<n>>) \o <<n1>>
    <3> HIDE DEF pk, n, n1
    <3> QED BY <2>1, QueueTwo, SMT
  <2> QED BY <2>2
<1>6. Answer(packets, pk1, c)
  BY DEF Answer, Ack
<1>7. Answer(pk1, pk2, c1)
  BY <1>5 DEF Answer, Ack
<1>8. Chain(pk1, gs, os) /\ Others(packets, pk1, p)
  <2> HIDE DEF gs, os, pk1, pk2
  <2> QED BY <1>1, <1>6, Answered
<1>9. Chain(pk2, gs, os) /\ Others(pk1, pk2, p)
  <2> HIDE DEF gs, os, pk1, pk2
  <2> QED BY <1>1, <1>7, <1>8, Answered
<1>10. Others(packets, pk2, p)
  <2> HIDE DEF pk1, pk2
  <2> QED BY <1>8, <1>9, OthersTwice
<1> QED
  BY <1>9, <1>10

(* The slot of a connection that has ended.                                *)
LEMMA DeadSlot ==
    ASSUME NEW c \in Connections, NEW g, NEW o, Synced(c, g, o),
           NEW s \in {"DISCONNECTED", "DISCONNECTED2"}
    PROVE  LET d == [c EXCEPT !.state = s]
           IN  /\ d \in Connections /\ d.port = c.port /\ Disconnected(d)
               /\ d.outside_acknr = c.outside_acknr /\ d.outside_seqnr = c.outside_seqnr
               /\ d.incoming_buf = c.incoming_buf /\ Synced(d, g, o)
<1> DEFINE d == [c EXCEPT !.state = s]
<1>1. /\ d \in Connections /\ d.port = c.port /\ d.state = s
      /\ d.outside_acknr = c.outside_acknr /\ d.outside_seqnr = c.outside_seqnr
      /\ d.incoming_buf = c.incoming_buf
  BY DEF Connections, States
<1> HIDE DEF d
<1>2. Disconnected(d) /\ d.state # "TRYINGTOCONNECT"
  BY <1>1 DEF Disconnected
<1>3. Synced(d, g, o)
  BY <1>1, <1>2 DEF Synced
<1> QED
  BY <1>1, <1>2, <1>3 DEF d

(* FIN of the guest, when the outside has disconnected already.            *)
LEMMA LateFinStep ==
    ASSUME NatInv, NEW i \in Slots, NEW p \in Ports, Clean(p), InUse(tcp_connections, p, i),
           NEW g1, NEW m, NEW pos, NEW end, Sending(guest[p], g1, m, pos, end), m.fin,
           Becomes(guest, guest', p, g1),
           Set(i, AfterFin(tcp_connections[i])),
           Queue(<<Ack([tcp_connections[i] EXCEPT !.state = "CONNECTED"])>>),
           outside' = outside
    PROVE  NatInv'
<1> DEFINE c == tcp_connections[i]
           o == outside[p]
           d == AfterFin(c)
           r == [c EXCEPT !.state = "CONNECTED"]
<1>1. /\ PortOK(g1, o) /\ ~Early(g1)
      /\ c \in Connections /\ c.port = p /\ Len(c.incoming_buf) <= MaxSegment /\ Synced(c, g1, o)
      /\ g1.fin = guest[p].fin /\ g1.una = guest[p].una /\ g1.got = guest[p].got
  BY SendFacts DEF SendOK
<1>2. /\ Chain(packets, guest', outside') /\ guest'[p] = g1
      /\ Becomes(outside, outside', p, o) /\ outside'[p] = o
  BY <1>1, SendChainSame
<1>3. Becomes(tcp_connections, tcp_connections', i, d)
  BY DEF Becomes, Set
<1>4. /\ r \in Connections /\ r.port = p
      /\ r.outside_acknr = SeqOut(Len(o.got)) /\ r.outside_seqnr = Plus(Base(o), o.read)
  BY <1>1 DEF Connections, States, Synced
<1>5. Answer(packets, packets', r)
  BY DEF Queue, Answer, Ack
<1>6. Chain(packets', guest', outside') /\ Others(packets, packets', p)
  <2> HIDE DEF r, o, c
  <2> QED BY <1>1, <1>2, <1>4, <1>5, AnswerQueued
<1>7. /\ d \in Connections /\ d.port = c.port /\ Disconnected(d)
      /\ d.incoming_buf = c.incoming_buf /\ Synced(d, g1, o)
  BY <1>1, DeadSlot DEF AfterFin
<1>8. InTime(g1, o)
  BY DEF Sending, InTime
<1> QED
  <2> HIDE DEF d
  <2> QED BY <1>1, <1>2, <1>3, <1>6, <1>7, <1>8, AnswerStep

(* FIN of the guest, before the outside has disconnected.                  *)
LEMMA FinStep ==
    ASSUME NatInv, NEW i \in Slots, NEW p \in Ports, Clean(p), InUse(tcp_connections, p, i),
           NEW g1, NEW m, NEW pos, NEW end, Sending(guest[p], g1, m, pos, end), m.fin,
           Becomes(guest, guest', p, g1),
           Set(i, AfterFin(tcp_connections[i])),
           Queue(<<Ack(tcp_connections[i]), Ack(AfterFin(tcp_connections[i]))>>),
           outside' = outside
    PROVE  NatInv'
<1> DEFINE c == tcp_connections[i]
           o == outside[p]
           d == AfterFin(c)
<1>1. /\ PortOK(g1, o) /\ ~Early(g1)
      /\ c \in Connections /\ c.port = p /\ Len(c.incoming_buf) <= MaxSegment /\ Synced(c, g1, o)
      /\ g1.fin = guest[p].fin /\ g1.una = guest[p].una /\ g1.got = guest[p].got
  BY SendFacts DEF SendOK
<1>2. /\ Chain(packets, guest', outside') /\ guest'[p] = g1
      /\ Becomes(outside, outside', p, o) /\ outside'[p] = o
  BY <1>1, SendChainSame
<1>3. Becomes(tcp_connections, tcp_connections', i, d)
  BY DEF Becomes, Set
<1>4. c.outside_acknr = SeqOut(Len(o.got)) /\ c.outside_seqnr = Plus(Base(o), o.read)
  BY <1>1 DEF Synced
<1>5. packets' = packets \o <<Ack(c), Ack(d)>>
  BY DEF Queue
<1>6. /\ d \in Connections /\ d.port = c.port /\ Disconnected(d)
      /\ d.outside_acknr = c.outside_acknr /\ d.outside_seqnr = c.outside_seqnr
      /\ d.incoming_buf = c.incoming_buf /\ Synced(d, g1, o)
  BY <1>1, DeadSlot DEF AfterFin
<1>7. Chain(packets', guest', outside') /\ Others(packets, packets', p)
  <2> HIDE DEF d, o, c
  <2> QED BY <1>1, <1>2, <1>4, <1>5, <1>6, AnswersQueued
<1>8. InTime(g1, o)
  BY DEF Sending, InTime
<1> QED
  <2> HIDE DEF d
  <2> QED BY <1>1, <1>2, <1>3, <1>6, <1>7, <1>8, AnswerStep

-----------------------------------------------------------------------------
(* Data of the guest.                                                      *)

(* What the socket takes is what comes next.                               *)
LEMMA NextOctets ==
    ASSUME NEW g, NEW o, NEW g1, NEW m, NEW pos, NEW end, PortOK(g, o),
           Sending(g, g1, m, pos, end), m.seq = SeqOut(Len(o.got)), NEW n \in 1..Len(m.data)
    PROVE  LET got == o.got \o SubSeq(m.data, 1, n)
           IN  /\ Len(o.got) + n \in Nat /\ Len(o.got) + n <= g1.nxt
               /\ got = First(Len(o.got) + n)
<1> DEFINE k == Len(o.got)
<1>1. g \in Guests /\ o \in Sockets
  BY DEF PortOK
<1>2. /\ pos \in Nat /\ end \in Nat /\ end - pos \in 0..end /\ m.data = UpTo(end, end - pos)
      /\ Len(m.data) = end - pos /\ g.una \in Nat /\ g.nxt \in Nat /\ k \in Nat /\ g1.nxt \in Nat
  <2>1. g1 \in Guests /\ end \in Nat /\ m.data = UpTo(end, end - pos)
    BY DEF Sending
  <2>2. g.una \in Nat /\ g.nxt \in Nat /\ g1.nxt \in Nat /\ k \in Nat
    BY <1>1, <2>1, GuestType, SocketType
  <2>3. pos \in Nat /\ end - pos \in 0..end /\ Len(m.data) = end - pos
    BY <1>1, SendingTypes
  <2> QED BY <2>1, <2>2, <2>3
<1>3. /\ g.una <= k /\ k <= g.nxt /\ g.nxt <= g.una + Window /\ o.got = First(k)
      /\ pos \in {g.una, g.nxt} /\ end <= g1.nxt /\ m.seq = SeqOut(pos)
  BY DEF PortOK, Sending
<1>4. Window \in Nat /\ Window < W /\ W \in Nat /\ GuestIss \in Int
  BY Bounds
<1> HIDE DEF k
<1>5. pos = k
  <2>1. Plus(GuestIss, pos + 1) = Plus(GuestIss, k + 1)
    BY <1>3 DEF SeqOut, k
  <2>2. pos + 1 \in Int /\ k + 1 \in Int /\ (pos + 1) - (k + 1) < W /\ (k + 1) - (pos + 1) < W
    <3> DEFINE u == g.una
               v == g.nxt
    <3>1. /\ u \in Nat /\ v \in Nat /\ u <= k /\ k <= v /\ v <= u + Window
          /\ pos = u \/ pos = v
      BY <1>2, <1>3
    <3> HIDE DEF u, v
    <3>2. pos \in Nat /\ k \in Nat
      BY <1>2
    <3> QED BY <1>4, <3>1, <3>2
  <2>3. pos + 1 = k + 1
    BY <1>4, <2>1, <2>2, PlusInjective
  <2> QED BY <1>2, <2>3
<1>6. n \in 0..(end - pos) /\ n \in Nat /\ k + n \in Nat /\ k + n <= g1.nxt /\ k <= k + n
  BY <1>2, <1>3, <1>5
<1>7. SubSeq(m.data, 1, n) = UpTo(k + n, n)
  <2> DEFINE i == 1
             d == end - pos
  <2>1. i \in Nat \ {0} /\ i <= n + 1 /\ d \in 0..end
    BY <1>2, <1>6
  <2>2. SubSeq(UpTo(end, d), i, n) = UpTo(end - d + n, n - i + 1)
    <3> HIDE DEF i, d
    <3> QED BY <1>2, <1>6, <2>1, PartOf DEF d
  <2>3. end - d + n = k + n /\ n - i + 1 = n
    BY <1>2, <1>5, <1>6
  <2> QED BY <1>2, <2>2, <2>3
<1>8. First(k) \o UpTo(k + n, n) = First(k + n)
  <2>1. (k + n) - k = n
    BY <1>2, <1>6
  <2> QED BY <1>2, <1>6, <2>1, Join
<1> QED
  BY <1>3, <1>6, <1>7, <1>8 DEF k

(* The socket takes n octets of a segment, and may be full then.           *)
Took(o, o1, m, n) ==
    \E full \in BOOLEAN: o1 = [o EXCEPT !.got = @ \o SubSeq(m.data, 1, n), !.full = full]

LEMMA WrittenOK ==
    ASSUME NEW g, NEW o, NEW g1, NEW m, NEW pos, NEW end, NEW c \in Connections,
           PortOK(g, o), PortOK(g1, o), Sending(g, g1, m, pos, end), Synced(c, g1, o),
           m.seq = c.outside_acknr, NEW n \in 1..Len(m.data), NEW o1, Took(o, o1, m, n)
    PROVE  LET d == Written(c, n)
           IN  /\ PortOK(g1, o1) /\ o1.iss = o.iss /\ o1.read = o.read /\ Len(o.got) <= Len(o1.got)
               /\ InTime(g1, o) => InTime(g1, o1)
               /\ d \in Connections /\ d.port = c.port /\ d.state = c.state
               /\ d.incoming_buf = c.incoming_buf /\ Synced(d, g1, o1)
<1> DEFINE d == Written(c, n)
           k == Len(o.got) + n
<1>1. c.outside_acknr = SeqOut(Len(o.got))
  BY DEF Synced
<1>2. k \in Nat /\ k <= g1.nxt /\ o.got \o SubSeq(m.data, 1, n) = First(k)
  BY <1>1, NextOctets
<1>3. g \in Guests /\ o \in Sockets /\ g1 \in Guests
  BY DEF PortOK
<1>4. Len(m.data) \in Nat
  BY <1>3, SendingTypes
<1>5. n \in Nat /\ Len(o.got) \in Nat
  BY <1>3, <1>4, SocketType
<1> HIDE DEF k
<1>6. First(k) \in Seq(Nat) /\ Len(First(k)) = k
  BY <1>2, FirstSeq
<1>7. /\ o1.got = First(k) /\ o1.iss = o.iss /\ o1.read = o.read /\ o1.todo = o.todo
      /\ o1.broken = o.broken /\ o1 \in Sockets
  BY <1>2, <1>3, <1>6 DEF Sockets, Took
<1>8. Plus(c.outside_acknr, n) = SeqOut(k) /\ Plus(c.outside_acknr, n) \in 0..W - 1
  <2>1. GuestIss \in Int
    BY Bounds
  <2>2. Plus(Plus(GuestIss, Len(o.got) + 1), n) = Plus(GuestIss, Len(o.got) + 1 + n)
    <3>1. Len(o.got) + 1 \in Int /\ n \in Int
      BY <1>5
    <3> QED BY <2>1, <3>1, PlusPlus
  <2>3. Len(o.got) + 1 + n = k + 1
    BY <1>5 DEF k
  <2> QED BY <1>1, <1>2, <2>2, <2>3, SeqOutType DEF SeqOut
<1>9. /\ d \in Connections /\ d.port = c.port /\ d.state = c.state
      /\ d.outside_acknr = SeqOut(k) /\ d.outside_seqnr = c.outside_seqnr
      /\ d.incoming_buf = c.incoming_buf /\ d.incoming_buf_seqnr = c.incoming_buf_seqnr
  BY <1>8 DEF Connections, Written
<1> HIDE DEF d
<1>10. Len(o1.got) = k /\ Len(o.got) <= k /\ Base(o1) = Base(o)
  BY <1>5, <1>6, <1>7 DEF k, Base
<1>11. PortOK(g1, o1)
  <2>1. g1.una <= k
    BY <1>3, <1>5, <1>10, <1>2, GuestType DEF PortOK
  <2> QED BY <1>2, <1>3, <1>7, <1>10, <2>1 DEF PortOK
<1>12. Synced(d, g1, o1)
  BY <1>7, <1>9, <1>10 DEF Synced, BufferOK, Disconnected
<1>13. InTime(g1, o) => InTime(g1, o1)
  BY <1>7 DEF InTime
<1> QED
  BY <1>7, <1>9, <1>10, <1>11, <1>12, <1>13 DEF d

(* The facts about the slot after the acknowledgement in the segment.      *)
LEMMA AckFacts ==
    ASSUME NatInv, NEW i \in Slots, NEW p \in Ports, Clean(p), InUse(tcp_connections, p, i),
           NEW g1, NEW m, NEW pos, NEW end, Sending(guest[p], g1, m, pos, end)
    PROVE  LET c == tcp_connections[i]
               a == Acknowledged(c, m)
           IN  /\ a \in Connections /\ a.port = p /\ a.state = c.state
               /\ Len(a.incoming_buf) <= MaxSegment /\ Synced(a, g1, outside[p])
               /\ Disconnected(a) <=> Disconnected(c)
<1> DEFINE c == tcp_connections[i]
           a == Acknowledged(c, m)
<1>1. /\ PortOK(guest[p], outside[p]) /\ SlotOK(c, guest[p], outside[p], packets)
      /\ c.port = p /\ g1.got = guest[p].got
  BY SendFacts DEF SendOK
<1>2. /\ a \in Connections /\ a.port = c.port /\ a.state = c.state
      /\ Len(a.incoming_buf) <= MaxSegment /\ Synced(a, guest[p], outside[p])
  <2> HIDE DEF c
  <2> QED BY <1>1, AckedSlot
<1> HIDE DEF a
<1>3. Synced(a, g1, outside[p])
  BY <1>1, <1>2 DEF Synced, BufferOK
<1>4. Disconnected(a) <=> Disconnected(c)
  BY <1>2 DEF Disconnected
<1> QED
  BY <1>1, <1>2, <1>3, <1>4 DEF a

(* No answer.                                                              *)
LEMMA AckStep ==
    ASSUME NatInv, NEW i \in Slots, NEW p \in Ports, Clean(p), InUse(tcp_connections, p, i),
           NEW g1, NEW m, NEW pos, NEW end, Sending(guest[p], g1, m, pos, end),
           Becomes(guest, guest', p, g1),
           Set(i, Acknowledged(tcp_connections[i], m)), packets' = packets, outside' = outside
    PROVE  NatInv'
<1> DEFINE c == tcp_connections[i]
           o == outside[p]
           a == Acknowledged(c, m)
<1>1. /\ PortOK(g1, o) /\ ~Early(g1)
      /\ InTime(guest[p], o) => InTime(g1, o)
      /\ Disconnected(c) => InTime(g1, o)
      /\ g1.fin = guest[p].fin /\ g1.una = guest[p].una /\ g1.got = guest[p].got
  BY SendFacts DEF SendOK
<1>2. /\ Chain(packets, guest', outside') /\ Becomes(outside, outside', p, o)
  BY <1>1, SendChainSame
<1>3. Becomes(tcp_connections, tcp_connections', i, a)
  BY DEF Becomes, Set
<1>4. /\ a \in Connections /\ a.port = p
      /\ Len(a.incoming_buf) <= MaxSegment /\ Synced(a, g1, o)
      /\ Disconnected(a) <=> Disconnected(c)
  BY AckFacts
<1>5. Others(packets, packets', p)
  BY OthersSame
<1> QED
  <2> HIDE DEF a
  <2> QED BY <1>1, <1>2, <1>3, <1>4, <1>5, AnswerStep

(* The data is not what comes next.                                        *)
LEMMA RepeatStep ==
    ASSUME NatInv, NEW i \in Slots, NEW p \in Ports, Clean(p), InUse(tcp_connections, p, i),
           NEW g1, NEW m, NEW pos, NEW end, Sending(guest[p], g1, m, pos, end),
           Becomes(guest, guest', p, g1),
           Set(i, Acknowledged(tcp_connections[i], m)),
           Queue(<<Ack(Acknowledged(tcp_connections[i], m))>>), outside' = outside
    PROVE  NatInv'
<1> DEFINE c == tcp_connections[i]
           o == outside[p]
           a == Acknowledged(c, m)
<1>1. /\ PortOK(g1, o) /\ ~Early(g1)
      /\ InTime(guest[p], o) => InTime(g1, o)
      /\ Disconnected(c) => InTime(g1, o)
      /\ g1.fin = guest[p].fin /\ g1.una = guest[p].una /\ g1.got = guest[p].got
  BY SendFacts DEF SendOK
<1>2. /\ Chain(packets, guest', outside') /\ guest'[p] = g1
      /\ Becomes(outside, outside', p, o) /\ outside'[p] = o
  BY <1>1, SendChainSame
<1>3. Becomes(tcp_connections, tcp_connections', i, a)
  BY DEF Becomes, Set
<1>4. /\ a \in Connections /\ a.port = p
      /\ Len(a.incoming_buf) <= MaxSegment /\ Synced(a, g1, o)
      /\ Disconnected(a) <=> Disconnected(c)
  BY AckFacts
<1>5. Answer(packets, packets', a)
  BY DEF Queue, Answer, Ack
<1> HIDE DEF a
<1>6. a.outside_acknr = SeqOut(Len(o.got)) /\ a.outside_seqnr = Plus(Base(o), o.read)
  BY <1>4 DEF Synced
<1>7. /\ Chain(packets', guest', outside') /\ Others(packets, packets', p)
      /\ NoFin(packets', p) <=> NoFin(packets, p) /\ ~Disconnected(a)
  BY <1>1, <1>2, <1>4, <1>5, <1>6, AnswerQueued
<1> QED
  BY <1>1, <1>2, <1>3, <1>4, <1>7, AnswerStep

(* The socket takes n octets.                                              *)
LEMMA WriteStep ==
    ASSUME NatInv, NEW i \in Slots, NEW p \in Ports, Clean(p), InUse(tcp_connections, p, i),
           NEW g1, NEW m, NEW pos, NEW end, Sending(guest[p], g1, m, pos, end),
           Becomes(guest, guest', p, g1), NEW a, a = Acknowledged(tcp_connections[i], m),
           m.seq = a.outside_acknr, NEW n \in 1..Len(m.data),
           Set(i, Written(a, n)), Queue(<<Ack(Written(a, n))>>),
           NEW o1, Took(outside[p], o1, m, n), Becomes(outside, outside', p, o1)
    PROVE  NatInv'
<1> DEFINE c == tcp_connections[i]
           o == outside[p]
           d == Written(a, n)
<1>1. /\ PortOK(guest[p], o) /\ PortOK(g1, o) /\ ~Early(g1)
      /\ InTime(guest[p], o) => InTime(g1, o)
      /\ Disconnected(c) => InTime(g1, o)
      /\ g1.fin = guest[p].fin /\ g1.una = guest[p].una /\ g1.got = guest[p].got
      /\ p \in DOMAIN outside
  <2>1. SendOK(i, p, g1)
    BY SendFacts
  <2> QED BY <2>1 DEF SendOK
<1>2. /\ a \in Connections /\ a.port = p
      /\ Len(a.incoming_buf) <= MaxSegment /\ Synced(a, g1, o)
      /\ Disconnected(a) <=> Disconnected(c)
  BY AckFacts
<1>3. /\ PortOK(g1, o1) /\ o1.iss = o.iss /\ o1.read = o.read /\ Len(o.got) <= Len(o1.got)
      /\ InTime(g1, o) => InTime(g1, o1)
      /\ d \in Connections /\ d.port = a.port /\ d.state = a.state
      /\ d.incoming_buf = a.incoming_buf /\ Synced(d, g1, o1)
  BY <1>1, <1>2, WrittenOK
<1>4. /\ Becomes(tcp_connections, tcp_connections', i, d)
      /\ Answer(packets, packets', d)
  BY DEF Becomes, Set, Queue, Answer, Ack
<1> HIDE DEF d
<1>6. /\ Chain(packets, guest', outside') /\ guest'[p] = g1 /\ outside'[p] = o1
  <2>1. o.read <= o1.read
    BY <1>1, <1>3, SocketType DEF PortOK
  <2> QED BY <1>1, <1>3, <2>1, SendChain
<1>7. /\ d.outside_acknr = SeqOut(Len(o1.got)) /\ d.outside_seqnr = Plus(Base(o1), o1.read)
      /\ Disconnected(d) <=> Disconnected(c)
  BY <1>2, <1>3 DEF Synced, Disconnected
<1>8. /\ Chain(packets', guest', outside') /\ Others(packets, packets', p)
      /\ NoFin(packets', p) <=> NoFin(packets, p) /\ ~Disconnected(d)
  BY <1>2, <1>3, <1>4, <1>6, <1>7, AnswerQueued
<1> QED
  BY <1>1, <1>2, <1>3, <1>4, <1>7, <1>8, AnswerStep

(* The socket is not writable, or fails.                                   *)
LEMMA BreakStep ==
    ASSUME NatInv, NEW i \in Slots, NEW p \in Ports, Clean(p), InUse(tcp_connections, p, i),
           NEW g1, NEW m, NEW pos, NEW end, Sending(guest[p], g1, m, pos, end),
           Becomes(guest, guest', p, g1), NEW a, a = Acknowledged(tcp_connections[i], m),
           NEW d, d = [a EXCEPT !.state = "DISCONNECTED"], Set(i, d), Queue(<<Ack(d)>>),
           NEW o1, o1 = [outside[p] EXCEPT !.broken = TRUE], Becomes(outside, outside', p, o1)
    PROVE  NatInv'
<1> DEFINE c == tcp_connections[i]
           o == outside[p]
<1>1. /\ PortOK(guest[p], o) /\ PortOK(g1, o) /\ ~Early(g1)
      /\ g1.fin = guest[p].fin /\ g1.una = guest[p].una /\ g1.got = guest[p].got
      /\ p \in DOMAIN outside
  BY SendFacts DEF SendOK
<1>2. /\ a \in Connections /\ a.port = p
      /\ Len(a.incoming_buf) <= MaxSegment /\ Synced(a, g1, o)
  BY AckFacts
<1>3. /\ o1 \in Sockets /\ o1.iss = o.iss /\ o1.read = o.read /\ o1.got = o.got /\ o1.broken
      /\ o1.todo = o.todo
  BY <1>1 DEF PortOK, Sockets
<1>4. /\ Becomes(tcp_connections, tcp_connections', i, d)
      /\ Answer(packets, packets', d)
  BY DEF Becomes, Set, Queue, Answer, Ack
<1>6. /\ d \in Connections /\ d.port = a.port /\ Disconnected(d)
      /\ d.incoming_buf = a.incoming_buf /\ Synced(d, g1, o)
  BY <1>2, DeadSlot
<1>7. PortOK(g1, o1) /\ Synced(d, g1, o1) /\ InTime(g1, o1)
  BY <1>1, <1>3, <1>6 DEF PortOK, Synced, BufferOK, Base, InTime
<1>8. /\ Chain(packets, guest', outside') /\ guest'[p] = g1 /\ outside'[p] = o1
  <2>1. o.read <= o1.read /\ Len(o.got) <= Len(o1.got)
    BY <1>1, <1>3, SocketType DEF PortOK
  <2> QED BY <1>1, <1>3, <1>7, <2>1, SendChain, ZenonT(40)
<1>9. d.outside_acknr = SeqOut(Len(o1.got)) /\ d.outside_seqnr = Plus(Base(o1), o1.read)
  BY <1>7 DEF Synced
<1>10. Chain(packets', guest', outside') /\ Others(packets, packets', p)
  BY <1>2, <1>4, <1>6, <1>7, <1>8, <1>9, AnswerQueued
<1> QED
  BY <1>1, <1>2, <1>4, <1>6, <1>7, <1>10, AnswerStep

(* The guest's segment finds no slot.                                      *)
LEMMA IgnoredStep ==
    ASSUME NatInv, NEW p \in Ports, Clean(p), NEW g1, NEW m, NEW pos, NEW end,
           Sending(guest[p], g1, m, pos, end), m.port = p, Becomes(guest, guest', p, g1), Ignore(m)
    PROVE  NatInv'
<1>1. /\ PortOK(guest[p], outside[p]) /\ EndOK(guest[p], outside[p], packets, p)
  BY AtPort
<1>2. /\ PortOK(g1, outside[p]) /\ ~Early(g1)
      /\ InTime(guest[p], outside[p]) => InTime(g1, outside[p])
  BY <1>1, SendingKeeps
<1>3. ~m.syn /\ g1.fin = guest[p].fin /\ g1.una = guest[p].una /\ g1.got = guest[p].got
  BY DEF Sending
<1>4. tcp_connections' = tcp_connections /\ packets' = packets /\ outside' = outside
  BY DEF Ignore
<1>5. \A i \in Slots: ~InUse(tcp_connections, p, i)
  BY <1>3 DEF Ignore, Known, InUse
<1>6. Chain(packets, guest', outside')
  BY <1>2, <1>3, <1>4, SendChainSame
<1>7. EndOK(g1, outside[p], packets, p)
  BY <1>1, <1>2, <1>3 DEF EndOK
<1>8. Others(packets, packets', p)
  BY <1>4, OthersSame
<1>9. EndOK(g1, outside[p], packets', p) /\ Chain(packets', guest', outside')
  BY <1>4, <1>6, <1>7
<1> QED
  BY <1>2, <1>4, <1>5, <1>8, <1>9, NoSlotStep

(* A segment of the guest, whatever becomes of it.                         *)
LEMMA SendStep ==
    ASSUME NatInv, NEW p \in Ports, Clean(p), NEW g1, NEW m, NEW pos, NEW end,
           Sending(guest[p], g1, m, pos, end), m.port = p, Becomes(guest, guest', p, g1),
           net_ip_tcp(m)
    PROVE  NatInv'
<1>1. ~m.syn
  BY DEF Sending
<1>2. CASE Ignore(m)
  BY <1>2, IgnoredStep
<1>3. CASE NewOutgoing(m)
  BY <1>1, <1>3 DEF NewOutgoing
<1>4. CASE Segment(m)
  <2> DEFINE Slot(i) == tcp_connections[i]
             Reset(i) == (m.rst \/ Slot(i).state = "DISCONNECTED2")
                          /\ Set(i, Unused) /\ Queue(<<Reply(Slot(i), FALSE, TRUE, <<>>)>>)
                          /\ outside' = outside
             Late(i) == m.fin /\ Set(i, AfterFin(Slot(i)))
                        /\ Queue(<<Ack([Slot(i) EXCEPT !.state = "CONNECTED"])>>)
                        /\ outside' = outside
             Fin(i) == m.fin /\ Set(i, AfterFin(Slot(i)))
                       /\ Queue(<<Ack(Slot(i)), Ack(AfterFin(Slot(i)))>>) /\ outside' = outside
             Write(i) == WriteOutside(i, Acknowledged(Slot(i), m), m)
             Plain(i) == Set(i, Acknowledged(Slot(i), m)) /\ packets' = packets /\ outside' = outside
  <2>1. PICK i \in Known(m): Reset(i) \/ Late(i) \/ Fin(i) \/ Write(i) \/ Plain(i)
    BY <1>4 DEF Segment
  <2>2. i \in Slots /\ InUse(tcp_connections, p, i)
    BY <2>1 DEF Known, InUse
  <2>3. CASE Reset(i)
    BY <2>2, <2>3, ResetStep
  <2>4. CASE Late(i)
    BY <2>2, <2>4, LateFinStep
  <2>5. CASE Fin(i)
    BY <2>2, <2>5, FinStep
  <2>6. CASE Plain(i)
    BY <2>2, <2>6, AckStep
  <2>7. CASE Write(i)
    <3> DEFINE a == Acknowledged(tcp_connections[i], m)
    <3>1. CASE Set(i, a) /\ Queue(<<Ack(a)>>) /\ outside' = outside
      BY <2>2, <3>1, RepeatStep
    <3>2. CASE Set(i, a) /\ packets' = packets /\ outside' = outside
      BY <2>2, <3>2, AckStep
    <3>3. a.port = p /\ p \in DOMAIN outside
      BY <2>2, AckFacts, AtPort
    <3>4. ASSUME m.seq = a.outside_acknr, NEW n \in 1..Len(m.data), NEW full \in BOOLEAN,
                 Set(i, Written(a, n)), Queue(<<Ack(Written(a, n))>>),
                 outside' = [outside EXCEPT ![a.port].got = @ \o SubSeq(m.data, 1, n),
                                            ![a.port].full = full]
          PROVE  NatInv'
      <4> DEFINE o1 == [outside[p] EXCEPT !.got = @ \o SubSeq(m.data, 1, n), !.full = full]
      <4>1. Took(outside[p], o1, m, n)
        BY DEF Took
      <4>2. Becomes(outside, outside', p, o1)
        BY <3>3, <3>4 DEF Becomes
      <4> HIDE DEF o1, a
      <4> QED BY <2>2, <3>4, <4>1, <4>2, WriteStep DEF a
    <3>5. ASSUME NEW d, d = [a EXCEPT !.state = "DISCONNECTED"], Set(i, d), Queue(<<Ack(d)>>),
                 outside' = [outside EXCEPT ![a.port].broken = TRUE]
          PROVE  NatInv'
      <4> DEFINE o1 == [outside[p] EXCEPT !.broken = TRUE]
      <4>1. Becomes(outside, outside', p, o1)
        BY <3>3, <3>5 DEF Becomes
      <4> QED BY <2>2, <3>5, <4>1, BreakStep
    <3> QED
      BY <2>7, <3>1, <3>2, <3>4, <3>5 DEF WriteOutside
  <2> QED
    BY <2>1, <2>3, <2>4, <2>5, <2>6, <2>7
<1> QED
  BY <1>2, <1>3, <1>4 DEF net_ip_tcp

-----------------------------------------------------------------------------
(* The guest's actions that send a segment.                                *)

LEMMA OctetsAre ==
    ASSUME NEW pos \in Nat, NEW end \in Nat
    PROVE  [k \in 1..end - pos |-> pos + k] = UpTo(end, end - pos)
<1>1. \A k \in 1..end - pos: pos + k = end - (end - pos) + k
  OBVIOUS
<1> QED
  BY <1>1, Zenon DEF UpTo

(* The guest's end with another state and next octet.                      *)
Now(g, st, nxt) == [g EXCEPT !.nxt = nxt, !.st = st, !.ack_due = FALSE]

LEMMA GuestSends ==
    ASSUME NEW g \in Guests, NEW st \in Stages, NEW nxt \in Nat
    PROVE  LET g1 == Now(g, st, nxt)
           IN  /\ g1 \in Guests /\ g1.got = g.got /\ g1.una = g.una /\ g1.fin = g.fin
               /\ g1.irs = g.irs /\ g1.nxt = nxt /\ g1.st = st
  BY DEF Guests, Now

LEMMA OctetsStep ==
    ASSUME NatInv, NEW p \in Ports, Clean(p), Alive(guest[p]), NEW st \in Stages, NEW nxt \in Nat,
           NEW pos \in {guest[p].una, guest[p].nxt}, NEW end \in Nat, pos <= end, end <= nxt,
           guest[p].nxt <= nxt, nxt <= guest[p].una + Window,
           NEW fin, NEW rst, fin => st = "closing", st \in {guest[p].st, "closing", "done"},
           net_ip_tcp(Octets(p, pos, end, fin, rst)),
           Becomes(guest, guest', p, Now(guest[p], st, nxt))
    PROVE  NatInv'
<1> DEFINE g == guest[p]
           m == Octets(p, pos, end, fin, rst)
           g1 == Now(g, st, nxt)
<1>1. g \in Guests
  BY AtPort DEF PortOK
<1>2. pos \in Nat
  BY <1>1, GuestType
<1>3. /\ m.port = p /\ m.seq = SeqOut(pos) /\ ~m.syn /\ m.fin = fin
      /\ m.ack = Plus(SeqIn(g), IF g.fin THEN 1 ELSE 0)
      /\ m.data = UpTo(end, end - pos)
  <2>1. [k \in 1..end - pos |-> pos + k] = UpTo(end, end - pos)
    BY <1>2, OctetsAre
  <2> QED BY <2>1 DEF Octets
<1>4. /\ g1 \in Guests /\ g1.got = g.got /\ g1.una = g.una /\ g1.fin = g.fin
      /\ g1.irs = g.irs /\ g1.nxt = nxt /\ g1.st = st
  BY <1>1, GuestSends
<1>5. net_ip_tcp(m)
  OBVIOUS
<1> HIDE DEF m, g1
<1>6. Sending(g, g1, m, pos, end)
  BY <1>3, <1>4 DEF Sending
<1> QED
  BY <1>3, <1>5, <1>6, SendStep DEF g1

LEMMA WindowKept ==
    ASSUME NatInv, NEW p \in Ports, Clean(p)
    PROVE  /\ guest[p] \in Guests /\ guest[p].nxt \in Nat /\ guest[p].una \in Nat
           /\ guest[p].una <= guest[p].nxt /\ guest[p].nxt <= guest[p].una + Window
           /\ guest[p].st \in Stages /\ Window \in Nat /\ MaxSegment \in Nat
           /\ p \in DOMAIN guest
<1>1. PortOK(guest[p], outside[p]) /\ p \in DOMAIN guest
  BY AtPort
<1>2. guest[p] \in Guests /\ outside[p] \in Sockets
  BY <1>1 DEF PortOK
<1>3. /\ guest[p].nxt \in Nat /\ guest[p].una \in Nat /\ Len(outside[p].got) \in Nat
      /\ guest[p].st \in Stages
  BY <1>2, GuestType, SocketType DEF Guests
<1> QED
  BY <1>1, <1>2, <1>3, Bounds DEF PortOK

(* The guest's record as the actions write it.                             *)
LEMMA GuestBecomes ==
    ASSUME NEW p \in Ports, guest[p] \in Guests, p \in DOMAIN guest, NEW st, NEW nxt
    PROVE  /\ Guest(p, [guest[p] EXCEPT !.nxt = nxt, !.st = st])
                  => Becomes(guest, guest', p, Now(guest[p], st, nxt))
           /\ Guest(p, [guest[p] EXCEPT !.nxt = nxt])
                  => Becomes(guest, guest', p, Now(guest[p], guest[p].st, nxt))
           /\ Guest(p, [guest[p] EXCEPT !.st = st])
                  => Becomes(guest, guest', p, Now(guest[p], st, guest[p].nxt))
           /\ Guest(p, guest[p])
                  => Becomes(guest, guest', p, Now(guest[p], guest[p].st, guest[p].nxt))
<1> DEFINE g == guest[p]
<1>1. /\ [[g EXCEPT !.nxt = nxt, !.st = st] EXCEPT !.ack_due = FALSE] = Now(g, st, nxt)
      /\ [[g EXCEPT !.nxt = nxt] EXCEPT !.ack_due = FALSE] = Now(g, g.st, nxt)
      /\ [[g EXCEPT !.st = st] EXCEPT !.ack_due = FALSE] = Now(g, st, g.nxt)
      /\ [g EXCEPT !.ack_due = FALSE] = Now(g, g.st, g.nxt)
  <2>1. g \in Guests
    OBVIOUS
  <2> HIDE DEF g
  <2> QED BY <2>1 DEF Guests, Now
<1> QED
  BY <1>1 DEF Becomes, Guest

LEMMA SendDataStep ==
    ASSUME NatInv, NEW p \in Ports, Clean(p), SendData(p)
    PROVE  NatInv'
<1>1. PICK end \in guest[p].nxt..guest[p].todo, pos \in {guest[p].una, guest[p].nxt}:
          /\ pos < end /\ end - guest[p].una <= Window
          /\ net_ip_tcp(Octets(p, pos, end, FALSE, FALSE))
          /\ Guest(p, [guest[p] EXCEPT !.nxt = end])
  BY DEF SendData
<1>2. /\ guest[p] \in Guests /\ guest[p].nxt \in Nat /\ guest[p].una \in Nat
      /\ guest[p].st \in Stages /\ Window \in Nat /\ p \in DOMAIN guest /\ guest[p].todo \in Nat
  BY WindowKept, GuestType
<1>3. /\ end \in Nat /\ pos <= end /\ end <= end /\ guest[p].nxt <= end
      /\ end <= guest[p].una + Window
  BY <1>1, <1>2
<1>4. Becomes(guest, guest', p, Now(guest[p], guest[p].st, end))
  BY <1>1, <1>2, GuestBecomes
<1>5. Alive(guest[p])
  BY DEF SendData, Alive
<1> DEFINE f == FALSE
<1>6. net_ip_tcp(Octets(p, pos, end, f, f)) /\ (f => guest[p].st = "closing")
  BY <1>1
<1> HIDE DEF f
<1> QED
  BY <1>1, <1>2, <1>3, <1>4, <1>5, <1>6, OctetsStep

LEMMA SendAckStep ==
    ASSUME NatInv, NEW p \in Ports, Clean(p), SendAck(p)
    PROVE  NatInv'
<1> DEFINE f == FALSE
           n == guest[p].nxt
<1>1. net_ip_tcp(Octets(p, n, n, f, f)) /\ Guest(p, guest[p]) /\ Alive(guest[p])
  BY DEF SendAck, Connected, Alive
<1>2. /\ guest[p] \in Guests /\ guest[p].st \in Stages /\ p \in DOMAIN guest
      /\ n \in Nat /\ n <= n /\ guest[p].nxt <= n /\ n <= guest[p].una + Window
  BY WindowKept
<1>3. Becomes(guest, guest', p, Now(guest[p], guest[p].st, n))
  BY <1>1, <1>2, GuestBecomes
<1>4. (f => guest[p].st = "closing") /\ n \in {guest[p].una, guest[p].nxt}
  OBVIOUS
<1> HIDE DEF f, n
<1> QED
  BY <1>1, <1>2, <1>3, <1>4, OctetsStep

LEMMA CloseStep ==
    ASSUME NatInv, NEW p \in Ports, Clean(p), Close(p)
    PROVE  NatInv'
<1> DEFINE t == TRUE
           f == FALSE
           st == "closing"
           pos == guest[p].nxt
<1>1. PICK n \in 0..MaxSegment:
          /\ guest[p].nxt + n - guest[p].una <= Window
          /\ net_ip_tcp(Octets(p, pos, guest[p].nxt + n, t, f))
          /\ Guest(p, [guest[p] EXCEPT !.nxt = @ + n, !.st = "closing"])
  BY DEF Close
<1> DEFINE end == guest[p].nxt + n
<1>2. /\ guest[p] \in Guests /\ p \in DOMAIN guest /\ guest[p].nxt \in Nat /\ guest[p].una \in Nat
      /\ Window \in Nat /\ MaxSegment \in Nat
  BY WindowKept
<1>3. /\ end \in Nat /\ pos <= end /\ end <= end /\ guest[p].nxt <= end
      /\ end <= guest[p].una + Window
  BY <1>1, <1>2
<1>4. Becomes(guest, guest', p, Now(guest[p], st, end))
  <2>1. Guest(p, [guest[p] EXCEPT !.nxt = end, !.st = st])
    BY <1>1
  <2> HIDE DEF end, st
  <2> QED BY <1>2, <2>1, GuestBecomes
<1>5. Alive(guest[p]) /\ st \in Stages /\ st \in {guest[p].st, "closing", "done"}
  BY DEF Close, Alive, Stages
<1>6. (t => st = "closing") /\ pos \in {guest[p].una, guest[p].nxt}
  OBVIOUS
<1> HIDE DEF t, f, st, pos, end
<1>7. net_ip_tcp(Octets(p, pos, end, t, f))
  BY <1>1 DEF end
<1> QED
  BY <1>2, <1>3, <1>4, <1>5, <1>6, <1>7, OctetsStep

LEMMA ResendFinStep ==
    ASSUME NatInv, NEW p \in Ports, Clean(p), ResendFin(p)
    PROVE  NatInv'
<1> DEFINE t == TRUE
           f == FALSE
           pos == guest[p].una
           n == guest[p].nxt
<1>1. net_ip_tcp(Octets(p, pos, n, t, f)) /\ Guest(p, guest[p])
  BY DEF ResendFin
<1>2. /\ guest[p] \in Guests /\ guest[p].st \in Stages /\ p \in DOMAIN guest
      /\ pos <= n /\ n \in Nat /\ n <= n /\ guest[p].nxt <= n /\ n <= guest[p].una + Window
  BY WindowKept
<1>3. Becomes(guest, guest', p, Now(guest[p], guest[p].st, n))
  BY <1>1, <1>2, GuestBecomes
<1>4. (t => guest[p].st = "closing") /\ pos \in {guest[p].una, guest[p].nxt} /\ Alive(guest[p])
  BY DEF ResendFin, Alive
<1> HIDE DEF t, f, pos, n
<1> QED
  BY <1>1, <1>2, <1>3, <1>4, OctetsStep

LEMMA AbortStep ==
    ASSUME NatInv, NEW p \in Ports, Clean(p), Abort(p)
    PROVE  NatInv'
<1> DEFINE t == TRUE
           f == FALSE
           st == "done"
           n == guest[p].nxt
<1>1. net_ip_tcp(Octets(p, n, n, f, t)) /\ Guest(p, [guest[p] EXCEPT !.st = st])
  BY DEF Abort
<1>2. /\ guest[p] \in Guests /\ p \in DOMAIN guest
      /\ n \in Nat /\ n <= n /\ guest[p].nxt <= n /\ n <= guest[p].una + Window
  BY WindowKept
<1>3. /\ (f => st = "closing") /\ st \in {guest[p].st, "closing", "done"} /\ st \in Stages
      /\ n \in {guest[p].una, guest[p].nxt} /\ Alive(guest[p])
  BY DEF Abort, Alive, Stages
<1> HIDE DEF t, f, st
<1>4. Becomes(guest, guest', p, Now(guest[p], st, n))
  BY <1>1, <1>2, GuestBecomes
<1> HIDE DEF n
<1> QED
  BY <1>1, <1>2, <1>3, <1>4, OctetsStep

-----------------------------------------------------------------------------
(* A new connection.                                                       *)

(* The last free slot.                                                     *)
LEMMA LastFree ==
    ASSUME Free # {}
    PROVE  Max(Free) \in Free
<1> DEFINE R == {ss \in Nat \X Nat: ss[1] < ss[2]}
<1>1. IsWellFoundedOn(R, Nat)
  BY NatLessThanWellFounded, Zenon DEF OpToRel
<1>2. PICK n \in Nat: Slots = 1..n
  BY SlotNumbers
<1> DEFINE T == {x \in 0..n: n - x \in Free}
<1>3. \A y \in Free: n - y \in T /\ y \in 1..n /\ n - (n - y) = y
  BY <1>2 DEF Free
<1>4. T # {} /\ T \subseteq Nat
  BY <1>3
<1> HIDE DEF R, T
<1>5. PICK x \in T: \A y \in T: <<y, x>> \notin R
  BY <1>1, <1>4, WFMin, Zenon
<1>6. \A y \in T: x <= y
  <2>1. \A u, v \in Nat: <<u, v>> \notin R => v <= u
    BY DEF R
  <2> QED BY <1>4, <1>5, <2>1
<1>7. n - x \in Free /\ x \in Nat
  BY <1>4 DEF T
<1>8. \A y \in Free: n - x >= y
  BY <1>3, <1>6, <1>7
<1>9. \E z \in Free: \A y \in Free: z >= y
  BY <1>7, <1>8
<1> HIDE DEF Free
<1> QED
  BY <1>9, Zenon DEF Max

LEMMA NewSlot ==
    ASSUME NEW p \in Ports, NEW g, NEW o, NEW pk, PortOK(g, o), Early(g), Quiet(pk, p), o.read = 0
    PROVE  LET c == NewConnection(p, GuestIss, o.iss)
           IN  SlotOK(c, g, o, pk) /\ c.port = p /\ c.in_use
<1> DEFINE c == NewConnection(p, GuestIss, o.iss)
<1>1. o.iss \in 0..W - 1 /\ GuestIss \in 0..W - 1 /\ 0 \in 0..W - 1 /\ 0 \in 0..ResendRounds
  BY Bounds, SocketType DEF PortOK
<1>2. /\ c \in Connections /\ c.port = p /\ c.in_use /\ c.state = "TRYINGTOCONNECT"
      /\ c.inside_seqnr = GuestIss /\ c.outside_seqnr = o.iss /\ c.incoming_buf = <<>>
  BY <1>1 DEF Connections, States, NewConnection
<1> HIDE DEF c
<1>3. Len(c.incoming_buf) <= MaxSegment
  BY <1>2, Bounds
<1>4. ~Disconnected(c) /\ ~g.fin /\ NoFin(pk, p)
  BY <1>2 DEF Disconnected, PortOK, Quiet, NoFin
<1>5. Waiting(c, g, o, pk)
  BY <1>2 DEF Waiting
<1> QED
  BY <1>2, <1>3, <1>4, <1>5 DEF SlotOK, c

(* The guest repeats its SYN.                                              *)
LEMMA Redialling ==
    ASSUME NEW g, NEW o, PortOK(g, o), g.st \in {"closed", "syn_sent"}, NEW g1,
           g1 = Now(g, "syn_sent", g.nxt)
    PROVE  /\ PortOK(g1, o) /\ Early(g) /\ Early(g1) /\ g1.una = g.una /\ g1.got = g.got
           /\ g1.fin = g.fin /\ (InTime(g, o) => InTime(g1, o))
<1>1. g \in Guests /\ "syn_sent" \in Stages /\ g.nxt \in Nat
  BY GuestType DEF PortOK, Stages
<1>2. /\ g1 \in Guests /\ g1.got = g.got /\ g1.una = g.una /\ g1.fin = g.fin
      /\ g1.nxt = g.nxt /\ g1.st = "syn_sent"
  <2> DEFINE st == "syn_sent"
  <2>1. st \in Stages /\ g1 = Now(g, st, g.nxt)
    BY <1>1
  <2> HIDE DEF st
  <2>2. /\ g1 \in Guests /\ g1.got = g.got /\ g1.una = g.una /\ g1.fin = g.fin
        /\ g1.nxt = g.nxt /\ g1.st = st
    BY <1>1, <2>1, GuestSends
  <2> QED BY <2>2 DEF st
<1>3. Early(g) /\ Early(g1) /\ ~Alive(g1)
  BY <1>2 DEF Early, Alive
<1> QED
  BY <1>2, <1>3 DEF PortOK, InTime

LEMMA ConnectStep ==
    ASSUME NatInv, NEW p \in Ports, Clean(p), Connect(p)
    PROVE  NatInv'
<1> DEFINE g == guest[p]
           o == outside[p]
           g1 == Now(g, "syn_sent", g.nxt)
           m == Syn(p)
<1>1. /\ PortOK(g, o) /\ EndOK(g, o, packets, p) /\ StartOK(tcp_connections, g, o, packets, p)
      /\ p \in DOMAIN guest /\ g \in Guests
  BY AtPort DEF PortOK
<1>2. /\ PortOK(g1, o) /\ Early(g) /\ Early(g1) /\ g1.una = g.una /\ g1.got = g.got
      /\ g1.fin = g.fin /\ (InTime(g, o) => InTime(g1, o))
  BY <1>1, Redialling DEF Connect
<1>3. Becomes(guest, guest', p, g1)
  <2> DEFINE st == "syn_sent"
  <2>1. Guest(p, [guest[p] EXCEPT !.st = st])
    BY DEF Connect
  <2>2. Becomes(guest, guest', p, Now(guest[p], st, guest[p].nxt))
    <3> HIDE DEF st
    <3> QED BY <1>1, <2>1, GuestBecomes
  <2> QED BY <2>2
<1>4. net_ip_tcp(m) /\ m.syn /\ m.port = p /\ m.seq = GuestIss
  BY DEF Connect, Syn
<1> HIDE DEF g1, m
<1>5. EndOK(g1, o, packets, p)
  BY <1>1, <1>2 DEF EndOK
<1>6. CASE outside' = outside /\ packets' = packets /\ tcp_connections' = tcp_connections
  <2>1. Chain(packets, guest', outside') /\ Becomes(outside, outside', p, o)
    BY <1>2, <1>3, <1>6, SendChainSame
  <2>2. Others(packets, packets', p)
    BY <1>6, OthersSame
  <2>3. EndOK(g1, o, packets', p) /\ Chain(packets', guest', outside')
    BY <1>5, <1>6, <2>1
  <2>4. CASE \A i \in Slots: ~InUse(tcp_connections, p, i)
    <3>1. Quiet(packets, p) /\ o.read = 0
      BY <1>1, <1>2, <2>4 DEF StartOK
    <3>2. Quiet(packets', p) /\ o.read = 0
      BY <1>6, <3>1
    <3> QED BY <1>2, <1>3, <1>6, <2>2, <2>3, <2>4, <3>2, NoSlotStep
  <2>5. ASSUME NEW i \in Slots, InUse(tcp_connections, p, i)
        PROVE  NatInv'
    <3> DEFINE c == tcp_connections[i]
    <3>1. SlotOK(c, g, o, packets) /\ c.port = p
      BY <2>5, AtSlot
    <3>2. Becomes(tcp_connections, tcp_connections', i, c)
      BY <1>6 DEF Becomes
    <3> HIDE DEF c
    <3>3. SlotOK(c, g1, o, packets)
      BY <1>2, <3>1 DEF SlotOK, Waiting, Synced, BufferOK
    <3>4. SlotOK(c, g1, o, packets')
      BY <1>6, <3>3
    <3> QED BY <1>2, <1>3, <2>1, <2>2, <2>3, <2>5, <3>1, <3>2, <3>4, SlotStep
  <2> QED BY <2>4, <2>5
<1>7. CASE NewOutgoing(m)
  <2> DEFINE i == Max(Free)
             c == NewConnection(p, GuestIss, o.iss)
             t == tcp_connections
  <2>1. /\ \A j \in Slots: ~InUse(t, p, j)
        /\ Free # {} /\ Set(i, c) /\ packets' = packets /\ outside' = outside
    BY <1>4, <1>7 DEF NewOutgoing, Known, InUse
  <2>2. i \in Slots /\ ~t[i].in_use
    BY <2>1, LastFree DEF Free
  <2>3. Quiet(packets, p) /\ o.read = 0
    BY <1>1, <1>2, <2>1 DEF StartOK
  <2>4. SlotOK(c, g1, o, packets) /\ c.port = p /\ c.in_use
    BY <1>2, <2>3, NewSlot
  <2> HIDE DEF i, c
  <2>5. /\ Inv(t, packets, guest, outside) /\ SlotsOK(t, packets, guest, outside)
        /\ DOMAIN t = Slots /\ DOMAIN guest = Ports /\ DOMAIN outside = Ports
    BY DEF NatInv, Inv, SlotsOK, PortsOK
  <2>6. t[i] = Unused
    BY <2>2, <2>5, SlotFacts
  <2>7. /\ t'[i] = c /\ DOMAIN t' = Slots /\ \A j \in Slots \ {i}: t'[j] = t[j]
    BY <2>1, <2>2, <2>5 DEF Set
  <2>8. guest'[p] = g1 /\ DOMAIN guest' = Ports /\ Elsewhere(guest, guest', p)
    BY <1>3, <2>5, BecomesPort
  <2>9. /\ Chain(packets, guest', outside')
    BY <1>2, <1>3, <2>1, SendChainSame
  <2>10. /\ outside'[p] = o /\ DOMAIN outside' = Ports /\ Elsewhere(outside, outside', p)
         /\ Others(packets, packets', p) /\ Chain(packets', guest', outside')
         /\ EndOK(g1, o, packets', p) /\ SlotOK(c, g1, o, packets')
    BY <1>5, <2>1, <2>4, <2>5, <2>9, OthersSame DEF Elsewhere
  <2>11. Changed(t, t', p, i)
    BY <2>1, <2>6, <2>7 DEF Changed
  <2>12. StartOK(t', g1, o, packets', p)
    BY <2>2, <2>4, <2>7 DEF StartOK, InUse
  <2>13. PortIs(t', g1, o, packets', p) /\ SlotIs(c, g1, o, packets')
    BY <1>2, <2>10, <2>12 DEF PortIs, PortOK, SlotIs, SlotOK
  <2>14. Inv(t', packets', guest', outside')
    BY <2>2, <2>4, <2>5, <2>7, <2>8, <2>10, <2>11, <2>13, PortStep
  <2> QED BY <2>14 DEF NatInv
<1> QED
  BY <1>4, <1>6, <1>7 DEF net_ip_tcp, Ignore, Segment

-----------------------------------------------------------------------------
(* net_tcp_rx_avail().                                                     *)

LEMMA PlusZero ==
    ASSUME NEW o \in Sockets
    PROVE  Plus(Base(o), 0) = Base(o)
<1> DEFINE z == 0
           e == 1
<1>1. z \in Int /\ e \in Int /\ o.iss \in Int /\ e + z = e
  BY SocketType, Bounds
<1>2. Plus(Plus(o.iss, e), z) = Plus(o.iss, e + z)
  <2> HIDE DEF z, e
  <2> QED BY <1>1, PlusPlus
<1> QED
  BY <1>1, <1>2 DEF Base

(* The connection when the socket is writable.                             *)
LEMMA OpenedOK ==
    ASSUME NEW c, NEW g, NEW o, NEW pk, PortOK(g, o), SlotOK(c, g, o, pk), ~Disconnected(c)
    PROVE  LET d == Opened(c)
           IN  /\ d \in Connections /\ d.port = c.port /\ d.state = "CONNECTED"
               /\ Len(d.incoming_buf) <= MaxSegment /\ Synced(d, g, o)
               /\ c.state = "TRYINGTOCONNECT" => c.outside_seqnr = o.iss
<1> DEFINE d == Opened(c)
<1>1. c \in Connections /\ g \in Guests /\ o \in Sockets /\ Len(c.incoming_buf) <= MaxSegment
  BY DEF SlotOK, PortOK
<1>2. CASE c.state = "TRYINGTOCONNECT"
  <2>1. Waiting(c, g, o, pk)
    BY <1>2 DEF SlotOK, Synced
  <2>2. /\ Early(g) /\ o.read = 0 /\ c.inside_seqnr = GuestIss /\ c.outside_seqnr = o.iss
        /\ c.incoming_buf = <<>>
    BY <1>2, <2>1 DEF Waiting
  <2>3. Len(g.got) = 0 /\ Len(o.got) = 0
    <3>1. Len(o.got) \in Nat /\ Len(g.got) = 0 /\ g.nxt = 0 /\ Len(o.got) <= g.nxt
      BY <1>1, <2>2, SocketType DEF PortOK
    <3> QED BY <3>1
  <2>4. Plus(GuestIss, 1) = SeqOut(0) /\ Plus(o.iss, 1) = Base(o)
    BY DEF SeqOut, Base
  <2>5. SeqOut(0) \in 0..W - 1 /\ Base(o) \in 0..W - 1
    <3>1. 0 \in Nat /\ 0 \in Int
      OBVIOUS
    <3> QED BY <1>1, <3>1, SeqOutType, BaseType, Zenon
  <2>6. /\ d \in Connections /\ d.port = c.port /\ d.state = "CONNECTED"
        /\ d.outside_acknr = SeqOut(0) /\ d.outside_seqnr = Base(o) /\ d.incoming_buf = <<>>
    <3>1. d = [c EXCEPT !.state = "CONNECTED", !.outside_acknr = SeqOut(0), !.outside_seqnr = Base(o)]
      BY <1>2, <2>2, <2>4 DEF Opened
    <3> DEFINE x == SeqOut(0)
               y == Base(o)
    <3>2. x \in 0..W - 1 /\ y \in 0..W - 1
      BY <2>5
    <3> HIDE DEF x, y, d
    <3>3. d \in Connections
      BY <1>1, <3>1, <3>2 DEF Connections, States, x, y
    <3>4. /\ d.port = c.port /\ d.state = "CONNECTED" /\ d.outside_acknr = SeqOut(0)
          /\ d.outside_seqnr = Base(o) /\ d.incoming_buf = c.incoming_buf
      BY <1>1, <3>1 DEF Connections
    <3> QED BY <2>2, <3>3, <3>4
  <2> HIDE DEF d
  <2>7. <<>> = UpTo(0, 0)
    <3>1. 0 \in Nat /\ 0 \in 0..0
      OBVIOUS
    <3> QED BY <3>1, UpToSeq, Zenon
  <2>8. BufferOK(d, g, o)
    BY <2>2, <2>3, <2>6, <2>7 DEF BufferOK
  <2>9. Synced(d, g, o)
    BY <1>1, <2>2, <2>3, <2>6, <2>8, PlusZero DEF Synced
  <2>10. Len(d.incoming_buf) <= MaxSegment
    BY <2>6, Bounds
  <2> QED BY <2>2, <2>6, <2>9, <2>10 DEF d
<1>3. CASE c.state # "TRYINGTOCONNECT"
  <2>1. d = c
    BY <1>3 DEF Opened
  <2>2. c.state = "CONNECTED"
    BY <1>1, <1>3 DEF Connections, States, Disconnected
  <2>3. Synced(c, g, o)
    BY <2>2 DEF SlotOK, Waiting
  <2> QED BY <1>1, <1>3, <2>1, <2>2, <2>3
<1> QED
  BY <1>2, <1>3

(* The chain with the SYN for the guest, if there is one.                  *)
LEMMA OpeningOK ==
    ASSUME NEW pk, NEW gs, NEW os, NEW p \in Ports, NEW c \in Connections, c.port = p,
           Chain(pk, gs, os), os[p] \in Sockets, Opened(c) \in Connections, Opened(c).port = p,
           Opened(c).state = "CONNECTED",
           c.state = "TRYINGTOCONNECT" => c.outside_seqnr = os[p].iss
    PROVE  LET pk1 == pk \o Opening(c)
           IN  /\ Opening(c) \in Seq(Segments) /\ pk1 \in Seq(Segments)
               /\ Chain(pk1, gs, os) /\ Others(pk, pk1, p)
               /\ NoFin(pk1, p) <=> NoFin(pk, p)
<1>1. pk \in Seq(Segments)
  BY DEF Chain
<1>2. CASE c.state # "TRYINGTOCONNECT"
  <2>1. Opening(c) = <<>>
    BY <1>2 DEF Opening
  <2>2. pk \o Opening(c) = pk /\ Opening(c) \in Seq(Segments)
    BY <1>1, <2>1
  <2> QED BY <1>1, <2>2, OthersSame
<1>3. CASE c.state = "TRYINGTOCONNECT"
  <2> DEFINE d == [Opened(c) EXCEPT !.outside_seqnr = c.outside_seqnr]
             m == Reply(d, TRUE, FALSE, <<>>)
             o == os[p]
  <2>1. Opening(c) = <<m>>
    BY <1>3 DEF Opening
  <2>2. /\ d.port = p /\ d.outside_seqnr = o.iss /\ d.outside_acknr \in 0..W - 1
        /\ d.state = "CONNECTED" /\ o.iss \in 0..W - 1
    BY <1>3 DEF Connections, Sockets
  <2> HIDE DEF d
  <2>3. /\ m \in Segments /\ m.port = p /\ m.syn /\ ~m.fin /\ m.seq = o.iss
    <3>1. Disconnected(d) = FALSE
      BY <2>2 DEF Disconnected
    <3>2. m = [port |-> p, seq |-> o.iss, ack |-> d.outside_acknr, syn |-> TRUE, rst |-> FALSE,
               fin |-> FALSE, data |-> <<>>]
      BY <2>2, <3>1 DEF Reply
    <3> HIDE DEF m
    <3> QED BY <2>2, <3>2 DEF Segments
  <2> HIDE DEF m
  <2>4. PacketIs(m, Len(o.got), o.read, gs[p], o)
    BY <2>3 DEF PacketIs, PacketOK, SynOK
  <2>5. Len(o.got) \in Nat /\ o.read \in Nat
    BY SocketType
  <2>6. Chain(pk \o <<m>>, gs, os)
    BY <2>3, <2>4, <2>5, ChainLonger
  <2>7. /\ pk \o <<m>> \in Seq(Segments) /\ Others(pk, pk \o <<m>>, p)
        /\ NoFin(pk \o <<m>>, p) <=> NoFin(pk, p)
    BY <1>1, <2>3, QueueOne
  <2>8. <<m>> \in Seq(Segments)
    BY <2>3
  <2> QED BY <2>1, <2>6, <2>7, <2>8
<1> QED
  BY <1>2, <1>3

(* A step of a slot that is not disconnected.                              *)
LEMMA PollStep ==
    ASSUME NatInv, NEW i \in Slots, NEW p \in Ports, InUse(tcp_connections, p, i),
           NEW c1, NEW o1, PortOK(guest[p], o1), ~guest[p].fin,
           Becomes(tcp_connections, tcp_connections', i, c1),
           guest' = guest, Becomes(outside, outside', p, o1),
           Chain(packets', guest', outside'), Others(packets, packets', p),
           c1 \in Connections, c1.port = p, Len(c1.incoming_buf) <= MaxSegment,
           Waiting(c1, guest[p], o1, packets') \/ Synced(c1, guest[p], o1),
           Disconnected(c1) => InTime(guest[p], o1),
           ~Disconnected(c1) => NoFin(packets', p)
    PROVE  NatInv'
<1>1. Becomes(guest, guest', p, guest[p])
  BY DEF Becomes
<1>2. EndOK(guest[p], o1, packets', p)
  BY DEF EndOK
<1>3. SlotOK(c1, guest[p], o1, packets')
  BY DEF SlotOK
<1> QED
  BY <1>1, <1>2, <1>3, SlotStep

(* Slot i, for port p, is looked at; c is the slot when it is connected.   *)
Polled(i, p, c) ==
    /\ Active(i) /\ p = tcp_connections[i].port /\ c = Opened(tcp_connections[i])
    /\ Clean(p)

LEMMA PolledFacts ==
    ASSUME NatInv, NEW i \in Slots, NEW p, NEW c, Polled(i, p, c)
    PROVE  /\ p \in Ports /\ InUse(tcp_connections, p, i)
           /\ PortOK(guest[p], outside[p]) /\ ~guest[p].fin /\ NoFin(packets, p)
           /\ c \in Connections /\ c.port = p /\ c.state = "CONNECTED" /\ ~Disconnected(c)
           /\ Len(c.incoming_buf) <= MaxSegment
           /\ Synced(c, guest[p], outside[p]) /\ BufferOK(c, guest[p], outside[p])
<1> DEFINE d == tcp_connections[i]
<1>1. SlotsOK(tcp_connections, packets, guest, outside) /\ d.in_use /\ ~Disconnected(d)
  BY DEF NatInv, Inv, Polled, Active
<1>2. p \in Ports /\ InUse(tcp_connections, p, i)
  BY <1>1, SlotFacts DEF Polled
<1>3. PortOK(guest[p], outside[p]) /\ SlotOK(d, guest[p], outside[p], packets) /\ d.port = p
  BY <1>2, AtSlot DEF Polled
<1>4. c = Opened(d)
  BY DEF Polled
<1> HIDE DEF d
<1>5. /\ c \in Connections /\ c.port = p /\ c.state = "CONNECTED"
      /\ Len(c.incoming_buf) <= MaxSegment /\ Synced(c, guest[p], outside[p])
  BY <1>1, <1>3, <1>4, OpenedOK
<1>6. ~Disconnected(c)
  BY <1>5 DEF Disconnected
<1>7. ~guest[p].fin /\ NoFin(packets, p)
  BY <1>1, <1>3 DEF SlotOK
<1> QED
  BY <1>2, <1>3, <1>5, <1>6, <1>7 DEF Synced

(* The chain as the socket reads on, with the SYN or without it.           *)
LEMMA PolledChain ==
    ASSUME NatInv, NEW i \in Slots, NEW p, NEW c, Polled(i, p, c), NEW o1,
           guest' = guest, Becomes(outside, outside', p, o1), PortOK(guest[p], o1),
           o1.iss = outside[p].iss, o1.got = outside[p].got, outside[p].read <= o1.read
    PROVE  LET pk1 == packets \o Opening(tcp_connections[i])
           IN  /\ Chain(packets, guest', outside')
               /\ Opening(tcp_connections[i]) \in Seq(Segments)
               /\ Chain(pk1, guest', outside') /\ Others(packets, pk1, p) /\ NoFin(pk1, p)
               /\ guest'[p] = guest[p] /\ outside'[p] = o1
<1> DEFINE d == tcp_connections[i]
           gs == guest'
           os == outside'
<1>1. /\ p \in Ports /\ InUse(tcp_connections, p, i) /\ NoFin(packets, p)
      /\ c \in Connections /\ c.port = p /\ c.state = "CONNECTED" /\ Clean(p)
  BY PolledFacts DEF Polled
<1>2. Becomes(guest, guest', p, guest[p])
  BY DEF Becomes
<1>3. Len(outside[p].got) <= Len(o1.got)
  BY <1>1, AtPort, SocketType DEF PortOK
<1>4. Chain(packets, gs, os) /\ guest'[p] = guest[p] /\ os[p] = o1
  BY <1>1, <1>2, <1>3, SendChain
<1>5. /\ PortOK(guest[p], outside[p]) /\ SlotOK(d, guest[p], outside[p], packets)
      /\ d \in Connections /\ d.port = p
  BY <1>1, AtSlot
<1>6. ~Disconnected(d) /\ c = Opened(d)
  BY DEF Polled, Active
<1>7. o1 \in Sockets
  BY DEF PortOK
<1> HIDE DEF d, gs, os
<1>8. d.state = "TRYINGTOCONNECT" => d.outside_seqnr = os[p].iss
  BY <1>4, <1>5, <1>6, OpenedOK
<1>9. LET pk1 == packets \o Opening(d)
      IN  /\ Opening(d) \in Seq(Segments)
          /\ Chain(pk1, gs, os) /\ Others(packets, pk1, p)
          /\ NoFin(pk1, p) <=> NoFin(packets, p)
  BY <1>1, <1>4, <1>5, <1>6, <1>7, <1>8, OpeningOK
<1> QED
  BY <1>1, <1>4, <1>9 DEF d, gs, os

(* A segment is kept, and its time has not come.                           *)
LEMMA CountStep ==
    ASSUME NatInv, NEW i \in Slots, NEW p, NEW c, Polled(i, p, c),
           c.incoming_buf_rounds < ResendRounds,
           Set(i, [c EXCEPT !.incoming_buf_rounds = @ + 1]),
           packets' = packets, outside' = outside, guest' = guest
    PROVE  NatInv'
<1> DEFINE d == [c EXCEPT !.incoming_buf_rounds = @ + 1]
           o == outside[p]
<1>1. /\ p \in Ports /\ InUse(tcp_connections, p, i)
      /\ PortOK(guest[p], o) /\ ~guest[p].fin /\ NoFin(packets, p)
      /\ c \in Connections /\ c.port = p /\ ~Disconnected(c)
      /\ Len(c.incoming_buf) <= MaxSegment /\ Synced(c, guest[p], o)
  BY PolledFacts
<1>0. Clean(p)
  BY DEF Polled
<1>2. c.incoming_buf_rounds + 1 \in 0..ResendRounds
  BY <1>1, Bounds DEF Connections
<1>3. /\ d \in Connections /\ d.port = p /\ d.state = c.state
      /\ d.outside_acknr = c.outside_acknr /\ d.outside_seqnr = c.outside_seqnr
      /\ d.incoming_buf = c.incoming_buf /\ d.incoming_buf_seqnr = c.incoming_buf_seqnr
  BY <1>1, <1>2 DEF Connections
<1>4. Becomes(tcp_connections, tcp_connections', i, d) /\ Becomes(outside, outside', p, o)
  BY DEF Becomes, Set
<1> HIDE DEF d
<1>5. Synced(d, guest[p], o) /\ ~Disconnected(d)
  BY <1>1, <1>3 DEF Synced, BufferOK, Disconnected
<1>6. Chain(packets, guest, outside) /\ Others(packets, packets', p)
  BY <1>0, <1>1, AtSlot, OthersSame
<1>7. Chain(packets', guest', outside') /\ NoFin(packets', p)
  BY <1>1, <1>6
<1> QED
  BY <1>1, <1>3, <1>4, <1>5, <1>6, <1>7, PollStep

(* A segment from slot c with the last n octets that have been read.       *)
DataFrom(c, g, o, n, m) ==
    /\ n \in 1..MaxSegment /\ n <= o.read /\ o.read - n <= Len(g.got)
    /\ c.outside_acknr = SeqOut(Len(o.got)) /\ c.outside_seqnr = Plus(Base(o), o.read - n)
    /\ m = Reply(c, FALSE, FALSE, UpTo(o.read, n))

LEMMA DataQueued ==
    ASSUME NEW pk, NEW gs, NEW os, NEW p \in Ports, Chain(pk, gs, os), PortOK(gs[p], os[p]),
           NEW c \in Connections, c.port = p, ~Disconnected(c), NEW n, NEW m,
           DataFrom(c, gs[p], os[p], n, m)
    PROVE  /\ m \in Segments /\ Chain(pk \o <<m>>, gs, os) /\ Others(pk, pk \o <<m>>, p)
           /\ NoFin(pk \o <<m>>, p) <=> NoFin(pk, p)
<1> DEFINE o == os[p]
           g == gs[p]
           f == FALSE
<1>1. /\ n \in 1..MaxSegment /\ n <= o.read /\ o.read - n <= Len(g.got)
      /\ c.outside_acknr = SeqOut(Len(o.got)) /\ c.outside_seqnr = Plus(Base(o), o.read - n)
      /\ f \in BOOLEAN /\ m = Reply(c, FALSE, f, UpTo(o.read, n))
  BY DEF DataFrom
<1>2. o \in Sockets /\ Len(o.got) \in Nat /\ o.read \in Nat /\ n \in 0..MaxSegment
  BY <1>1, SocketType, Bounds DEF PortOK
<1>3. m \in Segments /\ PacketOK(m, Len(o.got), o.read, g, o)
  <2>1. PortOK(g, o)
    OBVIOUS
  <2> HIDE DEF f, o, g
  <2> QED BY <1>1, <1>2, <2>1, ReplyOK
<1>4. m.port = p /\ ~m.fin
  BY <1>1 DEF Reply
<1>5. Chain(pk \o <<m>>, gs, os)
  BY <1>2, <1>3, <1>4, ChainLonger DEF PacketIs
<1>6. pk \in Seq(Segments)
  BY DEF Chain
<1> QED
  BY <1>3, <1>4, <1>5, <1>6, QueueOne

LEMMA DataThere ==
    ASSUME NEW pk, NEW p \in Ports, NEW g1, NEW o1, guest'[p] = g1, outside'[p] = o1,
           Chain(pk, guest', outside'), PortOK(g1, o1),
           NEW c \in Connections, c.port = p, ~Disconnected(c), NEW n, NEW m,
           DataFrom(c, g1, o1, n, m)
    PROVE  /\ m \in Segments /\ Chain(pk \o <<m>>, guest', outside') /\ Others(pk, pk \o <<m>>, p)
           /\ NoFin(pk \o <<m>>, p) <=> NoFin(pk, p)
<1> DEFINE gs == guest'
           os == outside'
<1>1. Chain(pk, gs, os) /\ PortOK(gs[p], os[p]) /\ DataFrom(c, gs[p], os[p], n, m)
  OBVIOUS
<1>2. /\ m \in Segments /\ Chain(pk \o <<m>>, gs, os) /\ Others(pk, pk \o <<m>>, p)
      /\ NoFin(pk \o <<m>>, p) <=> NoFin(pk, p)
  <2> HIDE DEF gs, os
  <2> QED BY <1>1, DataQueued
<1> QED
  BY <1>2

(* Octets that follow each other have numbers that follow each other.      *)
LEMMA NumbersFollow ==
    ASSUME NEW o \in Sockets, NEW a \in Int, NEW n \in Int
    PROVE  Plus(Plus(Base(o), a), n) = Plus(Base(o), a + n)
<1>1. Base(o) \in Int
  BY BaseType, 0 \in Int, Zenon
<1> QED
  BY <1>1, PlusPlus

(* The kept segment goes out again.                                        *)
LEMMA ResendStep ==
    ASSUME NatInv, NEW i \in Slots, NEW p, NEW c, Polled(i, p, c), c.incoming_buf # <<>>,
           Set(i, Sent(Resent(c), c.incoming_buf)),
           Queue(<<Reply(Resent(c), FALSE, FALSE, c.incoming_buf)>>),
           outside' = outside, guest' = guest
    PROVE  NatInv'
<1> DEFINE r == Resent(c)
           d == Sent(r, c.incoming_buf)
           g == guest[p]
           o == outside[p]
           n == Len(c.incoming_buf)
           m == Reply(r, FALSE, FALSE, c.incoming_buf)
<1>1. /\ p \in Ports /\ InUse(tcp_connections, p, i)
      /\ PortOK(g, o) /\ ~g.fin /\ NoFin(packets, p)
      /\ c \in Connections /\ c.port = p /\ ~Disconnected(c)
      /\ Len(c.incoming_buf) <= MaxSegment /\ Synced(c, g, o) /\ BufferOK(c, g, o)
  BY PolledFacts
<1>0. Clean(p)
  BY DEF Polled
<1>2. o \in Sockets /\ o.read \in Nat /\ Len(o.got) \in Nat /\ MaxSegment \in Nat
  BY <1>1, SocketType, Bounds DEF PortOK
<1>3. n \in Nat /\ n > 0 /\ n \in 1..MaxSegment
  <2>1. c.incoming_buf \in Seq(Nat)
    BY <1>1 DEF Connections
  <2> QED BY <1>1, <1>2, <2>1
<1>4. /\ n <= o.read /\ c.incoming_buf = UpTo(o.read, n) /\ o.read - n <= Len(g.got)
      /\ c.incoming_buf_seqnr = Plus(Base(o), o.read - n)
  BY <1>1, <1>3 DEF BufferOK
<1>5. /\ r \in Connections /\ r.port = p /\ r.state = c.state /\ r.incoming_buf = c.incoming_buf
      /\ r.outside_acknr = c.outside_acknr /\ r.outside_seqnr = c.incoming_buf_seqnr
      /\ r.incoming_buf_seqnr = c.incoming_buf_seqnr
  <2>1. 0 \in 0..ResendRounds
    BY Bounds
  <2> QED BY <1>1, <2>1 DEF Connections, Resent
<1>6. Plus(c.incoming_buf_seqnr, n) = Plus(Base(o), o.read) /\ Plus(Base(o), o.read) \in 0..W - 1
  <2>1. o.read - n \in Int /\ n \in Int /\ o.read - n + n = o.read /\ o.read \in Int
    BY <1>2, <1>3
  <2> HIDE DEF n, o
  <2>2. Plus(Plus(Base(o), o.read - n), n) = Plus(Base(o), o.read - n + n)
    BY <1>2, <2>1, NumbersFollow
  <2>3. Plus(Base(o), o.read) \in 0..W - 1
    BY <1>2, <2>1, BaseType
  <2> QED BY <1>4, <2>1, <2>2, <2>3
<1> HIDE DEF r
<1>7. /\ d \in Connections /\ d.port = p /\ d.state = c.state
      /\ d.outside_acknr = c.outside_acknr /\ d.outside_seqnr = Plus(Base(o), o.read)
      /\ d.incoming_buf = c.incoming_buf /\ d.incoming_buf_seqnr = c.incoming_buf_seqnr
  BY <1>5, <1>6 DEF Connections, Sent
<1>8. /\ Becomes(tcp_connections, tcp_connections', i, d) /\ Becomes(outside, outside', p, o)
      /\ packets' = packets \o <<m>>
  BY DEF Becomes, Set, Queue, d, r
<1> HIDE DEF d
<1>9. Synced(d, g, o) /\ ~Disconnected(d) /\ ~Disconnected(r)
  BY <1>1, <1>5, <1>7 DEF Synced, BufferOK, Disconnected
<1>10. Chain(packets, guest', outside') /\ guest'[p] = g /\ outside'[p] = o
  BY <1>0, <1>1, AtSlot
<1>11. DataFrom(r, g, o, n, m)
  <2>1. c.outside_acknr = SeqOut(Len(o.got)) /\ m = Reply(r, FALSE, FALSE, UpTo(o.read, n))
    BY <1>1, <1>4 DEF Synced
  <2> HIDE DEF g, o, n, m
  <2> QED BY <1>3, <1>4, <1>5, <2>1 DEF DataFrom
<1>12. /\ Chain(packets \o <<m>>, guest', outside') /\ Others(packets, packets \o <<m>>, p)
       /\ NoFin(packets \o <<m>>, p) <=> NoFin(packets, p)
  <2> HIDE DEF g, o, n, m
  <2> QED BY <1>1, <1>5, <1>9, <1>10, <1>11, DataThere
<1>13. Chain(packets', guest', outside') /\ Others(packets, packets', p) /\ NoFin(packets', p)
  BY <1>1, <1>8, <1>12
<1> QED
  BY <1>1, <1>7, <1>8, <1>9, <1>13, PollStep

(* The guest is told that the connection is there.                         *)
LEMMA OpenStep ==
    ASSUME NatInv, NEW i \in Slots, NEW p, NEW c, Polled(i, p, c), Set(i, c),
           Queue(Opening(tcp_connections[i])), outside' = outside, guest' = guest
    PROVE  NatInv'
<1> DEFINE o == outside[p]
<1>1. /\ p \in Ports /\ InUse(tcp_connections, p, i)
      /\ PortOK(guest[p], o) /\ ~guest[p].fin
      /\ c \in Connections /\ c.port = p /\ ~Disconnected(c)
      /\ Len(c.incoming_buf) <= MaxSegment /\ Synced(c, guest[p], o)
  BY PolledFacts
<1>2. Becomes(tcp_connections, tcp_connections', i, c) /\ Becomes(outside, outside', p, o)
  BY DEF Becomes, Set
<1>3. o.read <= o.read
  BY <1>1, SocketType DEF PortOK
<1>4. LET pk1 == packets \o Opening(tcp_connections[i])
      IN  Chain(pk1, guest', outside') /\ Others(packets, pk1, p) /\ NoFin(pk1, p)
  BY <1>1, <1>2, <1>3, PolledChain
<1>5. Chain(packets', guest', outside') /\ Others(packets, packets', p) /\ NoFin(packets', p)
  BY <1>4 DEF Queue
<1> QED
  BY <1>1, <1>2, <1>5, PollStep

(* The socket reports an error.                                            *)
LEMMA RefusedStep ==
    ASSUME NatInv, NEW i \in Slots, Refused(i), Clean(tcp_connections[i].port), guest' = guest
    PROVE  NatInv'
<1> DEFINE c == tcp_connections[i]
           p == c.port
           o == outside[p]
           d == [c EXCEPT !.state = "DISCONNECTED"]
           o1 == [o EXCEPT !.broken = TRUE]
<1>1. /\ Polled(i, p, Opened(c)) /\ Set(i, d) /\ packets' = packets
      /\ outside' = [outside EXCEPT ![p].broken = TRUE]
  BY DEF Refused, Polled
<1>2. /\ p \in Ports /\ InUse(tcp_connections, p, i)
      /\ PortOK(guest[p], o) /\ ~guest[p].fin
  <2> DEFINE e == Opened(c)
             q == p
  <2>1. Polled(i, q, e)
    BY <1>1
  <2> HIDE DEF e, q
  <2> QED BY <2>1, PolledFacts DEF q
<1>3. SlotOK(c, guest[p], o, packets) /\ p \in DOMAIN outside /\ c \in Connections
  BY <1>2, AtSlot
<1>4. /\ d \in Connections /\ d.port = p /\ d.state = "DISCONNECTED"
      /\ d.outside_acknr = c.outside_acknr /\ d.outside_seqnr = c.outside_seqnr
      /\ d.incoming_buf = c.incoming_buf
  BY <1>3 DEF Connections, States
<1>5. Becomes(tcp_connections, tcp_connections', i, d) /\ Becomes(outside, outside', p, o1)
  BY <1>1, <1>3 DEF Becomes, Set
<1>6. /\ o1 \in Sockets /\ o1.iss = o.iss /\ o1.read = o.read /\ o1.got = o.got /\ o1.broken
      /\ o1.todo = o.todo
  BY <1>2 DEF PortOK, Sockets
<1> HIDE DEF o1, d
<1>7. PortOK(guest[p], o1) /\ InTime(guest[p], o1) /\ Disconnected(d)
  BY <1>2, <1>4, <1>6 DEF PortOK, Base, InTime, Disconnected
<1>8. Waiting(d, guest[p], o1, packets) \/ Synced(d, guest[p], o1)
  BY <1>3, <1>4, <1>6, <1>7 DEF SlotOK, Waiting, Synced, Base
<1>9. Chain(packets, guest', outside') /\ Others(packets, packets', p)
  <2>1. o.read <= o1.read
    BY <1>2, <1>6, SocketType DEF PortOK
  <2> DEFINE e == Opened(c)
             q == p
  <2>2. Polled(i, q, e)
    BY <1>1
  <2>3. Chain(packets, guest', outside')
    <3> HIDE DEF e
    <3> QED BY <1>5, <1>6, <1>7, <2>1, <2>2, PolledChain
  <2> QED BY <1>1, <2>3, OthersSame
<1>10. /\ Chain(packets', guest', outside') /\ Len(d.incoming_buf) <= MaxSegment
       /\ Waiting(d, guest[p], o1, packets') \/ Synced(d, guest[p], o1)
  BY <1>1, <1>3, <1>4, <1>8, <1>9 DEF SlotOK
<1> QED
  BY <1>2, <1>4, <1>5, <1>7, <1>9, <1>10, PollStep

(* The slot with the octets that have just been read, and sent.            *)
ReadOn(o, o1, n) == \E early \in BOOLEAN: o1 = [o EXCEPT !.read = @ + n, !.early = early]

LEMMA ReadSlot ==
    ASSUME NEW c \in Connections, NEW g, NEW o, PortOK(g, o), Synced(c, g, o), ~Disconnected(c), ~g.fin,
           BufferOK(c, g, o), c.incoming_buf = <<>>, NEW n \in 1..MaxSegment, NEW o1,
           ReadOn(o, o1, n), NEW data, data = UpTo(o1.read, n)
    PROVE  LET d == Sent(Buffered(c, data), data)
           IN  /\ PortOK(g, o1) /\ o1.iss = o.iss /\ o1.got = o.got /\ o.read <= o1.read
               /\ DataFrom(c, g, o1, n, Reply(c, FALSE, FALSE, data))
               /\ d \in Connections /\ d.port = c.port /\ ~Disconnected(d)
               /\ Len(d.incoming_buf) <= MaxSegment /\ Synced(d, g, o1)
<1> DEFINE b == Buffered(c, data)
           d == Sent(b, data)
<1>1. /\ g \in Guests /\ o \in Sockets /\ o.read \in Nat /\ Len(g.got) \in Nat /\ n \in Nat
      /\ MaxSegment \in Nat /\ n > 0 /\ n <= MaxSegment
  BY GuestType, SocketType, Bounds DEF PortOK
<1>2. /\ o1 \in Sockets /\ o1.read = o.read + n /\ o1.iss = o.iss /\ o1.got = o.got
      /\ o1.todo = o.todo /\ o1.broken = o.broken
  <2> DEFINE k == o.read + n
  <2>0. PICK early \in BOOLEAN: o1 = [o EXCEPT !.read = @ + n, !.early = early]
    BY DEF ReadOn
  <2>1. k \in Nat /\ o1 = [o EXCEPT !.read = k, !.early = early]
    BY <1>1, <2>0
  <2> HIDE DEF k
  <2>2. o1 \in Sockets /\ o1.read = k
    BY <1>1, <2>1 DEF Sockets
  <2>3. o1.iss = o.iss /\ o1.got = o.got /\ o1.todo = o.todo /\ o1.broken = o.broken
    BY <1>1, <2>1 DEF Sockets
  <2> QED BY <2>2, <2>3 DEF k
<1>3. Len(c.incoming_buf) = 0
  OBVIOUS
<1>4. o.read = Len(g.got)
  <2>1. o.read - Len(c.incoming_buf) <= Len(g.got) /\ Len(g.got) <= o.read
    BY DEF BufferOK, PortOK
  <2> QED BY <1>1, <1>3, <2>1
<1>5. data \in Seq(Nat) /\ Len(data) = n
  <2>1. o1.read \in Nat /\ n \in 0..o1.read
    BY <1>1, <1>2
  <2> QED BY <2>1, UpToSeq
<1>6. /\ c.outside_seqnr = Plus(Base(o), o.read) /\ c.outside_acknr = SeqOut(Len(o.got))
      /\ c.outside_seqnr \in 0..W - 1
  BY DEF Synced, Connections
<1>7. Plus(c.outside_seqnr, n) = Plus(Base(o), o.read + n) /\ Plus(c.outside_seqnr, n) \in 0..W - 1
  <2>1. o.read \in Int /\ n \in Int /\ o.read + n \in Int
    BY <1>1
  <2>2. Plus(Plus(Base(o), o.read), n) = Plus(Base(o), o.read + n)
    BY <1>1, <2>1, NumbersFollow
  <2>3. Plus(Base(o), o.read + n) \in 0..W - 1
    BY <1>1, <2>1, BaseType
  <2> QED BY <1>6, <2>2, <2>3
<1>8. Base(o1) = Base(o)
  BY <1>2 DEF Base
<1>9. /\ b \in Connections /\ b.port = c.port /\ b.state = c.state
      /\ b.outside_acknr = c.outside_acknr /\ b.outside_seqnr = c.outside_seqnr
      /\ b.incoming_buf = data /\ b.incoming_buf_seqnr = c.outside_seqnr
  <2>1. 0 \in 0..ResendRounds
    BY Bounds
  <2> QED BY <1>5, <2>1 DEF Connections, Buffered
<1> HIDE DEF b
<1>10. /\ d \in Connections /\ d.port = c.port /\ d.state = c.state
       /\ d.outside_acknr = c.outside_acknr /\ d.outside_seqnr = Plus(Base(o), o.read + n)
       /\ d.incoming_buf = data /\ d.incoming_buf_seqnr = c.outside_seqnr
  BY <1>5, <1>7, <1>9 DEF Connections, Sent
<1> HIDE DEF d
<1>11. o1.read - n = o.read /\ n <= o1.read /\ o.read <= o1.read
  BY <1>1, <1>2
<1>12. PortOK(g, o1)
  <2>1. Len(g.got) <= o1.read /\ o1.read <= Len(g.got) + MaxSegment
    BY <1>1, <1>2, <1>4
  <2> QED BY <1>2, <1>4, <1>8, <2>1 DEF PortOK
<1>13. BufferOK(d, g, o1)
  BY <1>4, <1>5, <1>6, <1>8, <1>10, <1>11 DEF BufferOK
<1>14. Synced(d, g, o1)
  BY <1>2, <1>6, <1>8, <1>10, <1>13 DEF Synced
<1>15. DataFrom(c, g, o1, n, Reply(c, FALSE, FALSE, data))
  BY <1>2, <1>4, <1>6, <1>8, <1>11 DEF DataFrom
<1>16. ~Disconnected(d) /\ Len(d.incoming_buf) <= MaxSegment
  BY <1>1, <1>5, <1>10 DEF Disconnected
<1> QED
  BY <1>2, <1>10, <1>11, <1>12, <1>14, <1>15, <1>16 DEF b, d

(* The socket is read.                                                     *)
LEMMA ReadStep ==
    ASSUME NatInv, NEW i \in Slots, NEW p, NEW c, Polled(i, p, c), GuestReady(c),
           NEW n \in 1..MaxSegment, NEW data, data = NextData(p, n),
           Set(i, Sent(Buffered(c, data), data)),
           Queue(Opening(tcp_connections[i]) \o <<Reply(c, FALSE, FALSE, data)>>),
           NEW early \in BOOLEAN,
           outside' = [outside EXCEPT ![p].read = @ + n, ![p].early = early], guest' = guest
    PROVE  NatInv'
<1> DEFINE d == Sent(Buffered(c, data), data)
           g == guest[p]
           o == outside[p]
           o1 == [o EXCEPT !.read = @ + n, !.early = early]
           s == Opening(tcp_connections[i])
           m == Reply(c, FALSE, FALSE, data)
           pk1 == packets \o s
<1>1. /\ p \in Ports /\ InUse(tcp_connections, p, i)
      /\ PortOK(g, o) /\ ~g.fin /\ NoFin(packets, p)
      /\ c \in Connections /\ c.port = p /\ ~Disconnected(c)
      /\ Synced(c, g, o) /\ BufferOK(c, g, o)
  BY PolledFacts, ZenonT(30)
<1>0. Clean(p)
  BY DEF Polled
<1>2. p \in DOMAIN outside /\ packets \in Seq(Segments) /\ o \in Sockets /\ o.read \in Nat /\ n \in Nat
  BY <1>0, <1>1, AtPort, SocketType, Bounds DEF PortOK
<1>3. Becomes(tcp_connections, tcp_connections', i, d) /\ Becomes(outside, outside', p, o1)
  BY <1>2 DEF Becomes, Set
<1>4. packets' = packets \o (s \o <<m>>)
  BY DEF Queue
<1>5. o1.read = o.read + n
  BY <1>2 DEF Sockets
<1>6. data = UpTo(o1.read, n)
  <2> HIDE DEF o1
  <2>1. \A k \in 1..n: o.read + k = o1.read - n + k
    BY <1>2, <1>5
  <2>2. [k \in 1..n |-> o.read + k] = [k \in 1..n |-> o1.read - n + k]
    BY <2>1, Zenon
  <2> QED BY <2>2, Zenon DEF NextData, UpTo
<1>7. c.incoming_buf = <<>>
  BY DEF GuestReady
<1>8. /\ PortOK(g, o1) /\ o1.iss = o.iss /\ o1.got = o.got /\ o.read <= o1.read
      /\ DataFrom(c, g, o1, n, m)
      /\ d \in Connections /\ d.port = c.port /\ ~Disconnected(d)
      /\ Len(d.incoming_buf) <= MaxSegment /\ Synced(d, g, o1)
  <2>1. ReadOn(o, o1, n)
    BY DEF ReadOn
  <2> HIDE DEF g, o, o1
  <2> QED BY <1>1, <1>6, <1>7, <2>1, ReadSlot
<1> HIDE DEF o1, m, d
<1>9. /\ s \in Seq(Segments) /\ Chain(pk1, guest', outside') /\ Others(packets, pk1, p)
      /\ NoFin(pk1, p) /\ guest'[p] = g /\ outside'[p] = o1
  BY <1>3, <1>8, PolledChain, ZenonT(30)
<1> HIDE DEF g, o, s, pk1
<1>10. /\ m \in Segments /\ Chain(pk1 \o <<m>>, guest', outside') /\ Others(pk1, pk1 \o <<m>>, p)
       /\ NoFin(pk1 \o <<m>>, p)
  BY <1>1, <1>8, <1>9, DataThere
<1>11. packets' = pk1 \o <<m>>
  <2>1. packets \o (s \o <<m>>) = (packets \o s) \o <<m>>
    BY <1>2, <1>9, <1>10, QueueLast
  <2> QED BY <1>4, <2>1 DEF pk1
<1>12. Others(packets, pk1 \o <<m>>, p)
  BY <1>9, <1>10, OthersTwice
<1>13. Chain(packets', guest', outside') /\ Others(packets, packets', p) /\ NoFin(packets', p)
  BY <1>10, <1>11, <1>12
<1> QED
  BY <1>1, <1>3, <1>8, <1>13, PollStep DEF g

(* The outside ends the connection.                                        *)
LEMMA EndedStep ==
    ASSUME NatInv, NEW i \in Slots, NEW p, NEW c, Polled(i, p, c),
           NEW d, d = [c EXCEPT !.state = "DISCONNECTED"], Set(i, d),
           Queue(Opening(tcp_connections[i]) \o <<Ack(d)>>),
           NEW broken \in BOOLEAN, Unread(p) = 0 \/ broken,
           NEW early \in BOOLEAN,
           outside' = [outside EXCEPT ![p].broken = broken, ![p].early = early], guest' = guest
    PROVE  NatInv'
<1> DEFINE g == guest[p]
           o == outside[p]
           o1 == [o EXCEPT !.broken = broken, !.early = early]
           s == Opening(tcp_connections[i])
           m == Ack(d)
           pk1 == packets \o s
<1>1. /\ p \in Ports /\ InUse(tcp_connections, p, i)
      /\ PortOK(g, o) /\ ~g.fin
      /\ c \in Connections /\ c.port = p /\ Synced(c, g, o)
      /\ Len(c.incoming_buf) <= MaxSegment
  BY PolledFacts, ZenonT(30)
<1>0. Clean(p)
  BY DEF Polled
<1>2. /\ p \in DOMAIN outside /\ packets \in Seq(Segments) /\ o \in Sockets /\ o.read \in Nat
      /\ o.todo \in Nat
  BY <1>0, <1>1, AtPort, SocketType DEF PortOK
<1>3. Becomes(tcp_connections, tcp_connections', i, d) /\ Becomes(outside, outside', p, o1)
  BY <1>2 DEF Becomes, Set
<1>4. packets' = packets \o (s \o <<m>>)
  BY DEF Queue
<1>5. /\ o1 \in Sockets /\ o1.iss = o.iss /\ o1.read = o.read /\ o1.got = o.got
      /\ o1.broken = broken /\ o1.todo = o.todo
  BY <1>2 DEF Sockets
<1>6. /\ d \in Connections /\ d.port = c.port /\ Disconnected(d)
      /\ d.incoming_buf = c.incoming_buf /\ Synced(d, g, o)
  BY <1>1, DeadSlot
<1> HIDE DEF o1
<1>7. PortOK(g, o1) /\ Synced(d, g, o1) /\ o.read <= o1.read
  BY <1>1, <1>2, <1>5, <1>6 DEF PortOK, Synced, BufferOK, Base
<1>8. InTime(g, o1)
  BY <1>2, <1>5 DEF InTime, Unread
<1>9. /\ s \in Seq(Segments) /\ Chain(pk1, guest', outside') /\ Others(packets, pk1, p)
      /\ guest'[p] = g /\ outside'[p] = o1
  BY <1>3, <1>5, <1>7, PolledChain, ZenonT(30)
<1>10. m \in Segments
  <2>1. <<>> \in Seq(Nat) /\ FALSE \in BOOLEAN
    OBVIOUS
  <2> QED BY <1>6, <2>1, ReplyType, Zenon DEF Ack
<1>11. Answer(pk1, pk1 \o <<m>>, d)
  BY DEF Answer, Ack
<1> HIDE DEF g, o, s, pk1, m
<1>12. packets' = pk1 \o <<m>>
  <2>1. packets \o (s \o <<m>>) = (packets \o s) \o <<m>>
    BY <1>2, <1>9, <1>10, QueueLast
  <2> QED BY <1>4, <2>1 DEF pk1
<1>13. Chain(packets', guest', outside') /\ Others(pk1, packets', p)
  <2> DEFINE gs == guest'
             os == outside'
             pk2 == packets'
  <2>1. /\ Chain(pk1, gs, os) /\ PortOK(gs[p], os[p]) /\ Answer(pk1, pk2, d)
        /\ d.outside_acknr = SeqOut(Len(os[p].got))
        /\ d.outside_seqnr = Plus(Base(os[p]), os[p].read)
    BY <1>7, <1>9, <1>11, <1>12 DEF Synced
  <2>2. Chain(pk2, gs, os) /\ Others(pk1, pk2, p)
    <3> HIDE DEF gs, os, pk2
    <3> QED BY <1>1, <1>6, <2>1, Answered
  <2> QED BY <2>2
<1>14. Others(packets, packets', p)
  <2> DEFINE pk2 == packets'
  <2>1. Others(pk1, pk2, p)
    BY <1>13
  <2> HIDE DEF pk2
  <2>2. Others(packets, pk2, p)
    BY <1>9, <2>1, OthersTwice
  <2> QED BY <2>2 DEF pk2
<1>15. PortOK(guest[p], o1) /\ ~guest[p].fin /\ Synced(d, guest[p], o1) /\ InTime(guest[p], o1)
  BY <1>1, <1>7, <1>8 DEF g
<1>16. Len(d.incoming_buf) <= MaxSegment /\ d.port = p
  BY <1>1, <1>6
<1> QED
  BY <1>1, <1>3, <1>6, <1>13, <1>14, <1>15, <1>16, PollStep

LEMMA CleanPoll ==
    ASSUME NatInv, NEW i \in Slots, NEW p, NEW c, Polled(i, p, c), NEW s,
           s = Opening(tcp_connections[i]), Serve(i, c, s), guest' = guest
    PROVE  NatInv'
<1>1. /\ p \in Ports /\ InUse(tcp_connections, p, i) /\ c.port = p /\ Clean(p)
      /\ c \in Connections
  BY PolledFacts DEF Polled
<1>2. packets \in Seq(Segments) /\ outside[p] \in Sockets
  BY <1>1, AtPort DEF PortOK
<1>3. ASSUME c.incoming_buf # <<>> PROVE s = <<>>
  <2> DEFINE b == tcp_connections[i]
  <2>1. SlotOK(b, guest[p], outside[p], packets) /\ b \in Connections
    BY <1>1, AtSlot
  <2>2. b.state = "TRYINGTOCONNECT" => b.incoming_buf = <<>>
    BY <2>1 DEF SlotOK, Waiting, Synced
  <2>3. c = Opened(b) /\ s = Opening(b)
    BY DEF Polled
  <2>4. Opened(b).incoming_buf = b.incoming_buf
    BY <2>1 DEF Opened, Connections
  <2>5. b.state # "TRYINGTOCONNECT"
    BY <1>3, <2>2, <2>3, <2>4
  <2> QED BY <2>3, <2>5 DEF Opening
<1>4. CASE /\ c.incoming_buf # <<>> /\ c.incoming_buf_rounds < ResendRounds
           /\ Set(i, [c EXCEPT !.incoming_buf_rounds = @ + 1])
           /\ Queue(s) /\ outside' = outside
  <2>1. packets' = packets
    BY <1>2, <1>3, <1>4 DEF Queue
  <2> QED BY <1>4, <2>1, CountStep
<1>5. CASE /\ c.incoming_buf # <<>>
           /\ Set(i, Sent(Resent(c), c.incoming_buf))
           /\ Queue(s \o <<Reply(Resent(c), FALSE, FALSE, c.incoming_buf)>>)
           /\ outside' = outside
  <2> DEFINE m == Reply(Resent(c), FALSE, FALSE, c.incoming_buf)
  <2>1. <<>> \o <<m>> = <<m>>
    <3> HIDE DEF m
    <3> QED OBVIOUS
  <2>2. Queue(<<m>>)
    <3>1. s \o <<m>> = <<m>>
      BY <1>3, <1>5, <2>1
    <3> QED BY <1>5, <3>1 DEF Queue
  <2> QED BY <1>5, <2>2, ResendStep
<1>6. ASSUME GuestReady(c), NEW n \in 1..MaxSegment, NEW data, data = NextData(p, n),
             Set(i, Sent(Buffered(c, data), data)),
             Queue(s \o <<Reply(c, FALSE, FALSE, data)>>),
             outside' = [outside EXCEPT ![p].read = @ + n, ![p].early = @ \/ Unopened(c)]
      PROVE  NatInv'
  <2> DEFINE early == outside[p].early \/ Unopened(c)
  <2>1. early \in BOOLEAN
    OBVIOUS
  <2>2. outside' = [outside EXCEPT ![p].read = @ + n, ![p].early = early]
    BY <1>6
  <2>3. Queue(Opening(tcp_connections[i]) \o <<Reply(c, FALSE, FALSE, data)>>)
    BY <1>6, Zenon
  <2> HIDE DEF early
  <2>4. GuestReady(c) /\ data = NextData(p, n) /\ Set(i, Sent(Buffered(c, data), data))
    BY <1>6, Zenon
  <2> QED BY <2>1, <2>2, <2>3, <2>4, ReadStep, Zenon
<1>7. CASE Set(i, c) /\ Queue(s) /\ outside' = outside
  BY <1>7, OpenStep
<1> QED
  BY <1>1, <1>4, <1>5, <1>6, <1>7 DEF Serve

LEMMA CleanOver ==
    ASSUME NatInv, NEW i \in Slots, NEW p, NEW c, Polled(i, p, c), NEW s,
           s = Opening(tcp_connections[i]), Over(i, c, s), guest' = guest
    PROVE  NatInv'
<1>1. c.port = p
  BY PolledFacts
<1> DEFINE d == [c EXCEPT !.state = "DISCONNECTED"]
           early == outside[p].early \/ Unopened(c)
<1>2. early \in BOOLEAN
  OBVIOUS
<1>3. PICK broken \in BOOLEAN:
          /\ Unread(p) = 0 \/ broken
          /\ outside' = [outside EXCEPT ![p].broken = broken, ![p].early = early]
  BY <1>1 DEF Over
<1>4. Set(i, d) /\ Queue(s \o <<Ack(d)>>)
  BY DEF Over
<1> HIDE DEF early, d
<1> QED
  BY <1>2, <1>3, <1>4, EndedStep DEF d

-----------------------------------------------------------------------------
(* The guest receives a segment.                                           *)

(* The octets of a segment that come next.                                 *)
LEMMA FreshOK ==
    ASSUME NEW g, NEW o, PortOK(g, o), Alive(g), NEW m \in Segments, NEW a \in Nat, NEW e \in Nat,
           SegmentOK(m, a, e, g, o)
    PROVE  \E j \in Nat: Len(g.got) + j <= e /\ Fresh(g, m) = UpTo(Len(g.got) + j, j)
<1> DEFINE n == Len(m.data)
           k == Len(g.got)
           x == Base(o)
           r == (SeqIn(g) - m.seq) % W
<1>1. /\ g \in Guests /\ o \in Sockets /\ n \in Nat /\ k \in Nat /\ x \in Int
      /\ MaxSegment \in Nat /\ MaxSegment < W /\ W \in Nat \ {0} /\ m.seq \in Int
  <2>1. g \in Guests /\ o \in Sockets
    BY DEF PortOK
  <2>2. x \in Int
    BY <2>1, BaseType, 0 \in Int, Zenon
  <2>3. m.seq \in 0..W - 1
    BY SegmentType
  <2> QED BY <2>1, <2>2, <2>3, GuestType, SegmentType, Bounds
<1>2. /\ k <= e /\ n <= e /\ n <= MaxSegment /\ m.data = UpTo(e, n) /\ m.seq = Plus(x, e - n)
      /\ n > 0 => e - n <= k
  BY DEF SegmentOK
<1>3. SeqIn(g) = Plus(x, k)
  BY DEF SeqIn, PortOK
<1>4. Fresh(g, m) = SubSeq(m.data, r + 1, n)
  BY DEF Fresh
<1>5. CASE n > 0
  <2> HIDE DEF n, k, x
  <2>1. e - n \in Int /\ e - n <= k /\ k - (e - n) < W /\ k - (e - n) \in 0..n
    BY <1>1, <1>2, <1>5
  <2>2. r = k - (e - n)
    <3>1. (Plus(x, k) - Plus(x, e - n)) % W = k - (e - n)
      <4>1. k \in Int
        BY <1>1
      <4> QED BY <1>1, <2>1, <4>1, Ahead
    <3> QED BY <1>2, <1>3, <3>1
  <2> HIDE DEF r
  <2>3. /\ r + 1 \in Nat \ {0} /\ n \in 0..e /\ n \in 0..n /\ r + 1 <= n + 1
        /\ e - n + n = k + (e - k) /\ n - (r + 1) + 1 = e - k /\ e - k \in Nat /\ k + (e - k) <= e
    BY <1>1, <1>2, <2>1, <2>2
  <2>4. SubSeq(UpTo(e, n), r + 1, n) = UpTo(e - n + n, n - (r + 1) + 1)
    BY <2>3, PartOf
  <2>5. Fresh(g, m) = UpTo(k + (e - k), e - k)
    BY <1>2, <1>4, <2>3, <2>4
  <2> QED BY <2>3, <2>5 DEF k
<1>6. CASE n = 0
  <2>1. r \in Nat
    <3>1. SeqIn(g) - m.seq \in Int
      <4>1. k \in Int
        BY <1>1
      <4>2. Plus(x, k) \in Int
        BY <1>1, <4>1, PlusType
      <4> QED BY <1>1, <1>3, <4>2
    <3> DEFINE y == SeqIn(g) - m.seq
    <3>2. y \in Int /\ r = (y % W)
      BY <3>1
    <3> HIDE DEF y, r
    <3>3. (y % W) \in 0..W - 1
      BY <1>1, <3>2, Remainder
    <3> QED BY <1>1, <3>2, <3>3
  <2> HIDE DEF r
  <2>2. m.data = <<>>
    BY <1>6, SegmentType
  <2>3. SubSeq(m.data, r + 1, n) = <<>>
    BY <1>6, <2>1, <2>2
  <2> HIDE DEF k, n
  <2>4. k + 0 <= e /\ k + 0 \in Nat /\ 0 \in 0..(k + 0) /\ 0 \in Nat
    BY <1>1, <1>2
  <2>5. UpTo(k + 0, 0) = <<>>
    BY <2>4, UpToSeq, Zenon
  <2>6. Fresh(g, m) = UpTo(k + 0, 0)
    BY <1>4, <2>3, <2>5 DEF n
  <2> QED BY <2>4, <2>6 DEF k
<1> QED
  BY <1>1, <1>5, <1>6

(* What the guest takes: the next octets, up to the last of the segment.   *)
Taking(g, m, e, data) ==
    Alive(g) /\ ~m.syn => \E k \in Nat: Len(g.got) + k <= e /\ data = UpTo(Len(g.got) + k, k)

LEMMA TakingAll ==
    ASSUME NEW g, NEW o, PortOK(g, o), NEW m \in Segments, NEW a \in Nat, NEW e \in Nat,
           PacketOK(m, a, e, g, o)
    PROVE  /\ Taking(g, m, e, Fresh(g, m))
           /\ \A n \in 1..Len(Fresh(g, m)) - 1: Taking(g, m, e, SubSeq(Fresh(g, m), 1, n))
<1> SUFFICES ASSUME Alive(g), ~m.syn
             PROVE  /\ Taking(g, m, e, Fresh(g, m))
                    /\ \A n \in 1..Len(Fresh(g, m)) - 1:
                           Taking(g, m, e, SubSeq(Fresh(g, m), 1, n))
  BY DEF Taking
<1> DEFINE k == Len(g.got)
           f == Fresh(g, m)
<1>1. SegmentOK(m, a, e, g, o)
  BY DEF PacketOK
<1>2. PICK j \in Nat: k + j <= e /\ f = UpTo(k + j, j)
  BY <1>1, FreshOK
<1>3. k \in Nat
  BY GuestType DEF PortOK
<1> HIDE DEF k, f
<1>4. k + j \in Nat /\ j \in 0..(k + j)
  BY <1>2, <1>3
<1>5. Len(f) = j
  BY <1>2, <1>4, UpToSeq
<1>6. ASSUME NEW n \in 1..Len(f) - 1
      PROVE  /\ n \in Nat /\ k + n <= e /\ SubSeq(f, 1, n) = UpTo(k + n, n)
  <2> DEFINE i == 1
  <2>1. i \in Nat \ {0} /\ n \in 0..j /\ i <= n + 1
    BY <1>2, <1>5, <1>6
  <2> DEFINE end == k + j
  <2>2. n \in Nat /\ k + n <= e /\ end - j + n = k + n /\ n - i + 1 = n
    BY <1>2, <1>3, <1>5, <1>6
  <2>3. end \in Nat /\ j \in 0..end /\ f = UpTo(end, j)
    BY <1>2, <1>4
  <2> HIDE DEF i, end
  <2>4. SubSeq(UpTo(end, j), i, n) = UpTo(end - j + n, n - i + 1)
    BY <2>1, <2>3, PartOf
  <2>5. SubSeq(f, i, n) = UpTo(k + n, n)
    BY <2>2, <2>3, <2>4
  <2> QED BY <2>2, <2>5 DEF i
<1>7. Taking(g, m, e, f)
  BY <1>2 DEF Taking, k
<1>8. \A n \in 1..Len(f) - 1: Taking(g, m, e, SubSeq(f, 1, n))
  BY <1>6 DEF Taking, k
<1> QED
  BY <1>7, <1>8 DEF f

(* What the guest learns is acknowledged.                                  *)
LEMMA UnaIs ==
    ASSUME NEW g, NEW o, PortOK(g, o), NEW m, NEW a \in Nat, NEW e, SegmentOK(m, a, e, g, o)
    PROVE  Una(g, m) = a
<1> DEFINE u == g.una
<1>1. /\ u \in Nat /\ g.nxt \in Nat /\ Len(o.got) \in Nat /\ Window \in Nat /\ Window < W /\ W \in Nat
      /\ GuestIss \in Int
  BY GuestType, SocketType, Bounds DEF PortOK
<1>2. u <= a /\ a <= Len(o.got) /\ Len(o.got) <= g.nxt /\ g.nxt <= u + Window /\ m.ack = SeqOut(a)
  BY DEF PortOK, SegmentOK
<1> HIDE DEF u
<1>3. (SeqOut(a) - SeqOut(u)) % W = a - u
  <2>1. u + 1 \in Int /\ a + 1 \in Int /\ u + 1 <= a + 1 /\ (a + 1) - (u + 1) < W
    BY <1>1, <1>2
  <2>2. (Plus(GuestIss, a + 1) - Plus(GuestIss, u + 1)) % W = (a + 1) - (u + 1)
    BY <1>1, <2>1, Ahead
  <2>3. (a + 1) - (u + 1) = a - u
    BY <1>1
  <2> QED BY <2>2, <2>3 DEF SeqOut
<1>4. a - u <= g.nxt - u /\ u + (a - u) = a
  BY <1>1, <1>2
<1> DEFINE n == (m.ack - SeqOut(u)) % W
<1>5. n = a - u
  BY <1>2, <1>3
<1>6. Una(g, m) = IF n <= g.nxt - u THEN u + n ELSE u
  BY DEF Una, u
<1> HIDE DEF n
<1> QED
  BY <1>4, <1>5, <1>6

(* The guest's end after a segment.                                        *)
Handled(g, g1, m, a, e, o) ==
    /\ PortOK(g1, o) /\ Advance(g, g1, m, a, e) /\ Len(g.got) <= Len(g1.got)
    /\ g1.fin => g.fin \/ m.fin
    /\ InTime(g, o) => InTime(g1, o)
    /\ Early(g1) => Early(g)

LEMMA HandledSame ==
    ASSUME NEW g, NEW o, PortOK(g, o), NEW m, NEW a, NEW e
    PROVE  Handled(g, g, m, a, e, o)
<1>1. Len(g.got) \in Nat
  BY GuestType DEF PortOK
<1> QED
  BY <1>1 DEF Handled, Advance

LEMMA TakenOK ==
    ASSUME NEW g, NEW o, PortOK(g, o), Alive(g), NEW m \in Segments, NEW a \in Nat, NEW e \in Nat,
           ~m.syn, SegmentOK(m, a, e, g, o), NEW k \in Nat, Len(g.got) + k <= e,
           NEW data, data = UpTo(Len(g.got) + k, k)
    PROVE  Handled(g, Taken(g, m, data), m, a, e, o)
<1> DEFINE new == [g EXCEPT !.una = Una(g, m), !.got = @ \o data]
           g1 == Taken(g, m, data)
           in == Len(g.got)
           end == in + k
           x == Base(o)
<1>1. /\ g \in Guests /\ o \in Sockets /\ in \in Nat /\ o.read \in Nat /\ g.una \in Nat /\ g.nxt \in Nat
      /\ Len(o.got) \in Nat /\ x \in Int /\ MaxSegment \in Nat /\ MaxSegment < W /\ Window \in Nat
      /\ W \in Nat
  <2>1. g \in Guests /\ o \in Sockets
    BY DEF PortOK
  <2>2. x \in Int
    BY <2>1, BaseType, 0 \in Int, Zenon
  <2> QED BY <2>1, <2>2, GuestType, SocketType, Bounds
<1>2. end \in Nat /\ in <= end /\ end - in = k /\ end <= e
  BY <1>1
<1>3. g.got \o data = First(end)
  <2>1. g.got = First(in)
    BY DEF PortOK
  <2> HIDE DEF in, end
  <2>2. First(in) \o UpTo(end, end - in) = First(end)
    BY <1>1, <1>2, Join
  <2>3. data = UpTo(end, end - in)
    BY <1>2 DEF end, in
  <2> QED BY <2>1, <2>2, <2>3
<1>4. First(end) \in Seq(Nat) /\ Len(First(end)) = end
  BY <1>2, FirstSeq
<1>5. Una(g, m) = a
  BY UnaIs
<1> HIDE DEF in, end, x
<1>6. /\ new \in Guests /\ new.una = a /\ new.got = First(end) /\ new.fin = g.fin /\ new.st = g.st
      /\ new.nxt = g.nxt /\ new.irs = g.irs /\ new.todo = g.todo /\ new.ack_due = g.ack_due
  BY <1>1, <1>3, <1>4, <1>5 DEF Guests
<1> DEFINE f == m.fin /\ Plus(m.seq, Len(m.data)) = SeqIn(new)
<1>7. g1 = [new EXCEPT !.fin = @ \/ f, !.ack_due = @ \/ m.fin \/ m.data # <<>>]
  BY DEF Taken
<1>8. f => end = o.read /\ m.fin
  <2> SUFFICES ASSUME f PROVE end = o.read /\ m.fin
    OBVIOUS
  <2>1. m.fin /\ Len(m.data) = 0 /\ e = o.read /\ m.seq = Plus(x, e - Len(m.data))
    BY DEF SegmentOK, x
  <2>2. SeqIn(new) = Plus(x, end)
    BY <1>4, <1>6 DEF SeqIn, PortOK, x
  <2>3. Plus(m.seq, Len(m.data)) = Plus(x, e)
    <3> DEFINE n == Len(m.data)
    <3>1. n \in Int /\ e - n \in Int /\ e - n + n = e
      BY <2>1
    <3> HIDE DEF n
    <3>2. Plus(Plus(x, e - n), n) = Plus(x, e - n + n)
      BY <1>1, <3>1, PlusPlus
    <3>3. m.seq = Plus(x, e - n)
      BY <2>1 DEF n
    <3>4. Plus(m.seq, n) = Plus(x, e)
      BY <3>1, <3>2, <3>3
    <3> QED BY <3>4 DEF n
  <2>4. Plus(x, e) = Plus(x, end)
    BY <2>2, <2>3
  <2>5. e - end < W /\ end - e < W /\ e \in Int /\ end \in Int
    <3>1. o.read <= in + MaxSegment
      BY DEF PortOK, in
    <3>2. e <= in + MaxSegment /\ in <= end /\ end <= e
      BY <1>2, <2>1, <3>1
    <3> HIDE DEF f
    <3> QED BY <1>1, <1>2, <3>2
  <2>6. e = end
    BY <1>1, <2>4, <2>5, PlusInjective
  <2> QED BY <2>1, <2>6
<1>9. /\ g1 \in Guests /\ g1.una = a /\ g1.got = First(end) /\ g1.st = g.st
      /\ g1.nxt = g.nxt /\ g1.irs = g.irs /\ (g1.fin <=> g.fin \/ f)
  <2>1. f \in BOOLEAN /\ m.fin \in BOOLEAN /\ (m.data # <<>>) \in BOOLEAN
    BY DEF Segments
  <2> DEFINE b == m.data # <<>>
  <2> HIDE DEF f, new, b
  <2>2. g1 = [new EXCEPT !.fin = @ \/ f, !.ack_due = @ \/ m.fin \/ b]
    BY <1>7 DEF b
  <2> HIDE DEF g1
  <2>3. (new.fin \/ f) \in BOOLEAN /\ (new.ack_due \/ m.fin \/ b) \in BOOLEAN
    OBVIOUS
  <2>4. g1 \in Guests
    BY <1>6, <2>2, <2>3 DEF Guests
  <2>5. /\ g1.una = new.una /\ g1.got = new.got /\ g1.st = new.st
        /\ g1.nxt = new.nxt /\ g1.irs = new.irs /\ (g1.fin <=> new.fin \/ f)
    BY <1>6, <2>2 DEF Guests
  <2> QED BY <1>6, <2>4, <2>5
<1> HIDE DEF g1, new, f
<1>10. Len(g1.got) = end /\ Len(g.got) = in
  BY <1>4, <1>9 DEF in
<1>11. /\ g.una <= a /\ a <= Len(o.got) /\ e <= o.read
  BY DEF SegmentOK
<1>12. /\ g1.una <= Len(o.got) /\ g1.nxt <= g1.una + Window /\ end <= o.read
       /\ o.read <= end + MaxSegment /\ Len(o.got) <= g.nxt
  <2>1. g.nxt <= g.una + Window /\ o.read <= in + MaxSegment /\ Len(o.got) <= g.nxt
    BY DEF PortOK, in
  <2> QED BY <1>1, <1>2, <1>9, <1>11, <2>1, SMTT(40)
<1>13. g1.fin => end = o.read
  <2>1. g.fin => in = o.read
    BY DEF PortOK, in
  <2> QED BY <1>1, <1>2, <1>8, <1>9, <1>12, <2>1
<1>14. Alive(g1) /\ ~Early(g1) /\ g1.irs = Base(o)
  BY <1>9 DEF Alive, Early, PortOK
<1>15. PortOK(g1, o)
  BY <1>1, <1>9, <1>10, <1>12, <1>13, <1>14 DEF PortOK
<1>16. Advance(g, g1, m, a, e)
  BY <1>2, <1>9, <1>10, <1>11 DEF Advance
<1>17. InTime(g, o) => InTime(g1, o)
  BY <1>9 DEF InTime
<1> QED
  BY <1>2, <1>8, <1>9, <1>10, <1>14, <1>15, <1>16, <1>17 DEF Handled, g1

LEMMA HandleOK ==
    ASSUME NEW g, NEW o, PortOK(g, o), NEW m \in Segments, NEW a \in Nat, NEW e \in Nat,
           PacketOK(m, a, e, g, o), NEW data, Taking(g, m, e, data)
    PROVE  Handled(g, Handle(g, m, data), m, a, e, o)
<1>1. g \in Guests /\ Len(g.got) \in Nat
  BY GuestType DEF PortOK
<1>2. CASE g.st = "syn_sent" /\ m.syn /\ m.ack = SeqOut(0)
  <2> DEFINE g1 == [g EXCEPT !.st = "established", !.irs = Plus(m.seq, 1), !.ack_due = TRUE]
  <2>1. m.seq = o.iss /\ o \in Sockets
    BY <1>2 DEF PacketOK, SynOK, PortOK
  <2>2. Plus(m.seq, 1) = Base(o) /\ Base(o) \in 0..W - 1
    BY <2>1, BaseType, 0 \in Int, Zenon DEF Base
  <2>3. Handle(g, m, data) = g1
    BY <1>2 DEF Handle
  <2>4. /\ g1 \in Guests /\ g1.st = "established" /\ g1.irs = Base(o) /\ g1.got = g.got
        /\ g1.una = g.una /\ g1.nxt = g.nxt /\ g1.fin = g.fin
    BY <1>1, <2>2 DEF Guests, Stages
  <2> HIDE DEF g1
  <2>5. Early(g) /\ ~Early(g1)
    BY <1>2, <2>4 DEF Early
  <2>6. PortOK(g1, o)
    BY <2>4, <2>5 DEF PortOK
  <2>7. Handled(g, g1, m, a, e, o)
    BY <1>1, <1>2, <2>4, <2>5, <2>6 DEF Handled, Advance, InTime
  <2> QED BY <2>3, <2>7
<1>3. CASE Alive(g) /\ ~m.syn
  <2>1. g.st # "syn_sent" /\ g.st \in {"established", "closing"}
    BY <1>3 DEF Alive
  <2>2. CASE m.rst
    <3> DEFINE g1 == [g EXCEPT !.st = "done"]
    <3>1. Handle(g, m, data) = g1
      BY <1>3, <2>1, <2>2 DEF Handle
    <3>2. /\ g1 \in Guests /\ g1.st = "done" /\ g1.irs = g.irs /\ g1.got = g.got
          /\ g1.una = g.una /\ g1.nxt = g.nxt /\ g1.fin = g.fin
      BY <1>1 DEF Guests, Stages
    <3> HIDE DEF g1
    <3>3. ~Early(g1) /\ ~Alive(g1)
      BY <3>2 DEF Early, Alive
    <3>4. PortOK(g1, o)
      BY <3>2, <3>3 DEF PortOK
    <3>5. Handled(g, g1, m, a, e, o)
      BY <1>1, <3>2, <3>3, <3>4 DEF Handled, Advance, InTime
    <3> QED BY <3>1, <3>5
  <2>3. CASE ~m.rst
    <3>1. Handle(g, m, data) = Taken(g, m, data)
      BY <1>3, <2>1, <2>3 DEF Handle
    <3>2. PICK k \in Nat: Len(g.got) + k <= e /\ data = UpTo(Len(g.got) + k, k)
      BY <1>3 DEF Taking
    <3>3. SegmentOK(m, a, e, g, o)
      BY <1>3 DEF PacketOK
    <3> QED BY <1>3, <3>1, <3>2, <3>3, TakenOK
  <2> QED BY <2>2, <2>3
<1>4. CASE ~(g.st = "syn_sent" /\ m.syn /\ m.ack = SeqOut(0)) /\ ~(Alive(g) /\ ~m.syn)
  <2>1. Handle(g, m, data) = g
    BY <1>4 DEF Handle, Alive
  <2> QED BY <2>1, HandledSame
<1> QED
  BY <1>2, <1>3, <1>4

(* The chain without its first segment.                                    *)
LEMMA TailFacts ==
    ASSUME NEW pk \in Seq(Segments), pk # <<>>, NEW p, p = Head(pk).port
    PROVE  /\ Others(pk, Tail(pk), p) /\ ~Quiet(pk, p)
           /\ NoFin(pk, p) => NoFin(Tail(pk), p) /\ ~Head(pk).fin
<1>1. Len(pk) \in Nat /\ Len(pk) > 0 /\ Head(pk) = pk[1]
  OBVIOUS
<1>2. /\ Len(Tail(pk)) = Len(pk) - 1
      /\ \A j \in 1..Len(pk) - 1: Tail(pk)[j] = pk[j + 1] /\ j + 1 \in 1..Len(pk)
  BY <1>1
<1>3. Others(pk, Tail(pk), p)
  BY <1>2 DEF Others
<1>4. 1 \in 1..Len(pk)
  BY <1>1
<1>5. ~Quiet(pk, p)
  BY <1>1, <1>4 DEF Quiet
<1>6. NoFin(pk, p) => NoFin(Tail(pk), p) /\ ~Head(pk).fin
  BY <1>1, <1>2, <1>4 DEF NoFin
<1> QED
  BY <1>3, <1>5, <1>6

LEMMA HandledStep ==
    ASSUME NatInv, packets # <<>>, packets' = Tail(packets),
           tcp_connections' = tcp_connections, outside' = outside,
           NEW m, m = Head(packets), NEW p, p = m.port, p \in Ports, Clean(p), NEW a, NEW e, NEW g1,
           Handled(guest[p], g1, m, a, e, outside[p]), Becomes(guest, guest', p, g1),
           Chain(Tail(packets), guest', outside)
    PROVE  NatInv'
<1> DEFINE g == guest[p]
           o == outside[p]
           pk1 == Tail(packets)
<1>1. /\ PortOK(g, o) /\ EndOK(g, o, packets, p) /\ packets \in Seq(Segments)
      /\ StartOK(tcp_connections, g, o, packets, p)
  BY AtPort
<1>2. /\ Others(packets, pk1, p) /\ ~Quiet(packets, p)
      /\ NoFin(packets, p) => NoFin(pk1, p) /\ ~m.fin
  BY <1>1, TailFacts
<1>3. /\ PortOK(g1, o) /\ Len(g.got) <= Len(g1.got) /\ (g1.fin => g.fin \/ m.fin)
      /\ InTime(g, o) => InTime(g1, o)
      /\ Early(g1) => Early(g)
  BY DEF Handled
<1>4. EndOK(g1, o, pk1, p)
  BY <1>1, <1>2, <1>3 DEF EndOK
<1>5. EndOK(g1, o, packets', p) /\ Others(packets, packets', p) /\ Chain(packets', guest', outside')
  BY <1>2, <1>4
<1>6. Becomes(outside, outside', p, o)
  BY DEF Becomes
<1>7. CASE \A i \in Slots: ~InUse(tcp_connections, p, i)
  <2>1. ~Early(g1)
    BY <1>1, <1>2, <1>3, <1>7 DEF StartOK
  <2> QED BY <1>3, <1>5, <1>7, <2>1, NoSlotStep
<1>8. ASSUME NEW i \in Slots, InUse(tcp_connections, p, i)
      PROVE  NatInv'
  <2> DEFINE c == tcp_connections[i]
  <2>1. SlotOK(c, g, o, packets) /\ c.port = p /\ c \in Connections
    BY <1>8, AtSlot
  <2>2. Becomes(tcp_connections, tcp_connections', i, c)
    BY DEF Becomes
  <2> HIDE DEF c
  <2>3. Synced(c, g, o)
    BY <1>2, <2>1 DEF SlotOK, Waiting
  <2>4. Synced(c, g1, o)
    <3>1. Len(g.got) \in Nat /\ Len(g1.got) \in Nat /\ o.read \in Nat
      BY <1>1, <1>3, GuestType, SocketType DEF PortOK
    <3>2. Len(c.incoming_buf) \in Nat
      BY <2>1 DEF Connections
    <3> HIDE DEF g, o
    <3>3. BufferOK(c, g, o) => BufferOK(c, g1, o)
      BY <1>3, <3>1, <3>2 DEF BufferOK
    <3> QED BY <2>3, <3>3 DEF Synced
  <2>5. SlotOK(c, g1, o, pk1)
    BY <1>2, <1>3, <2>1, <2>4 DEF SlotOK
  <2>6. SlotOK(c, g1, o, packets')
    BY <2>5
  <2> QED BY <1>3, <1>5, <1>6, <1>8, <2>1, <2>2, <2>6, SlotStep
<1> QED
  BY <1>7, <1>8

(* A segment leaves the chain: the guest gets all of it, some or nothing.  *)
LEMMA ReceivedStep ==
    ASSUME NatInv, packets # <<>>, packets' = Tail(packets),
           tcp_connections' = tcp_connections, outside' = outside,
           NEW m, m = Head(packets), Clean(m.port),
           \/ guest' = guest
           \/ guest' = [guest EXCEPT ![m.port] = Handle(@, m, Fresh(@, m))]
           \/ \E n \in 1..Len(Fresh(guest[m.port], m)) - 1:
                  guest' = [guest EXCEPT ![m.port] = Handle(@, m, SubSeq(Fresh(@, m), 1, n))]
    PROVE  NatInv'
<1> DEFINE p == m.port
           g == guest[p]
           o == outside[p]
<1>1. Chain(packets, guest, outside) /\ DOMAIN guest = Ports /\ DOMAIN outside = Ports
  BY DEF NatInv, Inv, PortsOK
<1>2. \A q \in Ports: guest[q] \in Guests
  BY DEF NatInv, Inv, PortsOK, PortIs
<1>3. PICK a, e \in Nat:
          /\ PacketOK(m, a, e, g, o)
          /\ \A gs1: Elsewhere(guest, gs1, p) /\ gs1[p] \in Guests
                    /\ Advance(g, gs1[p], m, a, e)
                    => Chain(Tail(packets), gs1, outside)
  <2>1. PICK a, e \in Nat:
            /\ PacketIs(m, a, e, g, o)
            /\ \A gs1: Elsewhere(guest, gs1, p) /\ gs1[p] \in Guests
                      /\ (o.early \/ Advance(g, gs1[p], m, a, e))
                      => Chain(Tail(packets), gs1, outside)
    BY <1>1, <1>2, ChainShorter
  <2>2. ~o.early
    BY DEF Clean
  <2> QED BY <2>1, <2>2 DEF PacketIs
<1>4. m \in Segments /\ p \in Ports
  BY <1>1, <1>2, ChainShorter, SegmentType
<1>5. PortOK(g, o)
  BY <1>4, AtPort
<1>6. /\ Taking(g, m, e, Fresh(g, m))
      /\ \A n \in 1..Len(Fresh(g, m)) - 1: Taking(g, m, e, SubSeq(Fresh(g, m), 1, n))
  <2> HIDE DEF g, o
  <2> QED BY <1>3, <1>4, <1>5, TakingAll
<1>7. \E g1: Handled(g, g1, m, a, e, o) /\ Becomes(guest, guest', p, g1)
  <2>1. CASE guest' = guest
    BY <1>5, <2>1, HandledSame DEF Becomes
  <2>2. ASSUME NEW data, Taking(g, m, e, data),
               guest' = [guest EXCEPT ![p] = Handle(@, m, data)]
        PROVE  \E g1: Handled(g, g1, m, a, e, o) /\ Becomes(guest, guest', p, g1)
    <3> DEFINE g1 == Handle(g, m, data)
    <3>1. Becomes(guest, guest', p, g1)
      BY <1>1, <1>4, <2>2 DEF Becomes
    <3>2. Handled(g, g1, m, a, e, o)
      <4> HIDE DEF g, o
      <4> QED BY <1>3, <1>4, <1>5, <2>2, HandleOK
    <3> HIDE DEF g1
    <3> QED BY <3>1, <3>2
  <2>3. CASE guest' = [guest EXCEPT ![p] = Handle(@, m, Fresh(@, m))]
    <3> DEFINE data == Fresh(g, m)
    <3>1. guest' = [guest EXCEPT ![p] = Handle(@, m, data)] /\ Taking(g, m, e, data)
      BY <1>6, <2>3
    <3> HIDE DEF data
    <3> QED BY <2>2, <3>1
  <2>4. ASSUME NEW n \in 1..Len(Fresh(g, m)) - 1,
               guest' = [guest EXCEPT ![p] = Handle(@, m, SubSeq(Fresh(@, m), 1, n))]
        PROVE  \E g1: Handled(g, g1, m, a, e, o) /\ Becomes(guest, guest', p, g1)
    <3> DEFINE data == SubSeq(Fresh(g, m), 1, n)
    <3>1. guest' = [guest EXCEPT ![p] = Handle(@, m, data)] /\ Taking(g, m, e, data)
      BY <1>6, <2>4
    <3> HIDE DEF data
    <3> QED BY <2>2, <3>1
  <2> QED BY <2>1, <2>3, <2>4
<1>8. PICK g1: Handled(g, g1, m, a, e, o) /\ Becomes(guest, guest', p, g1)
  BY <1>7
<1>9. guest'[p] = g1 /\ Elsewhere(guest, guest', p)
  BY <1>1, <1>4, <1>8, BecomesPort
<1>10. g1 \in Guests /\ Advance(g, g1, m, a, e)
  BY <1>8 DEF Handled, PortOK
<1>11. Chain(Tail(packets), guest', outside)
  BY <1>3, <1>9, <1>10
<1> QED
  BY <1>4, <1>8, <1>11, HandledStep

-----------------------------------------------------------------------------
(* A port whose socket has been read early: its types.                     *)

TypedSlot(c, p) == c \in Connections /\ c.port = p /\ Len(c.incoming_buf) <= MaxSegment

(* Segments for port p.                                                    *)
From(s, p) == s \in Seq(Segments) /\ \A j \in 1..Len(s): s[j].port = p

LEMMA FromNone ==
    ASSUME NEW p
    PROVE  From(<<>>, p)
  BY DEF From

LEMMA FromOne ==
    ASSUME NEW m \in Segments, NEW p, m.port = p
    PROVE  From(<<m>>, p)
<1>1. <<m>> \in Seq(Segments) /\ Len(<<m>>) = 1 /\ <<m>>[1] = m
  OBVIOUS
<1>2. \A j \in 1..1: j = 1
  OBVIOUS
<1> QED BY <1>1, <1>2 DEF From

LEMMA FromBoth ==
    ASSUME NEW s, NEW t, NEW p, From(s, p), From(t, p)
    PROVE  From(s \o t, p)
<1>1. s \in Seq(Segments) /\ t \in Seq(Segments)
  BY DEF From
<1>2. s \o t \in Seq(Segments) /\ Len(s \o t) = Len(s) + Len(t) /\ Len(s) \in Nat /\ Len(t) \in Nat
  BY <1>1
<1>3. ASSUME NEW j \in 1..Len(s \o t) PROVE (s \o t)[j].port = p
  <2>1. CASE j \in 1..Len(s)
    <3>1. (s \o t)[j] = s[j]
      BY <1>1, <2>1
    <3> QED BY <2>1, <3>1 DEF From
  <2>2. CASE j \notin 1..Len(s)
    <3>1. j - Len(s) \in 1..Len(t) /\ (s \o t)[j] = t[j - Len(s)]
      BY <1>1, <1>2, <2>2
    <3> QED BY <3>1 DEF From
  <2> QED BY <2>1, <2>2
<1> QED BY <1>2, <1>3 DEF From

LEMMA FromAfter ==
    ASSUME NEW s, NEW m \in Segments, NEW p, m.port = p, From(s, p)
    PROVE  From(s \o <<m>>, p)
<1> DEFINE t == <<m>>
<1>1. From(t, p)
  BY FromOne
<1> HIDE DEF t
<1>2. From(s \o t, p)
  BY <1>1, FromBoth
<1> QED BY <1>2 DEF t

LEMMA DirtyQueue ==
    ASSUME NEW pk, NEW gs, NEW os, NEW gs1, NEW os1, NEW p \in Ports, NEW s,
           Chain(pk, gs, os), Elsewhere(gs, gs1, p), Elsewhere(os, os1, p), os1[p].early,
           From(s, p)
    PROVE  Chain(pk \o s, gs1, os1) /\ Others(pk, pk \o s, p)
<1> DEFINE l == Len(pk)
           r == pk \o s
           n == Len(r)
<1>1. pk \in Seq(Segments) /\ s \in Seq(Segments) /\ l \in Nat
  BY DEF Chain, From
<1>2. PICK a, e \in [1..l -> Nat]: ChainOf(pk, a, e, gs, os)
  BY DEF Chain
<1>3. r \in Seq(Segments) /\ n = l + Len(s) /\ n \in Nat /\ \A j \in 1..l: r[j] = pk[j]
  BY <1>1
<1>4. ASSUME NEW j \in 1..n PROVE j \in 1..l \/ r[j].port = p
  <2> SUFFICES ASSUME j \notin 1..l PROVE r[j].port = p
    OBVIOUS
  <2>1. j - l \in 1..Len(s) /\ r[j] = s[j - l]
    BY <1>1, <1>3
  <2> QED BY <2>1 DEF From
<1> DEFINE a1 == [j \in 1..n |-> IF j \in 1..l THEN a[j] ELSE 0]
           e1 == [j \in 1..n |-> IF j \in 1..l THEN e[j] ELSE 0]
<1>5. a1 \in [1..n -> Nat] /\ e1 \in [1..n -> Nat]
  <2> HIDE DEF n, l
  <2> QED OBVIOUS
<1>6. \A j \in 1..l: j \in 1..n /\ a1[j] = a[j] /\ e1[j] = e[j]
  <2>1. \A j \in 1..l: j \in 1..n
    BY <1>1, <1>3
  <2> HIDE DEF n, l
  <2> QED BY <2>1
<1> HIDE DEF a1, e1, r, n
<1>7. \A j \in 1..n: r[j] \in Segments /\ r[j].port \in Ports
  <2>1. \A j \in 1..n: r[j] \in Segments
    BY <1>3 DEF n
  <2> QED BY <2>1, SegmentType
<1>8. ASSUME NEW j \in 1..n, r[j].port # p
      PROVE  j \in 1..l /\ r[j] = pk[j] /\ gs1[r[j].port] = gs[r[j].port] /\ os1[r[j].port] = os[r[j].port]
  BY <1>3, <1>4, <1>7, <1>8 DEF Elsewhere
<1>9. ASSUME NEW j \in 1..n
      PROVE  PacketIs(r[j], a1[j], e1[j], gs1[r[j].port], os1[r[j].port])
  <2>1. CASE r[j].port = p
    BY <2>1 DEF PacketIs
  <2>2. CASE r[j].port # p
    <3>1. j \in 1..l /\ r[j] = pk[j] /\ gs1[r[j].port] = gs[r[j].port] /\ os1[r[j].port] = os[r[j].port]
      BY <1>8, <2>2
    <3>2. PacketIs(pk[j], a[j], e[j], gs[pk[j].port], os[pk[j].port])
      BY <1>2, <3>1 DEF ChainOf
    <3> QED BY <1>6, <3>1, <3>2
  <2> QED BY <2>1, <2>2
<1>10. ASSUME NEW j \in 1..n, NEW k \in 1..n, j < k, r[j].port = r[k].port, ~r[j].syn, ~r[k].syn,
              ~os1[r[j].port].early
       PROVE  a1[j] <= a1[k] /\ e1[j] <= e1[k]
  <2>1. r[j].port # p /\ r[k].port # p
    BY <1>10
  <2>2. j \in 1..l /\ r[j] = pk[j] /\ os1[r[j].port] = os[r[j].port]
    BY <1>8, <2>1
  <2>3. k \in 1..l /\ r[k] = pk[k]
    BY <1>8, <2>1
  <2>4. a[j] <= a[k] /\ e[j] <= e[k]
    BY <1>2, <1>10, <2>2, <2>3 DEF ChainOf
  <2> QED BY <1>6, <2>2, <2>3, <2>4
<1>11. ChainOf(r, a1, e1, gs1, os1)
  BY <1>9, <1>10 DEF ChainOf, n
<1>12. Chain(r, gs1, os1)
  BY <1>3, <1>5, <1>11 DEF Chain, n
<1>13. Others(pk, r, p)
  BY <1>8 DEF Others, n
<1> QED BY <1>12, <1>13 DEF r

(* The port after a step of its slot, if it has one.                       *)
LEMMA DirtyStep ==
    ASSUME NatInv, NEW p \in Ports, NEW i, NEW g1 \in Guests, NEW o1 \in Sockets, o1.early,
           NEW s, From(s, p), packets' = packets \o s,
           Becomes(guest, guest', p, g1), Becomes(outside, outside', p, o1),
           DOMAIN tcp_connections' = Slots, Changed(tcp_connections, tcp_connections', p, i),
           i \in Slots => tcp_connections'[i] = Unused \/ TypedSlot(tcp_connections'[i], p)
    PROVE  NatInv'
<1> DEFINE t == tcp_connections
           t1 == tcp_connections'
           pk == packets
           pk1 == packets'
           gs == guest
           gs1 == guest'
           os == outside
           os1 == outside'
<1>1. /\ Inv(t, pk, gs, os) /\ Chain(pk, gs, os)
      /\ DOMAIN t = Slots /\ DOMAIN gs = Ports /\ DOMAIN os = Ports
  BY DEF NatInv, Inv, SlotsOK, PortsOK
<1>2. /\ gs1[p] = g1 /\ DOMAIN gs1 = Ports /\ Elsewhere(gs, gs1, p)
  BY <1>1, BecomesPort
<1>3. /\ os1[p] = o1 /\ DOMAIN os1 = Ports /\ Elsewhere(os, os1, p)
  BY <1>1, BecomesPort
<1>4. /\ DOMAIN t1 = Slots /\ Changed(t, t1, p, i) /\ pk1 = pk \o s
      /\ i \in Slots => t1[i] = Unused \/ TypedSlot(t1[i], p)
  OBVIOUS
<1> HIDE DEF t, t1, pk, pk1, gs, gs1, os, os1
<1>5. Chain(pk \o s, gs1, os1) /\ Others(pk, pk \o s, p)
  BY <1>1, <1>2, <1>3, DirtyQueue
<1>6. Chain(pk1, gs1, os1) /\ Others(pk, pk1, p)
  BY <1>4, <1>5
<1>7. PortIs(t1, gs1[p], os1[p], pk1, p)
  BY <1>2, <1>3 DEF PortIs
<1>8. i \in Slots => t1[i] = Unused \/ (SlotIs(t1[i], gs1[p], os1[p], pk1) /\ t1[i].port = p)
  BY <1>3, <1>4 DEF SlotIs, TypedSlot
<1>9. Inv(t1, pk1, gs1, os1)
  BY <1>1, <1>2, <1>3, <1>4, <1>6, <1>7, <1>8, PortStep
<1> QED BY <1>9 DEF NatInv, t1, pk1, gs1, os1

(* What is known of every port and its slot.                               *)
LEMMA PortTypes ==
    ASSUME NatInv, NEW p \in Ports
    PROVE  /\ guest[p] \in Guests /\ outside[p] \in Sockets
           /\ p \in DOMAIN guest /\ p \in DOMAIN outside
           /\ packets \in Seq(Segments) /\ DOMAIN tcp_connections = Slots
  BY DEF NatInv, Inv, PortsOK, PortIs, Chain, SlotsOK

LEMMA SlotTypes ==
    ASSUME NatInv, NEW i \in Slots, NEW p, InUse(tcp_connections, p, i)
    PROVE  p \in Ports /\ TypedSlot(tcp_connections[i], p)
<1>1. SlotsOK(tcp_connections, packets, guest, outside)
  BY DEF NatInv, Inv
<1>2. /\ tcp_connections[i] \in Connections /\ tcp_connections[i].port \in Ports
      /\ SlotIs(tcp_connections[i], guest[tcp_connections[i].port],
                outside[tcp_connections[i].port], packets)
  BY <1>1, SlotFacts DEF InUse
<1> QED BY <1>2 DEF InUse, TypedSlot, SlotIs

(* A slot is set.                                                          *)
LEMMA DirtySlot ==
    ASSUME NatInv, NEW i \in Slots, NEW p \in Ports, InUse(tcp_connections, p, i), NEW c1,
           NEW g1 \in Guests, NEW o1 \in Sockets, o1.early,
           NEW s, From(s, p), packets' = packets \o s,
           Becomes(guest, guest', p, g1), Becomes(outside, outside', p, o1),
           Set(i, c1), c1 = Unused \/ TypedSlot(c1, p)
    PROVE  NatInv'
<1>1. SlotsOK(tcp_connections, packets, guest, outside) /\ DOMAIN tcp_connections = Slots
  BY DEF NatInv, Inv, SlotsOK
<1>2. /\ tcp_connections'[i] = c1 /\ DOMAIN tcp_connections' = Slots
      /\ \A j \in Slots \ {i}: tcp_connections'[j] = tcp_connections[j]
  BY <1>1 DEF Set
<1>3. \A j \in Slots \ {i}: ~InUse(tcp_connections, p, j)
  BY <1>1 DEF SlotsOK
<1>4. Changed(tcp_connections, tcp_connections', p, i)
  BY <1>2, <1>3 DEF Changed, InUse
<1>5. tcp_connections'[i] = Unused \/ TypedSlot(tcp_connections'[i], p)
  BY <1>2
<1> QED BY <1>2, <1>4, <1>5, DirtyStep

(* No slot is set.                                                         *)
LEMMA DirtySame ==
    ASSUME NatInv, NEW p \in Ports, NEW g1 \in Guests, NEW o1 \in Sockets, o1.early,
           packets' = packets, tcp_connections' = tcp_connections,
           Becomes(guest, guest', p, g1), Becomes(outside, outside', p, o1)
    PROVE  NatInv'
<1> DEFINE s == <<>>
<1>1. SlotsOK(tcp_connections, packets, guest, outside) /\ packets \in Seq(Segments)
  BY DEF NatInv, Inv, Chain
<1>2. From(s, p) /\ packets' = packets \o s
  BY <1>1, FromNone
<1>3. DOMAIN tcp_connections' = Slots
  BY <1>1 DEF SlotsOK
<1> HIDE DEF s
<1>4. CASE \A j \in Slots: ~InUse(tcp_connections, p, j)
  <2>1. 0 \notin Slots
    BY SlotNumbers
  <2>2. Changed(tcp_connections, tcp_connections', p, 0)
    BY <1>4, <2>1 DEF Changed
  <2> QED BY <1>2, <1>3, <2>1, <2>2, DirtyStep
<1>5. ASSUME NEW i \in Slots, InUse(tcp_connections, p, i) PROVE NatInv'
  <2>1. \A j \in Slots \ {i}: ~InUse(tcp_connections, p, j)
    BY <1>1, <1>5 DEF SlotsOK
  <2>2. Changed(tcp_connections, tcp_connections', p, i)
    BY <1>5, <2>1 DEF Changed, InUse
  <2>3. TypedSlot(tcp_connections'[i], p)
    BY <1>5, SlotTypes
  <2> QED BY <1>2, <1>3, <2>2, <2>3, DirtyStep
<1> QED BY <1>4, <1>5

-----------------------------------------------------------------------------
(* net_ip_tcp() for such a port.                                           *)

LEMMA ReplyTyped ==
    ASSUME NEW c \in Connections, NEW syn \in BOOLEAN, NEW rst \in BOOLEAN, NEW data \in Seq(Nat)
    PROVE  Reply(c, syn, rst, data) \in Segments /\ Reply(c, syn, rst, data).port = c.port
<1>1. /\ c.port \in Ports /\ c.outside_seqnr \in 0..W - 1 /\ c.outside_acknr \in 0..W - 1
      /\ Disconnected(c) \in BOOLEAN
  BY DEF Connections, Disconnected
<1> QED BY <1>1 DEF Reply, Segments

LEMMA AckFrom ==
    ASSUME NEW c \in Connections, NEW rst \in BOOLEAN
    PROVE  /\ From(<<Reply(c, FALSE, rst, <<>>)>>, c.port)
           /\ Reply(c, FALSE, rst, <<>>) \in Segments /\ Reply(c, FALSE, rst, <<>>).port = c.port
<1> DEFINE m == Reply(c, FALSE, rst, <<>>)
<1>1. <<>> \in Seq(Nat) /\ FALSE \in BOOLEAN
  OBVIOUS
<1>2. m \in Segments /\ m.port = c.port
  BY <1>1, ReplyTyped, Zenon
<1> HIDE DEF m
<1>3. From(<<m>>, c.port)
  BY <1>2, FromOne
<1> QED BY <1>2, <1>3 DEF m

LEMMA StateTyped ==
    ASSUME NEW p, NEW c, TypedSlot(c, p), NEW st \in States
    PROVE  TypedSlot([c EXCEPT !.state = st], p)
  BY DEF TypedSlot, Connections

(* A segment of the guest.                                                 *)
TypedSegment(m, p) ==
    /\ m.port = p /\ m.seq \in 0..W - 1 /\ m.ack \in 0..W - 1 /\ m.data \in Seq(Nat)

LEMMA AcknowledgedTyped ==
    ASSUME NEW p, NEW c, TypedSlot(c, p), NEW m, TypedSegment(m, p)
    PROVE  TypedSlot(Acknowledged(c, m), p)
<1> DEFINE buf == IF m.ack = c.outside_seqnr THEN <<>> ELSE c.incoming_buf
           a == Acknowledged(c, m)
<1>1. c \in Connections /\ c.incoming_buf \in Seq(Nat) /\ Len(c.incoming_buf) <= MaxSegment
  BY DEF TypedSlot, Connections
<1>2. <<>> \in Seq(Nat) /\ Len(<<>>) = 0 /\ 0 <= MaxSegment
  BY Bounds
<1>3. buf \in Seq(Nat) /\ Len(buf) <= MaxSegment
  BY <1>1, <1>2
<1> HIDE DEF buf
<1>4. a = [c EXCEPT !.inside_acknr = m.ack, !.inside_seqnr = m.seq, !.incoming_buf = buf]
  BY DEF Acknowledged, buf
<1> HIDE DEF a
<1>5. a \in Connections /\ a.port = c.port /\ a.incoming_buf = buf
  BY <1>1, <1>3, <1>4 DEF Connections, TypedSegment
<1> QED BY <1>3, <1>5 DEF TypedSlot, a

LEMMA WrittenTyped ==
    ASSUME NEW p, NEW c, TypedSlot(c, p), NEW n \in Nat
    PROVE  TypedSlot(Written(c, n), p)
<1> DEFINE x == Plus(c.outside_acknr, n)
           d == Written(c, n)
<1>1. c \in Connections /\ c.outside_acknr \in 0..W - 1 /\ W \in Nat
  BY Bounds DEF TypedSlot, Connections
<1>2. c.outside_acknr \in Int /\ n \in Int
  BY <1>1
<1>3. x \in 0..W - 1
  BY <1>2, PlusType
<1> HIDE DEF x
<1>4. d = [c EXCEPT !.outside_acknr = x]
  BY DEF Written, x
<1> HIDE DEF d
<1>5. d \in Connections /\ d.port = c.port /\ d.incoming_buf = c.incoming_buf
  BY <1>1, <1>3, <1>4 DEF Connections
<1> QED BY <1>5 DEF TypedSlot, d

LEMMA DirtyWrite ==
    ASSUME NatInv, NEW i \in Slots, NEW p \in Ports, InUse(tcp_connections, p, i), ~Clean(p),
           NEW g1 \in Guests, Becomes(guest, guest', p, g1), NEW m, TypedSegment(m, p),
           NEW a, TypedSlot(a, p), WriteOutside(i, a, m)
    PROVE  NatInv'
<1> DEFINE o == outside[p]
<1>1. o \in Sockets /\ p \in DOMAIN outside /\ packets \in Seq(Segments)
  BY PortTypes
<1>2. o.early /\ a.port = p /\ a \in Connections
  BY DEF Clean, TypedSlot
<1>3. outside' = outside => Becomes(outside, outside', p, o)
  BY DEF Becomes
<1>4. ASSUME NEW c1, TypedSlot(c1, p), Set(i, c1), Queue(<<Ack(c1)>>),
             NEW o1 \in Sockets, o1.early, Becomes(outside, outside', p, o1)
      PROVE  NatInv'
  <2> DEFINE s == <<Ack(c1)>>
  <2>1. From(s, p) /\ packets' = packets \o s
    <3>1. From(<<Reply(c1, FALSE, FALSE, <<>>)>>, c1.port) /\ c1.port = p
      BY <1>4, AckFrom, FALSE \in BOOLEAN, Zenon DEF TypedSlot
    <3> QED BY <1>4, <3>1 DEF Queue, Ack
  <2> HIDE DEF s
  <2> QED BY <1>4, <2>1, DirtySlot
<1>5. CASE Set(i, a) /\ Queue(<<Ack(a)>>) /\ outside' = outside
  BY <1>1, <1>2, <1>3, <1>4, <1>5
<1>6. CASE Set(i, a) /\ packets' = packets /\ outside' = outside
  <2> DEFINE s == <<>>
  <2>1. From(s, p) /\ packets' = packets \o s
    BY <1>1, <1>6, FromNone
  <2> HIDE DEF s
  <2> QED BY <1>1, <1>2, <1>3, <1>6, <2>1, DirtySlot
<1>7. ASSUME NEW n \in 1..Len(m.data), NEW full \in BOOLEAN,
             Set(i, Written(a, n)), Queue(<<Ack(Written(a, n))>>),
             outside' = [outside EXCEPT ![a.port].got = @ \o SubSeq(m.data, 1, n),
                                        ![a.port].full = full]
      PROVE  NatInv'
  <2> DEFINE got == o.got \o SubSeq(m.data, 1, n)
             o1 == [o EXCEPT !.got = got, !.full = full]
             d == Written(a, n)
  <2>1. m.data \in Seq(Nat) /\ n \in Nat /\ o.got \in Seq(Nat)
    BY <1>1, SocketType DEF TypedSegment
  <2>2. SubSeq(m.data, 1, n) \in Seq(Nat)
    BY <2>1
  <2>3. got \in Seq(Nat)
    BY <2>1, <2>2
  <2>4. Becomes(outside, outside', p, o1)
    BY <1>1, <1>2, <1>7 DEF Becomes
  <2>5. TypedSlot(d, p)
    BY <2>1, WrittenTyped
  <2> HIDE DEF got, d
  <2>6. o1 \in Sockets /\ o1.early = o.early
    BY <1>1, <2>3 DEF Sockets
  <2> HIDE DEF o1
  <2> QED BY <1>2, <1>4, <1>7, <2>4, <2>5, <2>6 DEF d
<1>8. ASSUME NEW d, d = [a EXCEPT !.state = "DISCONNECTED"], Set(i, d), Queue(<<Ack(d)>>),
             outside' = [outside EXCEPT ![a.port].broken = TRUE]
      PROVE  NatInv'
  <2> DEFINE o1 == [o EXCEPT !.broken = TRUE]
  <2>1. TypedSlot(d, p)
    BY <1>8, StateTyped DEF States
  <2>2. o1 \in Sockets /\ o1.early = o.early
    BY <1>1 DEF Sockets
  <2>3. Becomes(outside, outside', p, o1)
    BY <1>1, <1>2, <1>8 DEF Becomes
  <2> HIDE DEF o1
  <2> QED BY <1>2, <1>4, <1>8, <2>1, <2>2, <2>3
<1> QED
  BY <1>5, <1>6, <1>7, <1>8 DEF WriteOutside

LEMMA NewTyped ==
    ASSUME NEW p \in Ports, NEW x \in 0..W - 1, NEW y \in 0..W - 1
    PROVE  TypedSlot(NewConnection(p, x, y), p)
<1>1. 0 \in 0..W - 1 /\ 0 \in 0..ResendRounds /\ 0 <= MaxSegment
  BY Bounds
<1> DEFINE c == NewConnection(p, x, y)
<1>2. c \in Connections /\ c.port = p /\ c.incoming_buf = <<>>
  BY <1>1 DEF Connections, States, NewConnection
<1> HIDE DEF c
<1> QED BY <1>1, <1>2 DEF TypedSlot, c

LEMMA DirtySend ==
    ASSUME NatInv, NEW p \in Ports, ~Clean(p), NEW g1 \in Guests, Becomes(guest, guest', p, g1),
           NEW m, TypedSegment(m, p), net_ip_tcp(m)
    PROVE  NatInv'
<1> DEFINE o == outside[p]
<1>1. o \in Sockets /\ p \in DOMAIN outside /\ packets \in Seq(Segments)
  BY PortTypes
<1>2. o.early /\ m.port = p
  BY DEF Clean, TypedSegment
<1>3. outside' = outside => Becomes(outside, outside', p, o)
  BY DEF Becomes
<1>4. CASE Ignore(m)
  <2>1. packets' = packets /\ tcp_connections' = tcp_connections /\ outside' = outside
    BY <1>4 DEF Ignore
  <2> QED BY <1>1, <1>2, <1>3, <2>1, DirtySame
<1>5. CASE NewOutgoing(m)
  <2> DEFINE i == Max(Free)
             c == NewConnection(p, m.seq, o.iss)
             s == <<>>
  <2>1. /\ \A j \in Slots: ~InUse(tcp_connections, p, j)
        /\ Free # {} /\ Set(i, c) /\ packets' = packets /\ outside' = outside
    BY <1>2, <1>5 DEF NewOutgoing, Known, InUse
  <2>2. i \in Slots /\ ~tcp_connections[i].in_use
    BY <2>1, LastFree DEF Free
  <2>3. TypedSlot(c, p)
    BY <1>1, NewTyped, SocketType DEF TypedSegment
  <2>4. From(s, p) /\ packets' = packets \o s
    BY <1>1, <2>1, FromNone
  <2> HIDE DEF i, c, s
  <2>5. SlotsOK(tcp_connections, packets, guest, outside) /\ DOMAIN tcp_connections = Slots
    BY DEF NatInv, Inv, SlotsOK
  <2>6. tcp_connections[i] = Unused
    BY <2>2, <2>5, SlotFacts
  <2>7. /\ tcp_connections'[i] = c /\ DOMAIN tcp_connections' = Slots
        /\ \A j \in Slots \ {i}: tcp_connections'[j] = tcp_connections[j]
    BY <2>1, <2>2, <2>5 DEF Set
  <2>8. Changed(tcp_connections, tcp_connections', p, i)
    BY <2>1, <2>6, <2>7 DEF Changed
  <2>9. TypedSlot(tcp_connections'[i], p) /\ Becomes(outside, outside', p, o)
    BY <1>3, <2>1, <2>3, <2>7
  <2> QED BY <1>1, <1>2, <2>4, <2>7, <2>8, <2>9, DirtyStep
<1>6. CASE Segment(m)
  <2> DEFINE Slot(i) == tcp_connections[i]
             Reset(i) == Set(i, Unused) /\ Queue(<<Reply(Slot(i), FALSE, TRUE, <<>>)>>)
                          /\ outside' = outside
             Late(i) == Set(i, AfterFin(Slot(i)))
                        /\ Queue(<<Ack([Slot(i) EXCEPT !.state = "CONNECTED"])>>)
                        /\ outside' = outside
             Fin(i) == Set(i, AfterFin(Slot(i)))
                       /\ Queue(<<Ack(Slot(i)), Ack(AfterFin(Slot(i)))>>) /\ outside' = outside
             Write(i) == WriteOutside(i, Acknowledged(Slot(i), m), m)
             Plain(i) == Set(i, Acknowledged(Slot(i), m)) /\ packets' = packets /\ outside' = outside
  <2>1. PICK i \in Known(m): Reset(i) \/ Late(i) \/ Fin(i) \/ Write(i) \/ Plain(i)
    BY <1>6 DEF Segment
  <2>2. i \in Slots /\ InUse(tcp_connections, p, i)
    BY <1>2, <2>1 DEF Known, InUse
  <2> DEFINE c == tcp_connections[i]
             d == AfterFin(c)
             r == [c EXCEPT !.state = "CONNECTED"]
             a == Acknowledged(c, m)
  <2>3. TypedSlot(c, p)
    BY <2>2, SlotTypes
  <2>4. TypedSlot(d, p) /\ TypedSlot(r, p) /\ TypedSlot(a, p)
    <3>1. "CONNECTED" \in States /\ "DISCONNECTED2" \in States
      BY DEF States
    <3>2. TypedSlot(r, p) /\ TypedSlot([c EXCEPT !.state = "DISCONNECTED2"], p)
      BY <2>3, <3>1, StateTyped, Zenon
    <3>3. TypedSlot(a, p)
      BY <2>3, AcknowledgedTyped
    <3> QED BY <3>2, <3>3 DEF AfterFin
  <2>5. CASE Reset(i)
    <3> DEFINE s == <<Reply(c, FALSE, TRUE, <<>>)>>
    <3>1. From(s, c.port) /\ c.port = p
      BY <2>3, AckFrom, TRUE \in BOOLEAN, Zenon DEF TypedSlot
    <3>2. From(s, p) /\ packets' = packets \o s /\ Set(i, Unused)
      BY <2>5, <3>1 DEF Queue
    <3> HIDE DEF s
    <3> QED BY <1>1, <1>2, <1>3, <2>2, <2>5, <3>2, DirtySlot
  <2>6. CASE Late(i)
    <3> DEFINE s == <<Ack(r)>>
    <3>1. From(s, r.port) /\ r.port = p
      BY <2>4, AckFrom, FALSE \in BOOLEAN, Zenon DEF TypedSlot, Ack
    <3>2. From(s, p) /\ packets' = packets \o s /\ Set(i, d)
      BY <2>6, <3>1 DEF Queue
    <3> HIDE DEF s, d
    <3> QED BY <1>1, <1>2, <1>3, <2>2, <2>4, <2>6, <3>2, DirtySlot
  <2>7. CASE Fin(i)
    <3> DEFINE s == <<Ack(c), Ack(d)>>
               x == Ack(c)
               y == Ack(d)
    <3>1. x \in Segments /\ x.port = p
      BY <2>3, AckFrom, FALSE \in BOOLEAN, Zenon DEF TypedSlot, Ack
    <3>2. y \in Segments /\ y.port = p
      <4> HIDE DEF d
      <4> QED BY <2>4, AckFrom, FALSE \in BOOLEAN, Zenon DEF TypedSlot, Ack
    <3>3. s = <<x, y>>
      OBVIOUS
    <3> HIDE DEF x, y, s
    <3>4. s \in Seq(Segments) /\ Len(s) = 2 /\ s[1] = x /\ s[2] = y
      BY <3>1, <3>2, <3>3
    <3>5. \A j \in 1..2: j = 1 \/ j = 2
      OBVIOUS
    <3>6. From(s, p)
      BY <3>1, <3>2, <3>4, <3>5 DEF From
    <3>7. packets' = packets \o s /\ Set(i, d)
      BY <2>7 DEF Queue, s
    <3> HIDE DEF d
    <3> QED BY <1>1, <1>2, <1>3, <2>2, <2>4, <2>7, <3>6, <3>7, DirtySlot
  <2>8. CASE Plain(i)
    <3> DEFINE s == <<>>
    <3>1. From(s, p) /\ packets' = packets \o s /\ Set(i, a)
      BY <1>1, <2>8, FromNone
    <3> HIDE DEF s, a
    <3> QED BY <1>1, <1>2, <1>3, <2>2, <2>4, <2>8, <3>1, DirtySlot
  <2>9. CASE Write(i)
    <3> HIDE DEF a
    <3> QED BY <2>2, <2>4, <2>9, DirtyWrite DEF a
  <2> QED
    BY <2>1, <2>5, <2>6, <2>7, <2>8, <2>9
<1> QED
  BY <1>4, <1>5, <1>6 DEF net_ip_tcp

LEMMA OctetsTyped ==
    ASSUME NatInv, NEW p \in Ports, NEW pos \in Nat, NEW end \in Nat, NEW fin, NEW rst
    PROVE  TypedSegment(Octets(p, pos, end, fin, rst), p)
<1> DEFINE g == guest[p]
           d == [k \in 1..end - pos |-> pos + k]
           n == IF pos <= end THEN end - pos ELSE 0
<1>1. g \in Guests
  BY PortTypes
<1>2. d \in Seq(Nat)
  <2>1. n \in Nat /\ 1..end - pos = 1..n
    OBVIOUS
  <2>2. d \in [1..end - pos -> Nat]
    OBVIOUS
  <2> HIDE DEF d, n
  <2>3. d \in [1..n -> Nat]
    BY <2>1, <2>2
  <2> QED BY <2>1, <2>3
<1>3. g.irs \in Int /\ Len(g.got) \in Int
  BY <1>1, GuestType, Bounds
<1>4. SeqIn(g) \in Int
  BY <1>3, PlusType DEF SeqIn
<1>5. (IF g.fin THEN 1 ELSE 0) \in Int
  OBVIOUS
<1>6. Plus(SeqIn(g), IF g.fin THEN 1 ELSE 0) \in 0..W - 1
  BY <1>4, <1>5, PlusType
<1>7. SeqOut(pos) \in 0..W - 1
  BY SeqOutType
<1> QED
  BY <1>2, <1>6, <1>7 DEF TypedSegment, Octets

LEMMA DirtyOctets ==
    ASSUME NatInv, NEW p \in Ports, ~Clean(p), NEW st \in Stages, NEW nxt \in Nat,
           NEW pos \in Nat, NEW end \in Nat, NEW fin, NEW rst,
           net_ip_tcp(Octets(p, pos, end, fin, rst)),
           Becomes(guest, guest', p, Now(guest[p], st, nxt))
    PROVE  NatInv'
<1> DEFINE m == Octets(p, pos, end, fin, rst)
           g1 == Now(guest[p], st, nxt)
<1>1. guest[p] \in Guests
  BY PortTypes
<1>2. g1 \in Guests
  BY <1>1, GuestSends
<1>3. TypedSegment(m, p)
  BY OctetsTyped
<1>4. net_ip_tcp(m) /\ Becomes(guest, guest', p, g1)
  OBVIOUS
<1> HIDE DEF m, g1
<1> QED BY <1>2, <1>3, <1>4, DirtySend

LEMMA DirtyGuest ==
    ASSUME NatInv, NEW p \in Ports, ~Clean(p),
           \/ Connect(p) \/ SendData(p) \/ SendAck(p) \/ Close(p) \/ ResendFin(p) \/ Abort(p)
    PROVE  NatInv'
<1> DEFINE g == guest[p]
           t == TRUE
           f == FALSE
<1>1. /\ g \in Guests /\ p \in DOMAIN guest /\ g.nxt \in Nat /\ g.una \in Nat /\ g.todo \in Nat
      /\ g.st \in Stages /\ MaxSegment \in Nat
  BY PortTypes, GuestType, Bounds DEF Guests
<1>2. CASE Connect(p)
  <2> DEFINE st == "syn_sent"
             g1 == Now(g, st, g.nxt)
             m == Syn(p)
  <2>1. net_ip_tcp(m) /\ Guest(p, [guest[p] EXCEPT !.st = st]) /\ st \in Stages
    BY <1>2 DEF Connect, Stages
  <2>2. Becomes(guest, guest', p, g1)
    <3> HIDE DEF st
    <3> QED BY <1>1, <2>1, GuestBecomes
  <2>3. g1 \in Guests
    <3> HIDE DEF st
    <3> QED BY <1>1, <2>1, GuestSends
  <2>4. TypedSegment(m, p)
    BY Bounds DEF TypedSegment, Syn
  <2> HIDE DEF g1, m
  <2> QED BY <2>1, <2>2, <2>3, <2>4, DirtySend
<1>3. CASE SendData(p)
  <2>1. PICK end \in g.nxt..g.todo, pos \in {g.una, g.nxt}:
            /\ net_ip_tcp(Octets(p, pos, end, f, f))
            /\ Guest(p, [guest[p] EXCEPT !.nxt = end])
    BY <1>3 DEF SendData
  <2>2. end \in Nat /\ pos \in Nat
    BY <1>1, <2>1
  <2>3. Becomes(guest, guest', p, Now(guest[p], guest[p].st, end))
    BY <1>1, <2>1, GuestBecomes
  <2> HIDE DEF f
  <2> QED BY <1>1, <2>1, <2>2, <2>3, DirtyOctets
<1>4. CASE SendAck(p)
  <2>1. net_ip_tcp(Octets(p, g.nxt, g.nxt, f, f)) /\ Guest(p, guest[p])
    BY <1>4 DEF SendAck
  <2>2. Becomes(guest, guest', p, Now(guest[p], guest[p].st, guest[p].nxt))
    BY <1>1, <2>1, GuestBecomes
  <2> HIDE DEF f
  <2> QED BY <1>1, <2>1, <2>2, DirtyOctets
<1>5. CASE Close(p)
  <2> DEFINE st == "closing"
  <2>1. PICK n \in 0..MaxSegment:
            /\ net_ip_tcp(Octets(p, g.nxt, g.nxt + n, t, f))
            /\ Guest(p, [guest[p] EXCEPT !.nxt = @ + n, !.st = st])
    BY <1>5 DEF Close
  <2> DEFINE end == g.nxt + n
  <2>2. end \in Nat /\ st \in Stages
    BY <1>1 DEF Stages
  <2>3. Guest(p, [guest[p] EXCEPT !.nxt = end, !.st = st]) /\ net_ip_tcp(Octets(p, g.nxt, end, t, f))
    BY <2>1
  <2> HIDE DEF end, st, t, f
  <2>4. Becomes(guest, guest', p, Now(guest[p], st, end))
    BY <1>1, <2>3, GuestBecomes
  <2> QED BY <1>1, <2>2, <2>3, <2>4, DirtyOctets
<1>6. CASE ResendFin(p)
  <2>1. net_ip_tcp(Octets(p, g.una, g.nxt, t, f)) /\ Guest(p, guest[p])
    BY <1>6 DEF ResendFin
  <2>2. Becomes(guest, guest', p, Now(guest[p], guest[p].st, guest[p].nxt))
    BY <1>1, <2>1, GuestBecomes
  <2> HIDE DEF f, t
  <2> QED BY <1>1, <2>1, <2>2, DirtyOctets
<1>7. CASE Abort(p)
  <2> DEFINE st == "done"
  <2>1. /\ net_ip_tcp(Octets(p, g.nxt, g.nxt, f, t)) /\ Guest(p, [guest[p] EXCEPT !.st = st])
        /\ st \in Stages
    BY <1>7 DEF Abort, Stages
  <2> HIDE DEF st, f, t
  <2>2. Becomes(guest, guest', p, Now(guest[p], st, guest[p].nxt))
    BY <1>1, <2>1, GuestBecomes
  <2> QED BY <1>1, <2>1, <2>2, DirtyOctets
<1> QED
  BY <1>2, <1>3, <1>4, <1>5, <1>6, <1>7

-----------------------------------------------------------------------------
(* net_tcp_rx_avail() for any port.                                        *)

(* Slot i becomes c1, s1 is sent, and the socket's end of port p is o1.    *)
Turn(i, p, c1, s1, o1) ==
    /\ TypedSlot(c1, p) /\ From(s1, p) /\ o1 \in Sockets
    /\ Set(i, c1) /\ packets' = packets \o s1 /\ Becomes(outside, outside', p, o1)

LEMMA TurnInv ==
    ASSUME NatInv, NEW i \in Slots, NEW p \in Ports, InUse(tcp_connections, p, i),
           NEW c1, NEW s1, NEW o1, Turn(i, p, c1, s1, o1), o1.early, guest' = guest
    PROVE  NatInv'
<1>1. guest[p] \in Guests /\ Becomes(guest, guest', p, guest[p])
  BY PortTypes DEF Becomes
<1>2. /\ TypedSlot(c1, p) /\ From(s1, p) /\ o1 \in Sockets
      /\ Set(i, c1) /\ packets' = packets \o s1 /\ Becomes(outside, outside', p, o1)
  BY DEF Turn
<1> QED BY <1>1, <1>2, DirtySlot

LEMMA SentTyped ==
    ASSUME NEW p, NEW c, TypedSlot(c, p), NEW data \in Seq(Nat)
    PROVE  TypedSlot(Sent(c, data), p)
<1> DEFINE x == Plus(c.outside_seqnr, Len(data))
           d == Sent(c, data)
<1>1. c \in Connections /\ c.outside_seqnr \in 0..W - 1 /\ W \in Nat
  BY Bounds DEF TypedSlot, Connections
<1>2. c.outside_seqnr \in Int /\ Len(data) \in Int
  BY <1>1
<1>3. x \in 0..W - 1
  BY <1>2, PlusType
<1> HIDE DEF x
<1>4. d = [c EXCEPT !.outside_seqnr = x]
  BY DEF Sent, x
<1> HIDE DEF d
<1>5. d \in Connections /\ d.port = c.port /\ d.incoming_buf = c.incoming_buf
  BY <1>1, <1>3, <1>4 DEF Connections
<1> QED BY <1>5 DEF TypedSlot, d

LEMMA ResentTyped ==
    ASSUME NEW p, NEW c, TypedSlot(c, p)
    PROVE  TypedSlot(Resent(c), p)
<1>1. 0 \in 0..ResendRounds
  BY Bounds
<1> QED BY <1>1 DEF TypedSlot, Connections, Resent

LEMMA BufferedTyped ==
    ASSUME NEW p, NEW c, TypedSlot(c, p), NEW data \in Seq(Nat), Len(data) <= MaxSegment
    PROVE  TypedSlot(Buffered(c, data), p)
<1>1. 0 \in 0..ResendRounds
  BY Bounds
<1> QED BY <1>1 DEF TypedSlot, Connections, Buffered

LEMMA DataFromSlot ==
    ASSUME NEW p, NEW c, TypedSlot(c, p), NEW data \in Seq(Nat), NEW s, From(s, p)
    PROVE  From(s \o <<Reply(c, FALSE, FALSE, data)>>, p)
<1> DEFINE m == Reply(c, FALSE, FALSE, data)
<1>1. m \in Segments /\ m.port = p
  BY ReplyTyped, FALSE \in BOOLEAN, Zenon DEF TypedSlot
<1> HIDE DEF m
<1>2. From(s \o <<m>>, p)
  BY <1>1, FromAfter
<1> QED BY <1>2 DEF m

LEMMA ServeTyped ==
    ASSUME NatInv, NEW i \in Slots, NEW p \in Ports, NEW c, TypedSlot(c, p), NEW s, From(s, p),
           Serve(i, c, s)
    PROVE  \E c1, s1, o1:
               /\ Turn(i, p, c1, s1, o1)
               /\ \/ outside[p].early
                  \/ Unopened(c) /\ c.incoming_buf = <<>> /\ s = <<>>
                  => o1.early
<1> DEFINE o == outside[p]
           Dirty(o1) == outside[p].early \/ (Unopened(c) /\ c.incoming_buf = <<>> /\ s = <<>>) => o1.early
<1> SUFFICES \E c1, s1, o1: Turn(i, p, c1, s1, o1) /\ Dirty(o1)
  OBVIOUS
<1>1. o \in Sockets /\ p \in DOMAIN outside /\ o.read \in Nat /\ o.early \in BOOLEAN
  BY PortTypes, SocketType DEF Sockets
<1>2. c.port = p /\ c \in Connections /\ c.incoming_buf \in Seq(Nat) /\ Len(c.incoming_buf) <= MaxSegment
  BY DEF TypedSlot, Connections
<1>3. outside' = outside => Becomes(outside, outside', p, o)
  BY DEF Becomes
<1>4. CASE /\ c.incoming_buf # <<>> /\ c.incoming_buf_rounds < ResendRounds
           /\ Set(i, [c EXCEPT !.incoming_buf_rounds = @ + 1])
           /\ Queue(s) /\ outside' = outside
  <2> DEFINE k == c.incoming_buf_rounds + 1
             d == [c EXCEPT !.incoming_buf_rounds = k]
  <2>1. k \in 0..ResendRounds
    BY <1>2, <1>4, Bounds DEF Connections
  <2>2. Set(i, d)
    BY <1>4
  <2> HIDE DEF k
  <2>3. TypedSlot(d, p)
    BY <1>2, <2>1 DEF TypedSlot, Connections
  <2> HIDE DEF d
  <2>4. Turn(i, p, d, s, o)
    BY <1>1, <1>3, <1>4, <2>2, <2>3 DEF Turn, Queue
  <2> QED BY <1>4, <2>4
<1>5. CASE /\ c.incoming_buf # <<>>
           /\ Set(i, Sent(Resent(c), c.incoming_buf))
           /\ Queue(s \o <<Reply(Resent(c), FALSE, FALSE, c.incoming_buf)>>)
           /\ outside' = outside
  <2> DEFINE r == Resent(c)
             d == Sent(r, c.incoming_buf)
             s1 == s \o <<Reply(r, FALSE, FALSE, c.incoming_buf)>>
  <2>1. TypedSlot(r, p)
    BY ResentTyped
  <2>2. Set(i, d) /\ packets' = packets \o s1
    BY <1>5 DEF Queue
  <2> HIDE DEF r
  <2>3. TypedSlot(d, p) /\ From(s1, p)
    BY <1>2, <2>1, SentTyped, DataFromSlot
  <2> HIDE DEF d, s1
  <2>4. Turn(i, p, d, s1, o)
    BY <1>1, <1>3, <1>5, <2>2, <2>3 DEF Turn
  <2> QED BY <1>5, <2>4
<1>6. ASSUME NEW n \in 1..MaxSegment,
             Set(i, Sent(Buffered(c, NextData(p, n)), NextData(p, n))),
             Queue(s \o <<Reply(c, FALSE, FALSE, NextData(p, n))>>),
             outside' = [outside EXCEPT ![p].read = @ + n, ![p].early = @ \/ Unopened(c)]
      PROVE  \E c1, s1, o1: Turn(i, p, c1, s1, o1) /\ Dirty(o1)
  <2> DEFINE data == NextData(p, n)
             b == Buffered(c, data)
             d == Sent(b, data)
             s1 == s \o <<Reply(c, FALSE, FALSE, data)>>
             e == o.early \/ Unopened(c)
             k == o.read + n
             o1 == [o EXCEPT !.read = k, !.early = e]
  <2>1. n \in Nat /\ k \in Nat /\ e \in BOOLEAN /\ n <= MaxSegment
    BY <1>1, Bounds
  <2>2. data \in Seq(Nat) /\ Len(data) = n
    <3>1. data \in [1..n -> Nat]
      BY <1>1, <2>1 DEF NextData
    <3> HIDE DEF data
    <3> QED BY <2>1, <3>1
  <2>3. Set(i, d) /\ packets' = packets \o s1
    BY <1>6 DEF Queue
  <2>4. Becomes(outside, outside', p, o1)
    BY <1>1, <1>6 DEF Becomes
  <2> HIDE DEF data
  <2>5. TypedSlot(b, p)
    BY <2>1, <2>2, BufferedTyped
  <2> HIDE DEF b
  <2>6. TypedSlot(d, p) /\ From(s1, p)
    BY <2>2, <2>5, SentTyped, DataFromSlot
  <2>7. o1 \in Sockets /\ o1.early = e
    <3> HIDE DEF e, k
    <3> QED BY <1>1, <2>1 DEF Sockets
  <2>8. Dirty(o1)
    BY <2>7
  <2> HIDE DEF d, s1, o1, Dirty
  <2>9. Turn(i, p, d, s1, o1)
    BY <2>3, <2>4, <2>6, <2>7 DEF Turn
  <2> QED BY <2>8, <2>9
<1>7. CASE s # <<>> /\ Set(i, c) /\ Queue(s) /\ outside' = outside
  <2>1. Turn(i, p, c, s, o)
    BY <1>1, <1>3, <1>7 DEF Turn, Queue
  <2> QED BY <1>7, <2>1
<1> HIDE DEF Dirty
<1> QED
  BY <1>2, <1>4, <1>5, <1>6, <1>7 DEF Serve

LEMMA OverTyped ==
    ASSUME NatInv, NEW i \in Slots, NEW p \in Ports, NEW c, TypedSlot(c, p), NEW s, From(s, p),
           Over(i, c, s)
    PROVE  \E c1, s1, o1:
               /\ Turn(i, p, c1, s1, o1)
               /\ outside[p].early \/ Unopened(c) => o1.early
<1> DEFINE o == outside[p]
           e == o.early \/ Unopened(c)
           d == [c EXCEPT !.state = "DISCONNECTED"]
           m == Ack(d)
           s1 == s \o <<m>>
<1>1. o \in Sockets /\ p \in DOMAIN outside /\ c.port = p /\ e \in BOOLEAN
  BY PortTypes DEF TypedSlot
<1>2. PICK broken \in BOOLEAN:
          outside' = [outside EXCEPT ![p].broken = broken, ![p].early = e]
  BY <1>1 DEF Over
<1> DEFINE o1 == [o EXCEPT !.broken = broken, !.early = e]
<1>3. Becomes(outside, outside', p, o1) /\ Set(i, d) /\ packets' = packets \o s1
  BY <1>1, <1>2 DEF Becomes, Over, Queue
<1>4. TypedSlot(d, p)
  BY StateTyped DEF States
<1> HIDE DEF d
<1>5. m \in Segments /\ m.port = p
  BY <1>4, AckFrom, FALSE \in BOOLEAN, Zenon DEF TypedSlot, Ack
<1> HIDE DEF m, e
<1>6. From(s1, p)
  BY <1>5, FromAfter
<1>7. o1 \in Sockets /\ o1.early = e
  BY <1>1 DEF Sockets
<1> HIDE DEF s1, o1
<1>8. Turn(i, p, d, s1, o1)
  BY <1>3, <1>4, <1>6, <1>7 DEF Turn
<1> QED BY <1>7, <1>8 DEF e

LEMMA OpenedTyped ==
    ASSUME NEW p, NEW c, TypedSlot(c, p)
    PROVE  TypedSlot(Opened(c), p) /\ From(Opening(c), p)
<1>1. CASE c.state # "TRYINGTOCONNECT"
  BY <1>1, FromNone DEF Opened, Opening
<1>2. CASE c.state = "TRYINGTOCONNECT"
  <2> DEFINE x == Plus(c.inside_seqnr, 1)
             y == Plus(c.outside_seqnr, 1)
             d == Opened(c)
             r == [d EXCEPT !.outside_seqnr = c.outside_seqnr]
             m == Reply(r, TRUE, FALSE, <<>>)
  <2>0. c \in Connections
    BY Zenon DEF TypedSlot
  <2> HIDE DEF x, y, d, r, m
  <2>1. c \in Connections /\ c.inside_seqnr \in Int /\ c.outside_seqnr \in Int /\ 1 \in Int
    <3>1. c.inside_seqnr \in 0..W - 1 /\ c.outside_seqnr \in 0..W - 1
      BY <2>0 DEF Connections
    <3>2. \A z \in 0..W - 1: z \in Int
      BY Bounds
    <3>3. 1 \in Int
      OBVIOUS
    <3> QED BY <2>0, <3>1, <3>2, <3>3, Zenon
  <2> USE DEF x, y, d, r, m
  <2>2. x \in 0..W - 1 /\ y \in 0..W - 1
    BY <2>1, PlusType, Zenon
  <2>3. d = [c EXCEPT !.state = "CONNECTED", !.outside_acknr = x, !.outside_seqnr = y]
    BY <1>2 DEF Opened
  <2>4. Opening(c) = <<m>>
    BY <1>2 DEF Opening
  <2> HIDE DEF x, y, d
  <2>5. TypedSlot(d, p)
    BY <2>1, <2>2, <2>3 DEF TypedSlot, Connections, States
  <2>6. r \in Connections /\ r.port = p
    BY <2>1, <2>5 DEF TypedSlot, Connections
  <2> HIDE DEF r
  <2>7. m \in Segments /\ m.port = p
    BY <2>6, ReplyTyped, TRUE \in BOOLEAN, FALSE \in BOOLEAN, <<>> \in Seq(Nat), Zenon
  <2> HIDE DEF m
  <2>8. From(<<m>>, p)
    BY <2>7, FromOne
  <2> QED BY <2>4, <2>5, <2>8 DEF d
<1> QED BY <1>1, <1>2

(* The slot that is looked at.                                             *)
LEMMA ActiveFacts ==
    ASSUME NatInv, NEW i \in Slots, Active(i), NEW p, p = tcp_connections[i].port
    PROVE  /\ p \in Ports /\ InUse(tcp_connections, p, i) /\ TypedSlot(tcp_connections[i], p)
           /\ outside[p].early <=> ~Clean(p)
           /\ Clean(p) /\ Unopened(tcp_connections[i]) => tcp_connections[i].incoming_buf = <<>>
           /\ Clean(p) => Polled(i, p, Opened(tcp_connections[i]))
<1>1. InUse(tcp_connections, p, i)
  BY DEF Active, InUse
<1>2. p \in Ports /\ TypedSlot(tcp_connections[i], p)
  BY <1>1, SlotTypes
<1>3. outside[p].early \in BOOLEAN
  BY <1>2, PortTypes DEF Sockets
<1>4. ASSUME Clean(p), Unopened(tcp_connections[i])
      PROVE  tcp_connections[i].incoming_buf = <<>>
  <2>1. SlotOK(tcp_connections[i], guest[p], outside[p], packets)
    BY <1>1, <1>2, <1>4, AtSlot
  <2> QED BY <1>4, <2>1 DEF SlotOK, Waiting, Synced, Unopened
<1> QED BY <1>1, <1>2, <1>3, <1>4 DEF Clean, Polled

LEMMA PollInv ==
    ASSUME NatInv, NEW i \in Slots, Poll(i)
    PROVE  NatInv'
<1> DEFINE b == tcp_connections[i]
           p == b.port
           c == Opened(b)
           s == Opening(b)
           e == <<>>
<1>1. guest' = guest /\ (Serve(i, c, s) \/ (Unopened(b) /\ Serve(i, b, e))) /\ Active(i)
  BY DEF Poll, net_tcp_rx_avail
<1>2. /\ p \in Ports /\ InUse(tcp_connections, p, i) /\ TypedSlot(b, p)
      /\ outside[p].early <=> ~Clean(p)
      /\ Clean(p) /\ Unopened(b) => b.incoming_buf = <<>>
      /\ Clean(p) => Polled(i, p, c)
  BY <1>1, ActiveFacts
<1>3. TypedSlot(c, p) /\ From(s, p) /\ From(e, p)
  <2> HIDE DEF p
  <2> QED BY <1>2, OpenedTyped, FromNone
<1> HIDE DEF b, p, c
<1>4. CASE Unopened(b) /\ Serve(i, b, e)
  <2>1. PICK c1, s1, o1:
            /\ Turn(i, p, c1, s1, o1)
            /\ outside[p].early \/ (Unopened(b) /\ b.incoming_buf = <<>> /\ e = <<>>) => o1.early
    <3>1. Serve(i, b, e) /\ From(e, p)
      BY <1>3, <1>4
    <3> HIDE DEF e
    <3> QED BY <1>2, <3>1, ServeTyped
  <2>2. o1.early
    BY <1>2, <1>4, <2>1
  <2> QED BY <1>1, <1>2, <2>1, <2>2, TurnInv
<1>5. CASE Serve(i, c, s) /\ ~Clean(p)
  <2>1. PICK c1, s1, o1: Turn(i, p, c1, s1, o1) /\ (outside[p].early => o1.early)
    <3> HIDE DEF s
    <3> QED BY <1>2, <1>3, <1>5, ServeTyped
  <2> QED BY <1>1, <1>2, <1>5, <2>1, TurnInv
<1>6. CASE Serve(i, c, s) /\ Clean(p)
  <2>1. Polled(i, p, c) /\ s = Opening(tcp_connections[i])
    BY <1>2, <1>6 DEF b
  <2> HIDE DEF s
  <2> QED BY <1>1, <1>6, <2>1, CleanPoll
<1> QED BY <1>1, <1>4, <1>5, <1>6

LEMMA FailInv ==
    ASSUME NatInv, NEW i \in Slots, Fail(i)
    PROVE  NatInv'
<1> DEFINE b == tcp_connections[i]
           p == b.port
           c == Opened(b)
           s == Opening(b)
           e == <<>>
<1>1. guest' = guest /\ Active(i)
  BY DEF Fail, Refused, Ended
<1>2. /\ p \in Ports /\ InUse(tcp_connections, p, i) /\ TypedSlot(b, p)
      /\ outside[p].early <=> ~Clean(p)
      /\ Clean(p) => Polled(i, p, c)
  BY <1>1, ActiveFacts
<1>3. TypedSlot(c, p) /\ From(s, p) /\ From(e, p)
  <2> HIDE DEF p
  <2> QED BY <1>2, OpenedTyped, FromNone
<1>4. CASE Refused(i) /\ Clean(p)
  BY <1>1, <1>4, RefusedStep
<1>5. CASE Refused(i) /\ ~Clean(p)
  <2> DEFINE d == [b EXCEPT !.state = "DISCONNECTED"]
             o == outside[p]
             o1 == [o EXCEPT !.broken = TRUE]
  <2>1. /\ Set(i, d) /\ outside' = [outside EXCEPT ![p].broken = TRUE] /\ packets' = packets
    BY <1>5 DEF Refused
  <2>2. o \in Sockets /\ p \in DOMAIN outside /\ packets \in Seq(Segments)
    BY <1>2, PortTypes
  <2>3. Becomes(outside, outside', p, o1)
    BY <2>1, <2>2 DEF Becomes
  <2>4. TypedSlot(d, p)
    BY <1>2, StateTyped DEF States
  <2>5. o1 \in Sockets /\ o1.early = o.early
    BY <2>2 DEF Sockets
  <2>6. packets' = packets \o e
    BY <2>1, <2>2
  <2> HIDE DEF o1, d, e
  <2>7. Turn(i, p, d, e, o1)
    BY <1>3, <2>1, <2>3, <2>4, <2>5, <2>6 DEF Turn
  <2> HIDE DEF p
  <2> QED BY <1>1, <1>2, <1>5, <2>5, <2>7, TurnInv
<1>6. CASE Ended(i)
  <2>1. Over(i, c, s) \/ (Unopened(b) /\ Over(i, b, e))
    BY <1>6 DEF Ended
  <2> HIDE DEF b, p, c, s, e
  <2>2. CASE Unopened(b) /\ Over(i, b, e)
    <3>1. PICK c1, s1, o1: Turn(i, p, c1, s1, o1) /\ (outside[p].early \/ Unopened(b) => o1.early)
      BY <1>2, <1>3, <2>2, OverTyped
    <3> QED BY <1>1, <1>2, <2>2, <3>1, TurnInv
  <2>3. CASE Over(i, c, s) /\ ~Clean(p)
    <3>1. PICK c1, s1, o1: Turn(i, p, c1, s1, o1) /\ (outside[p].early => o1.early)
      BY <1>2, <1>3, <2>3, OverTyped
    <3> QED BY <1>1, <1>2, <2>3, <3>1, TurnInv
  <2>4. CASE Over(i, c, s) /\ Clean(p)
    <3>1. Polled(i, p, c) /\ s = Opening(tcp_connections[i])
      BY <1>2, <2>4 DEF b, s
    <3> QED BY <1>1, <2>4, <3>1, CleanOver
  <2> QED BY <2>1, <2>2, <2>3, <2>4
<1> QED BY <1>4, <1>5, <1>6 DEF Fail

(* The socket is writable again: nothing else depends on that.             *)
LEMMA Drained ==
    ASSUME NEW o \in Sockets, NEW o1, o1 = [o EXCEPT !.full = FALSE]
    PROVE  /\ o1 \in Sockets /\ o1.early = o.early /\ o1.got = o.got /\ o1.read = o.read
           /\ \A g: PortOK(g, o) => PortOK(g, o1)
           /\ \A g: InTime(g, o) <=> InTime(g, o1)
           /\ \A m, a, e, g: PacketIs(m, a, e, g, o) => PacketIs(m, a, e, g, o1)
           /\ \A c, g, pk: SlotIs(c, g, o, pk) => SlotIs(c, g, o1, pk)
<1>1. /\ o1 \in Sockets /\ o1.early = o.early /\ o1.got = o.got /\ o1.read = o.read
      /\ o1.iss = o.iss /\ o1.todo = o.todo /\ o1.broken = o.broken
  BY DEF Sockets
<1>2. Base(o1) = Base(o)
  BY <1>1 DEF Base
<1>3. \A g: PortOK(g, o) => PortOK(g, o1)
  BY <1>1, <1>2 DEF PortOK
<1>4. \A g: InTime(g, o) <=> InTime(g, o1)
  BY <1>1 DEF InTime
<1>5. \A m, a, e, g: PacketIs(m, a, e, g, o) => PacketIs(m, a, e, g, o1)
  BY <1>1, <1>2 DEF PacketIs, PacketOK, SynOK, SegmentOK
<1>6. \A c, g: Synced(c, g, o) => Synced(c, g, o1)
  BY <1>1, <1>2 DEF Synced, BufferOK
<1>7. \A c, g, pk: Waiting(c, g, o, pk) => Waiting(c, g, o1, pk)
  BY <1>1 DEF Waiting
<1>8. \A c, g, pk: SlotIs(c, g, o, pk) => SlotIs(c, g, o1, pk)
  BY <1>1, <1>4, <1>6, <1>7 DEF SlotIs, SlotOK
<1> QED BY <1>1, <1>3, <1>4, <1>5, <1>8

LEMMA DrainStep ==
    ASSUME NatInv, NEW p \in Ports, Drain(p)
    PROVE  NatInv'
<1> DEFINE t == tcp_connections
           os == outside
           os1 == outside'
           o == os[p]
           o1 == [o EXCEPT !.full = FALSE]
<1>1. /\ PortsOK(t, packets, guest, os) /\ Chain(packets, guest, os)
      /\ SlotsOK(t, packets, guest, os)
  BY DEF NatInv, Inv
<1>2. o \in Sockets /\ DOMAIN os = Ports
  BY <1>1 DEF PortsOK, PortIs
<1>3. os1[p] = o1 /\ DOMAIN os1 = Ports /\ \A q \in Ports \ {p}: os1[q] = os[q]
  BY <1>2 DEF Drain
<1>4. t' = t /\ packets' = packets /\ guest' = guest
  BY DEF Drain
<1>5. /\ o1 \in Sockets /\ o1.early = o.early /\ o1.got = o.got /\ o1.read = o.read
      /\ \A g: PortOK(g, o) => PortOK(g, o1)
      /\ \A g: InTime(g, o) <=> InTime(g, o1)
      /\ \A m, a, e, g: PacketIs(m, a, e, g, o) => PacketIs(m, a, e, g, o1)
      /\ \A c, g, pk: SlotIs(c, g, o, pk) => SlotIs(c, g, o1, pk)
  BY <1>2, Drained
<1> HIDE DEF o1, os, os1, t
<1>6. PortsOK(t, packets, guest, os1)
  <2>1. ASSUME NEW q \in Ports PROVE PortIs(t, guest[q], os1[q], packets, q)
    <3>1. PortIs(t, guest[q], os[q], packets, q)
      BY <1>1 DEF PortsOK
    <3>2. CASE q # p
      BY <1>3, <3>1, <3>2
    <3>3. CASE q = p
      <4>1. EndOK(guest[q], o, packets, q) => EndOK(guest[q], o1, packets, q)
        BY <1>5 DEF EndOK
      <4>2. StartOK(t, guest[q], o, packets, q) => StartOK(t, guest[q], o1, packets, q)
        BY <1>5 DEF StartOK
      <4> QED BY <1>3, <1>5, <3>1, <3>3, <4>1, <4>2 DEF PortIs
    <3> QED BY <3>2, <3>3
  <2> QED BY <1>1, <1>3, <2>1 DEF PortsOK
<1>7. SlotsOK(t, packets, guest, os1)
  <2>1. ASSUME NEW i \in Slots
        PROVE  t[i] = Unused \/ SlotIs(t[i], guest[t[i].port], os1[t[i].port], packets)
    <3>1. CASE t[i] = Unused
      BY <3>1
    <3>2. CASE t[i] # Unused
      <4>1. t[i].port \in Ports /\ SlotIs(t[i], guest[t[i].port], os[t[i].port], packets)
        BY <1>1, <3>2, SlotFacts
      <4>2. CASE t[i].port = p
        BY <1>3, <1>5, <4>1, <4>2
      <4>3. CASE t[i].port # p
        BY <1>3, <4>1, <4>3
      <4> QED BY <4>2, <4>3
    <3> QED BY <3>1, <3>2
  <2> QED BY <1>1, <2>1 DEF SlotsOK
<1>8. Chain(packets, guest, os1)
  <2>1. packets \in Seq(Segments)
    BY <1>1 DEF Chain
  <2>2. PICK a, e \in [1..Len(packets) -> Nat]: ChainOf(packets, a, e, guest, os)
    BY <1>1 DEF Chain
  <2>3. ASSUME NEW j \in 1..Len(packets)
        PROVE  /\ PacketIs(packets[j], a[j], e[j], guest[packets[j].port], os1[packets[j].port])
               /\ os1[packets[j].port].early = os[packets[j].port].early
    <3> DEFINE q == packets[j].port
    <3>1. q \in Ports
      BY <2>1, SegmentType
    <3>2. PacketIs(packets[j], a[j], e[j], guest[q], os[q])
      BY <2>2 DEF ChainOf
    <3> HIDE DEF q
    <3>3. CASE q = p
      <4>1. PacketIs(packets[j], a[j], e[j], guest[q], o1)
        BY <1>5, <3>2, <3>3
      <4> QED BY <1>3, <1>5, <3>3, <4>1 DEF q
    <3>4. CASE q # p
      BY <1>3, <3>1, <3>2, <3>4 DEF q
    <3> QED BY <3>3, <3>4
  <2>4. ChainOf(packets, a, e, guest, os1)
    BY <2>2, <2>3 DEF ChainOf
  <2> QED BY <2>1, <2>2, <2>4 DEF Chain
<1>9. Inv(t, packets, guest, os1)
  BY <1>6, <1>7, <1>8 DEF Inv
<1> QED BY <1>4, <1>9 DEF NatInv, t, os1

-----------------------------------------------------------------------------
(* A segment leaves the chain.                                             *)

LEMMA FreshTyped ==
    ASSUME NEW g \in Guests, NEW m \in Segments
    PROVE  /\ Fresh(g, m) \in Seq(Nat)
           /\ \A n \in 1..Len(Fresh(g, m)) - 1: SubSeq(Fresh(g, m), 1, n) \in Seq(Nat)
<1> DEFINE x == SeqIn(g) - m.seq
           r == x % W
           f == Fresh(g, m)
<1>1. g.irs \in Int /\ Len(g.got) \in Int /\ m.seq \in Int /\ W \in Nat \ {0}
  BY GuestType, SegmentType, Bounds
<1>2. SeqIn(g) \in Int
  BY <1>1, PlusType DEF SeqIn
<1>3. x \in Int
  BY <1>1, <1>2
<1>4. f = SubSeq(m.data, r + 1, Len(m.data))
  BY DEF Fresh
<1> HIDE DEF x
<1>5. r \in Nat
  BY <1>1, <1>3, Remainder
<1> HIDE DEF r, f
<1>6. m.data \in Seq(Nat) /\ Len(m.data) \in Nat /\ r + 1 \in Nat /\ r + 1 >= 1
  BY <1>5, SegmentType
<1>7. f \in Seq(Nat)
  BY <1>4, <1>6
<1>8. ASSUME NEW n \in 1..Len(f) - 1 PROVE SubSeq(f, 1, n) \in Seq(Nat)
  BY <1>7
<1> QED BY <1>7, <1>8 DEF f

LEMMA TakenTyped ==
    ASSUME NEW g \in Guests, NEW m \in Segments, NEW data \in Seq(Nat)
    PROVE  Taken(g, m, data) \in Guests
<1> DEFINE k == (m.ack - SeqOut(g.una)) % W
           u == Una(g, m)
           got == g.got \o data
           new == [g EXCEPT !.una = u, !.got = got]
           b == m.data # <<>>
           f == m.fin /\ Plus(m.seq, Len(m.data)) = SeqIn(new)
           g1 == Taken(g, m, data)
<1>1. /\ g.una \in Nat /\ g.nxt \in Nat /\ g.got \in Seq(Nat) /\ W \in Nat \ {0}
      /\ m.ack \in 0..W - 1 /\ m.fin \in BOOLEAN
  BY GuestType, SegmentType, Bounds DEF Segments
<1>2. SeqOut(g.una) \in 0..W - 1
  BY <1>1, SeqOutType
<1>3. k \in Nat
  <2> DEFINE x == m.ack - SeqOut(g.una)
  <2>1. x \in Int
    BY <1>1, <1>2
  <2> HIDE DEF x
  <2>2. (x % W) \in 0..W - 1
    BY <1>1, <2>1, Remainder
  <2>3. k = (x % W)
    BY DEF x
  <2> HIDE DEF k
  <2> QED BY <1>1, <2>2, <2>3
<1>4. u \in Nat
  <2>1. u = IF k <= g.nxt - g.una THEN g.una + k ELSE g.una
    BY DEF Una
  <2> HIDE DEF k, u
  <2> QED BY <1>1, <1>3, <2>1
<1>5. got \in Seq(Nat)
  BY <1>1
<1>6. g1 = [new EXCEPT !.fin = @ \/ f, !.ack_due = @ \/ m.fin \/ b]
  BY DEF Taken
<1> HIDE DEF u, got
<1>7. new \in Guests
  BY <1>4, <1>5 DEF Guests
<1> HIDE DEF new, f, b, g1
<1>8. (new.fin \/ f) \in BOOLEAN /\ (new.ack_due \/ m.fin \/ b) \in BOOLEAN
  OBVIOUS
<1>9. g1 \in Guests
  BY <1>6, <1>7, <1>8 DEF Guests
<1> QED BY <1>9 DEF g1

LEMMA HandleTyped ==
    ASSUME NEW g \in Guests, NEW m \in Segments, NEW data \in Seq(Nat)
    PROVE  Handle(g, m, data) \in Guests
<1>1. Plus(m.seq, 1) \in 0..W - 1
  <2>1. m.seq \in Int /\ 1 \in Int
    BY SegmentType, Bounds
  <2> QED BY <2>1, PlusType, Zenon
<1> DEFINE x == Plus(m.seq, 1)
<1>2. [g EXCEPT !.st = "established", !.irs = x, !.ack_due = TRUE] \in Guests
  <2>1. x \in 0..W - 1
    BY <1>1
  <2> HIDE DEF x
  <2> QED BY <2>1 DEF Guests, Stages
<1>3. [g EXCEPT !.st = "done"] \in Guests
  BY DEF Guests, Stages
<1>4. Taken(g, m, data) \in Guests
  BY TakenTyped
<1> QED
  BY <1>2, <1>3, <1>4 DEF Handle

LEMMA DirtyReceive ==
    ASSUME NatInv, packets # <<>>, packets' = Tail(packets),
           tcp_connections' = tcp_connections, outside' = outside,
           NEW m, m = Head(packets), NEW p, p = m.port, ~Clean(p),
           \/ guest' = guest
           \/ guest' = [guest EXCEPT ![p] = Handle(@, m, Fresh(@, m))]
           \/ \E n \in 1..Len(Fresh(guest[p], m)) - 1:
                  guest' = [guest EXCEPT ![p] = Handle(@, m, SubSeq(Fresh(@, m), 1, n))]
    PROVE  NatInv'
<1> DEFINE g == guest[p]
           o == outside[p]
           t == tcp_connections
<1>1. /\ Chain(packets, guest, outside) /\ DOMAIN guest = Ports /\ DOMAIN outside = Ports
      /\ Inv(t, packets, guest, outside) /\ SlotsOK(t, packets, guest, outside) /\ DOMAIN t = Slots
  BY DEF NatInv, Inv, PortsOK, SlotsOK
<1>2. \A q \in Ports: guest[q] \in Guests
  BY DEF NatInv, Inv, PortsOK, PortIs
<1>3. m \in Segments /\ p \in Ports
  BY <1>1, <1>2, ChainShorter, SegmentType
<1>4. g \in Guests /\ o \in Sockets /\ o.early /\ packets \in Seq(Segments)
  BY <1>3, PortTypes DEF Clean
<1>5. \E g1 \in Guests: Becomes(guest, guest', p, g1)
  <2>1. CASE guest' = guest
    BY <1>4, <2>1 DEF Becomes
  <2>2. ASSUME NEW data \in Seq(Nat), guest' = [guest EXCEPT ![p] = Handle(@, m, data)]
        PROVE  \E g1 \in Guests: Becomes(guest, guest', p, g1)
    <3> DEFINE g1 == Handle(g, m, data)
    <3>1. Becomes(guest, guest', p, g1)
      BY <1>1, <1>3, <2>2 DEF Becomes
    <3>2. g1 \in Guests
      BY <1>3, <1>4, HandleTyped
    <3> HIDE DEF g1
    <3> QED BY <3>1, <3>2
  <2>3. CASE guest' = [guest EXCEPT ![p] = Handle(@, m, Fresh(@, m))]
    <3> DEFINE data == Fresh(g, m)
    <3>1. guest' = [guest EXCEPT ![p] = Handle(@, m, data)] /\ data \in Seq(Nat)
      BY <1>3, <1>4, <2>3, FreshTyped
    <3> HIDE DEF data
    <3> QED BY <2>2, <3>1
  <2>4. ASSUME NEW n \in 1..Len(Fresh(g, m)) - 1,
               guest' = [guest EXCEPT ![p] = Handle(@, m, SubSeq(Fresh(@, m), 1, n))]
        PROVE  \E g1 \in Guests: Becomes(guest, guest', p, g1)
    <3> DEFINE data == SubSeq(Fresh(g, m), 1, n)
    <3>1. guest' = [guest EXCEPT ![p] = Handle(@, m, data)]
      BY <2>4
    <3>2. data \in Seq(Nat)
      BY <1>3, <1>4, <2>4, FreshTyped
    <3> HIDE DEF data
    <3> QED BY <2>2, <3>1, <3>2
  <2> QED BY <2>1, <2>3, <2>4
<1>6. PICK g1 \in Guests: Becomes(guest, guest', p, g1)
  BY <1>5
<1> DEFINE gs1 == guest'
           pk1 == Tail(packets)
<1>7. gs1[p] = g1 /\ Elsewhere(guest, gs1, p) /\ DOMAIN gs1 = Ports
  BY <1>1, <1>3, <1>6, BecomesPort
<1>8. Chain(pk1, gs1, outside)
  <2>1. PICK a, e \in Nat:
            \A gs2: Elsewhere(guest, gs2, p) /\ gs2[p] \in Guests
                    /\ (o.early \/ Advance(g, gs2[p], m, a, e))
                    => Chain(Tail(packets), gs2, outside)
    BY <1>1, <1>2, ChainShorter
  <2> HIDE DEF gs1
  <2> QED BY <1>4, <1>7, <2>1
<1>9. Others(packets, pk1, p)
  BY <1>4, TailFacts
<1>10. PortIs(t, gs1[p], o, pk1, p) /\ Elsewhere(outside, outside, p)
  BY <1>4, <1>7 DEF PortIs, Elsewhere
<1>11. Inv(t, pk1, gs1, outside)
  <2> HIDE DEF gs1, pk1, t
  <2>1. CASE \A j \in Slots: ~InUse(t, p, j)
    <3>1. 0 \notin Slots
      BY SlotNumbers
    <3>2. Changed(t, t, p, 0)
      BY <2>1, <3>1 DEF Changed
    <3> QED BY <1>1, <1>3, <1>7, <1>8, <1>9, <1>10, <3>1, <3>2, PortStep
  <2>2. ASSUME NEW i \in Slots, InUse(t, p, i) PROVE Inv(t, pk1, gs1, outside)
    <3>1. \A j \in Slots \ {i}: ~InUse(t, p, j)
      BY <1>1, <1>3, <2>2 DEF SlotsOK
    <3>2. Changed(t, t, p, i)
      BY <2>2, <3>1 DEF Changed, InUse
    <3>3. TypedSlot(t[i], p)
      BY <2>2, SlotTypes DEF t
    <3>4. SlotIs(t[i], gs1[p], o, pk1) /\ t[i].port = p
      BY <1>4, <3>3 DEF SlotIs, TypedSlot
    <3> QED BY <1>1, <1>3, <1>7, <1>8, <1>9, <1>10, <3>2, <3>4, PortStep
  <2> QED BY <2>1, <2>2
<1> QED BY <1>11 DEF NatInv

LEMMA ReceiveInv ==
    ASSUME NatInv, Receive \/ Lose
    PROVE  NatInv'
<1> DEFINE m == Head(packets)
<1>1. /\ packets # <<>> /\ packets' = Tail(packets)
      /\ tcp_connections' = tcp_connections /\ outside' = outside
      /\ \/ guest' = guest
         \/ guest' = [guest EXCEPT ![m.port] = Handle(@, m, Fresh(@, m))]
         \/ \E n \in 1..Len(Fresh(guest[m.port], m)) - 1:
                guest' = [guest EXCEPT ![m.port] = Handle(@, m, SubSeq(Fresh(@, m), 1, n))]
  BY DEF Receive, Lose
<1>2. CASE Clean(m.port)
  BY <1>1, <1>2, ReceivedStep
<1>3. CASE ~Clean(m.port)
  BY <1>1, <1>3, DirtyReceive
<1> QED BY <1>2, <1>3

-----------------------------------------------------------------------------
(* The results.                                                            *)

LEMMA NoOctets ==
    ASSUME NEW s, s = <<>>
    PROVE  Len(s) = 0 /\ s = First(Len(s))
<1>1. Len(s) = 0
  OBVIOUS
<1> DEFINE n == Len(s)
           t == First(n)
<1>2. n \in Nat
  BY <1>1
<1>3. t \in Seq(Nat) /\ Len(t) = n
  <2> HIDE DEF n
  <2> QED BY <1>2, FirstSeq
<1>4. t = <<>>
  <2> HIDE DEF t
  <2> QED BY <1>1, <1>3
<1> QED
  BY <1>1, <1>4

LEMMA InitInv == Init => NatInv
<1> SUFFICES ASSUME Init PROVE NatInv
  OBVIOUS
<1>1. PICK load \in Loads:
          /\ guest = [p \in Ports |-> IF p \in DOMAIN load THEN Closed(load[p].out)
                                      ELSE [Closed(0) EXCEPT !.st = "unused"]]
          /\ outside = [p \in Ports |->
                            [todo |-> IF p \in DOMAIN load THEN load[p].in ELSE 0,
                             iss  |-> IF p \in DOMAIN load THEN load[p].iss ELSE 0,
                             read |-> 0, got |-> <<>>, broken |-> FALSE,
                             full |-> FALSE, early |-> FALSE]]
  BY DEF Init
<1>2. tcp_connections = [i \in Slots |-> Unused] /\ packets = <<>>
  BY DEF Init
<1>3. 0 \in 0..W - 1 /\ Window \in Nat /\ MaxSegment \in Nat
  BY Bounds
<1>4. ASSUME NEW p \in Ports
      PROVE  PortOK(guest[p], outside[p]) /\ outside[p].read = 0 /\ ~guest[p].fin
  <2> DEFINE g == guest[p]
             o == outside[p]
             out == IF p \in DOMAIN load THEN load[p].out ELSE 0
             in == IF p \in DOMAIN load THEN load[p].in ELSE 0
             iss == IF p \in DOMAIN load THEN load[p].iss ELSE 0
             st == IF p \in DOMAIN load THEN "closed" ELSE "unused"
  <2>1. out \in Nat /\ in \in Nat /\ iss \in 0..W - 1 /\ st \in {"closed", "unused"}
    BY <1>3, NatAssumption
  <2>2. g = [st |-> st, todo |-> out, irs |-> 0, got |-> <<>>, una |-> 0, nxt |-> 0,
             fin |-> FALSE, ack_due |-> FALSE]
    BY <1>1 DEF Closed
  <2>3. o = [todo |-> in, iss |-> iss, read |-> 0, got |-> <<>>, broken |-> FALSE,
             full |-> FALSE, early |-> FALSE]
    BY <1>1
  <2> HIDE DEF g, o, out, in, iss, st
  <2>4. /\ g \in Guests /\ g.got = <<>> /\ g.una = 0 /\ g.nxt = 0 /\ ~g.fin
        /\ g.st \in {"closed", "unused"}
    BY <1>3, <2>1, <2>2 DEF Guests, Stages
  <2>5. o \in Sockets /\ o.got = <<>> /\ o.read = 0
    BY <2>1, <2>3 DEF Sockets
  <2>6. ~Alive(g)
    BY <2>4 DEF Alive
  <2>7. PortOK(g, o)
    <3>1. /\ Len(g.got) = 0 /\ Len(o.got) = 0
          /\ g.got = First(Len(g.got)) /\ o.got = First(Len(o.got))
      BY <2>4, <2>5, NoOctets
    <3> QED BY <1>3, <2>4, <2>5, <2>6, <3>1 DEF PortOK
  <2> QED BY <2>4, <2>5, <2>7 DEF g, o
<1>5. Len(packets) = 0 /\ packets \in Seq(Segments)
  BY <1>2
<1>6. \A p: Quiet(packets, p) /\ NoFin(packets, p)
  BY <1>5 DEF Quiet, NoFin
<1>7. \A i \in Slots: tcp_connections[i] = Unused /\ ~tcp_connections[i].in_use
  BY <1>2 DEF Unused
<1>8. PortsOK(tcp_connections, packets, guest, outside)
  <2>1. DOMAIN guest = Ports /\ DOMAIN outside = Ports
    BY <1>1
  <2> QED BY <1>4, <1>6, <2>1 DEF PortsOK, PortIs, PortOK, EndOK, StartOK
<1>9. SlotsOK(tcp_connections, packets, guest, outside)
  BY <1>2, <1>7 DEF SlotsOK, InUse
<1>10. Chain(packets, guest, outside)
  <2> DEFINE a == [j \in 1..Len(packets) |-> 0]
  <2>1. a \in [1..Len(packets) -> Nat]
    OBVIOUS
  <2>2. ChainOf(packets, a, a, guest, outside)
    BY <1>5 DEF ChainOf
  <2> HIDE DEF a
  <2> QED BY <1>5, <2>1, <2>2 DEF Chain
<1> QED
  BY <1>8, <1>9, <1>10 DEF NatInv, Inv

LEMMA NextInv == NatInv /\ [Next]_vars => NatInv'
<1> SUFFICES ASSUME NatInv, [Next]_vars PROVE NatInv'
  OBVIOUS
<1>1. ASSUME NEW i \in Slots, Poll(i) PROVE NatInv'
  BY <1>1, PollInv
<1>2. ASSUME NEW i \in Slots, Fail(i) PROVE NatInv'
  BY <1>2, FailInv
<1>3. ASSUME NEW p \in Ports, Connect(p) PROVE NatInv'
  BY <1>3, ConnectStep, DirtyGuest
<1>4. ASSUME NEW p \in Ports, SendData(p) PROVE NatInv'
  BY <1>4, SendDataStep, DirtyGuest
<1>5. ASSUME NEW p \in Ports, SendAck(p) PROVE NatInv'
  BY <1>5, SendAckStep, DirtyGuest
<1>6. ASSUME NEW p \in Ports, Close(p) PROVE NatInv'
  BY <1>6, CloseStep, DirtyGuest
<1>7. ASSUME NEW p \in Ports, ResendFin(p) PROVE NatInv'
  BY <1>7, ResendFinStep, DirtyGuest
<1>8. ASSUME NEW p \in Ports, Abort(p) PROVE NatInv'
  BY <1>8, AbortStep, DirtyGuest
<1>9. CASE Receive \/ Lose
  BY <1>9, ReceiveInv
<1>10. ASSUME NEW p \in Ports, Drain(p) PROVE NatInv'
  BY <1>10, DrainStep
<1>11. CASE UNCHANGED vars
  BY <1>11 DEF vars, NatInv
<1> QED
  BY <1>1, <1>2, <1>3, <1>4, <1>5, <1>6, <1>7, <1>8, <1>9, <1>10, <1>11 DEF Next

(* The connections, the chain and both ends fit together, in every run.    *)
THEOREM NatInvariant == Spec => []NatInv
<1>1. Init => NatInv
  BY InitInv
<1>2. NatInv /\ [Next]_vars => NatInv'
  BY NextInv
<1> QED
  BY <1>1, <1>2, PTL DEF Spec

(* The slots of net_ip.c keep their types, for any number of connections,  *)
(* any segment size and any initial sequence numbers.                      *)
THEOREM NatTypes == Spec => []TypeOK
<1>1. NatInv => TypeOK
  <2> SUFFICES ASSUME NatInv, NEW i \in Slots, tcp_connections[i].in_use
               PROVE  LET c == tcp_connections[i]
                      IN  /\ c.state \in States /\ c.port \in Ports
                          /\ {c.inside_seqnr, c.inside_acknr, c.outside_seqnr, c.outside_acknr,
                              c.incoming_buf_seqnr} \subseteq 0..W - 1
                          /\ c.incoming_buf_rounds \in 0..ResendRounds
                          /\ Len(c.incoming_buf) <= MaxSegment
    BY DEF TypeOK
  <2> DEFINE c == tcp_connections[i]
  <2>1. SlotsOK(tcp_connections, packets, guest, outside)
    BY DEF NatInv, Inv
  <2>2. c \in Connections /\ SlotIs(c, guest[c.port], outside[c.port], packets)
    BY <2>1, SlotFacts
  <2> HIDE DEF c
  <2>3. Len(c.incoming_buf) <= MaxSegment
    BY <2>2 DEF SlotIs
  <2>4. /\ c.state \in States /\ c.port \in Ports
        /\ {c.inside_seqnr, c.inside_acknr, c.outside_seqnr, c.outside_acknr,
            c.incoming_buf_seqnr} \subseteq 0..W - 1
        /\ c.incoming_buf_rounds \in 0..ResendRounds
    BY <2>2 DEF Connections
  <2> QED BY <2>3, <2>4 DEF c
<1> QED
  BY <1>1, NatInvariant, PTL

LEMMA FirstInOrder ==
    ASSUME NEW s \in Seq(Nat), s = First(Len(s))
    PROVE  InOrder(s)
<1>1. DOMAIN s = 1..Len(s)
  OBVIOUS
<1> QED
  BY <1>1, Zenon DEF First, InOrder

(* However often a segment is lost, repeated by net_tcp_rx_avail() or by   *)
(* the guest, or taken in part, and though sequence numbers wrap: both     *)
(* sides get the octets that were sent, in order, each of them once,       *)
(* unless the socket was read before the guest knew of the connection.     *)
THEOREM NatStreamsIntact == Spec => []StreamsIntact
<1>1. NatInv => StreamsIntact
  <2> SUFFICES ASSUME NatInv, NEW p \in Ports, Clean(p)
               PROVE  InOrder(guest[p].got) /\ InOrder(outside[p].got)
    BY DEF StreamsIntact, Clean
  <2>1. PortOK(guest[p], outside[p])
    BY AtPort
  <2>2. /\ guest[p].got \in Seq(Nat) /\ guest[p].got = First(Len(guest[p].got))
        /\ outside[p].got \in Seq(Nat) /\ outside[p].got = First(Len(outside[p].got))
    BY <2>1, GuestType, SocketType DEF PortOK
  <2> QED BY <2>2, FirstInOrder
<1> QED
  BY <1>1, NatInvariant, PTL

(* net_ip_tcp() acknowledges to the guest only what the socket has taken,  *)
(* in order: AckedIsWritten, for every connection whose socket was not     *)
(* read before the guest knew of it.                                       *)
THEOREM NatAckedIsWritten == Spec => [](\A p \in Ports: ~outside[p].early => Acked(p))
<1>1. NatInv => \A p \in Ports: ~outside[p].early => Acked(p)
  <2> SUFFICES ASSUME NatInv, NEW p \in Ports, Clean(p) PROVE Acked(p)
    BY DEF Clean
  <2>1. PortOK(guest[p], outside[p])
    BY AtPort
  <2>2. outside[p].got \in Seq(Nat) /\ outside[p].got = First(Len(outside[p].got))
    BY <2>1, SocketType DEF PortOK
  <2>3. InOrder(outside[p].got)
    BY <2>2, FirstInOrder
  <2> QED BY <2>1, <2>3 DEF Acked, PortOK
<1> QED
  BY <1>1, NatInvariant, PTL

(* net_tcp_rx_avail() tells the guest of the end after all of the data,    *)
(* unless it has read the socket before it told the guest of the           *)
(* connection.                                                             *)
THEOREM NatEndAfterData == Spec => []EndAfterData
<1>1. NatInv => EndAfterData
  <2> SUFFICES ASSUME NatInv, NEW p \in Ports, guest[p].st = "established", guest[p].fin,
                      ~outside[p].broken, Clean(p)
               PROVE  Len(guest[p].got) = outside[p].todo
    BY DEF EndAfterData, Clean
  <2>1. PortOK(guest[p], outside[p]) /\ EndOK(guest[p], outside[p], packets, p)
    BY AtPort
  <2>2. Len(guest[p].got) = outside[p].read
    BY <2>1 DEF PortOK
  <2>3. InTime(guest[p], outside[p])
    BY <2>1 DEF EndOK
  <2>4. outside[p].read = outside[p].todo
    BY <2>3 DEF InTime
  <2> QED BY <2>2, <2>4
<1> QED
  BY <1>1, NatInvariant, PTL

=============================================================================
