---------------------------- MODULE LanceProofs -----------------------------
(***************************************************************************)
(* What is proved of the LANCE (Lance), for rings, buffers and packets of  *)
(* every size and any number of interfaces on the ethernet.                *)
(*                                                                         *)
(* The invariant says how each ring is divided between the chip and the    *)
(* driver: from one place on, the descriptors of the one and then those of *)
(* the other, whose place comes where they begin.  What a ring holds is    *)
(* defined by recursion over its descriptors; a step that changes one of   *)
(* them, or that moves a place by one, is followed through the recursion.  *)
(***************************************************************************)
EXTENDS Lance, SequenceTheorems, WellFoundedInduction, TLAPS

-----------------------------------------------------------------------------
(* Counting up, and places in a ring.                                      *)

(* A nonempty set of natural numbers has a least element.                  *)
LEMMA LeastOf ==
    ASSUME NEW T \in SUBSET Nat, T # {}
    PROVE  \E x \in T: \A y \in T: x <= y
<1> DEFINE R == {ss \in Nat \X Nat: ss[1] < ss[2]}
<1>1. IsWellFoundedOn(R, Nat)
  BY NatLessThanWellFounded, Zenon DEF OpToRel
<1> HIDE DEF R
<1>2. \E x \in T: \A y \in T: <<y, x>> \notin R
  BY <1>1, WFMin, Zenon
<1>3. \A x, y \in T: <<y, x>> \notin R => x <= y
  BY DEF R
<1> QED BY <1>2, <1>3

(* What holds of the first and is handed on holds of all.                  *)
LEMMA CountUp ==
    ASSUME NEW m \in Nat, NEW n \in Nat, NEW T, m \in T,
           \A k \in m..n - 1: k \in T => k + 1 \in T
    PROVE  \A k \in m..n: k \in T
<1> DEFINE Bad == {k \in m..n: k \notin T}
<1> SUFFICES ASSUME Bad # {} PROVE FALSE
  OBVIOUS
<1>1. Bad \in SUBSET Nat
  OBVIOUS
<1>2. PICK k \in Bad: \A y \in Bad: k <= y
  <2> HIDE DEF Bad
  <2> QED BY <1>1, LeastOf
<1>3. k \in m..n /\ k # m /\ k \in Int
  OBVIOUS
<1>4. k - 1 \in m..n - 1 /\ k - 1 \notin Bad
  BY <1>2, <1>3
<1>5. k - 1 \in T
  BY <1>4
<1>6. k - 1 + 1 \in T
  BY <1>4, <1>5
<1> QED BY <1>3, <1>6

(* A place further on in a ring of n.                                      *)
LEMMA PlaceIs ==
    ASSUME NEW n \in Nat \ {0}, NEW p \in 0..n - 1, NEW i \in 0..n
    PROVE  (p + i) % n = IF p + i >= n THEN p + i - n ELSE p + i
<1>1. \A x \in 0..n - 1: x % n = x
  OBVIOUS
<1>2. \A x \in n..2 * n - 1: x % n = x - n
  OBVIOUS
<1>3. CASE p + i >= n
  <2>1. p + i \in n..2 * n - 1
    BY <1>3
  <2> QED BY <1>2, <1>3, <2>1
<1>4. CASE ~(p + i >= n)
  <2>1. p + i \in 0..n - 1
    BY <1>4
  <2> QED BY <1>1, <1>4, <2>1
<1> QED BY <1>3, <1>4

(* The chip and the driver go on in the same way.                          *)
LEMMA NextPlaceIs ==
    ASSUME NEW n \in Nat \ {0}, NEW p \in 0..n - 1
    PROVE  NextPlace(p, n) = (p + 1) % n /\ NextPlace(p, n) \in 0..n - 1
<1>1. 1 \in 0..n
  OBVIOUS
<1>2. (p + 1) % n = IF p + 1 >= n THEN p + 1 - n ELSE p + 1
  BY <1>1, PlaceIs, Zenon
<1> QED BY <1>2 DEF NextPlace

(* The place of the i-th descriptor from p on.                             *)
PlaceOf(p, i, n) == IF p + i - 1 >= n THEN p + i - 1 - n ELSE p + i - 1

(* The i-th descriptor from a place on.                                    *)
LEMMA FromAt ==
    ASSUME NEW n \in Nat \ {0}, NEW p \in 0..n - 1, NEW ring, NEW i \in 1..n
    PROVE  From(ring, n, p)[i] = ring[PlaceOf(p, i, n)] /\ PlaceOf(p, i, n) \in 0..n - 1
<1> DEFINE k == i - 1
<1>1. k \in 0..n /\ p + k = p + i - 1
  OBVIOUS
<1> HIDE DEF k
<1>2. (p + k) % n = IF p + k >= n THEN p + k - n ELSE p + k
  BY <1>1, PlaceIs
<1>3. (p + i - 1) % n = PlaceOf(p, i, n)
  BY <1>1, <1>2 DEF PlaceOf
<1>4. From(ring, n, p)[i] = ring[(p + i - 1) % n]
  BY DEF From
<1>5. PlaceOf(p, i, n) \in 0..n - 1
  BY DEF PlaceOf
<1> QED BY <1>3, <1>4, <1>5

(* Every descriptor is somewhere in the sequence.                          *)
LEMMA InFrom ==
    ASSUME NEW n \in Nat \ {0}, NEW p \in 0..n - 1, NEW ring, NEW j \in 0..n - 1
    PROVE  \E i \in 1..n: From(ring, n, p)[i] = ring[j]
<1>1. CASE j >= p
  <2> DEFINE i == j - p + 1
  <2>1. i \in 1..n /\ p + i - 1 = j /\ ~(j >= n)
    BY <1>1
  <2> HIDE DEF i
  <2>2. From(ring, n, p)[i] = ring[PlaceOf(p, i, n)]
    BY <2>1, FromAt
  <2>3. PlaceOf(p, i, n) = j
    BY <2>1 DEF PlaceOf
  <2> QED BY <2>1, <2>2, <2>3
<1>2. CASE ~(j >= p)
  <2> DEFINE i == j - p + n + 1
  <2>1. i \in 1..n /\ p + i - 1 = j + n /\ j + n >= n /\ j + n - n = j
    BY <1>2
  <2> HIDE DEF i
  <2>2. From(ring, n, p)[i] = ring[PlaceOf(p, i, n)]
    BY <2>1, FromAt
  <2>3. PlaceOf(p, i, n) = j
    BY <2>1 DEF PlaceOf
  <2> QED BY <2>1, <2>2, <2>3
<1> QED BY <1>1, <1>2

LEMMA FirstOfRing ==
    ASSUME NEW n \in Nat \ {0}, NEW p \in 0..n - 1, NEW ring
    PROVE  From(ring, n, p)[1] = ring[p]
<1> DEFINE i == 1
<1>1. i \in 1..n /\ PlaceOf(p, i, n) = p
  BY DEF PlaceOf
<1> HIDE DEF i
<1>2. From(ring, n, p)[i] = ring[PlaceOf(p, i, n)]
  BY <1>1, FromAt
<1> QED BY <1>1, <1>2 DEF i

(* One descriptor of a ring changes.                                       *)
Changed(ring, q, x, new, n) == \A j \in 0..n - 1: new[j] = IF j = q THEN x ELSE ring[j]

ChangedAt(s, j, x, t, n) == \A i \in 1..n: t[i] = IF i = j THEN x ELSE s[i]

(* All others move to the place before.                                    *)
Turned(s, x, t, n) == \A i \in 1..n: t[i] = IF i = n THEN x ELSE s[i + 1]

(* It is k places after the first.                                         *)
LEMMA ChangeInRing ==
    ASSUME NEW n \in Nat \ {0}, NEW p \in 0..n - 1, NEW ring, NEW k \in 0..n - 1,
           NEW q, q = (p + k) % n, NEW x, NEW new, Changed(ring, q, x, new, n)
    PROVE  /\ ChangedAt(From(ring, n, p), k + 1, x, From(new, n, p), n)
           /\ q \in 0..n - 1 /\ ring[q] = From(ring, n, p)[k + 1]
<1>1. q = IF p + k >= n THEN p + k - n ELSE p + k
  <2>1. k \in 0..n
    OBVIOUS
  <2> QED BY <2>1, PlaceIs
<1>2. q \in 0..n - 1 /\ k + 1 \in 1..n
  BY <1>1
<1>3. \A j \in 0..n - 1: new[j] = IF j = q THEN x ELSE ring[j]
  BY DEF Changed
<1>4. ASSUME NEW i \in 1..n
      PROVE  From(new, n, p)[i] = IF i = k + 1 THEN x ELSE From(ring, n, p)[i]
  <2> DEFINE j == PlaceOf(p, i, n)
  <2>1. From(new, n, p)[i] = new[j] /\ From(ring, n, p)[i] = ring[j] /\ j \in 0..n - 1
    BY FromAt
  <2>2. j = q <=> i = k + 1
    BY <1>1 DEF PlaceOf
  <2> HIDE DEF j
  <2> QED BY <1>3, <2>1, <2>2
<1>7. ring[q] = From(ring, n, p)[k + 1]
  <2> DEFINE i == k + 1
  <2>1. i \in 1..n /\ PlaceOf(p, i, n) = q
    BY <1>1, <1>2 DEF PlaceOf
  <2> HIDE DEF i
  <2>2. From(ring, n, p)[i] = ring[PlaceOf(p, i, n)]
    BY <2>1, FromAt
  <2> QED BY <2>1, <2>2 DEF i
<1> QED BY <1>2, <1>4, <1>7 DEF ChangedAt

(* It is the first and becomes the last.                                   *)
LEMMA TurnRing ==
    ASSUME NEW n \in Nat \ {0}, NEW p \in 0..n - 1, NEW ring, NEW x, NEW new,
           Changed(ring, p, x, new, n)
    PROVE  /\ Turned(From(ring, n, p), x, From(new, n, (p + 1) % n), n)
           /\ (p + 1) % n \in 0..n - 1
<1> DEFINE q == (p + 1) % n
<1>0. 1 \in 0..n
  OBVIOUS
<1>1. q = IF p + 1 >= n THEN p + 1 - n ELSE p + 1
  BY <1>0, PlaceIs, Zenon
<1>2. q \in 0..n - 1
  BY <1>1
<1> HIDE DEF q
<1>3. \A j \in 0..n - 1: new[j] = IF j = p THEN x ELSE ring[j]
  BY DEF Changed
<1>4. ASSUME NEW i \in 1..n
      PROVE  From(new, n, q)[i] = IF i = n THEN x ELSE From(ring, n, p)[i + 1]
  <2> DEFINE j == PlaceOf(q, i, n)
             k == i + 1
  <2>1. From(new, n, q)[i] = new[j] /\ j \in 0..n - 1
    BY <1>2, FromAt
  <2>2. j = p <=> i = n
    BY <1>1 DEF PlaceOf
  <2>3. i # n => k \in 1..n /\ j = PlaceOf(p, k, n)
    BY <1>1 DEF PlaceOf
  <2> HIDE DEF j, k
  <2>4. i # n => From(ring, n, p)[k] = ring[j]
    BY <2>3, FromAt
  <2>5. From(new, n, q)[i] = IF i = n THEN x ELSE From(ring, n, p)[k]
    BY <1>3, <2>1, <2>2, <2>4
  <2> QED BY <2>5 DEF k
<1> QED BY <1>2, <1>4 DEF q, Turned

-----------------------------------------------------------------------------
(* Functions defined by recursion on 0..n exist.                           *)

Iterates(f, n, A, b, G) ==
    f \in [0..n -> A] /\ f[0] = b /\ \A i \in 1..n: f[i] = G[i][f[i - 1]]

(* A recursive definition on 0..n has a value.                             *)
LEMMA Iterate ==
    ASSUME NEW n \in Nat, NEW A, NEW b \in A, NEW G \in [1..n -> [A -> A]]
    PROVE  \E f: Iterates(f, n, A, b, G)
<1> DEFINE Good(f, m) == f[0] = b /\ \A i \in 1..m: f[i] = G[i][f[i - 1]]
           T == {m \in 0..n: \E f \in [0..m -> A]: Good(f, m)}
<1>1. 0 \in T
  <2> DEFINE f == [i \in 0..0 |-> b]
  <2>1. f \in [0..0 -> A] /\ f[0] = b /\ 0 \in 0..n /\ 1..0 = {}
    OBVIOUS
  <2> HIDE DEF f
  <2>2. Good(f, 0)
    BY <2>1
  <2> QED BY <2>1, <2>2
<1>2. ASSUME NEW m \in 0..n - 1, m \in T PROVE m + 1 \in T
  <2>1. PICK f \in [0..m -> A]: Good(f, m)
    BY <1>2
  <2> DEFINE g == [i \in 0..m + 1 |-> IF i = m + 1 THEN G[i][f[m]] ELSE f[i]]
  <2>2. m \in 0..m /\ m + 1 \in 1..n /\ m + 1 \in 0..n
    OBVIOUS
  <2>3. f[m] \in A /\ G[m + 1] \in [A -> A]
    BY <2>2
  <2>4. g \in [0..m + 1 -> A]
    BY <2>2, <2>3
  <2>5. ASSUME NEW i \in 1..m + 1 PROVE g[i] = G[i][g[i - 1]]
    <3>1. CASE i = m + 1
      <4>1. g[i - 1] = f[m]
        BY <3>1
      <4> QED BY <3>1, <4>1
    <3>2. CASE i # m + 1
      <4>1. i \in 1..m /\ g[i] = f[i] /\ g[i - 1] = f[i - 1]
        BY <3>2
      <4> QED BY <2>1, <4>1
    <3> QED BY <3>1, <3>2
  <2>6. g[0] = b
    BY <2>1
  <2> HIDE DEF g
  <2> QED BY <2>2, <2>4, <2>5, <2>6
<1>3. \A m \in 0..n: m \in T
  <2>1. 0 \in Nat
    OBVIOUS
  <2> HIDE DEF T
  <2> QED BY <1>1, <1>2, <2>1, CountUp, Zenon
<1>4. n \in T
  BY <1>3
<1> QED BY <1>4 DEF Iterates

-----------------------------------------------------------------------------
(* What waits in the receive ring.                                         *)

Descriptors == [own: BOOLEAN, stp: BOOLEAN, enp: BOOLEAN, cells: Seq(Cells)]
Helds == [part: Seq(Cells), whole: Seq(Seq(Cells))]

Nothing(p) == [part |-> p, whole |-> <<>>]

(* InRing, for any ring.                                                   *)
Holding(s, n, p) ==
    (CHOOSE h: h = [i \in 0..n |-> IF i = 0 THEN [part |-> p, whole |-> <<>>]
                                   ELSE ReadOn(h[i - 1], s[i])])[n]

HeldBy(h, s, n, p) ==
    /\ h \in [0..n -> Helds] /\ h[0] = Nothing(p)
    /\ \A i \in 1..n: h[i] = ReadOn(h[i - 1], s[i])

LEMMA InRingIs == InRing = Holding(From(d.rx, RLEN, gr), RLEN, part)
  BY DEF InRing, Holding

LEMMA ReadOnType ==
    ASSUME NEW h \in Helds, NEW r \in Descriptors
    PROVE  ReadOn(h, r) \in Helds
<1>1. h.part \in Seq(Cells) /\ h.whole \in Seq(Seq(Cells)) /\ r.cells \in Seq(Cells)
      /\ h = [part |-> h.part, whole |-> h.whole]
  BY DEF Helds, Descriptors
<1>2. h.part \o r.cells \in Seq(Cells)
  BY <1>1, ConcatProperties
<1>3. h.whole \o <<h.part \o r.cells>> \in Seq(Seq(Cells)) /\ <<>> \in Seq(Cells)
  <2>1. <<h.part \o r.cells>> \in Seq(Seq(Cells))
    BY <1>2
  <2> QED BY <1>1, <2>1, ConcatProperties
<1> QED BY <1>1, <1>2, <1>3 DEF ReadOn, Helds

LEMMA NothingType ==
    ASSUME NEW p \in Seq(Cells) PROVE Nothing(p) \in Helds
  BY DEF Nothing, Helds

(* What a ring holds is computed descriptor by descriptor.                 *)
LEMMA HoldingIs ==
    ASSUME NEW n \in Nat, NEW s \in [1..n -> Descriptors], NEW p \in Seq(Cells)
    PROVE  \E h: HeldBy(h, s, n, p) /\ Holding(s, n, p) = h[n]
<1> DEFINE G == [i \in 1..n |-> [a \in Helds |-> ReadOn(a, s[i])]]
           Is(h) == h = [i \in 0..n |-> IF i = 0 THEN [part |-> p, whole |-> <<>>]
                                        ELSE ReadOn(h[i - 1], s[i])]
           c == CHOOSE h: Is(h)
<1>1. G \in [1..n -> [Helds -> Helds]]
  BY ReadOnType
<1>2. \A i \in 1..n: \A a \in Helds: G[i][a] = ReadOn(a, s[i])
  OBVIOUS
<1>3. Nothing(p) \in Helds
  BY NothingType
<1> HIDE DEF G
<1>4. PICK f: Iterates(f, n, Helds, Nothing(p), G)
  BY <1>1, <1>3, Iterate
<1>5. \A i \in 1..n: f[i] = ReadOn(f[i - 1], s[i])
  <2> TAKE i \in 1..n
  <2>1. f[i] = G[i][f[i - 1]]
    BY <1>4 DEF Iterates
  <2>2. i - 1 \in 0..n
    OBVIOUS
  <2>3. f[i - 1] \in Helds
    BY <1>4, <2>2 DEF Iterates
  <2> QED BY <1>2, <2>1, <2>3
<1>6. Is(f)
  <2>1. \A i \in 0..n: f[i] = IF i = 0 THEN [part |-> p, whole |-> <<>>]
                              ELSE ReadOn(f[i - 1], s[i])
    <3> TAKE i \in 0..n
    <3>1. i # 0 => i \in 1..n
      OBVIOUS
    <3> QED BY <1>4, <1>5, <3>1 DEF Nothing, Iterates
  <2>2. f = [i \in 0..n |-> f[i]]
    BY <1>4 DEF Iterates
  <2> QED BY <2>1, <2>2
<1>7. Is(c)
  <2>1. \E h: Is(h)
    BY <1>6
  <2> HIDE DEF Is
  <2> QED BY <2>1
<1>8. Holding(s, n, p) = c[n]
  BY DEF Holding
<1> HIDE DEF c
<1>9. DOMAIN c = 0..n /\ c[0] = Nothing(p) /\ c = [i \in 0..n |-> c[i]]
  <2>1. 0 \in 0..n
    OBVIOUS
  <2>2. c[0] = [part |-> p, whole |-> <<>>]
    BY <1>7, <2>1
  <2> QED BY <1>7, <2>2 DEF Nothing
<1>10. \A i \in 1..n: c[i] = ReadOn(c[i - 1], s[i])
  <2> TAKE i \in 1..n
  <2>1. i \in 0..n /\ i # 0
    OBVIOUS
  <2> QED BY <1>7, <2>1
<1>11. \A i \in 0..n: i \in {k \in 0..n: c[k] \in Helds}
  <2> DEFINE T == {k \in 0..n: c[k] \in Helds}
  <2>1. 0 \in Nat /\ 0 \in T
    BY <1>3, <1>9
  <2>2. ASSUME NEW k \in 0..n - 1, k \in T PROVE k + 1 \in T
    <3> DEFINE j == k + 1
    <3>1. j \in 1..n /\ j - 1 = k /\ j \in 0..n
      OBVIOUS
    <3>2. c[j] = ReadOn(c[k], s[j]) /\ c[k] \in Helds /\ s[j] \in Descriptors
      BY <1>10, <2>2, <3>1
    <3>3. c[j] \in Helds
      BY <3>2, ReadOnType
    <3> QED BY <3>1, <3>3
  <2> HIDE DEF T
  <2>3. \A k \in 0..n: k \in T
    BY <2>1, <2>2, CountUp, Zenon
  <2> QED BY <2>3 DEF T
<1>12. c \in [0..n -> Helds]
  BY <1>9, <1>11
<1> QED BY <1>8, <1>9, <1>10, <1>12 DEF HeldBy

LEMMA HoldingType ==
    ASSUME NEW n \in Nat, NEW s \in [1..n -> Descriptors], NEW p \in Seq(Cells)
    PROVE  /\ Holding(s, n, p) \in Helds
           /\ Holding(s, n, p).part \in Seq(Cells)
           /\ Holding(s, n, p).whole \in Seq(Seq(Cells))
           /\ Holding(s, n, p) = [part |-> Holding(s, n, p).part,
                                  whole |-> Holding(s, n, p).whole]
<1>1. PICK h: HeldBy(h, s, n, p) /\ Holding(s, n, p) = h[n]
  BY HoldingIs
<1>2. n \in 0..n
  OBVIOUS
<1>3. Holding(s, n, p) \in Helds
  BY <1>1, <1>2 DEF HeldBy
<1> QED BY <1>3 DEF Helds

(* Buffers that are not to be read add nothing.                            *)
LEMMA HeldAsBefore ==
    ASSUME NEW n \in Nat, NEW s, NEW p, NEW h, HeldBy(h, s, n, p), NEW k \in 0..n,
           \A i \in k + 1..n: s[i].own
    PROVE  h[n] = h[k]
<1> DEFINE T == {i \in 0..n: h[i] = h[k]}
<1>1. k \in Nat /\ k \in T
  OBVIOUS
<1>2. ASSUME NEW i \in k..n - 1, i \in T PROVE i + 1 \in T
  <2> DEFINE j == i + 1
  <2>1. j \in 1..n /\ j - 1 = i /\ j \in 0..n /\ j \in k + 1..n
    OBVIOUS
  <2>2. h[j] = ReadOn(h[i], s[j]) /\ s[j].own /\ h[i] = h[k]
    BY <1>2, <2>1 DEF HeldBy
  <2>3. h[j] = h[k]
    BY <2>2 DEF ReadOn
  <2> QED BY <2>1, <2>3
<1> HIDE DEF T
<1>3. \A i \in k..n: i \in T
  BY <1>1, <1>2, CountUp, Zenon
<1>4. n \in k..n
  OBVIOUS
<1> QED BY <1>3, <1>4 DEF T

(* A buffer is filled behind those that wait.                              *)
LEMMA HoldingFilled ==
    ASSUME NEW n \in Nat, NEW s \in [1..n -> Descriptors], NEW p \in Seq(Cells),
           NEW k \in 0..n - 1, \A i \in k + 1..n: s[i].own,
           NEW t \in [1..n -> Descriptors], \A i \in 1..n: i # k + 1 => t[i] = s[i]
    PROVE  Holding(t, n, p) = ReadOn(Holding(s, n, p), t[k + 1])
<1>1. k + 1 \in 1..n /\ k + 1 \in 0..n /\ k \in 0..n /\ k \in Nat
  OBVIOUS
<1>3. PICK h: HeldBy(h, s, n, p) /\ Holding(s, n, p) = h[n]
  BY HoldingIs
<1>4. PICK g: HeldBy(g, t, n, p) /\ Holding(t, n, p) = g[n]
  BY HoldingIs
<1>5. g[k] = h[k]
  <2> DEFINE T == {i \in 0..n: g[i] = h[i]}
  <2>1. 0 \in Nat /\ 0 \in T
    BY <1>3, <1>4 DEF HeldBy
  <2>2. ASSUME NEW i \in 0..k - 1, i \in T PROVE i + 1 \in T
    <3> DEFINE j == i + 1
    <3>1. j \in 1..n /\ j - 1 = i /\ j \in 0..n /\ j # k + 1
      OBVIOUS
    <3>2. g[j] = ReadOn(g[i], t[j]) /\ h[j] = ReadOn(h[i], s[j]) /\ t[j] = s[j] /\ g[i] = h[i]
      BY <1>3, <1>4, <2>2, <3>1 DEF HeldBy
    <3> QED BY <3>1, <3>2
  <2> HIDE DEF T
  <2>3. \A i \in 0..k: i \in T
    BY <1>1, <2>1, <2>2, CountUp, Zenon
  <2>4. k \in 0..k
    OBVIOUS
  <2> QED BY <2>3, <2>4 DEF T
<1>6. h[n] = h[k]
  BY <1>1, <1>3, HeldAsBefore
<1>7. g[n] = g[k + 1]
  <2> DEFINE j == k + 1
  <2>1. j \in 0..n /\ \A i \in j + 1..n: t[i].own
    BY <1>1
  <2> HIDE DEF j
  <2>2. g[n] = g[j]
    BY <1>4, <2>1, HeldAsBefore
  <2> QED BY <2>2 DEF j
<1>8. g[k + 1] = ReadOn(g[k], t[k + 1])
  <2>1. k + 1 - 1 = k
    OBVIOUS
  <2>2. g[k + 1] = ReadOn(g[k + 1 - 1], t[k + 1])
    BY <1>1, <1>4 DEF HeldBy
  <2> QED BY <2>1, <2>2
<1> QED BY <1>3, <1>4, <1>5, <1>6, <1>7, <1>8

LEMMA PacketsAssociative ==
    ASSUME NEW s \in Seq(Seq(Cells)), NEW t \in Seq(Seq(Cells)), NEW u \in Seq(Seq(Cells))
    PROVE  (s \o t) \o u = s \o (t \o u)
  BY SMTT(30), ConcatAssociative

LEMMA CellsAssociative ==
    ASSUME NEW s \in Seq(Cells), NEW t \in Seq(Cells), NEW u \in Seq(Cells)
    PROVE  (s \o t) \o u = s \o (t \o u)
  BY SMTT(30), ConcatAssociative

(* A buffer that is read after others.                                     *)
LEMMA ReadOnAfter ==
    ASSUME NEW a \in Helds, NEW b \in Helds, NEW w \in Seq(Seq(Cells)), NEW r \in Descriptors,
           a.part = b.part, a.whole = w \o b.whole
    PROVE  /\ ReadOn(a, r).part = ReadOn(b, r).part
           /\ ReadOn(a, r).whole = w \o ReadOn(b, r).whole
<1>1. CASE r.own
  BY <1>1 DEF ReadOn
<1>2. CASE ~r.own /\ r.enp
  <2> DEFINE e == b.part \o r.cells
  <2>1. b.part \in Seq(Cells) /\ b.whole \in Seq(Seq(Cells)) /\ r.cells \in Seq(Cells)
    BY DEF Helds, Descriptors
  <2>2. e \in Seq(Cells)
    BY <2>1, ConcatProperties
  <2>3. ReadOn(a, r).part = <<>> /\ ReadOn(b, r).part = <<>>
        /\ ReadOn(a, r).whole = (w \o b.whole) \o <<e>> /\ ReadOn(b, r).whole = b.whole \o <<e>>
    BY <1>2 DEF ReadOn
  <2> HIDE DEF e
  <2>4. <<e>> \in Seq(Seq(Cells))
    BY <2>2
  <2>5. (w \o b.whole) \o <<e>> = w \o (b.whole \o <<e>>)
    BY <2>1, <2>4, PacketsAssociative
  <2> QED BY <2>3, <2>5
<1>3. CASE ~r.own /\ ~r.enp
  BY <1>3 DEF ReadOn
<1> QED BY <1>1, <1>2, <1>3

(* Reading a descriptor, with p read before, leaves q and the packets w.   *)
Reads(p, r, q, w) == ReadOn(Nothing(p), r) = [part |-> q, whole |-> w]

(* The packets w have been read of a, which leaves b.                      *)
Leaves(a, w, b) == a.part = b.part /\ a.whole = w \o b.whole

(* The first buffer has been read and given back.                          *)
LEMMA HoldingTurned ==
    ASSUME NEW n \in Nat \ {0}, NEW s \in [1..n -> Descriptors], NEW t \in [1..n -> Descriptors],
           NEW p \in Seq(Cells), NEW q \in Seq(Cells), NEW w \in Seq(Seq(Cells)),
           NEW first, first = s[1], Reads(p, first, q, w), NEW x, x.own, Turned(s, x, t, n)
    PROVE  Leaves(Holding(s, n, p), w, Holding(t, n, q))
<1>0. (\A i \in 1..n - 1: t[i] = s[i + 1]) /\ t[n].own
  <2>1. n \in 1..n /\ \A i \in 1..n - 1: i \in 1..n /\ i # n
    OBVIOUS
  <2> QED BY <2>1 DEF Turned
<1>1. PICK h: HeldBy(h, s, n, p) /\ Holding(s, n, p) = h[n]
  BY HoldingIs
<1>2. PICK g: HeldBy(g, t, n, q) /\ Holding(t, n, q) = g[n]
  BY HoldingIs
<1> DEFINE T == {i \in 0..n - 1: /\ h[i + 1].part = g[i].part
                                 /\ h[i + 1].whole = w \o g[i].whole}
           m == n - 1
<1>3. m \in Nat /\ m + 1 = n /\ 0 \in Nat
  OBVIOUS
<1>4. 0 \in T
  <2>1. 1 \in 1..n /\ 1 - 1 = 0 /\ 0 + 1 = 1 /\ 0 \in 0..n - 1
    OBVIOUS
  <2>2. h[1] = ReadOn(h[0], s[1]) /\ h[0] = Nothing(p) /\ g[0] = Nothing(q)
    BY <1>1, <1>2, <2>1 DEF HeldBy
  <2>3. h[1].part = q /\ h[1].whole = w /\ g[0].part = q /\ g[0].whole = <<>>
    BY <2>2 DEF Nothing, Reads
  <2>4. w \o <<>> = w
    BY ConcatEmptySeq
  <2>5. h[0 + 1].part = g[0].part /\ h[0 + 1].whole = w \o g[0].whole
    BY <2>1, <2>3, <2>4
  <2> QED BY <2>1, <2>5
<1>5. ASSUME NEW i \in 0..m - 1, i \in T PROVE i + 1 \in T
  <2> DEFINE j == i + 1
  <2>1. j \in 1..n /\ j + 1 \in 1..n /\ j - 1 = i /\ (j + 1) - 1 = j /\ j \in 1..n - 1
        /\ j \in 0..n - 1 /\ j \in 0..n /\ i \in 0..n
    OBVIOUS
  <2>2. h[j].part = g[i].part /\ h[j].whole = w \o g[i].whole
    BY <1>5
  <2> HIDE DEF j
  <2>3. h[j + 1] = ReadOn(h[j], s[j + 1]) /\ g[j] = ReadOn(g[i], t[j]) /\ t[j] = s[j + 1]
    BY <1>0, <1>1, <1>2, <2>1 DEF HeldBy
  <2>4. h[j] \in Helds /\ g[i] \in Helds /\ t[j] \in Descriptors
    BY <1>1, <1>2, <2>1 DEF HeldBy
  <2>5. h[j + 1].part = g[j].part /\ h[j + 1].whole = w \o g[j].whole
    <3> DEFINE a == h[j]
               b == g[i]
               r == t[j]
    <3>1. /\ a \in Helds /\ b \in Helds /\ r \in Descriptors
          /\ a.part = b.part /\ a.whole = w \o b.whole
          /\ h[j + 1] = ReadOn(a, r) /\ g[j] = ReadOn(b, r)
      BY <2>2, <2>3, <2>4
    <3> HIDE DEF a, b, r
    <3>2. /\ ReadOn(a, r).part = ReadOn(b, r).part
          /\ ReadOn(a, r).whole = w \o ReadOn(b, r).whole
      BY <3>1, ReadOnAfter
    <3> QED BY <3>1, <3>2
  <2>6. j \in T
    BY <2>1, <2>5
  <2> QED BY <2>6 DEF j
<1>6. m \in 0..m
  BY <1>3
<1> HIDE DEF T, m
<1>7. \A i \in 0..m: i \in T
  BY <1>3, <1>4, <1>5, CountUp, Zenon
<1>8. h[n].part = g[m].part /\ h[n].whole = w \o g[m].whole
  BY <1>3, <1>6, <1>7 DEF T
<1>9. g[n] = g[m]
  <2>1. m \in 0..n /\ \A i \in m + 1..n: i = n
    BY <1>3
  <2>2. \A i \in m + 1..n: t[i].own
    BY <1>0, <2>1
  <2> QED BY <1>2, <2>1, <2>2, HeldAsBefore
<1> QED BY <1>1, <1>2, <1>8, <1>9 DEF Leaves

(* Buffers that are empty, or not to be read.                              *)
LEMMA HoldingNothing ==
    ASSUME NEW n \in Nat, NEW s \in [1..n -> Descriptors], NEW p \in Seq(Cells),
           \A i \in 1..n: s[i].own \/ (~s[i].enp /\ s[i].cells = <<>>)
    PROVE  Holding(s, n, p).part = p /\ Holding(s, n, p).whole = <<>>
<1>1. PICK h: HeldBy(h, s, n, p) /\ Holding(s, n, p) = h[n]
  BY HoldingIs
<1> DEFINE T == {i \in 0..n: h[i] = Nothing(p)}
<1>2. 0 \in Nat /\ 0 \in T
  BY <1>1 DEF HeldBy
<1>3. ASSUME NEW i \in 0..n - 1, i \in T PROVE i + 1 \in T
  <2> DEFINE j == i + 1
  <2>1. j \in 1..n /\ j - 1 = i /\ j \in 0..n
    OBVIOUS
  <2>2. h[j] = ReadOn(Nothing(p), s[j])
    BY <1>1, <1>3, <2>1 DEF HeldBy
  <2>3. p \o <<>> = p
    BY ConcatEmptySeq
  <2>4. h[j] = Nothing(p)
    BY <2>1, <2>2, <2>3 DEF ReadOn, Nothing
  <2> QED BY <2>1, <2>4
<1> HIDE DEF T
<1>4. \A i \in 0..n: i \in T
  BY <1>2, <1>3, CountUp, Zenon
<1>5. n \in 0..n
  OBVIOUS
<1>6. h[n] = Nothing(p)
  BY <1>4, <1>5 DEF T
<1> QED BY <1>1, <1>6 DEF Nothing

(* A whole packet waits only if the end of one does.                       *)
LEMMA HoldingNoEnd ==
    ASSUME NEW n \in Nat, NEW s \in [1..n -> Descriptors], NEW p \in Seq(Cells),
           \A i \in 1..n: s[i].own \/ ~s[i].enp
    PROVE  Holding(s, n, p).whole = <<>>
<1>1. PICK h: HeldBy(h, s, n, p) /\ Holding(s, n, p) = h[n]
  BY HoldingIs
<1> DEFINE T == {i \in 0..n: h[i].whole = <<>>}
<1>2. 0 \in Nat /\ 0 \in T
  BY <1>1 DEF HeldBy, Nothing
<1>3. ASSUME NEW i \in 0..n - 1, i \in T PROVE i + 1 \in T
  <2> DEFINE j == i + 1
  <2>1. j \in 1..n /\ j - 1 = i /\ j \in 0..n
    OBVIOUS
  <2>2. h[j] = ReadOn(h[i], s[j]) /\ h[i].whole = <<>>
    BY <1>1, <1>3, <2>1 DEF HeldBy
  <2>3. h[j].whole = <<>>
    BY <2>1, <2>2 DEF ReadOn
  <2> QED BY <2>1, <2>3
<1> HIDE DEF T
<1>4. \A i \in 0..n: i \in T
  BY <1>2, <1>3, CountUp, Zenon
<1>5. n \in 0..n
  OBVIOUS
<1>6. h[n].whole = <<>>
  BY <1>4, <1>5 DEF T
<1> QED BY <1>1, <1>6

-----------------------------------------------------------------------------
(* What waits in the transmit ring.                                        *)

Joined(f, s, n) ==
    /\ f \in [0..n -> Seq(Cells)] /\ f[0] = <<>>
    /\ \A i \in 1..n: f[i] = f[i - 1] \o s[i]

LEMMA CellsConcat ==
    ASSUME NEW s \in Seq(Cells), NEW t \in Seq(Cells)
    PROVE  s \o t \in Seq(Cells)
  BY ConcatProperties

LEMMA CellsEmpty ==
    ASSUME NEW s \in Seq(Cells)
    PROVE  <<>> \o s = s /\ s \o <<>> = s
  BY ConcatEmptySeq

(* FlattenSeq puts the sequences one behind the other.                     *)
LEMMA FlattenIs ==
    ASSUME NEW n \in Nat \ {0}, NEW s \in [1..n -> Seq(Cells)]
    PROVE  \E f: Joined(f, s, n) /\ FlattenSeq(s) = f[n]
<1> DEFINE G == [i \in 1..n |-> [a \in Seq(Cells) |-> a \o s[i]]]
           Is(h) == h = [i \in 1..n |-> IF i = 1 THEN s[i] ELSE h[i - 1] \o s[i]]
           c == CHOOSE h: Is(h)
<1>1. G \in [1..n -> [Seq(Cells) -> Seq(Cells)]]
  BY CellsConcat
<1>2. \A i \in 1..n: \A a \in Seq(Cells): G[i][a] = a \o s[i]
  OBVIOUS
<1>3. <<>> \in Seq(Cells) /\ n \in Nat
  OBVIOUS
<1> HIDE DEF G
<1>4. PICK f: Iterates(f, n, Seq(Cells), <<>>, G)
  <2> DEFINE b == <<>>
             A == Seq(Cells)
  <2>1. b \in A /\ G \in [1..n -> [A -> A]]
    BY <1>1, <1>3
  <2> HIDE DEF b, A
  <2>2. \E f: Iterates(f, n, A, b, G)
    BY <1>3, <2>1, Iterate
  <2> QED BY <2>2 DEF b, A
<1>5. Joined(f, s, n)
  <2>1. ASSUME NEW i \in 1..n PROVE f[i] = f[i - 1] \o s[i]
    <3>1. i - 1 \in 0..n
      OBVIOUS
    <3>2. f[i] = G[i][f[i - 1]] /\ f[i - 1] \in Seq(Cells)
      BY <1>4, <3>1 DEF Iterates
    <3> QED BY <1>2, <3>2
  <2> QED BY <1>4, <2>1 DEF Joined, Iterates
<1>6. f[1] = s[1]
  <2>1. 1 \in 1..n /\ 1 - 1 = 0
    OBVIOUS
  <2>2. f[1] = <<>> \o s[1] /\ s[1] \in Seq(Cells)
    BY <1>5, <2>1 DEF Joined
  <2> QED BY <2>2, CellsEmpty
<1>7. Is(c)
  <2> DEFINE g == [i \in 1..n |-> f[i]]
  <2>1. ASSUME NEW i \in 1..n PROVE g[i] = IF i = 1 THEN s[i] ELSE g[i - 1] \o s[i]
    <3>1. i # 1 => i - 1 \in 1..n
      OBVIOUS
    <3>2. g[i] = f[i] /\ (i # 1 => g[i - 1] = f[i - 1])
      BY <3>1
    <3> QED BY <1>5, <1>6, <3>2 DEF Joined
  <2>2. g = [i \in 1..n |-> g[i]]
    OBVIOUS
  <2> HIDE DEF g
  <2>3. Is(g)
    BY <2>1, <2>2
  <2>4. \E h: Is(h)
    BY <2>3
  <2> HIDE DEF Is
  <2> QED BY <2>4
<1>8. FlattenSeq(s) = c[n]
  <2>1. Len(s) = n /\ Len(s) # 0
    BY LenProperties
  <2> QED BY <2>1 DEF FlattenSeq
<1> HIDE DEF c
<1>9. c[n] = f[n]
  <2> DEFINE T == {i \in 1..n: c[i] = f[i]}
  <2>1. 1 \in T /\ 1 \in Nat
    <3>1. 1 \in 1..n
      OBVIOUS
    <3>2. c[1] = s[1]
      BY <1>7, <3>1
    <3> QED BY <1>6, <3>1, <3>2
  <2>2. ASSUME NEW i \in 1..n - 1, i \in T PROVE i + 1 \in T
    <3> DEFINE j == i + 1
    <3>1. j \in 1..n /\ j # 1 /\ j - 1 = i
      OBVIOUS
    <3>2. c[j] = c[i] \o s[j] /\ f[j] = f[i] \o s[j] /\ c[i] = f[i]
      BY <1>5, <1>7, <2>2, <3>1 DEF Joined
    <3> QED BY <3>1, <3>2
  <2> HIDE DEF T
  <2>3. \A i \in 1..n: i \in T
    BY <1>3, <2>1, <2>2, CountUp, Zenon
  <2>4. n \in 1..n
    OBVIOUS
  <2> QED BY <2>3, <2>4 DEF T
<1> QED BY <1>5, <1>8, <1>9

LEMMA FlattenType ==
    ASSUME NEW n \in Nat \ {0}, NEW s \in [1..n -> Seq(Cells)]
    PROVE  FlattenSeq(s) \in Seq(Cells)
<1>1. PICK f: Joined(f, s, n) /\ FlattenSeq(s) = f[n]
  BY FlattenIs
<1>2. n \in 0..n
  OBVIOUS
<1> QED BY <1>1, <1>2 DEF Joined

EmptyBehind(s, k, n) == \A i \in k + 1..n: s[i] = <<>>

LEMMA JoinedAsBefore ==
    ASSUME NEW n \in Nat, NEW s, NEW f, Joined(f, s, n), NEW k \in 0..n, EmptyBehind(s, k, n)
    PROVE  f[n] = f[k]
<1> DEFINE T == {i \in 0..n: f[i] = f[k]}
<1>1. k \in Nat /\ k \in T
  OBVIOUS
<1>2. ASSUME NEW i \in k..n - 1, i \in T PROVE i + 1 \in T
  <2> DEFINE j == i + 1
  <2>1. j \in 1..n /\ j - 1 = i /\ j \in 0..n /\ j \in k + 1..n /\ i \in 0..n
    OBVIOUS
  <2>2. f[j] = f[i] \o <<>> /\ f[i] = f[k] /\ f[i] \in Seq(Cells)
    BY <1>2, <2>1 DEF Joined, EmptyBehind
  <2>3. f[j] = f[k]
    BY <2>2, CellsEmpty
  <2> QED BY <2>1, <2>3
<1> HIDE DEF T
<1>3. \A i \in k..n: i \in T
  BY <1>1, <1>2, CountUp, Zenon
<1>4. n \in k..n
  OBVIOUS
<1> QED BY <1>3, <1>4 DEF T

(* Something is put behind what waits.                                     *)
LEMMA FlattenFilled ==
    ASSUME NEW n \in Nat \ {0}, NEW s \in [1..n -> Seq(Cells)], NEW t \in [1..n -> Seq(Cells)],
           NEW k \in 0..n - 1, \A i \in k + 1..n: s[i] = <<>>,
           \A i \in 1..n: i # k + 1 => t[i] = s[i]
    PROVE  FlattenSeq(t) = FlattenSeq(s) \o t[k + 1]
<1>1. k + 1 \in 1..n /\ k + 1 \in 0..n /\ k \in 0..n /\ k \in Nat /\ n \in Nat
  OBVIOUS
<1>2. PICK f: Joined(f, s, n) /\ FlattenSeq(s) = f[n]
  BY FlattenIs
<1>3. PICK g: Joined(g, t, n) /\ FlattenSeq(t) = g[n]
  BY FlattenIs
<1>4. g[k] = f[k]
  <2> DEFINE T == {i \in 0..n: g[i] = f[i]}
  <2>1. 0 \in Nat /\ 0 \in T
    BY <1>2, <1>3 DEF Joined
  <2>2. ASSUME NEW i \in 0..k - 1, i \in T PROVE i + 1 \in T
    <3> DEFINE j == i + 1
    <3>1. j \in 1..n /\ j - 1 = i /\ j \in 0..n /\ j # k + 1
      OBVIOUS
    <3>2. g[j] = g[i] \o t[j] /\ f[j] = f[i] \o s[j] /\ t[j] = s[j] /\ g[i] = f[i]
      BY <1>2, <1>3, <2>2, <3>1 DEF Joined
    <3> QED BY <3>1, <3>2
  <2> HIDE DEF T
  <2>3. \A i \in 0..k: i \in T
    BY <1>1, <2>1, <2>2, CountUp, Zenon
  <2>4. k \in 0..k
    OBVIOUS
  <2> QED BY <2>3, <2>4 DEF T
<1>5. f[n] = f[k]
  <2>1. EmptyBehind(s, k, n)
    BY DEF EmptyBehind
  <2> QED BY <1>1, <1>2, <2>1, JoinedAsBefore
<1>6. g[n] = g[k + 1]
  <2> DEFINE j == k + 1
  <2>1. j \in 0..n /\ EmptyBehind(t, j, n)
    BY <1>1 DEF EmptyBehind
  <2> HIDE DEF j
  <2>2. g[n] = g[j]
    BY <1>1, <1>3, <2>1, JoinedAsBefore
  <2> QED BY <2>2 DEF j
<1>7. g[k + 1] = g[k] \o t[k + 1]
  <2> DEFINE j == k + 1
  <2>1. j \in 1..n /\ j - 1 = k
    OBVIOUS
  <2> HIDE DEF j
  <2>2. g[j] = g[k] \o t[j]
    BY <1>3, <2>1 DEF Joined
  <2> QED BY <2>2 DEF j
<1> QED BY <1>2, <1>3, <1>4, <1>5, <1>6, <1>7

(* The first of what waits is taken.                                       *)
LEMMA FlattenTurned ==
    ASSUME NEW n \in Nat \ {0}, NEW s \in [1..n -> Seq(Cells)], NEW t \in [1..n -> Seq(Cells)],
           \A i \in 1..n - 1: t[i] = s[i + 1], t[n] = <<>>
    PROVE  FlattenSeq(s) = s[1] \o FlattenSeq(t)
<1>1. PICK f: Joined(f, s, n) /\ FlattenSeq(s) = f[n]
  BY FlattenIs
<1>2. PICK g: Joined(g, t, n) /\ FlattenSeq(t) = g[n]
  BY FlattenIs
<1> DEFINE T == {i \in 0..n - 1: f[i + 1] = s[1] \o g[i]}
           m == n - 1
<1>3. m \in Nat /\ m + 1 = n /\ 0 \in Nat /\ n \in Nat /\ s[1] \in Seq(Cells)
  OBVIOUS
<1>4. 0 \in T
  <2>1. 1 \in 1..n /\ 1 - 1 = 0 /\ 0 + 1 = 1 /\ 0 \in 0..n - 1
    OBVIOUS
  <2>2. f[1] = <<>> \o s[1] /\ g[0] = <<>>
    BY <1>1, <1>2, <2>1 DEF Joined
  <2>3. <<>> \o s[1] = s[1] /\ s[1] \o <<>> = s[1]
    BY <1>3, CellsEmpty
  <2>4. f[0 + 1] = s[1] \o g[0]
    BY <2>1, <2>2, <2>3
  <2> QED BY <2>1, <2>4
<1>5. ASSUME NEW i \in 0..m - 1, i \in T PROVE i + 1 \in T
  <2> DEFINE j == i + 1
  <2>1. j \in 1..n /\ j + 1 \in 1..n /\ j - 1 = i /\ (j + 1) - 1 = j /\ j \in 1..n - 1
        /\ j \in 0..n - 1 /\ j \in 0..n /\ i \in 0..n
    OBVIOUS
  <2>2. f[j] = s[1] \o g[i]
    BY <1>5
  <2> HIDE DEF j
  <2>3. f[j + 1] = f[j] \o s[j + 1] /\ g[j] = g[i] \o t[j] /\ t[j] = s[j + 1]
    BY <1>1, <1>2, <2>1 DEF Joined
  <2>4. g[i] \in Seq(Cells) /\ t[j] \in Seq(Cells)
    BY <1>2, <2>1 DEF Joined
  <2>5. (s[1] \o g[i]) \o t[j] = s[1] \o (g[i] \o t[j])
    BY <1>3, <2>4, CellsAssociative
  <2>6. f[j + 1] = s[1] \o g[j]
    BY <2>2, <2>3, <2>5
  <2>7. j \in T
    BY <2>1, <2>6
  <2> QED BY <2>7 DEF j
<1>6. m \in 0..m
  BY <1>3
<1> HIDE DEF T, m
<1>7. \A i \in 0..m: i \in T
  BY <1>3, <1>4, <1>5, CountUp, Zenon
<1>8. f[n] = s[1] \o g[m]
  BY <1>3, <1>6, <1>7 DEF T
<1>9. g[n] = g[m]
  <2>1. m \in 0..n /\ \A i \in m + 1..n: i = n
    BY <1>3
  <2>2. EmptyBehind(t, m, n)
    BY <2>1 DEF EmptyBehind
  <2> QED BY <1>2, <1>3, <2>1, <2>2, JoinedAsBefore
<1> QED BY <1>1, <1>2, <1>8, <1>9

LEMMA FlattenNothing ==
    ASSUME NEW n \in Nat \ {0}, NEW s \in [1..n -> Seq(Cells)], \A i \in 1..n: s[i] = <<>>
    PROVE  FlattenSeq(s) = <<>>
<1>1. PICK f: Joined(f, s, n) /\ FlattenSeq(s) = f[n]
  BY FlattenIs
<1> DEFINE k == 0
<1>2. k \in 0..n /\ n \in Nat /\ EmptyBehind(s, k, n)
  BY DEF EmptyBehind
<1> HIDE DEF k
<1>3. f[n] = f[k]
  BY <1>1, <1>2, JoinedAsBefore
<1> QED BY <1>1, <1>3 DEF Joined, k

-----------------------------------------------------------------------------
(* The chain of packets.                                                   *)

Packets == Seq(Cells) \ {<<>>}
Links == [nic: Nics, data: Packets]

(* What waits, with one more link.                                         *)
WithLink(w, l, nic) == IF l.nic = nic THEN w \o <<l.data>> ELSE w

Found(w, c, nic, n) ==
    /\ w \in [0..n -> Seq(Packets)] /\ w[0] = <<>>
    /\ \A i \in 1..n: w[i] = WithLink(w[i - 1], c[i], nic)

LEMMA PacketsConcat ==
    ASSUME NEW s \in Seq(Packets), NEW t \in Seq(Packets)
    PROVE  s \o t \in Seq(Packets)
  BY ConcatProperties

LEMMA PacketsJoin ==
    ASSUME NEW s \in Seq(Packets), NEW t \in Seq(Packets), NEW u \in Seq(Packets)
    PROVE  (s \o t) \o u = s \o (t \o u)
  BY SMTT(30), ConcatAssociative

LEMMA PacketsEmpty ==
    ASSUME NEW s \in Seq(Packets)
    PROVE  <<>> \o s = s /\ s \o <<>> = s
  BY ConcatEmptySeq

LEMMA PacketsAppend ==
    ASSUME NEW s \in Seq(Packets), NEW e \in Packets
    PROVE  Append(s, e) = s \o <<e>> /\ <<e>> \in Seq(Packets)
<1>1. Append(s, e) = s \o <<e>>
  OBVIOUS
<1>2. <<e>> \in Seq(Packets)
  OBVIOUS
<1> QED BY <1>1, <1>2

LEMMA WithLinkType ==
    ASSUME NEW w \in Seq(Packets), NEW l \in Links, NEW nic
    PROVE  WithLink(w, l, nic) \in Seq(Packets)
<1>1. l.data \in Packets
  BY DEF Links
<1>2. <<l.data>> \in Seq(Packets)
  BY <1>1
<1>3. w \o <<l.data>> \in Seq(Packets)
  BY <1>2, PacketsConcat
<1> QED BY <1>3 DEF WithLink

(* What waits is computed link by link.                                    *)
LEMMA WaitingIs ==
    ASSUME NEW c \in Seq(Links), NEW nic
    PROVE  \E w: Found(w, c, nic, Len(c)) /\ Waiting(c, nic) = w[Len(c)]
<1> DEFINE n == Len(c)
           Is(h) == h = [i \in 0..n |-> IF i = 0 THEN <<>>
                                        ELSE IF c[i].nic = nic THEN Append(h[i - 1], c[i].data)
                                        ELSE h[i - 1]]
           x == CHOOSE h: Is(h)
           G == [i \in 1..n |-> [a \in Seq(Packets) |-> WithLink(a, c[i], nic)]]
<1>1. n \in Nat /\ \A i \in 1..n: c[i] \in Links
  OBVIOUS
<1>2. Waiting(c, nic) = x[n]
  BY DEF Waiting
<1> HIDE DEF n
<1>3. G \in [1..n -> [Seq(Packets) -> Seq(Packets)]]
  BY <1>1, WithLinkType
<1>4. \A i \in 1..n: \A a \in Seq(Packets): G[i][a] = WithLink(a, c[i], nic)
  OBVIOUS
<1>5. \A i \in 1..n: \A a \in Seq(Packets):
          Append(a, c[i].data) = a \o <<c[i].data>>
  <2> TAKE i \in 1..n
  <2> TAKE a \in Seq(Packets)
  <2>1. c[i].data \in Packets
    BY <1>1 DEF Links
  <2> QED BY <2>1, PacketsAppend
<1> HIDE DEF G
<1>6. PICK f: Iterates(f, n, Seq(Packets), <<>>, G)
  <2> DEFINE b == <<>>
             A == Seq(Packets)
  <2>1. b \in A /\ G \in [1..n -> [A -> A]]
    BY <1>3
  <2> HIDE DEF b, A, Is, x
  <2>2. \E f: Iterates(f, n, A, b, G)
    BY <1>1, <2>1, Iterate
  <2> QED BY <2>2 DEF b, A
<1>7. Found(f, c, nic, n)
  <2>1. ASSUME NEW i \in 1..n PROVE f[i] = WithLink(f[i - 1], c[i], nic)
    <3>1. i - 1 \in 0..n
      BY <1>1
    <3>2. f[i] = G[i][f[i - 1]] /\ f[i - 1] \in Seq(Packets)
      BY <1>6, <3>1 DEF Iterates
    <3> QED BY <1>4, <3>2
  <2> QED BY <1>6, <2>1 DEF Found, Iterates
<1>8. Is(x)
  <2>1. ASSUME NEW i \in 0..n
        PROVE  f[i] = IF i = 0 THEN <<>>
                      ELSE IF c[i].nic = nic THEN Append(f[i - 1], c[i].data)
                      ELSE f[i - 1]
    <3>1. CASE i = 0
      BY <1>7, <3>1 DEF Found
    <3>2. CASE i # 0
      <4>1. i \in 1..n /\ i - 1 \in 0..n
        BY <1>1, <3>2
      <4>2. f[i] = WithLink(f[i - 1], c[i], nic) /\ f[i - 1] \in Seq(Packets)
        BY <1>7, <4>1 DEF Found
      <4>3. Append(f[i - 1], c[i].data) = f[i - 1] \o <<c[i].data>>
        BY <1>5, <4>1, <4>2
      <4> QED BY <3>2, <4>2, <4>3 DEF WithLink
    <3> QED BY <3>1, <3>2
  <2>2. f = [i \in 0..n |-> f[i]]
    BY <1>6 DEF Iterates
  <2>3. Is(f)
    BY <2>1, <2>2
  <2>4. \E h: Is(h)
    BY <2>3
  <2> HIDE DEF Is
  <2> QED BY <2>4
<1> HIDE DEF x
<1>9. x[n] = f[n]
  <2> DEFINE T == {i \in 0..n: x[i] = f[i]}
  <2>1. 0 \in T /\ 0 \in Nat
    <3>1. 0 \in 0..n
      BY <1>1
    <3>2. x[0] = <<>>
      BY <1>8, <3>1
    <3> QED BY <1>7, <3>1, <3>2 DEF Found
  <2>2. ASSUME NEW i \in 0..n - 1, i \in T PROVE i + 1 \in T
    <3> DEFINE j == i + 1
    <3>1. j \in 1..n /\ j # 0 /\ j - 1 = i /\ j \in 0..n /\ i \in 0..n
      BY <1>1
    <3>2. f[j] = WithLink(f[i], c[j], nic) /\ f[i] \in Seq(Packets) /\ x[i] = f[i]
      BY <1>7, <2>2, <3>1 DEF Found
    <3>3. x[j] = IF c[j].nic = nic THEN Append(x[i], c[j].data) ELSE x[i]
      BY <1>8, <3>1
    <3>4. Append(f[i], c[j].data) = f[i] \o <<c[j].data>>
      BY <1>5, <3>1, <3>2
    <3>5. x[j] = f[j]
      BY <3>2, <3>3, <3>4 DEF WithLink
    <3> QED BY <3>1, <3>5
  <2> HIDE DEF T
  <2>3. \A i \in 0..n: i \in T
    BY <1>1, <2>1, <2>2, CountUp, Zenon
  <2>4. n \in 0..n
    BY <1>1
  <2> QED BY <2>3, <2>4 DEF T
<1> QED BY <1>2, <1>7, <1>9 DEF n

LEMMA WaitingType ==
    ASSUME NEW c \in Seq(Links), NEW nic
    PROVE  Waiting(c, nic) \in Seq(Packets)
<1>1. PICK w: Found(w, c, nic, Len(c)) /\ Waiting(c, nic) = w[Len(c)]
  BY WaitingIs
<1>2. Len(c) \in 0..Len(c)
  OBVIOUS
<1> QED BY <1>1, <1>2 DEF Found

(* Chains that begin alike.                                                *)
LEMMA FoundAlike ==
    ASSUME NEW b \in Seq(Links), NEW c \in Seq(Links), NEW nic, NEW v, NEW w,
           Found(v, b, nic, Len(b)), Found(w, c, nic, Len(c)),
           NEW k \in Nat, k <= Len(b), k <= Len(c), \A i \in 1..k: b[i] = c[i]
    PROVE  v[k] = w[k]
<1> DEFINE T == {i \in 0..k: v[i] = w[i]}
<1>1. 0 \in Nat /\ 0 \in T
  BY DEF Found
<1>2. ASSUME NEW i \in 0..k - 1, i \in T PROVE i + 1 \in T
  <2> DEFINE j == i + 1
  <2>1. j \in 1..k /\ j - 1 = i /\ j \in 0..k /\ j \in 1..Len(b) /\ j \in 1..Len(c)
    OBVIOUS
  <2>2. v[j] = WithLink(v[i], b[j], nic) /\ w[j] = WithLink(w[i], c[j], nic) /\ b[j] = c[j]
    BY <2>1 DEF Found
  <2> QED BY <1>2, <2>1, <2>2
<1> HIDE DEF T
<1>3. \A i \in 0..k: i \in T
  BY <1>1, <1>2, CountUp, Zenon
<1>4. k \in 0..k
  OBVIOUS
<1> QED BY <1>3, <1>4 DEF T

(* A link is put into the chain.                                           *)
LEMMA WaitingAppend ==
    ASSUME NEW c \in Seq(Links), NEW l \in Links, NEW nic
    PROVE  /\ Append(c, l) \in Seq(Links)
           /\ Waiting(Append(c, l), nic) = WithLink(Waiting(c, nic), l, nic)
<1> DEFINE b == Append(c, l)
           n == Len(c)
<1>1. n \in Nat /\ b \in Seq(Links) /\ Len(b) = n + 1 /\ b[n + 1] = l /\ \A i \in 1..n: b[i] = c[i]
  BY AppendProperties
<1> HIDE DEF b
<1>2. PICK w: Found(w, c, nic, n) /\ Waiting(c, nic) = w[n]
  BY WaitingIs
<1>3. PICK v: Found(v, b, nic, n + 1) /\ Waiting(b, nic) = v[n + 1]
  BY <1>1, WaitingIs
<1>4. v[n] = w[n]
  <2>1. Found(v, b, nic, Len(b)) /\ n <= Len(b) /\ n <= Len(c)
    BY <1>1, <1>3
  <2> QED BY <1>1, <1>2, <2>1, FoundAlike
<1>5. v[n + 1] = WithLink(v[n], l, nic)
  <2> DEFINE j == n + 1
  <2>1. j \in 1..j /\ j - 1 = n /\ b[j] = l
    BY <1>1
  <2>2. Found(v, b, nic, j)
    BY <1>3
  <2> HIDE DEF j
  <2>3. v[j] = WithLink(v[n], b[j], nic)
    BY <2>1, <2>2 DEF Found
  <2> QED BY <2>1, <2>3 DEF j
<1> QED BY <1>1, <1>2, <1>3, <1>4, <1>5 DEF b

(* The chain without one link.                                             *)
LEMMA RemoveAtIs ==
    ASSUME NEW c \in Seq(Links), NEW j \in 1..Len(c)
    PROVE  /\ RemoveAt(c, j) \in Seq(Links) /\ Len(RemoveAt(c, j)) = Len(c) - 1
           /\ \A i \in 1..Len(c) - 1: RemoveAt(c, j)[i] = IF i < j THEN c[i] ELSE c[i + 1]
<1> DEFINE a == SubSeq(c, 1, j - 1)
           b == SubSeq(c, j + 1, Len(c))
<1>1. Len(c) \in Nat /\ j \in Int /\ \A i \in 1..Len(c): c[i] \in Links
  OBVIOUS
<1>2. /\ a \in Seq(Links) /\ Len(a) = j - 1 /\ \A i \in 1..j - 1: a[i] = c[i]
  <2>1. \A i \in 1..j - 1: c[i] \in Links
    BY <1>1
  <2>2. 1 \in Int /\ j - 1 \in Int
    BY <1>1
  <2>3. /\ a \in Seq(Links) /\ Len(a) = IF 1 <= j - 1 THEN j - 1 - 1 + 1 ELSE 0
        /\ \A i \in 1..j - 1 - 1 + 1: a[i] = c[1 + i - 1]
    BY <2>1, <2>2, SubSeqProperties
  <2> HIDE DEF a
  <2>4. \A i \in 1..j - 1: i \in 1..j - 1 - 1 + 1 /\ 1 + i - 1 = i
    BY <1>1
  <2> QED BY <1>1, <2>3, <2>4
<1>3. /\ b \in Seq(Links) /\ Len(b) = Len(c) - j
      /\ \A i \in 1..Len(c) - j: b[i] = c[j + i]
  <2>1. \A i \in j + 1..Len(c): c[i] \in Links
    BY <1>1
  <2>2. j + 1 \in Int /\ Len(c) \in Int
    BY <1>1
  <2>3. /\ b \in Seq(Links) /\ Len(b) = IF j + 1 <= Len(c) THEN Len(c) - (j + 1) + 1 ELSE 0
        /\ \A i \in 1..Len(c) - (j + 1) + 1: b[i] = c[j + 1 + i - 1]
    BY <2>1, <2>2, SubSeqProperties
  <2> HIDE DEF b
  <2>4. \A i \in 1..Len(c) - j: i \in 1..Len(c) - (j + 1) + 1 /\ j + 1 + i - 1 = j + i
    BY <1>1
  <2> QED BY <1>1, <2>3, <2>4
<1>4. RemoveAt(c, j) = a \o b
  BY DEF RemoveAt
<1> HIDE DEF a, b
<1>5. /\ a \o b \in Seq(Links) /\ Len(a \o b) = Len(a) + Len(b)
      /\ \A i \in 1..Len(a) + Len(b): (a \o b)[i] = IF i <= Len(a) THEN a[i] ELSE b[i - Len(a)]
  BY <1>2, <1>3, ConcatProperties
<1>6. ASSUME NEW i \in 1..Len(c) - 1
      PROVE  (a \o b)[i] = IF i < j THEN c[i] ELSE c[i + 1]
  <2>1. (a \o b)[i] = IF i <= j - 1 THEN a[i] ELSE b[i - (j - 1)]
    BY <1>1, <1>2, <1>3, <1>5
  <2>2. CASE i < j
    BY <1>1, <1>2, <2>1, <2>2
  <2>3. CASE ~(i < j)
    <3> DEFINE k == i - (j - 1)
    <3>1. k \in 1..Len(c) - j /\ j + k = i + 1 /\ ~(i <= j - 1)
      BY <1>1, <2>3
    <3>2. (a \o b)[i] = b[k]
      BY <2>1, <3>1
    <3> HIDE DEF k
    <3> QED BY <1>3, <2>3, <3>1, <3>2
  <2> QED BY <2>2, <2>3
<1>7. Len(a) + Len(b) = Len(c) - 1
  BY <1>1, <1>2, <1>3
<1> QED BY <1>4, <1>5, <1>6, <1>7

(* A link of another interface is taken out of the chain.                  *)
LEMMA WaitingOther ==
    ASSUME NEW c \in Seq(Links), NEW j \in 1..Len(c), NEW nic, c[j].nic # nic
    PROVE  Waiting(RemoveAt(c, j), nic) = Waiting(c, nic)
<1> DEFINE b == RemoveAt(c, j)
           n == Len(c)
           m == n - 1
           k == j - 1
<1>1. n \in Nat /\ m \in Nat /\ k \in Nat /\ k <= m /\ k <= n /\ k + 1 = j /\ m + 1 = n
  OBVIOUS
<1>2. b \in Seq(Links) /\ Len(b) = m /\ \A i \in 1..m: b[i] = IF i < j THEN c[i] ELSE c[i + 1]
  BY RemoveAtIs
<1> HIDE DEF b, k, m
<1>3. PICK w: Found(w, c, nic, n) /\ Waiting(c, nic) = w[n]
  BY WaitingIs
<1>4. PICK v: Found(v, b, nic, m) /\ Waiting(b, nic) = v[m]
  BY <1>2, WaitingIs
<1>5. v[k] = w[k]
  <2>1. \A i \in 1..k: b[i] = c[i]
    BY <1>1, <1>2
  <2>2. Found(v, b, nic, Len(b)) /\ k <= Len(b) /\ Found(w, c, nic, Len(c)) /\ k <= Len(c)
    BY <1>1, <1>2, <1>3, <1>4
  <2> QED BY <1>1, <1>2, <2>1, <2>2, FoundAlike
<1> DEFINE T == {i \in 0..m: v[i] = w[i + 1]}
<1>6. k \in T
  <2>1. j \in 1..n /\ j - 1 = k /\ k \in 0..m
    BY <1>1
  <2>2. w[j] = w[k]
    BY <1>3, <2>1 DEF Found, WithLink
  <2> QED BY <1>1, <1>5, <2>1, <2>2
<1>7. ASSUME NEW i \in k..m - 1, i \in T PROVE i + 1 \in T
  <2> DEFINE p == i + 1
  <2>1. p \in 1..m /\ p - 1 = i /\ p \in 0..m /\ p + 1 \in 1..n /\ (p + 1) - 1 = p /\ ~(p < j)
    BY <1>1
  <2>2. v[i] = w[p]
    BY <1>7
  <2> HIDE DEF p
  <2>3. b[p] = c[p + 1]
    BY <1>2, <2>1
  <2>4. v[p] = WithLink(v[i], b[p], nic)
    BY <1>4, <2>1 DEF Found
  <2>5. w[p + 1] = WithLink(w[p], c[p + 1], nic)
    <3> DEFINE q == p + 1
    <3>1. q \in 1..n /\ q - 1 = p
      BY <2>1
    <3> HIDE DEF q
    <3>2. w[q] = WithLink(w[p], c[q], nic)
      BY <1>3, <3>1 DEF Found
    <3> QED BY <3>2 DEF q
  <2>6. p \in T
    BY <2>1, <2>2, <2>3, <2>4, <2>5
  <2> QED BY <2>6 DEF p
<1> HIDE DEF T
<1>8. \A i \in k..m: i \in T
  BY <1>1, <1>6, <1>7, CountUp, Zenon
<1>9. m \in k..m
  BY <1>1
<1>10. v[m] = w[n]
  BY <1>1, <1>8, <1>9 DEF T
<1> QED BY <1>3, <1>4, <1>10 DEF b

(* The first link of an interface is taken out of the chain.               *)
LEMMA WaitingFirst ==
    ASSUME NEW c \in Seq(Links), NEW j \in 1..Len(c), NEW nic, c[j].nic = nic,
           \A i \in 1..j - 1: c[i].nic # nic
    PROVE  /\ c[j].data \in Packets
           /\ Waiting(c, nic) = <<c[j].data>> \o Waiting(RemoveAt(c, j), nic)
<1> DEFINE b == RemoveAt(c, j)
           n == Len(c)
           m == n - 1
           k == j - 1
           e == <<c[j].data>>
<1>1. n \in Nat /\ m \in Nat /\ k \in Nat /\ k <= m /\ k <= n /\ k + 1 = j /\ m + 1 = n
  OBVIOUS
<1>2. b \in Seq(Links) /\ Len(b) = m /\ \A i \in 1..m: b[i] = IF i < j THEN c[i] ELSE c[i + 1]
  BY RemoveAtIs
<1>0. \A i \in 1..n: c[i] \in Links
  OBVIOUS
<1>d. c[j].data \in Packets /\ e \in Seq(Packets)
  <2>1. c[j].data \in Packets
    BY <1>0 DEF Links
  <2> QED BY <2>1, PacketsAppend
<1> HIDE DEF b, k, m, e
<1>3. PICK w: Found(w, c, nic, n) /\ Waiting(c, nic) = w[n]
  BY WaitingIs
<1>4. PICK v: Found(v, b, nic, m) /\ Waiting(b, nic) = v[m]
  BY <1>2, WaitingIs
<1>5. v[k] = w[k]
  <2>1. \A i \in 1..k: b[i] = c[i]
    BY <1>1, <1>2
  <2>2. Found(v, b, nic, Len(b)) /\ k <= Len(b) /\ Found(w, c, nic, Len(c)) /\ k <= Len(c)
    BY <1>1, <1>2, <1>3, <1>4
  <2> QED BY <1>1, <1>2, <2>1, <2>2, FoundAlike
<1>6. w[k] = <<>>
  <2> DEFINE T == {i \in 0..k: w[i] = <<>>}
  <2>1. 0 \in Nat /\ 0 \in T
    BY <1>1, <1>3 DEF Found
  <2>2. ASSUME NEW i \in 0..k - 1, i \in T PROVE i + 1 \in T
    <3> DEFINE p == i + 1
    <3>1. p \in 1..n /\ p - 1 = i /\ p \in 1..j - 1 /\ p \in 0..k
      BY <1>1
    <3>2. w[p] = w[i]
      BY <1>3, <3>1 DEF Found, WithLink
    <3> QED BY <2>2, <3>1, <3>2
  <2> HIDE DEF T
  <2>3. \A i \in 0..k: i \in T
    BY <1>1, <2>1, <2>2, CountUp, Zenon
  <2>4. k \in 0..k
    BY <1>1
  <2> QED BY <2>3, <2>4 DEF T
<1> DEFINE T == {i \in 0..m: w[i + 1] = e \o v[i]}
<1>7. k \in T
  <2>1. j \in 1..n /\ j - 1 = k /\ k \in 0..m
    BY <1>1
  <2>2. w[j] = <<>> \o e /\ v[k] = <<>>
    BY <1>3, <1>5, <1>6, <2>1 DEF Found, WithLink, e
  <2>3. <<>> \o e = e /\ e \o <<>> = e
    BY <1>d, PacketsEmpty
  <2>4. w[j] = e \o v[k]
    BY <2>2, <2>3
  <2> QED BY <1>1, <2>1, <2>4
<1>8. ASSUME NEW i \in k..m - 1, i \in T PROVE i + 1 \in T
  <2> DEFINE p == i + 1
  <2>1. p \in 1..m /\ p - 1 = i /\ p \in 0..m /\ p + 1 \in 1..n /\ (p + 1) - 1 = p /\ ~(p < j)
        /\ i \in 0..m
    BY <1>1
  <2>2. w[p] = e \o v[i]
    BY <1>8
  <2> HIDE DEF p
  <2>3. b[p] = c[p + 1]
    BY <1>2, <2>1
  <2>4. v[p] = WithLink(v[i], b[p], nic) /\ v[i] \in Seq(Packets)
    BY <1>4, <2>1 DEF Found
  <2>5. w[p + 1] = WithLink(w[p], c[p + 1], nic)
    <3> DEFINE q == p + 1
    <3>1. q \in 1..n /\ q - 1 = p
      BY <2>1
    <3> HIDE DEF q
    <3>2. w[q] = WithLink(w[p], c[q], nic)
      BY <1>3, <3>1 DEF Found
    <3> QED BY <3>2 DEF q
  <2>6. WithLink(e \o v[i], b[p], nic) = e \o WithLink(v[i], b[p], nic)
    <3>1. CASE b[p].nic = nic
      <4>1. b[p].data \in Packets
        BY <1>0, <2>1, <2>3 DEF Links
      <4>2. <<b[p].data>> \in Seq(Packets)
        BY <4>1, PacketsAppend
      <4>3. (e \o v[i]) \o <<b[p].data>> = e \o (v[i] \o <<b[p].data>>)
        BY <1>d, <2>4, <4>2, PacketsJoin
      <4> QED BY <3>1, <4>3 DEF WithLink
    <3>2. CASE b[p].nic # nic
      BY <3>2 DEF WithLink
    <3> QED BY <3>1, <3>2
  <2>7. w[p + 1] = e \o v[p]
    BY <2>2, <2>3, <2>4, <2>5, <2>6
  <2>8. p \in T
    BY <2>1, <2>7
  <2> QED BY <2>8 DEF p
<1> HIDE DEF T
<1>9. \A i \in k..m: i \in T
  BY <1>1, <1>7, <1>8, CountUp, Zenon
<1>10. m \in k..m
  BY <1>1
<1>11. w[n] = e \o v[m]
  BY <1>1, <1>9, <1>10 DEF T
<1> QED BY <1>3, <1>4, <1>11, <1>d DEF b, e

(* The first link of an interface.                                         *)
LEMMA FirstLinkIs ==
    ASSUME NEW c \in Seq(Links), NEW nic, net_ethernet_rx_avail(c, nic)
    PROVE  /\ FirstLink(c, nic) \in 1..Len(c) /\ c[FirstLink(c, nic)].nic = nic
           /\ \A i \in 1..FirstLink(c, nic) - 1: c[i].nic # nic
<1> DEFINE I == {i \in 1..Len(c): c[i].nic = nic}
<1>1. I \in SUBSET Nat
  OBVIOUS
<1>2. I # {}
  <2>1. PICK i \in DOMAIN c: c[i].nic = nic
    BY DEF net_ethernet_rx_avail, Range
  <2> QED BY <2>1
<1>3. FirstLink(c, nic) = CHOOSE x \in I: \A y \in I: x <= y
  BY <1>2 DEF FirstLink, SelectInSeq, Min
<1>4. FirstLink(c, nic) \in I /\ \A y \in I: FirstLink(c, nic) <= y
  <2> HIDE DEF I
  <2>1. \E x \in I: \A y \in I: x <= y
    BY <1>1, <1>2, LeastOf
  <2> QED BY <1>3, <2>1
<1> DEFINE j == FirstLink(c, nic)
<1>5. j \in 1..Len(c) /\ c[j].nic = nic
  BY <1>4
<1>6. ASSUME NEW i \in 1..j - 1 PROVE c[i].nic # nic
  <2>1. i \in 1..Len(c) /\ ~(j <= i)
    BY <1>5
  <2> QED BY <1>4, <2>1
<1> QED BY <1>5, <1>6

(* A packet is handed over.                                                *)
LEMMA PacketTaken ==
    ASSUME NEW c \in Seq(Links), NEW nic, net_ethernet_rx_avail(c, nic)
    PROVE  /\ net_ethernet_rx(c, nic).data \in Packets
           /\ net_ethernet_rx(c, nic).chain \in Seq(Links)
           /\ Waiting(c, nic) = <<net_ethernet_rx(c, nic).data>>
                                    \o Waiting(net_ethernet_rx(c, nic).chain, nic)
<1> DEFINE j == FirstLink(c, nic)
<1>1. j \in 1..Len(c) /\ c[j].nic = nic /\ \A i \in 1..j - 1: c[i].nic # nic
  BY FirstLinkIs
<1>2. net_ethernet_rx(c, nic).data = c[j].data /\ net_ethernet_rx(c, nic).chain = RemoveAt(c, j)
  BY DEF net_ethernet_rx
<1> HIDE DEF j
<1>3. c[j].data \in Packets /\ Waiting(c, nic) = <<c[j].data>> \o Waiting(RemoveAt(c, j), nic)
  BY <1>1, WaitingFirst
<1>4. RemoveAt(c, j) \in Seq(Links)
  BY <1>1, RemoveAtIs
<1> QED BY <1>2, <1>3, <1>4

(* Nothing changes for the others when an interface takes a packet.        *)
LEMMA OtherPacketTaken ==
    ASSUME NEW c \in Seq(Links), NEW nic, net_ethernet_rx_avail(c, nic), NEW me, me # nic
    PROVE  Waiting(net_ethernet_rx(c, nic).chain, me) = Waiting(c, me)
<1> DEFINE j == FirstLink(c, nic)
<1>1. j \in 1..Len(c) /\ c[j].nic # me
  BY FirstLinkIs
<1>2. net_ethernet_rx(c, nic).chain = RemoveAt(c, j)
  BY DEF net_ethernet_rx
<1> HIDE DEF j
<1> QED BY <1>1, <1>2, WaitingOther

LEMMA PacketType ==
    ASSUME NEW from \in Nics \cup {"gateway"}, NEW n \in Nat, NEW header \in Headers,
           NEW len \in Nat \ {0}
    PROVE  Packet(from, n, header, len) \in Packets /\ Len(Packet(from, n, header, len)) = len
<1> DEFINE P == Packet(from, n, header, len)
<1>1. P \in [1..len -> Cells]
  BY DEF Packet, Cells
<1> HIDE DEF P
<1>2. P \in Seq(Cells) /\ Len(P) = len
  BY <1>1
<1>3. P # <<>>
  BY <1>2
<1> QED BY <1>2, <1>3 DEF P, Packets

LEMMA PacketHead ==
    ASSUME NEW data \in Packets
    PROVE  Head(data) \in Cells /\ Head(data).n \in Nat
<1>1. Head(data) \in Cells
  BY DEF Packets
<1> QED BY <1>1 DEF Cells

LEMMA LinkType ==
    ASSUME NEW nic \in Nics, NEW data \in Packets
    PROVE  [nic |-> nic, data |-> data] \in Links
  BY DEF Links

(* What waits, with one more packet.                                       *)
Added(w, nic, data, me) == IF nic = me THEN w \o <<data>> ELSE w

LEMMA LinkAdded ==
    ASSUME NEW c \in Seq(Links), NEW nic \in Nics, NEW data \in Packets, NEW me
    PROVE  /\ net_allocate_ethernet_packet_link(c, nic, data) \in Seq(Links)
           /\ Waiting(net_allocate_ethernet_packet_link(c, nic, data), me) =
                  Added(Waiting(c, me), nic, data, me)
<1> DEFINE l == [nic |-> nic, data |-> data]
<1>1. l \in Links /\ l.nic = nic /\ l.data = data
  BY LinkType
<1>2. net_allocate_ethernet_packet_link(c, nic, data) = Append(c, l)
  BY DEF net_allocate_ethernet_packet_link
<1> HIDE DEF l
<1>3. Append(c, l) \in Seq(Links) /\ Waiting(Append(c, l), me) = WithLink(Waiting(c, me), l, me)
  BY <1>1, WaitingAppend
<1> QED BY <1>1, <1>2, <1>3 DEF WithLink, Added

(* The copies made for the first interfaces.                               *)
Copies(f, c, nic, data, n) ==
    /\ f \in [0..n -> Seq(Links)] /\ f[0] = c
    /\ \A i \in 1..n: f[i] = IF nic_data[i] = nic THEN f[i - 1]
                             ELSE net_allocate_ethernet_packet_link(f[i - 1], nic_data[i], data)

LEMMA NicsIs ==
    /\ Len(nic_data) \in Nat
    /\ \A i \in 1..Len(nic_data): nic_data[i] \in Nics
    /\ \A nic \in Nics: \E i \in 1..Len(nic_data): nic_data[i] = nic
<1>1. nic_data \in Seq(Nics)
  BY NetAssumption
<1> DEFINE N == Nics
<1>2. ASSUME NEW nic \in N PROVE \E i \in 1..Len(nic_data): nic_data[i] = nic
  <2>1. PICK i \in DOMAIN nic_data: nic_data[i] = nic
    BY DEF Nics, Range
  <2> HIDE DEF N
  <2> QED BY <1>1, <2>1
<1> HIDE DEF N
<1>3. nic_data \in Seq(N)
  BY <1>1 DEF N
<1>4. Len(nic_data) \in Nat /\ \A i \in 1..Len(nic_data): nic_data[i] \in N
  BY <1>3
<1> QED BY <1>2, <1>4 DEF N

(* The copies are made interface by interface.                             *)
LEMMA CopiesIs ==
    ASSUME NEW c \in Seq(Links), NEW nic, NEW data \in Packets
    PROVE  \E f: /\ Copies(f, c, nic, data, Len(nic_data))
                 /\ CopyToOthers(c, nic, data) = f[Len(nic_data)]
<1> DEFINE n == Len(nic_data)
           add(a, i) == IF nic_data[i] = nic THEN a
                        ELSE net_allocate_ethernet_packet_link(a, nic_data[i], data)
           Is(h) == h = [i \in 0..n |-> IF i = 0 THEN c
                                        ELSE IF nic_data[i] = nic THEN h[i - 1]
                                        ELSE net_allocate_ethernet_packet_link(h[i - 1], nic_data[i], data)]
           x == CHOOSE h: Is(h)
           G == [i \in 1..n |-> [a \in Seq(Links) |-> add(a, i)]]
<1>1. n \in Nat /\ \A i \in 1..n: nic_data[i] \in Nics
  BY NicsIs
<1>2. CopyToOthers(c, nic, data) = x[n]
  BY DEF CopyToOthers
<1> HIDE DEF n
<1>3. G \in [1..n -> [Seq(Links) -> Seq(Links)]]
  <2>1. ASSUME NEW i \in 1..n, NEW a \in Seq(Links) PROVE add(a, i) \in Seq(Links)
    BY <1>1, LinkAdded
  <2> HIDE DEF add
  <2> QED BY <2>1
<1>4. \A i \in 1..n: \A a \in Seq(Links): G[i][a] = add(a, i)
  OBVIOUS
<1> HIDE DEF G
<1>6. PICK f: Iterates(f, n, Seq(Links), c, G)
  <2> DEFINE A == Seq(Links)
  <2>1. c \in A /\ G \in [1..n -> [A -> A]]
    BY <1>3
  <2> HIDE DEF A, Is, x
  <2>2. \E f: Iterates(f, n, A, c, G)
    BY <1>1, <2>1, Iterate
  <2> QED BY <2>2 DEF A
<1>7. Copies(f, c, nic, data, n)
  <2>1. ASSUME NEW i \in 1..n PROVE f[i] = add(f[i - 1], i)
    <3>1. i - 1 \in 0..n
      BY <1>1
    <3>2. f[i] = G[i][f[i - 1]] /\ f[i - 1] \in Seq(Links)
      BY <1>6, <3>1 DEF Iterates
    <3> HIDE DEF add
    <3> QED BY <1>4, <3>2
  <2> QED BY <1>6, <2>1 DEF Copies, Iterates
<1>8. Is(x)
  <2>1. ASSUME NEW i \in 0..n
        PROVE  f[i] = IF i = 0 THEN c
                      ELSE IF nic_data[i] = nic THEN f[i - 1]
                      ELSE net_allocate_ethernet_packet_link(f[i - 1], nic_data[i], data)
    <3>1. CASE i = 0
      BY <1>7, <3>1 DEF Copies
    <3>2. CASE i # 0
      <4>1. i \in 1..n
        BY <1>1, <3>2
      <4> QED BY <1>7, <3>2, <4>1 DEF Copies
    <3> QED BY <3>1, <3>2
  <2>2. f = [i \in 0..n |-> f[i]]
    BY <1>6 DEF Iterates
  <2>3. Is(f)
    BY <2>1, <2>2
  <2>4. \E h: Is(h)
    BY <2>3
  <2> HIDE DEF Is
  <2> QED BY <2>4
<1> HIDE DEF x
<1>9. x[n] = f[n]
  <2> DEFINE T == {i \in 0..n: x[i] = f[i]}
  <2>1. 0 \in T /\ 0 \in Nat
    <3>1. 0 \in 0..n
      BY <1>1
    <3>2. x[0] = c
      BY <1>8, <3>1
    <3> QED BY <1>7, <3>1, <3>2 DEF Copies
  <2>2. ASSUME NEW i \in 0..n - 1, i \in T PROVE i + 1 \in T
    <3> DEFINE j == i + 1
    <3>1. j \in 1..n /\ j # 0 /\ j - 1 = i /\ j \in 0..n /\ i \in 0..n
      BY <1>1
    <3>2. f[j] = add(f[i], j) /\ x[i] = f[i]
      BY <1>7, <2>2, <3>1 DEF Copies
    <3>3. x[j] = add(x[i], j)
      BY <1>8, <3>1
    <3> HIDE DEF add
    <3>5. x[j] = f[j]
      BY <3>2, <3>3
    <3> QED BY <3>1, <3>5
  <2> HIDE DEF T
  <2>3. \A i \in 0..n: i \in T
    BY <1>1, <2>1, <2>2, CountUp, Zenon
  <2>4. n \in 0..n
    BY <1>1
  <2> QED BY <2>3, <2>4 DEF T
<1> QED BY <1>2, <1>7, <1>9 DEF n

(* A chain that holds everything an earlier one held for an interface.     *)
MoreFor(me, old, new) == \E e \in Seq(Packets): e # <<>> /\ Waiting(new, me) = Waiting(old, me) \o e

(* More may wait, and more behind that.                                    *)
LEMMA MoreAndMore ==
    ASSUME NEW me, NEW a \in Seq(Links), NEW b \in Seq(Links), NEW l \in Packets, NEW c \in Seq(Links),
           MoreFor(me, a, b) \/ Waiting(b, me) = Waiting(a, me),
           Waiting(c, me) = Waiting(b, me) \o <<l>>
    PROVE  MoreFor(me, a, c)
<1> DEFINE w == Waiting(a, me)
           u == <<l>>
<1>1. w \in Seq(Packets) /\ u \in Seq(Packets) /\ u # <<>>
  <2>1. w \in Seq(Packets)
    BY WaitingType
  <2>2. u \in Seq(Packets) /\ u # <<>>
    OBVIOUS
  <2> QED BY <2>1, <2>2
<1>2. CASE Waiting(b, me) = w
  BY <1>1, <1>2 DEF MoreFor
<1>3. CASE MoreFor(me, a, b)
  <2>1. PICK e \in Seq(Packets): e # <<>> /\ Waiting(b, me) = w \o e
    BY <1>3 DEF MoreFor
  <2> HIDE DEF w
  <2>2. e \o u \in Seq(Packets) /\ (w \o e) \o u = w \o (e \o u)
    <3> HIDE DEF u
    <3> QED BY <1>1, PacketsConcat, PacketsJoin
  <2>3. e \o u # <<>>
    <3>1. Len(u) = 1 /\ Len(e) \in Nat /\ Len(e \o u) = Len(e) + Len(u)
      OBVIOUS
    <3> QED BY <3>1
  <2>4. Waiting(c, me) = w \o (e \o u)
    BY <2>1, <2>2
  <2> HIDE DEF u
  <2> QED BY <2>2, <2>3, <2>4 DEF MoreFor, w
<1> QED BY <1>2, <1>3 DEF w

(* The sender gets no copy, every other interface gets at least one.       *)
LEMMA CopiesWait ==
    ASSUME NEW c \in Seq(Links), NEW nic, NEW data \in Packets, NEW me \in Nics
    PROVE  /\ CopyToOthers(c, nic, data) \in Seq(Links)
           /\ me = nic => Waiting(CopyToOthers(c, nic, data), me) = Waiting(c, me)
           /\ me # nic => MoreFor(me, c, CopyToOthers(c, nic, data))
<1> DEFINE n == Len(nic_data)
<1>1. n \in Nat /\ \A i \in 1..n: nic_data[i] \in Nics
  BY NicsIs
<1>2. PICK f: Copies(f, c, nic, data, n) /\ CopyToOthers(c, nic, data) = f[n]
  BY CopiesIs
<1> HIDE DEF n
<1>3. \A i \in 0..n: f[i] \in Seq(Links)
  BY <1>2 DEF Copies
<1>4. n \in 0..n
  BY <1>1
<1>5. ASSUME NEW j \in 1..n, me # nic_data[j] \/ me = nic
      PROVE  Waiting(f[j], me) = Waiting(f[j - 1], me)
  <2>1. j - 1 \in 0..n
    BY <1>1
  <2>2. f[j - 1] \in Seq(Links) /\ nic_data[j] \in Nics
    BY <1>1, <1>3, <2>1
  <2>3. f[j] = IF nic_data[j] = nic THEN f[j - 1]
               ELSE net_allocate_ethernet_packet_link(f[j - 1], nic_data[j], data)
    BY <1>2 DEF Copies
  <2>4. CASE nic_data[j] = nic
    BY <2>3, <2>4
  <2>5. CASE nic_data[j] # nic
    <3>1. nic_data[j] # me
      BY <1>5, <2>5
    <3>2. Waiting(f[j], me) = Added(Waiting(f[j - 1], me), nic_data[j], data, me)
      BY <2>2, <2>3, <2>5, LinkAdded
    <3> QED BY <3>1, <3>2 DEF Added
  <2> QED BY <2>4, <2>5
<1>6. ASSUME me = nic PROVE Waiting(f[n], me) = Waiting(c, me)
  <2> DEFINE T == {i \in 0..n: Waiting(f[i], me) = Waiting(c, me)}
  <2>1. 0 \in Nat /\ 0 \in T
    BY <1>1, <1>2 DEF Copies
  <2>2. ASSUME NEW i \in 0..n - 1, i \in T PROVE i + 1 \in T
    <3> DEFINE j == i + 1
    <3>1. j \in 1..n /\ j - 1 = i /\ j \in 0..n
      BY <1>1
    <3>2. Waiting(f[j], me) = Waiting(f[i], me)
      BY <1>5, <1>6, <3>1
    <3> QED BY <2>2, <3>1, <3>2
  <2> HIDE DEF T
  <2>3. \A i \in 0..n: i \in T
    BY <1>1, <2>1, <2>2, CountUp, Zenon
  <2> QED BY <1>4, <2>3 DEF T
<1>7. ASSUME me # nic PROVE MoreFor(me, c, f[n])
  <2> DEFINE Some(i) == MoreFor(me, c, f[i])
             None(i) == Waiting(f[i], me) = Waiting(c, me)
             T == {i \in 0..n: Some(i) \/ None(i)}
  <2>0. ASSUME NEW j \in 1..n, Some(j - 1) \/ None(j - 1), nic_data[j] = me PROVE Some(j)
    <3>1. j - 1 \in 0..n /\ j \in 0..n
      BY <1>1
    <3>2. f[j - 1] \in Seq(Links) /\ f[j] \in Seq(Links)
      BY <1>3, <3>1
    <3>3. f[j] = net_allocate_ethernet_packet_link(f[j - 1], nic_data[j], data)
      BY <1>2, <1>7, <2>0 DEF Copies
    <3>4. Waiting(f[j], me) = Waiting(f[j - 1], me) \o <<data>>
      <4>1. Waiting(f[j], me) = Added(Waiting(f[j - 1], me), nic_data[j], data, me)
        BY <1>1, <3>2, <3>3, LinkAdded
      <4> QED BY <2>0, <4>1 DEF Added
    <3> QED BY <2>0, <3>2, <3>4, MoreAndMore
  <2>5. ASSUME NEW j \in 1..n, nic_data[j] # me
        PROVE  (Some(j - 1) => Some(j)) /\ (None(j - 1) => None(j))
    BY <1>5, <2>5 DEF MoreFor
  <2> HIDE DEF Some, None
  <2>1. 0 \in Nat /\ 0 \in T
    <3>1. None(0) /\ 0 \in 0..n
      BY <1>1, <1>2 DEF Copies, None
    <3> QED BY <3>1
  <2>2. ASSUME NEW i \in 0..n - 1, i \in T PROVE i + 1 \in T
    <3> DEFINE j == i + 1
    <3>1. j \in 1..n /\ j - 1 = i /\ j \in 0..n
      BY <1>1
    <3> HIDE DEF j
    <3>2. j \in T
      BY <2>0, <2>2, <2>5, <3>1
    <3> QED BY <3>2 DEF j
  <2> HIDE DEF T
  <2>3. \A i \in 0..n: i \in T
    BY <1>1, <2>1, <2>2, CountUp, Zenon
  <2>4. PICK q \in 1..n: nic_data[q] = me
    BY NicsIs DEF n
  <2> DEFINE U == {i \in 0..n: Some(i)}
  <2>6. q \in U /\ q \in Nat
    <3>1. q - 1 \in 0..n /\ q \in 0..n
      BY <1>1
    <3>2. q - 1 \in T
      BY <2>3, <3>1
    <3>3. Some(q)
      BY <2>0, <2>4, <3>2 DEF T
    <3> QED BY <3>1, <3>3
  <2>7. ASSUME NEW i \in q..n - 1, i \in U PROVE i + 1 \in U
    <3> DEFINE j == i + 1
    <3>1. j \in 1..n /\ j - 1 = i /\ j \in 0..n
      BY <1>1
    <3> HIDE DEF j
    <3>2. j \in U
      BY <2>0, <2>5, <2>7, <3>1
    <3> QED BY <3>2 DEF j
  <2> HIDE DEF U
  <2>8. \A i \in q..n: i \in U
    BY <1>1, <2>6, <2>7, CountUp, Zenon
  <2>9. n \in U
    BY <1>1, <2>8
  <2> QED BY <2>9 DEF U, Some
<1> QED BY <1>2, <1>3, <1>4, <1>6, <1>7

(* A packet is sent.  The sender gets an answer or nothing.                *)
LEMMA PacketSent ==
    ASSUME NEW c \in Seq(Links), NEW nic \in Nics, NEW data \in Packets, NEW me \in Nics
    PROVE  /\ net_ethernet_tx(c, nic, data) \in Seq(Links)
           /\ \/ MoreFor(me, c, net_ethernet_tx(c, nic, data))
              \/ me = nic /\ Waiting(net_ethernet_tx(c, nic, data), me) = Waiting(c, me)
<1> DEFINE b == CopyToOthers(c, nic, data)
           a == Packet("gateway", Head(data).n, "arp", 1)
           t == net_ethernet_tx(c, nic, data)
<1>1. /\ b \in Seq(Links)
      /\ me = nic => Waiting(b, me) = Waiting(c, me)
      /\ me # nic => MoreFor(me, c, b)
  BY CopiesWait
<1>2. a \in Packets
  <2>1. Head(data).n \in Nat
    BY PacketHead
  <2>2. "gateway" \in Nics \cup {"gateway"} /\ "arp" \in Headers /\ 1 \in Nat \ {0}
    BY DEF Headers
  <2> QED BY <2>1, <2>2, PacketType
<1>3. t = IF Head(data).header = "arp" THEN net_allocate_ethernet_packet_link(b, nic, a) ELSE b
  BY DEF net_ethernet_tx, net_arp
<1> HIDE DEF a, b, t
<1>4. CASE t = b
  BY <1>1, <1>4 DEF t
<1>5. CASE t = net_allocate_ethernet_packet_link(b, nic, a)
  <2>1. /\ t \in Seq(Links)
        /\ Waiting(t, me) = Added(Waiting(b, me), nic, a, me)
    BY <1>1, <1>2, <1>5, LinkAdded
  <2>2. CASE nic = me
    <3>1. Waiting(t, me) = Waiting(b, me) \o <<a>>
      BY <2>1, <2>2 DEF Added
    <3>2. MoreFor(me, c, t)
      BY <1>1, <1>2, <2>1, <2>2, <3>1, MoreAndMore
    <3> QED BY <2>1, <3>2 DEF t
  <2>3. CASE nic # me
    BY <1>1, <2>1, <2>3 DEF MoreFor, t, Added
  <2> QED BY <2>2, <2>3
<1> QED BY <1>3, <1>4, <1>5

-----------------------------------------------------------------------------
(* The receive ring.                                                       *)

(* What le_rx has copied of a packet.                                      *)
Copied(packet, offset) == IF packet = NULL THEN <<>> ELSE SubSeq(packet, 1, offset)

Held(rx, g, p) == Holding(From(rx, RLEN, g), RLEN, p)

(* From the driver's place on there are buffers to read and then buffers   *)
(* that are the chip's; the chip is at the first of those.                 *)
RxSplit(rx, rxp, g, k) ==
    rxp = (g + k) % RLEN /\ \A i \in 1..RLEN: From(rx, RLEN, g)[i].own <=> i > k

RxRing(rx, rxp, g, p, packet, offset) ==
    /\ \E k \in 0..RLEN: RxSplit(rx, rxp, g, k)
    /\ Held(rx, g, p).part = Copied(packet, offset)

RxRings == [0..RLEN - 1 -> Descriptors]
TxRings == [0..TLEN - 1 -> Descriptors]

LEMMA Sizes == RLEN \in Nat \ {0} /\ TLEN \in Nat \ {0} /\ BufLen \in Nat \ {0}
  BY LanceAssumption

LEMMA FromType ==
    ASSUME NEW n \in Nat \ {0}, NEW p \in 0..n - 1, NEW ring \in [0..n - 1 -> Descriptors]
    PROVE  From(ring, n, p) \in [1..n -> Descriptors]
<1>1. ASSUME NEW i \in 1..n PROVE From(ring, n, p)[i] \in Descriptors
  BY FromAt
<1>2. From(ring, n, p) = [i \in 1..n |-> From(ring, n, p)[i]]
  BY DEF From
<1> QED BY <1>1, <1>2

LEMMA OneFurther ==
    ASSUME NEW n \in Nat \ {0}, NEW g \in 0..n - 1, NEW k \in 0..n - 1
    PROVE  (((g + k) % n) + 1) % n = (g + (k + 1)) % n
<1>1. (g + k) % n = IF g + k >= n THEN g + k - n ELSE g + k
  <2>1. k \in 0..n
    OBVIOUS
  <2> QED BY <2>1, PlaceIs
<1>2. (g + (k + 1)) % n = IF g + (k + 1) >= n THEN g + (k + 1) - n ELSE g + (k + 1)
  <2> DEFINE j == k + 1
  <2>1. j \in 0..n
    OBVIOUS
  <2> HIDE DEF j
  <2>2. (g + j) % n = IF g + j >= n THEN g + j - n ELSE g + j
    BY <2>1, PlaceIs
  <2> QED BY <2>2 DEF j
<1> DEFINE q == (g + k) % n
<1>3. q \in 0..n - 1
  BY <1>1
<1> HIDE DEF q
<1>4. (q + 1) % n = IF q + 1 >= n THEN q + 1 - n ELSE q + 1
  <2>1. 1 \in 0..n
    OBVIOUS
  <2> QED BY <1>3, <2>1, PlaceIs
<1>5. q = IF g + k >= n THEN g + k - n ELSE g + k
  BY <1>1 DEF q
<1> DEFINE r == (g + (k + 1)) % n
<1>6. (q + 1) % n = r
  <2>1. r = IF g + (k + 1) >= n THEN g + (k + 1) - n ELSE g + (k + 1)
    BY <1>2
  <2> HIDE DEF r
  <2> QED BY <1>3, <1>4, <1>5, <2>1
<1> QED BY <1>6 DEF q, r

LEMMA SubSeqType ==
    ASSUME NEW s \in Seq(Cells), NEW a \in 1..Len(s) + 1, NEW b \in a - 1..Len(s)
    PROVE  /\ SubSeq(s, a, b) \in Seq(Cells) /\ Len(SubSeq(s, a, b)) = b - a + 1
           /\ \A i \in 1..b - a + 1: SubSeq(s, a, b)[i] = s[a + i - 1]
<1>1. \A i \in a..b: s[i] \in Cells
  OBVIOUS
<1>2. a \in Int /\ b \in Int
  OBVIOUS
<1>3. /\ SubSeq(s, a, b) \in Seq(Cells)
      /\ Len(SubSeq(s, a, b)) = IF a <= b THEN b - a + 1 ELSE 0
      /\ \A i \in 1..b - a + 1: SubSeq(s, a, b)[i] = s[a + i - 1]
  BY <1>1, <1>2, SubSeqProperties
<1> QED BY <1>2, <1>3

LEMMA SubSeqJoin ==
    ASSUME NEW s \in Seq(Cells), NEW a \in 0..Len(s), NEW b \in a..Len(s)
    PROVE  SubSeq(s, 1, a) \o SubSeq(s, a + 1, b) = SubSeq(s, 1, b)
<1> DEFINE u == SubSeq(s, 1, a)
           v == SubSeq(s, a + 1, b)
           w == SubSeq(s, 1, b)
<1>1. 1 \in 1..Len(s) + 1 /\ a + 1 \in 1..Len(s) + 1 /\ a \in 1 - 1..Len(s)
      /\ b \in a + 1 - 1..Len(s) /\ b \in 1 - 1..Len(s) /\ a \in Int /\ b \in Int
  OBVIOUS
<1>2. u \in Seq(Cells) /\ Len(u) = a - 1 + 1 /\ \A i \in 1..a - 1 + 1: u[i] = s[1 + i - 1]
  BY <1>1, SubSeqType
<1>3. /\ v \in Seq(Cells) /\ Len(v) = b - (a + 1) + 1
      /\ \A i \in 1..b - (a + 1) + 1: v[i] = s[a + 1 + i - 1]
  BY <1>1, SubSeqType
<1>4. w \in Seq(Cells) /\ Len(w) = b - 1 + 1 /\ \A i \in 1..b - 1 + 1: w[i] = s[1 + i - 1]
  BY <1>1, SubSeqType
<1> HIDE DEF u, v, w
<1>5. u \o v \in Seq(Cells) /\ Len(u \o v) = Len(u) + Len(v)
      /\ \A i \in 1..Len(u) + Len(v): (u \o v)[i] = IF i <= Len(u) THEN u[i] ELSE v[i - Len(u)]
  BY <1>2, <1>3, ConcatProperties
<1>6. Len(u) = a /\ Len(v) = b - a /\ Len(w) = b /\ Len(u \o v) = b
  BY <1>1, <1>2, <1>3, <1>4, <1>5
<1>7. ASSUME NEW i \in 1..b PROVE (u \o v)[i] = w[i]
  <2>1. w[i] = s[i]
    BY <1>1, <1>4
  <2>2. (u \o v)[i] = IF i <= a THEN u[i] ELSE v[i - a]
    BY <1>1, <1>5, <1>6
  <2>3. CASE i <= a
    BY <1>1, <1>2, <2>1, <2>2, <2>3
  <2>4. CASE ~(i <= a)
    <3> DEFINE j == i - a
    <3>1. j \in 1..b - (a + 1) + 1 /\ a + 1 + j - 1 = i
      BY <1>1, <2>4
    <3>2. (u \o v)[i] = v[j]
      BY <2>2, <2>4
    <3> HIDE DEF j
    <3> QED BY <1>3, <2>1, <3>1, <3>2
  <2> QED BY <2>3, <2>4
<1>8. u \o v = w
  BY <1>4, <1>5, <1>6, <1>7, SeqEqual
<1> QED BY <1>8 DEF u, v, w

LEMMA SubSeqAll ==
    ASSUME NEW s \in Seq(Cells)
    PROVE  SubSeq(s, 1, Len(s)) = s /\ SubSeq(s, 1, 0) = <<>>
<1>1. SubSeq(s, 1, Len(s)) = s
  OBVIOUS
<1>2. SubSeq(s, 1, 0) = <<>>
  OBVIOUS
<1> QED BY <1>1, <1>2

(* Whole packets and the beginning of one.                                 *)
LEMMA HeldType ==
    ASSUME NEW rx \in RxRings, NEW g \in 0..RLEN - 1, NEW p \in Seq(Cells)
    PROVE  /\ From(rx, RLEN, g) \in [1..RLEN -> Descriptors]
           /\ Held(rx, g, p) \in Helds
           /\ Held(rx, g, p).part \in Seq(Cells) /\ Held(rx, g, p).whole \in Seq(Seq(Cells))
           /\ Held(rx, g, p) = [part |-> Held(rx, g, p).part, whole |-> Held(rx, g, p).whole]
<1> DEFINE s == From(rx, RLEN, g)
<1>1. RLEN \in Nat \ {0} /\ RLEN \in Nat
  BY Sizes
<1>2. s \in [1..RLEN -> Descriptors]
  BY <1>1, FromType DEF RxRings
<1>3. Held(rx, g, p) = Holding(s, RLEN, p)
  BY DEF Held
<1> HIDE DEF s
<1>4. /\ Holding(s, RLEN, p) \in Helds
      /\ Holding(s, RLEN, p).part \in Seq(Cells) /\ Holding(s, RLEN, p).whole \in Seq(Seq(Cells))
      /\ Holding(s, RLEN, p) = [part  |-> Holding(s, RLEN, p).part,
                                whole |-> Holding(s, RLEN, p).whole]
  BY <1>1, <1>2, HoldingType
<1>5. From(rx, RLEN, g) \in [1..RLEN -> Descriptors]
  BY <1>2 DEF s
<1> QED BY <1>3, <1>4, <1>5

(* The chip fills its descriptor.                                          *)
LEMMA RxSplitFilled ==
    ASSUME NEW rx \in RxRings, NEW g \in 0..RLEN - 1, NEW rxp, NEW k \in 0..RLEN,
           RxSplit(rx, rxp, g, k), rx[rxp].own, NEW x \in Descriptors, ~x.own,
           NEW new \in RxRings, Changed(rx, rxp, x, new, RLEN)
    PROVE  /\ k \in 0..RLEN - 1 /\ rxp \in 0..RLEN - 1
           /\ RxSplit(new, (rxp + 1) % RLEN, g, k + 1)
           /\ From(new, RLEN, g)[k + 1] = x
           /\ \A i \in 1..RLEN: i # k + 1 => From(new, RLEN, g)[i] = From(rx, RLEN, g)[i]
<1> DEFINE s == From(rx, RLEN, g)
           t == From(new, RLEN, g)
<1>0. RLEN \in Nat \ {0}
  BY Sizes
<1>1. RLEN \in Nat /\ g \in Int /\ k \in Int
  BY Sizes
<1>3. rxp = (g + k) % RLEN /\ \A i \in 1..RLEN: s[i].own <=> i > k
  BY DEF RxSplit
<1>4. k # RLEN
  <2> SUFFICES ASSUME k = RLEN PROVE FALSE
    OBVIOUS
  <2>1. rxp = g
    <3>1. RLEN \in 0..RLEN
      BY <1>1
    <3>2. (g + RLEN) % RLEN = IF g + RLEN >= RLEN THEN g + RLEN - RLEN ELSE g + RLEN
      BY <1>0, <3>1, PlaceIs
    <3>3. g + RLEN >= RLEN /\ g + RLEN - RLEN = g
      BY <1>1
    <3> QED BY <1>3, <3>2, <3>3
  <2>2. s[1] = rx[g] /\ 1 \in 1..RLEN
    BY <1>0, FirstOfRing
  <2> QED BY <1>1, <1>3, <2>1, <2>2
<1>5. k \in 0..RLEN - 1 /\ k + 1 \in 1..RLEN
  BY <1>1, <1>4
<1>6. ChangedAt(s, k + 1, x, t, RLEN) /\ rxp \in 0..RLEN - 1
  BY <1>0, <1>3, <1>5, ChangeInRing
<1>7. (rxp + 1) % RLEN = (g + (k + 1)) % RLEN
  BY <1>0, <1>3, <1>5, OneFurther
<1> HIDE DEF s, t
<1>8. t[k + 1] = x /\ \A i \in 1..RLEN: i # k + 1 => t[i] = s[i]
  BY <1>5, <1>6 DEF ChangedAt
<1>9. \A i \in 1..RLEN: t[i].own <=> i > k + 1
  <2> TAKE i \in 1..RLEN
  <2>1. CASE i = k + 1
    BY <1>8, <2>1
  <2>2. CASE i # k + 1
    BY <1>1, <1>3, <1>8, <2>2
  <2> QED BY <2>1, <2>2
<1> QED BY <1>5, <1>6, <1>7, <1>8, <1>9 DEF RxSplit, s, t

LEMMA HeldFilled ==
    ASSUME NEW rx \in RxRings, NEW g \in 0..RLEN - 1, NEW p \in Seq(Cells), NEW rxp,
           NEW k \in 0..RLEN, RxSplit(rx, rxp, g, k), rx[rxp].own,
           NEW x \in Descriptors, ~x.own, NEW new \in RxRings, Changed(rx, rxp, x, new, RLEN)
    PROVE  Held(new, g, p) = ReadOn(Held(rx, g, p), x)
<1> DEFINE s == From(rx, RLEN, g)
           t == From(new, RLEN, g)
<1>1. /\ k \in 0..RLEN - 1
      /\ t[k + 1] = x /\ \A i \in 1..RLEN: i # k + 1 => t[i] = s[i]
  BY RxSplitFilled
<1>2. RLEN \in Nat /\ s \in [1..RLEN -> Descriptors] /\ t \in [1..RLEN -> Descriptors]
  BY <1>1, Sizes, HeldType
<1>3. \A i \in 1..RLEN: s[i].own <=> i > k
  BY DEF RxSplit
<1>4. Held(new, g, p) = Holding(t, RLEN, p) /\ Held(rx, g, p) = Holding(s, RLEN, p)
  BY DEF Held
<1> HIDE DEF s, t
<1>5. \A i \in k + 1..RLEN: s[i].own
  BY <1>1, <1>2, <1>3
<1>6. Holding(t, RLEN, p) = ReadOn(Holding(s, RLEN, p), t[k + 1])
  BY <1>1, <1>2, <1>5, HoldingFilled
<1> QED BY <1>1, <1>4, <1>6

(* le_rx fills the first descriptor of the chip.                           *)
LEMMA RxFilled ==
    ASSUME NEW rx \in RxRings, NEW g \in 0..RLEN - 1, NEW p \in Seq(Cells), NEW rxp,
           NEW packet \in Packets, NEW offset \in 0..Len(packet), NEW to \in offset..Len(packet),
           RxRing(rx, rxp, g, p, packet, offset), rx[rxp].own,
           NEW x \in Descriptors, ~x.own, x.cells = SubSeq(packet, offset + 1, to),
           NEW new \in RxRings, Changed(rx, rxp, x, new, RLEN)
    PROVE  /\ ~x.enp => /\ RxRing(new, (rxp + 1) % RLEN, g, p, packet, to)
                        /\ Held(new, g, p).whole = Held(rx, g, p).whole
           /\ x.enp /\ to = Len(packet) =>
                  /\ RxRing(new, (rxp + 1) % RLEN, g, p, NULL, 0)
                  /\ Held(new, g, p).whole = Held(rx, g, p).whole \o <<packet>>
<1>1. PICK k \in 0..RLEN: RxSplit(rx, rxp, g, k)
  BY DEF RxRing
<1>2. /\ k \in 0..RLEN - 1 /\ RxSplit(new, (rxp + 1) % RLEN, g, k + 1)
  BY <1>1, RxSplitFilled
<1>3. k + 1 \in 0..RLEN
  BY <1>2, Sizes
<1>4. \E j \in 0..RLEN: RxSplit(new, (rxp + 1) % RLEN, g, j)
  BY <1>2, <1>3
<1>5. Held(new, g, p) = ReadOn(Held(rx, g, p), x)
  BY <1>1, HeldFilled
<1>6. packet \in Seq(Cells) /\ packet # NULL
  BY LanceAssumption DEF Packets
<1>7. Held(rx, g, p).part = SubSeq(packet, 1, offset)
  BY <1>6 DEF RxRing, Copied
<1>8. Held(rx, g, p).part \o x.cells = SubSeq(packet, 1, to)
  BY <1>6, <1>7, SubSeqJoin
<1> DEFINE h == Held(rx, g, p)
           b == Held(new, g, p)
<1> HIDE DEF h, b
<1>9. b = ReadOn(h, x) /\ h.part \o x.cells = SubSeq(packet, 1, to)
  BY <1>5, <1>8 DEF b, h
<1>10. CASE ~x.enp
  <2>1. b.part = SubSeq(packet, 1, to) /\ b.whole = h.whole
    BY <1>9, <1>10 DEF ReadOn
  <2> QED BY <1>4, <1>6, <1>10, <2>1 DEF RxRing, Copied, b, h
<1>11. CASE x.enp
  <2>1. b.part = <<>> /\ b.whole = h.whole \o <<SubSeq(packet, 1, to)>>
    BY <1>9, <1>11 DEF ReadOn
  <2>2. to = Len(packet) => SubSeq(packet, 1, to) = packet
    BY <1>6, SubSeqAll
  <2> QED BY <1>4, <1>11, <2>1, <2>2 DEF RxRing, Copied, b, h
<1> QED BY <1>10, <1>11

LEMMA OneLess ==
    ASSUME NEW n \in Nat \ {0}, NEW g \in 0..n - 1, NEW k \in 1..n
    PROVE  (((g + 1) % n) + (k - 1)) % n = (g + k) % n
<1> DEFINE q == (g + 1) % n
           j == k - 1
           r == (g + k) % n
<1>1. q = IF g + 1 >= n THEN g + 1 - n ELSE g + 1
  <2>1. 1 \in 0..n
    OBVIOUS
  <2> QED BY <2>1, PlaceIs, Zenon
<1>2. r = IF g + k >= n THEN g + k - n ELSE g + k
  <2>1. k \in 0..n
    OBVIOUS
  <2> QED BY <2>1, PlaceIs
<1> HIDE DEF q, r
<1>3. q \in 0..n - 1 /\ j \in 0..n
  BY <1>1
<1> HIDE DEF j
<1>4. (q + j) % n = IF q + j >= n THEN q + j - n ELSE q + j
  BY <1>3, PlaceIs
<1>5. (q + j) % n = r
  <2>1. j = k - 1
    BY DEF j
  <2> QED BY <1>1, <1>2, <1>3, <1>4, <2>1
<1> QED BY <1>5 DEF q, j, r

LEMMA EmptyRxType == EmptyRx \in Descriptors /\ EmptyRx.own /\ ~EmptyRx.enp /\ EmptyRx.cells = <<>>
  BY DEF EmptyRx, Descriptors

LEMMA NoDescriptorType ==
    /\ NoDescriptor \in Descriptors /\ NoDescriptor.own = FALSE /\ NoDescriptor.enp = FALSE
    /\ NoDescriptor.cells = <<>>
<1>1. NoDescriptor = [own |-> FALSE, stp |-> FALSE, enp |-> FALSE, cells |-> <<>>]
  BY DEF NoDescriptor
<1>2. <<>> \in Seq(Cells)
  OBVIOUS
<1> QED BY <1>1, <1>2 DEF Descriptors

(* The driver reads a descriptor and gives it back.                        *)
LEMMA RxSplitRead ==
    ASSUME NEW rx \in RxRings, NEW g \in 0..RLEN - 1, NEW rxp, NEW k \in 0..RLEN,
           RxSplit(rx, rxp, g, k), ~rx[g].own,
           NEW new \in RxRings, Changed(rx, g, EmptyRx, new, RLEN)
    PROVE  /\ (g + 1) % RLEN \in 0..RLEN - 1
           /\ k - 1 \in 0..RLEN /\ RxSplit(new, rxp, (g + 1) % RLEN, k - 1)
           /\ Turned(From(rx, RLEN, g), EmptyRx, From(new, RLEN, (g + 1) % RLEN), RLEN)
<1> DEFINE s == From(rx, RLEN, g)
           h == (g + 1) % RLEN
           t == From(new, RLEN, h)
<1>0. RLEN \in Nat \ {0}
  BY Sizes
<1>1. Turned(s, EmptyRx, t, RLEN) /\ h \in 0..RLEN - 1
  BY <1>0, TurnRing
<1>2. s[1] = rx[g] /\ 1 \in 1..RLEN
  BY <1>0, FirstOfRing
<1>3. rxp = (g + k) % RLEN /\ \A i \in 1..RLEN: s[i].own <=> i > k
  BY DEF RxSplit
<1> HIDE DEF s, t
<1>4. k \in 1..RLEN
  BY <1>2, <1>3
<1>5. rxp = (h + (k - 1)) % RLEN
  BY <1>0, <1>3, <1>4, OneLess
<1> HIDE DEF h
<1>6. ASSUME NEW i \in 1..RLEN PROVE t[i].own <=> i > k - 1
  <2>1. CASE i = RLEN
    <3>1. t[i] = EmptyRx
      BY <1>1, <2>1 DEF Turned
    <3> QED BY <1>0, <1>4, <2>1, <3>1, EmptyRxType
  <2>2. CASE i # RLEN
    <3> DEFINE j == i + 1
    <3>1. t[i] = s[j]
      BY <1>1, <2>2 DEF Turned
    <3>2. j \in 1..RLEN /\ (j > k <=> i > k - 1)
      BY <1>0, <1>4, <2>2
    <3> HIDE DEF j
    <3> QED BY <1>3, <3>1, <3>2
  <2> QED BY <2>1, <2>2
<1>7. RxSplit(new, rxp, h, k - 1)
  BY <1>5, <1>6 DEF RxSplit, t
<1>8. k - 1 \in 0..RLEN
  BY <1>0, <1>4
<1> QED BY <1>1, <1>7, <1>8 DEF s, t, h

(* The driver reads its descriptor and gives it back.                      *)
LEMMA RxRead ==
    ASSUME NEW rx \in RxRings, NEW g \in 0..RLEN - 1, NEW p \in Seq(Cells), NEW rxp,
           NEW packet, NEW offset, RxRing(rx, rxp, g, p, packet, offset), ~rx[g].own,
           NEW new \in RxRings, Changed(rx, g, EmptyRx, new, RLEN),
           NEW q \in Seq(Cells), NEW w \in Seq(Seq(Cells)),
           Reads(p, rx[g], q, w)
    PROVE  /\ RxRing(new, rxp, (g + 1) % RLEN, q, packet, offset)
           /\ Held(rx, g, p).whole = w \o Held(new, (g + 1) % RLEN, q).whole
<1> DEFINE s == From(rx, RLEN, g)
           h == (g + 1) % RLEN
           t == From(new, RLEN, h)
<1>0. RLEN \in Nat \ {0}
  BY Sizes
<1>1. PICK k \in 0..RLEN: RxSplit(rx, rxp, g, k)
  BY DEF RxRing
<1>2. /\ h \in 0..RLEN - 1 /\ k - 1 \in 0..RLEN /\ RxSplit(new, rxp, h, k - 1)
      /\ Turned(s, EmptyRx, t, RLEN)
  BY <1>1, RxSplitRead
<1>3. s[1] = rx[g]
  BY <1>0, FirstOfRing
<1> HIDE DEF h
<1>4. s \in [1..RLEN -> Descriptors] /\ t \in [1..RLEN -> Descriptors]
  BY <1>2, HeldType
<1>5. Held(rx, g, p) = Holding(s, RLEN, p) /\ Held(new, h, q) = Holding(t, RLEN, q)
  BY DEF Held
<1> HIDE DEF s, t
<1>6. Leaves(Holding(s, RLEN, p), w, Holding(t, RLEN, q))
  BY <1>0, <1>2, <1>3, <1>4, EmptyRxType, HoldingTurned
<1>7. /\ Holding(s, RLEN, p).part = Holding(t, RLEN, q).part
      /\ Holding(s, RLEN, p).whole = w \o Holding(t, RLEN, q).whole
  BY <1>6 DEF Leaves
<1>8. Held(rx, g, p).part = Held(new, h, q).part /\ Held(rx, g, p).whole = w \o Held(new, h, q).whole
  BY <1>5, <1>7
<1>9. RxRing(new, rxp, h, q, packet, offset)
  BY <1>2, <1>8 DEF RxRing
<1> QED BY <1>8, <1>9 DEF h

(* New rings hold nothing.                                                 *)
LEMMA HeldNothing ==
    ASSUME NEW rx \in RxRings, NEW g \in 0..RLEN - 1, NEW p \in Seq(Cells),
           \A i \in 0..RLEN - 1: rx[i].own \/ (~rx[i].enp /\ rx[i].cells = <<>>)
    PROVE  Held(rx, g, p).part = p /\ Held(rx, g, p).whole = <<>>
<1> DEFINE s == From(rx, RLEN, g)
<1>0. RLEN \in Nat \ {0} /\ RLEN \in Nat
  BY Sizes
<1>1. s \in [1..RLEN -> Descriptors]
  BY HeldType
<1>2. ASSUME NEW i \in 1..RLEN PROVE s[i].own \/ (~s[i].enp /\ s[i].cells = <<>>)
  <2>1. s[i] = rx[PlaceOf(g, i, RLEN)] /\ PlaceOf(g, i, RLEN) \in 0..RLEN - 1
    BY <1>0, FromAt
  <2> HIDE DEF s
  <2> QED BY <2>1
<1>3. Held(rx, g, p) = Holding(s, RLEN, p)
  BY DEF Held
<1> HIDE DEF s
<1>4. Holding(s, RLEN, p).part = p /\ Holding(s, RLEN, p).whole = <<>>
  BY <1>0, <1>1, <1>2, HoldingNothing
<1> QED BY <1>3, <1>4

(* No packet ends in the ring, so there is no whole one in it.             *)
LEMMA HeldNoEnd ==
    ASSUME NEW rx \in RxRings, NEW g \in 0..RLEN - 1, NEW p \in Seq(Cells),
           \A i \in 0..RLEN - 1: rx[i].own \/ ~rx[i].enp
    PROVE  Held(rx, g, p).whole = <<>>
<1> DEFINE s == From(rx, RLEN, g)
<1>0. RLEN \in Nat \ {0} /\ RLEN \in Nat
  BY Sizes
<1>1. s \in [1..RLEN -> Descriptors]
  BY HeldType
<1>2. ASSUME NEW i \in 1..RLEN PROVE s[i].own \/ ~s[i].enp
  <2>1. s[i] = rx[PlaceOf(g, i, RLEN)] /\ PlaceOf(g, i, RLEN) \in 0..RLEN - 1
    BY <1>0, FromAt
  <2> HIDE DEF s
  <2> QED BY <2>1
<1>3. Held(rx, g, p) = Holding(s, RLEN, p)
  BY DEF Held
<1> HIDE DEF s
<1>4. Holding(s, RLEN, p).whole = <<>>
  BY <1>0, <1>1, <1>2, HoldingNoEnd
<1> QED BY <1>3, <1>4

(* The driver's descriptor is the chip's only if all are.                  *)
LEMMA AllRead ==
    ASSUME NEW rx \in RxRings, NEW g \in 0..RLEN - 1, NEW rxp, NEW p, NEW packet, NEW offset,
           RxRing(rx, rxp, g, p, packet, offset), rx[g].own, NEW j \in 0..RLEN - 1
    PROVE  rx[j].own
<1> DEFINE s == From(rx, RLEN, g)
<1>0. RLEN \in Nat \ {0}
  BY Sizes
<1>1. PICK k \in 0..RLEN: RxSplit(rx, rxp, g, k)
  BY DEF RxRing
<1>2. \A i \in 1..RLEN: s[i].own <=> i > k
  BY <1>1 DEF RxSplit
<1>3. s[1] = rx[g] /\ 1 \in 1..RLEN
  BY <1>0, FirstOfRing
<1>4. PICK i \in 1..RLEN: s[i] = rx[j]
  BY <1>0, InFrom
<1> HIDE DEF s
<1> QED BY <1>2, <1>3, <1>4

(* Rings of which the chip has everything.                                 *)
LEMMA RxStart ==
    ASSUME NEW rx \in RxRings, \A i \in 0..RLEN - 1: rx[i] = EmptyRx
    PROVE  RxRing(rx, 0, 0, <<>>, NULL, 0)
<1> DEFINE s == From(rx, RLEN, 0)
<1>0. RLEN \in Nat \ {0} /\ 0 \in 0..RLEN - 1 /\ 0 \in 0..RLEN /\ <<>> \in Seq(Cells)
  BY Sizes
<1>1. ASSUME NEW i \in 1..RLEN PROVE s[i].own <=> i > 0
  <2>1. s[i] = rx[PlaceOf(0, i, RLEN)] /\ PlaceOf(0, i, RLEN) \in 0..RLEN - 1
    BY <1>0, FromAt, Zenon
  <2> HIDE DEF s
  <2> QED BY <2>1, EmptyRxType
<1>2. 0 = (0 + 0) % RLEN
  BY <1>0
<1>3. RxSplit(rx, 0, 0, 0)
  BY <1>1, <1>2 DEF RxSplit
<1>4. Held(rx, 0, <<>>).part = <<>>
  <2> DEFINE g == 0
             p == <<>>
  <2>1. g \in 0..RLEN - 1 /\ p \in Seq(Cells)
    BY <1>0
  <2> HIDE DEF g, p
  <2>2. Held(rx, g, p).part = p
    BY <2>1, HeldNothing, EmptyRxType
  <2> QED BY <2>2 DEF g, p
<1> QED BY <1>0, <1>3, <1>4 DEF RxRing, Copied

-----------------------------------------------------------------------------
(* The transmit ring.                                                      *)

CellsOf(s, n) == [i \in 1..n |-> IF s[i].own THEN s[i].cells ELSE <<>>]

LEMMA UnsentIs == Unsent = FlattenSeq(CellsOf(From(d.tx, TLEN, d.txp), TLEN))
  BY DEF Unsent, CellsOf

Kept(packet) == IF packet = NULL THEN <<>> ELSE packet

(* A packet ends with the i-th buffer.                                     *)
Ended(s, i, packet) == IF i = 0 THEN packet = NULL ELSE s[i].enp

(* From the chip's place on there are m buffers to send; the driver is     *)
(* behind them.  A packet begins where another one has ended.              *)
TxSplit(s, txp, g, rest, packet, m) ==
    /\ g = (txp + m) % TLEN
    /\ \A i \in 1..TLEN: s[i].own <=> i <= m
    /\ \A i \in 1..m: s[i].cells # <<>> /\ (s[i].stp <=> Ended(s, i - 1, packet))
    /\ rest = <<>> <=> Ended(s, m, packet)

(* What is on the wire, in the chip and in the ring.                       *)
Line(wi, kept, unsent) == wi \o kept \o unsent

TxRing(tx, txp, g, rest, packet, po, wi) ==
    /\ \E m \in 0..TLEN: TxSplit(From(tx, TLEN, txp), txp, g, rest, packet, m)
    /\ po = Line(wi, Kept(packet), FlattenSeq(CellsOf(From(tx, TLEN, txp), TLEN)))

LEMMA CellsOfType ==
    ASSUME NEW n \in Nat \ {0}, NEW s \in [1..n -> Descriptors]
    PROVE  CellsOf(s, n) \in [1..n -> Seq(Cells)]
<1>1. \A i \in 1..n: s[i].cells \in Seq(Cells)
  BY DEF Descriptors
<1>2. <<>> \in Seq(Cells)
  OBVIOUS
<1> QED BY <1>1, <1>2 DEF CellsOf

(* The chip takes a buffer.                                                *)
LEMMA TxSplitSent ==
    ASSUME NEW s \in [1..TLEN -> Descriptors], NEW t \in [1..TLEN -> Descriptors],
           NEW txp \in 0..TLEN - 1, NEW g, NEW rest, NEW packet, NEW m \in 0..TLEN,
           TxSplit(s, txp, g, rest, packet, m), s[1].own,
           NEW x, ~x.own, Turned(s, x, t, TLEN), NEW after, after = NULL <=> s[1].enp
    PROVE  /\ m - 1 \in 0..TLEN
           /\ TxSplit(t, (txp + 1) % TLEN, g, rest, after, m - 1)
<1>0. TLEN \in Nat \ {0} /\ 1 \in 1..TLEN
  BY Sizes
<1>1. \A i \in 1..TLEN: s[i].own <=> i <= m
  BY DEF TxSplit
<1>2. m \in 1..TLEN
  BY <1>0, <1>1
<1>3. m - 1 \in 0..TLEN /\ m - 1 < TLEN
  BY <1>0, <1>2
<1>4. g = (((txp + 1) % TLEN) + (m - 1)) % TLEN
  <2>1. g = (txp + m) % TLEN
    BY DEF TxSplit
  <2> QED BY <1>0, <1>2, <2>1, OneLess
<1>5. ASSUME NEW i \in 1..TLEN PROVE t[i].own <=> i <= m - 1
  <2>1. CASE i = TLEN
    <3>1. t[i] = x
      BY <2>1 DEF Turned
    <3> QED BY <1>0, <1>2, <2>1, <3>1
  <2>2. CASE i # TLEN
    <3> DEFINE j == i + 1
    <3>1. t[i] = s[j]
      BY <2>2 DEF Turned
    <3>2. j \in 1..TLEN /\ (j <= m <=> i <= m - 1)
      BY <1>0, <1>2, <2>2
    <3> HIDE DEF j
    <3> QED BY <1>1, <3>1, <3>2
  <2> QED BY <2>1, <2>2
<1>6. ASSUME NEW i \in 0..m - 1 PROVE Ended(t, i, after) <=> Ended(s, i + 1, packet)
  <2> DEFINE j == i + 1
  <2>1. j # 0 /\ j \in 1..TLEN
    BY <1>0, <1>2
  <2>2. Ended(s, j, packet) <=> s[j].enp
    BY <2>1 DEF Ended
  <2>3. CASE i = 0
    <3>1. Ended(t, i, after) <=> after = NULL
      BY <2>3 DEF Ended
    <3>2. s[j] = s[1]
      BY <2>3
    <3> QED BY <2>2, <3>1, <3>2
  <2>4. CASE i # 0
    <3>1. i \in 1..TLEN /\ i # TLEN
      BY <1>0, <1>2, <2>4
    <3>2. t[i] = s[j]
      BY <3>1 DEF Turned
    <3>3. Ended(t, i, after) <=> t[i].enp
      BY <2>4 DEF Ended
    <3> QED BY <2>2, <3>2, <3>3
  <2> QED BY <2>3, <2>4
<1>7. ASSUME NEW i \in 1..m - 1
      PROVE  t[i].cells # <<>> /\ (t[i].stp <=> Ended(t, i - 1, after))
  <2> DEFINE j == i + 1
             h == i - 1
  <2>1. i \in 1..TLEN /\ i # TLEN /\ j \in 1..m /\ h \in 0..m - 1 /\ h + 1 = i /\ j - 1 = i
    BY <1>0, <1>2
  <2>2. t[i] = s[j]
    BY <2>1 DEF Turned
  <2> HIDE DEF j, h
  <2>3. s[j].cells # <<>> /\ (s[j].stp <=> Ended(s, j - 1, packet))
    BY <2>1 DEF TxSplit
  <2>4. Ended(t, h, after) <=> Ended(s, i, packet)
    <3>1. Ended(t, h, after) <=> Ended(s, h + 1, packet)
      BY <1>6, <2>1
    <3> QED BY <2>1, <3>1
  <2>5. s[j].stp <=> Ended(s, i, packet)
    BY <2>1, <2>3
  <2>6. t[i].cells # <<>> /\ (t[i].stp <=> Ended(t, h, after))
    BY <2>2, <2>3, <2>4, <2>5
  <2> QED BY <2>6 DEF h
<1>8. rest = <<>> <=> Ended(t, m - 1, after)
  <2> DEFINE h == m - 1
  <2>1. h \in 0..m - 1 /\ h + 1 = m
    BY <1>0, <1>2
  <2> HIDE DEF h
  <2>2. Ended(t, h, after) <=> Ended(s, h + 1, packet)
    BY <1>6, <2>1
  <2>3. rest = <<>> <=> Ended(s, m, packet)
    BY DEF TxSplit
  <2>4. rest = <<>> <=> Ended(t, h, after)
    BY <2>1, <2>2, <2>3
  <2> QED BY <2>4 DEF h
<1> QED BY <1>3, <1>4, <1>5, <1>7, <1>8 DEF TxSplit

(* The first buffer is sent: its cells leave the ring at the front.        *)
LEMMA CellsSent ==
    ASSUME NEW n \in Nat \ {0}, NEW s \in [1..n -> Descriptors], NEW t \in [1..n -> Descriptors],
           NEW x, ~x.own, Turned(s, x, t, n), s[1].own
    PROVE  FlattenSeq(CellsOf(s, n)) = s[1].cells \o FlattenSeq(CellsOf(t, n))
<1> DEFINE a == CellsOf(s, n)
           b == CellsOf(t, n)
<1>1. a \in [1..n -> Seq(Cells)] /\ b \in [1..n -> Seq(Cells)]
  BY CellsOfType
<1>2. a[1] = s[1].cells
  BY DEF CellsOf
<1>3. b[n] = <<>>
  <2>1. t[n] = x /\ n \in 1..n
    BY DEF Turned
  <2> QED BY <2>1 DEF CellsOf
<1>4. ASSUME NEW i \in 1..n - 1 PROVE b[i] = a[i + 1]
  <2> DEFINE j == i + 1
  <2>1. j \in 1..n /\ i \in 1..n /\ i # n
    OBVIOUS
  <2>2. t[i] = s[j]
    BY <2>1 DEF Turned
  <2> HIDE DEF j
  <2>3. b[i] = a[j]
    BY <2>1, <2>2 DEF CellsOf
  <2> QED BY <2>3 DEF j
<1> HIDE DEF a, b
<1>5. FlattenSeq(a) = a[1] \o FlattenSeq(b)
  BY <1>1, <1>3, <1>4, FlattenTurned
<1> QED BY <1>2, <1>5 DEF a, b

(* The driver fills a buffer.                                              *)
LEMMA TxSplitPosted ==
    ASSUME NEW s \in [1..TLEN -> Descriptors], NEW t \in [1..TLEN -> Descriptors],
           NEW txp \in 0..TLEN - 1, NEW g, NEW rest, NEW packet, NEW m \in 0..TLEN - 1,
           TxSplit(s, txp, g, rest, packet, m), NEW x \in Descriptors, x.own, x.cells # <<>>,
           x.stp <=> rest = <<>>, NEW after, x.enp <=> after = <<>>,
           ChangedAt(s, m + 1, x, t, TLEN)
    PROVE  TxSplit(t, txp, (g + 1) % TLEN, after, packet, m + 1)
<1>0. TLEN \in Nat \ {0}
  BY Sizes
<1> DEFINE k == m + 1
<1>1. k \in 1..TLEN /\ k # 0 /\ k - 1 = m
  BY <1>0
<1>2. g = (txp + m) % TLEN
  BY DEF TxSplit
<1>3. (g + 1) % TLEN = (txp + k) % TLEN
  BY <1>0, <1>2, OneFurther
<1> HIDE DEF k
<1>4. t[k] = x /\ \A i \in 1..TLEN: i # k => t[i] = s[i]
  BY <1>1 DEF ChangedAt, k
<1>5. ASSUME NEW i \in 1..TLEN PROVE t[i].own <=> i <= k
  <2>1. CASE i = k
    BY <1>0, <1>1, <1>4, <2>1
  <2>2. CASE i # k
    <3>1. t[i] = s[i] /\ (s[i].own <=> i <= m)
      BY <1>4, <2>2 DEF TxSplit
    <3>2. i <= m <=> i <= k
      BY <1>0, <1>1, <2>2
    <3> QED BY <3>1, <3>2
  <2> QED BY <2>1, <2>2
<1>6. ASSUME NEW i \in 0..m PROVE Ended(t, i, packet) <=> Ended(s, i, packet)
  <2>1. i # k /\ (i # 0 => i \in 1..TLEN)
    BY <1>0, <1>1
  <2>2. i # 0 => t[i] = s[i]
    BY <1>4, <2>1
  <2> QED BY <2>2 DEF Ended
<1>7. ASSUME NEW i \in 1..k
      PROVE  t[i].cells # <<>> /\ (t[i].stp <=> Ended(t, i - 1, packet))
  <2> DEFINE h == i - 1
  <2>1. h \in 0..m /\ i \in 1..TLEN
    BY <1>0, <1>1
  <2>2. CASE i = k
    <3>1. h = m
      BY <1>1, <2>2
    <3>2. x.stp <=> Ended(s, m, packet)
      BY DEF TxSplit
    <3> HIDE DEF h
    <3>3. t[i].stp <=> Ended(t, h, packet)
      BY <1>4, <1>6, <2>1, <2>2, <3>1, <3>2
    <3> QED BY <1>4, <2>2, <3>3 DEF h
  <2>3. CASE i # k
    <3>1. i \in 1..m
      BY <1>0, <1>1, <2>3
    <3>2. s[i].cells # <<>> /\ (s[i].stp <=> Ended(s, h, packet))
      BY <3>1 DEF TxSplit
    <3> HIDE DEF h
    <3>3. t[i].stp <=> Ended(t, h, packet)
      BY <1>4, <1>6, <2>1, <2>3, <3>2
    <3> QED BY <1>4, <2>1, <2>3, <3>2, <3>3 DEF h
  <2> QED BY <2>2, <2>3
<1>8. after = <<>> <=> Ended(t, k, packet)
  BY <1>1, <1>4 DEF Ended
<1>9. TxSplit(t, txp, (g + 1) % TLEN, after, packet, k)
  BY <1>3, <1>5, <1>7, <1>8 DEF TxSplit
<1> QED BY <1>9 DEF k

(* A buffer is posted: its cells enter the ring at the end.                *)
LEMMA CellsPosted ==
    ASSUME NEW n \in Nat \ {0}, NEW s \in [1..n -> Descriptors], NEW t \in [1..n -> Descriptors],
           NEW m \in 0..n - 1, \A i \in 1..n: s[i].own <=> i <= m,
           NEW x, x.own, ChangedAt(s, m + 1, x, t, n)
    PROVE  FlattenSeq(CellsOf(t, n)) = FlattenSeq(CellsOf(s, n)) \o x.cells
<1> DEFINE a == CellsOf(s, n)
           b == CellsOf(t, n)
           k == m + 1
<1>1. a \in [1..n -> Seq(Cells)] /\ b \in [1..n -> Seq(Cells)]
  BY CellsOfType
<1>2. k \in 1..n
  OBVIOUS
<1>3. b[k] = x.cells
  <2>1. t[k] = x
    BY <1>2 DEF ChangedAt
  <2> HIDE DEF k
  <2> QED BY <1>2, <2>1 DEF CellsOf
<1>4. ASSUME NEW i \in 1..n, i # m + 1 PROVE b[i] = a[i]
  <2>1. t[i] = s[i]
    BY <1>4 DEF ChangedAt
  <2> QED BY <2>1 DEF CellsOf
<1>5. ASSUME NEW i \in m + 1..n PROVE a[i] = <<>>
  <2>1. i \in 1..n /\ ~(i <= m)
    OBVIOUS
  <2> QED BY <2>1 DEF CellsOf
<1> HIDE DEF a, b
<1>6. FlattenSeq(b) = FlattenSeq(a) \o b[m + 1]
  BY <1>1, <1>4, <1>5, FlattenFilled
<1> QED BY <1>3, <1>6 DEF a, b, k

LEMMA CellsKept ==
    ASSUME NEW wi \in Seq(Cells), NEW k \in Seq(Cells), NEW c \in Seq(Cells), NEW f \in Seq(Cells)
    PROVE  /\ Line(wi, k, c \o f) = Line(wi, k \o c, f)
           /\ Line(wi, k, c \o f) = Line(wi \o (k \o c), <<>>, f)
<1>1. wi \o k \in Seq(Cells) /\ k \o c \in Seq(Cells)
  BY CellsConcat
<1> DEFINE a == wi \o k
           b == k \o c
<1>2. a \o (c \o f) = (a \o c) \o f
  <2> HIDE DEF a
  <2>1. a \in Seq(Cells)
    BY <1>1 DEF a
  <2> QED BY <2>1, CellsAssociative
<1>3. a \o c = wi \o b
  BY CellsAssociative
<1>4. wi \o b \in Seq(Cells)
  <2> HIDE DEF b
  <2>1. b \in Seq(Cells)
    BY <1>1 DEF b
  <2> QED BY <2>1, CellsConcat
<1>5. (wi \o b) \o <<>> = wi \o b
  <2> DEFINE u == wi \o b
  <2>1. u \in Seq(Cells)
    BY <1>4
  <2> HIDE DEF u
  <2>2. u \o <<>> = u
    BY <2>1, CellsEmpty
  <2> QED BY <2>2 DEF u
<1> HIDE DEF a, b
<1>6. a \o (c \o f) = (wi \o b) \o f
  BY <1>2, <1>3
<1>7. a \o (c \o f) = (wi \o b) \o <<>> \o f
  BY <1>5, <1>6
<1> QED BY <1>6, <1>7 DEF a, b, Line

LEMMA CellsNonempty ==
    ASSUME NEW s \in Seq(Cells), NEW t \in Seq(Cells), t # <<>>
    PROVE  s \o t # <<>>
<1>1. Len(s \o t) = Len(s) + Len(t) /\ Len(s) \in Nat /\ Len(t) \in Nat
  OBVIOUS
<1>2. Len(t) # 0
  OBVIOUS
<1>3. Len(s \o t) # 0
  BY <1>1, <1>2
<1> QED BY <1>3

(* le_tx empties the first descriptor of the chip.                         *)
LEMMA TxSent ==
    ASSUME NEW tx \in TxRings, NEW txp \in 0..TLEN - 1, NEW g, NEW rest,
           NEW packet \in Packets \cup {NULL}, NEW po \in Seq(Cells), NEW wi \in Seq(Cells),
           TxRing(tx, txp, g, rest, packet, po, wi), tx[txp].own,
           NEW x, ~x.own, NEW new \in TxRings, Changed(tx, txp, x, new, TLEN),
           NEW data, data = (IF tx[txp].stp THEN <<>> ELSE packet) \o tx[txp].cells
    PROVE  /\ data \in Packets
           /\ tx[txp].enp => TxRing(new, (txp + 1) % TLEN, g, rest, NULL, po, wi \o data)
           /\ ~tx[txp].enp => TxRing(new, (txp + 1) % TLEN, g, rest, data, po, wi)
<1> DEFINE q == (txp + 1) % TLEN
           s == From(tx, TLEN, txp)
           t == From(new, TLEN, q)
           c == tx[txp].cells
           F == FlattenSeq(CellsOf(s, TLEN))
           G == FlattenSeq(CellsOf(t, TLEN))
<1>0. TLEN \in Nat \ {0} /\ 1 \in 1..TLEN
  BY Sizes
<1>1. Turned(s, x, t, TLEN) /\ q \in 0..TLEN - 1
  BY <1>0, TurnRing
<1>2. s[1] = tx[txp]
  BY <1>0, FirstOfRing
<1> HIDE DEF q
<1>3. s \in [1..TLEN -> Descriptors] /\ t \in [1..TLEN -> Descriptors]
  BY <1>0, <1>1, FromType DEF TxRings
<1>4. PICK m \in 0..TLEN: TxSplit(s, txp, g, rest, packet, m)
  BY DEF TxRing
<1>5. po = Line(wi, Kept(packet), F)
  BY DEF TxRing
<1> HIDE DEF s, t
<1>6. 1 \in 1..m
  <2>1. s[1].own <=> 1 <= m
    BY <1>0, <1>4 DEF TxSplit
  <2> QED BY <1>0, <1>2, <2>1
<1>7. c # <<>> /\ (tx[txp].stp <=> packet = NULL) /\ c \in Seq(Cells)
  <2>1. s[1].cells # <<>> /\ (s[1].stp <=> Ended(s, 1 - 1, packet))
    BY <1>4, <1>6, Zenon DEF TxSplit
  <2>2. 1 - 1 = 0
    OBVIOUS
  <2>3. Ended(s, 1 - 1, packet) <=> packet = NULL
    BY <2>2 DEF Ended
  <2>4. s[1] \in Descriptors
    BY <1>0, <1>3
  <2>5. s[1].cells \in Seq(Cells)
    BY <2>4 DEF Descriptors
  <2> QED BY <1>2, <2>1, <2>3, <2>5
<1>8. Kept(packet) \in Seq(Cells) /\ data = Kept(packet) \o c
  <2> HIDE DEF c
  <2> DEFINE a == tx[txp].stp
             e == IF a THEN <<>> ELSE packet
  <2>0. data = e \o c
    BY DEF c
  <2>1. e = Kept(packet)
    BY <1>7 DEF Kept
  <2>2. Kept(packet) \in Seq(Cells)
    BY DEF Kept, Packets
  <2> QED BY <2>0, <2>1, <2>2
<1>9. F = c \o G /\ G \in Seq(Cells)
  <2>1. F = s[1].cells \o G
    BY <1>0, <1>1, <1>2, <1>3, CellsSent
  <2>2. CellsOf(t, TLEN) \in [1..TLEN -> Seq(Cells)]
    BY <1>0, <1>3, CellsOfType
  <2>3. G \in Seq(Cells)
    BY <1>0, <2>2, FlattenType
  <2> QED BY <1>2, <2>1, <2>3
<1> DEFINE k == Kept(packet)
<1> HIDE DEF c, F, G, k
<1>10. data \in Seq(Cells) /\ data # <<>> /\ data # NULL
  <2>1. k \in Seq(Cells) /\ c \in Seq(Cells) /\ c # <<>> /\ data = k \o c
    BY <1>7, <1>8 DEF k, c
  <2>2. data \in Seq(Cells)
    BY <2>1, CellsConcat
  <2>4. data # <<>>
    BY <2>1, CellsNonempty
  <2> QED BY <2>2, <2>4, LanceAssumption
<1>11. po = Line(wi, data, G) /\ po = Line(wi \o data, <<>>, G)
  <2>1. k \in Seq(Cells) /\ c \in Seq(Cells) /\ data = k \o c /\ po = Line(wi, k, c \o G)
    BY <1>5, <1>7, <1>8, <1>9 DEF k, c
  <2>2. G \in Seq(Cells) /\ k \in Seq(Cells) /\ c \in Seq(Cells)
    BY <1>9, <2>1
  <2>3. Line(wi, k, c \o G) = Line(wi, k \o c, G) /\ Line(wi, k, c \o G) = Line(wi \o (k \o c), <<>>, G)
    BY <2>2, CellsKept
  <2> QED BY <2>1, <2>3
<1>12. data \in Packets
  BY <1>10 DEF Packets
<1>13. ASSUME NEW after, after = NULL <=> s[1].enp
       PROVE  \E j \in 0..TLEN: TxSplit(t, q, g, rest, after, j)
  <2>1. m - 1 \in 0..TLEN /\ TxSplit(t, (txp + 1) % TLEN, g, rest, after, m - 1)
    BY <1>1, <1>2, <1>3, <1>4, <1>13, TxSplitSent
  <2> QED BY <2>1 DEF q
<1>14. ASSUME tx[txp].enp PROVE TxRing(new, q, g, rest, NULL, po, wi \o data)
  <2> DEFINE after == NULL
  <2>1. after = NULL <=> s[1].enp
    BY <1>2, <1>14
  <2> HIDE DEF after
  <2>2. \E j \in 0..TLEN: TxSplit(t, q, g, rest, after, j)
    BY <1>13, <2>1
  <2>3. Kept(NULL) = <<>>
    BY DEF Kept
  <2> QED BY <1>11, <2>2, <2>3 DEF TxRing, after, G, t
<1>15. ASSUME ~tx[txp].enp PROVE TxRing(new, q, g, rest, data, po, wi)
  <2>1. data = NULL <=> s[1].enp
    BY <1>2, <1>10, <1>15
  <2>2. \E j \in 0..TLEN: TxSplit(t, q, g, rest, data, j)
    BY <1>13, <2>1
  <2>3. Kept(data) = data
    BY <1>10 DEF Kept
  <2> QED BY <1>11, <2>2, <2>3 DEF TxRing, G, t
<1> QED BY <1>12, <1>14, <1>15 DEF q

(* The driver fills its descriptor.                                        *)
LEMMA TxPosted ==
    ASSUME NEW tx \in TxRings, NEW txp \in 0..TLEN - 1, NEW g, NEW rest,
           NEW packet \in Packets \cup {NULL}, NEW po, NEW wi \in Seq(Cells),
           TxRing(tx, txp, g, rest, packet, po, wi), ~tx[g].own,
           NEW x \in Descriptors, x.own, x.cells # <<>>, x.stp <=> rest = <<>>,
           NEW after, x.enp <=> after = <<>>,
           NEW new \in TxRings, Changed(tx, g, x, new, TLEN)
    PROVE  TxRing(new, txp, (g + 1) % TLEN, after, packet, po \o x.cells, wi)
<1> DEFINE s == From(tx, TLEN, txp)
           t == From(new, TLEN, txp)
           F == FlattenSeq(CellsOf(s, TLEN))
           G == FlattenSeq(CellsOf(t, TLEN))
<1>0. TLEN \in Nat \ {0}
  BY Sizes
<1>1. s[1] = tx[txp] /\ 1 \in 1..TLEN
  BY <1>0, FirstOfRing
<1>2. s \in [1..TLEN -> Descriptors] /\ t \in [1..TLEN -> Descriptors]
  BY <1>0, FromType DEF TxRings
<1>3. PICK m \in 0..TLEN: TxSplit(s, txp, g, rest, packet, m)
  BY DEF TxRing
<1>4. po = Line(wi, Kept(packet), F)
  BY DEF TxRing
<1> HIDE DEF s
<1>5. g = (txp + m) % TLEN /\ \A i \in 1..TLEN: s[i].own <=> i <= m
  BY <1>3 DEF TxSplit
<1>6. m \in 0..TLEN - 1
  <2> SUFFICES ASSUME m = TLEN PROVE FALSE
    BY <1>0
  <2>1. TLEN \in 0..TLEN
    BY <1>0
  <2>2. (txp + TLEN) % TLEN = IF txp + TLEN >= TLEN THEN txp + TLEN - TLEN ELSE txp + TLEN
    BY <1>0, <2>1, PlaceIs
  <2>3. txp + TLEN >= TLEN /\ txp + TLEN - TLEN = txp
    BY <1>0
  <2>4. g = txp
    BY <1>5, <2>2, <2>3
  <2>5. s[1].own
    BY <1>0, <1>1, <1>5
  <2> QED BY <1>1, <2>4, <2>5
<1>7. ChangedAt(s, m + 1, x, t, TLEN)
  BY <1>0, <1>5, <1>6, ChangeInRing DEF s
<1> HIDE DEF t
<1>8. TxSplit(t, txp, (g + 1) % TLEN, after, packet, m + 1)
  BY <1>2, <1>3, <1>6, <1>7, TxSplitPosted
<1>9. m + 1 \in 0..TLEN
  BY <1>0, <1>6
<1>10. G = F \o x.cells
  BY <1>0, <1>2, <1>5, <1>6, <1>7, CellsPosted
<1>11. F \in Seq(Cells)
  <2>1. CellsOf(s, TLEN) \in [1..TLEN -> Seq(Cells)]
    BY <1>0, <1>2, CellsOfType
  <2> QED BY <1>0, <2>1, FlattenType
<1> HIDE DEF F, G
<1> DEFINE u == wi \o Kept(packet)
<1>12. u \in Seq(Cells)
  <2>1. Kept(packet) \in Seq(Cells)
    BY DEF Kept, Packets
  <2> QED BY <2>1, CellsConcat
<1>13. po = u \o F
  BY <1>4 DEF Line
<1> HIDE DEF u
<1>14. x.cells \in Seq(Cells)
  BY DEF Descriptors
<1>15. po \o x.cells = u \o G
  BY <1>10, <1>11, <1>12, <1>13, <1>14, CellsAssociative
<1> QED BY <1>8, <1>9, <1>15 DEF TxRing, t, u, G, Line

(* New rings.                                                              *)
LEMMA TxStart ==
    ASSUME NEW tx \in TxRings, \A i \in 0..TLEN - 1: ~tx[i].own
    PROVE  TxRing(tx, 0, 0, <<>>, NULL, <<>>, <<>>)
<1> DEFINE p == 0
           s == From(tx, TLEN, p)
<1>0. TLEN \in Nat \ {0} /\ p \in 0..TLEN - 1 /\ 0 \in 0..TLEN
  BY Sizes
<1> HIDE DEF p
<1>1. s \in [1..TLEN -> Descriptors]
  BY <1>0, FromType DEF TxRings
<1>2. ASSUME NEW i \in 1..TLEN PROVE ~s[i].own
  <2>1. s[i] = tx[PlaceOf(p, i, TLEN)] /\ PlaceOf(p, i, TLEN) \in 0..TLEN - 1
    BY <1>0, FromAt
  <2> HIDE DEF s
  <2> QED BY <2>1
<1> HIDE DEF s
<1>3. CellsOf(s, TLEN) \in [1..TLEN -> Seq(Cells)]
  BY <1>0, <1>1, CellsOfType
<1>4. \A i \in 1..TLEN: CellsOf(s, TLEN)[i] = <<>>
  BY <1>2 DEF CellsOf
<1>5. FlattenSeq(CellsOf(s, TLEN)) = <<>>
  BY <1>0, <1>3, <1>4, FlattenNothing
<1>6. TxSplit(s, 0, 0, <<>>, NULL, 0)
  <2>1. 0 = (0 + 0) % TLEN
    BY <1>0
  <2>2. \A i \in 1..TLEN: s[i].own <=> i <= 0
    BY <1>0, <1>2
  <2>3. \A i \in 1..0: FALSE
    OBVIOUS
  <2>4. Ended(s, 0, NULL)
    BY DEF Ended
  <2> QED BY <2>1, <2>2, <2>3, <2>4 DEF TxSplit
<1>7. <<>> = Line(<<>>, Kept(NULL), <<>>)
  BY DEF Kept, Line
<1>8. \E m \in 0..TLEN: TxSplit(s, 0, 0, <<>>, NULL, m)
  BY <1>0, <1>6
<1> QED BY <1>5, <1>7, <1>8 DEF TxRing, s, p

-----------------------------------------------------------------------------
(* The inductive invariant.                                                *)

Bits == {"INIT", "STRT", "STOP", "TXON", "RXON", "INEA", "INTR", "IDON", "TINT", "RINT"}
Phases == {"stopped", "built", "initialised", "idle", "seen", "drain"}

Devices ==
    [csr0: SUBSET Bits, mode: Modes \cup {{}}, rx: RxRings, tx: TxRings,
     rxp: 0..RLEN - 1, txp: 0..TLEN - 1,
     tx_packet: Packets \cup {NULL}, rx_packet: Packets \cup {NULL}, rx_packet_offset: Nat,
     rx_middle_bit: BOOLEAN, irq_asserted: BOOLEAN]

Types ==
    /\ d \in Devices /\ tick \in {"none", "rx", "tx"} /\ chain \in Seq(Links)
    /\ phase \in Phases /\ seen \in SUBSET Bits
    /\ gr \in 0..RLEN - 1 /\ gt \in 0..TLEN - 1
    /\ tosend \in Seq(Cells) /\ part \in Seq(Cells) /\ got \in Seq(Seq(Cells))
    /\ counts \in [sent: Nat, arrived: Nat, restarts: Nat]
    /\ posted \in Seq(Cells) /\ wire \in Seq(Cells) /\ late \in BOOLEAN

(* The receiver of the chip.                                               *)
Receiver(rx, packet, offset, middle) ==
    /\ \A i \in 0..RLEN - 1: Len(rx[i].cells) <= BufLen /\ (rx[i].own => ~rx[i].enp)
    /\ packet # NULL => offset \in 0..Len(packet) - 1
    /\ packet = NULL => offset = 0 /\ ~middle

(* The chip and the driver about the receive ring.                         *)
Receiving(rx, rxp, g, p, packet, offset, ph) ==
    IF ph = "built" THEN g = 0 /\ p = <<>> /\ \A i \in 0..RLEN - 1: rx[i] = EmptyRx
    ELSE RxRing(rx, rxp, g, p, packet, offset)

(* The driver and the chip about the transmit ring.                        *)
Transmitting(tx, txp, g, rest, packet, po, wi, ph) ==
    IF ph = "built" THEN /\ g = 0 /\ rest = <<>> /\ po = <<>> /\ wi = <<>>
                         /\ \A i \in 0..TLEN - 1: ~tx[i].own
    ELSE TxRing(tx, txp, g, rest, packet, po, wi)

Interrupts(csr0, irq, tk, ph, se) ==
    /\ "INIT" \notin csr0
    /\ tk = "none" => /\ "RINT" \in csr0 => "INTR" \in csr0
                      /\ irq <=> ("INTR" \in csr0 /\ "INEA" \in csr0)
    /\ ph \in {"idle", "seen", "drain"} => "INEA" \in csr0
    /\ ph = "seen" => "INEA" \in se

NoneEnds(rx) == \A i \in 0..RLEN - 1: rx[i].own \/ ~rx[i].enp

(* The driver will find out about a packet in the ring.                    *)
Announced(csr0, ph, se, rx) ==
    \/ ph \in {"built", "stopped", "drain"}
    \/ "RINT" \in csr0
    \/ ph = "seen" /\ "RINT" \in se
    \/ NoneEnds(rx)

Inv ==
    /\ Types
    /\ Receiver(d.rx, d.rx_packet, d.rx_packet_offset, d.rx_middle_bit)
    /\ ~late => /\ Receiving(d.rx, d.rxp, gr, part, d.rx_packet, d.rx_packet_offset, phase)
                /\ Announced(d.csr0, phase, seen, d.rx)
    /\ Transmitting(d.tx, d.txp, gt, tosend, d.tx_packet, posted, wire, phase)
    /\ Interrupts(d.csr0, d.irq_asserted, tick, phase, seen)

(* A packet is not the NULL pointer.                                       *)
LEMMA NotNull == \A p \in Packets: p # NULL /\ p \in Seq(Cells) /\ p # <<>>
  BY LanceAssumption DEF Packets

(* Every device starts stopped, with nothing in its rings.                 *)
LEMMA InitInv == Init => Inv
<1> SUFFICES ASSUME Init PROVE Inv
  OBVIOUS
<1>0. RLEN \in Nat \ {0} /\ TLEN \in Nat \ {0} /\ BufLen \in Nat \ {0}
  BY Sizes
<1> DEFINE rx == [i \in 0..RLEN - 1 |-> NoDescriptor]
           tx == [i \in 0..TLEN - 1 |-> NoDescriptor]
<1>1. /\ d.csr0 = {"STOP"} /\ d.mode = {} /\ d.rx = rx /\ d.tx = tx /\ d.rxp = 0 /\ d.txp = 0
      /\ d.tx_packet = NULL /\ d.rx_packet = NULL /\ d.rx_packet_offset = 0
      /\ d.rx_middle_bit = FALSE /\ d.irq_asserted = FALSE
  BY DEF Init
<1>2. rx \in RxRings /\ tx \in TxRings
  BY NoDescriptorType DEF RxRings, TxRings
<1>3. /\ \A i \in 0..RLEN - 1: rx[i] = NoDescriptor
      /\ \A i \in 0..TLEN - 1: tx[i] = NoDescriptor
  OBVIOUS
<1> HIDE DEF rx, tx
<1>4. d \in Devices
  <2>1. /\ d = [csr0 |-> {"STOP"}, mode |-> {}, rx |-> rx, tx |-> tx, rxp |-> 0, txp |-> 0,
                tx_packet |-> NULL, rx_packet |-> NULL, rx_packet_offset |-> 0,
                rx_middle_bit |-> FALSE, irq_asserted |-> FALSE]
    BY DEF Init, rx, tx
  <2>2. {"STOP"} \in SUBSET Bits
    BY DEF Bits
  <2> QED BY <1>0, <1>2, <2>1, <2>2 DEF Devices
<1>5. Types
  <2>1. chain \in Seq(Links) /\ got \in Seq(Seq(Cells))
    BY DEF Init
  <2>2. tosend \in Seq(Cells) /\ part \in Seq(Cells) /\ posted \in Seq(Cells) /\ wire \in Seq(Cells)
    BY DEF Init
  <2>3. phase \in Phases /\ seen \in SUBSET Bits /\ gr \in 0..RLEN - 1 /\ gt \in 0..TLEN - 1
    BY <1>0 DEF Init, Phases
  <2>4. counts \in [sent: Nat, arrived: Nat, restarts: Nat] /\ late \in BOOLEAN
    BY DEF Init
  <2>5. tick \in {"none", "rx", "tx"}
    BY DEF Init
  <2> QED BY <1>4, <2>1, <2>2, <2>3, <2>4, <2>5 DEF Types
<1>6. Receiver(d.rx, d.rx_packet, d.rx_packet_offset, d.rx_middle_bit)
  <2>1. \A i \in 0..RLEN - 1: Len(d.rx[i].cells) <= BufLen /\ ~d.rx[i].own
    <3>1. Len(<<>>) = 0
      OBVIOUS
    <3> QED BY <1>0, <1>1, <1>3, <3>1, NoDescriptorType
  <2> QED BY <1>1, <2>1 DEF Receiver
<1>7. Receiving(d.rx, d.rxp, gr, part, d.rx_packet, d.rx_packet_offset, phase)
  <2> DEFINE g == 0
             p == <<>>
  <2>1. g \in 0..RLEN - 1 /\ p \in Seq(Cells) /\ d.rx \in RxRings
    BY <1>0, <1>1, <1>2
  <2>2. \A i \in 0..RLEN - 1: ~d.rx[i].own /\ ~d.rx[i].enp /\ d.rx[i].cells = <<>>
    BY <1>1, <1>3, NoDescriptorType
  <2> HIDE DEF g, p
  <2>3. Held(d.rx, g, p).part = p
    BY <2>1, <2>2, HeldNothing
  <2>4. ASSUME NEW i \in 1..RLEN PROVE From(d.rx, RLEN, g)[i].own <=> i > RLEN
    <3>1. From(d.rx, RLEN, g)[i] = d.rx[PlaceOf(g, i, RLEN)] /\ PlaceOf(g, i, RLEN) \in 0..RLEN - 1
      BY <1>0, <2>1, FromAt
    <3>2. ~From(d.rx, RLEN, g)[i].own
      BY <2>2, <3>1
    <3> QED BY <1>0, <3>2
  <2>5. 0 = (g + RLEN) % RLEN
    <3>1. RLEN \in 0..RLEN
      BY <1>0
    <3>2. (g + RLEN) % RLEN = IF g + RLEN >= RLEN THEN g + RLEN - RLEN ELSE g + RLEN
      BY <1>0, <2>1, <3>1, PlaceIs
    <3>3. g + RLEN >= RLEN /\ g + RLEN - RLEN = 0
      BY <1>0 DEF g
    <3> QED BY <3>2, <3>3
  <2>6. RxSplit(d.rx, 0, g, RLEN)
    BY <2>4, <2>5 DEF RxSplit
  <2>7. RxRing(d.rx, 0, g, p, NULL, 0)
    BY <1>0, <2>3, <2>6 DEF RxRing, Copied, p
  <2> QED BY <1>1, <2>7 DEF Receiving, Init, g, p
<1>8. Announced(d.csr0, phase, seen, d.rx)
  BY DEF Announced, Init
<1>9. Transmitting(d.tx, d.txp, gt, tosend, d.tx_packet, posted, wire, phase)
  <2>1. \A i \in 0..TLEN - 1: ~d.tx[i].own
    BY <1>1, <1>3, NoDescriptorType
  <2>2. TxRing(d.tx, 0, 0, <<>>, NULL, <<>>, <<>>)
    BY <1>1, <1>2, <2>1, TxStart
  <2> QED BY <1>1, <2>2 DEF Transmitting, Init
<1>10. Interrupts(d.csr0, d.irq_asserted, tick, phase, seen)
  BY <1>1 DEF Interrupts, Init
<1> QED BY <1>5, <1>6, <1>7, <1>8, <1>9, <1>10 DEF Inv

(* Everything but CSR0 and the interrupt line is as before.                *)
SameButCsr0(e, dd) ==
    /\ e.mode = dd.mode /\ e.rx = dd.rx /\ e.tx = dd.tx /\ e.rxp = dd.rxp /\ e.txp = dd.txp
    /\ e.tx_packet = dd.tx_packet /\ e.rx_packet = dd.rx_packet
    /\ e.rx_packet_offset = dd.rx_packet_offset /\ e.rx_middle_bit = dd.rx_middle_bit

LEMMA DeviceFields ==
    ASSUME NEW dd \in Devices
    PROVE  /\ dd.csr0 \in SUBSET Bits /\ dd.mode \in Modes \cup {{}}
           /\ dd.rx \in RxRings /\ dd.tx \in TxRings
           /\ dd.rxp \in 0..RLEN - 1 /\ dd.txp \in 0..TLEN - 1
           /\ dd.tx_packet \in Packets \cup {NULL} /\ dd.rx_packet \in Packets \cup {NULL}
           /\ dd.rx_packet_offset \in Nat /\ dd.rx_middle_bit \in BOOLEAN
           /\ dd.irq_asserted \in BOOLEAN
  BY DEF Devices

LEMMA Csr0Changed ==
    ASSUME NEW dd \in Devices, NEW c \in SUBSET Bits
    PROVE  /\ [dd EXCEPT !.csr0 = c] \in Devices /\ [dd EXCEPT !.csr0 = c].csr0 = c
           /\ SameButCsr0([dd EXCEPT !.csr0 = c], dd)
           /\ [dd EXCEPT !.csr0 = c].irq_asserted = dd.irq_asserted
  BY DEF Devices, SameButCsr0

LineSet(dd, c, e) == e = [dd EXCEPT !.csr0 = c, !.irq_asserted = {"INTR", "INEA"} \subseteq c]

LEMMA LineChanged ==
    ASSUME NEW dd \in Devices, NEW c \in SUBSET Bits, NEW e, LineSet(dd, c, e)
    PROVE  /\ e \in Devices /\ e.csr0 = c /\ SameButCsr0(e, dd)
           /\ e.irq_asserted <=> {"INTR", "INEA"} \subseteq c
<1>1. /\ e.csr0 = c /\ SameButCsr0(e, dd)
      /\ e.irq_asserted = ({"INTR", "INEA"} \subseteq c)
  BY DEF LineSet, Devices, SameButCsr0
<1>2. e.irq_asserted \in BOOLEAN
  BY <1>1
<1>3. e \in Devices
  BY <1>1, <1>2 DEF LineSet, Devices
<1> QED BY <1>1, <1>3

(* What writing CSR0 does to the bits the invariant is about.              *)
LEMMA RegisterWrite ==
    ASSUME NEW c \in SUBSET Bits, NEW x \in SUBSET Bits
    PROVE  /\ le_register_write(c, x) \in SUBSET Bits
           /\ "INIT" \notin c /\ "INIT" \notin x => "INIT" \notin le_register_write(c, x)
           /\ "INIT" \in x /\ "STOP" \notin x => "INIT" \in le_register_write(c, x)
           /\ "INEA" \in le_register_write(c, x) <=> "INEA" \in x
           /\ "RINT" \in le_register_write(c, x) <=> "RINT" \in c /\ "RINT" \notin x
<1> DEFINE k == (c \ (ClearedBy(x) \cup {"INEA"})) \cup (x \cap {"INEA"})
           s == IF x \cap {"STRT", "INIT"} = {} THEN k ELSE (k \ {"STOP"}) \cup (x \cap {"STRT", "INIT"})
           r == IF "STOP" \in x THEN (s \ {"STRT", "INIT"}) \cup {"STOP"} ELSE s
<1>1. le_register_write(c, x) = r
  BY DEF le_register_write
<1>2. /\ k \in SUBSET Bits /\ ("INIT" \in k <=> "INIT" \in c) /\ ("INEA" \in k <=> "INEA" \in x)
      /\ "RINT" \in k <=> "RINT" \in c /\ "RINT" \notin x
  BY DEF ClearedBy, Bits
<1> HIDE DEF k
<1>3. /\ s \in SUBSET Bits /\ ("INIT" \in s <=> "INIT" \in k \/ "INIT" \in x)
      /\ ("INEA" \in s <=> "INEA" \in k) /\ ("RINT" \in s <=> "RINT" \in k)
  <2>1. CASE x \cap {"STRT", "INIT"} = {}
    <3>1. s = k /\ "INIT" \notin x
      BY <2>1
    <3> QED BY <1>2, <3>1
  <2>2. CASE x \cap {"STRT", "INIT"} # {}
    <3>1. s = (k \ {"STOP"}) \cup (x \cap {"STRT", "INIT"})
      BY <2>2
    <3> QED BY <1>2, <3>1
  <2> QED BY <2>1, <2>2
<1> HIDE DEF s
<1>4. /\ r \in SUBSET Bits /\ ("INIT" \in r <=> "INIT" \in s /\ "STOP" \notin x)
      /\ ("INEA" \in r <=> "INEA" \in s) /\ ("RINT" \in r <=> "RINT" \in s)
  <2>1. CASE "STOP" \in x
    <3>1. r = (s \ {"STRT", "INIT"}) \cup {"STOP"} /\ "STOP" \in Bits
      BY <2>1 DEF Bits
    <3> QED BY <1>3, <2>1, <3>1
  <2>2. CASE "STOP" \notin x
    BY <1>3, <2>2
  <2> QED BY <2>1, <2>2
<1> HIDE DEF r
<1> QED BY <1>1, <1>2, <1>3, <1>4

(* What the end of a tick does to them.                                    *)
LEMMA Summary ==
    ASSUME NEW c \in SUBSET Bits
    PROVE  /\ SummaryBits(c) \in SUBSET Bits
           /\ "INIT" \in SummaryBits(c) <=> "INIT" \in c
           /\ "INEA" \in SummaryBits(c) <=> "INEA" \in c
           /\ "RINT" \in SummaryBits(c) <=> "RINT" \in c
           /\ "RINT" \in c => "INTR" \in SummaryBits(c)
<1> DEFINE u == {"INTR"} \cup (IF "STOP" \in c THEN {"IDON"} ELSE {})
           v == IF InterruptBits(c) # {} THEN {"INTR"} ELSE {}
<1>1. SummaryBits(c) = (c \ u) \cup v
  BY DEF SummaryBits
<1>2. "INIT" \notin u /\ "INEA" \notin u /\ "RINT" \notin u
  OBVIOUS
<1>3. v \subseteq {"INTR"} /\ ("RINT" \in c => "INTR" \in v)
  BY DEF InterruptBits
<1>4. {"INTR"} \subseteq Bits
  BY DEF Bits
<1> HIDE DEF u, v
<1> QED BY <1>1, <1>2, <1>3, <1>4

(* A register is written, and nothing is initialised.                      *)
LEMMA Written ==
    ASSUME Inv, NEW x \in SUBSET Bits, "INIT" \notin x, WriteCsr0(x)
    PROVE  /\ d' \in Devices /\ SameButCsr0(d', d) /\ d'.csr0 = le_register_write(d.csr0, x)
           /\ "INIT" \notin d'.csr0 /\ tick = "none" /\ tick' = "rx"
           /\ chain' = chain /\ wire' = wire /\ late' = late
<1> DEFINE c == le_register_write(d.csr0, x)
           e == [d EXCEPT !.csr0 = c]
<1>1. d \in Devices /\ d.csr0 \in SUBSET Bits /\ "INIT" \notin d.csr0
  <2>1. d \in Devices /\ "INIT" \notin d.csr0
    BY DEF Inv, Types, Interrupts
  <2> QED BY <2>1, DeviceFields
<1>2. c \in SUBSET Bits /\ "INIT" \notin c
  BY <1>1, RegisterWrite
<1>3. /\ tick = "none" /\ tick' = "rx" /\ chain' = chain /\ wire' = wire /\ late' = late
      /\ d' = IF "INIT" \in e.csr0 THEN le_chip_init(e) ELSE e
  BY DEF WriteCsr0, BeginTick
<1> HIDE DEF c
<1>4. e \in Devices /\ e.csr0 = c /\ SameButCsr0(e, d)
  BY <1>1, <1>2, Csr0Changed
<1> HIDE DEF e
<1> QED BY <1>2, <1>3, <1>4 DEF c

(* A tick begins, and nothing is initialised.                              *)
LEMMA Ticked ==
    ASSUME Inv, BeginTick(d)
    PROVE  d' = d /\ tick = "none" /\ tick' = "rx"
  BY DEF Inv, Interrupts, BeginTick

(* The parts of the invariant when only CSR0 changes.                      *)
LEMMA PartsKept ==
    ASSUME Inv, SameButCsr0(d', d), d' \in Devices, gr' = gr, gt' = gt, part' = part,
           tosend' = tosend, posted' = posted, wire' = wire, late' = late,
           phase' = phase \/ (phase # "built" /\ phase' # "built")
    PROVE  /\ Receiver(d.rx, d.rx_packet, d.rx_packet_offset, d.rx_middle_bit)'
           /\ (~late => Receiving(d.rx, d.rxp, gr, part, d.rx_packet, d.rx_packet_offset, phase))'
           /\ Transmitting(d.tx, d.txp, gt, tosend, d.tx_packet, posted, wire, phase)'
<1>1. /\ d'.rx = d.rx /\ d'.tx = d.tx /\ d'.rxp = d.rxp /\ d'.txp = d.txp
      /\ d'.tx_packet = d.tx_packet /\ d'.rx_packet = d.rx_packet
      /\ d'.rx_packet_offset = d.rx_packet_offset /\ d'.rx_middle_bit = d.rx_middle_bit
  BY DEF SameButCsr0
<1>2. Receiver(d.rx, d.rx_packet, d.rx_packet_offset, d.rx_middle_bit)
  BY DEF Inv
<1>3. ~late => Receiving(d.rx, d.rxp, gr, part, d.rx_packet, d.rx_packet_offset, phase)
  BY DEF Inv
<1>4. Transmitting(d.tx, d.txp, gt, tosend, d.tx_packet, posted, wire, phase)
  BY DEF Inv
<1>5. phase' = "built" <=> phase = "built"
  OBVIOUS
<1>6. Receiver(d'.rx, d'.rx_packet, d'.rx_packet_offset, d'.rx_middle_bit)
  BY <1>1, <1>2
<1>7. ~late' => Receiving(d'.rx, d'.rxp, gr', part', d'.rx_packet, d'.rx_packet_offset, phase')
  BY <1>1, <1>3, <1>5 DEF Receiving
<1>8. Transmitting(d'.tx, d'.txp, gt', tosend', d'.tx_packet, posted', wire', phase')
  BY <1>1, <1>4, <1>5 DEF Transmitting
<1> QED BY <1>6, <1>7, <1>8

-----------------------------------------------------------------------------
(* The steps that change only registers.                                   *)

LEMMA DeviceTickInv == Inv /\ DeviceTick => Inv'
<1> SUFFICES ASSUME Inv, DeviceTick PROVE Inv'
  OBVIOUS
<1>1. d' = d /\ tick' = "rx"
  BY Ticked DEF DeviceTick
<1>2. UNCHANGED <<chain, phase, seen, gr, gt, tosend, part, got, counts, posted, wire, late>>
  BY DEF DeviceTick, driverVars
<1>3. Types'
  BY <1>1, <1>2 DEF Inv, Types
<1>4. SameButCsr0(d', d) /\ d' \in Devices
  BY <1>1, <1>3 DEF SameButCsr0, Types
<1>5. /\ Receiver(d.rx, d.rx_packet, d.rx_packet_offset, d.rx_middle_bit)'
      /\ (~late => Receiving(d.rx, d.rxp, gr, part, d.rx_packet, d.rx_packet_offset, phase))'
      /\ Transmitting(d.tx, d.txp, gt, tosend, d.tx_packet, posted, wire, phase)'
  BY <1>2, <1>4, PartsKept
<1>6. (~late => Announced(d.csr0, phase, seen, d.rx))'
  BY <1>1, <1>2 DEF Inv
<1>7. Interrupts(d.csr0, d.irq_asserted, tick, phase, seen)'
  BY <1>1, <1>2 DEF Inv, Interrupts
<1> QED BY <1>3, <1>5, <1>6, <1>7 DEF Inv

(* STRT turns interrupts on.                                               *)
LEMMA StartInv == Inv /\ Start => Inv'
<1> SUFFICES ASSUME Inv, Start PROVE Inv'
  OBVIOUS
<1> DEFINE x == {"STRT", "INEA"}
<1>1. x \in SUBSET Bits /\ "INIT" \notin x /\ "RINT" \notin x /\ "INEA" \in x
  BY DEF Bits
<1>2. /\ phase = "initialised" /\ phase' = "idle" /\ WriteCsr0(x)
      /\ UNCHANGED <<seen, gr, gt, tosend, part, got, counts, posted>>
  BY DEF Start
<1> HIDE DEF x
<1>3. /\ d' \in Devices /\ SameButCsr0(d', d) /\ d'.csr0 = le_register_write(d.csr0, x)
      /\ "INIT" \notin d'.csr0 /\ tick' = "rx"
      /\ chain' = chain /\ wire' = wire /\ late' = late
  BY <1>1, <1>2, Written
<1>4. d.csr0 \in SUBSET Bits
  BY DeviceFields DEF Inv, Types
<1>5. "INEA" \in d'.csr0 /\ ("RINT" \in d.csr0 => "RINT" \in d'.csr0)
  BY <1>1, <1>3, <1>4, RegisterWrite
<1>6. Types'
  BY <1>2, <1>3 DEF Inv, Types, Phases
<1>7. /\ Receiver(d.rx, d.rx_packet, d.rx_packet_offset, d.rx_middle_bit)'
      /\ (~late => Receiving(d.rx, d.rxp, gr, part, d.rx_packet, d.rx_packet_offset, phase))'
      /\ Transmitting(d.tx, d.txp, gt, tosend, d.tx_packet, posted, wire, phase)'
  BY <1>2, <1>3, PartsKept
<1>8. (~late => Announced(d.csr0, phase, seen, d.rx))'
  BY <1>2, <1>3, <1>5 DEF Inv, Announced, SameButCsr0
<1>9. Interrupts(d.csr0, d.irq_asserted, tick, phase, seen)'
  BY <1>2, <1>3, <1>5 DEF Interrupts
<1> QED BY <1>6, <1>7, <1>8, <1>9 DEF Inv

(* The driver has seen the bits that CSR0 had before the tick.             *)
LEMMA ReadCsr0Inv == Inv /\ ReadCsr0 => Inv'
<1> SUFFICES ASSUME Inv, ReadCsr0 PROVE Inv'
  OBVIOUS
<1>1. d' = d /\ tick' = "rx"
  BY Ticked DEF ReadCsr0
<1>2. /\ phase = "idle" /\ phase' = "seen" /\ seen' = d.csr0
      /\ UNCHANGED <<chain, wire, late, gr, gt, tosend, part, got, counts, posted>>
  BY DEF ReadCsr0
<1>3. d.csr0 \in SUBSET Bits
  BY DeviceFields DEF Inv, Types
<1>4. Types'
  BY <1>1, <1>2, <1>3 DEF Inv, Types, Phases
<1>5. SameButCsr0(d', d) /\ d' \in Devices
  BY <1>1, <1>4 DEF SameButCsr0, Types
<1>6. /\ Receiver(d.rx, d.rx_packet, d.rx_packet_offset, d.rx_middle_bit)'
      /\ (~late => Receiving(d.rx, d.rxp, gr, part, d.rx_packet, d.rx_packet_offset, phase))'
      /\ Transmitting(d.tx, d.txp, gt, tosend, d.tx_packet, posted, wire, phase)'
  BY <1>2, <1>5, PartsKept
<1>7. (~late => Announced(d.csr0, phase, seen, d.rx))'
  BY <1>1, <1>2 DEF Inv, Announced
<1>8. Interrupts(d.csr0, d.irq_asserted, tick, phase, seen)'
  BY <1>1, <1>2 DEF Inv, Interrupts
<1> QED BY <1>4, <1>6, <1>7, <1>8 DEF Inv

(* What is cleared has been seen; a later RINT stays.                      *)
LEMMA AcknowledgeInv == Inv /\ Acknowledge => Inv'
<1> SUFFICES ASSUME Inv, Acknowledge PROVE Inv'
  OBVIOUS
<1> DEFINE x == seen \cap {"RINT", "TINT", "IDON", "INEA"}
<1>0. seen \in SUBSET Bits /\ "INEA" \in seen /\ phase = "seen"
  BY DEF Inv, Types, Interrupts, Acknowledge
<1>1. x \in SUBSET Bits /\ "INIT" \notin x /\ ("RINT" \in x <=> "RINT" \in seen) /\ "INEA" \in x
  BY <1>0
<1>2. /\ phase' = (IF "RINT" \in seen THEN "drain" ELSE "idle") /\ WriteCsr0(x)
      /\ UNCHANGED <<seen, gr, gt, tosend, part, got, counts, posted>>
  BY DEF Acknowledge
<1> HIDE DEF x
<1>3. /\ d' \in Devices /\ SameButCsr0(d', d) /\ d'.csr0 = le_register_write(d.csr0, x)
      /\ "INIT" \notin d'.csr0 /\ tick' = "rx"
      /\ chain' = chain /\ wire' = wire /\ late' = late
  BY <1>1, <1>2, Written
<1>4. d.csr0 \in SUBSET Bits
  BY DeviceFields DEF Inv, Types
<1>5. "INEA" \in d'.csr0 /\ ("RINT" \in d.csr0 /\ "RINT" \notin seen => "RINT" \in d'.csr0)
  BY <1>1, <1>3, <1>4, RegisterWrite
<1>6. Types'
  BY <1>2, <1>3 DEF Inv, Types, Phases
<1>7. /\ Receiver(d.rx, d.rx_packet, d.rx_packet_offset, d.rx_middle_bit)'
      /\ (~late => Receiving(d.rx, d.rxp, gr, part, d.rx_packet, d.rx_packet_offset, phase))'
      /\ Transmitting(d.tx, d.txp, gt, tosend, d.tx_packet, posted, wire, phase)'
  BY <1>0, <1>2, <1>3, PartsKept
<1>8. (~late => Announced(d.csr0, phase, seen, d.rx))'
  BY <1>0, <1>2, <1>3, <1>5 DEF Inv, Announced, SameButCsr0
<1>9. Interrupts(d.csr0, d.irq_asserted, tick, phase, seen)'
  BY <1>0, <1>2, <1>3, <1>5 DEF Interrupts
<1> QED BY <1>6, <1>7, <1>8, <1>9 DEF Inv

(* The rings stay as they are.                                             *)
LEMMA StopInv == Inv /\ Stop => Inv'
<1> SUFFICES ASSUME Inv, Stop PROVE Inv'
  OBVIOUS
<1> DEFINE x == {"STOP"}
<1>1. x \in SUBSET Bits /\ "INIT" \notin x
  BY DEF Bits
<1>2. /\ phase \in {"idle", "seen", "drain"} /\ phase' = "stopped" /\ WriteCsr0(x)
      /\ counts' = [counts EXCEPT !.restarts = @ + 1]
      /\ UNCHANGED <<seen, gr, gt, tosend, part, got, posted>>
  BY DEF Stop
<1> HIDE DEF x
<1>3. /\ d' \in Devices /\ SameButCsr0(d', d)
      /\ "INIT" \notin d'.csr0 /\ tick' = "rx"
      /\ chain' = chain /\ wire' = wire /\ late' = late
  BY <1>1, <1>2, Written
<1>4. counts' \in [sent: Nat, arrived: Nat, restarts: Nat]
  <2>1. counts \in [sent: Nat, arrived: Nat, restarts: Nat]
    BY DEF Inv, Types
  <2> QED BY <1>2, <2>1
<1>6. Types'
  BY <1>2, <1>3, <1>4 DEF Inv, Types, Phases
<1>7. /\ Receiver(d.rx, d.rx_packet, d.rx_packet_offset, d.rx_middle_bit)'
      /\ (~late => Receiving(d.rx, d.rxp, gr, part, d.rx_packet, d.rx_packet_offset, phase))'
      /\ Transmitting(d.tx, d.txp, gt, tosend, d.tx_packet, posted, wire, phase)'
  BY <1>2, <1>3, PartsKept
<1>8. Announced(d.csr0, phase, seen, d.rx)'
  BY <1>2 DEF Announced
<1>9. Interrupts(d.csr0, d.irq_asserted, tick, phase, seen)'
  BY <1>2, <1>3 DEF Interrupts
<1> QED BY <1>6, <1>7, <1>8, <1>9 DEF Inv

(* The tick goes on to the transmitter.                                    *)
LEMMA ReceiverDoneInv == Inv /\ ReceiverDone => Inv'
<1> SUFFICES ASSUME Inv, ReceiverDone PROVE Inv'
  OBVIOUS
<1>1. /\ tick' = "tx"
      /\ UNCHANGED <<d, chain, phase, seen, gr, gt, tosend, part, got, counts, posted, wire, late>>
  BY DEF ReceiverDone, driverVars
<1>2. Types'
  BY <1>1 DEF Inv, Types
<1>3. Interrupts(d.csr0, d.irq_asserted, tick, phase, seen)'
  BY <1>1 DEF Inv, Interrupts
<1> QED BY <1>1, <1>2, <1>3 DEF Inv

(* INTR and the line follow from the bits.                                 *)
LEMMA TransmitterDoneInv == Inv /\ TransmitterDone => Inv'
<1> SUFFICES ASSUME Inv, TransmitterDone PROVE Inv'
  OBVIOUS
<1> DEFINE c == SummaryBits(d.csr0)
<1>1. /\ tick' = "none" /\ LineSet(d, c, d')
      /\ UNCHANGED <<chain, phase, seen, gr, gt, tosend, part, got, counts, posted, wire, late>>
  BY DEF TransmitterDone, driverVars, LineSet
<1>2. d \in Devices /\ d.csr0 \in SUBSET Bits
  BY DeviceFields DEF Inv, Types
<1>3. /\ c \in SUBSET Bits /\ ("INIT" \in c <=> "INIT" \in d.csr0)
      /\ ("INEA" \in c <=> "INEA" \in d.csr0) /\ ("RINT" \in c <=> "RINT" \in d.csr0)
      /\ "RINT" \in d.csr0 => "INTR" \in c
  BY <1>2, Summary
<1> HIDE DEF c
<1>5. /\ d' \in Devices /\ d'.csr0 = c /\ SameButCsr0(d', d)
      /\ d'.irq_asserted <=> {"INTR", "INEA"} \subseteq c
  BY <1>1, <1>2, <1>3, LineChanged
<1>4. d'.irq_asserted <=> "INTR" \in c /\ "INEA" \in c
  BY <1>5
<1>6. Types'
  BY <1>1, <1>5 DEF Inv, Types
<1>7. /\ Receiver(d.rx, d.rx_packet, d.rx_packet_offset, d.rx_middle_bit)'
      /\ (~late => Receiving(d.rx, d.rxp, gr, part, d.rx_packet, d.rx_packet_offset, phase))'
      /\ Transmitting(d.tx, d.txp, gt, tosend, d.tx_packet, posted, wire, phase)'
  BY <1>1, <1>5, PartsKept
<1>8. (~late => Announced(d.csr0, phase, seen, d.rx))'
  BY <1>1, <1>3, <1>5 DEF Inv, Announced, SameButCsr0
<1>9. Interrupts(d.csr0, d.irq_asserted, tick, phase, seen)'
  BY <1>1, <1>3, <1>4, <1>5 DEF Inv, Interrupts
<1> QED BY <1>6, <1>7, <1>8, <1>9 DEF Inv

(* The driver stops reading when no descriptor is left to read.            *)
LEMMA DrainedInv == Inv /\ Drained => Inv'
<1> SUFFICES ASSUME Inv, Drained PROVE Inv'
  OBVIOUS
<1>1. /\ phase = "drain" /\ phase' = "idle" /\ d.rx[gr].own
      /\ UNCHANGED <<d, tick, chain, seen, gr, gt, tosend, part, got, counts, posted, wire, late>>
  BY DEF Drained
<1>2. Types'
  BY <1>1 DEF Inv, Types, Phases
<1>3. SameButCsr0(d', d) /\ d' \in Devices
  BY <1>1, <1>2 DEF SameButCsr0, Types
<1>4. /\ Receiver(d.rx, d.rx_packet, d.rx_packet_offset, d.rx_middle_bit)'
      /\ (~late => Receiving(d.rx, d.rxp, gr, part, d.rx_packet, d.rx_packet_offset, phase))'
      /\ Transmitting(d.tx, d.txp, gt, tosend, d.tx_packet, posted, wire, phase)'
  BY <1>1, <1>3, PartsKept
<1>5. ASSUME ~late PROVE NoneEnds(d.rx)
  <2>1. RxRing(d.rx, d.rxp, gr, part, d.rx_packet, d.rx_packet_offset)
    BY <1>1, <1>5 DEF Inv, Receiving
  <2>2. d.rx \in RxRings /\ gr \in 0..RLEN - 1
    BY DeviceFields DEF Inv, Types
  <2>3. \A j \in 0..RLEN - 1: d.rx[j].own
    BY <1>1, <2>1, <2>2, AllRead
  <2> QED BY <2>3 DEF NoneEnds
<1>6. (~late => Announced(d.csr0, phase, seen, d.rx))'
  BY <1>1, <1>5 DEF Announced
<1>7. Interrupts(d.csr0, d.irq_asserted, tick, phase, seen)'
  BY <1>1 DEF Inv, Interrupts
<1> QED BY <1>2, <1>4, <1>6, <1>7 DEF Inv

(* A packet of another interface is copied for this one.                   *)
LEMMA ArriveInv ==
    ASSUME Inv, NEW nic \in Nics, NEW len \in Lens, Arrive(nic, len)
    PROVE  Inv' /\ MoreFor(Le, chain, chain')
<1> DEFINE data == Packet(nic, counts.arrived + 1, "unicast", len)
<1>1. /\ nic # Le /\ counts' = [counts EXCEPT !.arrived = @ + 1]
      /\ chain' = net_ethernet_tx(chain, nic, data)
      /\ UNCHANGED <<d, tick, phase, seen, gr, gt, tosend, part, got, posted, wire, late>>
  BY DEF Arrive, driverVars
<1>2. counts \in [sent: Nat, arrived: Nat, restarts: Nat] /\ chain \in Seq(Links)
  BY DEF Inv, Types
<1>3. counts.arrived + 1 \in Nat
  BY <1>2
<1>4. data \in Packets
  <2>1. nic \in Nics \cup {"gateway"} /\ "unicast" \in Headers /\ len \in Nat \ {0}
    BY LanceAssumption DEF Headers
  <2> QED BY <1>3, <2>1, PacketType
<1>5. counts' \in [sent: Nat, arrived: Nat, restarts: Nat]
  BY <1>1, <1>2
<1> HIDE DEF data
<1>6. Le \in Nics
  BY LanceAssumption
<1>7. chain' \in Seq(Links) /\ MoreFor(Le, chain, chain')
  BY <1>1, <1>2, <1>4, <1>6, PacketSent
<1>8. Types'
  BY <1>1, <1>5, <1>7 DEF Inv, Types
<1> QED BY <1>1, <1>7, <1>8 DEF Inv

(* Another interface takes a packet of its own.                            *)
LEMMA OtherReceivesInv ==
    ASSUME Inv, NEW nic \in Nics, OtherReceives(nic)
    PROVE  Inv' /\ Waiting(chain', Le) = Waiting(chain, Le)
<1>1. /\ nic # Le /\ net_ethernet_rx_avail(chain, nic)
      /\ chain' = net_ethernet_rx(chain, nic).chain
      /\ UNCHANGED <<d, tick, phase, seen, gr, gt, tosend, part, got, counts, posted, wire, late>>
  BY DEF OtherReceives, driverVars
<1>2. chain \in Seq(Links)
  BY DEF Inv, Types
<1>3. chain' \in Seq(Links)
  BY <1>1, <1>2, PacketTaken
<1>4. Waiting(chain', Le) = Waiting(chain, Le)
  BY <1>1, <1>2, OtherPacketTaken
<1>5. Types'
  BY <1>1, <1>3 DEF Inv, Types
<1> QED BY <1>1, <1>4, <1>5 DEF Inv

-----------------------------------------------------------------------------
(* The receiver of the chip.                                               *)

LEMMA TakePacketInv ==
    ASSUME Inv, TakePacket
    PROVE  /\ Inv'
           /\ d.rx_packet = NULL /\ d'.rx_packet \in Packets /\ d'.rx = d.rx
           /\ Waiting(chain, Le) = <<d'.rx_packet>> \o Waiting(chain', Le)
<1> DEFINE data == net_ethernet_rx(chain, Le).data
<1>1. /\ net_ethernet_rx_avail(chain, Le) /\ d.rx_packet = NULL
      /\ chain' = net_ethernet_rx(chain, Le).chain /\ d' = [d EXCEPT !.rx_packet = data]
      /\ UNCHANGED <<tick, phase, seen, gr, gt, tosend, part, got, counts, posted, wire, late>>
  BY DEF TakePacket, CanTake, driverVars
<1>2. chain \in Seq(Links) /\ d \in Devices
  BY DEF Inv, Types
<1>3. data \in Packets /\ chain' \in Seq(Links)
      /\ Waiting(chain, Le) = <<data>> \o Waiting(chain', Le)
  BY <1>1, <1>2, PacketTaken
<1> HIDE DEF data
<1>4. /\ d' \in Devices /\ d'.csr0 = d.csr0 /\ d'.rx = d.rx /\ d'.tx = d.tx /\ d'.rxp = d.rxp
      /\ d'.txp = d.txp /\ d'.tx_packet = d.tx_packet /\ d'.rx_packet = data
      /\ d'.rx_packet_offset = d.rx_packet_offset /\ d'.rx_middle_bit = d.rx_middle_bit
      /\ d'.irq_asserted = d.irq_asserted
  BY <1>1, <1>2, <1>3 DEF Devices
<1>5. data # NULL /\ data \in Seq(Cells) /\ Len(data) \in Nat \ {0}
  <2>1. data # NULL /\ data \in Seq(Cells) /\ data # <<>>
    BY <1>3, NotNull
  <2> QED BY <2>1
<1>6. d.rx_packet_offset = 0 /\ ~d.rx_middle_bit
  BY <1>1 DEF Inv, Receiver
<1>7. Types'
  BY <1>1, <1>3, <1>4 DEF Inv, Types
<1>8. Receiver(d.rx, d.rx_packet, d.rx_packet_offset, d.rx_middle_bit)'
  BY <1>4, <1>5, <1>6 DEF Inv, Receiver
<1>9. (~late => Receiving(d.rx, d.rxp, gr, part, d.rx_packet, d.rx_packet_offset, phase))'
  <2>1. Copied(data, 0) = Copied(NULL, 0)
    BY <1>5, SubSeqAll DEF Copied
  <2>2. ~late => Receiving(d.rx, d.rxp, gr, part, d.rx_packet, d.rx_packet_offset, phase)
    BY DEF Inv
  <2>3. ~late => Receiving(d.rx, d.rxp, gr, part, data, 0, phase)
    BY <1>1, <1>6, <2>1, <2>2 DEF Receiving, RxRing
  <2> QED BY <1>1, <1>4, <1>6, <2>3
<1>10. /\ (~late => Announced(d.csr0, phase, seen, d.rx))'
       /\ Transmitting(d.tx, d.txp, gt, tosend, d.tx_packet, posted, wire, phase)'
       /\ Interrupts(d.csr0, d.irq_asserted, tick, phase, seen)'
  BY <1>1, <1>4 DEF Inv
<1>11. Inv'
  BY <1>7, <1>8, <1>9, <1>10 DEF Inv
<1> QED BY <1>1, <1>3, <1>4, <1>11

(* One descriptor is filled.                                               *)
Filled(r, packet, offset, to, middle) ==
    [own |-> FALSE, stp |-> r.stp \/ to >= Len(packet) \/ ~middle,
     enp |-> r.enp \/ to >= Len(packet), cells |-> SubSeq(packet, offset + 1, to)]

Upto(packet, offset) ==
    offset + (IF Len(packet) - offset < BufLen THEN Len(packet) - offset ELSE BufLen)

LEMMA UptoIs ==
    ASSUME NEW packet \in Packets, NEW offset \in 0..Len(packet) - 1
    PROVE  /\ Upto(packet, offset) \in offset + 1..Len(packet)
           /\ Upto(packet, offset) - offset <= BufLen
<1>1. Len(packet) \in Nat /\ BufLen \in Nat \ {0}
  BY NotNull, Sizes
<1> DEFINE n == Len(packet)
<1> HIDE DEF n
<1>2. n \in Nat /\ offset \in 0..n - 1
  BY <1>1 DEF n
<1>3. Upto(packet, offset) = offset + (IF n - offset < BufLen THEN n - offset ELSE BufLen)
  BY DEF Upto, n
<1>4. Upto(packet, offset) \in offset + 1..n /\ Upto(packet, offset) - offset <= BufLen
  BY <1>1, <1>2, <1>3
<1> QED BY <1>4 DEF n

LEMMA FilledType ==
    ASSUME NEW r \in Descriptors, NEW packet \in Packets, NEW offset \in 0..Len(packet) - 1,
           NEW to \in offset + 1..Len(packet), to - offset <= BufLen, NEW middle,
           NEW x, x = Filled(r, packet, offset, to, middle)
    PROVE  /\ x \in Descriptors /\ ~x.own /\ Len(x.cells) <= BufLen
           /\ x.cells = SubSeq(packet, offset + 1, to)
           /\ x.enp <=> r.enp \/ to >= Len(packet)
<1> DEFINE c == SubSeq(packet, offset + 1, to)
<1>1. packet \in Seq(Cells) /\ Len(packet) \in Nat /\ offset \in Int /\ to \in Int
  BY NotNull
<1>2. offset + 1 \in 1..Len(packet) + 1 /\ to \in offset + 1 - 1..Len(packet)
  BY <1>1
<1>3. c \in Seq(Cells) /\ Len(c) = to - (offset + 1) + 1
  BY <1>1, <1>2, SubSeqType
<1>4. Len(c) <= BufLen
  BY <1>1, <1>3, Sizes
<1>5. x.own = FALSE /\ x.cells = c /\ x.enp = (r.enp \/ to >= Len(packet))
  BY DEF Filled
<1> HIDE DEF c
<1>6. x \in Descriptors
  BY <1>3 DEF Filled, Descriptors, c
<1> QED BY <1>4, <1>5, <1>6 DEF c

LEMMA FillFields ==
    ASSUME d \in Devices, d' = FillDescriptor, NEW to, to = Upto(d.rx_packet, d.rx_packet_offset),
           NEW x, x = Filled(d.rx[d.rxp], d.rx_packet, d.rx_packet_offset, to, d.rx_middle_bit)
    PROVE  /\ d'.mode = d.mode /\ d'.tx = d.tx /\ d'.txp = d.txp /\ d'.tx_packet = d.tx_packet
           /\ d'.irq_asserted = d.irq_asserted
           /\ Changed(d.rx, d.rxp, x, d'.rx, RLEN) /\ (x \in Descriptors => d'.rx \in RxRings)
           /\ d'.rxp = NextPlace(d.rxp, RLEN)
           /\ to >= Len(d.rx_packet) =>
                  /\ d'.rx_packet = NULL /\ d'.rx_packet_offset = 0 /\ d'.rx_middle_bit = FALSE
                  /\ d'.csr0 = d.csr0 \cup {"RINT"}
           /\ ~(to >= Len(d.rx_packet)) =>
                  /\ d'.rx_packet = d.rx_packet /\ d'.rx_packet_offset = to
                  /\ d'.rx_middle_bit = TRUE /\ d'.csr0 = d.csr0
           /\ d' = [csr0 |-> d'.csr0, mode |-> d'.mode, rx |-> d'.rx, tx |-> d'.tx,
                    rxp |-> d'.rxp, txp |-> d'.txp, tx_packet |-> d'.tx_packet,
                    rx_packet |-> d'.rx_packet, rx_packet_offset |-> d'.rx_packet_offset,
                    rx_middle_bit |-> d'.rx_middle_bit, irq_asserted |-> d'.irq_asserted]
<1> DEFINE end == to >= Len(d.rx_packet)
           b == ~end
           e == [d EXCEPT !.rx = [d.rx EXCEPT ![d.rxp] = x],
                          !.rxp = NextPlace(d.rxp, RLEN),
                          !.rx_packet = IF end THEN NULL ELSE d.rx_packet,
                          !.rx_packet_offset = IF end THEN 0 ELSE to,
                          !.rx_middle_bit = b,
                          !.csr0 = IF end THEN d.csr0 \cup {"RINT"} ELSE d.csr0]
<1>1. FillDescriptor = e
  BY DEF FillDescriptor, Upto, Filled, Devices
<1>2. d' = e
  BY <1>1
<1> HIDE DEF end
<1>3. /\ d'.mode = d.mode /\ d'.tx = d.tx /\ d'.txp = d.txp /\ d'.tx_packet = d.tx_packet
      /\ d'.irq_asserted = d.irq_asserted
      /\ d'.rx = [d.rx EXCEPT ![d.rxp] = x]
      /\ d'.rxp = NextPlace(d.rxp, RLEN)
  BY <1>2 DEF Devices
<1>4. /\ d'.rx_packet = IF end THEN NULL ELSE d.rx_packet
      /\ d'.rx_packet_offset = IF end THEN 0 ELSE to
      /\ d'.csr0 = IF end THEN d.csr0 \cup {"RINT"} ELSE d.csr0
  BY <1>2 DEF Devices
<1>5. d'.rx_middle_bit = b
  BY <1>2 DEF Devices
<1>6. d' = [csr0 |-> d'.csr0, mode |-> d'.mode, rx |-> d'.rx, tx |-> d'.tx,
            rxp |-> d'.rxp, txp |-> d'.txp, tx_packet |-> d'.tx_packet,
            rx_packet |-> d'.rx_packet, rx_packet_offset |-> d'.rx_packet_offset,
            rx_middle_bit |-> d'.rx_middle_bit, irq_asserted |-> d'.irq_asserted]
  BY <1>2 DEF Devices
<1>7. d.rx \in RxRings
  BY DeviceFields
<1>8. Changed(d.rx, d.rxp, x, d'.rx, RLEN) /\ (x \in Descriptors => d'.rx \in RxRings)
  BY <1>3, <1>7 DEF Changed, RxRings
<1>9. CASE end
  BY <1>3, <1>4, <1>5, <1>6, <1>8, <1>9 DEF end
<1>10. CASE ~end
  BY <1>3, <1>4, <1>5, <1>6, <1>8, <1>10 DEF end
<1> QED BY <1>9, <1>10

(* le_rx copies into the descriptor it owns; at the end of the packet a    *)
(* whole one is in the ring.                                               *)
LEMMA le_rxInv ==
    ASSUME Inv, le_rx
    PROVE  /\ Inv'
           /\ ~late' => \/ /\ d'.rx_packet = d.rx_packet
                            /\ Held(d'.rx, gr, part).whole = Held(d.rx, gr, part).whole
                         \/ /\ d.rx_packet \in Packets /\ d'.rx_packet = NULL
                            /\ Held(d'.rx, gr, part).whole =
                                   Held(d.rx, gr, part).whole \o <<d.rx_packet>>
<1> DEFINE p == d.rx_packet
           o == d.rx_packet_offset
           to == Upto(p, o)
           r == d.rx[d.rxp]
           x == Filled(r, p, o, to, d.rx_middle_bit)
           q == d.rxp
<1>1. /\ tick = "rx" /\ p # NULL /\ r.own /\ d' = FillDescriptor /\ late' = (late \/ phase = "built")
      /\ UNCHANGED <<tick, chain, phase, seen, gr, gt, tosend, part, got, counts, posted, wire>>
  BY DEF le_rx, RxBlocked, driverVars
<1>2. d \in Devices /\ d.rx \in RxRings /\ p \in Packets /\ q \in 0..RLEN - 1 /\ d.csr0 \in SUBSET Bits
  BY <1>1, DeviceFields DEF Inv, Types
<1>3. o \in 0..Len(p) - 1 /\ ~r.enp /\ r \in Descriptors
  <2>1. o \in 0..Len(p) - 1
    BY <1>1 DEF Inv, Receiver
  <2>2. \A i \in 0..RLEN - 1: d.rx[i].own => ~d.rx[i].enp
    BY DEF Inv, Receiver
  <2>3. d.rx[q] \in Descriptors
    BY <1>2 DEF RxRings
  <2> QED BY <1>1, <1>2, <2>1, <2>2, <2>3
<1>4. p \in Seq(Cells) /\ Len(p) \in Nat
  BY <1>2, NotNull
<1>5. to \in o + 1..Len(p) /\ to - o <= BufLen
  BY <1>2, <1>3, UptoIs
<1>6. /\ d'.mode = d.mode /\ d'.tx = d.tx /\ d'.txp = d.txp /\ d'.tx_packet = d.tx_packet
      /\ d'.irq_asserted = d.irq_asserted
      /\ Changed(d.rx, q, x, d'.rx, RLEN) /\ (x \in Descriptors => d'.rx \in RxRings)
      /\ d'.rxp = NextPlace(q, RLEN)
      /\ to >= Len(p) => /\ d'.rx_packet = NULL /\ d'.rx_packet_offset = 0
                         /\ d'.rx_middle_bit = FALSE /\ d'.csr0 = d.csr0 \cup {"RINT"}
      /\ ~(to >= Len(p)) => /\ d'.rx_packet = p /\ d'.rx_packet_offset = to
                            /\ d'.rx_middle_bit = TRUE /\ d'.csr0 = d.csr0
      /\ d' = [csr0 |-> d'.csr0, mode |-> d'.mode, rx |-> d'.rx, tx |-> d'.tx,
               rxp |-> d'.rxp, txp |-> d'.txp, tx_packet |-> d'.tx_packet,
               rx_packet |-> d'.rx_packet, rx_packet_offset |-> d'.rx_packet_offset,
               rx_middle_bit |-> d'.rx_middle_bit, irq_asserted |-> d'.irq_asserted]
  BY <1>1, <1>2, FillFields
<1> HIDE DEF to
<1>7. /\ x \in Descriptors /\ ~x.own /\ Len(x.cells) <= BufLen
      /\ x.cells = SubSeq(p, o + 1, to) /\ (x.enp <=> to >= Len(p))
  <2> DEFINE mid == d.rx_middle_bit
  <2>1. x = Filled(r, p, o, to, mid)
    OBVIOUS
  <2> HIDE DEF x, r, p, o, mid
  <2>2. /\ x \in Descriptors /\ ~x.own /\ Len(x.cells) <= BufLen
        /\ x.cells = SubSeq(p, o + 1, to) /\ (x.enp <=> r.enp \/ to >= Len(p))
    BY <1>2, <1>3, <1>5, <2>1, FilledType
  <2> QED BY <1>3, <2>2
<1> HIDE DEF x, r
<1>8. d'.rxp \in 0..RLEN - 1 /\ d'.rxp = (q + 1) % RLEN /\ d'.rx \in RxRings
  BY <1>2, <1>6, <1>7, Sizes, NextPlaceIs
<1>9. (to >= Len(p) <=> to = Len(p)) /\ to \in Nat /\ o \in Nat
  BY <1>3, <1>4, <1>5
<1>10. d' \in Devices
  <2>1. d'.csr0 \in SUBSET Bits /\ d'.rx_packet \in Packets \cup {NULL}
        /\ d'.rx_packet_offset \in Nat /\ d'.rx_middle_bit \in BOOLEAN
    <3>1. {"RINT"} \subseteq Bits
      BY DEF Bits
    <3>2. CASE to >= Len(p)
      <4>1. d'.rx_packet = NULL /\ d'.rx_packet_offset = 0 /\ d'.rx_middle_bit = FALSE
            /\ d'.csr0 = d.csr0 \cup {"RINT"}
        BY <1>6, <3>2
      <4>2. d'.csr0 \in SUBSET Bits
        BY <1>2, <3>1, <4>1
      <4>3. d'.rx_middle_bit \in BOOLEAN
        BY <4>1
      <4>4. d'.rx_packet \in Packets \cup {NULL} /\ d'.rx_packet_offset \in Nat
        BY <4>1
      <4> QED BY <4>2, <4>3, <4>4
    <3>3. CASE ~(to >= Len(p))
      BY <1>2, <1>6, <1>9, <3>3
    <3> QED BY <3>2, <3>3
  <2>2. /\ d'.mode \in Modes \cup {{}} /\ d'.tx \in TxRings /\ d'.txp \in 0..TLEN - 1
        /\ d'.tx_packet \in Packets \cup {NULL} /\ d'.irq_asserted \in BOOLEAN
    BY <1>2, <1>6, DeviceFields
  <2> QED BY <1>6, <1>8, <2>1, <2>2 DEF Devices
<1>11. Types'
  BY <1>1, <1>10 DEF Inv, Types
<1>12. Receiver(d.rx, d.rx_packet, d.rx_packet_offset, d.rx_middle_bit)'
  <2>1. \A i \in 0..RLEN - 1: Len(d'.rx[i].cells) <= BufLen /\ (d'.rx[i].own => ~d'.rx[i].enp)
    <3>1. \A i \in 0..RLEN - 1: Len(d.rx[i].cells) <= BufLen /\ (d.rx[i].own => ~d.rx[i].enp)
      BY DEF Inv, Receiver
    <3>2. \A i \in 0..RLEN - 1: d'.rx[i] = IF i = q THEN x ELSE d.rx[i]
      BY <1>6 DEF Changed
    <3> QED BY <1>7, <3>1, <3>2
  <2>2. CASE to >= Len(p)
    BY <1>6, <2>1, <2>2 DEF Receiver
  <2>3. CASE ~(to >= Len(p))
    <3>1. to \in 0..Len(p) - 1
      BY <1>4, <1>9, <2>3
    <3> QED BY <1>1, <1>6, <2>1, <2>3, <3>1 DEF Receiver
  <2> QED BY <2>2, <2>3
<1>13. ASSUME ~late'
       PROVE  /\ RxRing(d'.rx, d'.rxp, gr, part, d'.rx_packet, d'.rx_packet_offset)
              /\ phase # "built"
              /\ \/ /\ d'.rx_packet = p
                    /\ Held(d'.rx, gr, part).whole = Held(d.rx, gr, part).whole
                 \/ /\ d'.rx_packet = NULL
                    /\ Held(d'.rx, gr, part).whole = Held(d.rx, gr, part).whole \o <<p>>
  <2>1. ~late /\ phase # "built"
    BY <1>1, <1>13
  <2>2. RxRing(d.rx, q, gr, part, p, o)
    BY <2>1 DEF Inv, Receiving
  <2>3. gr \in 0..RLEN - 1 /\ part \in Seq(Cells) /\ o \in 0..Len(p) /\ to \in o..Len(p) /\ d.rx[q].own
    <3>1. gr \in 0..RLEN - 1 /\ part \in Seq(Cells)
      BY DEF Inv, Types
    <3>2. d.rx[q].own
      BY <1>1 DEF r
    <3>3. o \in 0..Len(p) /\ to \in o..Len(p)
      BY <1>3, <1>4, <1>5
    <3> QED BY <3>1, <3>2, <3>3
  <2> DEFINE new == d'.rx
  <2>4. new \in RxRings /\ Changed(d.rx, q, x, new, RLEN)
    BY <1>6, <1>8
  <2> HIDE DEF new
  <2>5. /\ ~x.enp => /\ RxRing(new, (q + 1) % RLEN, gr, part, p, to)
                     /\ Held(new, gr, part).whole = Held(d.rx, gr, part).whole
        /\ x.enp /\ to = Len(p) =>
               /\ RxRing(new, (q + 1) % RLEN, gr, part, NULL, 0)
               /\ Held(new, gr, part).whole = Held(d.rx, gr, part).whole \o <<p>>
    <3> HIDE DEF p, o, q
    <3> QED BY <1>2, <1>7, <2>2, <2>3, <2>4, RxFilled
  <2>6. CASE to >= Len(p)
    BY <1>6, <1>7, <1>8, <1>9, <2>1, <2>5, <2>6 DEF new
  <2>7. CASE ~(to >= Len(p))
    BY <1>6, <1>7, <1>8, <1>9, <2>1, <2>5, <2>7 DEF new
  <2> QED BY <2>6, <2>7
<1>14. (~late => Receiving(d.rx, d.rxp, gr, part, d.rx_packet, d.rx_packet_offset, phase))'
  BY <1>1, <1>13 DEF Receiving
<1>15. (~late => Announced(d.csr0, phase, seen, d.rx))'
  <2>1. SUFFICES ASSUME ~late' PROVE Announced(d'.csr0, phase, seen, d'.rx)
    BY <1>1
  <2>2. Announced(d.csr0, phase, seen, d.rx)
    BY <1>1, <2>1 DEF Inv
  <2>3. CASE to >= Len(p)
    BY <1>6, <2>3 DEF Announced
  <2>4. CASE ~(to >= Len(p))
    <3>1. NoneEnds(d.rx) => NoneEnds(d'.rx)
      <4>1. \A i \in 0..RLEN - 1: d'.rx[i] = IF i = q THEN x ELSE d.rx[i]
        BY <1>6 DEF Changed
      <4> QED BY <1>7, <2>4, <4>1 DEF NoneEnds
    <3> QED BY <1>6, <2>2, <2>4, <3>1 DEF Announced
  <2> QED BY <2>3, <2>4
<1>16. Transmitting(d.tx, d.txp, gt, tosend, d.tx_packet, posted, wire, phase)'
  BY <1>1, <1>6 DEF Inv
<1>17. Interrupts(d.csr0, d.irq_asserted, tick, phase, seen)'
  <2>1. "INIT" \notin d'.csr0 /\ ("INEA" \in d.csr0 => "INEA" \in d'.csr0)
    BY <1>6 DEF Inv, Interrupts
  <2> QED BY <1>1, <2>1 DEF Inv, Interrupts
<1>18. Inv'
  BY <1>11, <1>12, <1>14, <1>15, <1>16, <1>17 DEF Inv
<1> QED BY <1>2, <1>13, <1>18

-----------------------------------------------------------------------------
(* The transmitter of the chip.                                            *)

(* One descriptor is emptied.                                              *)
Emptied(dd, x, after, c, e) ==
    e = [dd EXCEPT !.tx = [dd.tx EXCEPT ![dd.txp] = x], !.txp = NextPlace(dd.txp, TLEN),
                   !.tx_packet = after, !.csr0 = c]

LEMMA EmptiedFields ==
    ASSUME NEW dd \in Devices, NEW x \in Descriptors, NEW after \in Packets \cup {NULL},
           NEW c \in SUBSET Bits, NEW e, Emptied(dd, x, after, c, e)
    PROVE  /\ e \in Devices /\ e.tx \in TxRings /\ Changed(dd.tx, dd.txp, x, e.tx, TLEN)
           /\ e.txp = (dd.txp + 1) % TLEN /\ e.tx_packet = after /\ e.csr0 = c
           /\ e.rx = dd.rx /\ e.rxp = dd.rxp /\ e.rx_packet = dd.rx_packet
           /\ e.rx_packet_offset = dd.rx_packet_offset /\ e.rx_middle_bit = dd.rx_middle_bit
           /\ e.irq_asserted = dd.irq_asserted
<1>1. TLEN \in Nat \ {0} /\ dd.txp \in 0..TLEN - 1 /\ dd.tx \in TxRings
  BY Sizes, DeviceFields
<1>2. NextPlace(dd.txp, TLEN) = (dd.txp + 1) % TLEN /\ NextPlace(dd.txp, TLEN) \in 0..TLEN - 1
  BY <1>1, NextPlaceIs
<1>3. /\ e.tx = [dd.tx EXCEPT ![dd.txp] = x] /\ e.txp = NextPlace(dd.txp, TLEN)
      /\ e.tx_packet = after /\ e.csr0 = c
      /\ e.rx = dd.rx /\ e.rxp = dd.rxp /\ e.rx_packet = dd.rx_packet
      /\ e.rx_packet_offset = dd.rx_packet_offset /\ e.rx_middle_bit = dd.rx_middle_bit
      /\ e.irq_asserted = dd.irq_asserted
  BY DEF Emptied, Devices
<1>4. e.tx \in TxRings /\ Changed(dd.tx, dd.txp, x, e.tx, TLEN)
  BY <1>1, <1>3 DEF TxRings, Changed
<1>5. e \in Devices
  <2>1. [dd.tx EXCEPT ![dd.txp] = x] \in TxRings
    BY <1>3, <1>4
  <2> QED BY <1>2, <2>1 DEF Emptied, Devices
<1> QED BY <1>2, <1>3, <1>4, <1>5

(* le_tx empties a descriptor, and sends at the end of a packet.           *)
LEMMA le_txInv ==
    ASSUME Inv, le_tx
    PROVE  /\ Inv' /\ d'.rx = d.rx /\ d'.rx_packet = d.rx_packet
           /\ MoreFor(Le, chain, chain') \/ Waiting(chain', Le) = Waiting(chain, Le)
<1> DEFINE descr == d.tx[d.txp]
           packet == d.tx_packet
           data == (IF descr.stp THEN <<>> ELSE packet) \o descr.cells
           x == [descr EXCEPT !.own = FALSE]
           after == IF descr.enp THEN NULL ELSE data
           c == IF descr.enp THEN d.csr0 \cup {"TINT"} ELSE d.csr0
<1>1. /\ tick = "tx" /\ descr.own
      /\ chain' = IF descr.enp THEN net_ethernet_tx(chain, Le, data) ELSE chain
      /\ wire' = IF descr.enp THEN wire \o data ELSE wire
      /\ UNCHANGED <<tick, phase, seen, gr, gt, tosend, part, got, counts, posted, late>>
  BY DEF le_tx, TxBlocked, TxData, driverVars
<1>2. d \in Devices /\ d.tx \in TxRings /\ packet \in Packets \cup {NULL} /\ d.txp \in 0..TLEN - 1
      /\ d.csr0 \in SUBSET Bits
  BY DeviceFields DEF Inv, Types
<1>3. descr \in Descriptors
  BY <1>2 DEF TxRings
<1>4. Emptied(d, x, after, c, d')
  BY <1>2, <1>3 DEF le_tx, TxData, Emptied, Devices, TxRings
<1>5. x \in Descriptors /\ ~x.own
  BY <1>3 DEF Descriptors
<1>6. c \in SUBSET Bits /\ ("INIT" \in c <=> "INIT" \in d.csr0)
      /\ ("INEA" \in c <=> "INEA" \in d.csr0) /\ ("RINT" \in c <=> "RINT" \in d.csr0)
  <2>1. {"TINT"} \subseteq Bits
    BY DEF Bits
  <2>2. CASE descr.enp
    BY <1>2, <2>1, <2>2
  <2>3. CASE ~descr.enp
    BY <1>2, <2>3
  <2> QED BY <2>2, <2>3
<1>7. phase # "built"
  <2>1. phase = "built" => \A i \in 0..TLEN - 1: ~d.tx[i].own
    BY DEF Inv, Transmitting
  <2> QED BY <1>1, <1>2, <2>1
<1>8. TxRing(d.tx, d.txp, gt, tosend, packet, posted, wire)
  BY <1>7 DEF Inv, Transmitting
<1>9. wire \in Seq(Cells) /\ posted \in Seq(Cells) /\ chain \in Seq(Links)
  BY DEF Inv, Types
<1> DEFINE tx == d.tx
           txp == d.txp
           q == (txp + 1) % TLEN
           new == [tx EXCEPT ![txp] = x]
<1>10. new \in TxRings /\ Changed(tx, txp, x, new, TLEN)
  BY <1>2, <1>5 DEF TxRings, Changed
<1>11. data = (IF tx[txp].stp THEN <<>> ELSE packet) \o tx[txp].cells
  OBVIOUS
<1> HIDE DEF x, new, data, c
<1>12. /\ data \in Packets
       /\ tx[txp].enp => TxRing(new, q, gt, tosend, NULL, posted, wire \o data)
       /\ ~tx[txp].enp => TxRing(new, q, gt, tosend, data, posted, wire)
  <2> HIDE DEF tx, txp, packet
  <2>1. tx \in TxRings /\ txp \in 0..TLEN - 1 /\ packet \in Packets \cup {NULL} /\ tx[txp].own
        /\ TxRing(tx, txp, gt, tosend, packet, posted, wire)
    BY <1>1, <1>2, <1>8 DEF tx, txp, packet
  <2> QED BY <1>5, <1>9, <1>10, <1>11, <2>1, TxSent
<1>13. after \in Packets \cup {NULL}
  BY <1>12
<1> HIDE DEF after
<1>14. /\ d' \in Devices /\ d'.txp = q /\ d'.tx_packet = after /\ d'.csr0 = c
       /\ d'.rx = d.rx /\ d'.rxp = d.rxp /\ d'.rx_packet = d.rx_packet
       /\ d'.rx_packet_offset = d.rx_packet_offset /\ d'.rx_middle_bit = d.rx_middle_bit
       /\ d'.irq_asserted = d.irq_asserted
  BY <1>2, <1>4, <1>5, <1>6, <1>13, EmptiedFields
<1>15. d'.tx = new
  BY <1>2, <1>4 DEF Emptied, new, Devices
<1>16. /\ wire' \in Seq(Cells) /\ chain' \in Seq(Links)
       /\ MoreFor(Le, chain, chain') \/ Waiting(chain', Le) = Waiting(chain, Le)
  <2>1. CASE descr.enp
    <3>1. wire' = wire \o data /\ chain' = net_ethernet_tx(chain, Le, data)
      BY <1>1, <2>1
    <3>2. data \in Seq(Cells)
      BY <1>12, NotNull
    <3>3. wire' \in Seq(Cells)
      BY <1>9, <3>1, <3>2, CellsConcat
    <3>4. Le \in Nics
      BY LanceAssumption
    <3>5. chain' \in Seq(Links) /\ (MoreFor(Le, chain, chain') \/ Waiting(chain', Le) = Waiting(chain, Le))
      BY <1>9, <1>12, <3>1, <3>4, PacketSent
    <3> QED BY <3>3, <3>5
  <2>2. CASE ~descr.enp
    BY <1>1, <1>9, <2>2
  <2> QED BY <2>1, <2>2
<1>17. Types'
  BY <1>1, <1>14, <1>16 DEF Inv, Types
<1>18. Transmitting(d.tx, d.txp, gt, tosend, d.tx_packet, posted, wire, phase)'
  <2>1. TxRing(new, q, gt, tosend, after, posted, wire')
    <3>1. CASE descr.enp
      <4>1. wire' = wire \o data /\ after = NULL
        BY <1>1, <3>1 DEF after
      <4> QED BY <1>12, <3>1, <4>1
    <3>2. CASE ~descr.enp
      <4>1. wire' = wire /\ after = data
        BY <1>1, <3>2 DEF after
      <4> QED BY <1>12, <3>2, <4>1
    <3> QED BY <3>1, <3>2
  <2>2. TxRing(d'.tx, d'.txp, gt', tosend', d'.tx_packet, posted', wire')
    BY <1>1, <1>14, <1>15, <2>1
  <2> QED BY <1>1, <1>7, <2>2 DEF Transmitting
<1>19. Receiver(d.rx, d.rx_packet, d.rx_packet_offset, d.rx_middle_bit)'
  BY <1>14 DEF Inv
<1>20. (~late => Receiving(d.rx, d.rxp, gr, part, d.rx_packet, d.rx_packet_offset, phase))'
  BY <1>1, <1>14 DEF Inv
<1>21. (~late => Announced(d.csr0, phase, seen, d.rx))'
  BY <1>1, <1>6, <1>14 DEF Inv, Announced
<1>22. Interrupts(d.csr0, d.irq_asserted, tick, phase, seen)'
  BY <1>1, <1>6, <1>14 DEF Inv, Interrupts
<1>23. Inv'
  BY <1>17, <1>18, <1>19, <1>20, <1>21, <1>22 DEF Inv
<1> QED BY <1>14, <1>16, <1>23

-----------------------------------------------------------------------------
(* The driver.                                                             *)

LEMMA BuildInv ==
    ASSUME Inv, NEW mode \in Modes, Build(mode)
    PROVE  /\ Inv' /\ d'.rx_packet = d.rx_packet
           /\ Held(d'.rx, gr', part').whole = <<>>
<1> DEFINE rx == [i \in 0..RLEN - 1 |-> EmptyRx]
           tx == [i \in 0..TLEN - 1 |-> NoDescriptor]
<1>0. RLEN \in Nat \ {0} /\ TLEN \in Nat \ {0} /\ BufLen \in Nat \ {0}
  BY Sizes
<1>1. /\ tick = "none" /\ phase' = "built" /\ d' = [d EXCEPT !.mode = mode, !.rx = rx, !.tx = tx]
      /\ gr' = 0 /\ gt' = 0 /\ tosend' = <<>> /\ part' = <<>> /\ posted' = <<>> /\ wire' = <<>>
      /\ late' = FALSE /\ UNCHANGED <<tick, chain, seen, got, counts>>
  BY DEF Build
<1>2. rx \in RxRings /\ tx \in TxRings
  BY EmptyRxType, NoDescriptorType DEF RxRings, TxRings
<1>3. (\A i \in 0..RLEN - 1: rx[i] = EmptyRx) /\ (\A i \in 0..TLEN - 1: tx[i] = NoDescriptor)
  OBVIOUS
<1> HIDE DEF rx, tx
<1>4. d \in Devices
  BY DEF Inv, Types
<1>5. /\ d' \in Devices /\ d'.rx = rx /\ d'.tx = tx /\ d'.csr0 = d.csr0
      /\ d'.rx_packet = d.rx_packet /\ d'.rx_packet_offset = d.rx_packet_offset
      /\ d'.rx_middle_bit = d.rx_middle_bit /\ d'.irq_asserted = d.irq_asserted
  BY <1>1, <1>2, <1>4 DEF Devices
<1>6. <<>> \in Seq(Cells) /\ Len(<<>>) = 0
  OBVIOUS
<1>7. Types'
  <2>1. gr' \in 0..RLEN - 1 /\ gt' \in 0..TLEN - 1
    BY <1>0, <1>1
  <2>2. late' \in BOOLEAN /\ phase' \in Phases
    BY <1>1 DEF Phases
  <2>3. tosend' \in Seq(Cells) /\ part' \in Seq(Cells) /\ posted' \in Seq(Cells) /\ wire' \in Seq(Cells)
    BY <1>1, <1>6
  <2>4. UNCHANGED <<tick, chain, seen, got, counts>>
    BY <1>1
  <2> QED BY <1>5, <2>1, <2>2, <2>3, <2>4 DEF Inv, Types
<1>8. Receiver(d.rx, d.rx_packet, d.rx_packet_offset, d.rx_middle_bit)'
  <2>1. \A i \in 0..RLEN - 1: Len(rx[i].cells) <= BufLen /\ ~rx[i].enp
    BY <1>0, <1>3, <1>6, EmptyRxType
  <2> QED BY <1>5, <2>1 DEF Inv, Receiver
<1>9. Receiving(d.rx, d.rxp, gr, part, d.rx_packet, d.rx_packet_offset, phase)'
  BY <1>1, <1>3, <1>5 DEF Receiving
<1>10. Announced(d.csr0, phase, seen, d.rx)'
  BY <1>1 DEF Announced
<1>11. Transmitting(d.tx, d.txp, gt, tosend, d.tx_packet, posted, wire, phase)'
  <2>1. \A i \in 0..TLEN - 1: ~d'.tx[i].own
    BY <1>3, <1>5, NoDescriptorType
  <2> QED BY <1>1, <2>1 DEF Transmitting
<1>12. Interrupts(d.csr0, d.irq_asserted, tick, phase, seen)'
  BY <1>1, <1>5 DEF Inv, Interrupts
<1>13. Held(rx, gr', part').whole = <<>>
  <2> DEFINE g == gr'
             p == part'
  <2>1. g \in 0..RLEN - 1 /\ p \in Seq(Cells)
    BY <1>0, <1>1, <1>6
  <2>2. \A i \in 0..RLEN - 1: rx[i].own
    BY <1>3, EmptyRxType
  <2> HIDE DEF g, p
  <2>3. Held(rx, g, p).whole = <<>>
    BY <1>2, <2>1, <2>2, HeldNoEnd
  <2> QED BY <2>3 DEF g, p
<1>14. Inv'
  BY <1>7, <1>8, <1>9, <1>10, <1>11, <1>12 DEF Inv
<1> QED BY <1>5, <1>13, <1>14

(* le_chip_init() forgets both packets and starts at the first places.     *)
LEMMA ChipInit ==
    ASSUME NEW e \in Devices
    PROVE  /\ le_chip_init(e) \in Devices /\ "INIT" \notin le_chip_init(e).csr0
           /\ le_chip_init(e).rx = e.rx /\ le_chip_init(e).tx = e.tx
           /\ le_chip_init(e).rxp = 0 /\ le_chip_init(e).txp = 0
           /\ le_chip_init(e).tx_packet = NULL /\ le_chip_init(e).rx_packet = NULL
           /\ le_chip_init(e).rx_packet_offset = 0 /\ le_chip_init(e).rx_middle_bit = FALSE
<1> DEFINE c == (e.csr0 \ {"INIT", "TXON", "RXON"}) \cup {"IDON"}
                    \cup (IF "DTX" \in e.mode THEN {} ELSE {"TXON"})
                    \cup (IF "DRX" \in e.mode THEN {} ELSE {"RXON"})
           i == [e EXCEPT !.csr0 = c, !.rxp = 0, !.txp = 0, !.tx_packet = NULL, !.rx_packet = NULL,
                          !.rx_packet_offset = 0, !.rx_middle_bit = FALSE]
<1>1. le_chip_init(e) = i
  BY DEF le_chip_init, Devices
<1>2. c \in SUBSET Bits /\ "INIT" \notin c
  <2>1. e.csr0 \in SUBSET Bits
    BY DeviceFields
  <2> QED BY <2>1 DEF Bits
<1> HIDE DEF c
<1>3. 0 \in 0..RLEN - 1 /\ 0 \in 0..TLEN - 1
  BY Sizes
<1>4. i \in Devices
  BY <1>2, <1>3 DEF Devices
<1>5. i.csr0 = c /\ i.rx = e.rx /\ i.tx = e.tx /\ i.rxp = 0 /\ i.txp = 0 /\ i.tx_packet = NULL
      /\ i.rx_packet = NULL /\ i.rx_packet_offset = 0 /\ i.rx_middle_bit = FALSE
  BY DEF Devices
<1> HIDE DEF i
<1> QED BY <1>1, <1>2, <1>4, <1>5

(* New rings that nothing has entered are in order.                        *)
LEMMA GiveInitInv ==
    ASSUME Inv, GiveInit
    PROVE  /\ Inv' /\ d'.rx_packet = NULL /\ d'.rx = d.rx
           /\ ~late => Held(d.rx, gr, part).whole = <<>>
<1> DEFINE x == {"INIT"}
           c == le_register_write(d.csr0, x)
           e == [d EXCEPT !.csr0 = c]
<1>1. /\ phase = "built" /\ phase' = "initialised" /\ tick' = "rx"
      /\ d' = (IF "INIT" \in e.csr0 THEN le_chip_init(e) ELSE e)
      /\ UNCHANGED <<chain, wire, late, seen, gr, gt, tosend, part, got, counts, posted>>
  BY DEF GiveInit, WriteCsr0, BeginTick
<1>2. d \in Devices /\ d.csr0 \in SUBSET Bits /\ d.rx \in RxRings /\ d.tx \in TxRings
  BY DeviceFields DEF Inv, Types
<1>3. x \in SUBSET Bits /\ "INIT" \in x /\ "STOP" \notin x
  BY DEF Bits
<1> HIDE DEF x
<1>4. c \in SUBSET Bits /\ "INIT" \in c
  BY <1>2, <1>3, RegisterWrite
<1> HIDE DEF c
<1>5. e \in Devices /\ e.csr0 = c /\ e.rx = d.rx /\ e.tx = d.tx
  BY <1>2, <1>4, Csr0Changed DEF SameButCsr0
<1> HIDE DEF e
<1>6. d' = le_chip_init(e)
  BY <1>1, <1>4, <1>5
<1>7. /\ d' \in Devices /\ "INIT" \notin d'.csr0 /\ d'.rx = d.rx /\ d'.tx = d.tx
      /\ d'.rxp = 0 /\ d'.txp = 0 /\ d'.tx_packet = NULL /\ d'.rx_packet = NULL
      /\ d'.rx_packet_offset = 0 /\ d'.rx_middle_bit = FALSE
  BY <1>5, <1>6, ChipInit
<1>8. Types'
  BY <1>1, <1>7 DEF Inv, Types, Phases
<1>9. Receiver(d.rx, d.rx_packet, d.rx_packet_offset, d.rx_middle_bit)'
  BY <1>7 DEF Inv, Receiver
<1>10. ASSUME ~late
       PROVE  gr = 0 /\ part = <<>> /\ \A i \in 0..RLEN - 1: d.rx[i] = EmptyRx
  BY <1>1, <1>10 DEF Inv, Receiving
<1>11. ASSUME ~late PROVE NoneEnds(d.rx) /\ Held(d.rx, gr, part).whole = <<>>
  <2>1. \A i \in 0..RLEN - 1: d.rx[i].own
    BY <1>10, <1>11, EmptyRxType
  <2>2. gr \in 0..RLEN - 1 /\ part \in Seq(Cells)
    BY DEF Inv, Types
  <2>3. Held(d.rx, gr, part).whole = <<>>
    BY <1>2, <2>1, <2>2, HeldNoEnd
  <2> QED BY <2>1, <2>3 DEF NoneEnds
<1>12. (~late => Receiving(d.rx, d.rxp, gr, part, d.rx_packet, d.rx_packet_offset, phase))'
  <2>1. SUFFICES ASSUME ~late PROVE RxRing(d.rx, 0, gr, part, NULL, 0)
    BY <1>1, <1>7 DEF Receiving
  <2>2. RxRing(d.rx, 0, 0, <<>>, NULL, 0)
    BY <1>2, <1>10, <2>1, RxStart
  <2> QED BY <1>10, <2>1, <2>2
<1>13. (~late => Announced(d.csr0, phase, seen, d.rx))'
  BY <1>1, <1>7, <1>11 DEF Announced
<1>14. Transmitting(d.tx, d.txp, gt, tosend, d.tx_packet, posted, wire, phase)'
  <2>1. gt = 0 /\ tosend = <<>> /\ posted = <<>> /\ wire = <<>> /\ \A i \in 0..TLEN - 1: ~d.tx[i].own
    BY <1>1 DEF Inv, Transmitting
  <2>2. TxRing(d.tx, 0, 0, <<>>, NULL, <<>>, <<>>)
    BY <1>2, <2>1, TxStart
  <2> QED BY <1>1, <1>7, <2>1, <2>2 DEF Transmitting
<1>15. Interrupts(d.csr0, d.irq_asserted, tick, phase, seen)'
  BY <1>1, <1>7 DEF Interrupts
<1>16. Inv'
  BY <1>8, <1>9, <1>12, <1>13, <1>14, <1>15 DEF Inv
<1> QED BY <1>7, <1>11, <1>16

(* The driver reads a descriptor, and has a packet when it ends there.     *)
LEMMA ReadDescriptorInv ==
    ASSUME Inv, ReadDescriptor
    PROVE  /\ Inv' /\ d'.rx_packet = d.rx_packet
           /\ ~late =>
                  \/ /\ got' = got
                     /\ Held(d.rx, gr, part).whole = Held(d'.rx, gr', part').whole
                  \/ \E e \in Seq(Cells):
                        /\ got' = Append(got, e)
                        /\ Held(d.rx, gr, part).whole = <<e>> \o Held(d'.rx, gr', part').whole
<1> DEFINE r == d.rx[gr]
           new == [d.rx EXCEPT ![gr] = EmptyRx]
           all == part \o r.cells
           q == IF r.enp THEN <<>> ELSE all
           w == IF r.enp THEN <<all>> ELSE <<>>
           g == (gr + 1) % RLEN
<1>0. RLEN \in Nat \ {0} /\ BufLen \in Nat \ {0}
  BY Sizes
<1>1. /\ tick = "none" /\ phase = "drain" /\ ~r.own
      /\ d' = [d EXCEPT !.rx = [d.rx EXCEPT ![gr] = EmptyRx]] /\ gr' = g /\ part' = q
      /\ got' = IF r.enp THEN Append(got, all) ELSE got
      /\ UNCHANGED <<tick, chain, phase, seen, gt, tosend, counts, posted, wire, late>>
  BY DEF ReadDescriptor
<1>2. d \in Devices /\ d.rx \in RxRings /\ gr \in 0..RLEN - 1 /\ part \in Seq(Cells)
      /\ got \in Seq(Seq(Cells))
  BY DeviceFields DEF Inv, Types
<1>3. r \in Descriptors
  BY <1>2 DEF RxRings
<1>4. r.cells \in Seq(Cells)
  BY <1>3 DEF Descriptors
<1>5. all \in Seq(Cells)
  <2> HIDE DEF r
  <2> QED BY <1>2, <1>4, CellsConcat
<1> HIDE DEF all
<1>6. q \in Seq(Cells) /\ w \in Seq(Seq(Cells))
  <2>1. <<all>> \in Seq(Seq(Cells)) /\ <<>> \in Seq(Seq(Cells)) /\ <<>> \in Seq(Cells)
    BY <1>5
  <2> QED BY <1>5, <2>1
<1>7. new \in RxRings /\ Changed(d.rx, gr, EmptyRx, new, RLEN)
  BY <1>2, EmptyRxType DEF RxRings, Changed
<1>8. got' \in Seq(Seq(Cells))
  BY <1>1, <1>2, <1>5
<1>9. /\ d' \in Devices /\ d'.rx = new /\ d'.csr0 = d.csr0 /\ d'.tx = d.tx /\ d'.rxp = d.rxp
      /\ d'.txp = d.txp /\ d'.tx_packet = d.tx_packet /\ d'.rx_packet = d.rx_packet
      /\ d'.rx_packet_offset = d.rx_packet_offset /\ d'.rx_middle_bit = d.rx_middle_bit
      /\ d'.irq_asserted = d.irq_asserted
  <2>1. d' = [d EXCEPT !.rx = new]
    BY <1>1
  <2> HIDE DEF new
  <2> QED BY <1>2, <1>7, <2>1 DEF Devices
<1>10. g \in 0..RLEN - 1
  <2>1. 1 \in 0..RLEN
    BY <1>0
  <2>2. g = IF gr + 1 >= RLEN THEN gr + 1 - RLEN ELSE gr + 1
    BY <1>0, <1>2, <2>1, PlaceIs, Zenon
  <2> HIDE DEF g
  <2> QED BY <1>0, <1>2, <2>2
<1>11. Types'
  <2> HIDE DEF g, q
  <2>1. gr' \in 0..RLEN - 1 /\ part' \in Seq(Cells)
    BY <1>1, <1>6, <1>10
  <2> QED BY <1>1, <1>8, <1>9, <2>1 DEF Inv, Types
<1>12. Receiver(d.rx, d.rx_packet, d.rx_packet_offset, d.rx_middle_bit)'
  <2>1. \A i \in 0..RLEN - 1: Len(d.rx[i].cells) <= BufLen /\ (d.rx[i].own => ~d.rx[i].enp)
    BY DEF Inv, Receiver
  <2>2. \A i \in 0..RLEN - 1: new[i] = IF i = gr THEN EmptyRx ELSE d.rx[i]
    BY <1>7 DEF Changed
  <2>3. Len(<<>>) <= BufLen
    BY <1>0
  <2>4. Len(EmptyRx.cells) <= BufLen /\ ~EmptyRx.enp
    BY <2>3, EmptyRxType
  <2> HIDE DEF new
  <2>5. \A i \in 0..RLEN - 1: Len(new[i].cells) <= BufLen /\ (new[i].own => ~new[i].enp)
    BY <2>1, <2>2, <2>4
  <2> QED BY <1>9, <2>5 DEF Inv, Receiver
<1> HIDE DEF new
<1>13. Reads(part, r, q, w)
  <2>1. <<>> \o <<all>> = <<all>>
    BY <1>5
  <2> HIDE DEF r
  <2> QED BY <1>1, <2>1 DEF Reads, ReadOn, Nothing, all
<1>14. ASSUME ~late
       PROVE  /\ RxRing(new, d.rxp, g, q, d.rx_packet, d.rx_packet_offset)
              /\ Held(d.rx, gr, part).whole = w \o Held(new, g, q).whole
              /\ w = <<>> => Held(d.rx, gr, part).whole = Held(new, g, q).whole
  <2>1. RxRing(d.rx, d.rxp, gr, part, d.rx_packet, d.rx_packet_offset)
    BY <1>1, <1>14 DEF Inv, Receiving
  <2> DEFINE rx == d.rx
             rxp == d.rxp
             packet == d.rx_packet
             offset == d.rx_packet_offset
  <2>2. RxRing(rx, rxp, gr, part, packet, offset) /\ rx \in RxRings /\ ~rx[gr].own
        /\ Changed(rx, gr, EmptyRx, new, RLEN) /\ Reads(part, rx[gr], q, w)
        /\ new \in RxRings /\ q \in Seq(Cells) /\ w \in Seq(Seq(Cells)) /\ part \in Seq(Cells)
        /\ gr \in 0..RLEN - 1
    BY <1>1, <1>2, <1>6, <1>7, <1>13, <2>1
  <2> HIDE DEF rx, rxp, packet, offset, q, w
  <2>3. /\ RxRing(new, rxp, (gr + 1) % RLEN, q, packet, offset)
        /\ Held(rx, gr, part).whole = w \o Held(new, (gr + 1) % RLEN, q).whole
    BY <2>2, RxRead
  <2> HIDE DEF g
  <2>4. Held(new, g, q).whole \in Seq(Seq(Cells))
    BY <1>6, <1>7, <1>10, HeldType
  <2>5. <<>> \o Held(new, g, q).whole = Held(new, g, q).whole
    BY <2>4
  <2> QED BY <2>3, <2>5 DEF rx, rxp, packet, offset, g
<1> HIDE DEF g
<1>15. (~late => Receiving(d.rx, d.rxp, gr, part, d.rx_packet, d.rx_packet_offset, phase))'
  BY <1>1, <1>9, <1>14 DEF Receiving
<1>16. Announced(d.csr0, phase, seen, d.rx)'
  BY <1>1 DEF Announced
<1>17. Transmitting(d.tx, d.txp, gt, tosend, d.tx_packet, posted, wire, phase)'
  BY <1>1, <1>9 DEF Inv
<1>18. Interrupts(d.csr0, d.irq_asserted, tick, phase, seen)'
  BY <1>1, <1>9 DEF Inv
<1>19. Inv'
  BY <1>11, <1>12, <1>15, <1>16, <1>17, <1>18 DEF Inv
<1>20. ASSUME ~late
       PROVE  \/ /\ got' = got
                 /\ Held(d.rx, gr, part).whole = Held(d'.rx, gr', part').whole
              \/ \E e \in Seq(Cells):
                    /\ got' = Append(got, e)
                    /\ Held(d.rx, gr, part).whole = <<e>> \o Held(d'.rx, gr', part').whole
  <2>1. d'.rx = new /\ gr' = g /\ part' = q
    BY <1>1, <1>9
  <2>2. CASE r.enp
    <3>1. w = <<all>> /\ got' = Append(got, all)
      BY <1>1, <2>2
    <3> HIDE DEF q, w, r
    <3>2. Held(d.rx, gr, part).whole = <<all>> \o Held(d'.rx, gr', part').whole
      BY <1>14, <1>20, <2>1, <3>1
    <3> QED BY <1>5, <3>1, <3>2
  <2>3. CASE ~r.enp
    <3>1. w = <<>> /\ got' = got
      BY <1>1, <2>3
    <3> HIDE DEF q, w, r
    <3> QED BY <1>14, <1>20, <2>1, <3>1
  <2> QED BY <2>2, <2>3
<1> QED BY <1>9, <1>19, <1>20

-----------------------------------------------------------------------------
(* The driver posts a buffer.                                              *)

(* A part of a packet, and the rest.                                       *)
LEMMA Cut ==
    ASSUME NEW cells \in Seq(Cells), NEW k \in 1..Len(cells)
    PROVE  /\ SubSeq(cells, 1, k) \in Packets
           /\ SubSeq(cells, k + 1, Len(cells)) \in Seq(Cells)
           /\ k = Len(cells) <=> SubSeq(cells, k + 1, Len(cells)) = <<>>
<1> DEFINE u == SubSeq(cells, 1, k)
           v == SubSeq(cells, k + 1, Len(cells))
<1>1. /\ Len(cells) \in Nat /\ 1 \in 1..Len(cells) + 1 /\ k + 1 \in 1..Len(cells) + 1
      /\ k \in 1 - 1..Len(cells) /\ Len(cells) \in k + 1 - 1..Len(cells)
  OBVIOUS
<1>2. u \in Seq(Cells) /\ Len(u) = k - 1 + 1
  BY <1>1, SubSeqType
<1>3. v \in Seq(Cells) /\ Len(v) = Len(cells) - (k + 1) + 1
  BY <1>1, SubSeqType
<1> HIDE DEF u, v
<1>4. u # <<>>
  <2>1. Len(u) # 0
    BY <1>1, <1>2
  <2> QED BY <2>1
<1>5. k = Len(cells) <=> v = <<>>
  <2>1. k = Len(cells) <=> Len(v) = 0
    BY <1>1, <1>3
  <2> QED BY <1>3, <2>1
<1> QED BY <1>2, <1>3, <1>4, <1>5 DEF u, v, Packets

(* The driver posts a part of a packet.                                    *)
LEMMA PostInv ==
    ASSUME Inv, NEW cells \in Seq(Cells), NEW k \in 1..Len(cells), Post(cells, k),
           counts' \in [sent: Nat, arrived: Nat, restarts: Nat]
    PROVE  Inv' /\ d'.rx = d.rx /\ d'.rx_packet = d.rx_packet
<1> DEFINE sent == SubSeq(cells, 1, k)
           after == SubSeq(cells, k + 1, Len(cells))
           x == [own |-> TRUE, stp |-> tosend = <<>>, enp |-> k = Len(cells), cells |-> sent]
           new == [d.tx EXCEPT ![gt] = x]
           g == (gt + 1) % TLEN
<1>0. TLEN \in Nat \ {0}
  BY Sizes
<1>1. /\ tick = "none" /\ phase = "idle" /\ ~d.tx[gt].own
      /\ d' = [d EXCEPT !.tx = [d.tx EXCEPT ![gt] = x]] /\ gt' = g /\ tosend' = after
      /\ posted' = posted \o sent
      /\ UNCHANGED <<tick, chain, phase, seen, gr, part, got, wire, late>>
  BY DEF Post
<1>2. sent \in Packets /\ after \in Seq(Cells) /\ (k = Len(cells) <=> after = <<>>)
  BY Cut
<1>3. sent \in Seq(Cells) /\ sent # <<>>
  BY <1>2 DEF Packets
<1> HIDE DEF sent, after
<1>4. /\ d \in Devices /\ d.tx \in TxRings /\ gt \in 0..TLEN - 1 /\ d.txp \in 0..TLEN - 1
      /\ d.tx_packet \in Packets \cup {NULL}
      /\ posted \in Seq(Cells) /\ wire \in Seq(Cells)
  BY DeviceFields DEF Inv, Types
<1>5. x \in Descriptors /\ x.own /\ x.cells = sent
  BY <1>3 DEF Descriptors
<1>6. x.stp <=> tosend = <<>>
  OBVIOUS
<1>7. x.enp <=> after = <<>>
  BY <1>2
<1> HIDE DEF x
<1>8. new \in TxRings /\ Changed(d.tx, gt, x, new, TLEN)
  BY <1>4, <1>5 DEF TxRings, Changed
<1>9. /\ d' \in Devices /\ d'.rx = d.rx /\ d'.csr0 = d.csr0 /\ d'.tx = new /\ d'.rxp = d.rxp
      /\ d'.txp = d.txp /\ d'.tx_packet = d.tx_packet /\ d'.rx_packet = d.rx_packet
      /\ d'.rx_packet_offset = d.rx_packet_offset /\ d'.rx_middle_bit = d.rx_middle_bit
      /\ d'.irq_asserted = d.irq_asserted
  <2>1. d' = [d EXCEPT !.tx = new]
    BY <1>1
  <2> HIDE DEF new
  <2> QED BY <1>4, <1>8, <2>1 DEF Devices
<1> HIDE DEF new
<1>10. g \in 0..TLEN - 1
  <2>1. 1 \in 0..TLEN
    BY <1>0
  <2>2. g = IF gt + 1 >= TLEN THEN gt + 1 - TLEN ELSE gt + 1
    BY <1>0, <1>4, <2>1, PlaceIs, Zenon
  <2> HIDE DEF g
  <2> QED BY <1>0, <1>4, <2>2
<1>11. Types'
  <2> HIDE DEF g
  <2>1. gt' \in 0..TLEN - 1 /\ tosend' \in Seq(Cells)
    BY <1>1, <1>2, <1>10
  <2>2. posted' \in Seq(Cells)
    BY <1>1, <1>3, <1>4, CellsConcat
  <2> QED BY <1>1, <1>9, <2>1, <2>2 DEF Inv, Types
<1>12. Transmitting(d.tx, d.txp, gt, tosend, d.tx_packet, posted, wire, phase)'
  <2> DEFINE tx == d.tx
             txp == d.txp
             packet == d.tx_packet
  <2>1. /\ TxRing(tx, txp, gt, tosend, packet, posted, wire) /\ ~tx[gt].own
        /\ tx \in TxRings /\ txp \in 0..TLEN - 1 /\ packet \in Packets \cup {NULL}
        /\ wire \in Seq(Cells) /\ x \in Descriptors /\ x.own /\ x.cells # <<>>
        /\ (x.stp <=> tosend = <<>>) /\ (x.enp <=> after = <<>>)
        /\ new \in TxRings /\ Changed(tx, gt, x, new, TLEN)
    BY <1>1, <1>3, <1>4, <1>5, <1>6, <1>7, <1>8 DEF Inv, Transmitting
  <2> HIDE DEF tx, txp, packet
  <2>2. TxRing(new, txp, (gt + 1) % TLEN, after, packet, posted \o x.cells, wire)
    BY <2>1, TxPosted
  <2>3. TxRing(new, txp, g, after, packet, posted', wire)
    BY <1>1, <1>5, <2>2
  <2> HIDE DEF g
  <2>4. TxRing(d'.tx, d'.txp, gt', tosend', d'.tx_packet, posted', wire')
    BY <1>1, <1>9, <2>3 DEF txp, packet
  <2> QED BY <1>1, <2>4 DEF Transmitting
<1>13. Receiver(d.rx, d.rx_packet, d.rx_packet_offset, d.rx_middle_bit)'
  BY <1>9 DEF Inv
<1>14. (~late => /\ Receiving(d.rx, d.rxp, gr, part, d.rx_packet, d.rx_packet_offset, phase)
                 /\ Announced(d.csr0, phase, seen, d.rx))'
  BY <1>1, <1>9 DEF Inv
<1>15. Interrupts(d.csr0, d.irq_asserted, tick, phase, seen)'
  BY <1>1, <1>9 DEF Inv
<1>16. Inv'
  BY <1>11, <1>12, <1>13, <1>14, <1>15 DEF Inv
<1> QED BY <1>9, <1>16

LEMMA PostFirstInv ==
    ASSUME Inv, NEW header \in Headers, NEW len \in Lens, NEW k \in 1..len, PostFirst(header, len, k)
    PROVE  Inv' /\ d'.rx = d.rx /\ d'.rx_packet = d.rx_packet
<1> DEFINE cells == Packet(Le, counts.sent + 1, header, len)
<1>1. counts' = [counts EXCEPT !.sent = @ + 1] /\ Post(cells, k)
  BY DEF PostFirst
<1>2. counts \in [sent: Nat, arrived: Nat, restarts: Nat]
  BY DEF Inv, Types
<1>3. counts.sent + 1 \in Nat /\ Le \in Nics \cup {"gateway"} /\ len \in Nat \ {0}
  BY <1>2, LanceAssumption
<1>4. cells \in Packets /\ Len(cells) = len
  BY <1>3, PacketType
<1>5. counts' \in [sent: Nat, arrived: Nat, restarts: Nat]
  BY <1>1, <1>2
<1> HIDE DEF cells
<1>6. cells \in Seq(Cells) /\ k \in 1..Len(cells)
  BY <1>4 DEF Packets
<1> QED BY <1>1, <1>5, <1>6, PostInv

LEMMA PostNextInv ==
    ASSUME Inv, NEW k \in 1..Len(tosend), PostNext(k)
    PROVE  Inv' /\ d'.rx = d.rx /\ d'.rx_packet = d.rx_packet
<1>1. counts' \in [sent: Nat, arrived: Nat, restarts: Nat] /\ tosend \in Seq(Cells) /\ Post(tosend, k)
  BY DEF Inv, Types, PostNext
<1> QED BY <1>1, PostInv

-----------------------------------------------------------------------------
(* The packets on their way to the driver.                                 *)

PacketLists == Seq(Seq(Cells))

InChip(packet) == IF packet = NULL THEN <<>> ELSE <<packet>>

OnTheWay(whole, packet, waiting) == whole \o InChip(packet) \o waiting

(* What the steps of the channel do to them.                               *)
Grown(a, b) == Len(b) > Len(a) /\ SubSeq(b, 1, Len(a)) = a
Lost(a, b) == \E k \in 0..Len(a): b = SubSeq(a, k + 1, Len(a))
Taken(a, e, b) == a # <<>> /\ Head(a) = e /\ Tail(a) = b

LEMMA ListsConcat ==
    ASSUME NEW s \in PacketLists, NEW t \in PacketLists
    PROVE  s \o t \in PacketLists
  BY ConcatProperties DEF PacketLists

LEMMA ListsEmpty ==
    ASSUME NEW s \in PacketLists
    PROVE  <<>> \in PacketLists /\ <<>> \o s = s /\ s \o <<>> = s
  BY ConcatEmptySeq DEF PacketLists

LEMMA ListsAssociative ==
    ASSUME NEW s \in PacketLists, NEW t \in PacketLists, NEW u \in PacketLists
    PROVE  (s \o t) \o u = s \o (t \o u)
  BY PacketsAssociative DEF PacketLists

LEMMA InChipType ==
    ASSUME NEW packet \in Packets \cup {NULL}
    PROVE  InChip(packet) \in PacketLists
<1>1. <<>> \in PacketLists
  BY DEF PacketLists
<1>2. ASSUME packet \in Packets PROVE <<packet>> \in PacketLists
  BY <1>2, NotNull DEF PacketLists
<1> QED BY <1>1, <1>2 DEF InChip

LEMMA WaitingList ==
    ASSUME NEW s \in Seq(Packets)
    PROVE  s \in PacketLists
<1>1. \A i \in 1..Len(s): s[i] \in Seq(Cells)
  BY NotNull
<1> QED BY <1>1 DEF PacketLists

LEMMA OnTheWayType ==
    ASSUME NEW w \in PacketLists, NEW packet \in Packets \cup {NULL}, NEW c \in PacketLists
    PROVE  /\ OnTheWay(w, packet, c) \in PacketLists
           /\ OnTheWay(w, packet, c) = w \o (InChip(packet) \o c)
           /\ InChip(packet) \o c \in PacketLists /\ w \o InChip(packet) \in PacketLists
<1> DEFINE m == InChip(packet)
<1>1. m \in PacketLists
  BY InChipType
<1> HIDE DEF m
<1>2. w \o m \in PacketLists /\ m \o c \in PacketLists
  BY <1>1, ListsConcat
<1>3. (w \o m) \o c \in PacketLists /\ (w \o m) \o c = w \o (m \o c)
  BY <1>1, <1>2, ListsConcat, ListsAssociative
<1> QED BY <1>2, <1>3 DEF OnTheWay, m

(* The chip takes a packet from the chain.                                 *)
LEMMA OnTheWayTaken ==
    ASSUME NEW w \in PacketLists, NEW packet \in Packets, NEW c \in PacketLists
    PROVE  OnTheWay(w, NULL, <<packet>> \o c) = OnTheWay(w, packet, c)
<1> DEFINE m == <<packet>>
<1>1. InChip(packet) = m /\ InChip(NULL) = <<>>
  BY NotNull DEF InChip
<1>2. m \in PacketLists
  BY <1>1, InChipType
<1> HIDE DEF m
<1>3. w \o <<>> = w
  BY ListsEmpty
<1>4. (w \o m) \o c = w \o (m \o c)
  BY <1>2, ListsAssociative
<1> QED BY <1>1, <1>3, <1>4 DEF OnTheWay, m

(* The chip has copied the whole packet into the ring.                     *)
LEMMA OnTheWayFilled ==
    ASSUME NEW w \in PacketLists, NEW packet \in Packets, NEW c \in PacketLists
    PROVE  OnTheWay(w \o <<packet>>, NULL, c) = OnTheWay(w, packet, c)
<1> DEFINE m == <<packet>>
           v == w \o m
<1>1. InChip(packet) = m /\ InChip(NULL) = <<>>
  BY NotNull DEF InChip
<1>2. m \in PacketLists
  BY <1>1, InChipType
<1>3. v \in PacketLists
  BY <1>2, ListsConcat
<1> HIDE DEF m, v
<1>4. v \o <<>> = v
  BY <1>3, ListsEmpty
<1> QED BY <1>1, <1>4 DEF OnTheWay, m, v

(* The end of a list.                                                      *)
LEMMA ListsTail ==
    ASSUME NEW s \in PacketLists, NEW t \in PacketLists
    PROVE  /\ Len(s) \in Nat /\ Len(s \o t) = Len(s) + Len(t)
           /\ SubSeq(s \o t, 1, Len(s)) = s
           /\ SubSeq(s \o t, Len(s) + 1, Len(s \o t)) = t
<1> DEFINE u == s \o t
           v == SubSeq(u, 1, Len(s))
           z == SubSeq(u, Len(s) + 1, Len(u))
<1>1. /\ u \in PacketLists /\ Len(u) = Len(s) + Len(t) /\ Len(s) \in Nat /\ Len(t) \in Nat
      /\ \A i \in 1..Len(s) + Len(t): u[i] = IF i <= Len(s) THEN s[i] ELSE t[i - Len(s)]
  BY ConcatProperties DEF PacketLists
<1> HIDE DEF u
<1>2. \A i \in 1..Len(u): u[i] \in Seq(Cells)
  BY <1>1 DEF PacketLists
<1>3. /\ v \in PacketLists /\ Len(v) = Len(s) /\ \A i \in 1..Len(s): v[i] = u[i]
  BY <1>1, <1>2 DEF PacketLists
<1>4. v = s
  <2> HIDE DEF v
  <2> QED BY <1>1, <1>3, SeqEqual DEF PacketLists
<1>5. /\ z \in PacketLists /\ Len(z) = Len(t) /\ \A i \in 1..Len(t): z[i] = u[Len(s) + i]
  BY <1>1, <1>2 DEF PacketLists
<1>6. z = t
  <2> HIDE DEF z
  <2>1. ASSUME NEW i \in 1..Len(t) PROVE z[i] = t[i]
    <3> DEFINE j == Len(s) + i
    <3>1. j \in 1..Len(s) + Len(t) /\ ~(j <= Len(s)) /\ j - Len(s) = i
      BY <1>1
    <3>2. z[i] = u[j]
      BY <1>5
    <3> HIDE DEF j
    <3> QED BY <1>1, <3>1, <3>2
  <2> QED BY <1>5, <2>1, SeqEqual DEF PacketLists
<1> QED BY <1>1, <1>4, <1>6 DEF u

LEMMA OnTheWayMore ==
    ASSUME NEW w \in PacketLists, NEW packet \in Packets \cup {NULL}, NEW c \in PacketLists,
           NEW e \in PacketLists, e # <<>>
    PROVE  Grown(OnTheWay(w, packet, c), OnTheWay(w, packet, c \o e))
<1> DEFINE v == w \o InChip(packet)
           a == OnTheWay(w, packet, c)
           b == OnTheWay(w, packet, c \o e)
<1>1. v \in PacketLists /\ a \in PacketLists
  BY OnTheWayType
<1>2. a = v \o c /\ b = v \o (c \o e)
  BY DEF OnTheWay
<1> HIDE DEF v, a, b
<1>3. b = a \o e
  <2>1. (v \o c) \o e = v \o (c \o e)
    BY <1>1, ListsAssociative
  <2> QED BY <1>2, <2>1
<1>4. Len(a) \in Nat /\ Len(b) = Len(a) + Len(e) /\ SubSeq(b, 1, Len(a)) = a
  BY <1>1, <1>3, ListsTail
<1>5. Len(e) \in Nat /\ Len(e) # 0
  BY DEF PacketLists
<1>6. Grown(a, b)
  BY <1>4, <1>5 DEF Grown
<1> QED BY <1>6 DEF a, b

LEMMA FrontLost ==
    ASSUME NEW s \in PacketLists, NEW t \in PacketLists
    PROVE  Lost(s \o t, t)
<1> DEFINE u == s \o t
<1>1. Len(s) \in Nat /\ Len(t) \in Nat /\ Len(u) = Len(s) + Len(t) /\ t = SubSeq(u, Len(s) + 1, Len(u))
  BY ListsTail
<1> HIDE DEF u
<1>2. Len(s) \in 0..Len(u)
  BY <1>1
<1>3. Lost(u, t)
  BY <1>1, <1>2 DEF Lost
<1> QED BY <1>3 DEF u

(* New rings are built, or the chip is initialised.                        *)
LEMMA OnTheWayLess ==
    ASSUME NEW w \in PacketLists, NEW packet \in Packets \cup {NULL}, NEW c \in PacketLists
    PROVE  /\ Lost(OnTheWay(w, packet, c), OnTheWay(<<>>, packet, c))
           /\ Lost(OnTheWay(<<>>, packet, c), OnTheWay(<<>>, NULL, c))
<1> DEFINE m == InChip(packet)
           n == InChip(NULL)
           t == m \o c
           e == <<>>
<1>1. m \in PacketLists /\ n = e /\ e \in PacketLists
  BY InChipType DEF InChip, PacketLists
<1>2. OnTheWay(w, packet, c) = w \o t /\ t \in PacketLists
  BY OnTheWayType
<1>3. OnTheWay(e, packet, c) = (e \o m) \o c /\ OnTheWay(e, NULL, c) = (e \o n) \o c
  BY DEF OnTheWay
<1> HIDE DEF m, n, e
<1>4. e \o m = m /\ e \o e = e /\ e \o c = c
  BY <1>1, ListsEmpty DEF e
<1>5. OnTheWay(e, packet, c) = t /\ OnTheWay(e, NULL, c) = c
  BY <1>1, <1>3, <1>4
<1>6. Lost(m \o c, c)
  BY <1>1, FrontLost
<1> HIDE DEF t
<1>7. Lost(w \o t, t)
  BY <1>2, FrontLost
<1>8. Lost(t, c)
  BY <1>6 DEF t
<1>9. /\ Lost(OnTheWay(w, packet, c), OnTheWay(e, packet, c))
      /\ Lost(OnTheWay(e, packet, c), OnTheWay(e, NULL, c))
  BY <1>2, <1>5, <1>7, <1>8
<1> QED BY <1>9 DEF e

(* The driver reads the end of a packet.                                   *)
LEMMA OnTheWayFirst ==
    ASSUME NEW w \in PacketLists, NEW packet \in Packets \cup {NULL}, NEW c \in PacketLists,
           NEW e \in Seq(Cells)
    PROVE  Taken(OnTheWay(<<e>> \o w, packet, c), e, OnTheWay(w, packet, c))
<1> DEFINE m == <<e>>
           v == w \o InChip(packet)
           t == OnTheWay(w, packet, c)
           a == OnTheWay(m \o w, packet, c)
<1>1. m \in PacketLists
  BY DEF PacketLists
<1>2. v \in PacketLists /\ t = v \o c /\ t \in PacketLists /\ InChip(packet) \in PacketLists
  BY OnTheWayType, InChipType DEF OnTheWay
<1>3. a = ((m \o w) \o InChip(packet)) \o c
  BY DEF OnTheWay
<1> HIDE DEF m, t, a
<1>4. (m \o w) \o InChip(packet) = m \o v
  BY <1>1, <1>2, ListsAssociative
<1> HIDE DEF v
<1>5. a = m \o t
  <2>1. (m \o v) \o c = m \o (v \o c)
    BY <1>1, <1>2, ListsAssociative
  <2> QED BY <1>2, <1>3, <1>4, <2>1
<1>6. m \o t # <<>> /\ Head(m \o t) = e /\ Tail(m \o t) = t
  BY <1>2 DEF m, PacketLists
<1>7. Taken(a, e, t)
  BY <1>5, <1>6 DEF Taken
<1> QED BY <1>7 DEF a, m, t

-----------------------------------------------------------------------------
(* The steps of the device and the driver as steps of the channel.         *)

ChannelStep == [Channel!Next]_(Channel!chan)

(* A list of packets, as the invariant makes it.                           *)
LEMMA PendingIs ==
    /\ Pending = OnTheWay(Held(d.rx, gr, part).whole, d.rx_packet, Waiting(chain, Le))
    /\ Pending' = OnTheWay(Held(d'.rx, gr', part').whole, d'.rx_packet, Waiting(chain', Le))
<1>1. Pending = OnTheWay(Held(d.rx, gr, part).whole, d.rx_packet, Waiting(chain, Le))
  BY InRingIs DEF Pending, OnTheWay, InChip, Held
<1>2. Pending' = OnTheWay(Held(d'.rx, gr', part').whole, d'.rx_packet, Waiting(chain', Le))
  BY DEF Pending, InRing, Holding, OnTheWay, InChip, Held
<1> QED BY <1>1, <1>2

(* Their types, now and after a step.                                      *)
LEMMA PendingParts ==
    ASSUME Inv
    PROVE  /\ Held(d.rx, gr, part).whole \in PacketLists
           /\ d.rx_packet \in Packets \cup {NULL}
           /\ Waiting(chain, Le) \in PacketLists
<1>1. d.rx \in RxRings /\ gr \in 0..RLEN - 1 /\ part \in Seq(Cells) /\ chain \in Seq(Links)
      /\ d.rx_packet \in Packets \cup {NULL}
  BY DeviceFields DEF Inv, Types
<1>2. Waiting(chain, Le) \in PacketLists
  BY <1>1, WaitingType, WaitingList
<1> QED BY <1>1, <1>2, HeldType DEF PacketLists

(* The four ways in which a step may look to the channel.                  *)
LEMMA AsSend ==
    ASSUME ~late => Grown(Pending, Pending'), got' = got, late' = late
    PROVE  ChannelStep
  BY DEF ChannelStep, Channel!Next, Channel!Send, Grown

LEMMA AsLose ==
    ASSUME ~late => Lost(Pending, Pending'), got' = got, late' = late \/ late' = FALSE
    PROVE  ChannelStep
  BY DEF ChannelStep, Channel!Next, Channel!Lose, Lost

LEMMA AsDeliver ==
    ASSUME NEW e, ~late => Taken(Pending, e, Pending'), got' = Append(got, e), late' = late
    PROVE  ChannelStep
  BY DEF ChannelStep, Channel!Next, Channel!Deliver, Taken

LEMMA AsNothing ==
    ASSUME ~late' => Pending' = Pending, got' = got, late' \in BOOLEAN, late' = late \/ late'
    PROVE  ChannelStep
  BY DEF ChannelStep, Channel!Next, Channel!chan

LEMMA PendingPartsNext ==
    ASSUME Inv'
    PROVE  /\ Held(d'.rx, gr', part').whole \in PacketLists
           /\ d'.rx_packet \in Packets \cup {NULL}
           /\ Waiting(chain', Le) \in PacketLists
<1> DEFINE e == d'
           g == gr'
           p == part'
           c == chain'
<1>0. e \in Devices /\ g \in 0..RLEN - 1 /\ p \in Seq(Cells) /\ c \in Seq(Links)
  BY DEF Inv, Types
<1> HIDE DEF e, g, p, c
<1>1. e.rx \in RxRings /\ e.rx_packet \in Packets \cup {NULL}
  BY <1>0, DeviceFields
<1>2. Waiting(c, Le) \in PacketLists
  BY <1>0, WaitingType, WaitingList
<1>3. Held(e.rx, g, p).whole \in PacketLists
  BY <1>0, <1>1, HeldType DEF PacketLists
<1> QED BY <1>1, <1>2, <1>3 DEF e, g, p, c

(* The packets are where they were.                                        *)
LEMMA SamePending ==
    ASSUME Inv, d'.rx = d.rx, d'.rx_packet = d.rx_packet, gr' = gr, part' = part,
           Waiting(chain', Le) = Waiting(chain, Le), got' = got, late' = late
    PROVE  ChannelStep
<1>1. Pending' = Pending
  BY PendingIs
<1>2. late' \in BOOLEAN
  BY DEF Inv, Types
<1> QED BY <1>1, <1>2, AsNothing

(* Packets are sent to the interface.                                      *)
LEMMA MorePending ==
    ASSUME Inv, d'.rx = d.rx, d'.rx_packet = d.rx_packet, gr' = gr, part' = part,
           MoreFor(Le, chain, chain'), got' = got, late' = late
    PROVE  ChannelStep
<1> DEFINE w == Held(d.rx, gr, part).whole
           p == d.rx_packet
           c == Waiting(chain, Le)
<1>1. w \in PacketLists /\ p \in Packets \cup {NULL} /\ c \in PacketLists
  BY PendingParts
<1>2. PICK e \in Seq(Packets): e # <<>> /\ Waiting(chain', Le) = c \o e
  BY DEF MoreFor
<1>3. e \in PacketLists
  BY WaitingList
<1>4. Pending = OnTheWay(w, p, c) /\ Pending' = OnTheWay(w, p, c \o e)
  BY <1>2, PendingIs
<1> HIDE DEF w, p, c
<1>5. Grown(OnTheWay(w, p, c), OnTheWay(w, p, c \o e))
  BY <1>1, <1>2, <1>3, OnTheWayMore
<1>6. Grown(Pending, Pending')
  BY <1>4, <1>5
<1> QED BY <1>6, AsSend

(* A packet moves from the chain into the chip.                            *)
LEMMA TakePacketStep ==
    ASSUME Inv, TakePacket
    PROVE  Inv' /\ ChannelStep
<1> DEFINE w == Held(d.rx, gr, part).whole
           p == d'.rx_packet
           c == Waiting(chain', Le)
<1>1. Inv' /\ d.rx_packet = NULL /\ p \in Packets /\ d'.rx = d.rx
      /\ Waiting(chain, Le) = <<p>> \o c
  BY TakePacketInv
<1>2. UNCHANGED <<gr, part, got, late>>
  BY DEF TakePacket, driverVars
<1>3. Pending = OnTheWay(w, NULL, <<p>> \o c) /\ Pending' = OnTheWay(w, p, c)
  BY <1>1, <1>2, PendingIs
<1>4. w \in PacketLists /\ c \in PacketLists
  BY <1>1, PendingParts, PendingPartsNext
<1> HIDE DEF w, p, c
<1>5. OnTheWay(w, NULL, <<p>> \o c) = OnTheWay(w, p, c)
  BY <1>1, <1>4, OnTheWayTaken
<1>6. Pending' = Pending /\ late' \in BOOLEAN
  BY <1>1, <1>3, <1>5 DEF Inv, Types
<1> QED BY <1>1, <1>2, <1>6, AsNothing

(* A packet moves from the chip into the ring when its end is copied.      *)
LEMMA le_rxStep ==
    ASSUME Inv, le_rx
    PROVE  Inv' /\ ChannelStep
<1> DEFINE w == Held(d.rx, gr, part).whole
           v == Held(d'.rx, gr, part).whole
           p == d.rx_packet
           q == d'.rx_packet
           c == Waiting(chain, Le)
<1>1. /\ Inv'
      /\ ~late' => \/ q = p /\ v = w
                   \/ p \in Packets /\ q = NULL /\ v = w \o <<p>>
  BY le_rxInv
<1>2. UNCHANGED <<chain, gr, part, got>> /\ late' = (late \/ phase = "built")
  BY DEF le_rx, driverVars
<1>3. late \in BOOLEAN /\ late' \in BOOLEAN
  BY <1>1 DEF Inv, Types
<1>4. w \in PacketLists /\ p \in Packets \cup {NULL} /\ c \in PacketLists
  BY PendingParts
<1>5. Pending = OnTheWay(w, p, c) /\ Pending' = OnTheWay(v, q, c)
  BY <1>2, PendingIs
<1> HIDE DEF w, v, p, q, c
<1>6. ASSUME ~late' PROVE Pending' = Pending
  <2>1. CASE q = p /\ v = w
    BY <1>5, <2>1
  <2>2. CASE p \in Packets /\ q = NULL /\ v = w \o <<p>>
    <3>1. OnTheWay(w \o <<p>>, NULL, c) = OnTheWay(w, p, c)
      BY <1>4, <2>2, OnTheWayFilled
    <3> QED BY <1>5, <2>2, <3>1
  <2> QED BY <1>1, <1>6, <2>1, <2>2
<1> QED BY <1>1, <1>2, <1>3, <1>6, AsNothing

(* Only the answer of the gateway is sent to this interface itself.        *)
LEMMA le_txStep ==
    ASSUME Inv, le_tx
    PROVE  Inv' /\ ChannelStep
<1>1. /\ Inv' /\ d'.rx = d.rx /\ d'.rx_packet = d.rx_packet
      /\ MoreFor(Le, chain, chain') \/ Waiting(chain', Le) = Waiting(chain, Le)
  BY le_txInv
<1>2. UNCHANGED <<gr, part, got, late>>
  BY DEF le_tx, driverVars
<1> QED BY <1>1, <1>2, MorePending, SamePending

(* The packets of the old ring are lost, the oldest ones.                  *)
LEMMA BuildStep ==
    ASSUME Inv, NEW mode \in Modes, Build(mode)
    PROVE  Inv' /\ ChannelStep
<1> DEFINE w == Held(d.rx, gr, part).whole
           p == d.rx_packet
           c == Waiting(chain, Le)
<1>1. Inv' /\ d'.rx_packet = p /\ Held(d'.rx, gr', part').whole = <<>>
  BY BuildInv
<1>2. UNCHANGED <<chain, got>> /\ late' = FALSE
  BY DEF Build
<1>3. w \in PacketLists /\ p \in Packets \cup {NULL} /\ c \in PacketLists
  BY PendingParts
<1>4. Pending = OnTheWay(w, p, c) /\ Pending' = OnTheWay(<<>>, p, c)
  BY <1>1, <1>2, PendingIs
<1> HIDE DEF w, p, c
<1>5. Lost(OnTheWay(w, p, c), OnTheWay(<<>>, p, c))
  BY <1>3, OnTheWayLess
<1>6. Lost(Pending, Pending')
  BY <1>4, <1>5
<1> QED BY <1>1, <1>2, <1>6, AsLose

(* The packet in the chip is lost, the oldest one then.                    *)
LEMMA GiveInitStep ==
    ASSUME Inv, GiveInit
    PROVE  Inv' /\ ChannelStep
<1> DEFINE p == d.rx_packet
           c == Waiting(chain, Le)
<1>1. /\ Inv' /\ d'.rx_packet = NULL /\ d'.rx = d.rx
      /\ ~late => Held(d.rx, gr, part).whole = <<>>
  BY GiveInitInv
<1>2. UNCHANGED <<chain, gr, part, got, late>>
  BY DEF GiveInit, WriteCsr0
<1>3. p \in Packets \cup {NULL} /\ c \in PacketLists
  BY PendingParts
<1>4. ASSUME ~late PROVE Lost(Pending, Pending')
  <2>1. Pending = OnTheWay(<<>>, p, c) /\ Pending' = OnTheWay(<<>>, NULL, c)
    BY <1>1, <1>2, <1>4, PendingIs
  <2> DEFINE w == <<>>
  <2>2. w \in PacketLists
    BY DEF PacketLists
  <2> HIDE DEF p, c, w
  <2>3. Lost(OnTheWay(<<>>, p, c), OnTheWay(<<>>, NULL, c))
    BY <1>3, <2>2, OnTheWayLess
  <2> QED BY <2>1, <2>3
<1> QED BY <1>1, <1>2, <1>4, AsLose

(* The driver gets the oldest packet, or a part of it.                     *)
LEMMA ReadDescriptorStep ==
    ASSUME Inv, ReadDescriptor
    PROVE  Inv' /\ ChannelStep
<1> DEFINE w == Held(d.rx, gr, part).whole
           v == Held(d'.rx, gr', part').whole
           p == d.rx_packet
           c == Waiting(chain, Le)
<1>1. /\ Inv' /\ d'.rx_packet = p
      /\ ~late => \/ got' = got /\ w = v
                  \/ \E e \in Seq(Cells): got' = Append(got, e) /\ w = <<e>> \o v
  BY ReadDescriptorInv
<1>2. UNCHANGED <<chain, late>>
  BY DEF ReadDescriptor
<1>3. v \in PacketLists /\ p \in Packets \cup {NULL} /\ c \in PacketLists
  BY <1>1, PendingParts, PendingPartsNext
<1>4. Pending = OnTheWay(w, p, c) /\ Pending' = OnTheWay(v, p, c)
  BY <1>1, <1>2, PendingIs
<1>5. late' \in BOOLEAN
  BY <1>1 DEF Inv, Types
<1> HIDE DEF w, v, p, c
<1>6. CASE late
  BY <1>1, <1>6 DEF ChannelStep, Channel!Next
<1>7. CASE ~late /\ got' = got /\ w = v
  <2>1. Pending' = Pending
    BY <1>4, <1>7
  <2> QED BY <1>1, <1>2, <1>5, <1>7, <2>1, AsNothing
<1>8. CASE ~late /\ \E e \in Seq(Cells): got' = Append(got, e) /\ w = <<e>> \o v
  <2>1. PICK e \in Seq(Cells): got' = Append(got, e) /\ w = <<e>> \o v
    BY <1>8
  <2>2. Taken(OnTheWay(<<e>> \o v, p, c), e, OnTheWay(v, p, c))
    BY <1>3, OnTheWayFirst
  <2>3. Taken(Pending, e, Pending')
    BY <1>4, <2>1, <2>2
  <2> QED BY <1>1, <1>2, <2>1, <2>3, AsDeliver
<1> QED BY <1>1, <1>6, <1>7, <1>8

(* The steps that only change registers, and those of the driver that      *)
(* concern only the transmit ring.                                         *)
LEMMA RegisterStep ==
    ASSUME Inv, DeviceTick \/ ReceiverDone \/ TransmitterDone \/ Start \/ ReadCsr0
                    \/ Acknowledge \/ Drained \/ Stop
    PROVE  Inv' /\ ChannelStep
<1>1. Inv'
  BY DeviceTickInv, ReceiverDoneInv, TransmitterDoneInv, StartInv, ReadCsr0Inv,
     AcknowledgeInv, DrainedInv, StopInv
<1>2. d'.rx = d.rx /\ d'.rx_packet = d.rx_packet
  <2>0. d \in Devices
    BY DEF Inv, Types
  <2>1. CASE DeviceTick
    BY <2>1, Ticked DEF DeviceTick
  <2>2. CASE ReceiverDone
    BY <2>2 DEF ReceiverDone
  <2>3. CASE TransmitterDone
    BY <2>0, <2>3 DEF TransmitterDone, Devices
  <2>4. CASE Start
    <3>1. {"STRT", "INEA"} \in SUBSET Bits /\ "INIT" \notin {"STRT", "INEA"}
      BY DEF Bits
    <3>2. SameButCsr0(d', d)
      BY <2>4, <3>1, Written DEF Start
    <3> QED BY <3>2 DEF SameButCsr0
  <2>5. CASE ReadCsr0
    BY <2>5, Ticked DEF ReadCsr0
  <2>6. CASE Acknowledge
    <3> DEFINE x == seen \cap {"RINT", "TINT", "IDON", "INEA"}
    <3>1. x \in SUBSET Bits /\ "INIT" \notin x /\ WriteCsr0(x)
      BY <2>6 DEF Inv, Types, Acknowledge
    <3> HIDE DEF x
    <3>2. SameButCsr0(d', d)
      BY <3>1, Written
    <3> QED BY <3>2 DEF SameButCsr0
  <2>7. CASE Drained
    BY <2>7 DEF Drained
  <2>8. CASE Stop
    <3> DEFINE x == {"STOP"}
    <3>1. x \in SUBSET Bits /\ "INIT" \notin x /\ WriteCsr0(x)
      BY <2>8 DEF Bits, Stop
    <3> HIDE DEF x
    <3>2. SameButCsr0(d', d)
      BY <3>1, Written
    <3> QED BY <3>2 DEF SameButCsr0
  <2> QED BY <2>1, <2>2, <2>3, <2>4, <2>5, <2>6, <2>7, <2>8
<1>3. UNCHANGED <<chain, gr, part, got, late>>
  BY DEF DeviceTick, ReceiverDone, TransmitterDone, Start, ReadCsr0, Acknowledge, Drained, Stop,
         WriteCsr0, driverVars
<1> QED BY <1>1, <1>2, <1>3, SamePending

LEMMA PostStep ==
    ASSUME Inv,
           \/ \E header \in Headers, len \in Lens: \E k \in 1..len: PostFirst(header, len, k)
           \/ \E k \in 1..Len(tosend): PostNext(k)
    PROVE  Inv' /\ ChannelStep
<1>1. Inv' /\ d'.rx = d.rx /\ d'.rx_packet = d.rx_packet
  BY PostFirstInv, PostNextInv
<1>2. UNCHANGED <<chain, gr, part, got, late>>
  BY DEF PostFirst, PostNext, Post
<1> QED BY <1>1, <1>2, SamePending

LEMMA NetworkStep ==
    ASSUME Inv,
           \/ \E nic \in Nics, len \in Lens: Arrive(nic, len)
           \/ \E nic \in Nics: OtherReceives(nic)
    PROVE  Inv' /\ ChannelStep
<1>1. UNCHANGED <<d, gr, part, got, late>>
  BY DEF Arrive, OtherReceives, driverVars
<1>2. Inv' /\ (MoreFor(Le, chain, chain') \/ Waiting(chain', Le) = Waiting(chain, Le))
  BY ArriveInv, OtherReceivesInv
<1> QED BY <1>1, <1>2, MorePending, SamePending

(* Every step keeps the invariant and is a step of the channel.            *)
LEMMA NextStep == Inv /\ [Next]_vars => Inv' /\ [Channel!Next]_(Channel!chan)
<1> SUFFICES ASSUME Inv, [Next]_vars PROVE Inv' /\ ChannelStep
  BY DEF ChannelStep
<1>1. CASE DeviceTick \/ ReceiverDone \/ TransmitterDone \/ Start \/ ReadCsr0
               \/ Acknowledge \/ Drained \/ Stop
  BY <1>1, RegisterStep
<1>2. CASE TakePacket
  BY <1>2, TakePacketStep
<1>3. CASE le_rx
  BY <1>3, le_rxStep
<1>4. CASE le_tx
  BY <1>4, le_txStep
<1>5. CASE \E mode \in Modes: Build(mode)
  BY <1>5, BuildStep
<1>6. CASE GiveInit
  BY <1>6, GiveInitStep
<1>7. CASE ReadDescriptor
  BY <1>7, ReadDescriptorStep
<1>8. CASE \/ \E nic \in Nics, len \in Lens: Arrive(nic, len)
           \/ \E nic \in Nics: OtherReceives(nic)
  BY <1>8, NetworkStep
<1>9. CASE \/ \E header \in Headers, len \in Lens: \E k \in 1..len: PostFirst(header, len, k)
           \/ \E k \in 1..Len(tosend): PostNext(k)
  BY <1>9, PostStep
<1>10. CASE UNCHANGED vars
  <2>1. UNCHANGED <<d, tick, chain, phase, seen, gr, gt, tosend, part, got, counts, posted, wire, late>>
    BY <1>10 DEF vars, driverVars
  <2>2. Inv'
    BY <2>1 DEF Inv, Types
  <2>3. ChannelStep
    BY <2>1, SamePending
  <2> QED BY <2>2, <2>3
<1> QED BY <1>1, <1>2, <1>3, <1>4, <1>5, <1>6, <1>7, <1>8, <1>9, <1>10 DEF Next, ChipStep, DriverStep

(* Nothing is on its way in the beginning.                                 *)
LEMMA InitChannel == Init => Channel!Init
<1> SUFFICES ASSUME Init PROVE Channel!Init
  OBVIOUS
<1>1. Inv
  BY InitInv
<1>2. d.rx_packet = NULL /\ chain = <<>> /\ got = <<>> /\ late = FALSE
  BY DEF Init
<1>3. d.rx \in RxRings /\ gr \in 0..RLEN - 1 /\ part \in Seq(Cells)
  BY <1>1, DeviceFields DEF Inv, Types
<1>4. \A i \in 0..RLEN - 1: d.rx[i].own \/ ~d.rx[i].enp
  <2>1. \A i \in 0..RLEN - 1: d.rx[i] = NoDescriptor
    BY DEF Init
  <2> QED BY <2>1, NoDescriptorType
<1>5. Held(d.rx, gr, part).whole = <<>>
  BY <1>3, <1>4, HeldNoEnd
<1>6. Waiting(chain, Le) = <<>>
  <2> DEFINE c == <<>>
  <2>1. c \in Seq(Links) /\ Len(c) = 0
    OBVIOUS
  <2> HIDE DEF c
  <2>2. PICK w: Found(w, c, Le, Len(c)) /\ Waiting(c, Le) = w[Len(c)]
    BY <2>1, WaitingIs
  <2>3. w[0] = <<>>
    BY <2>2 DEF Found
  <2> QED BY <1>2, <2>1, <2>2, <2>3 DEF c
<1>7. Pending = <<>>
  <2>1. <<>> \o <<>> = <<>>
    OBVIOUS
  <2> QED BY <1>2, <1>5, <1>6, <2>1, PendingIs DEF OnTheWay, InChip
<1> QED BY <1>2, <1>7 DEF Channel!Init

-----------------------------------------------------------------------------
(* The theorems.                                                           *)

(* The inductive invariant holds of dev_le.c and its driver.               *)
THEOREM Invariance == Spec => []Inv
<1>1. Init => Inv
  BY InitInv
<1>2. Inv /\ [Next]_vars => Inv'
  BY NextStep
<1> QED BY <1>1, <1>2, PTL DEF Spec

(* The registers, the places in the rings and the packet in the chip have  *)
(* the values le_data allows: no place leaves its ring, no buffer is       *)
(* filled past its end, and the offset stays inside of the packet.         *)
THEOREM TypeCorrect == Spec => []TypeOK
<1>1. Inv => TypeOK
  <2> SUFFICES ASSUME Inv PROVE TypeOK
    OBVIOUS
  <2>1. /\ d \in Devices /\ chain \in Seq(Links) /\ phase \in Phases
        /\ gr \in 0..RLEN - 1 /\ gt \in 0..TLEN - 1
        /\ Receiver(d.rx, d.rx_packet, d.rx_packet_offset, d.rx_middle_bit)
    BY DEF Inv, Types
  <2>2. /\ d.csr0 \in SUBSET Bits /\ d.mode \in Modes \cup {{}}
        /\ d.rxp \in 0..RLEN - 1 /\ d.txp \in 0..TLEN - 1
    BY <2>1 DEF Devices
  <2>3. \A i \in DOMAIN chain: chain[i].nic \in Nics
    <3>1. \A i \in DOMAIN chain: chain[i] \in Links
      BY <2>1
    <3> QED BY <3>1 DEF Links
  <2> QED BY <2>1, <2>2, <2>3 DEF TypeOK, Bits, Phases, Receiver
<1> QED BY <1>1, Invariance, PTL

(* What the driver has of an unfinished packet, with what the ring holds   *)
(* of it, is what le_rx() has copied, for rings, buffers and packets of    *)
(* every size.                                                             *)
THEOREM PartialPacketIsCopied == Spec => []PartialPacketMatches
<1>1. Inv => PartialPacketMatches
  <2> SUFFICES ASSUME Inv, phase # "built", ~late
               PROVE  InRing.part = Copied(d.rx_packet, d.rx_packet_offset)
    BY DEF PartialPacketMatches, Copied
  <2>1. RxRing(d.rx, d.rxp, gr, part, d.rx_packet, d.rx_packet_offset)
    BY DEF Inv, Receiving
  <2> QED BY <2>1, InRingIs DEF RxRing, Held
<1> QED BY <1>1, Invariance, PTL

(* Every cell the driver gives to le_tx() is on the wire, in the chip or   *)
(* in the ring, once and in the order in which it was given, however the   *)
(* packets are cut into buffers.                                           *)
THEOREM EveryCellInOrder == Spec => []TransmittedInOrder
<1>1. Inv => TransmittedInOrder
  <2> SUFFICES ASSUME Inv, phase # "built"
               PROVE  posted = Line(wire, Kept(d.tx_packet), Unsent)
    BY DEF TransmittedInOrder, Line, Kept
  <2>1. TxRing(d.tx, d.txp, gt, tosend, d.tx_packet, posted, wire)
    BY DEF Inv, Transmitting
  <2> QED BY <2>1, UnsentIs DEF TxRing
<1> QED BY <1>1, Invariance, PTL

(* A whole packet in the ring has the interrupt line asserted whenever the *)
(* driver waits for it: le_register_write() clears no bit that the driver  *)
(* has not seen.                                                           *)
THEOREM InterruptComes == Spec => []NoLostInterrupt
<1>1. Inv => NoLostInterrupt
  <2> SUFFICES ASSUME Inv, tick = "none", phase = "idle", ~late, InRing.whole # <<>>
               PROVE  d.irq_asserted
    BY DEF NoLostInterrupt
  <2>1. d.rx \in RxRings /\ gr \in 0..RLEN - 1 /\ part \in Seq(Cells)
    BY DeviceFields DEF Inv, Types
  <2>2. Held(d.rx, gr, part).whole # <<>>
    BY InRingIs DEF Held
  <2>3. ~NoneEnds(d.rx)
    BY <2>1, <2>2, HeldNoEnd DEF NoneEnds
  <2>4. "RINT" \in d.csr0
    BY <2>3 DEF Inv, Announced
  <2> QED BY <2>4 DEF Inv, Interrupts
<1> QED BY <1>1, Invariance, PTL

(* The interface is a channel of whole packets, in order and each at most  *)
(* once: every step of the chip, the ethernet and the driver is a step of  *)
(* PacketChannel or changes nothing there.                                 *)
THEOREM RefinesChannel == Spec => ImplementsChannel
<1>1. Init => Inv /\ Channel!Init
  BY InitInv, InitChannel
<1>2. Inv /\ [Next]_vars => Inv' /\ [Channel!Next]_(Channel!chan)
  BY NextStep
<1> QED BY <1>1, <1>2, PTL DEF Spec, ImplementsChannel, Channel!Spec
=============================================================================
