------------------------------- MODULE Lance --------------------------------
(***************************************************************************)
(* The LANCE ethernet controller (dev_le.c) between the emulated ethernet  *)
(* and a driver in the guest.  The rings of descriptors lie in the SRAM    *)
(* that the chip and the driver share; the OWN bit of a descriptor says    *)
(* whose it is.  The chip works only in its tick function, which runs      *)
(* after some number of cycles and at the end of every register access.    *)
(* A tick is several steps here; the driver does nothing during a tick.    *)
(*                                                                         *)
(* The driver is external: it builds the rings, gives INIT and STRT, sends *)
(* packets in one or more buffers, and answers an interrupt by reading     *)
(* CSR0, writing back what it read, and emptying the receive ring.         *)
(*                                                                         *)
(* Nothing sets BABL, CERR, MISS or MERR, and TDMD has no effect.  The     *)
(* driver is obliged to set the '1111' mark in its descriptors and to give *)
(* buffers of 12 to 1900 octets: le_rx() and le_tx() stop at a descriptor  *)
(* without them, which is left out.                                        *)
(***************************************************************************)
EXTENDS Net

CONSTANTS
    Le,             \* this interface
    RLEN, TLEN,     \* the number of receive and transmit descriptors
    BufLen,         \* the size of a receive buffer, in cells
    Lens,           \* the lengths of packets, in cells
    Modes,          \* the modes the driver may ask for
    MaxSent,        \* bound on the packets the driver sends
    MaxArrived,     \* bound on the packets other interfaces send
    MaxRestarts,    \* bound on the times the driver stops the chip
    NULL

ASSUME LanceAssumption ==
    /\ Le \in Nics
    /\ RLEN \in Nat \ {0} /\ TLEN \in Nat \ {0} /\ BufLen \in Nat \ {0}
    /\ Lens \subseteq Nat \ {0}
    /\ Modes \subseteq SUBSET {"DTX", "DRX"}
    /\ NULL \notin Seq(Cells)
    /\ MaxSent \in Nat /\ MaxArrived \in Nat /\ MaxRestarts \in Nat

VARIABLES
    d,              \* struct le_data, with the rings in its SRAM
    tick,           \* how far the tick function has come
    chain,          \* the packets of the ethernet
    (* The driver. *)
    phase, seen,    \* what it does, and the CSR0 it has read
    gr, gt,         \* its places in the rings
    tosend,         \* the rest of the packet it is sending
    part, got,      \* the packet it is reading, and those it has read
    (* For the bounds and the properties. *)
    counts,         \* packets sent and arrived, and restarts
    posted, wire,   \* cells given to the chip and cells transmitted
    late            \* packets entered the new rings before INIT

driverVars == <<phase, seen, gr, gt, tosend, part, got>>
vars == <<d, tick, chain, driverVars, counts, posted, wire, late>>

EmptyRx == [own |-> TRUE, stp |-> FALSE, enp |-> FALSE, cells |-> <<>>]
NoDescriptor == [own |-> FALSE, stp |-> FALSE, enp |-> FALSE, cells |-> <<>>]

-----------------------------------------------------------------------------
(* The registers.                                                          *)

(* A bug to be caught: the chip keeps the packet it is receiving.          *)
ChipInitKeepsPacket(dd) ==
    [dd EXCEPT !.csr0 = (@ \ {"INIT"}) \cup {"IDON", "TXON", "RXON"},
               !.rxp = 0, !.txp = 0, !.tx_packet = NULL]

(* le_chip_init(): the driver has left the mode in the SRAM.               *)
le_chip_init(dd) ==
    [dd EXCEPT
        !.csr0 = (@ \ {"INIT", "TXON", "RXON"}) \cup {"IDON"}
                   \cup (IF "DTX" \in dd.mode THEN {} ELSE {"TXON"})
                   \cup (IF "DRX" \in dd.mode THEN {} ELSE {"RXON"}),
        !.rxp = 0, !.txp = 0,
        !.tx_packet = NULL,
        !.rx_packet = NULL, !.rx_packet_offset = 0, !.rx_middle_bit = FALSE]

InterruptBits(csr0) == csr0 \cap {"RINT", "TINT", "IDON"}

(* The last lines of le_register_fix().                                    *)
SummaryBits(csr0) ==
    (csr0 \ ({"INTR"} \cup (IF "STOP" \in csr0 THEN {"IDON"} ELSE {})))
        \cup (IF InterruptBits(csr0) # {} THEN {"INTR"} ELSE {})

(* A bug to be caught: writing CSR0 clears every interrupt.                *)
ClearedByAll(x) == {"RINT", "TINT", "IDON"}

(* The bits of CSR0 that are cleared by writing a one.                     *)
ClearedBy(x) == x \cap {"RINT", "TINT", "IDON"}

(* le_register_write() of CSR0.                                            *)
le_register_write(csr0, x) ==
    LET kept    == (csr0 \ (ClearedBy(x) \cup {"INEA"})) \cup (x \cap {"INEA"})
        started == IF x \cap {"STRT", "INIT"} = {} THEN kept
                   ELSE (kept \ {"STOP"}) \cup (x \cap {"STRT", "INIT"})
    IN  IF "STOP" \in x THEN (started \ {"STRT", "INIT"}) \cup {"STOP"} ELSE started

(* A bug to be caught: the ring has no end.                                *)
NextPlaceUnbounded(place, len) == place + 1

(* The next descriptor of a ring.                                          *)
NextPlace(place, len) == IF place + 1 >= len THEN 0 ELSE place + 1

-----------------------------------------------------------------------------
Init ==
    /\ d = [csr0 |-> {"STOP"}, mode |-> {},
            rx |-> [i \in 0..RLEN - 1 |-> NoDescriptor],
            tx |-> [i \in 0..TLEN - 1 |-> NoDescriptor],
            rxp |-> 0, txp |-> 0, tx_packet |-> NULL, rx_packet |-> NULL,
            rx_packet_offset |-> 0, rx_middle_bit |-> FALSE, irq_asserted |-> FALSE]
    /\ tick = "none" /\ chain = <<>>
    /\ phase = "stopped" /\ seen = {} /\ gr = 0 /\ gt = 0
    /\ tosend = <<>> /\ part = <<>> /\ got = <<>>
    /\ counts = [sent |-> 0, arrived |-> 0, restarts |-> 0]
    /\ posted = <<>> /\ wire = <<>> /\ late = FALSE

(* The tick function begins, on the device as an access has left it.       *)
BeginTick(dd) ==
    /\ tick = "none" /\ tick' = "rx"
    /\ d' = IF "INIT" \in dd.csr0 THEN le_chip_init(dd) ELSE dd

(* A register is written, and a tick follows.                              *)
WriteCsr0(x) ==
    /\ BeginTick([d EXCEPT !.csr0 = le_register_write(@, x)])
    /\ UNCHANGED <<chain, wire, late>>

DeviceTick ==
    /\ BeginTick(d)
    /\ UNCHANGED <<chain, driverVars, counts, posted, wire, late>>

(* A bug to be caught: a packet has to fit into one buffer.                *)
RxBlockedUnlessFits ==
    \/ d.rx_packet = NULL
    \/ ~d.rx[d.rxp].own
    \/ d.rx_packet # NULL /\ Len(d.rx_packet) > BufLen

(* le_rx() can do no more.                                                 *)
RxBlocked == d.rx_packet = NULL \/ ~d.rx[d.rxp].own

(* The receiver's part of le_register_fix() takes the next packet.  There  *)
(* is no tap device, so le_rx_drop_packet() drops none.                    *)
CanTake == d.rx_packet = NULL /\ net_ethernet_rx_avail(chain, Le)

TakePacket ==
    /\ tick = "rx" /\ "RXON" \in d.csr0 /\ CanTake
    /\ LET taken == net_ethernet_rx(chain, Le)
       IN  chain' = taken.chain /\ d' = [d EXCEPT !.rx_packet = taken.data]
    /\ UNCHANGED <<tick, driverVars, counts, posted, wire, late>>

(* One descriptor filled by le_rx().  The middle bit is cleared at the end *)
(* of a packet before it is looked at.                                     *)
FillDescriptor ==
    LET left   == Len(d.rx_packet) - d.rx_packet_offset
        offset == d.rx_packet_offset + (IF left < BufLen THEN left ELSE BufLen)
        end    == offset >= Len(d.rx_packet)
    IN  [d EXCEPT
            !.rx[d.rxp] = [own   |-> FALSE,
                           stp   |-> @.stp \/ end \/ ~d.rx_middle_bit,
                           enp   |-> @.enp \/ end,
                           cells |-> SubSeq(d.rx_packet, d.rx_packet_offset + 1, offset)],
            !.rxp = NextPlace(@, RLEN),
            !.rx_packet = IF end THEN NULL ELSE @,
            !.rx_packet_offset = IF end THEN 0 ELSE offset,
            !.rx_middle_bit = ~end,
            !.csr0 = IF end THEN @ \cup {"RINT"} ELSE @]

le_rx ==
    /\ tick = "rx" /\ "RXON" \in d.csr0 /\ ~RxBlocked
    /\ d' = FillDescriptor
    /\ late' = (late \/ phase = "built")
    /\ UNCHANGED <<tick, chain, driverVars, counts, posted, wire>>

ReceiverDone ==
    /\ tick = "rx" /\ tick' = "tx"
    /\ "RXON" \in d.csr0 => RxBlocked /\ ~CanTake
    /\ UNCHANGED <<d, chain, driverVars, counts, posted, wire, late>>

(* le_tx() can do no more.                                                 *)
TxBlocked ==
    \/ ~d.tx[d.txp].own
    \/ d.tx_packet = NULL /\ ~d.tx[d.txp].stp

(* A bug to be caught: what earlier buffers held is forgotten.             *)
TxDataOneBuffer(descr) == descr.cells

(* The packet so far, with this buffer.                                    *)
TxData(descr) == (IF descr.stp THEN <<>> ELSE d.tx_packet) \o descr.cells

(* One descriptor emptied by le_tx().                                      *)
le_tx ==
    /\ tick = "tx" /\ "TXON" \in d.csr0 /\ ~TxBlocked
    /\ LET descr == d.tx[d.txp]
           data  == TxData(descr)
       IN  /\ d' = [d EXCEPT !.tx[d.txp].own = FALSE,
                             !.txp = NextPlace(@, TLEN),
                             !.tx_packet = IF descr.enp THEN NULL ELSE data,
                             !.csr0 = IF descr.enp THEN @ \cup {"TINT"} ELSE @]
           /\ chain' = IF descr.enp THEN net_ethernet_tx(chain, Le, data) ELSE chain
           /\ wire' = IF descr.enp THEN wire \o data ELSE wire
    /\ UNCHANGED <<tick, driverVars, counts, posted, late>>

(* The end of the tick function sets the interrupt line.                   *)
TransmitterDone ==
    /\ tick = "tx" /\ tick' = "none"
    /\ "TXON" \in d.csr0 => TxBlocked
    /\ LET csr0 == SummaryBits(d.csr0)
       IN  d' = [d EXCEPT !.csr0 = csr0, !.irq_asserted = {"INTR", "INEA"} \subseteq csr0]
    /\ UNCHANGED <<chain, driverVars, counts, posted, wire, late>>

(* Another interface sends a packet, or takes one of its own.              *)
Arrive(nic, len) ==
    /\ tick = "none" /\ nic # Le /\ counts.arrived < MaxArrived
    /\ counts' = [counts EXCEPT !.arrived = @ + 1]
    /\ chain' = net_ethernet_tx(chain, nic, Packet(nic, counts.arrived + 1, "unicast", len))
    /\ UNCHANGED <<d, tick, driverVars, posted, wire, late>>

OtherReceives(nic) ==
    /\ tick = "none" /\ nic # Le /\ net_ethernet_rx_avail(chain, nic)
    /\ chain' = net_ethernet_rx(chain, nic).chain
    /\ UNCHANGED <<d, tick, driverVars, counts, posted, wire, late>>

-----------------------------------------------------------------------------
(* The driver.                                                             *)

(* It gives up what it was doing and builds new rings, in memory only.     *)
Build(mode) ==
    /\ tick = "none" /\ phase = "stopped" /\ phase' = "built"
    /\ d' = [d EXCEPT !.mode = mode,
                      !.rx = [i \in 0..RLEN - 1 |-> EmptyRx],
                      !.tx = [i \in 0..TLEN - 1 |-> NoDescriptor]]
    /\ gr' = 0 /\ gt' = 0 /\ tosend' = <<>> /\ part' = <<>>
    /\ posted' = <<>> /\ wire' = <<>> /\ late' = FALSE
    /\ UNCHANGED <<tick, chain, seen, got, counts>>

GiveInit ==
    /\ phase = "built" /\ phase' = "initialised"
    /\ WriteCsr0({"INIT"})
    /\ UNCHANGED <<seen, gr, gt, tosend, part, got, counts, posted>>

Start ==
    /\ phase = "initialised" /\ phase' = "idle"
    /\ WriteCsr0({"STRT", "INEA"})
    /\ UNCHANGED <<seen, gr, gt, tosend, part, got, counts, posted>>

(* The value read is the one before the tick that follows.                 *)
ReadCsr0 ==
    /\ phase = "idle" /\ d.irq_asserted /\ phase' = "seen"
    /\ seen' = d.csr0
    /\ BeginTick(d)
    /\ UNCHANGED <<chain, wire, late, gr, gt, tosend, part, got, counts, posted>>

Acknowledge ==
    /\ phase = "seen"
    /\ phase' = IF "RINT" \in seen THEN "drain" ELSE "idle"
    /\ WriteCsr0(seen \cap {"RINT", "TINT", "IDON", "INEA"})
    /\ UNCHANGED <<seen, gr, gt, tosend, part, got, counts, posted>>

(* A buffer is read and given back.                                        *)
ReadDescriptor ==
    /\ tick = "none" /\ phase = "drain" /\ ~d.rx[gr].own
    /\ LET whole == part \o d.rx[gr].cells
       IN  IF d.rx[gr].enp THEN got' = Append(got, whole) /\ part' = <<>>
           ELSE part' = whole /\ got' = got
    /\ d' = [d EXCEPT !.rx[gr] = EmptyRx]
    /\ gr' = (gr + 1) % RLEN
    /\ UNCHANGED <<tick, chain, phase, seen, gt, tosend, counts, posted, wire, late>>

Drained ==
    /\ tick = "none" /\ phase = "drain" /\ d.rx[gr].own /\ phase' = "idle"
    /\ UNCHANGED <<d, tick, chain, seen, gr, gt, tosend, part, got, counts, posted, wire, late>>

(* The next buffer of a packet, or the first one of a new packet.          *)
Post(cells, k) ==
    /\ tick = "none" /\ phase = "idle" /\ ~d.tx[gt].own /\ k \in 1..Len(cells)
    /\ d' = [d EXCEPT !.tx[gt] = [own |-> TRUE, stp |-> tosend = <<>>,
                                  enp |-> k = Len(cells), cells |-> SubSeq(cells, 1, k)]]
    /\ gt' = (gt + 1) % TLEN
    /\ tosend' = SubSeq(cells, k + 1, Len(cells))
    /\ posted' = posted \o SubSeq(cells, 1, k)
    /\ UNCHANGED <<tick, chain, phase, seen, gr, part, got, wire, late>>

PostFirst(header, len, k) ==
    /\ tosend = <<>> /\ counts.sent < MaxSent
    /\ counts' = [counts EXCEPT !.sent = @ + 1]
    /\ Post(Packet(Le, counts.sent + 1, header, len), k)

PostNext(k) == tosend # <<>> /\ Post(tosend, k) /\ counts' = counts

Stop ==
    /\ phase \in {"idle", "seen", "drain"} /\ counts.restarts < MaxRestarts
    /\ phase' = "stopped"
    /\ counts' = [counts EXCEPT !.restarts = @ + 1]
    /\ WriteCsr0({"STOP"})
    /\ UNCHANGED <<seen, gr, gt, tosend, part, got, posted>>

ChipStep == TakePacket \/ le_rx \/ ReceiverDone \/ le_tx \/ TransmitterDone

(* What the driver does until it waits for an interrupt.                   *)
DriverStep ==
    \/ \E mode \in Modes: Build(mode)
    \/ GiveInit \/ Start \/ ReadCsr0 \/ Acknowledge \/ ReadDescriptor \/ Drained

Next ==
    \/ DeviceTick
    \/ ChipStep
    \/ DriverStep
    \/ \E nic \in Nics, len \in Lens: Arrive(nic, len)
    \/ \E nic \in Nics: OtherReceives(nic)
    \/ \E header \in Headers, len \in Lens: \E k \in 1..len: PostFirst(header, len, k)
    \/ \E k \in 1..Len(tosend): PostNext(k)
    \/ Stop

Spec == Init /\ [][Next]_vars

(* A tick that has begun comes to its end, another one follows some time   *)
(* later, and the guest runs between two ticks.                            *)
FairSpec ==
    /\ Spec
    /\ WF_vars(ChipStep)
    /\ WF_vars(DeviceTick)
    /\ SF_vars(DriverStep)

-----------------------------------------------------------------------------
(* Properties.                                                             *)

(* A ring of n descriptors from one place on.                              *)
From(ring, n, place) == [i \in 1..n |-> ring[(place + i - 1) % n]]

(* The buffers of the receive ring that wait to be read: the rest of the   *)
(* packet being read, whole packets, and the beginning of one.             *)
ReadOn(held, r) ==
    IF r.own THEN held
    ELSE IF r.enp THEN [part  |-> <<>>,
                        whole |-> held.whole \o <<held.part \o r.cells>>]
    ELSE [part |-> held.part \o r.cells, whole |-> held.whole]

InRing ==
    LET held[i \in 0..RLEN] ==
            IF i = 0 THEN [part |-> part, whole |-> <<>>]
            ELSE ReadOn(held[i - 1], From(d.rx, RLEN, gr)[i])
    IN  held[RLEN]

(* The cells of the transmit ring that wait for the chip.                  *)
Unsent ==
    LET ring == From(d.tx, TLEN, d.txp)
    IN  FlattenSeq([i \in 1..TLEN |-> IF ring[i].own THEN ring[i].cells ELSE <<>>])

(* The packets on their way: in the ring, in the chip and in the chain.    *)
Pending ==
    InRing.whole \o (IF d.rx_packet = NULL THEN <<>> ELSE <<d.rx_packet>>)
        \o Waiting(chain, Le)

Channel == INSTANCE PacketChannel WITH pending <- Pending, got <- got, broken <- late

(* Type invariant of the device, the driver and the histories.             *)
TypeOK ==
    /\ d.csr0 \subseteq {"INIT", "STRT", "STOP", "TXON", "RXON", "INEA", "INTR",
                          "IDON", "TINT", "RINT"}
    /\ d.mode \in Modes \cup {{}}
    /\ d.rxp \in 0..RLEN - 1 /\ d.txp \in 0..TLEN - 1
    /\ gr \in 0..RLEN - 1 /\ gt \in 0..TLEN - 1
    /\ \A i \in 0..RLEN - 1: Len(d.rx[i].cells) <= BufLen
    /\ d.rx_packet # NULL => d.rx_packet_offset \in 0..Len(d.rx_packet) - 1
    /\ d.rx_packet = NULL => d.rx_packet_offset = 0 /\ ~d.rx_middle_bit
    /\ phase \in {"stopped", "built", "initialised", "idle", "seen", "drain"}
    /\ \A i \in DOMAIN chain: chain[i].nic \in Nics

(* What le_rx, le_tx and the chain of packets do together implements a     *)
(* channel that delivers whole packets in order, for as long as the chip   *)
(* has not received into new rings after STOP.                             *)
ImplementsChannel == Channel!Spec

(* What the driver has of an unfinished packet, with what the ring holds   *)
(* of it, is what le_rx has copied.                                        *)
PartialPacketMatches ==
    phase # "built" /\ ~late =>
        InRing.part = IF d.rx_packet = NULL THEN <<>>
                      ELSE SubSeq(d.rx_packet, 1, d.rx_packet_offset)

(* Every cell given to le_tx is transmitted once and in order, however the *)
(* packet was cut into buffers and whenever the ticks come.                *)
TransmittedInOrder ==
    phase # "built" =>
        posted = wire \o (IF d.tx_packet = NULL THEN <<>> ELSE d.tx_packet) \o Unsent

(* A driver that waits for an interrupt gets one when a whole packet is in *)
(* the ring: reading and writing back CSR0 loses no interrupt, wherever    *)
(* the ticks fall.                                                         *)
NoLostInterrupt ==
    tick = "none" /\ phase = "idle" /\ ~late /\ InRing.whole # <<>> => d.irq_asserted

(* Every packet is read by the driver in the end, unless the receiver is   *)
(* off or the rings were disturbed after STOP.                             *)
Delivered == Pending # <<>> ~> (Pending = <<>> \/ late \/ "RXON" \notin d.csr0)
=============================================================================
