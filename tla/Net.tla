-------------------------------- MODULE Net ---------------------------------
(***************************************************************************)
(* The emulated ethernet (net.c): one chain of packets for all network     *)
(* interfaces.  A packet is a sequence of cells; the first cell carries    *)
(* the ethernet header.  The operators take the chain and return the new   *)
(* chain.  Packets are long enough to have a header, and none is IP for    *)
(* the gateway: see the module Nat.                                        *)
(***************************************************************************)
EXTENDS Naturals, Sequences, SequencesExt

CONSTANT nic_data       \* the interfaces of the network, in order

Nics == Range(nic_data)

ASSUME NetAssumption == nic_data \in Seq(Nics)

Headers == {"unicast", "arp"}

Cells == [from: Nics \cup {"gateway"}, n: Nat, header: Headers, k: Nat]

(* The cells of the n-th packet made by a sender.                          *)
Packet(from, n, header, len) ==
    [k \in 1..len |-> [from |-> from, n |-> n, header |-> header, k |-> k]]

(* A link goes last into the chain.                                        *)
net_allocate_ethernet_packet_link(chain, nic, data) ==
    Append(chain, [nic |-> nic, data |-> data])

(* The packets that wait for one interface, in the order of the chain.     *)
Waiting(chain, nic) ==
    LET found[i \in 0..Len(chain)] ==
            IF i = 0 THEN <<>>
            ELSE IF chain[i].nic = nic THEN Append(found[i - 1], chain[i].data)
            ELSE found[i - 1]
    IN  found[Len(chain)]

net_ethernet_rx_avail(chain, nic) == \E lp \in Range(chain): lp.nic = nic

(* A bug to be caught: the chain is taken from its end.                    *)
LastLink(chain, nic) == SelectLastInSeq(chain, LAMBDA lp: lp.nic = nic)

(* The first link of an interface.                                         *)
FirstLink(chain, nic) == SelectInSeq(chain, LAMBDA lp: lp.nic = nic)

(* The packet handed over, and the chain without its link.                 *)
net_ethernet_rx(chain, nic) ==
    [data  |-> chain[FirstLink(chain, nic)].data,
     chain |-> RemoveAt(chain, FirstLink(chain, nic))]

(* The gateway answers a request for its own address to the sender.        *)
net_arp(chain, nic, data) ==
    net_allocate_ethernet_packet_link(chain, nic,
                                      Packet("gateway", Head(data).n, "arp", 1))

(* Every other interface gets a copy of what is not for the gateway.       *)
CopyToOthers(chain, nic, data) ==
    LET copied[i \in 0..Len(nic_data)] ==
            IF i = 0 THEN chain
            ELSE IF nic_data[i] = nic THEN copied[i - 1]
            ELSE net_allocate_ethernet_packet_link(copied[i - 1], nic_data[i], data)
    IN  copied[Len(nic_data)]

(* A packet for another interface, or a request for the gateway's address. *)
net_ethernet_tx(chain, nic, data) ==
    LET copied == CopyToOthers(chain, nic, data)
    IN  IF Head(data).header = "arp" THEN net_arp(copied, nic, data) ELSE copied
=============================================================================
