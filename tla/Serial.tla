------------------------------- MODULE Serial -------------------------------
(***************************************************************************)
(* A serial port (dev_ns16550.c) with its console and IDE controllers on   *)
(* the ISA bus, and a guest that handles their interrupts.  The loopback   *)
(* mode and the divisor of the port are left out.                          *)
(*                                                                         *)
(* External: the guest asks the 8259s for the line, and then either masks  *)
(* the line, acknowledges it, handles the device and unmasks the line, or  *)
(* handles the device first and then acknowledges the line.  It reads at   *)
(* most one character for every interrupt.                                 *)
(***************************************************************************)
EXTENDS Isa, Console

CONSTANTS
    Disks,      \* the lines of the IDE controllers
    MaxTyped,   \* bound on the characters that are typed
    MaxDone     \* bound on the commands that the controllers finish

ASSUME SerialAssumption == Disks \subseteq 8..15 /\ MaxTyped \in Nat /\ MaxDone \in Nat

VARIABLES
    isa,        \* the interrupt controllers
    uart,       \* the serial port
    con,        \* its console: what waits at the terminal, and the fifo
    wdc,        \* the controllers with int_assert
    done,       \* how many commands the controllers have finished
    guest,      \* what the guest has still to do, and for which line
    typed,      \* how many characters were typed
    got         \* what the guest has read

vars == <<isa, uart, con, wdc, done, guest, typed, got>>

UartLine == 4

Init ==
    /\ isa = NoInterrupts
    /\ uart = [ier |-> {}, ienable |-> FALSE, tx |-> FALSE, int_asserted |-> FALSE]
    /\ con = [stdin |-> <<>>, fifo |-> <<>>]
    /\ wdc = {} /\ done = 0 /\ typed = 0 /\ got = <<>>
    /\ guest = [line |-> UartLine, steps |-> <<"mcr", "ier">>]

-----------------------------------------------------------------------------
(* The devices.                                                            *)

(* A bug to be caught: the port interrupts only when its state changes.    *)
AssertedOnce(u) == IF u.int_asserted THEN isa ELSE isa_interrupt_assert(isa, UartLine)

(* The port asserts its interrupt with every tick.                         *)
Asserted(u) == isa_interrupt_assert(isa, UartLine)

(* dev_ns16550_tick(), for a port u and a console c.                       *)
dev_ns16550_tick(u, c) ==
    /\ con' = console_charavail(c)
    /\ LET want == ("tx" \in u.ier /\ u.tx) \/ ("rx" \in u.ier /\ con'.fifo # <<>>)
       IN  \/ /\ want /\ u.ienable
              /\ isa' = Asserted(u)
              /\ uart' = [u EXCEPT !.int_asserted = TRUE]
           \/ want /\ ~u.ienable /\ isa' = isa /\ uart' = u
           \/ /\ ~want /\ uart' = [u EXCEPT !.int_asserted = FALSE]
              /\ isa' = IF u.int_asserted THEN isa_interrupt_deassert(isa, UartLine) ELSE isa

UartTick == dev_ns16550_tick(uart, con) /\ UNCHANGED <<wdc, done, guest, typed, got>>

(* dev_wdc_tick()                                                          *)
DiskTick(l) ==
    /\ l \in wdc /\ isa' = isa_interrupt_assert(isa, l)
    /\ UNCHANGED <<uart, con, wdc, done, guest, typed, got>>

(* A controller has finished a command: see the module Wdc.                *)
DiskDone(l) ==
    /\ done < MaxDone /\ done' = done + 1
    /\ wdc' = wdc \cup {l} /\ isa' = isa_interrupt_assert(isa, l)
    /\ UNCHANGED <<uart, con, guest, typed, got>>

(* The user types a character.                                             *)
Type ==
    /\ typed < MaxTyped /\ typed' = typed + 1
    /\ con' = [con EXCEPT !.stdin = Append(@, typed')]
    /\ UNCHANGED <<isa, uart, wdc, done, guest, got>>

-----------------------------------------------------------------------------
(* The guest.                                                              *)

Eoi(l)   == IF l < 8 THEN <<"eoi1">> ELSE <<"eoi2", "eoi1">>
Serve(l) == IF l = UartLine THEN <<"iir", "data">> ELSE <<"status">>

Plans(l) == {<<"mask">> \o Eoi(l) \o Serve(l) \o <<"unmask">>, Serve(l) \o Eoi(l)}

Handle(l) == \E steps \in Plans(l): guest' = [line |-> l, steps |-> steps]

Does(step) == guest.steps # <<>> /\ Head(guest.steps) = step

Done == guest' = [guest EXCEPT !.steps = Tail(@)]

(* The guest asks the first controller, and the second one if need be.     *)
Interrupt ==
    /\ guest.steps = <<>> /\ isa.cpu
    /\ LET x == Poll(isa.irr1)
       IN  IF x = 2 THEN guest' = [guest EXCEPT !.steps = <<"poll2">>] ELSE Handle(x)
    /\ UNCHANGED <<isa, uart, con, wdc, done, typed, got>>

Interrupt2 ==
    /\ Does("poll2")
    /\ IF isa.irr2 = {} THEN Done ELSE Handle(Poll(isa.irr2) + 8)
    /\ UNCHANGED <<isa, uart, con, wdc, done, typed, got>>

SetMask(masked) ==
    LET bit == guest.line % 8
        Change(ier) == IF masked THEN ier \cup {bit} ELSE ier \ {bit}
    IN  isa' = IF guest.line < 8 THEN WriteMask1(isa, Change(isa.ier1))
                                 ELSE WriteMask2(isa, Change(isa.ier2))

Controllers ==
    /\ \/ Does("mask") /\ SetMask(TRUE)
       \/ Does("unmask") /\ SetMask(FALSE)
       \/ Does("eoi2") /\ isa' = SpecificEoi2(isa, guest.line - 8)
       \/ Does("eoi1") /\ isa' = SpecificEoi1(isa, IF guest.line < 8 THEN guest.line ELSE 2)
    /\ Done /\ UNCHANGED <<uart, con, wdc, done, typed, got>>

(* Writing the modem control register and the interrupt enable register,   *)
(* and reading the interrupt identification register.                      *)
WriteMcr == Does("mcr") /\ dev_ns16550_tick([uart EXCEPT !.ienable = TRUE, !.tx = TRUE], con)

WriteIer ==
    /\ Does("ier")
    /\ \E ier \in {{"rx"}, {"rx", "tx"}}:
           dev_ns16550_tick([uart EXCEPT !.ier = ier, !.tx = @ \/ "tx" \in ier], con)

ReadIir == Does("iir") /\ dev_ns16550_tick([uart EXCEPT !.tx = FALSE], con)

Port ==
    /\ WriteMcr \/ WriteIer \/ ReadIir
    /\ Done /\ UNCHANGED <<wdc, done, typed, got>>

(* Sending a character.                                                    *)
Send ==
    /\ guest.steps = <<>> /\ dev_ns16550_tick([uart EXCEPT !.tx = TRUE], con)
    /\ UNCHANGED <<wdc, done, guest, typed, got>>

(* Reading the line status and, if there is one, a character.              *)
ReadData ==
    /\ Does("data") /\ Done /\ UNCHANGED <<wdc, done, typed>>
    /\ \E p \in {console_charavail(con)}:
         \/ p.fifo = <<>> /\ con' = p /\ UNCHANGED <<isa, uart, got>>
         \/ /\ p.fifo # <<>> /\ got' = Append(got, Head(p.fifo))
            /\ dev_ns16550_tick(uart, console_readchar(p))

(* Reading the status of an IDE controller.                                *)
ReadStatus ==
    /\ Does("status") /\ Done
    /\ wdc' = wdc \ {guest.line} /\ isa' = isa_interrupt_deassert(isa, guest.line)
    /\ UNCHANGED <<uart, con, done, typed, got>>

GuestStep == Interrupt \/ Interrupt2 \/ Controllers \/ Port \/ ReadData \/ ReadStatus

Next == UartTick \/ (\E l \in Disks: DiskTick(l) \/ DiskDone(l)) \/ Type \/ Send \/ GuestStep

Spec == Init /\ [][Next]_vars

(* The machine calls its tick functions again and again, and the guest     *)
(* goes on.                                                                *)
FairSpec ==
    /\ Spec /\ WF_vars(UartTick) /\ \A l \in Disks: WF_vars(DiskTick(l))
    /\ WF_vars(GuestStep)

-----------------------------------------------------------------------------
(* Properties.                                                             *)

(* The line to the processor is raised by three pieces of code and dropped *)
(* by three; it is up exactly when an unmasked interrupt is pending.       *)
LineIsPending == isa.cpu <=> Pending1(isa) # {}

(* What the user types is what the guest reads, in order, though a chunk   *)
(* may come when the ring is almost full.                                  *)
NothingTypedIsLost ==
    got \o con.fifo \o con.stdin = [n \in 1..typed |-> n]

(* Everything that was typed is read some day, although an interrupt may   *)
(* come while its line is masked and an acknowledgement may remove one     *)
(* that the guest has not seen yet.                                        *)
EverythingTypedIsRead == typed > Len(got) ~> typed = Len(got)

(* The same for the interrupts of the IDE controllers, which share bit 2   *)
(* of the first 8259.                                                      *)
DisksServed == \A l \in Disks: l \in wdc ~> l \notin wdc

(* "A quicker way to figure out which ISA interrupt has occurred": when    *)
(* the guest is interrupted, the number that footbridge_isa, gt and prep   *)
(* read from last_int is that of an interrupt that is pending.             *)
LastIntPending ==
    guest.steps = <<>> /\ isa.cpu => isa.last_int \in PendingLines(isa)
=============================================================================
