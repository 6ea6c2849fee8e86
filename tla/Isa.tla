-------------------------------- MODULE Isa ---------------------------------
(***************************************************************************)
(* The interrupts of the ISA bus (bus_isa.c) and its two 8259 controllers  *)
(* (dev_8259.c).  The operators take the state of both controllers and     *)
(* return the new one: irr and ier are the sets of bits that are 1,        *)
(* cpu is the line to the processor, last_int what the processor reads as  *)
(* the number of the interrupt.  isr is always 0, so the end of interrupt  *)
(* without a number changes nothing and is left out.                       *)
(***************************************************************************)
EXTENDS Naturals, FiniteSets, FiniteSetsExt

NoInterrupts ==
    [irr1 |-> {}, ier1 |-> {}, irr2 |-> {}, ier2 |-> {}, cpu |-> FALSE, last_int |-> 0]

(* irr & ~ier, for each of the controllers.                                *)
Pending1(s) == s.irr1 \ s.ier1
Pending2(s) == s.irr2 \ s.ier2

(* The lines that are pending, bit 2 of the first controller aside.        *)
PendingLines(s) == (Pending1(s) \ {2}) \cup {x + 8: x \in Pending2(s)}

(* Anything pending on the second controller is bit 2 of the first.        *)
Cascade(s) ==
    [s EXCEPT !.irr1 = IF Pending2(s) # {} THEN @ \cup {2} ELSE @ \ {2}]

(* A bug to be caught: the line is raised but never taken back.            *)
CommonRaises(s, old) ==
    LET t == Cascade(s)
    IN  IF Pending1(t) \in {old, {}} THEN t
        ELSE [t EXCEPT !.cpu = TRUE, !.last_int = Min(PendingLines(t) \cup {16})]

isa_interrupt_common(s, old) ==
    LET t == Cascade(s)
    IN  CASE Pending1(t) = old -> t
          [] Pending1(t) # old /\ Pending1(t) = {} -> [t EXCEPT !.cpu = FALSE]
          [] OTHER -> [t EXCEPT !.cpu = TRUE,
                                !.last_int = Min(PendingLines(t) \cup {16})]

(* irr of the controller of the line, with the line's bit.                 *)
Requested(s, line) ==
    IF line < 8 THEN [s EXCEPT !.irr1 = @ \cup {line}]
                ELSE [s EXCEPT !.irr2 = @ \cup {line - 8}]

(* A bug to be caught: a line that is already requested is left alone.     *)
AssertIfNew(s, line) ==
    IF Requested(s, line) = s THEN s ELSE isa_interrupt_common(Requested(s, line), Pending1(s))

isa_interrupt_assert(s, line) == isa_interrupt_common(Requested(s, line), Pending1(s))

(* pending_timer_interrupts was still NULL when bus_isa_init() copied it,  *)
(* so that nothing is done about line 0.                                   *)
isa_interrupt_deassert(s, line) ==
    isa_interrupt_common(
        IF line < 8 THEN [s EXCEPT !.irr1 = @ \ {line}]
                    ELSE [s EXCEPT !.irr2 = @ \ {line - 8}],
        Pending1(s))

(* The recalculation after irr or ier of a controller was written.  The    *)
(* first controller is connected to the processor, the second to line 2.   *)
Recalculate1(s, t) ==
    IF Pending1(s) = Pending1(t) THEN t ELSE [t EXCEPT !.cpu = Pending1(t) # {}]

Recalculate2(s, t) ==
    CASE Pending2(s) = Pending2(t) -> t
      [] Pending2(s) # Pending2(t) /\ Pending2(t) # {} -> isa_interrupt_assert(t, 2)
      [] OTHER -> isa_interrupt_deassert(t, 2)

(* The end of one interrupt.                                               *)
SpecificEoi1(s, bit) == Recalculate1(s, [s EXCEPT !.irr1 = @ \ {bit}])
SpecificEoi2(s, bit) == Recalculate2(s, [s EXCEPT !.irr2 = @ \ {bit}])

WriteMask1(s, mask) == Recalculate1(s, [s EXCEPT !.ier1 = mask])
WriteMask2(s, mask) == Recalculate2(s, [s EXCEPT !.ier2 = mask])

(* Reading a controller after command 0x0c: the first bit of irr, masked   *)
(* or not; 8 when there is none.                                           *)
Poll(irr) == Min(irr \cup {8})
=============================================================================
