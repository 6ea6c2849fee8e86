-------------------------------- MODULE Rtc ---------------------------------
(***************************************************************************)
(* Real-time clocks (dev_rtc.c) on top of the virtual timers.  The guest   *)
(* sets the frequency of a clock and acknowledges its interrupts; the      *)
(* signal handler counts interrupts; the tick function of the device,      *)
(* called after a fixed number of instructions, raises the interrupt.      *)
(*                                                                         *)
(* What the emulator does for the guest or the debugger is a sequence of   *)
(* steps that the signal may interrupt.  A read and a write of a variable  *)
(* that the handler changes too are steps of their own.                    *)
(***************************************************************************)
EXTENDS Timer

CONSTANTS
    MaxPending,     \* bound on the number of interrupts that are counted
    MaxBurst        \* bound on the number of signals during one operation

ASSUME RtcAssumption == MaxPending \in Nat /\ MaxBurst \in Nat

(* Every timer belongs to a clock.                                         *)
Rtcs == Owners

VARIABLES
    hz,
    timer,                  \* the clock's timer, or NULL
    pending_interrupts,
    irq,                    \* whether the interrupt line is asserted
    op                      \* what the emulator is doing

rtcVars == <<hz, timer, pending_interrupts, irq>>
vars == <<listVars, timers, signalVars, countdown, rtcVars, op>>

StepNames == {"new", "link", "publish", "unlink", "free", "forget", "frequency",
              "read", "store", "load", "decrement", "deassert",
              "install", "arm", "disarm", "default"}

Idle == [steps |-> <<>>, rtc |-> NULL, node |-> NULL, reg |-> 0, signals |-> 0]

Begin(steps, d, n) ==
    /\ op = Idle
    /\ op' = IF steps = <<>> THEN Idle
             ELSE [Idle EXCEPT !.steps = steps, !.rtc = d, !.node = n]

(* The next step of the operation in progress, and what the operation      *)
(* remembers from it: the timer at hand and the value of a register.       *)
Do(step, n, reg) ==
    /\ op.steps # <<>> /\ Head(op.steps) = step
    /\ op' = IF Len(op.steps) = 1 THEN Idle
             ELSE [op EXCEPT !.steps = Tail(@), !.node = n, !.reg = reg]

-----------------------------------------------------------------------------
(* What the guest does.                                                    *)

AddSteps == <<"new", "link", "publish">>

(* A bug to be caught: interrupts are forgotten while the timer still runs. *)
RemoveStepsForgetFirst == <<"forget", "unlink", "free">>

RemoveSteps == <<"unlink", "free", "forget">>

(* A bug to be caught: the interval starts again when the frequency is     *)
(* written anew.                                                           *)
UpdateAlways(n, freq) == <<"frequency", "read", "store">>

(* timer_update_frequency() returns early when nothing changes.            *)
UpdateSteps(n, freq) ==
    IF timers[n].freq = freq THEN <<>> ELSE <<"frequency", "read", "store">>

(* Writing DEV_RTC_HZ.                                                     *)
WriteHz(d, h) ==
    /\ hz' = [hz EXCEPT ![d] = h]
    /\ Begin(IF h = 0
             THEN IF timer[d] = NULL THEN <<"forget">> ELSE RemoveSteps
             ELSE IF timer[d] = NULL THEN AddSteps ELSE UpdateSteps(timer[d], h),
             d, timer[d])
    /\ UNCHANGED <<listVars, timers, signalVars, countdown, timer,
                   pending_interrupts, irq>>

(* Reading or writing DEV_RTC_INTERRUPT_ACK.                               *)
Acknowledge(d) ==
    /\ Begin(<<"load", "decrement", "deassert">>, d, NULL)
    /\ UNCHANGED <<listVars, timers, signalVars, countdown, rtcVars>>

(* timer_add() and timer_remove(), called for clock op.rtc.                *)
AddTimer ==
    /\ \/ \E n \in Nodes : Do("new", n, 0) /\ NewTimer(n, hz[op.rtc], op.rtc)
       \/ Do("link", op.node, 0) /\ LinkTimer(op.node)
    /\ UNCHANGED <<signalVars, countdown, rtcVars>>

PublishAndKeep ==
    /\ Do("publish", op.node, 0)
    /\ PublishTimer(op.node)
    /\ timer' = [timer EXCEPT ![op.rtc] = op.node]
    /\ UNCHANGED <<signalVars, countdown, hz, pending_interrupts, irq>>

RemoveTimer ==
    /\ \/ Do("unlink", op.node, 0) /\ UnlinkTimer(op.node)
       \/ Do("free", op.node, 0) /\ FreeTimer(op.node)
    /\ UNCHANGED <<signalVars, countdown, rtcVars>>

Forget ==
    /\ Do("forget", op.node, 0)
    /\ timer' = [timer EXCEPT ![op.rtc] = NULL]
    /\ pending_interrupts' = [pending_interrupts EXCEPT ![op.rtc] = 0]
    /\ UNCHANGED <<listVars, timers, signalVars, countdown, hz, irq>>

(* timer_update_frequency().  timer_current_time + interval is computed in *)
(* a register, and stored in next_tick_at.                                 *)
UpdateTimer ==
    /\ \/ Do("frequency", op.node, 0) /\ SetFrequency(op.node, hz[op.rtc])
       \/ /\ Do("read", op.node, Interval(timers[op.node].freq))
          /\ UNCHANGED <<listVars, timers>>
       \/ Do("store", op.node, 0) /\ SetNextTick(op.node, op.reg)
    /\ UNCHANGED <<signalVars, countdown, rtcVars>>

(* if (d->pending_interrupts > 0) d->pending_interrupts --, in a register. *)
LoadPending ==
    /\ Do("load", NULL, pending_interrupts[op.rtc])
    /\ UNCHANGED <<listVars, timers, signalVars, countdown, rtcVars>>

(* A bug to be caught: the count is not tested.                            *)
DecrementAlways ==
    /\ Do("decrement", NULL, 0)
    /\ pending_interrupts' = [pending_interrupts EXCEPT ![op.rtc] = op.reg - 1]
    /\ UNCHANGED <<listVars, timers, signalVars, countdown, hz, timer, irq>>

DecrementPending ==
    /\ Do("decrement", NULL, 0)
    /\ IF op.reg > 0
       THEN pending_interrupts' = [pending_interrupts EXCEPT ![op.rtc] = op.reg - 1]
       ELSE UNCHANGED pending_interrupts
    /\ UNCHANGED <<listVars, timers, signalVars, countdown, hz, timer, irq>>

Deassert ==
    /\ Do("deassert", NULL, 0)
    /\ irq' = [irq EXCEPT ![op.rtc] = FALSE]
    /\ UNCHANGED <<listVars, timers, signalVars, countdown, hz, timer,
                   pending_interrupts>>

(* The tick function of the device.                                        *)
DeviceTick(d) ==
    /\ op = Idle
    /\ irq' = [irq EXCEPT ![d] = pending_interrupts[d] > 0]
    /\ UNCHANGED <<listVars, timers, signalVars, countdown, hz, timer,
                   pending_interrupts, op>>

-----------------------------------------------------------------------------
(* What the debugger and the main loop do.                                 *)

(* timer_start()                                                           *)
TimerStart ==
    /\ ~timer_is_running
    /\ timer_is_running' = TRUE
    /\ ResetTimers
    /\ Begin(<<"install", "arm">>, NULL, NULL)
    /\ UNCHANGED <<listVars, armed, handled, countdown, rtcVars>>

(* A bug to be caught: the handler goes before the signal.                 *)
StopStepsHandlerFirst == <<"default", "disarm">>

StopSteps == <<"disarm", "default">>

(* timer_stop()                                                            *)
TimerStop ==
    /\ timer_is_running
    /\ timer_is_running' = FALSE
    /\ Begin(StopSteps, NULL, NULL)
    /\ UNCHANGED <<listVars, timers, armed, handled, countdown, rtcVars>>

SetSignal ==
    /\ \/ Do("install", NULL, 0) /\ handled' = TRUE /\ UNCHANGED armed
       \/ Do("arm", NULL, 0) /\ armed' = TRUE /\ UNCHANGED handled
       \/ Do("disarm", NULL, 0) /\ armed' = FALSE /\ UNCHANGED handled
       \/ Do("default", NULL, 0) /\ handled' = FALSE /\ UNCHANGED armed
    /\ UNCHANGED <<listVars, timers, timer_is_running, countdown, rtcVars>>

-----------------------------------------------------------------------------
(* SIGALRM.                                                                *)

(* A count that has reached the bound stays there.                         *)
Count(c, n) == IF c + n > MaxPending THEN MaxPending ELSE c + n

(* The tick functions of the clocks' timers, called by the handler.        *)
Counted(advance) ==
    [d \in Rtcs |-> LET mine == {n \in Visited : timers[n].extra = d}
                    IN  IF mine = {} THEN pending_interrupts[d]
                        ELSE Count(pending_interrupts[d],
                                   Ticks(CHOOSE n \in mine : TRUE, advance))]

Sigalrm(advance) ==
    /\ armed /\ handled
    /\ op.signals < MaxBurst \/ op = Idle
    /\ HandleSignal(advance)
    /\ pending_interrupts' = Counted(advance)
    /\ op' = IF op = Idle THEN Idle
             ELSE [op EXCEPT !.signals = @ + 1,
                             !.reg = IF Head(op.steps) = "store" THEN @ - advance ELSE @]
    /\ UNCHANGED <<listVars, signalVars, hz, timer, irq>>

-----------------------------------------------------------------------------

Init ==
    /\ InitTimer
    /\ hz = [d \in Rtcs |-> 0]
    /\ timer = [d \in Rtcs |-> NULL]
    /\ pending_interrupts = [d \in Rtcs |-> 0]
    /\ irq = [d \in Rtcs |-> FALSE]
    /\ op = Idle

Work == AddTimer \/ PublishAndKeep \/ RemoveTimer \/ Forget \/ UpdateTimer
        \/ LoadPending \/ DecrementPending \/ Deassert \/ SetSignal

Signal == \E advance \in Advances : Sigalrm(advance)

Next ==
    \/ \E d \in Rtcs : \/ \E h \in Freqs \cup {0} : WriteHz(d, h)
                       \/ Acknowledge(d)
                       \/ DeviceTick(d)
    \/ TimerStart
    \/ TimerStop
    \/ Work
    \/ Signal

(* The emulator goes on with what it has begun.  The interval timer keeps  *)
(* sending signals, and the tick function is called after a number of      *)
(* instructions, whatever else goes on.                                    *)
Fairness ==
    /\ WF_vars(Work)
    /\ SF_vars(Signal)
    /\ \A d \in Rtcs : SF_vars(DeviceTick(d))

Spec == Init /\ [][Next]_vars
FairSpec == Spec /\ Fairness

-----------------------------------------------------------------------------

TypeOK ==
    /\ first_timer \in Nodes \cup {NULL}
    /\ next \in [Nodes -> Nodes \cup {NULL}]
    /\ timers \in [Nodes -> TimerFields]
    /\ allocated \in SUBSET Nodes
    /\ timer_is_running \in BOOLEAN /\ armed \in BOOLEAN /\ handled \in BOOLEAN
    /\ countdown \in 0..SyncEvery
    /\ hz \in [Rtcs -> Freqs \cup {0}]
    /\ timer \in [Rtcs -> Nodes \cup {NULL}]
    /\ pending_interrupts \in [Rtcs -> 0..MaxPending]
    /\ irq \in [Rtcs -> BOOLEAN]
    /\ op \in [steps : Seq(StepNames), rtc : Rtcs \cup {NULL},
               node : Nodes \cup {NULL}, reg : Int, signals : 0..MaxBurst]

(* Whenever the signal arrives, the walk of its handler along the list     *)
(* meets no timer that has been freed, and comes to an end; and between    *)
(* two operations it meets the timers of all clocks (timer_add(),          *)
(* timer_remove()).                                                        *)
HandlerSeesTimers ==
    /\ Visited \subseteq allocated
    /\ first_timer = NULL \/ \E n \in Visited : next[n] = NULL
    /\ op = Idle => Visited = {timer[d] : d \in Rtcs} \ {NULL}

(* A clock that the guest has disabled has no interrupt left to raise,     *)
(* whenever its timer ticked for the last time (experiments.html: "Writing *)
(* 0 disables the timer").                                                 *)
QuietWhenDisabled ==
    op = Idle => \A d \in Rtcs : hz[d] = 0 => pending_interrupts[d] = 0

(* SIGALRM never meets its default action, which ends the emulator         *)
(* (timer_start(), timer_stop()).                                          *)
SignalHandled == armed => handled

(* What a well-behaved guest no longer does, while timers are running.     *)
Steady(d) ==
    /\ hz'[d] = hz[d] /\ timer_is_running' = timer_is_running
    /\ Acknowledge(d) => irq[d]

(* A clock that keeps its frequency interrupts again and again while the   *)
(* timers run, however often the guest writes that same frequency and      *)
(* acknowledges the interrupts that are raised (experiments.html: "to      *)
(* cause periodic interrupts").                                            *)
KeepsInterrupting ==
    \A d \in Rtcs : <>[][Steady(d)]_vars
                      => []<>(hz[d] = 0 \/ ~timer_is_running \/ irq[d])

=============================================================================
