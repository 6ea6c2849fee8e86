------------------------------- MODULE Timer --------------------------------
(***************************************************************************)
(* The virtual timers of timer.c.  The host delivers SIGALRM at a fixed    *)
(* frequency; its handler walks the list of timers and calls the tick      *)
(* function of each one as often as it is due.  The signal may arrive      *)
(* between any two steps of the emulator, also while the list is being     *)
(* changed, but the handler itself is not interrupted.                     *)
(*                                                                         *)
(* Time is kept relative to timer_current_time, in units of which Step     *)
(* pass from one signal to the next.  Frequencies are positive: that the   *)
(* code raises smaller ones to 0.00000001 Hz is left out.                  *)
(***************************************************************************)
EXTENDS Integers, Sequences

CONSTANTS
    Nodes,          \* memory for struct timer
    NULL,
    Owners,         \* what timers are for, their extra argument
    Freqs,          \* frequencies of timers, in Hz
    Second,         \* units of time in a second
    Step,           \* timer_current_time_step
    SyncEvery,      \* signals from one gettimeofday() to the next
    Lags            \* how much the host's clock may be ahead at that time

ASSUME TimerAssumption ==
    /\ NULL \notin Nodes /\ Owners # {} /\ Freqs # {}
    /\ Second \in Nat /\ Step \in Nat \ {0} /\ SyncEvery \in Nat
    /\ \A f \in Freqs : f \in 1..Second
    /\ \A l \in Lags : l \in Int /\ l >= -2 * Step

VARIABLES
    first_timer,
    next,               \* next field of each timer
    timers,             \* the other fields of each timer
    allocated,          \* memory that malloc() has handed out
    timer_is_running,
    armed,              \* setitimer() is in effect
    handled,            \* SIGALRM has its handler, not the default action
    countdown           \* timer_countdown_to_next_gettimeofday

listVars == <<first_timer, next, allocated>>
signalVars == <<timer_is_running, armed, handled>>

(* extra and freq; and next_tick_at, counted from timer_current_time.      *)
TimerFields == [extra : Owners, freq : Freqs, due : Int]
Unused == [extra |-> CHOOSE o \in Owners : TRUE, freq |-> CHOOSE f \in Freqs : TRUE,
           due |-> 0]

(* interval = 1.0 / freq                                                   *)
Interval(freq) == Second \div freq

(* The timers that a walk along the list comes to.                         *)
Closed(S) ==
    /\ first_timer \in S \cup {NULL}
    /\ \A n \in S : next[n] \in S \cup {NULL}
Visited == {n \in Nodes : \A S \in SUBSET Nodes : Closed(S) => n \in S}

-----------------------------------------------------------------------------
(* timer_add(): the memory is filled in before it is linked to the list,   *)
(* and linked before first_timer points to it.                             *)

NewTimer(n, freq, extra) ==
    /\ n \notin allocated
    /\ allocated' = allocated \cup {n}
    /\ timers' = [timers EXCEPT ![n] =
           [extra |-> extra, freq |-> freq, due |-> Interval(freq)]]
    /\ UNCHANGED <<first_timer, next>>

LinkTimer(n) ==
    /\ next' = [next EXCEPT ![n] = first_timer]
    /\ UNCHANGED <<first_timer, timers, allocated>>

PublishTimer(n) ==
    /\ first_timer' = n
    /\ UNCHANGED <<next, timers, allocated>>

(* timer_remove()                                                          *)

(* A bug to be caught: every timer is taken for the first of the list.     *)
UnlinkFirst(n) ==
    /\ first_timer' = next[n]
    /\ UNCHANGED <<next, timers, allocated>>

UnlinkTimer(n) ==
    /\ \/ /\ first_timer = n
          /\ first_timer' = next[n]
          /\ UNCHANGED next
       \/ \E prev \in Visited :
            /\ next[prev] = n
            /\ next' = [next EXCEPT ![prev] = next[n]]
            /\ UNCHANGED first_timer
    /\ UNCHANGED <<timers, allocated>>

(* What freed memory holds does not matter.                                *)
FreeTimer(n) ==
    /\ allocated' = allocated \ {n}
    /\ timers' = [timers EXCEPT ![n] = Unused]
    /\ next' = [next EXCEPT ![n] = NULL]
    /\ UNCHANGED first_timer

(* timer_update_frequency(): the new interval, and when it ends.           *)

SetFrequency(n, freq) ==
    /\ timers' = [timers EXCEPT ![n].freq = freq]
    /\ UNCHANGED listVars

SetNextTick(n, due) ==
    /\ timers' = [timers EXCEPT ![n].due = due]
    /\ UNCHANGED listVars

-----------------------------------------------------------------------------
(* timer_tick(), the signal handler.                                       *)

(* How far timer_current_time may move.  Halfway to the host's time, when  *)
(* gettimeofday() is called.                                               *)
Advances == IF countdown = 0 THEN {Step + lag \div 2 : lag \in Lags} ELSE {Step}

(* How often timer n ticks when the time moves.                            *)
Ticks(n, advance) ==
    LET due == timers[n].due - advance
    IN  IF n \notin Visited \/ due > 0 THEN 0
        ELSE (-due) \div Interval(timers[n].freq) + 1

HandleSignal(advance) ==
    /\ countdown' = IF countdown = 0 THEN SyncEvery ELSE countdown - 1
    /\ timers' = [n \in Nodes |->
           [timers[n] EXCEPT !.due = IF n \in allocated
              THEN @ - advance + Ticks(n, advance) * Interval(timers[n].freq)
              ELSE @]]

-----------------------------------------------------------------------------
(* timer_start() resets all timers, installs the handler and arms the      *)
(* interval timer; timer_stop() takes the last two back in reverse order.  *)

ResetTimers ==
    timers' = [n \in Nodes |-> IF n \in Visited
                               THEN [timers[n] EXCEPT !.due = Interval(timers[n].freq)]
                               ELSE timers[n]]

InitTimer ==
    /\ first_timer = NULL
    /\ next = [n \in Nodes |-> NULL]
    /\ timers = [n \in Nodes |-> Unused]
    /\ allocated = {}
    /\ timer_is_running = FALSE
    /\ armed = FALSE
    /\ handled = FALSE
    /\ countdown = 0
=============================================================================
