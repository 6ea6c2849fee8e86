----------------------------- MODULE RtcProofs ------------------------------
(***************************************************************************)
(* The list of timers is sound whenever the signal arrives, and a clock    *)
(* that is disabled is quiet, for any number of clocks and timers and      *)
(* whatever the frequencies.                                               *)
(***************************************************************************)
EXTENDS Rtc, TLAPS

-----------------------------------------------------------------------------
(* The invariant.                                                          *)

(* What the emulator does next.                                            *)
At == IF op.steps = <<>> THEN "idle" ELSE Head(op.steps)

(* What may be left of an operation.                                       *)
Plans ==
    {<<>>,
     <<"new", "link", "publish">>, <<"link", "publish">>, <<"publish">>,
     <<"unlink", "free", "forget">>, <<"free", "forget">>, <<"forget">>,
     <<"frequency", "read", "store">>, <<"read", "store">>, <<"store">>,
     <<"load", "decrement", "deassert">>, <<"decrement", "deassert">>, <<"deassert">>,
     <<"install", "arm">>, <<"arm">>, <<"disarm", "default">>, <<"default">>}

OpOK ==
    /\ op = [steps |-> op.steps, rtc |-> op.rtc, node |-> op.node, reg |-> op.reg,
             signals |-> op.signals]
    /\ op.steps \in Plans /\ (op.steps = <<>> => op = Idle)
    /\ op.rtc \in Rtcs \cup {NULL} /\ op.node \in Nodes \cup {NULL}
    /\ op.reg \in Int /\ op.signals \in 0..MaxBurst

FieldsOK ==
    /\ first_timer \in Nodes \cup {NULL} /\ next \in [Nodes -> Nodes \cup {NULL}]
    /\ timers \in [Nodes -> TimerFields] /\ allocated \in SUBSET Nodes
    /\ countdown \in 0..SyncEvery
    /\ hz \in [Rtcs -> Freqs \cup {0}] /\ timer \in [Rtcs -> Nodes \cup {NULL}]
    /\ pending_interrupts \in [Rtcs -> 0..MaxPending] /\ irq \in [Rtcs -> BOOLEAN]

(* The list is one: nothing is the successor of two timers, or the first   *)
(* timer and a successor.                                                  *)
ListOK ==
    /\ Visited \subseteq allocated
    /\ first_timer = NULL \/ \E n \in Visited: next[n] = NULL
    /\ first_timer # NULL => \A n \in Visited: next[n] # first_timer
    /\ \A m, n \in Visited: next[m] = next[n] /\ next[m] # NULL => m = n

(* A timer that is no longer in the list, but still the clock's.           *)
Removed == IF At \in {"free", "forget"} THEN {op.node} ELSE {}

(* The timers in the list are the clocks' timers, and every clock has its  *)
(* own.                                                                    *)
ClocksOK ==
    /\ Visited = {timer[d]: d \in Rtcs} \ (Removed \cup {NULL})
    /\ \A c, d \in Rtcs: timer[c] = timer[d] /\ timer[c] # NULL => c = d
    /\ \A d \in Rtcs: timer[d] \in Visited => timers[timer[d]].extra = d

(* What an operation relies on, at each of its steps.                      *)
StepOK ==
    /\ At \notin {"idle", "install", "arm", "disarm", "default"} => op.rtc \in Rtcs
    /\ At \in {"new", "link", "publish"} => hz[op.rtc] # 0 /\ timer[op.rtc] = NULL
    /\ At \in {"link", "publish"} =>
           op.node \in allocated \ Visited /\ timers[op.node].extra = op.rtc
    /\ At = "publish" => next[op.node] = first_timer
    /\ At \in {"unlink", "free", "frequency", "read", "store"} => op.node # NULL
    /\ At \in {"unlink", "free", "forget", "frequency", "read", "store"} =>
           op.node = timer[op.rtc]
    /\ At \in {"unlink", "free", "forget"} => hz[op.rtc] = 0
    /\ At \in {"frequency", "read", "store"} => hz[op.rtc] # 0
    /\ At = "decrement" => op.reg \in 0..MaxPending /\ (hz[op.rtc] = 0 => op.reg = 0)

(* A disabled clock has neither a timer nor interrupts, unless it is being *)
(* disabled.                                                               *)
QuietOK ==
    \A d \in Rtcs: hz[d] = 0 =>
        \/ pending_interrupts[d] = 0 /\ timer[d] = NULL
        \/ op.rtc = d /\ At \in {"unlink", "free", "forget"}

(* The signal and its handler, while the timers are started or stopped.    *)
SignalOK ==
    /\ timer_is_running \in BOOLEAN /\ armed \in BOOLEAN /\ handled \in BOOLEAN
    /\ armed => handled
    /\ At = "arm" => handled
    /\ At \in {"install", "arm", "default"} => ~armed
    /\ At \in {"install", "arm"} => timer_is_running
    /\ At \in {"disarm", "default"} => ~timer_is_running
    /\ At \notin {"install", "arm", "disarm", "default"} => (armed <=> timer_is_running)

TimersInv == OpOK /\ FieldsOK /\ ListOK /\ ClocksOK /\ StepOK /\ QuietOK

-----------------------------------------------------------------------------
(* The walk along the list, for any first timer and successors.            *)

ClosedFor(first, succ, S) ==
    first \in S \cup {NULL} /\ \A n \in S: succ[n] \in S \cup {NULL}

Walk(first, succ) == {n \in Nodes: \A S \in SUBSET Nodes: ClosedFor(first, succ, S) => n \in S}

LEMMA VisitedWalk ==
    Visited = Walk(first_timer, next) /\ Visited' = Walk(first_timer', next')
  BY DEF Visited, Walk, Closed, ClosedFor

(* What is visited is closed, and the least such set.                      *)
LEMMA WalkClosed ==
    ASSUME NEW first \in Nodes \cup {NULL}, NEW succ \in [Nodes -> Nodes \cup {NULL}]
    PROVE  /\ Walk(first, succ) \in SUBSET Nodes
           /\ ClosedFor(first, succ, Walk(first, succ))
           /\ \A S \in SUBSET Nodes: ClosedFor(first, succ, S) => Walk(first, succ) \subseteq S
  BY DEF Walk, ClosedFor

(* The walk does not change when nothing changes on its way.               *)
LEMMA WalkSame ==
    ASSUME NEW first \in Nodes \cup {NULL}, NEW succ \in [Nodes -> Nodes \cup {NULL}],
           NEW succ2 \in [Nodes -> Nodes \cup {NULL}],
           \A n \in Walk(first, succ): succ2[n] = succ[n]
    PROVE  Walk(first, succ2) = Walk(first, succ)
<1> DEFINE W == Walk(first, succ)
           V == Walk(first, succ2)
<1>1. W \in SUBSET Nodes /\ V \in SUBSET Nodes
  BY DEF Walk
<1>2. ClosedFor(first, succ, W) /\ ClosedFor(first, succ2, V)
  BY WalkClosed
<1>3. ClosedFor(first, succ2, W)
  BY <1>2 DEF ClosedFor
<1>4. V \subseteq W
  BY <1>1, <1>3, WalkClosed
<1>5. ClosedFor(first, succ, V \cap W)
  BY <1>2, <1>4 DEF ClosedFor
<1>6. W \subseteq V \cap W
  BY <1>1, <1>5, WalkClosed
<1> QED BY <1>4, <1>6

(* A new first timer.                                                      *)
LEMMA WalkPublished ==
    ASSUME NEW first \in Nodes \cup {NULL}, NEW succ \in [Nodes -> Nodes \cup {NULL}],
           NEW n \in Nodes, succ[n] = first
    PROVE  Walk(n, succ) = Walk(first, succ) \cup {n}
<1> DEFINE W == Walk(first, succ)
           V == Walk(n, succ)
<1>1. W \in SUBSET Nodes /\ V \in SUBSET Nodes
  BY DEF Walk
<1>2. ClosedFor(first, succ, W) /\ ClosedFor(n, succ, V)
  BY WalkClosed
<1>3. ClosedFor(n, succ, W \cup {n})
  BY <1>2 DEF ClosedFor
<1>4. V \subseteq W \cup {n}
  BY <1>1, <1>3, WalkClosed
<1>5. n \in V /\ ClosedFor(first, succ, V)
  BY <1>2, TimerAssumption DEF ClosedFor
<1>6. W \subseteq V
  BY <1>1, <1>5, WalkClosed
<1> QED BY <1>4, <1>5, <1>6

(* A list without branches.                                                *)
Linear(first, succ) ==
    /\ first # NULL => \A n \in Walk(first, succ): succ[n] # first
    /\ \A m, n \in Walk(first, succ): succ[m] = succ[n] /\ succ[m] # NULL => m = n

(* No timer of a list is its own successor.                                *)
LEMMA NoLoop ==
    ASSUME NEW first \in Nodes \cup {NULL}, NEW succ \in [Nodes -> Nodes \cup {NULL}],
           Linear(first, succ), NEW n \in Walk(first, succ)
    PROVE  succ[n] # n
<1> SUFFICES ASSUME succ[n] = n PROVE FALSE
  OBVIOUS
<1> DEFINE W == Walk(first, succ)
<1>1. W \in SUBSET Nodes /\ ClosedFor(first, succ, W)
  BY WalkClosed
<1>2. n # NULL
  BY <1>1, TimerAssumption
<1>3. first # n
  BY <1>2 DEF Linear
<1>4. \A m \in W \ {n}: succ[m] # n
  BY <1>2 DEF Linear
<1>5. ClosedFor(first, succ, W \ {n})
  BY <1>1, <1>3, <1>4 DEF ClosedFor
<1>6. W \subseteq W \ {n}
  BY <1>1, <1>5, WalkClosed
<1> QED BY <1>6

(* The first timer is taken out of the list.                               *)
LEMMA WalkFirstRemoved ==
    ASSUME NEW succ \in [Nodes -> Nodes \cup {NULL}], NEW n \in Nodes, Linear(n, succ)
    PROVE  Walk(succ[n], succ) = Walk(n, succ) \ {n}
<1> DEFINE W == Walk(n, succ)
           V == Walk(succ[n], succ)
<1>1. W \in SUBSET Nodes /\ V \in SUBSET Nodes /\ succ[n] \in Nodes \cup {NULL} /\ n # NULL
  BY TimerAssumption DEF Walk
<1>2. ClosedFor(n, succ, W) /\ ClosedFor(succ[n], succ, V)
  BY <1>1, WalkClosed
<1>3. n \in W /\ \A m \in W: succ[m] # n
  BY <1>1, <1>2 DEF ClosedFor, Linear
<1>4. ClosedFor(succ[n], succ, W \ {n})
  BY <1>2, <1>3 DEF ClosedFor
<1>5. V \subseteq W \ {n}
  BY <1>1, <1>4, WalkClosed
<1>6. ClosedFor(n, succ, V \cup {n})
  BY <1>1, <1>2 DEF ClosedFor
<1>7. W \subseteq V \cup {n}
  BY <1>1, <1>6, WalkClosed
<1> QED BY <1>5, <1>7

(* A timer behind another one is taken out of the list.                    *)
LEMMA WalkNextRemoved ==
    ASSUME NEW first \in Nodes \cup {NULL}, NEW succ \in [Nodes -> Nodes \cup {NULL}],
           Linear(first, succ), NEW prev \in Walk(first, succ), NEW n \in Nodes, succ[prev] = n,
           NEW succ2 \in [Nodes -> Nodes \cup {NULL}], succ2[prev] = succ[n],
           \A m \in Nodes \ {prev}: succ2[m] = succ[m]
    PROVE  Walk(first, succ2) = Walk(first, succ) \ {n}
<1> DEFINE W == Walk(first, succ)
           V == Walk(first, succ2)
<1>1. W \in SUBSET Nodes /\ V \in SUBSET Nodes /\ n # NULL /\ prev \in Nodes
  BY TimerAssumption DEF Walk
<1>2. ClosedFor(first, succ, W) /\ ClosedFor(first, succ2, V)
  BY <1>1, WalkClosed
<1>3. n \in W /\ first # n /\ \A m \in W: succ[m] = n => m = prev
  BY <1>1, <1>2 DEF ClosedFor, Linear
<1>4. succ[n] # n
  BY <1>3, NoLoop
<1>5. ClosedFor(first, succ2, W \ {n})
  BY <1>1, <1>2, <1>3, <1>4 DEF ClosedFor
<1>6. V \subseteq W \ {n}
  BY <1>1, <1>5, WalkClosed
<1>7. prev \in V
  <2> SUFFICES ASSUME prev \notin V PROVE FALSE
    OBVIOUS
  <2>1. ClosedFor(first, succ, V)
    BY <1>1, <1>2 DEF ClosedFor
  <2>2. W \subseteq V
    BY <1>1, <2>1, WalkClosed
  <2> QED BY <2>2
<1>8. ClosedFor(first, succ, V \cup {n})
  BY <1>1, <1>2, <1>7 DEF ClosedFor
<1>9. W \subseteq V \cup {n}
  BY <1>1, <1>8, WalkClosed
<1> QED BY <1>6, <1>9

-----------------------------------------------------------------------------
(* The steps of an operation.                                              *)

(* What comes after a step.                                                *)
Following(step) ==
    CASE step = "new" -> "link"          [] step = "link" -> "publish"
      [] step = "unlink" -> "free"       [] step = "free" -> "forget"
      [] step = "frequency" -> "read"    [] step = "read" -> "store"
      [] step = "load" -> "decrement"    [] step = "decrement" -> "deassert"
      [] step = "install" -> "arm"       [] step = "disarm" -> "default"
      [] OTHER -> "idle"

(* A plan whose first step is done.                                        *)
PlanOK(p) ==
    /\ p \in Seq(StepNames) /\ Head(p) \in StepNames
    /\ Len(p) = 1 <=> Following(Head(p)) = "idle"
    /\ Len(p) # 1 => /\ Tail(p) \in Plans /\ Tail(p) # <<>>
                     /\ Head(Tail(p)) = Following(Head(p))

LEMMA LastStep ==
    ASSUME NEW step \in StepNames, Following(step) = "idle"
    PROVE  PlanOK(<<step>>)
  BY DEF PlanOK

LEMMA OneOfTwo ==
    ASSUME NEW step \in StepNames, NEW last \in StepNames, Following(step) = last,
           last # "idle", <<last>> \in Plans
    PROVE  PlanOK(<<step, last>>)
<1>1. Tail(<<step, last>>) = <<last>>
  OBVIOUS
<1> QED BY <1>1 DEF PlanOK

LEMMA OneOfThree ==
    ASSUME NEW step \in StepNames, NEW second \in StepNames, NEW last \in StepNames,
           Following(step) = second, second # "idle", <<second, last>> \in Plans
    PROVE  PlanOK(<<step, second, last>>)
<1>1. Tail(<<step, second, last>>) = <<second, last>>
  OBVIOUS
<1> QED BY <1>1 DEF PlanOK

LEMMA PlansOK ==
    ASSUME NEW p \in Plans, p # <<>>
    PROVE  PlanOK(p)
<1>1. \A s \in {"publish", "forget", "store", "deassert", "arm", "default"}:
          s \in StepNames /\ Following(s) = "idle"
  BY DEF StepNames, Following
<1>2. \A s \in {"publish", "forget", "store", "deassert", "arm", "default"}: PlanOK(<<s>>)
  BY <1>1, LastStep
<1>3. /\ PlanOK(<<"link", "publish">>) /\ PlanOK(<<"free", "forget">>)
      /\ PlanOK(<<"read", "store">>) /\ PlanOK(<<"decrement", "deassert">>)
      /\ PlanOK(<<"install", "arm">>) /\ PlanOK(<<"disarm", "default">>)
  BY OneOfTwo DEF StepNames, Following, Plans
<1>4. /\ PlanOK(<<"new", "link", "publish">>) /\ PlanOK(<<"unlink", "free", "forget">>)
      /\ PlanOK(<<"frequency", "read", "store">>)
      /\ PlanOK(<<"load", "decrement", "deassert">>)
  BY OneOfThree DEF StepNames, Following, Plans
<1> QED BY <1>2, <1>3, <1>4 DEF Plans

LEMMA IdleOp ==
    /\ Idle.steps = <<>> /\ Idle.rtc = NULL /\ Idle.node = NULL /\ Idle.reg = 0
    /\ Idle.signals = 0
    /\ Idle = [steps |-> Idle.steps, rtc |-> Idle.rtc, node |-> Idle.node, reg |-> Idle.reg,
               signals |-> Idle.signals]
  BY DEF Idle

LEMMA OpIdle ==
    ASSUME op' = Idle
    PROVE  OpOK' /\ At' = "idle"
  BY IdleOp, RtcAssumption DEF OpOK, At, Plans

(* No operation is in progress.                                            *)
LEMMA AtIdle ==
    ASSUME OpOK
    PROVE  /\ At = "idle" <=> op = Idle
           /\ At # "idle" => At \in StepNames /\ op.steps # <<>>
<1>1. CASE op.steps = <<>>
  BY <1>1, IdleOp DEF OpOK, At
<1>2. CASE op.steps # <<>>
  <2>1. At = Head(op.steps) /\ At \in StepNames
    BY <1>2, PlansOK DEF OpOK, At, PlanOK
  <2> QED BY <1>2, <2>1, IdleOp DEF StepNames
<1> QED BY <1>1, <1>2

(* A step is done.                                                         *)
LEMMA DoStep ==
    ASSUME OpOK, NEW step, NEW n \in Nodes \cup {NULL}, NEW reg \in Int, Do(step, n, reg)
    PROVE  /\ OpOK' /\ At = step /\ At' = Following(step)
           /\ At' = "idle" => op' = Idle
           /\ At' # "idle" => op'.rtc = op.rtc /\ op'.node = n /\ op'.reg = reg
<1>1. op.steps # <<>> /\ At = step /\ Head(op.steps) = step /\ PlanOK(op.steps)
  BY PlansOK DEF Do, At, OpOK
<1>2. CASE Len(op.steps) = 1
  <2>1. op' = Idle
    BY <1>2 DEF Do
  <2>2. OpOK' /\ At' = "idle" /\ Following(step) = "idle"
    BY <1>1, <1>2, <2>1, OpIdle DEF PlanOK
  <2> QED BY <1>1, <2>1, <2>2
<1>3. CASE Len(op.steps) # 1
  <2> DEFINE rest == Tail(op.steps)
  <2>1. /\ rest \in Plans /\ rest # <<>> /\ Head(rest) = Following(step)
        /\ Following(step) # "idle"
    BY <1>1, <1>3 DEF PlanOK
  <2>2. op' = [op EXCEPT !.steps = rest, !.node = n, !.reg = reg]
    BY <1>3 DEF Do
  <2> HIDE DEF rest
  <2>3. /\ op' = [steps |-> op'.steps, rtc |-> op'.rtc, node |-> op'.node, reg |-> op'.reg,
                  signals |-> op'.signals]
        /\ op'.steps = rest /\ op'.rtc = op.rtc /\ op'.node = n /\ op'.reg = reg
        /\ op'.signals = op.signals
    BY <2>2 DEF OpOK
  <2>4. OpOK'
    BY <2>1, <2>3 DEF OpOK
  <2>5. At' = Following(step)
    BY <2>1, <2>3 DEF At
  <2> QED BY <1>1, <2>1, <2>3, <2>4, <2>5
<1> QED BY <1>2, <1>3

(* An operation begins.                                                    *)
LEMMA BeginOp ==
    ASSUME NEW steps \in Plans, NEW d \in Rtcs \cup {NULL}, NEW n \in Nodes \cup {NULL},
           Begin(steps, d, n)
    PROVE  /\ op = Idle /\ OpOK'
           /\ At' = IF steps = <<>> THEN "idle" ELSE Head(steps)
           /\ At' = "idle" => op' = Idle
           /\ At' # "idle" => op'.rtc = d /\ op'.node = n /\ op'.reg = 0
<1>1. CASE steps = <<>>
  BY <1>1, OpIdle DEF Begin
<1>2. CASE steps # <<>>
  <2>1. op = Idle /\ op' = [Idle EXCEPT !.steps = steps, !.rtc = d, !.node = n]
    BY <1>2 DEF Begin
  <2>2. /\ op' = [steps |-> op'.steps, rtc |-> op'.rtc, node |-> op'.node, reg |-> op'.reg,
                  signals |-> op'.signals]
        /\ op'.steps = steps /\ op'.rtc = d /\ op'.node = n /\ op'.reg = 0 /\ op'.signals = 0
    BY <2>1 DEF Idle
  <2>3. OpOK'
    BY <1>2, <2>2, RtcAssumption DEF OpOK
  <2>4. Head(steps) # "idle"
    BY <1>2, PlansOK DEF PlanOK, StepNames
  <2> QED BY <1>2, <2>1, <2>2, <2>3, <2>4 DEF At
<1> QED BY <1>1, <1>2

-----------------------------------------------------------------------------
(* Steps that leave the list alone.                                        *)

LEMMA SameList ==
    ASSUME UNCHANGED listVars
    PROVE  Visited' = Visited /\ (ListOK => ListOK')
  BY VisitedWalk DEF listVars, ListOK

(* The interval of a timer.                                                *)
LEMMA IntervalType ==
    ASSUME NEW freq \in Freqs
    PROVE  Interval(freq) \in Nat \ {0}
<1>1. freq \in Nat \ {0} /\ freq <= Second /\ Second \in Nat
  BY TimerAssumption
<1>2. \A a \in Nat, b \in Nat \ {0}: b <= a => a \div b \in Nat \ {0}
  OBVIOUS
<1> QED BY <1>1, <1>2 DEF Interval

(* Writing DEV_RTC_HZ begins an operation.                                 *)
LEMMA WriteHzInv ==
    ASSUME TimersInv, NEW d \in Rtcs, NEW h \in Freqs \cup {0}, WriteHz(d, h)
    PROVE  TimersInv' /\ op = Idle /\ At' \notin {"install", "arm", "disarm", "default"}
<1> DEFINE steps == IF h = 0
                    THEN IF timer[d] = NULL THEN <<"forget">> ELSE RemoveSteps
                    ELSE IF timer[d] = NULL THEN AddSteps ELSE UpdateSteps(timer[d], h)
<1>1. /\ hz' = [hz EXCEPT ![d] = h] /\ Begin(steps, d, timer[d]) /\ UNCHANGED listVars
      /\ UNCHANGED <<first_timer, next, allocated, timers, countdown, timer,
                     pending_interrupts, irq>>
  BY DEF WriteHz, listVars
<1>2. FieldsOK /\ ListOK /\ ClocksOK /\ StepOK /\ QuietOK
  BY DEF TimersInv
<1>3. steps \in Plans
  BY DEF Plans, RemoveSteps, AddSteps, UpdateSteps
<1>4. /\ steps = <<>> \/ steps # <<>>
      /\ steps # <<>> => Head(steps) = IF h = 0 THEN IF timer[d] = NULL THEN "forget" ELSE "unlink"
                                       ELSE IF timer[d] = NULL THEN "new" ELSE "frequency"
      /\ steps = <<>> => h # 0 /\ timer[d] # NULL
  BY DEF RemoveSteps, AddSteps, UpdateSteps
<1> HIDE DEF steps
<1>5. timer[d] \in Nodes \cup {NULL}
  BY <1>2 DEF FieldsOK
<1>6. /\ op = Idle /\ OpOK' /\ At' = IF steps = <<>> THEN "idle" ELSE Head(steps)
      /\ At' = "idle" => op' = Idle
      /\ At' # "idle" => op'.rtc = d /\ op'.node = timer[d] /\ op'.reg = 0
  BY <1>1, <1>3, <1>5, BeginOp
<1>7. At = "idle"
  BY <1>6, IdleOp DEF At
<1>8. Visited' = Visited /\ ListOK'
  BY <1>1, <1>2, SameList
<1>9. FieldsOK' /\ hz'[d] = h /\ \A c \in Rtcs \ {d}: hz'[c] = hz[c]
  BY <1>1, <1>2 DEF FieldsOK
<1>10. At' \in {"forget", "unlink", "new", "frequency", "idle"}
       /\ (At' = "forget" => timer[d] = NULL /\ h = 0)
       /\ (At' = "unlink" => timer[d] # NULL /\ h = 0)
       /\ (At' = "new" => timer[d] = NULL /\ h # 0)
       /\ (At' = "frequency" => timer[d] # NULL /\ h # 0)
       /\ (At' = "idle" => timer[d] # NULL /\ h # 0)
  BY <1>4, <1>6
<1>11. ClocksOK'
  <2>1. Removed \cup {NULL} = {NULL} /\ Removed' \cup {NULL} = {NULL}
    BY <1>6, <1>7, <1>10 DEF Removed
  <2> QED BY <1>1, <1>2, <1>8, <2>1 DEF ClocksOK
<1>12. StepOK'
  BY <1>1, <1>6, <1>9, <1>10 DEF StepOK
<1>13. QuietOK'
  <2> SUFFICES ASSUME NEW c \in Rtcs, hz'[c] = 0
               PROVE  \/ pending_interrupts'[c] = 0 /\ timer'[c] = NULL
                      \/ op'.rtc = c /\ At' \in {"unlink", "free", "forget"}
    BY DEF QuietOK
  <2>1. CASE c = d
    BY <1>6, <1>9, <1>10, <2>1
  <2>2. CASE c # d
    BY <1>1, <1>2, <1>7, <1>9, <2>2 DEF QuietOK
  <2> QED BY <2>1, <2>2
<1> QED BY <1>6, <1>8, <1>9, <1>10, <1>11, <1>12, <1>13 DEF TimersInv

(* Operations that begin and change nothing else of the clocks.            *)
LEMMA AcknowledgeInv ==
    ASSUME TimersInv, NEW d \in Rtcs, Acknowledge(d)
    PROVE  TimersInv' /\ op = Idle /\ At' \notin {"install", "arm", "disarm", "default"}
<1>1. /\ Begin(<<"load", "decrement", "deassert">>, d, NULL) /\ UNCHANGED listVars
      /\ UNCHANGED <<first_timer, next, allocated, timers, countdown, hz, timer,
                     pending_interrupts, irq>>
  BY DEF Acknowledge, listVars, rtcVars
<1>2. FieldsOK /\ ListOK /\ ClocksOK /\ StepOK /\ QuietOK
  BY DEF TimersInv
<1>3. /\ op = Idle /\ OpOK' /\ At' = "load" /\ op'.rtc = d
  BY <1>1, BeginOp DEF Plans
<1>4. At = "idle"
  BY <1>3, IdleOp DEF At
<1>5. Visited' = Visited /\ ListOK' /\ FieldsOK'
  BY <1>1, <1>2, SameList DEF FieldsOK
<1>6. ClocksOK' /\ StepOK'
  BY <1>1, <1>2, <1>3, <1>4, <1>5 DEF ClocksOK, StepOK, Removed
<1>7. QuietOK'
  BY <1>1, <1>2, <1>3, <1>4 DEF QuietOK
<1> QED BY <1>3, <1>5, <1>6, <1>7 DEF TimersInv

LEMMA DeviceTickInv ==
    ASSUME TimersInv, NEW d \in Rtcs, DeviceTick(d)
    PROVE  TimersInv'
<1>1. /\ irq' = [irq EXCEPT ![d] = pending_interrupts[d] > 0] /\ UNCHANGED listVars
      /\ UNCHANGED <<first_timer, next, allocated, timers, countdown, hz, timer,
                     pending_interrupts, op>>
  BY DEF DeviceTick, listVars
<1>2. OpOK /\ FieldsOK /\ ListOK /\ ClocksOK /\ StepOK /\ QuietOK
  BY DEF TimersInv
<1>3. Visited' = Visited /\ ListOK' /\ At' = At
  BY <1>1, <1>2, SameList DEF At
<1>4. OpOK' /\ ClocksOK' /\ StepOK' /\ QuietOK'
  BY <1>1, <1>2, <1>3 DEF OpOK, ClocksOK, Removed, StepOK, QuietOK
<1>5. FieldsOK'
  <2>1. (pending_interrupts[d] > 0) \in BOOLEAN
    OBVIOUS
  <2>2. irq' \in [Rtcs -> BOOLEAN]
    BY <1>1, <1>2, <2>1 DEF FieldsOK
  <2> QED BY <1>1, <1>2, <2>2 DEF FieldsOK
<1> QED BY <1>3, <1>4, <1>5 DEF TimersInv

(* Operations that begin and change when timers tick, at most.             *)
LEMMA StartStopInv ==
    ASSUME TimersInv, TimerStart \/ TimerStop
    PROVE  /\ TimersInv' /\ op = Idle
           /\ At' = IF TimerStart THEN "install" ELSE "disarm"
<1>1. /\ UNCHANGED listVars
      /\ UNCHANGED <<first_timer, next, allocated, countdown, hz, timer,
                     pending_interrupts, irq>>
      /\ ResetTimers \/ timers' = timers
      /\ \/ TimerStart /\ Begin(<<"install", "arm">>, NULL, NULL)
         \/ ~TimerStart /\ Begin(<<"disarm", "default">>, NULL, NULL)
  BY DEF TimerStart, TimerStop, StopSteps, listVars, rtcVars
<1>2. FieldsOK /\ ListOK /\ ClocksOK /\ StepOK /\ QuietOK
  BY DEF TimersInv
<1>3. <<"install", "arm">> \in Plans /\ <<"disarm", "default">> \in Plans
  BY DEF Plans
<1>4. op = Idle /\ OpOK' /\ At' = IF TimerStart THEN "install" ELSE "disarm"
  BY <1>1, <1>3, BeginOp
<1>5. At = "idle"
  BY <1>4, IdleOp DEF At
<1>6. timers' \in [Nodes -> TimerFields] /\ \A n \in Nodes: timers'[n].extra = timers[n].extra
  <2>1. timers \in [Nodes -> TimerFields]
    BY <1>2 DEF FieldsOK
  <2>2. \A n \in Nodes: Interval(timers[n].freq) \in Int
    BY <2>1, IntervalType DEF TimerFields
  <2>3. CASE ResetTimers
    <3>1. timers' = [n \in Nodes |-> IF n \in Visited
                                   THEN [timers[n] EXCEPT !.due = Interval(timers[n].freq)]
                                   ELSE timers[n]]
      BY <2>3 DEF ResetTimers
    <3>2. ASSUME NEW n \in Nodes
          PROVE  timers'[n] \in TimerFields /\ timers'[n].extra = timers[n].extra
      BY <2>1, <2>2, <3>1 DEF TimerFields
    <3> QED BY <3>1, <3>2
  <2> QED BY <1>1, <2>1, <2>3
<1>7. Visited' = Visited /\ ListOK' /\ FieldsOK'
  BY <1>1, <1>2, <1>6, SameList DEF FieldsOK
<1>8. Visited \subseteq Nodes
  BY DEF Visited
<1>9. ClocksOK' /\ StepOK'
  BY <1>1, <1>2, <1>4, <1>5, <1>6, <1>7, <1>8 DEF ClocksOK, StepOK, Removed
<1>10. QuietOK'
  BY <1>1, <1>2, <1>4, <1>5 DEF QuietOK
<1> QED BY <1>4, <1>7, <1>9, <1>10 DEF TimersInv

-----------------------------------------------------------------------------
(* timer_add()                                                             *)

LEMMA NewTimerInv ==
    ASSUME TimersInv, NEW n \in Nodes, Do("new", n, 0), NewTimer(n, hz[op.rtc], op.rtc),
           UNCHANGED <<countdown, rtcVars>>
    PROVE  TimersInv' /\ At = "new" /\ At' = "link"
<1>1. /\ UNCHANGED <<first_timer, next, countdown, hz, timer, pending_interrupts, irq>>
      /\ n \notin allocated /\ allocated' = allocated \cup {n}
      /\ timers' = [timers EXCEPT ![n] = [extra |-> op.rtc, freq |-> hz[op.rtc],
                                          due |-> Interval(hz[op.rtc])]]
  BY DEF NewTimer, rtcVars
<1>2. OpOK /\ FieldsOK /\ ListOK /\ ClocksOK /\ StepOK /\ QuietOK
  BY DEF TimersInv
<1>3. /\ OpOK' /\ At = "new" /\ At' = "link" /\ op'.rtc = op.rtc /\ op'.node = n
  BY <1>2, DoStep DEF Following
<1>4. op.rtc \in Rtcs /\ hz[op.rtc] # 0 /\ timer[op.rtc] = NULL /\ hz[op.rtc] \in Freqs
  BY <1>2, <1>3 DEF StepOK, FieldsOK
<1>5. Interval(hz[op.rtc]) \in Int
  BY <1>4, IntervalType
<1>6. /\ timers' \in [Nodes -> TimerFields] /\ timers'[n].extra = op.rtc
      /\ \A m \in Nodes \ {n}: timers'[m] = timers[m]
  BY <1>1, <1>2, <1>4, <1>5 DEF FieldsOK, TimerFields, Rtcs
<1>7. FieldsOK'
  BY <1>1, <1>2, <1>6 DEF FieldsOK
<1>8. Visited' = Visited
  BY <1>1, VisitedWalk
<1>9. n \notin Visited /\ Visited \subseteq Nodes
  BY <1>1, <1>2 DEF ListOK, Visited
<1>10. ListOK'
  BY <1>1, <1>2, <1>8 DEF ListOK
<1>11. ClocksOK'
  BY <1>1, <1>2, <1>3, <1>6, <1>8, <1>9 DEF ClocksOK, Removed
<1>12. StepOK'
  BY <1>1, <1>3, <1>4, <1>6, <1>8, <1>9 DEF StepOK
<1>13. QuietOK'
  BY <1>1, <1>2, <1>3 DEF QuietOK
<1> QED BY <1>3, <1>7, <1>10, <1>11, <1>12, <1>13 DEF TimersInv

LEMMA LinkTimerInv ==
    ASSUME TimersInv, Do("link", op.node, 0), LinkTimer(op.node), UNCHANGED <<countdown, rtcVars>>
    PROVE  TimersInv' /\ At = "link" /\ At' = "publish"
<1>1. /\ UNCHANGED <<first_timer, timers, allocated, countdown, hz, timer,
                     pending_interrupts, irq>>
      /\ next' = [next EXCEPT ![op.node] = first_timer]
  BY DEF LinkTimer, rtcVars
<1>2. OpOK /\ FieldsOK /\ ListOK /\ ClocksOK /\ StepOK /\ QuietOK
  BY DEF TimersInv
<1>3. op.node \in Nodes \cup {NULL}
  BY <1>2 DEF OpOK
<1>4. /\ OpOK' /\ At = "link" /\ At' = "publish" /\ op'.rtc = op.rtc /\ op'.node = op.node
  BY <1>2, <1>3, DoStep DEF Following
<1>5. /\ op.rtc \in Rtcs /\ hz[op.rtc] # 0 /\ timer[op.rtc] = NULL /\ op.node \in Nodes
      /\ op.node \in allocated \ Visited /\ timers[op.node].extra = op.rtc
  BY <1>2, <1>4 DEF StepOK, FieldsOK
<1>6. /\ FieldsOK' /\ next'[op.node] = first_timer
      /\ \A m \in Nodes \ {op.node}: next'[m] = next[m]
  BY <1>1, <1>2, <1>5 DEF FieldsOK
<1>7. Visited \subseteq Nodes /\ \A m \in Visited: next'[m] = next[m]
  BY <1>5, <1>6 DEF Visited
<1>8. Visited' = Visited
  <2>1. /\ first_timer \in Nodes \cup {NULL} /\ first_timer' = first_timer
        /\ next \in [Nodes -> Nodes \cup {NULL}] /\ next' \in [Nodes -> Nodes \cup {NULL}]
    BY <1>1, <1>2, <1>6 DEF FieldsOK
  <2> QED BY <1>7, <2>1, VisitedWalk, WalkSame
<1>9. ListOK'
  BY <1>1, <1>2, <1>7, <1>8 DEF ListOK
<1>10. ClocksOK' /\ StepOK'
  BY <1>1, <1>2, <1>4, <1>5, <1>6, <1>8 DEF ClocksOK, Removed, StepOK
<1>11. QuietOK'
  BY <1>1, <1>2, <1>4 DEF QuietOK
<1> QED BY <1>4, <1>6, <1>9, <1>10, <1>11 DEF TimersInv

LEMMA PublishTimerInv ==
    ASSUME TimersInv, PublishAndKeep
    PROVE  TimersInv' /\ At = "publish" /\ At' = "idle"
<1>1. /\ UNCHANGED <<next, timers, allocated, countdown, hz, pending_interrupts, irq>>
      /\ Do("publish", op.node, 0) /\ first_timer' = op.node
      /\ timer' = [timer EXCEPT ![op.rtc] = op.node]
  BY DEF PublishAndKeep, PublishTimer
<1>2. OpOK /\ FieldsOK /\ ListOK /\ ClocksOK /\ StepOK /\ QuietOK
  BY DEF TimersInv
<1>3. op.node \in Nodes \cup {NULL}
  BY <1>2 DEF OpOK
<1>4. /\ OpOK' /\ At = "publish" /\ At' = "idle" /\ op' = Idle
  BY <1>1, <1>2, <1>3, DoStep DEF Following
<1> DEFINE n == op.node
           r == op.rtc
<1>5. /\ r \in Rtcs /\ hz[r] # 0 /\ timer[r] = NULL /\ n \in Nodes /\ n # NULL
      /\ n \in allocated \ Visited /\ timers[n].extra = r /\ next[n] = first_timer
  BY <1>2, <1>4, TimerAssumption DEF StepOK, FieldsOK
<1>6. FieldsOK' /\ timer'[r] = n /\ \A c \in Rtcs \ {r}: timer'[c] = timer[c]
  BY <1>1, <1>2, <1>5 DEF FieldsOK
<1>7. Visited' = Visited \cup {n}
  <2>1. Visited = Walk(first_timer, next) /\ Visited' = Walk(n, next)
    BY <1>1, VisitedWalk
  <2> QED BY <1>2, <1>5, <2>1, WalkPublished DEF FieldsOK
<1>8. Visited \subseteq Nodes /\ first_timer \in Visited \cup {NULL}
      /\ \A m \in Visited: next[m] \in Visited \cup {NULL}
  <2>1. ClosedFor(first_timer, next, Visited) /\ Visited \in SUBSET Nodes
    BY <1>2, VisitedWalk, WalkClosed DEF FieldsOK
  <2> QED BY <2>1 DEF ClosedFor
<1> HIDE DEF n, r
<1>9. ListOK'
  <2>1. Visited' \subseteq allocated'
    BY <1>1, <1>2, <1>5, <1>7 DEF ListOK
  <2>2. first_timer' = n
    BY <1>1 DEF n
  <2>3. \E m \in Visited': next'[m] = NULL
    BY <1>1, <1>2, <1>5, <1>7 DEF ListOK
  <2>4. \A m \in Visited': next'[m] # n
    BY <1>1, <1>5, <1>7, <1>8
  <2>5. \A l, m \in Visited': next'[l] = next'[m] /\ next'[l] # NULL => l = m
    BY <1>1, <1>2, <1>5, <1>7 DEF ListOK
  <2> QED BY <2>1, <2>2, <2>3, <2>4, <2>5 DEF ListOK
<1>10. ClocksOK'
  <2>1. Visited = {timer[c]: c \in Rtcs} \ {NULL} /\ Removed' = {}
    BY <1>2, <1>4 DEF ClocksOK, Removed
  <2>2. {timer'[c]: c \in Rtcs} \ {NULL} = ({timer[c]: c \in Rtcs} \ {NULL}) \cup {n}
    BY <1>5, <1>6
  <2>3. Visited' = {timer'[c]: c \in Rtcs} \ (Removed' \cup {NULL})
    BY <1>7, <2>1, <2>2
  <2>4. \A c \in Rtcs \ {r}: timer'[c] # n
    BY <1>5, <1>6, <2>1
  <2>5. \A b, c \in Rtcs: timer'[b] = timer'[c] /\ timer'[b] # NULL => b = c
    BY <1>2, <1>6, <2>4 DEF ClocksOK
  <2>6. ASSUME NEW c \in Rtcs, timer'[c] \in Visited' PROVE timers'[timer'[c]].extra = c
    <3>1. CASE c = r
      BY <1>1, <1>5, <1>6, <3>1
    <3>2. CASE c # r
      BY <1>1, <1>2, <1>6, <1>7, <2>4, <2>6, <3>2 DEF ClocksOK
    <3> QED BY <3>1, <3>2
  <2> QED BY <2>3, <2>5, <2>6 DEF ClocksOK
<1>11. StepOK'
  BY <1>4 DEF StepOK
<1>12. QuietOK'
  BY <1>1, <1>2, <1>4, <1>5, <1>6 DEF QuietOK
<1> QED BY <1>4, <1>6, <1>9, <1>10, <1>11, <1>12 DEF TimersInv

-----------------------------------------------------------------------------
(* timer_remove()                                                          *)

(* What removing a timer does to the list.                                 *)
LEMMA UnlinkList ==
    ASSUME FieldsOK, ListOK, NEW n \in Visited, UnlinkTimer(n)
    PROVE  /\ Visited' = Visited \ {n} /\ ListOK'
           /\ first_timer' \in Nodes \cup {NULL} /\ next' \in [Nodes -> Nodes \cup {NULL}]
<1>1. /\ Visited \subseteq Nodes /\ n \in Nodes /\ n # NULL /\ n \in Visited
      /\ first_timer \in Nodes \cup {NULL} /\ next \in [Nodes -> Nodes \cup {NULL}]
      /\ next[n] \in Nodes \cup {NULL} /\ allocated' = allocated
  BY TimerAssumption DEF Visited, FieldsOK, UnlinkTimer
<1>2. /\ Visited \subseteq allocated
      /\ first_timer = NULL \/ \E m \in Visited: next[m] = NULL
      /\ first_timer # NULL => \A m \in Visited: next[m] # first_timer
      /\ \A l, m \in Visited: next[l] = next[m] /\ next[l] # NULL => l = m
  BY DEF ListOK
<1>3. Linear(first_timer, next)
  BY <1>2, VisitedWalk DEF Linear
<1>4. ASSUME first_timer = n, first_timer' = next[n], next' = next
      PROVE  Visited' = Visited \ {n} /\ ListOK'
  <2>1. Visited' = Visited \ {n}
    BY <1>1, <1>3, <1>4, VisitedWalk, WalkFirstRemoved
  <2>2. PICK e \in Visited: next[e] = NULL
    BY <1>1, <1>2, <1>4
  <2>3. first_timer' = NULL \/ \E m \in Visited': next'[m] = NULL
    BY <1>4, <2>1, <2>2
  <2>4. first_timer' # NULL => \A m \in Visited': next'[m] # first_timer'
    BY <1>1, <1>2, <1>4, <2>1
  <2>5. \A l, m \in Visited': next'[l] = next'[m] /\ next'[l] # NULL => l = m
    BY <1>2, <1>4, <2>1
  <2>6. Visited' \subseteq allocated'
    BY <1>1, <1>2, <2>1
  <2> QED BY <2>1, <2>3, <2>4, <2>5, <2>6 DEF ListOK
<1>5. ASSUME NEW prev \in Visited, next[prev] = n, next' = [next EXCEPT ![prev] = next[n]],
             first_timer' = first_timer
      PROVE  Visited' = Visited \ {n} /\ ListOK'
  <2>1. Visited' = Visited \ {n}
    <3>1. Visited = Walk(first_timer, next) /\ Visited' = Walk(first_timer, next')
      BY <1>5, VisitedWalk
    <3>2. prev \in Walk(first_timer, next)
      BY <3>1
    <3>3. /\ next' \in [Nodes -> Nodes \cup {NULL}] /\ next'[prev] = next[n]
          /\ \A m \in Nodes \ {prev}: next'[m] = next[m]
      BY <1>1, <1>5
    <3>4. next[prev] = n
      BY <1>5
    <3>5. Walk(first_timer, next') = Walk(first_timer, next) \ {n}
      BY <1>1, <1>3, <3>2, <3>3, <3>4, WalkNextRemoved
    <3> QED BY <3>1, <3>5
  <2>2. prev # n
    BY <1>1, <1>3, <1>5, VisitedWalk, NoLoop
  <2>3. next'[prev] = next[n] /\ \A m \in Visited \ {prev}: next'[m] = next[m]
    BY <1>1, <1>5
  <2>4. first_timer' = NULL \/ \E m \in Visited': next'[m] = NULL
    <3>1. CASE first_timer = NULL
      BY <1>5, <3>1
    <3>2. CASE first_timer # NULL
      <4>1. PICK e \in Visited: next[e] = NULL
        BY <1>2, <3>2
      <4>2. CASE e = n
        BY <2>1, <2>2, <2>3, <4>1, <4>2
      <4>3. CASE e # n
        <5>1. e # prev /\ e \in Visited'
          BY <1>1, <1>5, <2>1, <4>1, <4>3
        <5> QED BY <2>3, <4>1, <5>1
      <4> QED BY <4>2, <4>3
    <3> QED BY <3>1, <3>2
  <2>5. first_timer' # NULL => \A m \in Visited': next'[m] # first_timer'
    BY <1>1, <1>2, <1>5, <2>1, <2>3
  <2>6. ASSUME NEW l \in Visited', NEW m \in Visited', next'[l] = next'[m], next'[l] # NULL
        PROVE  l = m
    <3>1. l \in Visited /\ l # n /\ m \in Visited /\ m # n
      BY <2>1
    <3>2. CASE l # prev /\ m # prev
      BY <1>2, <2>3, <2>6, <3>1, <3>2
    <3>3. CASE l = prev /\ m # prev
      BY <1>1, <1>2, <2>3, <2>6, <3>1, <3>3
    <3>4. CASE l # prev /\ m = prev
      BY <1>1, <1>2, <2>3, <2>6, <3>1, <3>4
    <3> QED BY <3>2, <3>3, <3>4
  <2>7. Visited' \subseteq allocated'
    BY <1>1, <1>2, <2>1
  <2> QED BY <2>1, <2>4, <2>5, <2>6, <2>7 DEF ListOK
<1>6. \/ first_timer = n /\ first_timer' = next[n] /\ next' = next
      \/ \E prev \in Visited: /\ next[prev] = n /\ next' = [next EXCEPT ![prev] = next[n]]
                              /\ first_timer' = first_timer
  BY DEF UnlinkTimer
<1>7. Visited' = Visited \ {n} /\ ListOK'
  BY <1>4, <1>5, <1>6
<1>8. first_timer' \in Nodes \cup {NULL} /\ next' \in [Nodes -> Nodes \cup {NULL}]
  BY <1>1, <1>6
<1> QED BY <1>7, <1>8

LEMMA UnlinkTimerInv ==
    ASSUME TimersInv, Do("unlink", op.node, 0), UnlinkTimer(op.node),
           UNCHANGED <<countdown, rtcVars>>
    PROVE  TimersInv' /\ At = "unlink" /\ At' = "free"
<1>1. /\ UNCHANGED <<timers, allocated, countdown, hz, timer, pending_interrupts, irq>>
  BY DEF UnlinkTimer, rtcVars
<1>2. OpOK /\ FieldsOK /\ ListOK /\ ClocksOK /\ StepOK /\ QuietOK
  BY DEF TimersInv
<1>3. op.node \in Nodes \cup {NULL}
  BY <1>2 DEF OpOK
<1>4. /\ OpOK' /\ At = "unlink" /\ At' = "free" /\ op'.rtc = op.rtc /\ op'.node = op.node
  BY <1>2, <1>3, DoStep DEF Following
<1>5. op.rtc \in Rtcs /\ hz[op.rtc] = 0 /\ op.node = timer[op.rtc] /\ op.node # NULL
  BY <1>2, <1>4 DEF StepOK
<1>6. Removed = {} /\ Removed' = {op.node}
  BY <1>4 DEF Removed
<1>7. op.node \in Visited /\ Visited = {timer[d]: d \in Rtcs} \ {NULL}
  BY <1>2, <1>5, <1>6 DEF ClocksOK
<1>8. Visited' = Visited \ {op.node} /\ ListOK'
      /\ first_timer' \in Nodes \cup {NULL} /\ next' \in [Nodes -> Nodes \cup {NULL}]
  BY <1>2, <1>7, UnlinkList
<1>9. FieldsOK'
  BY <1>1, <1>2, <1>8 DEF FieldsOK
<1>10. ClocksOK'
  <2>1. Visited' = {timer'[d]: d \in Rtcs} \ (Removed' \cup {NULL})
    BY <1>1, <1>6, <1>7, <1>8
  <2> QED BY <1>1, <1>2, <1>8, <2>1 DEF ClocksOK
<1>11. StepOK'
  BY <1>1, <1>4, <1>5 DEF StepOK
<1>12. QuietOK'
  BY <1>1, <1>2, <1>4 DEF QuietOK
<1> QED BY <1>4, <1>8, <1>9, <1>10, <1>11, <1>12 DEF TimersInv

LEMMA FreeTimerInv ==
    ASSUME TimersInv, Do("free", op.node, 0), FreeTimer(op.node), UNCHANGED <<countdown, rtcVars>>
    PROVE  TimersInv' /\ At = "free" /\ At' = "forget"
<1>1. /\ UNCHANGED <<first_timer, countdown, hz, timer, pending_interrupts, irq>>
      /\ allocated' = allocated \ {op.node} /\ timers' = [timers EXCEPT ![op.node] = Unused]
      /\ next' = [next EXCEPT ![op.node] = NULL]
  BY DEF FreeTimer, rtcVars
<1>2. OpOK /\ FieldsOK /\ ListOK /\ ClocksOK /\ StepOK /\ QuietOK
  BY DEF TimersInv
<1>3. op.node \in Nodes \cup {NULL}
  BY <1>2 DEF OpOK
<1>4. /\ OpOK' /\ At = "free" /\ At' = "forget" /\ op'.rtc = op.rtc /\ op'.node = op.node
  BY <1>2, <1>3, DoStep DEF Following
<1>5. op.rtc \in Rtcs /\ hz[op.rtc] = 0 /\ op.node = timer[op.rtc] /\ op.node \in Nodes
  BY <1>2, <1>3, <1>4 DEF StepOK
<1>6. Removed = {op.node} /\ Removed' = {op.node}
  BY <1>4 DEF Removed
<1>7. op.node \notin Visited /\ Visited \subseteq Nodes
  BY <1>2, <1>6 DEF ClocksOK, Visited
<1>8. Unused \in TimerFields
  BY TimerAssumption DEF Unused, TimerFields
<1>9. /\ FieldsOK' /\ \A m \in Visited: next'[m] = next[m] /\ timers'[m] = timers[m]
  <2>1. next' \in [Nodes -> Nodes \cup {NULL}] /\ timers' \in [Nodes -> TimerFields]
    BY <1>1, <1>2, <1>5, <1>8 DEF FieldsOK
  <2>2. \A m \in Visited: next'[m] = next[m] /\ timers'[m] = timers[m]
    BY <1>1, <1>2, <1>5, <1>7 DEF FieldsOK
  <2> QED BY <1>1, <1>2, <2>1, <2>2 DEF FieldsOK
<1>10. Visited' = Visited
  <2>1. next' \in [Nodes -> Nodes \cup {NULL}] /\ next \in [Nodes -> Nodes \cup {NULL}]
        /\ first_timer \in Nodes \cup {NULL}
    BY <1>2, <1>9 DEF FieldsOK
  <2>2. Visited = Walk(first_timer, next) /\ Visited' = Walk(first_timer, next')
    BY <1>1, VisitedWalk
  <2>3. \A m \in Walk(first_timer, next): next'[m] = next[m]
    BY <1>9, <2>2
  <2>4. Walk(first_timer, next') = Walk(first_timer, next)
    BY <2>1, <2>3, WalkSame
  <2> QED BY <2>2, <2>4
<1>11. ListOK'
  BY <1>1, <1>2, <1>7, <1>9, <1>10 DEF ListOK
<1>12. ClocksOK' /\ StepOK'
  BY <1>1, <1>2, <1>4, <1>5, <1>6, <1>9, <1>10 DEF ClocksOK, StepOK
<1>13. QuietOK'
  BY <1>1, <1>2, <1>4 DEF QuietOK
<1> QED BY <1>4, <1>9, <1>11, <1>12, <1>13 DEF TimersInv

LEMMA ForgetInv ==
    ASSUME TimersInv, Forget
    PROVE  TimersInv' /\ At = "forget" /\ At' = "idle"
<1>1. /\ Do("forget", op.node, 0) /\ timer' = [timer EXCEPT ![op.rtc] = NULL]
      /\ pending_interrupts' = [pending_interrupts EXCEPT ![op.rtc] = 0]
      /\ UNCHANGED listVars
      /\ UNCHANGED <<first_timer, next, allocated, timers, countdown, hz, irq>>
  BY DEF Forget, listVars
<1>2. OpOK /\ FieldsOK /\ ListOK /\ ClocksOK /\ StepOK /\ QuietOK
  BY DEF TimersInv
<1>3. op.node \in Nodes \cup {NULL}
  BY <1>2 DEF OpOK
<1>4. /\ OpOK' /\ At = "forget" /\ At' = "idle" /\ op' = Idle
  BY <1>1, <1>2, <1>3, DoStep DEF Following
<1>5. op.rtc \in Rtcs /\ hz[op.rtc] = 0 /\ op.node = timer[op.rtc]
  BY <1>2, <1>4 DEF StepOK
<1>6. Removed = {op.node} /\ Removed' = {}
  BY <1>4 DEF Removed
<1>7. Visited' = Visited /\ ListOK'
  BY <1>1, <1>2, SameList
<1>8. /\ timer'[op.rtc] = NULL /\ \A c \in Rtcs \ {op.rtc}: timer'[c] = timer[c]
      /\ pending_interrupts'[op.rtc] = 0
      /\ \A c \in Rtcs \ {op.rtc}: pending_interrupts'[c] = pending_interrupts[c]
      /\ FieldsOK'
  BY <1>1, <1>2, <1>5, RtcAssumption DEF FieldsOK
<1>9. ClocksOK'
  <2>1. {timer'[d]: d \in Rtcs} \ {NULL} = {timer[d]: d \in Rtcs} \ {op.node, NULL}
    BY <1>2, <1>5, <1>8 DEF ClocksOK
  <2>2. Visited' = {timer'[d]: d \in Rtcs} \ (Removed' \cup {NULL})
    BY <1>2, <1>6, <1>7, <2>1 DEF ClocksOK
  <2>3. \A c, d \in Rtcs: timer'[c] = timer'[d] /\ timer'[c] # NULL => c = d
    BY <1>2, <1>8 DEF ClocksOK
  <2>4. NULL \notin Visited
    BY TimerAssumption DEF Visited
  <2>5. \A d \in Rtcs: timer'[d] \in Visited' => timers'[timer'[d]].extra = d
    BY <1>1, <1>2, <1>7, <1>8, <2>4 DEF ClocksOK
  <2> QED BY <2>2, <2>3, <2>5 DEF ClocksOK
<1>10. StepOK'
  BY <1>4 DEF StepOK
<1>11. QuietOK'
  BY <1>1, <1>2, <1>8 DEF QuietOK
<1> QED BY <1>4, <1>7, <1>8, <1>9, <1>10, <1>11 DEF TimersInv

-----------------------------------------------------------------------------
(* Steps that change no list, no clock's timer and no frequency of a       *)
(* clock: what is left to show is what the step itself relied on.          *)

(* A step from one place to another that leaves the timers where they are. *)
LEMMA ClocksKept ==
    ASSUME ClocksOK, Visited' = Visited, timer' = timer,
           \A n \in Nodes: timers'[n].extra = timers[n].extra, Removed = {}, Removed' = {}
    PROVE  ClocksOK'
<1>1. Visited \subseteq Nodes
  BY DEF Visited
<1>2. Visited' = {timer'[d]: d \in Rtcs} \ (Removed' \cup {NULL})
  BY DEF ClocksOK
<1>3. \A d \in Rtcs: timer'[d] \in Visited' => timers'[timer'[d]].extra = d
  BY <1>1 DEF ClocksOK
<1> QED BY <1>2, <1>3 DEF ClocksOK

(* timer_update_frequency()                                                *)
LEMMA UpdateTimerInv ==
    ASSUME TimersInv, UpdateTimer
    PROVE  /\ TimersInv' /\ At \in {"frequency", "read", "store"}
           /\ At' \in {"read", "store", "idle"}
<1>1. /\ UNCHANGED listVars
      /\ UNCHANGED <<first_timer, next, allocated, countdown, hz, timer, pending_interrupts, irq>>
      /\ \/ Do("frequency", op.node, 0) /\ timers' = [timers EXCEPT ![op.node].freq = hz[op.rtc]]
         \/ Do("read", op.node, Interval(timers[op.node].freq)) /\ timers' = timers
         \/ Do("store", op.node, 0) /\ timers' = [timers EXCEPT ![op.node].due = op.reg]
  BY DEF UpdateTimer, SetFrequency, SetNextTick, listVars, rtcVars
<1>2. OpOK /\ FieldsOK /\ ListOK /\ ClocksOK /\ StepOK /\ QuietOK
  BY DEF TimersInv
<1>3. op.node \in Nodes \cup {NULL} /\ op.reg \in Int
  BY <1>2 DEF OpOK
<1>4. At \in {"frequency", "read", "store"}
  BY <1>1 DEF Do, At
<1>5. /\ op.rtc \in Rtcs /\ op.node \in Nodes /\ op.node # NULL /\ op.node = timer[op.rtc]
      /\ hz[op.rtc] # 0 /\ hz[op.rtc] \in Freqs
  BY <1>2, <1>3, <1>4 DEF StepOK, FieldsOK
<1>6. timers[op.node] \in TimerFields /\ Interval(timers[op.node].freq) \in Int
  BY <1>2, <1>5, IntervalType DEF FieldsOK, TimerFields
<1>7. /\ OpOK' /\ At' \in {"read", "store", "idle"} /\ (At' = "idle" => op' = Idle)
      /\ At' # "idle" => op'.rtc = op.rtc /\ op'.node = op.node
  BY <1>1, <1>2, <1>3, <1>6, DoStep DEF Following
<1>8. timers' \in [Nodes -> TimerFields] /\ \A n \in Nodes: timers'[n].extra = timers[n].extra
  <2>1. timers \in [Nodes -> TimerFields]
    BY <1>2 DEF FieldsOK
  <2>2. \/ timers' = [timers EXCEPT ![op.node].freq = hz[op.rtc]]
        \/ timers' = timers
        \/ timers' = [timers EXCEPT ![op.node].due = op.reg]
    BY <1>1
  <2>3. CASE timers' = [timers EXCEPT ![op.node].freq = hz[op.rtc]]
    BY <1>5, <2>1, <2>3 DEF TimerFields
  <2>4. CASE timers' = [timers EXCEPT ![op.node].due = op.reg]
    BY <1>3, <1>5, <2>1, <2>4 DEF TimerFields
  <2> QED BY <2>1, <2>2, <2>3, <2>4
<1>9. FieldsOK' /\ Visited' = Visited /\ ListOK'
  BY <1>1, <1>2, <1>8, SameList DEF FieldsOK
<1>10. Removed = {} /\ Removed' = {}
  BY <1>4, <1>7 DEF Removed
<1>11. ClocksOK'
  BY <1>1, <1>2, <1>8, <1>9, <1>10, ClocksKept
<1>12. StepOK'
  BY <1>1, <1>5, <1>7 DEF StepOK
<1>13. QuietOK'
  BY <1>1, <1>2, <1>4 DEF QuietOK
<1> QED BY <1>4, <1>7, <1>9, <1>11, <1>12, <1>13 DEF TimersInv

(* Acknowledging an interrupt: a clock that is disabled has none to take   *)
(* away, and the register holds none either.                               *)
LEMMA AcknowledgeStepInv ==
    ASSUME TimersInv, LoadPending \/ DecrementPending \/ Deassert
    PROVE  /\ TimersInv' /\ At \in {"load", "decrement", "deassert"}
           /\ At' \in {"decrement", "deassert", "idle"}
<1>1. /\ UNCHANGED listVars
      /\ UNCHANGED <<first_timer, next, allocated, timers, countdown, hz, timer>>
      /\ \/ /\ Do("load", NULL, pending_interrupts[op.rtc])
            /\ UNCHANGED <<pending_interrupts, irq>>
         \/ /\ Do("decrement", NULL, 0) /\ UNCHANGED irq
            /\ \/ /\ op.reg > 0
                  /\ pending_interrupts' = [pending_interrupts EXCEPT ![op.rtc] = op.reg - 1]
               \/ UNCHANGED pending_interrupts
         \/ /\ Do("deassert", NULL, 0) /\ UNCHANGED pending_interrupts
            /\ irq' = [irq EXCEPT ![op.rtc] = FALSE]
  BY DEF LoadPending, DecrementPending, Deassert, listVars, rtcVars
<1>2. OpOK /\ FieldsOK /\ ListOK /\ ClocksOK /\ StepOK /\ QuietOK
  BY DEF TimersInv
<1>3. At \in {"load", "decrement", "deassert"}
  BY <1>1 DEF Do, At
<1>4. op.rtc \in Rtcs
  BY <1>2, <1>3 DEF StepOK
<1>5. pending_interrupts[op.rtc] \in 0..MaxPending
  BY <1>2, <1>4 DEF FieldsOK
<1>6. \/ /\ At = "load" /\ At' = "decrement" /\ op'.reg = pending_interrupts[op.rtc]
         /\ OpOK' /\ op'.rtc = op.rtc /\ UNCHANGED <<pending_interrupts, irq>>
      \/ /\ At = "decrement" /\ At' = "deassert" /\ UNCHANGED irq
         /\ OpOK' /\ op'.rtc = op.rtc
         /\ \/ /\ op.reg > 0
               /\ pending_interrupts' = [pending_interrupts EXCEPT ![op.rtc] = op.reg - 1]
            \/ UNCHANGED pending_interrupts
      \/ /\ At = "deassert" /\ At' = "idle" /\ OpOK' /\ UNCHANGED pending_interrupts
         /\ irq' = [irq EXCEPT ![op.rtc] = FALSE]
  BY <1>1, <1>2, <1>5, DoStep DEF Following
<1>7. OpOK' /\ At' \in {"decrement", "deassert", "idle"}
  BY <1>6
<1>8. /\ pending_interrupts' \in [Rtcs -> 0..MaxPending]
      /\ \A d \in Rtcs: \/ pending_interrupts'[d] = pending_interrupts[d]
                        \/ hz[d] # 0
  <2>1. CASE UNCHANGED pending_interrupts
    BY <1>2, <2>1 DEF FieldsOK
  <2>2. CASE At = "decrement" /\ op.reg > 0
             /\ pending_interrupts' = [pending_interrupts EXCEPT ![op.rtc] = op.reg - 1]
    <3>1. op.reg \in 0..MaxPending /\ (hz[op.rtc] = 0 => op.reg = 0)
      BY <1>2, <2>2 DEF StepOK
    <3>2. hz[op.rtc] # 0 /\ op.reg - 1 \in 0..MaxPending
      BY <2>2, <3>1, RtcAssumption
    <3> QED BY <1>2, <1>4, <2>2, <3>2 DEF FieldsOK
  <2> QED BY <1>6, <2>1, <2>2
<1>9. irq' \in [Rtcs -> BOOLEAN]
  BY <1>2, <1>6 DEF FieldsOK
<1>10. FieldsOK' /\ Visited' = Visited /\ ListOK'
  BY <1>1, <1>2, <1>8, <1>9, SameList DEF FieldsOK
<1>11. Removed = {} /\ Removed' = {}
  BY <1>3, <1>7 DEF Removed
<1>12. ClocksOK'
  BY <1>1, <1>2, <1>10, <1>11, ClocksKept
<1>13. StepOK'
  <2>1. hz[op.rtc] = 0 => pending_interrupts[op.rtc] = 0
    BY <1>2, <1>3, <1>4 DEF QuietOK
  <2> QED BY <1>1, <1>4, <1>5, <1>6, <2>1 DEF StepOK
<1>14. QuietOK'
  BY <1>1, <1>2, <1>3, <1>8 DEF QuietOK
<1> QED BY <1>3, <1>7, <1>10, <1>12, <1>13, <1>14 DEF TimersInv

(* timer_start() and timer_stop() set up the signal.                       *)
LEMMA SetSignalInv ==
    ASSUME TimersInv, SetSignal
    PROVE  /\ TimersInv' /\ timer_is_running' = timer_is_running
           /\ \/ At = "install" /\ At' = "arm" /\ handled' = TRUE /\ armed' = armed
              \/ At = "arm" /\ At' = "idle" /\ armed' = TRUE /\ handled' = handled
              \/ At = "disarm" /\ At' = "default" /\ armed' = FALSE /\ handled' = handled
              \/ At = "default" /\ At' = "idle" /\ handled' = FALSE /\ armed' = armed
<1>1. /\ UNCHANGED listVars
      /\ UNCHANGED <<first_timer, next, allocated, timers, countdown, hz, timer,
                     pending_interrupts, irq, timer_is_running>>
      /\ \/ Do("install", NULL, 0) /\ handled' = TRUE /\ armed' = armed
         \/ Do("arm", NULL, 0) /\ armed' = TRUE /\ handled' = handled
         \/ Do("disarm", NULL, 0) /\ armed' = FALSE /\ handled' = handled
         \/ Do("default", NULL, 0) /\ handled' = FALSE /\ armed' = armed
  BY DEF SetSignal, listVars, rtcVars
<1>2. OpOK /\ FieldsOK /\ ListOK /\ ClocksOK /\ StepOK /\ QuietOK
  BY DEF TimersInv
<1>3. /\ OpOK'
      /\ \/ At = "install" /\ At' = "arm" /\ handled' = TRUE /\ armed' = armed
         \/ At = "arm" /\ At' = "idle" /\ armed' = TRUE /\ handled' = handled
         \/ At = "disarm" /\ At' = "default" /\ armed' = FALSE /\ handled' = handled
         \/ At = "default" /\ At' = "idle" /\ handled' = FALSE /\ armed' = armed
  BY <1>1, <1>2, DoStep DEF Following
<1>4. At \in {"install", "arm", "disarm", "default"} /\ At' \in {"arm", "default", "idle"}
  BY <1>3
<1>5. FieldsOK' /\ Visited' = Visited /\ ListOK'
  BY <1>1, <1>2, SameList DEF FieldsOK
<1>6. Removed = {} /\ Removed' = {}
  BY <1>4 DEF Removed
<1>7. ClocksOK'
  BY <1>1, <1>2, <1>5, <1>6, ClocksKept
<1>8. StepOK'
  BY <1>4 DEF StepOK
<1>9. QuietOK'
  BY <1>1, <1>2, <1>4 DEF QuietOK
<1>10. TimersInv'
  BY <1>3, <1>5, <1>7, <1>8, <1>9 DEF TimersInv
<1> QED BY <1>1, <1>3, <1>10

-----------------------------------------------------------------------------
(* SIGALRM, at any step of an operation.                                   *)

LEMMA AdvanceType ==
    ASSUME NEW advance \in Advances
    PROVE  advance \in Int
<1>1. Step \in Int /\ \A l \in Lags: l \in Int
  BY TimerAssumption
<1>2. \A l \in Int: l \div 2 \in Int
  OBVIOUS
<1> QED BY <1>1, <1>2 DEF Advances

LEMMA TicksType ==
    ASSUME FieldsOK, NEW n \in Nodes, NEW advance \in Int
    PROVE  Ticks(n, advance) \in Nat
<1>1. timers[n].due \in Int /\ Interval(timers[n].freq) \in Nat \ {0}
  BY IntervalType DEF FieldsOK, TimerFields
<1> DEFINE due == timers[n].due - advance
           interval == Interval(timers[n].freq)
<1>2. due \in Int /\ interval \in Nat \ {0}
  BY <1>1
<1>3. Ticks(n, advance) = IF n \notin Visited \/ due > 0 THEN 0 ELSE (-due) \div interval + 1
  BY DEF Ticks
<1> HIDE DEF due, interval
<1>4. due > 0 \/ (-due) \div interval \in Nat
  BY <1>2
<1> QED BY <1>2, <1>3, <1>4

(* What the handler does to the timers and to the counts.                  *)
LEMMA HandledTimers ==
    ASSUME FieldsOK, NEW advance \in Int, HandleSignal(advance)
    PROVE  /\ timers' \in [Nodes -> TimerFields] /\ countdown' \in 0..SyncEvery
           /\ \A n \in Nodes: timers'[n].extra = timers[n].extra
<1>1. timers \in [Nodes -> TimerFields] /\ countdown \in 0..SyncEvery /\ SyncEvery \in Nat
  BY TimerAssumption DEF FieldsOK
<1>2. countdown' \in 0..SyncEvery
  <2>1. countdown' = IF countdown = 0 THEN SyncEvery ELSE countdown - 1
    BY DEF HandleSignal
  <2>2. countdown = 0 \/ countdown - 1 \in 0..SyncEvery
    BY <1>1
  <2> QED BY <1>1, <2>1, <2>2
<1>3. ASSUME NEW n \in Nodes
      PROVE  timers'[n] \in TimerFields /\ timers'[n].extra = timers[n].extra
  <2> DEFINE ticks == Ticks(n, advance)
             interval == Interval(timers[n].freq)
             later == timers[n].due - advance + ticks * interval
             due == IF n \in allocated THEN later ELSE timers[n].due
  <2>1. timers[n] \in TimerFields /\ timers[n].due \in Int
    BY <1>1 DEF TimerFields
  <2>2. ticks \in Int /\ interval \in Int
    BY <1>1, TicksType, IntervalType DEF TimerFields
  <2>3. timers'[n] = [timers[n] EXCEPT !.due = due]
    BY DEF HandleSignal
  <2>4. later \in Int
    <3> HIDE DEF ticks, interval
    <3>1. ticks * interval \in Int
      BY <2>2
    <3> QED BY <2>1, <3>1
  <2>5. due \in Int
    BY <2>1, <2>4
  <2> HIDE DEF due
  <2> QED BY <2>1, <2>3, <2>5 DEF TimerFields
<1>4. timers' = [n \in Nodes |-> timers'[n]]
  BY DEF HandleSignal
<1> QED BY <1>2, <1>3, <1>4

LEMMA CountedType ==
    ASSUME FieldsOK, NEW advance \in Int, pending_interrupts' = Counted(advance)
    PROVE  /\ pending_interrupts' \in [Rtcs -> 0..MaxPending]
           /\ \A d \in Rtcs: \/ pending_interrupts'[d] = pending_interrupts[d]
                             \/ \E n \in Visited: timers[n].extra = d
<1>1. ASSUME NEW d \in Rtcs
      PROVE  /\ pending_interrupts'[d] \in 0..MaxPending
             /\ \/ pending_interrupts'[d] = pending_interrupts[d]
                \/ \E n \in Visited: timers[n].extra = d
  <2> DEFINE mine == {n \in Visited : timers[n].extra = d}
             ticks == Ticks(CHOOSE n \in mine : TRUE, advance)
  <2>1. pending_interrupts[d] \in 0..MaxPending /\ MaxPending \in Nat
    BY RtcAssumption DEF FieldsOK
  <2>2. pending_interrupts'[d] = IF mine = {} THEN pending_interrupts[d]
                                 ELSE Count(pending_interrupts[d], ticks)
    BY DEF Counted
  <2>3. CASE mine = {}
    BY <2>1, <2>2, <2>3
  <2>4. CASE mine # {}
    <3>1. (CHOOSE n \in mine : TRUE) \in mine
      BY <2>4
    <3>2. (CHOOSE n \in mine : TRUE) \in Nodes
      BY <3>1 DEF Visited
    <3>3. ticks \in Nat
      BY <3>2, TicksType
    <3>4. pending_interrupts'[d] = Count(pending_interrupts[d], ticks)
      BY <2>2, <2>4
    <3> HIDE DEF ticks
    <3>5. pending_interrupts'[d] \in 0..MaxPending
      BY <2>1, <3>3, <3>4 DEF Count
    <3> QED BY <3>1, <3>5
  <2> QED BY <2>3, <2>4
<1>2. pending_interrupts' = [d \in Rtcs |-> pending_interrupts'[d]]
  BY DEF Counted
<1> QED BY <1>1, <1>2

LEMMA SigalrmInv ==
    ASSUME TimersInv, NEW advance \in Advances, Sigalrm(advance)
    PROVE  TimersInv' /\ At' = At /\ UNCHANGED signalVars
<1>1. /\ UNCHANGED listVars /\ UNCHANGED signalVars
      /\ UNCHANGED <<first_timer, next, allocated, hz, timer, irq>>
      /\ HandleSignal(advance) /\ pending_interrupts' = Counted(advance)
      /\ op.signals < MaxBurst \/ op = Idle
  BY DEF Sigalrm, listVars
<1>2. OpOK /\ FieldsOK /\ ListOK /\ ClocksOK /\ StepOK /\ QuietOK
  BY DEF TimersInv
<1>3. advance \in Int
  BY AdvanceType
<1>4. /\ OpOK' /\ At' = At /\ op'.rtc = op.rtc /\ op'.node = op.node
      /\ At = "store" \/ op'.reg = op.reg
  <2>1. CASE op = Idle
    <3>1. op' = op
      BY <2>1 DEF Sigalrm
    <3> QED BY <1>2, <3>1 DEF OpOK, At
  <2>2. CASE op # Idle
    <3> DEFINE later == IF Head(op.steps) = "store" THEN op.reg - advance ELSE op.reg
    <3>1. op' = [op EXCEPT !.signals = op.signals + 1, !.reg = later]
      BY <2>2 DEF Sigalrm
    <3>2. op.steps # <<>> /\ op.reg \in Int /\ op.signals \in 0..MaxBurst
          /\ op.signals < MaxBurst
      BY <1>1, <1>2, <2>2 DEF OpOK
    <3>3. later \in Int /\ (Head(op.steps) = "store" \/ later = op.reg)
      BY <1>3, <3>2
    <3> HIDE DEF later
    <3>4. /\ op' = [steps |-> op'.steps, rtc |-> op'.rtc, node |-> op'.node, reg |-> op'.reg,
                    signals |-> op'.signals]
          /\ op'.steps = op.steps /\ op'.rtc = op.rtc /\ op'.node = op.node /\ op'.reg = later
          /\ op'.signals = op.signals + 1
      BY <1>2, <3>1 DEF OpOK
    <3>5. op'.signals \in 0..MaxBurst
      BY <3>2, <3>4, RtcAssumption
    <3>6. OpOK'
      BY <1>2, <3>2, <3>3, <3>4, <3>5 DEF OpOK
    <3>7. At' = At
      BY <3>4 DEF At
    <3>8. At = "store" \/ op'.reg = op.reg
      BY <3>2, <3>3, <3>4 DEF At
    <3> QED BY <3>4, <3>6, <3>7, <3>8
  <2> QED BY <2>1, <2>2
<1>5. /\ timers' \in [Nodes -> TimerFields] /\ countdown' \in 0..SyncEvery
      /\ \A n \in Nodes: timers'[n].extra = timers[n].extra
  BY <1>1, <1>2, <1>3, HandledTimers
<1>6. /\ pending_interrupts' \in [Rtcs -> 0..MaxPending]
      /\ \A d \in Rtcs: \/ pending_interrupts'[d] = pending_interrupts[d]
                        \/ \E n \in Visited: timers[n].extra = d
  BY <1>1, <1>2, <1>3, CountedType
<1>7. FieldsOK' /\ Visited' = Visited /\ ListOK'
  BY <1>1, <1>2, <1>5, <1>6, SameList DEF FieldsOK
<1>8. Visited \subseteq Nodes /\ Removed' = Removed
  BY <1>4 DEF Visited, Removed
<1>9. ClocksOK'
  BY <1>1, <1>2, <1>5, <1>7, <1>8 DEF ClocksOK
<1>10. StepOK'
  <2>1. At \in {"link", "publish"} => op.node \in Nodes
    BY <1>2 DEF StepOK, FieldsOK
  <2> QED BY <1>1, <1>2, <1>4, <1>5, <1>7, <2>1 DEF StepOK
<1>11. QuietOK'
  <2> SUFFICES ASSUME NEW d \in Rtcs, hz[d] = 0, pending_interrupts[d] = 0, timer[d] = NULL
               PROVE  pending_interrupts'[d] = 0
    BY <1>1, <1>2, <1>4 DEF QuietOK
  <2>1. ASSUME NEW n \in Visited PROVE timers[n].extra # d
    <3>1. PICK c \in Rtcs: n = timer[c]
      BY <1>2 DEF ClocksOK
    <3>2. n # NULL
      BY <1>8, TimerAssumption
    <3> QED BY <1>2, <3>1, <3>2 DEF ClocksOK
  <2> QED BY <1>6, <2>1
<1> QED BY <1>1, <1>4, <1>7, <1>9, <1>10, <1>11 DEF TimersInv

-----------------------------------------------------------------------------
(* The invariant holds at first, and every step keeps it.                  *)

LEMMA InitInv == Init => TimersInv /\ SignalOK
<1> SUFFICES ASSUME Init PROVE TimersInv /\ SignalOK
  OBVIOUS
<1>1. /\ first_timer = NULL /\ next = [n \in Nodes |-> NULL]
      /\ timers = [n \in Nodes |-> Unused] /\ allocated = {} /\ countdown = 0
      /\ timer_is_running = FALSE /\ armed = FALSE /\ handled = FALSE
      /\ hz = [d \in Rtcs |-> 0] /\ timer = [d \in Rtcs |-> NULL]
      /\ pending_interrupts = [d \in Rtcs |-> 0] /\ irq = [d \in Rtcs |-> FALSE] /\ op = Idle
  BY DEF Init, InitTimer
<1>2. OpOK /\ At = "idle"
  BY <1>1, IdleOp, RtcAssumption DEF OpOK, At, Plans
<1>3. Unused \in TimerFields
  BY TimerAssumption DEF Unused, TimerFields
<1>4. FieldsOK
  BY <1>1, <1>3, TimerAssumption, RtcAssumption DEF FieldsOK
<1>5. Visited = {}
  <2>1. Closed({}) /\ {} \in SUBSET Nodes
    BY <1>1 DEF Closed
  <2> QED BY <2>1 DEF Visited
<1>6. ListOK
  BY <1>1, <1>5 DEF ListOK
<1>7. ClocksOK
  BY <1>1, <1>2, <1>5 DEF ClocksOK, Removed
<1>8. StepOK /\ QuietOK /\ SignalOK
  BY <1>1, <1>2 DEF StepOK, QuietOK, SignalOK
<1> QED BY <1>2, <1>4, <1>6, <1>7, <1>8 DEF TimersInv

(* A step of timer_add() or timer_remove().                                *)
LEMMA AddRemoveInv ==
    ASSUME TimersInv, AddTimer \/ RemoveTimer
    PROVE  TimersInv' /\ UNCHANGED signalVars
           /\ At \in {"new", "link", "unlink", "free"}
           /\ At' \in {"link", "publish", "free", "forget"}
<1>1. UNCHANGED <<countdown, rtcVars>> /\ UNCHANGED signalVars
  BY DEF AddTimer, RemoveTimer
<1>2. \/ \E n \in Nodes: Do("new", n, 0) /\ NewTimer(n, hz[op.rtc], op.rtc)
      \/ Do("link", op.node, 0) /\ LinkTimer(op.node)
      \/ Do("unlink", op.node, 0) /\ UnlinkTimer(op.node)
      \/ Do("free", op.node, 0) /\ FreeTimer(op.node)
  BY DEF AddTimer, RemoveTimer
<1>3. ASSUME NEW n \in Nodes, Do("new", n, 0), NewTimer(n, hz[op.rtc], op.rtc)
      PROVE  TimersInv' /\ At = "new" /\ At' = "link"
  BY <1>1, <1>3, NewTimerInv
<1>4. CASE Do("link", op.node, 0) /\ LinkTimer(op.node)
  BY <1>1, <1>4, LinkTimerInv
<1>5. CASE Do("unlink", op.node, 0) /\ UnlinkTimer(op.node)
  BY <1>1, <1>5, UnlinkTimerInv
<1>6. CASE Do("free", op.node, 0) /\ FreeTimer(op.node)
  BY <1>1, <1>6, FreeTimerInv
<1> QED BY <1>1, <1>2, <1>3, <1>4, <1>5, <1>6

(* Steps that have nothing to do with the signal.                          *)
LEMMA SignalKept ==
    ASSUME SignalOK, UNCHANGED signalVars,
           At \notin {"install", "arm", "disarm", "default"},
           At' \notin {"install", "arm", "disarm", "default"}
    PROVE  SignalOK'
  BY DEF SignalOK, signalVars

LEMMA WorkInv ==
    ASSUME TimersInv, SignalOK, Work
    PROVE  TimersInv' /\ SignalOK'
<1>1. CASE AddTimer \/ RemoveTimer
  BY <1>1, AddRemoveInv, SignalKept
<1>2. CASE PublishAndKeep
  <2>1. UNCHANGED signalVars
    BY <1>2 DEF PublishAndKeep
  <2> QED BY <1>2, <2>1, PublishTimerInv, SignalKept
<1>3. CASE Forget
  <2>1. UNCHANGED signalVars
    BY <1>3 DEF Forget
  <2> QED BY <1>3, <2>1, ForgetInv, SignalKept
<1>4. CASE UpdateTimer
  <2>1. UNCHANGED signalVars
    BY <1>4 DEF UpdateTimer
  <2> QED BY <1>4, <2>1, UpdateTimerInv, SignalKept
<1>5. CASE LoadPending \/ DecrementPending \/ Deassert
  <2>1. UNCHANGED signalVars
    BY <1>5 DEF LoadPending, DecrementPending, Deassert
  <2> QED BY <1>5, <2>1, AcknowledgeStepInv, SignalKept
<1>6. CASE SetSignal
  <2>1. /\ TimersInv' /\ timer_is_running' = timer_is_running
        /\ \/ At = "install" /\ At' = "arm" /\ handled' = TRUE /\ armed' = armed
           \/ At = "arm" /\ At' = "idle" /\ armed' = TRUE /\ handled' = handled
           \/ At = "disarm" /\ At' = "default" /\ armed' = FALSE /\ handled' = handled
           \/ At = "default" /\ At' = "idle" /\ handled' = FALSE /\ armed' = armed
    BY <1>6, SetSignalInv
  <2>2. CASE At = "install" /\ At' = "arm" /\ handled' = TRUE /\ armed' = armed
    BY <2>1, <2>2 DEF SignalOK
  <2>3. CASE At = "arm" /\ At' = "idle" /\ armed' = TRUE /\ handled' = handled
    BY <2>1, <2>3 DEF SignalOK
  <2>4. CASE At = "disarm" /\ At' = "default" /\ armed' = FALSE /\ handled' = handled
    BY <2>1, <2>4 DEF SignalOK
  <2>5. CASE At = "default" /\ At' = "idle" /\ handled' = FALSE /\ armed' = armed
    BY <2>1, <2>5 DEF SignalOK
  <2> QED BY <2>1, <2>2, <2>3, <2>4, <2>5
<1> QED BY <1>1, <1>2, <1>3, <1>4, <1>5, <1>6 DEF Work

(* An operation begins.                                                    *)
LEMMA BeginInv ==
    ASSUME TimersInv, SignalOK, NEW d \in Rtcs,
           (\E h \in Freqs \cup {0}: WriteHz(d, h)) \/ Acknowledge(d) \/ DeviceTick(d)
    PROVE  TimersInv' /\ SignalOK'
<1>1. UNCHANGED signalVars
  BY DEF WriteHz, Acknowledge, DeviceTick
<1>2. op = Idle /\ At = "idle"
  <2>1. op = Idle
    BY DEF WriteHz, Acknowledge, DeviceTick, Begin
  <2> QED BY <2>1, IdleOp DEF At
<1>3. CASE \E h \in Freqs \cup {0}: WriteHz(d, h)
  BY <1>1, <1>2, <1>3, WriteHzInv, SignalKept
<1>4. CASE Acknowledge(d)
  BY <1>1, <1>2, <1>4, AcknowledgeInv, SignalKept
<1>5. CASE DeviceTick(d)
  <2>1. At' = At
    BY <1>5 DEF DeviceTick, At
  <2> QED BY <1>1, <1>2, <1>5, <2>1, DeviceTickInv, SignalKept
<1> QED BY <1>3, <1>4, <1>5

(* timer_start() and timer_stop().                                         *)
LEMMA StartStopSignal ==
    ASSUME TimersInv, SignalOK, TimerStart \/ TimerStop
    PROVE  TimersInv' /\ SignalOK'
<1>1. TimersInv' /\ op = Idle /\ At' = IF TimerStart THEN "install" ELSE "disarm"
  BY StartStopInv
<1>2. At = "idle"
  BY <1>1, IdleOp DEF At
<1>3. armed' = armed /\ handled' = handled
  BY DEF TimerStart, TimerStop
<1>4. \/ At' = "install" /\ ~timer_is_running /\ timer_is_running' = TRUE
      \/ At' = "disarm" /\ timer_is_running' = FALSE
  BY <1>1 DEF TimerStart, TimerStop
<1>5. SignalOK'
  BY <1>2, <1>3, <1>4 DEF SignalOK
<1> QED BY <1>1, <1>5

LEMMA NextInv == TimersInv /\ SignalOK /\ [Next]_vars => TimersInv' /\ SignalOK'
<1> SUFFICES ASSUME TimersInv, SignalOK, [Next]_vars PROVE TimersInv' /\ SignalOK'
  OBVIOUS
<1>1. CASE Next
  <2>1. ASSUME NEW d \in Rtcs,
               (\E h \in Freqs \cup {0}: WriteHz(d, h)) \/ Acknowledge(d) \/ DeviceTick(d)
        PROVE  TimersInv' /\ SignalOK'
    BY <2>1, BeginInv
  <2>2. CASE TimerStart \/ TimerStop
    BY <2>2, StartStopSignal
  <2>3. CASE Work
    BY <2>3, WorkInv
  <2>4. CASE Signal
    <3>1. PICK advance \in Advances: Sigalrm(advance)
      BY <2>4 DEF Signal
    <3>2. TimersInv' /\ At' = At /\ UNCHANGED signalVars
      BY <3>1, SigalrmInv
    <3>3. SignalOK'
      BY <3>2 DEF SignalOK, signalVars
    <3> QED BY <3>2, <3>3
  <2> QED BY <1>1, <2>1, <2>2, <2>3, <2>4 DEF Next
<1>2. CASE UNCHANGED vars
  <2>1. /\ UNCHANGED <<first_timer, next, allocated, timers, countdown, hz, timer,
                       pending_interrupts, irq, op, timer_is_running, armed, handled>>
        /\ UNCHANGED listVars
    BY <1>2 DEF vars, listVars, signalVars, rtcVars
  <2>2. Visited' = Visited /\ At' = At
    BY <2>1, SameList DEF At
  <2>3. OpOK' /\ FieldsOK' /\ ListOK' /\ ClocksOK' /\ StepOK' /\ QuietOK' /\ SignalOK'
    BY <2>1, <2>2 DEF TimersInv, OpOK, FieldsOK, ListOK, ClocksOK, Removed, StepOK, QuietOK,
                      SignalOK
  <2> QED BY <2>3 DEF TimersInv
<1> QED BY <1>1, <1>2

LEMMA Timers == Spec => [](TimersInv /\ SignalOK)
  BY InitInv, NextInv, PTL DEF Spec

-----------------------------------------------------------------------------

(* Every variable of the timers and the clocks keeps its type; the         *)
(* counters stay within their bounds at any number of signals.             *)
THEOREM TypeCorrect == Spec => []TypeOK
<1>1. TimersInv /\ SignalOK => TypeOK
  <2> SUFFICES ASSUME TimersInv, SignalOK PROVE TypeOK
    OBVIOUS
  <2>1. OpOK /\ FieldsOK
    BY DEF TimersInv
  <2>2. op.steps \in Seq(StepNames)
    <3>1. CASE op.steps = <<>>
      BY <3>1
    <3>2. CASE op.steps # <<>>
      BY <2>1, <3>2, PlansOK DEF OpOK, PlanOK
    <3> QED BY <3>1, <3>2
  <2>3. op \in [steps : Seq(StepNames), rtc : Rtcs \cup {NULL}, node : Nodes \cup {NULL},
                reg : Int, signals : 0..MaxBurst]
    BY <2>1, <2>2 DEF OpOK
  <2> QED BY <2>1, <2>3 DEF TypeOK, FieldsOK, SignalOK
<1> QED BY <1>1, Timers, PTL

(* Whenever the signal arrives, its handler walks along a list that ends   *)
(* and holds no freed timer; between two operations the list holds the     *)
(* timers of all clocks (timer_add(), timer_remove(), timer_tick()).       *)
THEOREM ListSound == Spec => []HandlerSeesTimers
<1>1. TimersInv => HandlerSeesTimers
  <2> SUFFICES ASSUME TimersInv PROVE HandlerSeesTimers
    OBVIOUS
  <2>1. ListOK /\ ClocksOK
    BY DEF TimersInv
  <2>2. op = Idle => Removed = {}
    BY IdleOp DEF Removed, At
  <2>3. op = Idle => Visited = {timer[d] : d \in Rtcs} \ {NULL}
    BY <2>1, <2>2 DEF ClocksOK
  <2> QED BY <2>1, <2>3 DEF HandlerSeesTimers, ListOK
<1> QED BY <1>1, Timers, PTL

(* A clock that the guest has disabled has no interrupt left to raise,     *)
(* wherever the signal came while it was disabled or acknowledged          *)
(* (dev_rtc.c).                                                            *)
THEOREM DisabledIsQuiet == Spec => []QuietWhenDisabled
<1>1. TimersInv => QuietWhenDisabled
  <2>1. op = Idle => At = "idle"
    BY IdleOp DEF At
  <2> QED BY <2>1 DEF TimersInv, QuietOK, QuietWhenDisabled
<1> QED BY <1>1, Timers, PTL

(* SIGALRM is never sent while it has its default action (timer_start(),   *)
(* timer_stop()).                                                          *)
THEOREM AlwaysHandled == Spec => []SignalHandled
<1>1. SignalOK => SignalHandled
  BY DEF SignalOK, SignalHandled
<1> QED BY <1>1, Timers, PTL

=============================================================================
