---------------------------- MODULE TimerService ----------------------------
(***************************************************************************)
(* What the timers promise: each counts down on its own, and every time it *)
(* reaches 0 its callback is owed once; a periodic timer starts again.     *)
(***************************************************************************)
EXTENDS Integers

CONSTANTS Timer, Off

VARIABLES
  left,    \* ticks, or Off for a timer that does not run
  period,  \* of a timer that starts again, or 0
  owed     \* callbacks

vars == <<left, period, owed>>

Init ==
  /\ left = [t \in Timer |-> Off]
  /\ period \in [Timer -> {0}]
  /\ owed = [t \in Timer |-> 0]

\* A state of the service; each kind of step, from one to another.
State == [left |-> left, period |-> period, owed |-> owed]

Starts(now, next) ==
  \E t \in Timer :
    /\ next.left[t] \in Nat \ {0} /\ next.period[t] \in {0, next.left[t]}
    /\ next = [now EXCEPT !.left[t] = next.left[t], !.period[t] = next.period[t]]

Stops(now, next) ==
  \E t \in Timer : now.left[t] # Off /\ next = [now EXCEPT !.left[t] = Off, !.period[t] = 0]

Calls(now, next) ==
  \E t \in Timer : now.owed[t] > 0 /\ next = [now EXCEPT !.owed[t] = @ - 1]

Ticked(now) ==
  [left   |-> [t \in Timer |-> CASE now.left[t] = Off -> Off
                                 [] now.left[t] = 1   -> IF now.period[t] = 0 THEN Off
                                                         ELSE now.period[t]
                                 [] OTHER             -> now.left[t] - 1],
   period |-> now.period,
   owed   |-> [t \in Timer |-> IF now.left[t] = 1 THEN now.owed[t] + 1 ELSE now.owed[t]]]

Step(now, next) ==
  Starts(now, next) \/ Stops(now, next) \/ Calls(now, next) \/ next = Ticked(now)

Next == \E now \in {State}, next \in {State'} : Step(now, next)

Spec == Init /\ [][Next]_vars
===========================================================================
