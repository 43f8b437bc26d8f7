------------------------------ MODULE Timeouts ------------------------------
(***************************************************************************)
(* What the delay list and the wait list of the kernel promise: every      *)
(* blocked thread has its own timeout, and a tick takes one from each.     *)
(* While the processor slept several ticks may go at once, none of which   *)
(* ends a timeout.                                                         *)
(***************************************************************************)
EXTENDS Integers

CONSTANTS Thread, Forever, Off  \* no timeout; not blocked

VARIABLE left  \* of each thread

Init == left = [t \in Thread |-> Off]

\* The timeouts now and after each kind of step.
Starts(now, next) ==
  \E t \in Thread :
    /\ now[t] = Off
    /\ next[t] \in (Nat \ {0}) \cup {Forever}
    /\ next = [now EXCEPT ![t] = next[t]]

Stops(now, next) ==
  \E t \in Thread : now[t] # Off /\ next = [now EXCEPT ![t] = Off]

Ticked(now) == [t \in Thread |-> CASE now[t] \in {Off, Forever} -> now[t]
                                   [] now[t] = 1               -> Off
                                   [] OTHER                     -> now[t] - 1]

Running(now) == {t \in Thread : now[t] \notin {Off, Forever}}

Slept(now, next) ==
  /\ \A t \in Running(now) : next[t] \in Nat \ {0}
  /\ \E n \in {now[t] - next[t] : t \in Running(now)} :
       next = [t \in Thread |-> IF t \in Running(now) THEN now[t] - n ELSE now[t]]

Step(now, next) ==
  Starts(now, next) \/ Stops(now, next) \/ next = Ticked(now) \/ Slept(now, next)

Next == \E now \in {left}, next \in {left'} : Step(now, next)

Spec == Init /\ [][Next]_left
===========================================================================
