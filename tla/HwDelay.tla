------------------------------ MODULE HwDelay ------------------------------
(***************************************************************************)
(* The delay in microseconds (bsp/driver/drv_timer.c): a thread sets the   *)
(* hardware timer and waits for the semaphore that its interrupt releases. *)
(* There is one timer and one semaphore for all threads.                   *)
(*                                                                         *)
(* A thread takes one step per write to a register.  When Overlap holds,   *)
(* another thread may ask for a delay meanwhile.                           *)
(***************************************************************************)
EXTENDS Naturals, FiniteSetsExt

CONSTANTS
  Thread,
  Us,             \* delays that are asked for, in counts of the timer
  Overlap

DelayAssumption ==
  /\ Us \subseteq Nat \ {0} /\ Us # {}
  /\ Overlap \in BOOLEAN

VARIABLES
  cnt, car,       \* the counter and the value at which it overflows
  enabled,        \* TIMER_CTL0_CEN
  interrupts,     \* TIMER_INT_UP
  timer_sem,
  at, us,         \* what each thread is doing, and the delay it has asked for
  elapsed         \* history: counts since the thread has started the timer

vars == <<cnt, car, enabled, interrupts, timer_sem, at, us, elapsed>>

MostUs == Max(Us)

TypeOK ==
  /\ cnt \in 0 .. MostUs /\ car \in 0 .. MostUs
  /\ enabled \in BOOLEAN /\ interrupts \in BOOLEAN
  /\ timer_sem \in 0 .. 1
  /\ at \in [Thread -> {"idle", "reset", "load", "allow", "start", "wait"}]
  /\ us \in [Thread -> Us]
  /\ elapsed \in [Thread -> 0 .. MostUs]

\* rt_hw_timer_init
Init ==
  /\ cnt = 0 /\ car = MostUs
  /\ enabled = FALSE /\ interrupts = FALSE
  /\ timer_sem = 0
  /\ at = [t \in Thread |-> "idle"]
  /\ us \in [Thread -> Us]
  /\ elapsed = [t \in Thread |-> 0]

---------------------------------------------------------------------------
\* rt_hw_us_delay

Goes(t, from, to) == at[t] = from /\ at' = [at EXCEPT ![t] = to]

Delays(t, n) ==
  /\ Goes(t, "idle", "reset")
  /\ Overlap \/ \A u \in Thread : at[u] = "idle"
  /\ us' = [us EXCEPT ![t] = n]
  /\ UNCHANGED <<cnt, car, enabled, interrupts, timer_sem, elapsed>>

Resets(t) ==
  /\ Goes(t, "reset", "load")
  /\ cnt' = 0
  /\ UNCHANGED <<car, enabled, interrupts, timer_sem, us, elapsed>>

\* Mutant of Loads: the value of an earlier delay stays.
Loads_Not(t) ==
  /\ Goes(t, "load", "allow")
  /\ car' = IF car = MostUs THEN us[t] - 1 ELSE car
  /\ UNCHANGED <<cnt, enabled, interrupts, timer_sem, us, elapsed>>

Loads(t) ==
  /\ Goes(t, "load", "allow")
  /\ car' = us[t] - 1
  /\ UNCHANGED <<cnt, enabled, interrupts, timer_sem, us, elapsed>>

Allows(t) ==
  /\ Goes(t, "allow", "start")
  /\ interrupts' = TRUE
  /\ UNCHANGED <<cnt, car, enabled, timer_sem, us, elapsed>>

Starts(t) ==
  /\ Goes(t, "start", "wait")
  /\ enabled' = TRUE
  /\ elapsed' = [elapsed EXCEPT ![t] = 0]
  /\ UNCHANGED <<cnt, car, interrupts, timer_sem, us>>

Returns(t) ==
  /\ Goes(t, "wait", "idle")
  /\ timer_sem > 0
  /\ timer_sem' = timer_sem - 1
  /\ UNCHANGED <<cnt, car, enabled, interrupts, us, elapsed>>

---------------------------------------------------------------------------
\* Threads that have started the timer count with it.
Counted == [t \in Thread |-> IF at[t] = "wait" /\ elapsed[t] <= MostUs THEN elapsed[t] + 1
                                                                     ELSE elapsed[t]]

\* The timer counts up; past the value of car it goes on to the end of its range.
Count ==
  /\ enabled /\ cnt # car /\ cnt < MostUs
  /\ cnt' = cnt + 1
  /\ elapsed' = Counted
  /\ UNCHANGED <<car, enabled, interrupts, timer_sem, at, us>>

\* The overflow, and TIMER1_IRQHandler when its interrupt is on.
Overflow ==
  /\ enabled /\ (cnt = car \/ cnt = MostUs)
  /\ cnt' = 0
  /\ elapsed' = Counted
  /\ interrupts' = FALSE
  /\ IF interrupts THEN enabled' = FALSE /\ timer_sem' = 1
                   ELSE UNCHANGED <<enabled, timer_sem>>
  /\ UNCHANGED <<car, at, us>>

---------------------------------------------------------------------------
ThreadStep(t) == Resets(t) \/ Loads(t) \/ Allows(t) \/ Starts(t) \/ Returns(t)
TimerStep == Count \/ Overflow

Next == \/ \E t \in Thread : ThreadStep(t) \/ \E n \in Us : Delays(t, n)
        \/ TimerStep

Spec == Init /\ [][Next]_vars

\* The timer counts, threads that can go on do so, and a token that is released
\* again and again reaches every thread that waits for it.
Fairness ==
  /\ WF_vars(TimerStep)
  /\ \A t \in Thread : WF_vars(ThreadStep(t)) /\ SF_vars(Returns(t))

FairSpec == Spec /\ Fairness
---------------------------------------------------------------------------
\* Properties

Lasts == \A t \in Thread : Returns(t) => elapsed[t] = us[t]

\* A delay lasts as long as asked for, whatever delays came before it: no token of
\* theirs is left, and the counter starts anew.
LastsLongEnough == [][Lasts]_vars

\* drv_timer.c:74, a delay "that can be called from threads only": every thread that
\* asks for a delay goes on in the end.
DelayReturns == \A t \in Thread : at[t] # "idle" ~> at[t] = "idle"
===========================================================================
