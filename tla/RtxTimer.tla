------------------------------ MODULE RtxTimer ------------------------------
(***************************************************************************)
(* The timers of rtx_timer.c: the services, the tick, and the thread that  *)
(* calls the functions of the timers that have expired.                    *)
(*                                                                         *)
(* The tick of a timer is the time from the expiry of the timer before it  *)
(* in the list.  Neither a service nor the tick is interrupted by another: *)
(* services are refused to interrupt handlers, and the tick waits for the  *)
(* end of a service.  The message queue between the tick and the thread    *)
(* is a bounded sequence here; RtxMsgQueue has it in full.                 *)
(***************************************************************************)
EXTENDS Integers, Sequences, SequencesExt

CONSTANTS
  Timer, NoTimer,
  Ticks,     \* the times the application uses
  QueueSize  \* OS_TIMER_CB_QUEUE

ASSUME TimerAssumption ==
  /\ IsFiniteSet(Timer) /\ NoTimer \notin Timer \cup Nat
  /\ Ticks \subseteq Nat \ {0}
  /\ QueueSize \in Nat \ {0}

VARIABLES
  timers,   \* osRtxInfo.timer.list and the fields of each timer
  queue,    \* the timers whose callback is in osRtxInfo.timer.mq
  calling,  \* the timer whose callback is running
  failed    \* the tick is in osRtxErrorNotify, which does not return

vars == <<timers, queue, calling, failed>>

TypeOK ==
  /\ timers \in [list : Seq(Timer), tick : [Timer -> Nat], load : [Timer -> Nat],
                 state : [Timer -> {"Inactive", "Stopped", "Running"}],
                 type : [Timer -> {"Once", "Periodic"}]]
  /\ queue \in Seq(Timer) /\ Len(queue) <= QueueSize
  /\ calling \in Timer \cup {NoTimer}
  /\ failed \in BOOLEAN

Init ==
  /\ timers = [list |-> <<>>, tick |-> [t \in Timer |-> 0], load |-> [t \in Timer |-> 0],
               state |-> [t \in Timer |-> "Inactive"], type |-> [t \in Timer |-> "Once"]]
  /\ queue = <<>> /\ calling = NoTimer /\ failed = FALSE

---------------------------------------------------------------------------
\* The list

\* The time left of each timer of the list, in its order.
Left(l) ==
  LET sum[n \in 0 .. Len(l.list)] ==
        IF n = 0 THEN 0 ELSE sum[n - 1] + l.tick[l.list[n]]
  IN  [n \in 1 .. Len(l.list) |-> sum[n]]

\* Behind the n timers that expire before it or with it.
TimerInsert(l, t, ticks) ==
  LET n    == Cardinality({i \in DOMAIN l.list : Left(l)[i] <= ticks})
      rest == IF n = 0 THEN ticks ELSE ticks - Left(l)[n]
      next == IF n < Len(l.list) THEN {l.list[n + 1]} ELSE {}
  IN  [l EXCEPT !.list = InsertAt(@, n + 1, t),
                !.tick = [u \in Timer |-> IF u = t THEN rest
                                          ELSE IF u \in next THEN @[u] - rest ELSE @[u]]]

TimerRemove(l, t) ==
  LET n    == CHOOSE i \in DOMAIN l.list : l.list[i] = t
      next == IF n < Len(l.list) THEN {l.list[n + 1]} ELSE {}
  IN  [l EXCEPT !.list = RemoveAt(@, n),
                !.tick = [u \in Timer |-> IF u \in next THEN @[u] + l.tick[t] ELSE @[u]]]

---------------------------------------------------------------------------
\* Services

TimerNew(t, type) ==
  /\ timers.state[t] = "Inactive"
  /\ timers' = [timers EXCEPT !.state[t] = "Stopped", !.type[t] = type,
                              !.tick[t] = 0, !.load[t] = 0]

\* A timer that runs already is started afresh.
TimerStart(t, ticks) ==
  /\ timers.state[t] # "Inactive"
  /\ LET off == IF timers.state[t] = "Running" THEN TimerRemove(timers, t) ELSE timers
     IN  timers' = TimerInsert([off EXCEPT !.state[t] = "Running", !.load[t] = ticks],
                               t, ticks)

TimerStop(t) ==
  /\ timers.state[t] = "Running"
  /\ timers' = [TimerRemove(timers, t) EXCEPT !.state[t] = "Stopped"]

TimerDelete(t) ==
  /\ timers.state[t] # "Inactive"
  /\ LET off == IF timers.state[t] = "Running" THEN TimerRemove(timers, t) ELSE timers
     IN  timers' = [off EXCEPT !.state[t] = "Inactive"]

Service(t) ==
  /\ ~failed
  /\ \/ TimerStop(t) \/ TimerDelete(t)
     \/ \E type \in {"Once", "Periodic"} : TimerNew(t, type)
     \/ \E ticks \in Ticks : TimerStart(t, ticks)
  /\ UNCHANGED <<queue, calling, failed>>

---------------------------------------------------------------------------
\* osRtxTimerTick

Due(l) == l.list # <<>> /\ l.tick[Head(l.list)] = 0

\* One round of the loop of osRtxTimerTick.
Expire(l) ==
  LET t == Head(l.list)
      unlinked == [l EXCEPT !.list = Tail(@)]
  IN  IF l.type[t] = "Periodic" THEN TimerInsert(unlinked, t, l.load[t])
      ELSE [unlinked EXCEPT !.state[t] = "Stopped"]

\* The list and the queue after the loop.
Expired(l, q) ==
  LET round[n \in Nat] ==
        IF n = 0 THEN [l |-> l, q |-> q]
        ELSE LET before == round[n - 1]
             IN  IF Due(before.l)
                 THEN [l |-> Expire(before.l), q |-> Append(before.q, Head(before.l.list))]
                 ELSE before
  IN  round[Cardinality(Timer)]

\* Mutant of TimerTick: one timer per tick.
TimerTick_One ==
  LET counted == [timers EXCEPT !.tick = [t \in Timer |->
                    IF timers.list # <<>> /\ t = Head(timers.list) THEN @[t] - 1 ELSE @[t]]]
  IN  /\ ~failed
      /\ IF Due(counted)
         THEN timers' = Expire(counted) /\ queue' = Append(queue, Head(counted.list))
         ELSE timers' = counted /\ queue' = queue
      /\ UNCHANGED <<calling, failed>>

\* Nothing is left of a tick that finds the queue full.
TimerTick ==
  LET counted == [timers EXCEPT !.tick = [t \in Timer |->
                    IF timers.list # <<>> /\ t = Head(timers.list) THEN @[t] - 1 ELSE @[t]]]
      after   == Expired(counted, queue)
  IN  /\ ~failed
      /\ IF Len(after.q) > QueueSize
         THEN failed' = TRUE /\ UNCHANGED <<timers, queue>>
         ELSE timers' = after.l /\ queue' = after.q /\ failed' = FALSE
      /\ UNCHANGED calling

---------------------------------------------------------------------------
\* osRtxTimerThread

\* Mutant of TimerThreadGet: the last message is taken.
TimerThreadGet_Last ==
  /\ ~failed /\ calling = NoTimer /\ queue # <<>>
  /\ calling' = Last(queue)
  /\ queue' = Front(queue)
  /\ UNCHANGED <<timers, failed>>

TimerThreadGet ==
  /\ ~failed /\ calling = NoTimer /\ queue # <<>>
  /\ calling' = Head(queue)
  /\ queue' = Tail(queue)
  /\ UNCHANGED <<timers, failed>>

\* The callback returns.
TimerThreadReturns ==
  /\ ~failed /\ calling # NoTimer
  /\ calling' = NoTimer
  /\ UNCHANGED <<timers, queue, failed>>

---------------------------------------------------------------------------
Next ==
  \/ \E t \in Timer : Service(t)
  \/ TimerTick
  \/ TimerThreadGet \/ TimerThreadReturns

\* The timer thread is ready when there is a message, and gets the processor as
\* long as no thread above its priority keeps it; callbacks return.
Fairness == WF_vars(TimerThreadGet) /\ WF_vars(TimerThreadReturns)

Spec == Init /\ [][Next]_vars

FairSpec == Spec /\ Fairness
---------------------------------------------------------------------------
\* Properties

\* A timer is in the list, once, exactly while it runs: restarting, stopping or
\* deleting one never unlinks a timer that is in no list.
RunningListed ==
  /\ \A i, j \in DOMAIN timers.list : timers.list[i] = timers.list[j] => i = j
  /\ ToSet(timers.list) = {t \in Timer : timers.state[t] = "Running"}

Runs(t) == timers.state[t] = "Running"

\* The time left of every timer that runs.
TimeLeft ==
  LET left == Left(timers)
  IN  [t \in Timer |-> IF Runs(t) THEN left[CHOOSE i \in DOMAIN timers.list :
                                              timers.list[i] = t]
                       ELSE NoTimer]

Abstract == INSTANCE TimerService WITH
  Off    <- NoTimer,
  left   <- TimeLeft,
  period <- [t \in Timer |-> IF Runs(t) /\ timers.type[t] = "Periodic"
                             THEN timers.load[t] ELSE 0],
  owed   <- [t \in Timer |-> Cardinality({i \in DOMAIN queue : queue[i] = t})]

\* Every timer expires after exactly its ticks, whatever the timers before it in
\* the list do, and is queued once each time.
ImplementsTimers == Abstract!Spec

\* A timer is in the list, once, exactly while it runs, and every timer expires
\* after exactly its ticks and is queued once each time: TimerService!Spec.
KeepsTime == [](TypeOK /\ RunningListed) /\ ImplementsTimers

Awaits(t) == t \in ToSet(queue) /\ calling # t /\ ~failed

\* A callback that was queued is called, whatever the other timers queue, unless
\* the queue overflows.
CallbackComes == \A t \in Timer : Awaits(t) ~> ~Awaits(t)

\* For TLC: the timers are interchangeable.
Symmetry == Permutations(Timer)
===========================================================================
