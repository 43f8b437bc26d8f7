---------------------------- MODULE RtxDelayList ----------------------------
(***************************************************************************)
(* The delay list and the wait list of rtx_thread.c with their pointers,   *)
(* osDelayUntil of rtx_delay.c, and the ticks that osKernelResume makes up  *)
(* for (rtx_kernel.c).                                                     *)
(*                                                                         *)
(* Both lists are linked through delay_prev and delay_next of the thread.  *)
(* delay is Forever for a thread of the wait list; in the delay list it is *)
(* the time from the timeout of the thread before, so that a tick changes  *)
(* the head only.  For the other modules delay is the time left: this one  *)
(* shows that it comes to the same.  The links of a thread that has left   *)
(* the lists stay as they are.  kernel.tick wraps around at TickRange,     *)
(* 2^32 in the code.                                                       *)
(***************************************************************************)
EXTENDS Integers, Sequences, SequencesExt

CONSTANTS
  Thread, NoThread, Forever,
  Ticks,     \* the timeouts the application uses
  Sleeps,    \* the ticks the processor may sleep
  TickRange

ASSUME DelayAssumption ==
  /\ NoThread \notin Thread /\ Forever \notin Int
  /\ Ticks \subseteq Nat \ {0} /\ Sleeps \subseteq 0 .. TickRange - 1
  /\ TickRange \in Nat \ {0}

VARIABLES
  delay, delay_prev, delay_next,  \* of each thread
  delay_list, wait_list,          \* the heads of the lists
  tick,                           \* osRtxInfo.kernel.tick
  behind,                         \* the ticks osKernelResume has still to count
  blocked,                        \* the threads in osRtxThreadBlocked
  until                           \* history: the time a thread asked to wait for

vars == <<delay, delay_prev, delay_next, delay_list, wait_list, tick, behind, blocked, until>>

Pointer == Thread \cup {NoThread}

TypeOK ==
  /\ delay \in [Thread -> (0 .. TickRange - 1) \cup {Forever}]
  /\ delay_prev \in [Thread -> Pointer] /\ delay_next \in [Thread -> Pointer]
  /\ delay_list \in Pointer /\ wait_list \in Pointer
  /\ tick \in 0 .. TickRange - 1 /\ behind \in 0 .. TickRange - 1
  /\ blocked \subseteq Thread
  /\ until \in [Thread -> (0 .. TickRange - 1) \cup {Forever}]

Init ==
  /\ delay = [t \in Thread |-> 0]
  /\ delay_prev = [t \in Thread |-> NoThread]
  /\ delay_next = [t \in Thread |-> NoThread]
  /\ delay_list = NoThread /\ wait_list = NoThread
  /\ tick = 0 /\ behind = 0
  /\ blocked = {}
  /\ until = [t \in Thread |-> Forever]

---------------------------------------------------------------------------
\* A list as the sequence of threads found from its head.
Walk(first) ==
  LET nth[n \in 1 .. Cardinality(Thread) + 1] ==
        IF n = 1 THEN first
        ELSE IF nth[n - 1] = NoThread THEN NoThread ELSE delay_next[nth[n - 1]]
  IN  SelectSeq([n \in 1 .. Cardinality(Thread) + 1 |-> nth[n]],
                LAMBDA t : t # NoThread)

\* The time left for each thread of the delay list, in the order of the list.
Left ==
  LET list == Walk(delay_list)
      sum[n \in 0 .. Len(list)] == IF n = 0 THEN 0 ELSE sum[n - 1] + delay[list[n]]
  IN  [n \in 1 .. Len(list) |-> sum[n]]

\* t gets between prev and next.
Link(t, prev, next) ==
  /\ delay_prev' = [u \in Thread |-> IF u = t THEN prev
                                     ELSE IF u = next THEN t ELSE delay_prev[u]]
  /\ delay_next' = [u \in Thread |-> IF u = t THEN next
                                     ELSE IF u = prev THEN t ELSE delay_next[u]]

Start(t, time) ==
  /\ t \notin blocked /\ behind = 0
  /\ blocked' = blocked \cup {t}
  /\ until' = [until EXCEPT ![t] = time]

\* osRtxThreadDelayInsert
WaitForever(t) ==
  LET list == Walk(wait_list)
      prev == IF list = <<>> THEN NoThread ELSE Last(list)
  IN  /\ Start(t, Forever)
      /\ delay' = [delay EXCEPT ![t] = Forever]
      /\ Link(t, prev, NoThread)
      /\ wait_list' = IF prev = NoThread THEN t ELSE wait_list
      /\ UNCHANGED <<delay_list, tick, behind>>

\* Mutant of Insert: the thread behind keeps its difference.
Insert_NextKept(t, ticks) ==
  LET list == Walk(delay_list)
      left == Left
      n    == Len(SelectSeq(left, LAMBDA total : total <= ticks))
      prev == IF n = 0 THEN NoThread ELSE list[n]
      next == IF n = Len(list) THEN NoThread ELSE list[n + 1]
  IN  /\ delay' = [delay EXCEPT ![t] = IF n = 0 THEN ticks ELSE ticks - left[n]]
      /\ Link(t, prev, next)
      /\ delay_list' = IF prev = NoThread THEN t ELSE delay_list
      /\ UNCHANGED <<wait_list, tick, behind>>

\* n threads have their timeout before that of t or with it.
Insert(t, ticks) ==
  LET list == Walk(delay_list)
      left == Left
      n    == Len(SelectSeq(left, LAMBDA total : total <= ticks))
      prev == IF n = 0 THEN NoThread ELSE list[n]
      next == IF n = Len(list) THEN NoThread ELSE list[n + 1]
      rest == IF n = 0 THEN ticks ELSE ticks - left[n]
  IN  /\ delay' = [u \in Thread |-> IF u = t THEN rest
                                    ELSE IF u = next THEN delay[u] - rest ELSE delay[u]]
      /\ Link(t, prev, next)
      /\ delay_list' = IF prev = NoThread THEN t ELSE delay_list
      /\ UNCHANGED <<wait_list, tick, behind>>

Delay(t, ticks) == Start(t, Forever) /\ Insert(t, ticks)

\* Mutant of DelayUntil: times that have passed are not refused.
DelayUntil_Passed(t, time) ==
  LET ticks == (time - tick) % TickRange
  IN  /\ ticks # 0
      /\ Start(t, time) /\ Insert(t, ticks)

\* The time is refused if it has passed, as far as the wrapped counter tells.
DelayUntil(t, time) ==
  LET ticks == (time - tick) % TickRange
  IN  /\ ticks # 0 /\ ticks < TickRange \div 2
      /\ Start(t, time) /\ Insert(t, ticks)

\* osRtxThreadDelayRemove
DelayRemove(t) ==
  LET prev == delay_prev[t]
      next == delay_next[t]
  IN  /\ t \in blocked /\ behind = 0
      /\ blocked' = blocked \ {t}
      /\ delay' = [u \in Thread |-> IF u = t THEN 0
                                    ELSE IF u = next /\ delay[t] # Forever
                                    THEN delay[u] + delay[t] ELSE delay[u]]
      /\ delay_next' = [u \in Thread |-> IF u = prev THEN next ELSE delay_next[u]]
      /\ delay_prev' = [u \in Thread |-> IF u = next THEN prev
                                         ELSE IF u = t THEN NoThread ELSE delay_prev[u]]
      /\ delay_list' = IF prev = NoThread /\ delay[t] # Forever THEN next ELSE delay_list
      /\ wait_list' = IF prev = NoThread /\ delay[t] = Forever THEN next ELSE wait_list
      /\ until' = [until EXCEPT ![t] = Forever]
      /\ UNCHANGED <<tick, behind>>

\* Mutant of DelayTick: the new head keeps its delay_prev.
DelayTick_PrevKept ==
  LET head == delay_list
      due  == {i \in DOMAIN Left : Left[i] = 1}
      list == Walk(delay_list)
      next == IF Cardinality(due) = Len(list) THEN NoThread
              ELSE list[Cardinality(due) + 1]
  IN  /\ tick' = (tick + 1) % TickRange
      /\ delay' = [u \in Thread |-> IF u = head THEN delay[u] - 1 ELSE delay[u]]
      /\ delay_list' = next
      /\ blocked' = blocked \ {list[i] : i \in due}
      /\ until' = [t \in Thread |-> IF t \in blocked' THEN until[t] ELSE Forever]
      /\ UNCHANGED <<wait_list, delay_next, delay_prev>>

\* The thread at the head and those behind it whose difference is 0 are
\* released; next is the first that stays.
DelayTick ==
  LET head == delay_list
      due  == {i \in DOMAIN Left : Left[i] = 1}
      list == Walk(delay_list)
      next == IF Cardinality(due) = Len(list) THEN NoThread
              ELSE list[Cardinality(due) + 1]
  IN  /\ tick' = (tick + 1) % TickRange
      /\ delay' = [u \in Thread |-> IF u = head THEN delay[u] - 1 ELSE delay[u]]
      /\ delay_list' = next
      /\ delay_prev' = [u \in Thread |-> IF due # {} /\ u = next THEN NoThread
                                         ELSE delay_prev[u]]
      /\ blocked' = blocked \ {list[i] : i \in due}
      /\ until' = [t \in Thread |-> IF t \in blocked' THEN until[t] ELSE Forever]
      /\ UNCHANGED <<wait_list, delay_next>>

OnTick == behind = 0 /\ DelayTick /\ UNCHANGED behind

\* GetKernelSleepTime: timer is the head of the list of timers.
SleepTime(timer) ==
  CASE delay_list = NoThread -> timer
    [] timer = Forever       -> delay[delay_list]
    [] OTHER -> IF timer < delay[delay_list] THEN timer ELSE delay[delay_list]

\* The ticks before the first timeout are taken off the head at once, the others
\* are counted.
Resume(sleep_ticks, timer) ==
  LET time  == SleepTime(timer)
      ticks == IF time # Forever /\ sleep_ticks >= time THEN time - 1 ELSE sleep_ticks
  IN  /\ behind = 0
      /\ delay' = [t \in Thread |-> IF t = delay_list THEN delay[t] - ticks ELSE delay[t]]
      /\ tick' = (tick + ticks) % TickRange
      /\ behind' = sleep_ticks - ticks
      /\ UNCHANGED <<delay_prev, delay_next, delay_list, wait_list, blocked, until>>

ResumeCounts == behind > 0 /\ DelayTick /\ behind' = behind - 1

---------------------------------------------------------------------------
Next ==
  \/ \E t \in Thread :
       \/ WaitForever(t) \/ DelayRemove(t)
       \/ \E ticks \in Ticks : Delay(t, ticks)
       \/ \E time \in 0 .. TickRange - 1 : DelayUntil(t, time)
  \/ OnTick
  \/ \E sleep_ticks \in Sleeps, timer \in Ticks \cup {Forever} :
       Resume(sleep_ticks, timer)
  \/ ResumeCounts

Spec == Init /\ [][Next]_vars
---------------------------------------------------------------------------
\* Properties

LinkedBack(list) ==
  \A i \in DOMAIN list :
    delay_prev[list[i]] = IF i = 1 THEN NoThread ELSE list[i - 1]

\* The two lists share the links of the threads and never get mixed up: together
\* they hold every blocked thread once, each can be walked both ways, and delay
\* tells for each thread which it is in.
Linked ==
  LET delayed == Walk(delay_list)
      waiting == Walk(wait_list)
  IN  /\ Len(delayed) + Len(waiting) = Cardinality(blocked)
      /\ ToSet(delayed) \cup ToSet(waiting) = blocked
      /\ ToSet(waiting) = {t \in blocked : delay[t] = Forever}
      /\ LinkedBack(delayed) /\ LinkedBack(waiting)

\* The head is never due already: its decrement would make 2^32 - 1 of it,
\* osWaitForever.
HeadDue == delay_list # NoThread => delay[delay_list] > 0

\* The time left of every thread, whatever the threads before it do.
TimeLeft ==
  LET list == Walk(delay_list)
      left == Left
  IN  [t \in Thread |->
         IF t \notin blocked THEN NoThread
         ELSE IF delay[t] = Forever THEN Forever
         ELSE left[CHOOSE i \in DOMAIN list : list[i] = t]]

Abstract == INSTANCE Timeouts WITH left <- TimeLeft, Off <- NoThread

\* Every thread is released after exactly the ticks it asked for.
ImplementsTimeouts == Abstract!Spec

\* osDelayUntil ends at the time asked for, also when the counter wraps around,
\* and within half its range.
OnTime ==
  LET left == TimeLeft
  IN  \A t \in blocked : until[t] # Forever =>
        /\ (tick + left[t]) % TickRange = until[t]
        /\ left[t] < TickRange \div 2
===========================================================================
