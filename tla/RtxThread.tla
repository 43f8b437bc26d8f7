----------------------------- MODULE RtxThread -----------------------------
(***************************************************************************)
(* Threads of the RTX kernel: creation, priorities, yield, suspend and     *)
(* resume, join, exit and termination, thread flags (also set by interrupt *)
(* handlers), delays, the scheduler lock, the tick with round robin and    *)
(* PendSV (rtx_thread.c, rtx_delay.c, rtx_system.c, part of rtx_kernel.c). *)
(*                                                                         *)
(* SVC, SysTick and PendSV never preempt each other, but an interrupt of a *)
(* higher priority comes between any two of their accesses.  The loops of  *)
(* SysTick and PendSV take one step per thread, osThreadFlagsWait one for  *)
(* its check and one for the wait; in the other services an interrupt does *)
(* what it would do before or after them, and they are one step.  An       *)
(* interrupt makes PendSV pending: the thread can finish the service it is *)
(* in, and then PendSV runs before any thread and before SysTick.          *)
(***************************************************************************)
EXTENDS RtxScheduler

CONSTANTS
  Idle,          \* the idle thread (osRtxIdleThread), which calls no service
  Main,          \* the first application thread
  Priority,      \* the priorities the application uses
  IdlePriority,  \* osPriorityIdle
  Timeout,       \* the timeouts the application uses, Forever among them
  Flag,          \* thread flags
  Joinability,   \* attr_bits of created threads: TRUE is osThreadJoinable
  IsrTarget,     \* threads whose flags interrupt handlers set
  IsrLimit,      \* bound on osRtxInfo.isr_queue.cnt
  SparesJoiners  \* TRUE: nobody suspends or resumes a thread blocked in join

ASSUME ThreadAssumption ==
  /\ Idle \in Thread /\ Main \in Thread /\ Idle # Main
  /\ Priority \subseteq Nat /\ Priority # {} /\ IdlePriority \in Nat
  /\ \A p \in Priority : IdlePriority <= p
  /\ Timeout \subseteq (Nat \ {0}) \cup {Forever}
  /\ Joinability \subseteq BOOLEAN /\ SparesJoiners \in BOOLEAN
  /\ IsrTarget \subseteq Thread /\ IsrLimit \in Nat

VARIABLES
  k,             \* the scheduler
  thread_join,   \* the thread waiting in osThreadJoin for this one
  joins,         \* thread_next of a thread WaitingJoin: the one it waits for
  joinable,      \* attr & osThreadJoinable
  thread_flags,  \* the flags set
  wait,          \* wait_flags and flags_options of the last osThreadFlagsWait
  handler,       \* the active exception handler, "thread" if none, "svc" in the
                 \* middle of osThreadFlagsWait
  isr_queue      \* objects registered for post processing

vars == <<k, thread_join, joins, joinable, thread_flags, wait, handler, isr_queue>>
joinVars == <<thread_join, joins, joinable>>
flagVars == <<thread_flags, wait>>

Application == Thread \ {Idle}
FlagSet == (SUBSET Flag) \ {{}}
FlagWait == [flags : FlagSet, all : BOOLEAN, clear : BOOLEAN]
NoWait == [flags |-> {}, all |-> FALSE, clear |-> FALSE]

TypeOK ==
  /\ k \in Scheduler
  /\ thread_join \in [Thread -> Thread \cup {NoThread}]
  /\ joins \in [Thread -> Thread \cup {NoThread}]
  /\ joinable \in [Thread -> BOOLEAN]
  /\ thread_flags \in [Thread -> SUBSET Flag]
  /\ wait \in [Thread -> FlagWait \cup {NoWait}]
  /\ handler \in {"thread", "svc", "tick", "pendsv"}
  /\ isr_queue \in Seq(Thread)

\* After svcRtxKernelStart and the creation of the first thread.
Init ==
  /\ k = [state |-> [t \in Thread |-> CASE t = Main -> "Running"
                                        [] t = Idle -> "Ready"
                                        [] OTHER    -> "Inactive"],
          priority |-> [t \in Thread |->
             IF t = Main THEN CHOOSE p \in Priority : TRUE ELSE IdlePriority],
          delay |-> [t \in Thread |-> 0],
          ready |-> <<Idle>>, delay_list |-> <<>>, wait_list |-> <<>>,
          curr |-> Main, next |-> Main, robin |-> NoThread, kernel |-> "Running"]
  /\ thread_join = [t \in Thread |-> NoThread]
  /\ joins = [t \in Thread |-> NoThread]
  /\ joinable = [t \in Thread |-> FALSE]
  /\ thread_flags = [t \in Thread |-> {}]
  /\ wait = [t \in Thread |-> NoWait]
  /\ handler = "thread"
  /\ isr_queue = <<>>

---------------------------------------------------------------------------
\* Services

\* A service ends and leaves the scheduler as after.  PendSV follows at once
\* when an interrupt came after the call began.
ServiceEnd(after) ==
  /\ k' = Return(after)
  /\ handler' = IF isr_queue = <<>> THEN "thread" ELSE "pendsv"
  /\ UNCHANGED isr_queue

\* The running thread calls a service, which comes to its end in the same step.
Service(after) ==
  /\ handler = "thread"
  /\ k.curr # Idle
  /\ ServiceEnd(after)

Exists(t) == k.state[t] # "Inactive"

ThreadNew(t, p, j) ==
  /\ ~Exists(t)
  /\ Service(DispatchThread([k EXCEPT !.state[t] = "Ready", !.priority[t] = p,
                                      !.delay[t] = 0], t))
  /\ thread_join' = [thread_join EXCEPT ![t] = NoThread]
  /\ joins' = [joins EXCEPT ![t] = NoThread]
  /\ joinable' = [joinable EXCEPT ![t] = j]
  /\ thread_flags' = [thread_flags EXCEPT ![t] = {}]
  /\ wait' = [wait EXCEPT ![t] = NoWait]

ThreadSetPriority(t, p) ==
  /\ Exists(t) /\ k.state[t] # "Terminated"
  /\ k.priority[t] # p
  /\ Service(SetPriority(k, t, p))
  /\ UNCHANGED <<joinVars, flagVars>>

ThreadYield ==
  /\ Service(Yield(k))
  /\ UNCHANGED <<joinVars, flagVars>>

ThreadSuspend(t) ==
  /\ Stoppable(k, t)
  /\ SparesJoiners => k.state[t] # "WaitingJoin"
  /\ Service(Suspend(k, t))
  /\ UNCHANGED <<joinVars, flagVars>>

ThreadResume(t) ==
  /\ k.state[t] \in BlockedStates
  /\ SparesJoiners => k.state[t] # "WaitingJoin"
  /\ Service(Resume(k, t))
  /\ UNCHANGED <<joinVars, flagVars>>

ThreadDetach(t) ==
  /\ Exists(t) /\ joinable[t]
  /\ IF k.state[t] = "Terminated"
     THEN /\ Service([k EXCEPT !.state[t] = "Inactive"])
          /\ UNCHANGED joinable
     ELSE /\ Service(k)
          /\ joinable' = [joinable EXCEPT ![t] = FALSE]
  /\ UNCHANGED <<thread_join, joins, flagVars>>

\* osThreadJoin of a thread that has terminated frees it ...
ThreadJoinTerminated(t) ==
  /\ joinable[t] /\ k.state[t] = "Terminated"
  /\ Service([k EXCEPT !.state[t] = "Inactive"])
  /\ UNCHANGED <<joinVars, flagVars>>

\* ... and of one that has not, blocks.
ThreadJoinWait(t) ==
  /\ joinable[t] /\ k.state[t] \notin {"Inactive", "Running", "Terminated"}
  /\ CanSwitch(k)
  /\ Service(WaitEnter(k, "WaitingJoin", Forever))
  /\ joins' = [joins EXCEPT ![k.curr] = t]
  /\ thread_join' = [thread_join EXCEPT ![t] = k.curr]
  /\ joinable' = [joinable EXCEPT ![t] = FALSE]
  /\ UNCHANGED flagVars

\* Mutant of JoinWakeup: the exit of t leaves its joiner asleep.
JoinWakeup_Nobody(s, t) == s

\* osRtxThreadJoinWakeup of t in the scheduler s ...
JoinWakeup(s, t) ==
  IF thread_join[t] # NoThread THEN WaitExit(s, thread_join[t]) ELSE s

\* Mutant of LeaveJoin: the target keeps its link to a joiner that is gone.
LeaveJoin_Dangling(t) == UNCHANGED thread_join

\* ... and what it does to the thread that t was waiting for.
LeaveJoin(t) ==
  thread_join' = IF k.state[t] = "WaitingJoin"
                 THEN [thread_join EXCEPT ![joins[t]] = NoThread]
                 ELSE thread_join

\* osRtxThreadDestroy
Destroy(s, t) ==
  [s EXCEPT !.state[t] = IF joinable[t] THEN "Terminated" ELSE "Inactive"]

\* osThreadTerminate of the running thread is osThreadExit.
ThreadExit ==
  /\ CanSwitch(k)
  /\ Service(Destroy(SwitchToReady(JoinWakeup(k, k.curr)), k.curr))
  /\ LeaveJoin(k.curr)
  /\ UNCHANGED <<joins, joinable, flagVars>>

ThreadTerminate(t) ==
  /\ t # k.curr /\ Stoppable(k, t)
  /\ Service(Destroy(Dispatch(JoinWakeup(Unlist(k, t), t)), t))
  /\ LeaveJoin(t)
  /\ UNCHANGED <<joins, joinable, flagVars>>

Delay(ticks) ==
  /\ ticks # Forever
  /\ CanSwitch(k)
  /\ Service(WaitEnter(k, "WaitingDelay", ticks))
  /\ UNCHANGED <<joinVars, flagVars>>

KernelLock ==
  /\ k.kernel = "Running"
  /\ Service([k EXCEPT !.kernel = "Locked"])
  /\ UNCHANGED <<joinVars, flagVars>>

\* Nothing is dispatched here: threads made ready meanwhile wait for the tick.
KernelUnlock ==
  /\ k.kernel = "Locked"
  /\ Service([k EXCEPT !.kernel = "Running"])
  /\ UNCHANGED <<joinVars, flagVars>>

---------------------------------------------------------------------------
\* Thread flags

\* ThreadFlagsCheck succeeds, and clears the flags unless osFlagsNoClear.
Satisfies(flags, w) ==
  IF w.all THEN w.flags \subseteq flags ELSE w.flags \cap flags # {}

Taken(flags, w) == IF w.clear THEN flags \ w.flags ELSE flags

FlagsSet(t, f) ==
  LET flags == thread_flags[t] \cup f
      wakes == k.state[t] = "WaitingThreadFlags" /\ Satisfies(flags, wait[t])
  IN  /\ Exists(t) /\ k.state[t] # "Terminated"
      /\ Service(IF wakes THEN WaitExitDispatch(k, t) ELSE k)
      /\ thread_flags' = [thread_flags EXCEPT
                            ![t] = IF wakes THEN Taken(flags, wait[t]) ELSE flags]
      /\ UNCHANGED <<joinVars, wait>>

FlagsClear(f) ==
  /\ Service(k)
  /\ thread_flags' = [thread_flags EXCEPT ![k.curr] = @ \ f]
  /\ UNCHANGED <<joinVars, wait>>

\* The flags are there: the thread takes them and goes on.
FlagsTake(w) ==
  /\ Satisfies(thread_flags[k.curr], w)
  /\ Service(k)
  /\ thread_flags' = [thread_flags EXCEPT ![k.curr] = Taken(@, w)]
  /\ UNCHANGED <<joinVars, wait>>

\* The flags are not there: the thread notes what it waits for ...
FlagsWaitFor(w) ==
  /\ handler = "thread" /\ k.curr # Idle
  /\ ~Satisfies(thread_flags[k.curr], w)
  /\ wait' = [wait EXCEPT ![k.curr] = w]
  /\ handler' = "svc"
  /\ UNCHANGED <<k, joinVars, thread_flags, isr_queue>>

\* ... and waits, without another look at flags an interrupt has set meanwhile.
FlagsWaitEnter(timeout) ==
  /\ handler = "svc"
  /\ ServiceEnd(IF CanSwitch(k) THEN WaitEnter(k, "WaitingThreadFlags", timeout) ELSE k)
  /\ UNCHANGED <<joinVars, flagVars>>

\* Mutant of IsrFlagsSet: only a thread that already waits is registered.
IsrFlagsSet_OnlyWaiting(t, f) ==
  /\ Exists(t) /\ k.state[t] # "Terminated"
  /\ Len(isr_queue) < IsrLimit
  /\ thread_flags' = [thread_flags EXCEPT ![t] = @ \cup f]
  /\ isr_queue' = IF k.state[t] = "WaitingThreadFlags"
                  THEN Append(isr_queue, t) ELSE isr_queue
  /\ UNCHANGED <<k, joinVars, wait, handler>>

\* osThreadFlagsSet in an interrupt handler, at any moment.
IsrFlagsSet(t, f) ==
  /\ Exists(t) /\ k.state[t] # "Terminated"
  /\ Len(isr_queue) < IsrLimit
  /\ thread_flags' = [thread_flags EXCEPT ![t] = @ \cup f]
  /\ isr_queue' = Append(isr_queue, t)
  /\ UNCHANGED <<k, joinVars, wait, handler>>

---------------------------------------------------------------------------
\* PendSV and SysTick

PendSVStart ==
  /\ handler = "thread" /\ isr_queue # <<>>
  /\ handler' = "pendsv"
  /\ UNCHANGED <<k, joinVars, flagVars, isr_queue>>

\* osRtxThreadPostProcess
PendSVThread ==
  LET t     == Head(isr_queue)
      wakes == k.state[t] = "WaitingThreadFlags" /\ Satisfies(thread_flags[t], wait[t])
  IN  /\ handler = "pendsv" /\ isr_queue # <<>>
      /\ isr_queue' = Tail(isr_queue)
      /\ k' = IF wakes THEN WaitExit(k, t) ELSE k
      /\ thread_flags' = IF wakes THEN [thread_flags EXCEPT ![t] = Taken(@, wait[t])]
                                  ELSE thread_flags
      /\ UNCHANGED <<joinVars, wait, handler>>

PendSVEnd ==
  /\ handler = "pendsv" /\ isr_queue = <<>>
  /\ k' = Return(Dispatch(k))
  /\ handler' = "thread"
  /\ UNCHANGED <<joinVars, flagVars, isr_queue>>

TickStart ==
  /\ handler = "thread" /\ isr_queue = <<>>
  /\ handler' = "tick"
  /\ k' = CountDown(k)
  /\ UNCHANGED <<joinVars, flagVars, isr_queue>>

TickRelease ==
  /\ handler = "tick" /\ Expired(k)
  /\ k' = ReleaseHead(k)
  /\ UNCHANGED <<joinVars, flagVars, handler, isr_queue>>

TickEnd ==
  /\ handler = "tick" /\ ~Expired(k)
  /\ k' = Return(RoundRobin(Dispatch(k)))
  /\ handler' = "thread"
  /\ UNCHANGED <<joinVars, flagVars, isr_queue>>

---------------------------------------------------------------------------
ThreadService(t) ==
  \/ \E p \in Priority, j \in Joinability : ThreadNew(t, p, j)
  \/ \E p \in Priority : ThreadSetPriority(t, p)
  \/ ThreadSuspend(t)
  \/ ThreadResume(t)
  \/ ThreadDetach(t)
  \/ ThreadJoinTerminated(t)
  \/ ThreadJoinWait(t)
  \/ ThreadTerminate(t)
  \/ \E f \in FlagSet : FlagsSet(t, f)

OwnService ==
  \/ ThreadYield
  \/ ThreadExit
  \/ \E ticks \in Timeout : Delay(ticks)
  \/ KernelLock
  \/ KernelUnlock
  \/ \E f \in FlagSet : FlagsClear(f)
  \/ \E w \in FlagWait : FlagsTake(w) \/ FlagsWaitFor(w)

\* The exceptions, SVC among them, go on without the thread.
Handler ==
  \/ \E timeout \in Timeout : FlagsWaitEnter(timeout)
  \/ PendSVStart \/ PendSVThread \/ PendSVEnd
  \/ TickStart \/ TickRelease \/ TickEnd

Next ==
  \/ \E t \in Application : ThreadService(t)
  \/ OwnService
  \/ \E t \in IsrTarget, f \in FlagSet : IsrFlagsSet(t, f)
  \/ Handler

Spec == Init /\ [][Next]_vars
FairSpec == Spec /\ WF_vars(Handler)
---------------------------------------------------------------------------
\* Properties

\* Every thread is where its state says and nowhere else: a Ready thread once
\* in the ready list, a blocked one once in the delay list or, without a
\* timeout, in the wait list; the elected thread is the only Running one.
\* Each service moves threads between lists that link through the same fields.
OnePlace ==
  /\ Distinct(k.ready) /\ Distinct(k.delay_list) /\ Distinct(k.wait_list)
  /\ \A t \in Thread :
       /\ t \in ToSet(k.ready) <=> k.state[t] = "Ready"
       /\ t \in ToSet(k.delay_list) <=>
            k.state[t] \in BlockedStates /\ k.delay[t] # Forever
       /\ t \in ToSet(k.wait_list) <=>
            k.state[t] \in BlockedStates /\ k.delay[t] = Forever
       /\ k.state[t] = "Running" <=> t = k.next

\* The ready list is ordered by priority, through every change of priority,
\* preemption, round robin and release: the dispatcher looks only at its head.
ReadySorted ==
  \A i, j \in DOMAIN k.ready :
    i < j => k.priority[k.ready[i]] >= k.priority[k.ready[j]]

\* The delay list is ordered by the ticks left: the tick looks at its head.
DelaySorted ==
  \A i, j \in DOMAIN k.delay_list :
    i < j => k.delay[k.delay_list[i]] <= k.delay[k.delay_list[j]]

\* Both are, and the variables have their types: no count of ticks underflows.
ListsSorted == TypeOK /\ ReadySorted /\ DelaySorted

\* No ready thread outranks the running one.
HighestRuns ==
  \A t \in ToSet(k.ready) : k.priority[t] <= k.priority[k.curr]

Schedulable == handler = "thread" /\ k.kernel = "Running"

\* A higher-priority thread is kept waiting only by a kernel lock: no service,
\* tick or interrupt that leaves the scheduler unlocked lets the highest ready
\* priority exceed the running one, except osKernelUnlock, which does not
\* dispatch (rtx_kernel.c:317); the next tick or PendSV makes up for it.
OnlyUnlockDefers ==
  [][Schedulable' => \/ HighestRuns'
                     \/ handler = "thread" /\ k.kernel = "Locked"
                     \/ handler = "thread" /\ ~HighestRuns]_vars

\* A thread that is ready and loses the processor loses it to a higher
\* priority and then comes first among its own, or to its own priority when
\* it yields or its slice is used up, and then comes last among them.
FairPreemption ==
  [][LET t == k.curr
         peers == SelectSeq(k'.ready, LAMBDA u : k'.priority[u] = k'.priority[t])
     IN  k'.curr # t /\ k'.state[t] = "Ready" =>
           IF k'.priority[k'.curr] > k'.priority[t]
           THEN t = Head(peers)
           ELSE /\ k'.priority[k'.curr] = k'.priority[t]
                /\ t = Last(peers)]_vars

\* A thread recorded as waiting to join is still blocked in osThreadJoin, so
\* the exit of its target wakes a thread that waits for it (and that is in the
\* list WaitExit takes it from).
JoinLinked ==
  \A t \in Thread :
    k.state[t] \notin {"Inactive", "Terminated"} /\ thread_join[t] # NoThread =>
      /\ k.state[thread_join[t]] = "WaitingJoin"
      /\ joins[thread_join[t]] = t

\* The part of JoinLinked that rtx_os.h:113 states of every thread_join ("Thread
\* waiting to Join"): it fails once a service may disturb a joiner, for
\* svcRtxThreadResume leaves thread_join of the target as it is.
JoinersWait ==
  \A t \in Thread :
    k.state[t] \notin {"Inactive", "Terminated"} /\ thread_join[t] # NoThread =>
      k.state[thread_join[t]] \in BlockedStates

\* Nobody sleeps in osThreadJoin for a thread that is gone.
JoinerNotForgotten ==
  \A t \in Thread :
    k.state[t] = "WaitingJoin" =>
      /\ thread_join[joins[t]] = t
      /\ k.state[joins[t]] \notin {"Inactive", "Terminated"}

\* No lost wakeup: a thread that waits for flags it already has is still
\* registered for post processing, whatever thread or interrupt set them, and
\* when an interrupt sets them between the failed check and the wait: PendSV
\* must not have looked at the thread before it waits.
NoMissedFlags ==
  \A t \in Thread :
    k.state[t] = "WaitingThreadFlags" /\ Satisfies(thread_flags[t], wait[t]) =>
      t \in ToSet(isr_queue)

LeftBehind(t) ==
  /\ k.state[t] = "Ready" /\ k.kernel # "Locked"
  /\ \A u \in Thread : Exists(u) => k.priority[u] <= k.priority[t]

\* Round robin: a ready thread that no other outranks gets the processor.
SharesProcessor == \A t \in Thread : LeftBehind(t) ~> ~LeftBehind(t)
===========================================================================
