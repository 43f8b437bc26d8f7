--------------------------- MODULE RtxScheduler ---------------------------
(***************************************************************************)
(* The thread lists and the dispatcher of the RTX kernel (rtx_thread.c)    *)
(* as operators on one record, the scheduler part of osRtxInfo:            *)
(*                                                                         *)
(*   state, priority, delay   the fields of each thread control block      *)
(*   ready                    osRtxInfo.thread.ready.thread_list           *)
(*   delay_list, wait_list    threads blocked with and without a timeout   *)
(*   curr, next               osRtxInfo.thread.run                         *)
(*   robin                    osRtxInfo.thread.robin.thread                *)
(*   kernel                   osRtxInfo.kernel.state                       *)
(*                                                                         *)
(* A doubly linked list is the sequence of its elements.  delay holds the  *)
(* ticks left, where the code keeps the difference to the predecessor in   *)
(* the delay list (RtxDelayList shows that the two agree); for a thread in *)
(* no list it is the rest of its round-robin slice, as in the code.        *)
(* The service handlers of the other modules are compositions of these.    *)
(***************************************************************************)
EXTENDS Integers, Sequences, SequencesExt

CONSTANTS
  Thread,    \* thread control blocks
  NoThread,  \* the NULL pointer
  Forever,   \* osWaitForever
  RobinTimeout  \* osRtxInfo.thread.robin.timeout, 0 when round robin is off

ASSUME SchedulerAssumption ==
  /\ NoThread \notin Thread
  /\ Forever \notin Int
  /\ RobinTimeout \in Nat

WaitStates ==
  {"WaitingDelay", "WaitingJoin", "WaitingThreadFlags", "WaitingEventFlags",
   "WaitingMutex", "WaitingSemaphore", "WaitingMemoryPool",
   "WaitingMessageGet", "WaitingMessagePut"}

\* The states with state & osRtxThreadStateMask = osRtxThreadBlocked;
\* "Blocked" itself is a suspended thread.
BlockedStates == WaitStates \cup {"Blocked"}

ThreadState == BlockedStates \cup {"Inactive", "Ready", "Running", "Terminated"}

Scheduler ==
  [state : [Thread -> ThreadState], priority : [Thread -> Nat],
   delay : [Thread -> Nat \cup {Forever}],
   ready : Seq(Thread), delay_list : Seq(Thread), wait_list : Seq(Thread),
   curr : Thread, next : Thread, robin : Thread \cup {NoThread},
   kernel : {"Running", "Locked"}]

---------------------------------------------------------------------------
\* Lists

Distinct(list) == \A i, j \in DOMAIN list : list[i] = list[j] => i = j

\* The first index of list whose element is not in S: where a loop stops
\* that walks the list from its head while the element is in S.
PastPrefix(list, S) ==
  CHOOSE i \in 1 .. Len(list) + 1 :
    /\ \A j \in 1 .. i - 1 : list[j] \in S
    /\ i <= Len(list) => list[i] \notin S

Without(list, t) ==
  IF t \in ToSet(list)
  THEN RemoveAt(list, CHOOSE i \in DOMAIN list : list[i] = t)
  ELSE list

\* Behind every thread of the same or a higher priority.
ListPut(k, list, t) ==
  InsertAt(list, PastPrefix(list, {u \in Thread : k.priority[u] >= k.priority[t]}), t)

ReadyPut(k, t) ==
  [k EXCEPT !.state[t] = "Ready", !.ready = ListPut(k, @, t)]

\* A thread is re-inserted only when it is in the list.
ListSort(k, list, t) ==
  IF t \in ToSet(list) THEN ListPut(k, Without(list, t), t) ELSE list

\* Mutant of DelayInsert: every timeout goes to the end of the list.
DelayInsert_AtEnd(k, t, timeout) ==
  IF timeout = Forever
  THEN [k EXCEPT !.delay[t] = Forever, !.wait_list = Append(@, t)]
  ELSE [k EXCEPT !.delay[t] = timeout, !.delay_list = Append(@, t)]

DelayInsert(k, t, timeout) ==
  IF timeout = Forever
  THEN [k EXCEPT !.delay[t] = Forever, !.wait_list = Append(@, t)]
  ELSE LET earlier == {u \in ToSet(k.delay_list) : k.delay[u] <= timeout}
       IN  [k EXCEPT !.delay[t] = timeout,
                     !.delay_list = InsertAt(@, PastPrefix(@, earlier), t)]

DelayRemove(k, t) ==
  IF k.delay[t] = Forever
  THEN [k EXCEPT !.delay[t] = 0, !.wait_list = Without(@, t)]
  ELSE [k EXCEPT !.delay[t] = 0, !.delay_list = Without(@, t)]

---------------------------------------------------------------------------
\* Dispatching

\* Mutant of Block: a preempted thread queues behind its equals.
Block_Behind(k, t) == ReadyPut(k, t)

\* A preempted thread goes in front of the threads of its own priority.
Block(k, t) ==
  LET higher == {u \in Thread : k.priority[u] > k.priority[t]}
  IN  [k EXCEPT !.state[t] = "Ready", !.ready = InsertAt(@, PastPrefix(@, higher), t)]

Switch(k, t) == [k EXCEPT !.state[t] = "Running", !.next = t]

SwitchToReady(k) == Switch([k EXCEPT !.ready = Tail(@)], Head(k.ready))

\* osRtxThreadDispatch(NULL)
Dispatch(k) ==
  IF /\ k.kernel = "Running"
     /\ k.ready # <<>>
     /\ k.priority[Head(k.ready)] > k.priority[k.curr]
  THEN Switch(Block([k EXCEPT !.ready = Tail(@)], k.curr), Head(k.ready))
  ELSE k

\* Mutant of DispatchThread: the released thread never preempts.
DispatchThread_NoPreempt(k, t) == ReadyPut(k, t)

\* osRtxThreadDispatch(t), t in no list
DispatchThread(k, t) ==
  IF k.kernel = "Running" /\ k.priority[t] > k.priority[k.curr]
  THEN Switch(Block(k, k.curr), t)
  ELSE ReadyPut(k, t)

\* osRtxThreadWaitExit(t, ret_val, FALSE) and (t, ret_val, TRUE)
WaitExit(k, t) == ReadyPut(DelayRemove(k, t), t)
WaitExitDispatch(k, t) == DispatchThread(DelayRemove(k, t), t)

\* The threads of list wait no longer, one after the other: their object is deleted.
Woken(k, list) ==
  LET woken[n \in 0 .. Len(list)] ==
        IF n = 0 THEN k ELSE WaitExit(woken[n - 1], list[n])
  IN  woken[Len(list)]

\* The two early returns of osRtxThreadWaitEnter, also made by the handlers
\* that take the processor from the running thread.
CanSwitch(k) == k.kernel = "Running" /\ k.ready # <<>>

WaitEnter(k, s, timeout) ==
  SwitchToReady(DelayInsert([k EXCEPT !.state[k.curr] = s], k.curr, timeout))

\* The end of an exception handler (irq_armv7m.S): run.next becomes run.curr.
Return(k) == [k EXCEPT !.curr = k.next]

---------------------------------------------------------------------------
\* Services on one thread

Yield(k) ==
  IF /\ CanSwitch(k)
     /\ k.priority[Head(k.ready)] = k.priority[k.curr]
  THEN Switch(ReadyPut([k EXCEPT !.ready = Tail(@)], k.curr), Head(k.ready))
  ELSE k

\* Taking a thread off the processor or out of its lists, in svcRtxThreadSuspend
\* and svcRtxThreadTerminate; a running thread leaves through SwitchToReady.
Stoppable(k, t) ==
  \/ k.state[t] = "Running" /\ CanSwitch(k)
  \/ k.state[t] = "Ready"
  \/ k.state[t] \in BlockedStates

\* Mutant of Unlist: a ready thread stays in the ready list.
Unlist_ReadyStays(k, t) ==
  IF k.state[t] \in BlockedStates THEN DelayRemove(k, t) ELSE k

Unlist(k, t) ==
  CASE k.state[t] = "Ready"          -> [k EXCEPT !.ready = Without(@, t)]
    [] k.state[t] \in BlockedStates  -> DelayRemove(k, t)
    [] OTHER                         -> k

Suspend(k, t) ==
  LET off == IF k.state[t] = "Running" THEN SwitchToReady(k) ELSE Unlist(k, t)
  IN  DelayInsert([off EXCEPT !.state[t] = "Blocked"], t, Forever)

Resume(k, t) == DispatchThread(DelayRemove(k, t), t)

SetPriority(k, t, p) ==
  LET raised == [k EXCEPT !.priority[t] = p]
  IN  Dispatch([raised EXCEPT !.ready = ListSort(raised, @, t)])

---------------------------------------------------------------------------
\* The tick

\* osRtxThreadDelayTick decrements the head's delay, and with it the ticks
\* left of every thread of the delay list ...
CountDown(k) ==
  [k EXCEPT !.delay = [t \in Thread |-> IF t \in ToSet(k.delay_list)
                                        THEN k.delay[t] - 1 ELSE k.delay[t]]]

\* ... and releases the threads at the head whose time has come.
Expired(k) == k.delay_list # <<>> /\ k.delay[Head(k.delay_list)] = 0

ReleaseHead(k) == ReadyPut([k EXCEPT !.delay_list = Tail(@)], Head(k.delay_list))

\* The slice of the elected thread: loaded when the thread is new on the
\* processor and has none left, then one tick shorter.
SliceLeft(k) ==
  LET slice == IF k.next # k.robin /\ k.delay[k.next] = 0
               THEN RobinTimeout ELSE k.delay[k.next]
  IN  IF slice = 0 THEN 0 ELSE slice - 1

\* Mutant of RoundRobin: the slice is counted but nobody takes over.
RoundRobin_NoSwitch(k) ==
  IF RobinTimeout = 0 THEN k
  ELSE [k EXCEPT !.robin = k.next, !.delay[k.next] = SliceLeft(k)]

RoundRobin(k) ==
  LET run    == k.next
      ticked == [k EXCEPT !.robin = run, !.delay[run] = SliceLeft(k)]
      heir   == Head(k.ready)
  IN  IF RobinTimeout = 0 THEN k
      ELSE IF /\ SliceLeft(k) = 0
              /\ CanSwitch(k)
              /\ k.priority[heir] = k.priority[run]
      THEN [Switch(ReadyPut([ticked EXCEPT !.ready = Tail(@)], run), heir)
              EXCEPT !.robin = heir, !.delay[heir] = RobinTimeout]
      ELSE ticked

===========================================================================
