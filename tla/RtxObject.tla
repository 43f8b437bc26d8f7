----------------------------- MODULE RtxObject -----------------------------
(***************************************************************************)
(* What the kernel objects that interrupt handlers may use have in common  *)
(* (semaphores, memory pools, event flags, message queues): a list of      *)
(* waiting threads ordered by priority, creation and deletion, and the     *)
(* queue of objects an interrupt handler registers for PendSV to process.  *)
(* The thread services here are those that meet a waiting thread.  Each    *)
(* object has a module of its own that adds its services to these.         *)
(*                                                                         *)
(* An interrupt may come at any moment.  A service reads or writes what it *)
(* shares with interrupts by one atomic operation, so an interrupt during  *)
(* it is one before or after it; where a service makes several such        *)
(* accesses the module of the object makes several steps.  PendSV runs     *)
(* when the service is over, before any thread and before SysTick.         *)
(***************************************************************************)
EXTENDS RtxScheduler

CONSTANTS
  Idle, Main,    \* the idle thread and the first application thread
  Priority,      \* the priorities the application uses
  IdlePriority,  \* osPriorityIdle
  Timeout,       \* the timeouts the application uses, Forever among them
  Object,        \* object control blocks
  IsrLimit       \* bound on osRtxInfo.isr_queue.cnt

ASSUME ObjectAssumption ==
  /\ Idle \in Thread /\ Main \in Thread /\ Idle # Main
  /\ Priority \subseteq Nat /\ Priority # {} /\ IdlePriority \in Nat
  /\ \A p \in Priority : IdlePriority <= p
  /\ Timeout \subseteq (Nat \ {0}) \cup {Forever}
  /\ IsrLimit \in Nat

VARIABLES
  k,            \* the scheduler
  id,           \* whether the control block is a valid object
  thread_list,  \* the threads waiting for each object
  handler,      \* the active exception handler, "thread" if none
  isr_queue     \* what interrupt handlers registered for post processing

kernelVars == <<k, id, thread_list, handler, isr_queue>>

Application == Thread \ {Idle}

ObjectStates ==
  {"WaitingSemaphore", "WaitingMemoryPool", "WaitingEventFlags",
   "WaitingMessageGet", "WaitingMessagePut"}

KernelTypeOK ==
  /\ k \in Scheduler
  /\ id \in [Object -> BOOLEAN]
  /\ thread_list \in [Object -> Seq(Thread)]
  /\ handler \in {"thread", "svc", "tick", "pendsv"}
  /\ Len(isr_queue) <= IsrLimit

\* After svcRtxKernelStart; the application creates its objects itself.
KernelInit ==
  /\ k = [state |-> [t \in Thread |-> CASE t = Main -> "Running"
                                        [] t = Idle -> "Ready"
                                        [] OTHER    -> "Inactive"],
          priority |-> [t \in Thread |->
             IF t = Main THEN CHOOSE p \in Priority : TRUE ELSE IdlePriority],
          delay |-> [t \in Thread |-> 0],
          ready |-> <<Idle>>, delay_list |-> <<>>, wait_list |-> <<>>,
          curr |-> Main, next |-> Main, robin |-> NoThread, kernel |-> "Running"]
  /\ id = [o \in Object |-> FALSE]
  /\ thread_list = [o \in Object |-> <<>>]
  /\ handler = "thread"
  /\ isr_queue = <<>>

---------------------------------------------------------------------------
\* Services

\* The end of a service, in a thread or in a handler that finishes it later:
\* after is the scheduler and lists the waiting threads it leaves.
Finish(after, lists) ==
  /\ k' = Return(after)
  /\ thread_list' = lists
  /\ handler' = IF isr_queue = <<>> THEN "thread" ELSE "pendsv"
  /\ UNCHANGED isr_queue

\* The running thread calls a service.
Calls == handler = "thread" /\ k.curr # Idle

Service(after, lists) == Calls /\ Finish(after, lists) /\ UNCHANGED id

\* Mutant of Leaving: the thread stays in the list of the object.
Leaving_StillListed(t) == thread_list

\* osRtxThreadListRemove(t), for the lists of the objects
Leaving(t) == [o \in Object |-> Without(thread_list[o], t)]

\* osRtxThreadListPut(o, running thread)
Joining(o) == [thread_list EXCEPT ![o] = ListPut(k, @, k.curr)]

\* osRtxThreadListGet(o), with First(o) the thread it returns
First(o) == Head(thread_list[o])
Popped(o) == [thread_list EXCEPT ![o] = Tail(@)]
Waited(o) == thread_list[o] # <<>>

ObjectNew(o) ==
  /\ ~id[o]
  /\ Calls /\ Finish(k, [thread_list EXCEPT ![o] = <<>>])
  /\ id' = [id EXCEPT ![o] = TRUE]

\* The threads wait no longer, with osErrorResource.
ObjectDelete(o) ==
  LET woken == Woken(k, thread_list[o])
  IN  /\ id[o]
      /\ Calls /\ Finish(IF Waited(o) THEN Dispatch(woken) ELSE k,
                         [thread_list EXCEPT ![o] = <<>>])
      /\ id' = [id EXCEPT ![o] = FALSE]

ThreadNew(t, p) ==
  /\ k.state[t] = "Inactive"
  /\ Service(DispatchThread([k EXCEPT !.state[t] = "Ready", !.priority[t] = p,
                                      !.delay[t] = 0], t), thread_list)

ThreadSetPriority(t, p) ==
  LET r == [k EXCEPT !.priority[t] = p]
  IN  /\ k.state[t] # "Inactive" /\ k.priority[t] # p
      /\ Service(SetPriority(k, t, p),
                 [o \in Object |-> ListSort(r, thread_list[o], t)])

ThreadSuspend(t) ==
  /\ Stoppable(k, t)
  /\ Service(Suspend(k, t), Leaving(t))

ThreadResume(t) ==
  /\ k.state[t] \in BlockedStates
  /\ Service(Resume(k, t), Leaving(t))

ThreadExit ==
  /\ CanSwitch(k)
  /\ Service([SwitchToReady(k) EXCEPT !.state[k.curr] = "Inactive"], thread_list)

ThreadTerminate(t) ==
  /\ t # k.curr /\ Stoppable(k, t)
  /\ Service([Dispatch(Unlist(k, t)) EXCEPT !.state[t] = "Inactive"], Leaving(t))

Delay(ticks) ==
  /\ ticks # Forever /\ CanSwitch(k)
  /\ Service(WaitEnter(k, "WaitingDelay", ticks), thread_list)

KernelLock ==
  /\ k.kernel = "Running"
  /\ Service([k EXCEPT !.kernel = "Locked"], thread_list)

KernelUnlock ==
  /\ k.kernel = "Locked"
  /\ Service([k EXCEPT !.kernel = "Running"], thread_list)

---------------------------------------------------------------------------
\* Interrupts, PendSV and SysTick

\* An interrupt handler registers an entry (osRtxPostProcess).
PostProcess(entry) ==
  /\ Len(isr_queue) < IsrLimit
  /\ isr_queue' = Append(isr_queue, entry)

PendSVStart ==
  /\ handler = "thread" /\ isr_queue # <<>>
  /\ handler' = "pendsv"
  /\ UNCHANGED <<k, id, thread_list, isr_queue>>

Pending == handler = "pendsv" /\ isr_queue # <<>>

\* PendSV takes the next entry, whose processing leaves after and lists.
PendSVTakes(after, lists) ==
  /\ isr_queue' = Tail(isr_queue)
  /\ k' = after
  /\ thread_list' = lists
  /\ UNCHANGED <<id, handler>>

PendSVEnd ==
  /\ handler = "pendsv" /\ isr_queue = <<>>
  /\ k' = Return(Dispatch(k))
  /\ handler' = "thread"
  /\ UNCHANGED <<id, thread_list, isr_queue>>

TickStart ==
  /\ handler = "thread" /\ isr_queue = <<>>
  /\ handler' = "tick"
  /\ k' = CountDown(k)
  /\ UNCHANGED <<id, thread_list, isr_queue>>

TickRelease ==
  /\ handler = "tick" /\ Expired(k)
  /\ k' = ReleaseHead(k)
  /\ thread_list' = Leaving(Head(k.delay_list))
  /\ UNCHANGED <<id, handler, isr_queue>>

TickEnd ==
  /\ handler = "tick" /\ ~Expired(k)
  /\ k' = Return(RoundRobin(Dispatch(k)))
  /\ handler' = IF isr_queue = <<>> THEN "thread" ELSE "pendsv"
  /\ UNCHANGED <<id, thread_list, isr_queue>>

---------------------------------------------------------------------------
\* The steps of the kernel that no object takes part in.
KernelStep ==
  \/ \E t \in Application :
       \/ \E p \in Priority : ThreadNew(t, p) \/ ThreadSetPriority(t, p)
       \/ ThreadSuspend(t) \/ ThreadResume(t) \/ ThreadTerminate(t)
  \/ ThreadExit
  \/ \E ticks \in Timeout : Delay(ticks)
  \/ KernelLock \/ KernelUnlock
  \/ PendSVStart \/ PendSVEnd
  \/ TickStart \/ TickRelease \/ TickEnd

\* The handlers that run without an application thread asking for them.
HandlerStep == PendSVStart \/ PendSVEnd \/ TickStart \/ TickRelease \/ TickEnd

---------------------------------------------------------------------------
\* Properties

\* A thread blocked for an object is in the list of exactly one, a valid one,
\* and the lists hold no other thread, through timeouts, suspension, change of
\* priority, termination and deletion.
WaitersListed ==
  /\ \A o \in Object : Distinct(thread_list[o]) /\ (Waited(o) => id[o])
  /\ \A t \in Thread : k.state[t] \in ObjectStates <=>
                         \E o \in Object : t \in ToSet(thread_list[o])
  /\ \A o, p \in Object :
       o # p => ToSet(thread_list[o]) \cap ToSet(thread_list[p]) = {}

\* The list stays ordered by priority: its head is the thread served first.
WaitersSorted ==
  \A o \in Object : \A i, j \in DOMAIN thread_list[o] :
    i < j => k.priority[thread_list[o][i]] >= k.priority[thread_list[o][j]]
===========================================================================
