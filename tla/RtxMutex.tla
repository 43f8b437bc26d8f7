----------------------------- MODULE RtxMutex ------------------------------
(***************************************************************************)
(* Mutexes of the RTX kernel (rtx_mutex.c): recursive, robust and priority *)
(* inheriting, with the thread services that meet them: termination and    *)
(* exit of an owner, suspension, resumption and change of priority of a    *)
(* waiting thread, and the tick that ends a wait.                          *)
(*                                                                         *)
(* The mutexes a thread owns are linked through owner_prev and owner_next  *)
(* of the mutexes themselves, from mutex_list of the thread; the links are *)
(* modelled one by one, since what may go wrong with them is the point.    *)
(* The threads waiting for a mutex are the sequence thread_list.  Mutexes  *)
(* cannot be used in interrupts: a service is one step, as in RtxThread.   *)
(***************************************************************************)
EXTENDS RtxScheduler

CONSTANTS
  Idle, Main,    \* the idle thread and the first application thread
  Priority,      \* the priorities the application uses
  IdlePriority,  \* osPriorityIdle
  Timeout,       \* the timeouts the application uses, Forever among them
  Mutex,         \* mutex control blocks
  NoMutex,       \* the NULL pointer
  Recursive, PrioInherit, Robust,  \* the mutexes with these attributes
  LockLimit,     \* osRtxMutexLockLimit
  Habits         \* what the application allows itself, some of:
                 \*   "Nest"     waiting for a mutex while it owns another
                 \*   "Disturb"  suspending, resuming, terminating a waiting
                 \*              thread, changing the priority of one or of
                 \*              an owner
                 \*   "Abandon"  ending a thread that owns a mutex that is
                 \*              not robust
                 \*   "Lock"     osKernelLock
                 \*   "Delete"   osMutexDelete

ASSUME MutexAssumption ==
  /\ Idle \in Thread /\ Main \in Thread /\ Idle # Main
  /\ Priority \subseteq Nat /\ Priority # {} /\ IdlePriority \in Nat
  /\ \A p \in Priority : IdlePriority <= p
  /\ Timeout \subseteq (Nat \ {0}) \cup {Forever}
  /\ IsFiniteSet(Mutex) /\ NoMutex \notin Mutex
  /\ Recursive \cup PrioInherit \cup Robust \subseteq Mutex
  /\ LockLimit \in Nat \ {0}

VARIABLES
  k,              \* the scheduler
  priority_base,  \* of each thread
  mx,             \* the mutexes and the mutex_list of each thread
  handler         \* the active exception handler, "thread" if none

vars == <<k, priority_base, mx, handler>>

Application == Thread \ {Idle}

Mutexes ==
  [id : [Mutex -> BOOLEAN],  \* id = osRtxIdMutex
   lock : [Mutex -> 0 .. LockLimit],
   owner_thread : [Mutex -> Thread \cup {NoThread}],
   owner_prev : [Mutex -> Mutex \cup {NoMutex}],
   owner_next : [Mutex -> Mutex \cup {NoMutex}],
   thread_list : [Mutex -> Seq(Thread)],
   mutex_list : [Thread -> Mutex \cup {NoMutex}]]

TypeOK ==
  /\ k \in Scheduler
  /\ priority_base \in [Thread -> Nat]
  /\ mx \in Mutexes
  /\ handler \in {"thread", "tick"}

\* After svcRtxKernelStart; the application creates its mutexes itself.
Init ==
  /\ priority_base = [t \in Thread |->
       IF t = Main THEN CHOOSE p \in Priority : TRUE ELSE IdlePriority]
  /\ k = [state |-> [t \in Thread |-> CASE t = Main -> "Running"
                                        [] t = Idle -> "Ready"
                                        [] OTHER    -> "Inactive"],
          priority |-> priority_base, delay |-> [t \in Thread |-> 0],
          ready |-> <<Idle>>, delay_list |-> <<>>, wait_list |-> <<>>,
          curr |-> Main, next |-> Main, robin |-> NoThread, kernel |-> "Running"]
  /\ mx = [id |-> [m \in Mutex |-> FALSE], lock |-> [m \in Mutex |-> 0],
           owner_thread |-> [m \in Mutex |-> NoThread],
           owner_prev |-> [m \in Mutex |-> NoMutex],
           owner_next |-> [m \in Mutex |-> NoMutex],
           thread_list |-> [m \in Mutex |-> <<>>],
           mutex_list |-> [t \in Thread |-> NoMutex]]
  /\ handler = "thread"

---------------------------------------------------------------------------
\* The list of the mutexes a thread owns

\* The mutexes met walking from mutex_list of t along owner_next.
MutexList(x, t) ==
  LET walk[i \in 1 .. Cardinality(Mutex)] ==
        IF i = 1 THEN x.mutex_list[t]
        ELSE IF walk[i - 1] \in Mutex THEN x.owner_next[walk[i - 1]] ELSE NoMutex
  IN  SubSeq(walk, 1, PastPrefix(walk, Mutex) - 1)

\* pointer of m, if there is m, set to value
Link(pointer, m, value) ==
  IF m = NoMutex THEN pointer ELSE [pointer EXCEPT ![m] = value]

\* t becomes the owner of m, which goes to the front of its list.
Hold(x, m, t) ==
  LET first == x.mutex_list[t]
  IN  [x EXCEPT !.lock[m] = 1, !.owner_thread[m] = t,
                !.owner_prev = Link([@ EXCEPT ![m] = NoMutex], first, m),
                !.owner_next[m] = first, !.mutex_list[t] = m]

\* Mutant of Unhold: the predecessor of the successor is left as it was.
Unhold_OneWay(x, m) ==
  LET prev == x.owner_prev[m]
      next == x.owner_next[m]
  IN  [x EXCEPT !.owner_next = Link(@, prev, next),
                !.mutex_list = IF prev # NoMutex THEN @
                               ELSE [@ EXCEPT ![x.owner_thread[m]] = next]]

\* m leaves the list of its owner.
Unhold(x, m) ==
  LET prev == x.owner_prev[m]
      next == x.owner_next[m]
  IN  [x EXCEPT !.owner_prev = Link(@, next, prev),
                !.owner_next = Link(@, prev, next),
                !.mutex_list = IF prev # NoMutex THEN @
                               ELSE [@ EXCEPT ![x.owner_thread[m]] = next]]

---------------------------------------------------------------------------
\* Waiting threads

\* Mutant of Leave: the thread stays in its list.
Leave_Kept(x, t) == x

\* osRtxThreadListRemove(t), for the lists of the mutexes
Leave(x, t) ==
  [x EXCEPT !.thread_list = [m \in Mutex |-> Without(@[m], t)]]

\* The first thread waiting for m becomes ready ...
WakeFirst(s, x, m) ==
  IF x.thread_list[m] = <<>> THEN s ELSE WaitExit(s, Head(x.thread_list[m]))

\* Mutant of HandOver: the mutex is freed although a thread was woken for it.
HandOver_Free(x, m) ==
  IF x.thread_list[m] = <<>> THEN x ELSE [x EXCEPT !.thread_list[m] = Tail(@)]

\* ... and the owner of m.
HandOver(x, m) ==
  IF x.thread_list[m] = <<>> THEN x
  ELSE Hold([x EXCEPT !.thread_list[m] = Tail(@)], m, Head(x.thread_list[m]))

\* Mutant of Reprioritise: the thread keeps its place in the ready list.
Reprioritise_Unsorted(s, t, p) == [s EXCEPT !.priority[t] = p]

\* A new priority and, when it differs, osRtxThreadListSort in the ready list ...
Reprioritise(s, t, p) ==
  LET r == [s EXCEPT !.priority[t] = p]
  IN  IF s.priority[t] = p THEN s ELSE [r EXCEPT !.ready = ListSort(r, @, t)]

\* ... or in the list of the mutex it waits for: r is s with t reprioritised.
Requeue(s, r, x, t) ==
  IF r.priority[t] = s.priority[t] THEN x
  ELSE [x EXCEPT !.thread_list = [m \in Mutex |-> ListSort(r, @[m], t)]]

\* Mutant of Owed: the mutexes still owned are forgotten.
Owed_Base(s, x, t, thread_wakeup) == priority_base[t]

\* The priority t is owed: its own, or that of the first thread waiting for a
\* priority inheriting mutex it owns, thread_wakeup no longer counting.
Owed(s, x, t, thread_wakeup) ==
  LET queues == {Without(x.thread_list[m], thread_wakeup) :
                   m \in PrioInherit \cap ToSet(MutexList(x, t))}
  IN  Max({priority_base[t]} \cup {s.priority[Head(q)] : q \in queues \ {<<>>}})

\* osRtxMutexOwnerRelease(t->mutex_list): the robust mutexes t owns are, one after
\* the other, unlocked and handed over; the others stay as they are.
Bequeath(s, x, t) ==
  LET list == MutexList(x, t)
      left[n \in 0 .. Len(list)] ==
        IF n = 0 THEN [s |-> s, x |-> x]
        ELSE IF list[n] \notin Robust THEN left[n - 1]
        ELSE [s |-> WakeFirst(left[n - 1].s, left[n - 1].x, list[n]),
              x |-> HandOver([left[n - 1].x EXCEPT !.lock[list[n]] = 0], list[n])]
  IN  left[Len(list)]

---------------------------------------------------------------------------
\* Mutex services

\* The running thread calls a service, which leaves the scheduler as after
\* and the mutexes as x.
Service(after, x) ==
  /\ handler = "thread" /\ k.curr # Idle
  /\ k' = Return(after)
  /\ mx' = x
  /\ UNCHANGED handler

MutexNew(m) ==
  /\ ~mx.id[m]
  /\ Service(k, [mx EXCEPT !.id[m] = TRUE, !.lock[m] = 0, !.owner_thread[m] = NoThread,
                           !.owner_prev[m] = NoMutex, !.owner_next[m] = NoMutex,
                           !.thread_list[m] = <<>>])
  /\ UNCHANGED priority_base

MutexAcquireFree(m) ==
  /\ mx.id[m] /\ mx.lock[m] = 0
  /\ Service(k, Hold(mx, m, k.curr))
  /\ UNCHANGED priority_base

Again(m) == m \in Recursive /\ mx.owner_thread[m] = k.curr

MutexAcquireAgain(m) ==
  /\ mx.id[m] /\ mx.lock[m] # 0 /\ Again(m)
  /\ mx.lock[m] < LockLimit
  /\ Service(k, [mx EXCEPT !.lock[m] = @ + 1])
  /\ UNCHANGED priority_base

\* The owner is raised first, also when the wait then cannot begin.
MutexAcquireWait(m, timeout) ==
  LET owner  == mx.owner_thread[m]
      raised == IF m \in PrioInherit /\ k.priority[owner] < k.priority[k.curr]
                THEN Reprioritise(k, owner, k.priority[k.curr])
                ELSE k
      x      == Requeue(k, raised, mx, owner)
  IN  /\ mx.id[m] /\ mx.lock[m] # 0 /\ ~Again(m)
      /\ "Nest" \notin Habits => mx.mutex_list[k.curr] = NoMutex
      /\ IF CanSwitch(k)
         THEN Service(WaitEnter(raised, "WaitingMutex", timeout),
                      [x EXCEPT !.thread_list[m] = ListPut(raised, @, k.curr)])
         ELSE Service(raised, x)
      /\ UNCHANGED priority_base

MutexReleaseOnce(m) ==
  /\ mx.id[m] /\ mx.owner_thread[m] = k.curr /\ mx.lock[m] > 1
  /\ Service(k, [mx EXCEPT !.lock[m] = @ - 1])
  /\ UNCHANGED priority_base

MutexRelease(m) ==
  LET x       == Unhold([mx EXCEPT !.lock[m] = 0], m)
      lowered == Reprioritise(k, k.curr, Owed(k, x, k.curr, NoThread))
  IN  /\ mx.id[m] /\ mx.owner_thread[m] = k.curr /\ mx.lock[m] = 1
      /\ Service(Dispatch(WakeFirst(lowered, x, m)), HandOver(x, m))
      /\ UNCHANGED priority_base

MutexDelete(m) ==
  LET owner   == mx.owner_thread[m]
      x       == Unhold(mx, m)
      lowered == Reprioritise(k, owner, Owed(k, x, owner, NoThread))
      y       == Requeue(k, lowered, x, owner)
  IN  /\ "Delete" \in Habits /\ mx.id[m]
      /\ IF mx.lock[m] = 0
         THEN Service(k, [mx EXCEPT !.id[m] = FALSE])
         ELSE Service(Dispatch(Woken(lowered, y.thread_list[m])),
                      [y EXCEPT !.id[m] = FALSE, !.thread_list[m] = <<>>])
      /\ UNCHANGED priority_base

---------------------------------------------------------------------------
\* Thread services

Waits(t) == k.state[t] = "WaitingMutex"

MayDisturb(t) == Waits(t) => "Disturb" \in Habits

MayEnd(t) == ToSet(MutexList(mx, t)) \subseteq Robust \/ "Abandon" \in Habits

ThreadNew(t, p) ==
  /\ k.state[t] = "Inactive"
  /\ Service(DispatchThread([k EXCEPT !.state[t] = "Ready", !.priority[t] = p,
                                      !.delay[t] = 0], t),
             [mx EXCEPT !.mutex_list[t] = NoMutex])
  /\ priority_base' = [priority_base EXCEPT ![t] = p]

ThreadSetPriority(t, p) ==
  /\ k.state[t] # "Inactive" /\ k.priority[t] # p
  /\ MayDisturb(t) /\ (mx.mutex_list[t] # NoMutex => "Disturb" \in Habits)
  /\ Service(SetPriority(k, t, p),
             Requeue(k, [k EXCEPT !.priority[t] = p], mx, t))
  /\ priority_base' = [priority_base EXCEPT ![t] = p]

ThreadSuspend(t) ==
  /\ Stoppable(k, t) /\ MayDisturb(t)
  /\ Service(Suspend(k, t), Leave(mx, t))
  /\ UNCHANGED priority_base

ThreadResume(t) ==
  /\ k.state[t] \in BlockedStates /\ MayDisturb(t)
  /\ Service(Resume(k, t), Leave(mx, t))
  /\ UNCHANGED priority_base

ThreadExit ==
  LET left == Bequeath(k, mx, k.curr)
  IN  /\ CanSwitch(k) /\ MayEnd(k.curr)
      /\ Service([SwitchToReady(left.s) EXCEPT !.state[k.curr] = "Inactive"], left.x)
      /\ UNCHANGED priority_base

ThreadTerminate(t) ==
  LET left == Bequeath(Unlist(k, t), Leave(mx, t), t)
  IN  /\ t # k.curr /\ Stoppable(k, t) /\ MayDisturb(t) /\ MayEnd(t)
      /\ Service([Dispatch(left.s) EXCEPT !.state[t] = "Inactive"], left.x)
      /\ UNCHANGED priority_base

Delay(ticks) ==
  /\ ticks # Forever /\ CanSwitch(k)
  /\ Service(WaitEnter(k, "WaitingDelay", ticks), mx)
  /\ UNCHANGED priority_base

KernelLock ==
  /\ "Lock" \in Habits /\ k.kernel = "Running"
  /\ Service([k EXCEPT !.kernel = "Locked"], mx)
  /\ UNCHANGED priority_base

KernelUnlock ==
  /\ k.kernel = "Locked"
  /\ Service([k EXCEPT !.kernel = "Running"], mx)
  /\ UNCHANGED priority_base

---------------------------------------------------------------------------
\* The tick

TickStart ==
  /\ handler = "thread"
  /\ handler' = "tick"
  /\ k' = CountDown(k)
  /\ UNCHANGED <<priority_base, mx>>

\* The end of a wait for a mutex first takes back from the owner what it
\* inherits from the thread that gives up (osRtxMutexOwnerRestore).
TickRelease ==
  LET t        == Head(k.delay_list)
      m        == CHOOSE n \in Mutex : t \in ToSet(mx.thread_list[n])
      owner    == mx.owner_thread[m]
      restored == IF Waits(t) /\ m \in PrioInherit
                  THEN Reprioritise(k, owner, Owed(k, mx, owner, t))
                  ELSE k
      x        == IF Waits(t) THEN Leave(Requeue(k, restored, mx, owner), t) ELSE mx
  IN  /\ handler = "tick" /\ Expired(k)
      /\ k' = ReleaseHead(restored)
      /\ mx' = x
      /\ UNCHANGED <<priority_base, handler>>

TickEnd ==
  /\ handler = "tick" /\ ~Expired(k)
  /\ k' = Return(RoundRobin(Dispatch(k)))
  /\ handler' = "thread"
  /\ UNCHANGED <<priority_base, mx>>

---------------------------------------------------------------------------
MutexCall(m) ==
  \/ MutexNew(m) \/ MutexDelete(m)
  \/ MutexAcquireFree(m) \/ MutexAcquireAgain(m)
  \/ \E timeout \in Timeout : MutexAcquireWait(m, timeout)
  \/ MutexReleaseOnce(m) \/ MutexRelease(m)

ThreadCall(t) ==
  \/ \E p \in Priority : ThreadNew(t, p) \/ ThreadSetPriority(t, p)
  \/ ThreadSuspend(t) \/ ThreadResume(t) \/ ThreadTerminate(t)

Next ==
  \/ \E m \in Mutex : MutexCall(m)
  \/ \E t \in Application : ThreadCall(t)
  \/ ThreadExit
  \/ \E ticks \in Timeout : Delay(ticks)
  \/ KernelLock \/ KernelUnlock
  \/ TickStart \/ TickRelease \/ TickEnd

Spec == Init /\ [][Next]_vars
---------------------------------------------------------------------------
\* Properties

Alive(t) == k.state[t] # "Inactive"

\* The doubly linked list of each live thread holds exactly the mutexes locked
\* by it, forwards and backwards: Release, Delete and the end of the owner
\* unlink by these pointers alone.
OwnersLinked ==
  \A t \in Thread : Alive(t) =>
    LET list == MutexList(mx, t)
    IN  /\ Distinct(list)
        /\ ToSet(list) = {m \in Mutex : /\ mx.id[m] /\ mx.lock[m] # 0
                                        /\ mx.owner_thread[m] = t}
        /\ \A i \in DOMAIN list :
             mx.owner_prev[list[i]] = IF i = 1 THEN NoMutex ELSE list[i - 1]

\* A thread blocked for a mutex is in the list of exactly one, a locked one, and
\* the lists hold no other thread: a mutex is never free with a thread waiting.
WaitersListed ==
  /\ \A m \in Mutex : /\ Distinct(mx.thread_list[m])
                      /\ mx.thread_list[m] # <<>> => mx.id[m] /\ mx.lock[m] # 0
  /\ \A t \in Thread :
       Waits(t) <=> \E m \in Mutex : t \in ToSet(mx.thread_list[m])
  /\ \A m, n \in Mutex :
       m # n => ToSet(mx.thread_list[m]) \cap ToSet(mx.thread_list[n]) = {}

\* The list of a mutex stays ordered by priority, which inheritance, its end and
\* osThreadSetPriority change while threads wait: release takes the head.
WaitersSorted ==
  \A m \in Mutex : \A i, j \in DOMAIN mx.thread_list[m] :
    i < j => k.priority[mx.thread_list[m][i]] >= k.priority[mx.thread_list[m][j]]

\* The lists of owners and of waiting threads agree with the locks and with each
\* other, so that whoever ends, wakes up or gives up is where he is looked for.
ListsLinked == TypeOK /\ OwnersLinked /\ WaitersListed /\ WaitersSorted

\* Priority inheritance is exact: a thread runs at the highest of its own
\* priority and those of the threads waiting for the inheriting mutexes it owns,
\* after any number of acquisitions, releases, timeouts and hand-overs.  (Where
\* no thread waits while it owns a mutex and nobody disturbs waiting threads.)
InheritsExactly ==
  \A t \in Thread : Alive(t) =>
    LET waiting == UNION {ToSet(mx.thread_list[m]) :
                            m \in {n \in PrioInherit : /\ mx.id[n] /\ mx.lock[n] # 0
                                                       /\ mx.owner_thread[n] = t}}
    IN  k.priority[t] = Max({priority_base[t]} \cup {k.priority[u] : u \in waiting})

\* The end of inheritance lowers the running thread or another one in place; in
\* every case the processor is with the highest priority when services return.
HighestRuns ==
  handler = "thread" /\ k.kernel = "Running" =>
    \A t \in ToSet(k.ready) : k.priority[t] <= k.priority[k.curr]

\* cmsis_os2.h:194, "Priority inherit protocol": a thread whose mutexes nobody
\* waits for runs at its own priority.  It does not when the waiting thread was
\* terminated, suspended or resumed: only a timeout restores the owner.
InheritanceEnds ==
  \A t \in Thread :
    Alive(t) /\ (\A m \in Mutex : mx.owner_thread[m] = t => mx.thread_list[m] = <<>>) =>
      k.priority[t] = priority_base[t]

\* What is left of it ends with the last mutex: a thread that owns none runs at
\* its own priority, however the threads that waited for its mutexes stopped to.
RaiseEnds ==
  \A t \in Thread : Alive(t) /\ MutexList(mx, t) = <<>> => k.priority[t] = priority_base[t]

\* rtx_os.h:121 calls mutex_list the "list of owned Mutexes": a live thread has
\* only mutexes there that it owns, locked.  It has others once a mutex whose
\* owner died is deleted: that unlinks by pointers into a list that has changed.
OwnedOnly ==
  \A t \in Thread : Alive(t) =>
    \A m \in ToSet(MutexList(mx, t)) :
      mx.id[m] /\ mx.lock[m] # 0 /\ mx.owner_thread[m] = t

\* The kernel's mutexes as the callers see them.
Locks ==
  INSTANCE MutexService WITH
    running <- k.curr,
    holder  <- [m \in Mutex |-> IF mx.id[m] /\ mx.lock[m] # 0
                                THEN mx.owner_thread[m] ELSE NoThread],
    depth   <- [m \in Mutex |-> IF mx.id[m] THEN mx.lock[m] ELSE 0],
    waiters <- [m \in Mutex |-> IF mx.id[m] THEN ToSet(mx.thread_list[m]) ELSE {}]

\* Every step of the kernel is one the callers expect of a mutex: only its owner,
\* running, releases it, and a release with threads waiting passes it to one.
ImplementsService == Locks!Spec
===========================================================================
