-------------------------- MODULE RtxObjectProofs --------------------------
(***************************************************************************)
(* The threads that wait for an object of RtxObject are in its list, in    *)
(* the order of their priorities, for any number of threads and objects:   *)
(* lemmas about the lists and about each step of the kernel, on which the  *)
(* proofs of the objects rest.                                             *)
(***************************************************************************)
EXTENDS RtxObject, RtxSchedulerProofs

---------------------------------------------------------------------------
\* The inductive invariant of the kernel.  In the middle of a tick a thread of
\* the delay list may have no ticks left.
KernelInv ==
  /\ handler \in {"thread", "svc", "tick", "pendsv"}
  /\ id \in [Object -> BOOLEAN]
  /\ Runs(k, {}) /\ k.curr = k.next
  /\ Sorted(k, 0) /\ (handler # "tick" => Sorted(k, 1))
  /\ Waiting(Object, ObjectStates, k, thread_list, id)

\* No thread begins to wait for an object.
Shrinks == Fewer(Object, thread_list', thread_list)

LEMMA KernelNow ==
  ASSUME KernelInv
  PROVE  /\ Typed(k) /\ "priority" \in DOMAIN k
         /\ k.curr \in Thread /\ k.state[k.curr] = "Running"
         /\ k.curr \notin ToSet(k.delay_list) /\ k.state[k.curr] \notin ObjectStates
         /\ Fewer(Object, thread_list, thread_list)
         /\ \A t \in ToSet(k.delay_list) : k.state[t] \in BlockedStates
<1>1. Typed(k) /\ Placed(k, {}) /\ k.state[k.curr] = "Running"
  BY DEF KernelInv, Runs
<1>2. k.curr \in Thread /\ "priority" \in DOMAIN k
  BY <1>1 DEF Typed
<1>3. \A t \in ToSet(k.delay_list) : k.state[t] \in BlockedStates
  <2>1. \A t \in ToSet(k.delay_list) : t \in Thread
    BY <1>1, RankTypes DEF ToSet
  <2> QED
    BY <1>1, <2>1 DEF Placed
<1>4. k.state[k.curr] \notin ObjectStates /\ k.state[k.curr] \notin BlockedStates
  BY <1>1 DEF ObjectStates, BlockedStates, WaitStates
<1>5. Fewer(Object, thread_list, thread_list)
  <2>1. \A o \in Object : Len(thread_list[o]) \in Nat
    BY DEF KernelInv, Waiting
  <2> QED
    BY <2>1 DEF Fewer
<1> QED
  BY <1>1, <1>2, <1>3, <1>4, <1>5

\* The end of a service that keeps everything in its place.
LEMMA FinishKeeps ==
  ASSUME KernelInv, NEW after, NEW lists, Finish(after, lists), id' \in [Object -> BOOLEAN],
         Runs(after, {}), Sorted(after, 1), Waiting(Object, ObjectStates, after, lists, id')
  PROVE  KernelInv'
<1>1. k' = Return(after) /\ thread_list' = lists /\ handler' \in {"thread", "pendsv"}
  BY DEF Finish
<1>2. Runs(k', {}) /\ k'.curr = k'.next /\ k'.state = after.state /\ k'.priority = after.priority
  BY <1>1, ReturnRuns
<1>3. Sorted(k', 1)
  BY <1>1, ReturnSorted
<1>4. Sorted(k', 0)
  BY <1>3, Lower
<1>5. Waiting(Object, ObjectStates, k', lists, id')
  BY <1>2, WaitsSame
<1> QED
  BY <1>1, <1>2, <1>3, <1>4, <1>5 DEF KernelInv

\* A service that ends in the scheduler after, in which only the threads of S
\* change, none of which waits for an object before or after.
LEMMA StandKeeps ==
  ASSUME KernelInv, NEW after, NEW S, Service(after, thread_list), Runs(after, {}),
         Sorted(after, 1), Frame(k, after, S),
         \A t \in Thread : t \notin S => after.priority[t] = k.priority[t],
         \A t \in Thread : t \in S => /\ k.state[t] \notin ObjectStates
                                      /\ after.state[t] \notin ObjectStates
  PROVE  KernelInv' /\ Shrinks
<1>1. Finish(after, thread_list) /\ id' = id /\ thread_list' = thread_list
  BY DEF Service, Finish
<1>2. Waiting(Object, ObjectStates, after, thread_list, id')
  BY <1>1, WaitsStand DEF KernelInv
<1>3. id' \in [Object -> BOOLEAN]
  BY <1>1 DEF KernelInv
<1>4. KernelInv'
  BY <1>1, <1>2, <1>3, FinishKeeps
<1>5. Shrinks
  BY <1>1, KernelNow DEF Shrinks
<1> QED
  BY <1>4, <1>5

\* A service after which the thread t, of whatever state, waits for no object.
LEMMA LeaveKeeps ==
  ASSUME KernelInv, NEW after, NEW t \in Thread, Service(after, Leaving(t)),
         Runs(after, {}), Sorted(after, 1), Frame(k, after, {t}),
         Prioritised(k, after), after.state[t] \notin ObjectStates
  PROVE  KernelInv' /\ Shrinks
<1> DEFINE x == [o \in Object |-> Without(thread_list[o], t)]
<1>1. Finish(after, x) /\ id' = id /\ thread_list' = x
  BY DEF Service, Finish, Leaving
<1>2. /\ Typed(k) /\ Waiting(Object, ObjectStates, k, thread_list, id)
      /\ after.priority = k.priority
  BY KernelNow DEF KernelInv, Prioritised
<1>3. Waiting(Object, ObjectStates, after, x, id) /\ Fewer(Object, x, thread_list)
  BY <1>2, WaitsLeave
<1>4. id' \in [Object -> BOOLEAN]
  BY <1>1 DEF KernelInv
<1> HIDE DEF x
<1>5. KernelInv'
  BY <1>1, <1>3, <1>4, FinishKeeps
<1>6. Shrinks
  BY <1>1, <1>3 DEF Shrinks
<1> QED
  BY <1>5, <1>6

LEMMA ReadyNowhere ==
  {"Ready", "Running", "Inactive", "Blocked", "WaitingDelay"} \cap ObjectStates = {}
BY DEF ObjectStates

---------------------------------------------------------------------------
\* The services on threads

LEMMA CallsSorted ==
  ASSUME KernelInv, Calls
  PROVE  Sorted(k, 1) /\ Runs(k, {}) /\ k.curr = k.next
BY DEF KernelInv, Calls

LEMMA ThreadNewKeeps ==
  ASSUME KernelInv, NEW t \in Thread, NEW p \in Priority, ThreadNew(t, p)
  PROVE  KernelInv' /\ Shrinks
<1> DEFINE m == Begun(k, t, p)
           r == DispatchThread(m, t)
<1>1. /\ k.state[t] = "Inactive" /\ Calls
      /\ Service(r, thread_list) /\ p \in Nat
  BY ObjectAssumption DEF ThreadNew, Service, Begun
<1>2. /\ Sorted(k, 1) /\ Runs(k, {}) /\ k.curr = k.next /\ k.state[t] = "Inactive"
      /\ p \in Nat
  BY <1>1, CallsSorted
<1>3. Sorted(m, 1) /\ \A u \in Thread : u # t => m.priority[u] = k.priority[u]
  BY <1>2, NewThreadSorted
<1>4. Runs(r, {}) /\ Frame(k, r, {t}) /\ r.state[t] \in {"Ready", "Running"}
  BY <1>2, NewThreadRuns
<1> HIDE DEF m
<1>5. Sorted(r, 1)
  BY <1>3, DispatchThreadSorted
<1>6. "priority" \in DOMAIN m
  BY <1>3 DEF Sorted, Typed
<1>7. r.priority = m.priority
  BY <1>6, DispatchPriorities DEF Prioritised
<1> HIDE DEF r
<1>8. \A u \in Thread : u \notin {t} => r.priority[u] = k.priority[u]
  BY <1>3, <1>7
<1>9. \A u \in Thread : u \in {t} => /\ k.state[u] \notin ObjectStates
                                     /\ r.state[u] \notin ObjectStates
  BY <1>1, <1>4, ReadyNowhere
<1> QED
  BY <1>1, <1>4, <1>5, <1>8, <1>9, StandKeeps

LEMMA ThreadSetPriorityKeeps ==
  ASSUME KernelInv, NEW t \in Thread, NEW p \in Priority, ThreadSetPriority(t, p)
  PROVE  KernelInv' /\ Shrinks
<1> DEFINE m == [k EXCEPT !.priority[t] = p]
           x == [o \in Object |-> ListSort(m, thread_list[o], t)]
           r == SetPriority(k, t, p)
<1>1. Calls /\ Service(r, x) /\ p \in Nat
  BY ObjectAssumption DEF ThreadSetPriority, Service
<1>2. Sorted(k, 1) /\ Runs(k, {}) /\ k.curr = k.next /\ Typed(k)
  BY <1>1, CallsSorted, KernelNow
<1>3. Runs(r, {}) /\ Frame(k, r, {})
  BY <1>1, <1>2, SetPriorityRuns
<1>4. Distinct(k.ready)
  BY <1>2 DEF Runs, Placed
<1>5. PICK n : /\ r = Dispatch(n) /\ Sorted(n, 1)
               /\ n.priority = [k.priority EXCEPT ![t] = p]
  BY <1>1, <1>2, <1>4, RaiseSorted
<1>6. Sorted(r, 1)
  BY <1>5, DispatchSorted
<1>7. "priority" \in DOMAIN n
  BY <1>5 DEF Sorted, Typed
<1>8. r.priority = [k.priority EXCEPT ![t] = p]
  BY <1>5, <1>7, DispatchPriorities DEF Prioritised
<1> HIDE DEF r
<1>9. Waiting(Object, ObjectStates, k, thread_list, id) /\ id \in [Object -> BOOLEAN]
  BY DEF KernelInv
<1>10. Waiting(Object, ObjectStates, r, x, id) /\ Fewer(Object, x, thread_list)
  BY <1>1, <1>2, <1>3, <1>8, <1>9, WaitsSort
<1> HIDE DEF x, m
<1>11. Finish(r, x) /\ id' = id /\ thread_list' = x
  BY <1>1 DEF Service, Finish
<1>12. KernelInv'
  BY <1>3, <1>6, <1>9, <1>10, <1>11, FinishKeeps
<1> QED
  BY <1>10, <1>11, <1>12 DEF Shrinks

LEMMA ThreadSuspendKeeps ==
  ASSUME KernelInv, NEW t \in Thread, ThreadSuspend(t)
  PROVE  KernelInv' /\ Shrinks
<1> DEFINE r == Suspend(k, t)
<1>1. Calls /\ Service(r, Leaving(t)) /\ Stoppable(k, t)
  BY DEF ThreadSuspend, Service
<1>2. Sorted(k, 1) /\ Runs(k, {}) /\ k.curr = k.next
  BY <1>1, CallsSorted
<1>3. Runs(r, {}) /\ Frame(k, r, {t}) /\ r.state[t] = "Blocked"
  BY <1>1, <1>2, SuspendRuns
<1>4. t \in ToSet(k.delay_list) => k.state[t] \in BlockedStates
  BY KernelNow
<1>5. Sorted(r, 1)
  BY <1>1, <1>2, <1>4, SuspendSorted
<1>6. Prioritised(k, r)
  BY KernelNow, WaitPriorities
<1> HIDE DEF r
<1>7. r.state[t] \notin ObjectStates
  BY <1>3, ReadyNowhere
<1> QED
  BY <1>1, <1>3, <1>5, <1>6, <1>7, LeaveKeeps

LEMMA ThreadResumeKeeps ==
  ASSUME KernelInv, NEW t \in Thread, ThreadResume(t)
  PROVE  KernelInv' /\ Shrinks
<1> DEFINE r == Resume(k, t)
<1>1. Calls /\ Service(r, Leaving(t)) /\ k.state[t] \in BlockedStates
  BY DEF ThreadResume, Service
<1>2. Sorted(k, 1) /\ Runs(k, {}) /\ k.curr = k.next
  BY <1>1, CallsSorted
<1>3. Runs(r, {}) /\ Frame(k, r, {t}) /\ r.state[t] \in {"Ready", "Running"}
  BY <1>1, <1>2, ResumeRuns
<1>4. Sorted(r, 1)
  BY <1>2, ResumeSorted
<1>5. Prioritised(k, r)
  BY KernelNow, WaitPriorities
<1> HIDE DEF r
<1>6. r.state[t] \notin ObjectStates
  BY <1>3, ReadyNowhere
<1> QED
  BY <1>1, <1>3, <1>4, <1>5, <1>6, LeaveKeeps

LEMMA ThreadTerminateKeeps ==
  ASSUME KernelInv, NEW t \in Thread, ThreadTerminate(t)
  PROVE  KernelInv' /\ Shrinks
<1> DEFINE u == Unlist(k, t)
           d == Dispatch(u)
           r == [d EXCEPT !.state[t] = "Inactive"]
<1>1. Calls /\ Service(r, Leaving(t)) /\ t # k.curr
  BY DEF ThreadTerminate, Service
<1>2. Sorted(k, 1) /\ Runs(k, {}) /\ k.curr = k.next /\ "priority" \in DOMAIN k
  BY <1>1, CallsSorted, KernelNow
<1>3. Runs(r, {}) /\ Frame(k, r, {t}) /\ r.state[t] = "Inactive"
  BY <1>1, <1>2, TerminateRuns
<1>4. t \in ToSet(k.delay_list) => k.state[t] \in BlockedStates
  BY KernelNow
<1>5. Sorted(u, 1)
  BY <1>2, <1>4, UnlistSorted
<1>6. Prioritised(k, u) /\ "priority" \in DOMAIN u
  BY <1>2, BasicPriorities DEF Prioritised
<1> HIDE DEF u
<1>7. Sorted(d, 1) /\ Prioritised(u, d) /\ "priority" \in DOMAIN d
  BY <1>5, <1>6, DispatchSorted, DispatchPriorities DEF Prioritised
<1> HIDE DEF d
<1>8. "Inactive" \in ThreadState
  BY DEF ThreadState
<1>9. Sorted(r, 1) /\ Prioritised(d, r)
  BY <1>7, <1>8, RestateSorted, BasicPriorities
<1> HIDE DEF r
<1>10. Prioritised(k, r)
  BY <1>6, <1>7, <1>9, Chained
<1>11. r.state[t] \notin ObjectStates
  BY <1>3, ReadyNowhere
<1> QED
  BY <1>1, <1>3, <1>9, <1>10, <1>11, LeaveKeeps

LEMMA ThreadExitKeeps ==
  ASSUME KernelInv, ThreadExit
  PROVE  KernelInv' /\ Shrinks
<1> DEFINE c == k.curr
           d == SwitchToReady(k)
           r == [d EXCEPT !.state[c] = "Inactive"]
<1>1. Calls /\ Service(r, thread_list) /\ k.ready # <<>>
  BY DEF ThreadExit, Service, CanSwitch
<1>2. /\ Sorted(k, 1) /\ Runs(k, {}) /\ k.curr = k.next /\ "priority" \in DOMAIN k
      /\ c \in Thread /\ k.state[c] \notin ObjectStates
  BY <1>1, CallsSorted, KernelNow
<1>3. Runs(r, {}) /\ Frame(k, r, {c}) /\ r.state[c] = "Inactive"
  BY <1>1, <1>2, ExitRuns
<1>4. Sorted(d, 1) /\ Prioritised(k, d) /\ "priority" \in DOMAIN d
  BY <1>1, <1>2, SwitchToReadySorted, DispatchPriorities DEF Prioritised
<1> HIDE DEF c, d
<1>5. "Inactive" \in ThreadState
  BY DEF ThreadState
<1>6. Sorted(r, 1) /\ Prioritised(d, r)
  BY <1>2, <1>4, <1>5, RestateSorted, BasicPriorities
<1> HIDE DEF r
<1>7. r.priority = k.priority
  BY <1>4, <1>6 DEF Prioritised
<1>8. \A u \in Thread : u \in {c} => /\ k.state[u] \notin ObjectStates
                                     /\ r.state[u] \notin ObjectStates
  BY <1>2, <1>3, ReadyNowhere
<1> QED
  BY <1>1, <1>3, <1>6, <1>7, <1>8, StandKeeps

LEMMA DelayKeeps ==
  ASSUME KernelInv, NEW ticks \in Timeout, Delay(ticks)
  PROVE  KernelInv' /\ Shrinks
<1> DEFINE c == k.curr
           r == WaitEnter(k, "WaitingDelay", ticks)
<1>1. Calls /\ Service(r, thread_list) /\ k.ready # <<>>
  BY DEF Delay, Service, CanSwitch
<1>2. /\ Sorted(k, 1) /\ Runs(k, {}) /\ k.curr = k.next /\ "priority" \in DOMAIN k
      /\ c \in Thread /\ k.state[c] \notin ObjectStates /\ c \notin ToSet(k.delay_list)
  BY <1>1, CallsSorted, KernelNow
<1>3. /\ ticks \in Int \cup {Forever} /\ ticks \in Nat \cup {Forever}
      /\ (ticks = Forever \/ ticks >= 1) /\ 1 \in Nat
  BY ObjectAssumption
<1>4. "WaitingDelay" \in BlockedStates /\ "WaitingDelay" \in ThreadState
  BY DEF BlockedStates, WaitStates, ThreadState
<1>5. Runs(r, {}) /\ Frame(k, r, {c}) /\ r.state[c] = "WaitingDelay"
  BY <1>1, <1>2, <1>3, <1>4, WaitEnterRuns
<1>6. Sorted(r, 1)
  BY <1>1, <1>2, <1>3, <1>4, WaitEnterSorted
<1>7. r.priority = k.priority
  BY <1>2, WaitPriorities DEF Prioritised
<1> HIDE DEF r, c
<1>8. \A u \in Thread : u \in {c} => /\ k.state[u] \notin ObjectStates
                                     /\ r.state[u] \notin ObjectStates
  BY <1>2, <1>5, ReadyNowhere
<1> QED
  BY <1>1, <1>5, <1>6, <1>7, <1>8, StandKeeps

\* The lock changes nothing but itself.
LEMMA LockKeeps ==
  ASSUME KernelInv, KernelLock \/ KernelUnlock
  PROVE  KernelInv' /\ Shrinks
<1>1. PICK s \in {"Running", "Locked"} :
        Calls /\ Service([k EXCEPT !.kernel = s], thread_list)
  BY DEF KernelLock, KernelUnlock, Service
<1> DEFINE r == [k EXCEPT !.kernel = s]
<1>2. Sorted(k, 1) /\ Runs(k, {}) /\ Typed(k)
  BY <1>1, CallsSorted, KernelNow
<1>3. /\ Typed(r) /\ r.state = k.state /\ r.ready = k.ready /\ r.delay = k.delay
      /\ r.delay_list = k.delay_list /\ r.wait_list = k.wait_list /\ r.next = k.next
      /\ r.priority = k.priority
  BY <1>2 DEF Typed
<1>4. Service(r, thread_list)
  BY <1>1
<1> HIDE DEF r
<1>5. Runs(r, {}) /\ Frame(k, r, {})
  BY <1>2, <1>3 DEF Runs, Placed, Frame
<1>6. Sorted(r, 1)
  BY <1>2, <1>3 DEF Sorted, Urgency, Due
<1> QED
  BY <1>3, <1>4, <1>5, <1>6, StandKeeps

---------------------------------------------------------------------------
\* PendSV and the tick

\* A step of a handler that leaves the threads waiting as they were.
LEMMA HandlerKeeps ==
  ASSUME KernelInv, NEW after, NEW lists, k' = after, thread_list' = lists, id' = id,
         handler' \in {"thread", "svc", "tick", "pendsv"},
         Runs(after, {}), after.curr = after.next, Sorted(after, 0),
         handler' # "tick" => Sorted(after, 1),
         Waiting(Object, ObjectStates, after, lists, id)
  PROVE  KernelInv'
BY DEF KernelInv

LEMMA PendSVStartKeeps ==
  ASSUME KernelInv, PendSVStart
  PROVE  KernelInv' /\ Shrinks
<1>1. /\ k' = k /\ thread_list' = thread_list /\ id' = id /\ handler' = "pendsv"
      /\ handler # "tick"
  BY DEF PendSVStart
<1>2. KernelInv'
  BY <1>1, HandlerKeeps DEF KernelInv
<1>3. Shrinks
  BY <1>1, KernelNow DEF Shrinks
<1> QED
  BY <1>2, <1>3

\* Dispatching and returning from a handler.
LEMMA ReturnKeeps ==
  ASSUME KernelInv, NEW after, k' = Return(after), UNCHANGED <<id, thread_list>>,
         handler' \in {"thread", "pendsv"}, Runs(after, {}), Sorted(after, 1),
         Frame(k, after, {}), Prioritised(k, after)
  PROVE  KernelInv' /\ Shrinks
<1>1. /\ Runs(k', {}) /\ k'.curr = k'.next /\ k'.state = after.state
      /\ k'.priority = after.priority
  BY ReturnRuns
<1>2. Sorted(k', 1)
  BY ReturnSorted
<1>3. Sorted(k', 0)
  BY <1>2, Lower
<1>4. Waiting(Object, ObjectStates, after, thread_list, id)
  BY WaitsStand DEF KernelInv, Prioritised
<1>5. Waiting(Object, ObjectStates, k', thread_list, id)
  BY <1>1, <1>4, WaitsSame
<1>6. KernelInv'
  BY <1>1, <1>2, <1>3, <1>5 DEF KernelInv
<1>7. Shrinks
  BY KernelNow DEF Shrinks
<1> QED
  BY <1>6, <1>7

LEMMA PendSVEndKeeps ==
  ASSUME KernelInv, PendSVEnd
  PROVE  KernelInv' /\ Shrinks
<1> DEFINE r == Dispatch(k)
<1>1. /\ k' = Return(r) /\ UNCHANGED <<id, thread_list>> /\ handler' = "thread"
      /\ handler = "pendsv"
  BY DEF PendSVEnd
<1>2. Runs(k, {}) /\ k.curr = k.next /\ Sorted(k, 1)
  BY <1>1 DEF KernelInv
<1>3. Runs(r, {}) /\ Frame(k, r, {})
  BY <1>2, DispatchRuns
<1>4. Sorted(r, 1) /\ Prioritised(k, r)
  BY <1>2, DispatchSorted, DispatchPriorities, KernelNow
<1> HIDE DEF r
<1> QED
  BY <1>1, <1>3, <1>4, ReturnKeeps

LEMMA TickStartKeeps ==
  ASSUME KernelInv, TickStart
  PROVE  KernelInv' /\ Shrinks
<1> DEFINE r == CountDown(k)
<1>1. /\ k' = r /\ thread_list' = thread_list /\ id' = id /\ handler' = "tick"
      /\ handler = "thread"
  BY DEF TickStart
<1>2. /\ Runs(k, {}) /\ k.curr = k.next /\ Sorted(k, 1)
      /\ Waiting(Object, ObjectStates, k, thread_list, id)
  BY <1>1 DEF KernelInv
<1>3. Runs(r, {}) /\ SameRun(k, r) /\ r.state = k.state
  BY <1>2, CountDownRuns
<1>4. Sorted(r, 0) /\ r.priority = k.priority
  BY <1>2, CountDownSorted, BasicPriorities, KernelNow DEF Prioritised
<1> HIDE DEF r
<1>5. Waiting(Object, ObjectStates, r, thread_list, id) /\ r.curr = r.next
  BY <1>2, <1>3, <1>4, WaitsSame DEF SameRun
<1>6. KernelInv'
  BY <1>1, <1>3, <1>4, <1>5, HandlerKeeps
<1>7. Shrinks
  BY <1>1, KernelNow DEF Shrinks
<1> QED
  BY <1>6, <1>7

LEMMA TickReleaseKeeps ==
  ASSUME KernelInv, TickRelease
  PROVE  KernelInv' /\ Shrinks
<1> DEFINE h == Head(k.delay_list)
           r == ReleaseHead(k)
           x == [o \in Object |-> Without(thread_list[o], h)]
<1>1. /\ k' = r /\ thread_list' = x /\ id' = id /\ handler' = "tick"
      /\ k.delay_list # <<>>
  BY DEF TickRelease, Leaving, Expired
<1>2. /\ Runs(k, {}) /\ k.curr = k.next /\ Sorted(k, 0)
      /\ Waiting(Object, ObjectStates, k, thread_list, id)
      /\ Typed(k) /\ k.state \in [Thread -> ThreadState]
  BY KernelNow, RankTypes DEF KernelInv
<1>3. /\ Runs(r, {}) /\ SameRun(k, r) /\ h \in Thread
      /\ r.state = [k.state EXCEPT ![h] = "Ready"]
  BY <1>1, <1>2, ReleaseHeadRuns
<1>4. Sorted(r, 0) /\ r.priority = k.priority
  BY <1>1, <1>2, ReleaseHeadSorted, WaitPriorities, KernelNow DEF Prioritised
<1> HIDE DEF h, r
<1>5. Frame(k, r, {h}) /\ r.state[h] \notin ObjectStates /\ r.curr = r.next
  BY <1>2, <1>3, ReadyNowhere DEF Frame, SameRun
<1>6. Waiting(Object, ObjectStates, r, x, id) /\ Fewer(Object, x, thread_list)
  BY <1>2, <1>3, <1>4, <1>5, WaitsLeave
<1> HIDE DEF x
<1>7. KernelInv'
  BY <1>1, <1>3, <1>4, <1>5, <1>6, HandlerKeeps
<1>8. Shrinks
  BY <1>1, <1>6 DEF Shrinks
<1> QED
  BY <1>7, <1>8

LEMMA TickEndKeeps ==
  ASSUME KernelInv, TickEnd
  PROVE  KernelInv' /\ Shrinks
<1> DEFINE d == Dispatch(k)
           r == RoundRobin(d)
<1>1. /\ k' = Return(r) /\ UNCHANGED <<id, thread_list>> /\ handler' \in {"thread", "pendsv"}
      /\ ~Expired(k)
  BY DEF TickEnd
<1>2. Runs(k, {}) /\ k.curr = k.next /\ Sorted(k, 0)
  BY DEF KernelInv
<1>3. Sorted(k, 1)
  BY <1>1, <1>2, NoneExpired
<1>4. /\ Runs(d, {}) /\ Frame(k, d, {}) /\ Sorted(d, 1) /\ Prioritised(k, d)
      /\ "priority" \in DOMAIN d
  BY <1>2, <1>3, DispatchRuns, DispatchSorted, DispatchPriorities, KernelNow DEF Prioritised
<1> HIDE DEF d
<1>5. Runs(r, {}) /\ Frame(d, r, {})
  BY <1>4, RoundRobinRuns
<1>6. Sorted(r, 1) /\ Prioritised(d, r)
  BY <1>4, RoundRobinSorted, RoundRobinPriorities
<1> HIDE DEF r
<1>7. Frame(k, r, {}) /\ Prioritised(k, r)
  BY <1>4, <1>5, <1>6, Chained DEF Frame
<1> QED
  BY <1>1, <1>5, <1>6, <1>7, ReturnKeeps

\* Each step in which no object takes part.
LEMMA KernelStepKeeps ==
  ASSUME KernelInv, KernelStep
  PROVE  KernelInv' /\ Shrinks
<1>1. \A t \in Application : t \in Thread
  BY DEF Application
<1>2. CASE \E t \in Application : \E p \in Priority : ThreadNew(t, p)
  BY <1>1, <1>2, ThreadNewKeeps
<1>3. CASE \E t \in Application : \E p \in Priority : ThreadSetPriority(t, p)
  BY <1>1, <1>3, ThreadSetPriorityKeeps
<1>4. CASE \E t \in Application : ThreadSuspend(t)
  BY <1>1, <1>4, ThreadSuspendKeeps
<1>5. CASE \E t \in Application : ThreadResume(t)
  BY <1>1, <1>5, ThreadResumeKeeps
<1>6. CASE \E t \in Application : ThreadTerminate(t)
  BY <1>1, <1>6, ThreadTerminateKeeps
<1>7. CASE ThreadExit
  BY <1>7, ThreadExitKeeps
<1>8. CASE \E ticks \in Timeout : Delay(ticks)
  BY <1>8, DelayKeeps
<1>9. CASE KernelLock \/ KernelUnlock
  BY <1>9, LockKeeps
<1>10. CASE PendSVStart
  BY <1>10, PendSVStartKeeps
<1>11. CASE PendSVEnd
  BY <1>11, PendSVEndKeeps
<1>12. CASE TickStart
  BY <1>12, TickStartKeeps
<1>13. CASE TickRelease
  BY <1>13, TickReleaseKeeps
<1>14. CASE TickEnd
  BY <1>14, TickEndKeeps
<1> QED
  BY <1>2, <1>3, <1>4, <1>5, <1>6, <1>7, <1>8, <1>9, <1>10, <1>11, <1>12, <1>13, <1>14
  DEF KernelStep

\* None of them touches the queue or an object, or begins what an object finishes.
LEMMA ServiceQueue ==
  ASSUME NEW after, NEW lists, Service(after, lists)
  PROVE  isr_queue' = isr_queue /\ id' = id /\ handler' # "svc"
BY DEF Service, Finish

LEMMA KernelStepQueue ==
  ASSUME KernelStep
  PROVE  isr_queue' = isr_queue /\ id' = id /\ handler' # "svc"
<1>1. ASSUME NEW t \in Application, NEW p \in Priority,
             ThreadNew(t, p) \/ ThreadSetPriority(t, p)
      PROVE  isr_queue' = isr_queue /\ id' = id /\ handler' # "svc"
  BY <1>1, ServiceQueue DEF ThreadNew, ThreadSetPriority
<1>2. ASSUME NEW t \in Application, ThreadSuspend(t) \/ ThreadResume(t) \/ ThreadTerminate(t)
      PROVE  isr_queue' = isr_queue /\ id' = id /\ handler' # "svc"
  BY <1>2, ServiceQueue DEF ThreadSuspend, ThreadResume, ThreadTerminate
<1>3. ASSUME NEW ticks \in Timeout, Delay(ticks)
      PROVE  isr_queue' = isr_queue /\ id' = id /\ handler' # "svc"
  BY <1>3, ServiceQueue DEF Delay
<1>4. CASE ThreadExit \/ KernelLock \/ KernelUnlock
  BY <1>4, ServiceQueue DEF ThreadExit, KernelLock, KernelUnlock
<1>5. CASE PendSVStart \/ PendSVEnd
  BY <1>5 DEF PendSVStart, PendSVEnd
<1>6. CASE TickStart \/ TickRelease \/ TickEnd
  BY <1>6 DEF TickStart, TickRelease, TickEnd
<1> QED
  BY <1>1, <1>2, <1>3, <1>4, <1>5, <1>6 DEF KernelStep

---------------------------------------------------------------------------
\* The services of an object

\* A service that fails or needs nobody to wait or to wake.
LEMMA NothingKeeps ==
  ASSUME KernelInv, handler # "tick", Finish(k, thread_list), UNCHANGED id
  PROVE  KernelInv' /\ Shrinks
<1>1. /\ Runs(k, {}) /\ Sorted(k, 1) /\ Waiting(Object, ObjectStates, k, thread_list, id')
      /\ id' \in [Object -> BOOLEAN] /\ thread_list' = thread_list
  BY DEF KernelInv, Finish
<1>2. KernelInv'
  BY <1>1, FinishKeeps
<1> QED
  BY <1>1, <1>2, KernelNow DEF Shrinks

LEMMA ObjectNewKeeps ==
  ASSUME KernelInv, NEW o \in Object, ObjectNew(o)
  PROVE  KernelInv' /\ thread_list' = thread_list
<1> DEFINE x == [thread_list EXCEPT ![o] = <<>>]
           v == [id EXCEPT ![o] = TRUE]
<1>1. ~id[o] /\ Calls /\ Finish(k, x) /\ id' = v /\ thread_list' = x
  BY DEF ObjectNew, Finish
<1>2. /\ Runs(k, {}) /\ Sorted(k, 1)
      /\ Waiting(Object, ObjectStates, k, thread_list, id) /\ id \in [Object -> BOOLEAN]
  BY <1>1, CallsSorted DEF KernelInv
<1>3. x = thread_list /\ Waiting(Object, ObjectStates, k, x, v)
  BY <1>1, <1>2, WaitsNew
<1>4. v \in [Object -> BOOLEAN]
  BY <1>2
<1> HIDE DEF x, v
<1>5. KernelInv'
  BY <1>1, <1>2, <1>3, <1>4, FinishKeeps
<1> QED
  BY <1>1, <1>3, <1>5

LEMMA ObjectDeleteKeeps ==
  ASSUME KernelInv, NEW o \in Object, ObjectDelete(o)
  PROVE  KernelInv' /\ thread_list' = [thread_list EXCEPT ![o] = <<>>] /\ Shrinks
<1> DEFINE list == thread_list[o]
           woken == Woken(k, list)
           d == Dispatch(woken)
           after == IF Waited(o) THEN d ELSE k
           x == [thread_list EXCEPT ![o] = <<>>]
           v == [id EXCEPT ![o] = FALSE]
           S == ToSet(list)
<1>1. Calls /\ Finish(after, x) /\ id' = v /\ thread_list' = x
  BY DEF ObjectDelete, Finish
<1>2. /\ Runs(k, {}) /\ k.curr = k.next /\ Sorted(k, 1)
      /\ Waiting(Object, ObjectStates, k, thread_list, id) /\ id \in [Object -> BOOLEAN]
  BY <1>1, CallsSorted DEF KernelInv
<1>3. list \in Seq(Thread) /\ Distinct(list) /\ thread_list \in [Object -> Seq(Thread)]
  BY <1>2 DEF Waiting
<1>4. \A t \in S : k.state[t] \in BlockedStates /\ t \in Thread
  BY <1>2, Waiter
<1>5. Wakes(k, list, Len(list), woken)
  <2> HIDE DEF list
  <2> QED
    BY <1>2, <1>3, <1>4, WokenWakes
<1>6. S = {list[i] : i \in 1 .. Len(list)}
  BY <1>3 DEF ToSet
<1> HIDE DEF list, woken, S
<1>7. /\ Runs(woken, {}) /\ Sorted(woken, 1) /\ woken.curr = woken.next
      /\ woken.priority = k.priority /\ Frame(k, woken, S)
      /\ \A t \in S : woken.state[t] = "Ready"
  BY <1>2, <1>5, <1>6 DEF Wakes, SameRun
<1>8. Runs(d, {}) /\ Frame(woken, d, {}) /\ Sorted(d, 1)
  BY <1>7, DispatchRuns, DispatchSorted
<1>9. d.priority = k.priority
  <2>1. "priority" \in DOMAIN woken
    BY <1>7 DEF Runs, Typed
  <2> QED
    BY <1>7, <2>1, DispatchPriorities DEF Prioritised
<1> HIDE DEF d
<1>10. Frame(k, d, S)
  BY <1>7, <1>8 DEF Frame
<1>11. \A t \in S : d.state[t] \in {"Ready", "Running"}
  BY <1>4, <1>7, <1>8 DEF Frame
<1>12. Runs(after, {}) /\ Sorted(after, 1) /\ Frame(k, after, S) /\ after.priority = k.priority
  BY <1>2, <1>8, <1>9, <1>10 DEF Frame
<1>13. \A t \in S : after.state[t] \notin ObjectStates
  <2>1. CASE Waited(o)
    BY <1>11, <2>1, ReadyNowhere
  <2>2. CASE ~Waited(o)
    BY <2>2, EmptyWaits DEF Waited, S, list
  <2> QED
    BY <2>1, <2>2
<1> HIDE DEF after
<1>14. Waiting(Object, ObjectStates, after, x, v)
  BY <1>2, <1>12, <1>13, WaitsEmpty DEF S, list
<1>15. v \in [Object -> BOOLEAN]
  BY <1>2
<1>16. Fewer(Object, x, thread_list)
  <2>1. \A p \in Object : Len(thread_list[p]) \in Nat /\ Len(<<>>) = 0 /\ ToSet(<<>>) = {}
    BY <1>3, EmptyWaits
  <2> QED
    BY <1>3, <2>1 DEF Fewer
<1>17. x = [thread_list EXCEPT ![o] = <<>>]
  OBVIOUS
<1> HIDE DEF x, v
<1>18. KernelInv'
  BY <1>1, <1>12, <1>14, <1>15, FinishKeeps
<1> QED
  BY <1>1, <1>16, <1>17, <1>18 DEF Shrinks

\* The list without its first thread.
LEMMA PoppedShrinks ==
  ASSUME KernelInv, NEW o \in Object, Waited(o)
  PROVE  /\ First(o) \in Thread /\ k.state[First(o)] \in BlockedStates
         /\ Fewer(Object, Popped(o), thread_list)
<1>1. /\ Waiting(Object, ObjectStates, k, thread_list, id)
      /\ thread_list[o] \in Seq(Thread) /\ thread_list[o] # <<>>
  BY DEF KernelInv, Waiting, Waited
<1>2. First(o) \in ToSet(thread_list[o])
  BY <1>1 DEF First, ToSet
<1>3. First(o) \in Thread /\ k.state[First(o)] \in BlockedStates
  BY <1>1, <1>2, Waiter
<1>4. ASSUME NEW p \in Object
      PROVE  /\ Len(Popped(o)[p]) <= Len(thread_list[p])
             /\ ToSet(Popped(o)[p]) \subseteq ToSet(thread_list[p])
  <2>1. thread_list \in [Object -> Seq(Thread)] /\ Len(thread_list[p]) \in Nat
    BY <1>1 DEF Waiting
  <2>2. Len(Tail(thread_list[o])) <= Len(thread_list[o])
    BY <1>1
  <2>3. ToSet(Tail(thread_list[o])) \subseteq ToSet(thread_list[o])
    BY <1>1, TailSet DEF Waiting
  <2> QED
    BY <2>1, <2>2, <2>3 DEF Popped
<1> QED
  BY <1>3, <1>4 DEF Fewer

\* A service wakes the first thread of the list.
LEMMA WakesFirstKeeps ==
  ASSUME KernelInv, NEW o \in Object, Waited(o),
         Calls, Finish(WaitExitDispatch(k, First(o)), Popped(o)), UNCHANGED id
  PROVE  KernelInv' /\ Shrinks
<1> DEFINE h == First(o)
           r == WaitExitDispatch(k, h)
           x == Popped(o)
<1>1. /\ Runs(k, {}) /\ k.curr = k.next /\ Sorted(k, 1) /\ Typed(k)
      /\ Waiting(Object, ObjectStates, k, thread_list, id) /\ id' \in [Object -> BOOLEAN]
  BY CallsSorted, KernelNow DEF KernelInv
<1>2. h \in Thread /\ k.state[h] \in BlockedStates
  BY PoppedShrinks
<1>3. Runs(r, {}) /\ Frame(k, r, {h}) /\ r.state[h] \in {"Ready", "Running"}
  <2> HIDE DEF h
  <2> QED
    BY <1>1, <1>2, ResumeRuns
<1>4. Sorted(r, 1) /\ r.priority = k.priority
  <2> HIDE DEF h
  <2>1. Sorted(r, 1)
    BY <1>1, <1>2, ResumeSorted
  <2>2. r.priority = k.priority
    BY WaitPriorities, KernelNow DEF Prioritised
  <2> QED
    BY <2>1, <2>2
<1>5. Finish(r, x) /\ thread_list' = x
  BY DEF Finish
<1> HIDE DEF r
<1>6. r.state[h] \notin ObjectStates
  BY <1>3, ReadyNowhere
<1>7. Waiting(Object, ObjectStates, r, x, id)
  BY <1>1, <1>3, <1>4, <1>6, WaitsPop DEF First, Popped, Waited
<1>8. Fewer(Object, x, thread_list)
  BY PoppedShrinks
<1> HIDE DEF x
<1>9. KernelInv'
  BY <1>1, <1>3, <1>4, <1>5, <1>7, FinishKeeps
<1> QED
  BY <1>5, <1>8, <1>9 DEF Shrinks

\* The running thread waits for the object.
LEMMA EntersKeeps ==
  ASSUME KernelInv, NEW o \in Object, id[o], handler # "tick", CanSwitch(k),
         NEW s \in ObjectStates, NEW timeout \in Timeout,
         Finish(WaitEnter(k, s, timeout), Joining(o)), UNCHANGED id
  PROVE  KernelInv'
<1> DEFINE c == k.curr
           r == WaitEnter(k, s, timeout)
           x == Joining(o)
<1>1. /\ Runs(k, {}) /\ k.curr = k.next /\ Sorted(k, 1) /\ Typed(k) /\ k.ready # <<>>
      /\ Waiting(Object, ObjectStates, k, thread_list, id) /\ id' \in [Object -> BOOLEAN]
      /\ c \in Thread /\ k.state[c] \notin ObjectStates /\ c \notin ToSet(k.delay_list)
  BY KernelNow DEF KernelInv, CanSwitch
<1>2. /\ timeout \in Int \cup {Forever} /\ timeout \in Nat \cup {Forever}
      /\ (timeout = Forever \/ timeout >= 1) /\ 1 \in Nat
  BY ObjectAssumption
<1>3. s \in BlockedStates /\ s \in ThreadState /\ s # "WaitingJoin"
  BY DEF BlockedStates, WaitStates, ThreadState, ObjectStates
<1>4. Runs(r, {}) /\ Frame(k, r, {c}) /\ r.state[c] = s
  BY <1>1, <1>2, <1>3, WaitEnterRuns
<1>5. Sorted(r, 1)
  BY <1>1, <1>2, <1>3, WaitEnterSorted
<1>6. r.priority = k.priority
  BY KernelNow, WaitPriorities DEF Prioritised
<1>7. Finish(r, x)
  OBVIOUS
<1> HIDE DEF r
<1>8. Waiting(Object, ObjectStates, r, x, id)
  BY <1>1, <1>4, <1>6, WaitsJoin DEF Joining
<1> HIDE DEF x
<1> QED
  BY <1>1, <1>4, <1>5, <1>7, <1>8, FinishKeeps

\* PendSV takes an entry that wakes nobody.
LEMMA PassesKeeps ==
  ASSUME KernelInv, PendSVTakes(k, thread_list)
  PROVE  KernelInv' /\ Shrinks
<1>1. k' = k /\ thread_list' = thread_list /\ id' = id /\ handler' = handler
  BY DEF PendSVTakes
<1>2. KernelInv'
  BY <1>1, HandlerKeeps DEF KernelInv
<1> QED
  BY <1>1, <1>2, KernelNow DEF Shrinks

\* PendSV takes an entry and wakes the first thread of the list.
LEMMA ServesKeeps ==
  ASSUME KernelInv, NEW o \in Object, Waited(o), Pending,
         PendSVTakes(WaitExit(k, First(o)), Popped(o))
  PROVE  KernelInv' /\ Shrinks
<1> DEFINE h == First(o)
           r == WaitExit(k, h)
           x == Popped(o)
<1>1. /\ Runs(k, {}) /\ k.curr = k.next /\ Sorted(k, 1) /\ Typed(k)
      /\ Waiting(Object, ObjectStates, k, thread_list, id) /\ handler = "pendsv" /\ Placed(k, {})
      /\ k.state \in [Thread -> ThreadState] /\ k.state[k.next] = "Running"
  BY KernelNow, RankTypes DEF KernelInv, Pending, Runs
<1>2. h \in Thread /\ k.state[h] \in BlockedStates
  BY PoppedShrinks
<1>3. /\ Typed(r) /\ Placed(r, {}) /\ SameRun(k, r)
      /\ r.state = [k.state EXCEPT ![h] = "Ready"]
  <2> HIDE DEF h
  <2> QED
    BY <1>1, <1>2, WaitExitPlaced
<1>4. Sorted(r, 1) /\ r.priority = k.priority
  BY <1>1, <1>2, WaitExitSorted, WaitPriorities, KernelNow DEF Prioritised
<1>5. k' = r /\ thread_list' = x /\ id' = id /\ handler' = "pendsv"
  BY <1>1 DEF PendSVTakes
<1> HIDE DEF r
<1>6. Runs(r, {}) /\ r.curr = r.next /\ Sorted(r, 0)
  <2>1. k.next # h /\ k.next \in Thread
    BY <1>1, <1>2, RankTypes DEF BlockedStates, WaitStates
  <2> QED
    BY <1>1, <1>2, <1>3, <1>4, <2>1, Lower DEF Runs, SameRun
<1>7. Frame(k, r, {h}) /\ r.state[h] \notin ObjectStates
  BY <1>1, <1>2, <1>3, ReadyNowhere DEF Frame
<1>8. Waiting(Object, ObjectStates, r, x, id)
  BY <1>1, <1>4, <1>7, WaitsPop DEF First, Popped, Waited
<1>9. Fewer(Object, x, thread_list)
  BY PoppedShrinks
<1> HIDE DEF x
<1>10. KernelInv'
  BY <1>4, <1>5, <1>6, <1>8, HandlerKeeps
<1> QED
  BY <1>5, <1>9, <1>10 DEF Shrinks

\* A walk over a list wakes a thread of it.
LEMMA LeavesKeeps ==
  ASSUME KernelInv, NEW o \in Object, NEW t \in ToSet(thread_list[o]), handler # "tick",
         k' = WaitExit(k, t), thread_list' = Leaving(t), id' = id, handler' = handler
  PROVE  KernelInv' /\ Shrinks
<1> DEFINE r == WaitExit(k, t)
           x == [p \in Object |-> Without(thread_list[p], t)]
<1>1. /\ Runs(k, {}) /\ k.curr = k.next /\ Sorted(k, 1) /\ Typed(k)
      /\ Waiting(Object, ObjectStates, k, thread_list, id) /\ Placed(k, {})
      /\ k.state \in [Thread -> ThreadState] /\ k.state[k.next] = "Running"
  BY KernelNow, RankTypes DEF KernelInv, Runs
<1>2. t \in Thread /\ k.state[t] \in BlockedStates
  BY <1>1, Waiter
<1>3. /\ Typed(r) /\ Placed(r, {}) /\ SameRun(k, r)
      /\ r.state = [k.state EXCEPT ![t] = "Ready"]
  BY <1>1, <1>2, WaitExitPlaced
<1>4. Sorted(r, 1) /\ r.priority = k.priority
  BY <1>1, <1>2, WaitExitSorted, WaitPriorities, KernelNow DEF Prioritised
<1>5. k' = r /\ thread_list' = x /\ id' = id /\ handler' \in {"thread", "svc", "tick", "pendsv"}
  BY DEF KernelInv, Leaving
<1> HIDE DEF r
<1>6. Runs(r, {}) /\ r.curr = r.next /\ Sorted(r, 0)
  <2>1. k.next # t /\ k.next \in Thread
    BY <1>1, <1>2, RankTypes DEF BlockedStates, WaitStates
  <2> QED
    BY <1>1, <1>2, <1>3, <1>4, <2>1, Lower DEF Runs, SameRun
<1>7. Frame(k, r, {t}) /\ r.state[t] \notin ObjectStates
  BY <1>1, <1>2, <1>3, ReadyNowhere DEF Frame
<1>8. Waiting(Object, ObjectStates, r, x, id) /\ Fewer(Object, x, thread_list)
  BY <1>1, <1>2, <1>4, <1>7, WaitsLeave
<1> HIDE DEF x
<1>9. KernelInv'
  BY <1>4, <1>5, <1>6, <1>8, HandlerKeeps
<1> QED
  BY <1>5, <1>8, <1>9 DEF Shrinks

\* A service that has woken threads dispatches at its end.
LEMMA DispatchKeeps ==
  ASSUME KernelInv, handler # "tick", Finish(Dispatch(k), thread_list), UNCHANGED id
  PROVE  KernelInv' /\ Shrinks
<1> DEFINE r == Dispatch(k)
<1>1. /\ k' = Return(r) /\ UNCHANGED <<id, thread_list>> /\ handler' \in {"thread", "pendsv"}
  BY DEF Finish
<1>2. Runs(k, {}) /\ k.curr = k.next /\ Sorted(k, 1)
  BY DEF KernelInv
<1>3. Runs(r, {}) /\ Frame(k, r, {})
  BY <1>2, DispatchRuns
<1>4. Sorted(r, 1) /\ Prioritised(k, r)
  BY <1>2, DispatchSorted, DispatchPriorities, KernelNow
<1> HIDE DEF r
<1> QED
  BY <1>1, <1>3, <1>4, ReturnKeeps

---------------------------------------------------------------------------
\* The beginning, and what the invariant says

LEMMA KernelInvInit ==
  ASSUME KernelInit
  PROVE  KernelInv
<1>1. /\ Idle \in Thread /\ Main \in Thread /\ Idle # Main
      /\ NoThread \notin Thread /\ 0 # Forever
  BY ObjectAssumption, SchedulerAssumption
<1>2. /\ k.ready = <<Idle>> /\ k.delay_list = <<>> /\ k.wait_list = <<>>
      /\ k.curr = Main /\ k.next = Main
      /\ k.delay = [t \in Thread |-> 0]
      /\ k.state = [t \in Thread |-> CASE t = Main -> "Running"
                                       [] t = Idle -> "Ready"
                                       [] OTHER    -> "Inactive"]
  BY DEF KernelInit
<1>3. /\ k.state[Main] = "Running" /\ k.state[Idle] = "Ready"
      /\ \A t \in Thread \ {Main, Idle} : k.state[t] = "Inactive"
  BY <1>1, <1>2
<1>4. Typed(k)
  <2> DEFINE st == [t \in Thread |-> CASE t = Main -> "Running"
                                       [] t = Idle -> "Ready"
                                       [] OTHER    -> "Inactive"]
             pr == [t \in Thread |->
                      IF t = Main THEN CHOOSE p \in Priority : TRUE ELSE IdlePriority]
             de == [t \in Thread |-> 0]
  <2>1. st \in [Thread -> ThreadState]
    BY <1>1 DEF ThreadState
  <2>2. pr \in [Thread -> Nat]
    <3>1. (CHOOSE p \in Priority : TRUE) \in Priority
      BY ObjectAssumption
    <3> QED
      BY <3>1, ObjectAssumption
  <2>3. de \in [Thread -> Int \cup {Forever}]
    OBVIOUS
  <2>4. k = [state |-> st, priority |-> pr, delay |-> de,
             ready |-> <<Idle>>, delay_list |-> <<>>, wait_list |-> <<>>,
             curr |-> Main, next |-> Main, robin |-> NoThread, kernel |-> "Running"]
    BY DEF KernelInit
  <2>5. <<Idle>> \in Seq(Thread) /\ <<>> \in Seq(Thread)
    BY <1>1
  <2> HIDE DEF st, pr, de
  <2> QED
    BY <1>1, <2>1, <2>2, <2>3, <2>4, <2>5 DEF Typed
<1>5. Runs(k, {})
  <2>1. ToSet(<<>>) = {} /\ ToSet(<<Idle>>) = {Idle}
    BY DEF ToSet
  <2>2. Distinct(<<>>) /\ Distinct(<<Idle>>)
    BY DEF Distinct
  <2>3. Placed(k, {})
    BY <1>1, <1>2, <1>3, <2>1, <2>2 DEF Placed, BlockedStates, WaitStates
  <2> QED
    BY <1>2, <1>3, <1>4, <2>3 DEF Runs
<1>6. Sorted(k, 1)
  <2>1. Ascends(k.ready, Urgency(k)) /\ Ascends(k.delay_list, Due(k))
    <3>1. Urgency(k)[Idle] \in Int
      BY <1>1, <1>4, RankTypes
    <3> QED
      BY <1>2, <3>1 DEF Ascends
  <2>2. ToSet(k.delay_list) = {} /\ Distinct(k.delay_list)
    BY <1>2, EmptyWaits
  <2> QED
    BY <1>2, <1>4, <2>1, <2>2 DEF Sorted
<1>7. thread_list = [o \in Object |-> <<>>] /\ id = [o \in Object |-> FALSE] /\ handler = "thread"
  BY DEF KernelInit
<1>8. Waiting(Object, ObjectStates, k, thread_list, id)
  <2>1. thread_list \in [Object -> Seq(Thread)]
    BY <1>7
  <2>2. \A o \in Object : thread_list[o] = <<>> /\ ToSet(thread_list[o]) = {}
    BY <1>7, EmptyWaits
  <2>3. \A o \in Object : Distinct(thread_list[o]) /\ Ascends(thread_list[o], Urgency(k))
    BY <2>2, EmptyWaits
  <2>4. \A t \in Thread : k.state[t] \notin ObjectStates
    BY <1>1, <1>3, ReadyNowhere
  <2> QED
    BY <2>1, <2>2, <2>3, <2>4 DEF Waiting, ObjectStates, WaitStates
<1>9. id \in [Object -> BOOLEAN]
  BY <1>7
<1> QED
  BY <1>2, <1>5, <1>6, <1>7, <1>8, <1>9, Lower DEF KernelInv

\* The properties of the lists, and the types but for the length of the queue.
LEMMA KernelInvSays ==
  ASSUME KernelInv
  PROVE  /\ k \in Scheduler /\ id \in [Object -> BOOLEAN]
         /\ thread_list \in [Object -> Seq(Thread)]
         /\ handler \in {"thread", "svc", "tick", "pendsv"}
         /\ WaitersListed /\ WaitersSorted
<1>1. /\ Typed(k) /\ k.delay \in [Thread -> Int \cup {Forever}]
      /\ \A t \in Thread : k.delay[t] \in Nat \cup {Forever}
      /\ k.priority \in [Thread -> Nat]
  BY RankTypes DEF KernelInv, Sorted
<1>2. k \in Scheduler
  <2>1. k.delay \in [Thread -> Nat \cup {Forever}]
    BY <1>1
  <2> QED
    BY <1>1, <2>1 DEF Typed, Scheduler
<1>3. /\ id \in [Object -> BOOLEAN] /\ thread_list \in [Object -> Seq(Thread)]
      /\ handler \in {"thread", "svc", "tick", "pendsv"}
  BY DEF KernelInv, Waiting
<1>4. WaitersListed
  BY DEF KernelInv, Waiting, WaitersListed, Waited
<1>5. WaitersSorted
  <2> SUFFICES ASSUME NEW o \in Object, NEW i \in DOMAIN thread_list[o],
                      NEW j \in DOMAIN thread_list[o], i < j
               PROVE  k.priority[thread_list[o][i]] >= k.priority[thread_list[o][j]]
    BY DEF WaitersSorted
  <2>1. thread_list[o][i] \in Thread /\ thread_list[o][j] \in Thread
    BY <1>3
  <2>2. Urgency(k)[thread_list[o][i]] <= Urgency(k)[thread_list[o][j]]
    BY DEF KernelInv, Waiting, Ascends
  <2> QED
    BY <1>1, <2>1, <2>2 DEF Urgency
<1> QED
  BY <1>2, <1>3, <1>4, <1>5

===========================================================================
