-------------------------- MODULE RtxMutexProofs ---------------------------
(***************************************************************************)
(* For any number of threads and mutexes with any attributes, and whatever *)
(* the application allows itself: the threads waiting for a mutex are in   *)
(* its list, in the order of their priorities, and in no other, and a      *)
(* mutex somebody waits for is locked and has an owner.  Where the kernel  *)
(* is not locked the highest priority runs, and where nobody ends with a   *)
(* mutex that is not robust the links of each owner lead through exactly   *)
(* the mutexes it has locked, and the mutexes keep what MutexService       *)
(* promises.  Where, besides, nobody waits while it owns a mutex and       *)
(* waiting threads and owners are left alone, inheritance is exact.        *)
(***************************************************************************)
EXTENDS RtxMutex, RtxSchedulerProofs

---------------------------------------------------------------------------
\* The kernel in the middle of a handler

MutexStates == {"WaitingMutex"}

\* While a handler works a mutex without an owner may still have waiting threads.
AnyMutex == [m \in Mutex |-> TRUE]

\* q once the threads of T have ended.
Gone(q, T) ==
  [q EXCEPT !.state = [t \in Thread |-> IF t \in T THEN "Inactive" ELSE q.state[t]]]

\* The threads of T are on their way out, all the others in their places, in the
\* lists of the scheduler q and in those of the mutexes x.
Queues(q, x, T, low) ==
  /\ Runs(q, T) /\ Sorted(q, low) /\ q.curr = q.next
  /\ Waiting(Mutex, MutexStates, Gone(q, T), x.thread_list, AnyMutex)

\* A locked mutex has an owner, and only locked ones have waiting threads.
Held(x, m) ==
  /\ x.lock[m] # 0 => x.owner_thread[m] \in Thread
  /\ x.thread_list[m] # <<>> => x.id[m] /\ x.lock[m] # 0

\* A thread that may run: the idle thread runs or is ready, the kernel is not locked
\* where the application does not lock it ...
Able(q) ==
  /\ q.state[Idle] \in {"Ready", "Running"}
  /\ "Lock" \notin Habits => q.kernel = "Running"

\* ... and then the thread that does is one that no ready thread outranks.
Top(q) == Able(q) /\ ("Lock" \notin Habits => Tops(q))

\* The inductive invariant: what holds between two steps.
QueuesInv ==
  /\ handler \in {"thread", "tick"}
  /\ priority_base \in [Thread -> Nat]
  /\ mx \in Mutexes
  /\ Queues(k, mx, {}, 0)
  /\ Able(k)
  /\ handler = "thread" => Sorted(k, 1) /\ Top(k)
  /\ \A m \in Mutex : Held(mx, m)

LEMMA GoneType ==
  ASSUME NEW q, Typed(q), NEW T
  PROVE  /\ Typed(Gone(q, T)) /\ Gone(q, T).priority = q.priority
         /\ Gone(q, T).state \in [Thread -> ThreadState]
         /\ \A t \in Thread : Gone(q, T).state[t] = IF t \in T THEN "Inactive" ELSE q.state[t]
<1> DEFINE s == [t \in Thread |-> IF t \in T THEN "Inactive" ELSE q.state[t]]
<1>1. q.state \in [Thread -> ThreadState] /\ "Inactive" \in ThreadState
  BY DEF Typed, ThreadState
<1>2. s \in [Thread -> ThreadState]
  BY <1>1
<1>3. \A t \in Thread : s[t] = IF t \in T THEN "Inactive" ELSE q.state[t]
  OBVIOUS
<1>4. Gone(q, T) = [q EXCEPT !.state = s]
  BY DEF Gone
<1> HIDE DEF s
<1>5. Typed(Gone(q, T)) /\ Gone(q, T).priority = q.priority /\ Gone(q, T).state = s
  BY <1>2, <1>4 DEF Typed
<1> QED
  BY <1>2, <1>3, <1>5

LEMMA GoneNobody ==
  ASSUME NEW q, Typed(q), NEW w
  PROVE  /\ Waiting(Mutex, MutexStates, q, w, AnyMutex)
              <=> Waiting(Mutex, MutexStates, Gone(q, {}), w, AnyMutex)
         /\ Gone(q, {}).state = q.state
<1>1. /\ Gone(q, {}).priority = q.priority /\ Gone(q, {}).state \in [Thread -> ThreadState]
      /\ q.state \in [Thread -> ThreadState]
      /\ \A t \in Thread : Gone(q, {}).state[t] = q.state[t]
  BY GoneType, RankTypes
<1>2. Gone(q, {}).state = q.state
  BY <1>1
<1> QED
  BY <1>1, <1>2, WaitsSame

\* The thread that runs waits for nothing and is in no list.
LEMMA RunningWaitsNot ==
  ASSUME NEW q, NEW x, NEW low, Queues(q, x, {}, low)
  PROVE  /\ Typed(q) /\ "priority" \in DOMAIN q /\ Placed(q, {})
         /\ q.state \in [Thread -> ThreadState] /\ q.priority \in [Thread -> Nat]
         /\ q.curr \in Thread /\ q.state[q.curr] = "Running"
         /\ q.curr \notin ToSet(q.delay_list) /\ Distinct(q.ready)
         /\ Waiting(Mutex, MutexStates, q, x.thread_list, AnyMutex)
         /\ \A t \in ToSet(q.delay_list) : t \in Thread /\ q.state[t] \in BlockedStates
<1>1. Typed(q) /\ Placed(q, {}) /\ q.state[q.curr] = "Running" /\ Distinct(q.ready)
  BY DEF Queues, Runs, Placed
<1>2. /\ q.curr \in Thread /\ q.state \in [Thread -> ThreadState]
      /\ q.priority \in [Thread -> Nat] /\ "priority" \in DOMAIN q
      /\ \A t \in ToSet(q.delay_list) : t \in Thread
  BY <1>1 DEF Typed, ToSet
<1>3. \A t \in ToSet(q.delay_list) : q.state[t] \in BlockedStates
  BY <1>1, <1>2 DEF Placed
<1>4. "Running" \notin BlockedStates
  BY DEF BlockedStates, WaitStates
<1>5. Waiting(Mutex, MutexStates, q, x.thread_list, AnyMutex)
  BY <1>1, GoneNobody DEF Queues
<1> QED
  BY <1>1, <1>2, <1>3, <1>4, <1>5

LEMMA WaitsNowhere ==
  /\ {"Ready", "Running", "Inactive", "Blocked", "WaitingDelay"} \cap MutexStates = {}
  /\ "WaitingMutex" \in MutexStates /\ "WaitingMutex" \in BlockedStates
BY DEF MutexStates, BlockedStates, WaitStates

\* A step that leaves the idle thread and the lock of the kernel alone.
LEMMA FrameAble ==
  ASSUME NEW q, Able(q), NEW r, NEW S, Frame(q, r, S), Idle \notin S, r.kernel = q.kernel
  PROVE  Able(r)
BY MutexAssumption DEF Able, Frame
---------------------------------------------------------------------------
\* The operators that move threads from list to list

\* y has the locks and the links of x ...
SameLocks(x, y) ==
  /\ y.id = x.id /\ y.lock = x.lock /\ y.owner_thread = x.owner_thread
  /\ y.owner_prev = x.owner_prev /\ y.owner_next = x.owner_next
  /\ y.mutex_list = x.mutex_list

\* ... and the threads of l, in whatever order.
SameWaiters(l, n) ==
  \A m \in Mutex : Len(n[m]) = Len(l[m]) /\ ToSet(n[m]) = ToSet(l[m])

\* Only the priorities count for the place in a list.
LEMMA SortSame ==
  ASSUME NEW q, NEW r, r.priority = q.priority, NEW list, NEW t
  PROVE  ListSort(r, list, t) = ListSort(q, list, t)
BY DEF ListSort, ListPut

\* The mutexes x with other lists of waiting threads.
LEMMA ListsType ==
  ASSUME NEW x \in Mutexes, NEW l \in [Mutex -> Seq(Thread)]
  PROVE  LET y == [x EXCEPT !.thread_list = l]
         IN  y \in Mutexes /\ SameLocks(x, y) /\ y.thread_list = l
BY DEF Mutexes, SameLocks

\* r and y are q and x with some threads elsewhere in the lists they are in.
Moved(q, x, r, y, low) ==
  /\ Queues(r, y, {}, low) /\ SameRun(q, r) /\ r.state = q.state
  /\ ToSet(r.ready) = ToSet(q.ready)
  /\ y \in Mutexes /\ SameLocks(x, y) /\ SameWaiters(x.thread_list, y.thread_list)

LEMMA ReprioritisePriority ==
  ASSUME NEW q, Typed(q), NEW t \in Thread, NEW p \in Nat
  PROVE  LET r == Reprioritise(q, t, p)
         IN  /\ r.priority = [q.priority EXCEPT ![t] = p]
             /\ r.delay_list = q.delay_list
<1>1. CASE q.priority[t] = p
  BY <1>1 DEF Reprioritise, Typed
<1>2. CASE q.priority[t] # p
  BY <1>2 DEF Reprioritise, Typed
<1> QED
  BY <1>1, <1>2

LEMMA ReprioritiseQueues ==
  ASSUME NEW q, NEW x \in Mutexes, NEW low, Queues(q, x, {}, low),
         NEW t \in Thread, NEW p \in Nat
  PROVE  LET r == Reprioritise(q, t, p)
             y == Requeue(q, r, x, t)
         IN  Moved(q, x, r, y, low)
<1> DEFINE r == Reprioritise(q, t, p)
           y == Requeue(q, r, x, t)
<1>1. /\ Typed(q) /\ Runs(q, {}) /\ Sorted(q, low) /\ q.curr = q.next
      /\ q.priority \in [Thread -> Nat] /\ Distinct(q.ready)
      /\ Waiting(Mutex, MutexStates, q, x.thread_list, AnyMutex)
  BY RunningWaitsNot DEF Queues
<1>2. CASE q.priority[t] = p
  <2>1. r = q /\ y = x
    BY <1>2 DEF Reprioritise, Requeue
  <2> QED
    BY <1>1, <2>1 DEF Moved, SameRun, SameLocks, SameWaiters
<1>3. CASE q.priority[t] # p
  <2> DEFINE m == [q EXCEPT !.priority[t] = p]
             l == [n \in Mutex |-> ListSort(m, x.thread_list[n], t)]
  <2>1. r = Reranked(q, t, p)
    BY <1>3 DEF Reprioritise, Reranked
  <2>2. /\ Runs(r, {}) /\ SameRun(q, r) /\ r.state = q.state
        /\ ToSet(r.ready) = ToSet(q.ready)
    BY <1>1, <2>1, RerankedRuns
  <2>3. Sorted(r, low) /\ r.priority = [q.priority EXCEPT ![t] = p]
    BY <1>1, <2>1, RerankedSorted
  <2> HIDE DEF r
  <2>4. Frame(q, r, {})
    BY <2>2 DEF Frame
  <2>5. Waiting(Mutex, MutexStates, r, l, AnyMutex)
    <3>1. PICK w : w = x.thread_list
      OBVIOUS
    <3>2. /\ Waiting(Mutex, MutexStates, q, w, AnyMutex) /\ Typed(q) /\ p \in Nat
          /\ Frame(q, r, {}) /\ r.priority = [q.priority EXCEPT ![t] = p]
      BY <1>1, <2>3, <2>4, <3>1
    <3> DEFINE v == [n \in Mutex |-> ListSort(m, w[n], t)]
    <3>3. Waiting(Mutex, MutexStates, r, v, AnyMutex)
      BY ONLY <3>2, t \in Thread, WaitsSort
    <3> QED
      BY <3>1, <3>3
  <2>6. m.priority = r.priority
    BY <1>1, <2>3 DEF Typed
  <2>7. r.priority[t] # q.priority[t]
    BY <1>1, <1>3, <2>3
  <2>8. y = [x EXCEPT !.thread_list = l]
    <3>1. ASSUME NEW n \in Mutex
          PROVE  ListSort(r, x.thread_list[n], t) = ListSort(m, x.thread_list[n], t)
      <4> HIDE DEF m
      <4> QED
        BY <2>6, SortSame
    <3>2. l = [n \in Mutex |-> ListSort(r, x.thread_list[n], t)]
      <4> HIDE DEF m
      <4> QED
        BY <3>1
    <3> QED
      BY <2>7, <3>2 DEF Requeue
  <2>9. SameWaiters(x.thread_list, l)
    <3> SUFFICES ASSUME NEW n \in Mutex
                 PROVE  Len(l[n]) = Len(x.thread_list[n]) /\ ToSet(l[n]) = ToSet(x.thread_list[n])
      BY DEF SameWaiters
    <3>1. /\ x.thread_list[n] \in Seq(Thread) /\ Distinct(x.thread_list[n])
          /\ Ascends(x.thread_list[n], Urgency(q))
      BY <1>1 DEF Waiting
    <3>2. PICK list : list = x.thread_list[n]
      OBVIOUS
    <3>3. list \in Seq(Thread) /\ Distinct(list) /\ Ascends(list, Urgency(q))
      BY <3>1, <3>2
    <3>4. Len(ListSort(m, list, t)) = Len(list) /\ ToSet(ListSort(m, list, t)) = ToSet(list)
      <4>1. Typed(q) /\ t \in Thread /\ p \in Nat
        BY <1>1
      <4> QED
        BY ONLY <3>3, <4>1, ListSortAscends
    <3> HIDE DEF m
    <3> QED
      BY <3>2, <3>4
  <2> HIDE DEF l, y, m
  <2>10. l \in [Mutex -> Seq(Thread)]
    BY <2>5 DEF Waiting
  <2>11. y \in Mutexes /\ SameLocks(x, y) /\ y.thread_list = l
    BY <2>8, <2>10, ListsType
  <2>12. Queues(r, y, {}, low)
    <3>1. Typed(r)
      BY <2>2 DEF Runs
    <3> QED
      BY <1>1, <2>2, <2>3, <2>5, <2>11, <3>1, GoneNobody DEF Queues, SameRun
  <2>13. Moved(q, x, r, y, low)
    BY <2>2, <2>9, <2>11, <2>12 DEF Moved
  <2> QED
    BY <2>13 DEF r, y
<1> QED
  BY <1>2, <1>3

\* A thread that runs or is ready waits for no mutex, so it has no place to find there.
LEMMA ReprioritiseRunning ==
  ASSUME NEW q, NEW x \in Mutexes, NEW low, Queues(q, x, {}, low), NEW p \in Nat
  PROVE  LET r == Reprioritise(q, q.curr, p)
         IN  /\ Queues(r, x, {}, low) /\ SameRun(q, r) /\ r.state = q.state
             /\ r.priority = [q.priority EXCEPT ![q.curr] = p]
             /\ ToSet(r.ready) = ToSet(q.ready)
<1> DEFINE r == Reprioritise(q, q.curr, p)
           y == Requeue(q, r, x, q.curr)
           w == x.thread_list
<1>1. /\ q.curr \in Thread /\ q.state[q.curr] = "Running"
      /\ Waiting(Mutex, MutexStates, q, w, AnyMutex)
  BY RunningWaitsNot
<1>2. Moved(q, x, r, y, low) /\ r.priority = [q.priority EXCEPT ![q.curr] = p]
  <2>1. PICK t : t = q.curr
    OBVIOUS
  <2>2. Moved(q, x, Reprioritise(q, t, p), Requeue(q, Reprioritise(q, t, p), x, t), low)
    BY <1>1, <2>1, ReprioritiseQueues
  <2>3. Typed(q) /\ t \in Thread
    BY <1>1, <2>1, RunningWaitsNot
  <2>4. Reprioritise(q, t, p).priority = [q.priority EXCEPT ![t] = p]
    BY <2>3, ReprioritisePriority
  <2> QED
    BY <2>1, <2>2, <2>4
<1> HIDE DEF r
<1>3. y = x
  <2>1. ASSUME NEW m \in Mutex  PROVE ListSort(r, w[m], q.curr) = w[m]
    <3>1. q.curr \notin ToSet(w[m])
      BY <1>1, WaitsNowhere DEF Waiting
    <3> QED
      BY <3>1 DEF ListSort
  <2>2. w = [m \in Mutex |-> ListSort(r, w[m], q.curr)]
    BY <1>1, <2>1 DEF Waiting
  <2> QED
    BY <2>2 DEF Requeue, Mutexes
<1> QED
  BY <1>2, <1>3 DEF r, Moved

\* What becomes of the lists of x when the first thread waiting for m leaves.
Popped(x, m) ==
  IF x.thread_list[m] = <<>> THEN x.thread_list
  ELSE [x.thread_list EXCEPT ![m] = Tail(@)]

\* Some threads that waited for a mutex are ready, none of T; the others are as before.
Wakened(q, r, T) ==
  \A t \in Thread :
    \/ r.state[t] = q.state[t]
    \/ t \notin T /\ q.state[t] = "WaitingMutex" /\ r.state[t] = "Ready"

\* The same threads are alive, but for those of D.
Lives(q, r, D) ==
  \A u \in Thread \ D : r.state[u] = "Inactive" <=> q.state[u] = "Inactive"

LEMMA FrameLives ==
  ASSUME NEW q, NEW r, NEW S, Frame(q, r, S), NEW D,
         \A u \in S \ D : q.state[u] # "Inactive" /\ r.state[u] # "Inactive"
  PROVE  Lives(q, r, D)
BY DEF Frame, Lives

LEMMA LivesAgain ==
  ASSUME NEW q, NEW r, NEW s, NEW D, Lives(q, r, D), Lives(r, s, D)
  PROVE  Lives(q, s, D)
BY DEF Lives

LEMMA WakenedLives ==
  ASSUME NEW q, NEW r, NEW T, Wakened(q, r, T)
  PROVE  Lives(q, r, {})
BY DEF Wakened, Lives

LEMMA WakenedAble ==
  ASSUME NEW q, Able(q), NEW r, NEW T, Wakened(q, r, T), r.kernel = q.kernel
  PROVE  Able(r)
BY MutexAssumption DEF Able, Wakened

LEMMA WakenedAgain ==
  ASSUME NEW q, NEW r, NEW s, NEW T, Wakened(q, r, T), Wakened(r, s, T)
  PROVE  Wakened(q, s, T)
BY DEF Wakened

\* The end of a wait, of the first thread in the list of m.
LEMMA WakeFirstQueues ==
  ASSUME NEW q, NEW x \in Mutexes, NEW T, NEW low, Queues(q, x, T, low), NEW m \in Mutex
  PROVE  LET r == WakeFirst(q, x, m)
         IN  /\ Queues(r, [x EXCEPT !.thread_list = Popped(x, m)], T, low)
             /\ SameRun(q, r) /\ r.priority = q.priority
             /\ ToSet(q.ready) \subseteq ToSet(r.ready)
             /\ Wakened(q, r, T)
<1> DEFINE w == x.thread_list
           h == Head(w[m])
           r == WaitExit(q, h)
           g == Gone(q, T)
           l == [w EXCEPT ![m] = Tail(@)]
<1>1. CASE w[m] = <<>>
  <2>1. WakeFirst(q, x, m) = q /\ [x EXCEPT !.thread_list = w] = x
    BY <1>1 DEF WakeFirst, Mutexes
  <2> QED
    BY <1>1, <2>1 DEF SameRun, Popped, Wakened
<1>2. CASE w[m] # <<>>
  <2>1. /\ Typed(q) /\ Placed(q, T) /\ Sorted(q, low) /\ q.curr = q.next
        /\ q.next \notin T /\ q.state[q.next] = "Running"
        /\ Waiting(Mutex, MutexStates, g, w, AnyMutex)
    BY DEF Queues, Runs
  <2>2. /\ Typed(g) /\ g.priority = q.priority /\ g.state \in [Thread -> ThreadState]
        /\ \A t \in Thread : g.state[t] = IF t \in T THEN "Inactive" ELSE q.state[t]
        /\ q.state \in [Thread -> ThreadState] /\ q.next \in Thread
    BY <2>1, GoneType, RankTypes
  <2> HIDE DEF g
  <2>3. h \in Thread /\ h \in ToSet(w[m])
    BY <1>2, <2>1, TailSet DEF Waiting
  <2>4. g.state[h] \in MutexStates
    BY <2>1, <2>3 DEF Waiting
  <2>5. h \notin T /\ q.state[h] = "WaitingMutex" /\ q.state[h] \in BlockedStates
    BY <2>2, <2>3, <2>4, WaitsNowhere DEF MutexStates
  <2> HIDE DEF h
  <2>6. /\ Typed(r) /\ Placed(r, T) /\ SameRun(q, r)
        /\ r.state = [q.state EXCEPT ![h] = "Ready"]
        /\ ToSet(r.ready) = ToSet(q.ready) \cup {h}
    BY <2>1, <2>3, <2>5, WaitExitPlaced
  <2>7. Sorted(r, low)
    BY <2>1, <2>3, WaitExitSorted
  <2>8. r.priority = q.priority
    <3>1. "priority" \in DOMAIN q
      BY <2>1 DEF Typed
    <3> QED
      BY <3>1, WaitPriorities DEF Prioritised
  <2> HIDE DEF r
  <2>9. Runs(r, T) /\ r.curr = r.next
    BY <2>1, <2>2, <2>5, <2>6 DEF Runs, SameRun
  <2> DEFINE e == Gone(r, T)
  <2>10. /\ e.priority = q.priority /\ e.state[h] = "Ready"
         /\ \A t \in Thread : t # h => e.state[t] = g.state[t]
    BY <2>2, <2>3, <2>5, <2>6, <2>8, GoneType
  <2> HIDE DEF e
  <2>11. Frame(g, e, {h}) /\ e.priority = g.priority /\ e.state[h] \notin MutexStates
    BY <2>2, <2>10, WaitsNowhere DEF Frame
  <2>12. Waiting(Mutex, MutexStates, e, l, AnyMutex)
    BY <1>2, <2>1, <2>2, <2>11, WaitsPop DEF h
  <2>13. l \in [Mutex -> Seq(Thread)]
    BY <2>12 DEF Waiting
  <2> HIDE DEF l
  <2>14. [x EXCEPT !.thread_list = l].thread_list = l
    BY <2>13, ListsType
  <2>15. WakeFirst(q, x, m) = r
    BY <1>2 DEF WakeFirst, r, h
  <2>16. Wakened(q, r, T)
    BY <2>2, <2>3, <2>5, <2>6 DEF Wakened
  <2>17. Queues(r, [x EXCEPT !.thread_list = l], T, low)
    BY <2>7, <2>9, <2>12, <2>14 DEF Queues, e
  <2>18. Popped(x, m) = l
    BY <1>2 DEF Popped, l
  <2> QED
    BY <2>6, <2>8, <2>15, <2>16, <2>17, <2>18
<1> QED
  BY <1>1, <1>2

---------------------------------------------------------------------------
\* The locks

\* Each field of y after t has become the owner of m ...
Taken(x, m, t, y) ==
  LET first == x.mutex_list[t]
  IN  /\ y.id = x.id /\ y.thread_list = x.thread_list
      /\ y.lock = [x.lock EXCEPT ![m] = 1]
      /\ y.owner_thread = [x.owner_thread EXCEPT ![m] = t]
      /\ y.owner_next = [x.owner_next EXCEPT ![m] = first]
      /\ y.owner_prev = Link([x.owner_prev EXCEPT ![m] = NoMutex], first, m)
      /\ y.mutex_list = [x.mutex_list EXCEPT ![t] = m]

\* ... and after m has left the list of its owner.
Unlinked(x, m, y) ==
  LET prev == x.owner_prev[m]
      next == x.owner_next[m]
  IN  /\ y.id = x.id /\ y.thread_list = x.thread_list
      /\ y.lock = x.lock /\ y.owner_thread = x.owner_thread
      /\ y.owner_prev = Link(x.owner_prev, next, prev)
      /\ y.owner_next = Link(x.owner_next, prev, next)
      /\ y.mutex_list = IF prev # NoMutex THEN x.mutex_list
                        ELSE [x.mutex_list EXCEPT ![x.owner_thread[m]] = next]

LEMMA HoldType ==
  ASSUME NEW x \in Mutexes, NEW m \in Mutex, NEW t \in Thread
  PROVE  Hold(x, m, t) \in Mutexes /\ Taken(x, m, t, Hold(x, m, t))
<1> DEFINE y == Hold(x, m, t)
           first == x.mutex_list[t]
           prev == Link([x.owner_prev EXCEPT ![m] = NoMutex], first, m)
<1>1. first \in Mutex \cup {NoMutex} /\ 1 \in 0 .. LockLimit
  BY MutexAssumption DEF Mutexes
<1>2. prev \in [Mutex -> Mutex \cup {NoMutex}]
  BY <1>1 DEF Mutexes, Link
<1> HIDE DEF prev, first
<1>3. y = [x EXCEPT !.lock = [x.lock EXCEPT ![m] = 1],
                    !.owner_thread = [x.owner_thread EXCEPT ![m] = t],
                    !.owner_prev = prev, !.owner_next = [x.owner_next EXCEPT ![m] = first],
                    !.mutex_list = [x.mutex_list EXCEPT ![t] = m]]
  BY DEF Hold, prev, first, Mutexes
<1>4. /\ [x.lock EXCEPT ![m] = 1] \in [Mutex -> 0 .. LockLimit]
      /\ [x.owner_thread EXCEPT ![m] = t] \in [Mutex -> Thread \cup {NoThread}]
      /\ [x.owner_next EXCEPT ![m] = first] \in [Mutex -> Mutex \cup {NoMutex}]
      /\ [x.mutex_list EXCEPT ![t] = m] \in [Thread -> Mutex \cup {NoMutex}]
  BY <1>1 DEF Mutexes
<1>5. y \in Mutexes
  BY <1>2, <1>3, <1>4 DEF Mutexes
<1>6. /\ y.id = x.id /\ y.thread_list = x.thread_list
      /\ y.lock = [x.lock EXCEPT ![m] = 1]
      /\ y.owner_thread = [x.owner_thread EXCEPT ![m] = t]
      /\ y.owner_next = [x.owner_next EXCEPT ![m] = first]
      /\ y.owner_prev = prev
      /\ y.mutex_list = [x.mutex_list EXCEPT ![t] = m]
  BY <1>3 DEF Mutexes
<1> HIDE DEF y
<1> QED
  BY <1>5, <1>6 DEF prev, first, Taken, y

LEMMA UnholdType ==
  ASSUME NEW x \in Mutexes, NEW m \in Mutex
  PROVE  Unhold(x, m) \in Mutexes /\ Unlinked(x, m, Unhold(x, m))
<1> DEFINE y == Unhold(x, m)
           prev == x.owner_prev[m]
           next == x.owner_next[m]
           before == Link(x.owner_prev, next, prev)
           after == Link(x.owner_next, prev, next)
           list == IF prev # NoMutex THEN x.mutex_list
                   ELSE [x.mutex_list EXCEPT ![x.owner_thread[m]] = next]
<1>1. prev \in Mutex \cup {NoMutex} /\ next \in Mutex \cup {NoMutex}
  BY DEF Mutexes
<1>2. before \in [Mutex -> Mutex \cup {NoMutex}] /\ after \in [Mutex -> Mutex \cup {NoMutex}]
  BY <1>1 DEF Mutexes, Link
<1>3. list \in [Thread -> Mutex \cup {NoMutex}]
  BY <1>1 DEF Mutexes
<1>4. y = [x EXCEPT !.owner_prev = before, !.owner_next = after, !.mutex_list = list]
  BY DEF Unhold
<1> HIDE DEF prev, next, before, after, list
<1>5. y \in Mutexes
  BY <1>2, <1>3, <1>4 DEF Mutexes
<1>6. /\ y.id = x.id /\ y.thread_list = x.thread_list
      /\ y.lock = x.lock /\ y.owner_thread = x.owner_thread
      /\ y.owner_prev = before /\ y.owner_next = after /\ y.mutex_list = list
  BY <1>4 DEF Mutexes
<1> HIDE DEF y
<1> QED
  BY <1>5, <1>6 DEF before, after, list, prev, next, Unlinked, y

\* m with its lock at n.
LEMMA LockType ==
  ASSUME NEW x \in Mutexes, NEW m \in Mutex, NEW n \in 0 .. LockLimit
  PROVE  LET y == [x EXCEPT !.lock[m] = n]
         IN  /\ y \in Mutexes /\ y.lock = [x.lock EXCEPT ![m] = n]
             /\ y.id = x.id /\ y.owner_thread = x.owner_thread
             /\ y.owner_prev = x.owner_prev /\ y.owner_next = x.owner_next
             /\ y.mutex_list = x.mutex_list /\ y.thread_list = x.thread_list
<1> DEFINE l == [x.lock EXCEPT ![m] = n]
           y == [x EXCEPT !.lock = l]
<1>1. l \in [Mutex -> 0 .. LockLimit]
  BY DEF Mutexes
<1> HIDE DEF l
<1>2. /\ y \in Mutexes /\ y.lock = l
      /\ y.id = x.id /\ y.owner_thread = x.owner_thread
      /\ y.owner_prev = x.owner_prev /\ y.owner_next = x.owner_next
      /\ y.mutex_list = x.mutex_list /\ y.thread_list = x.thread_list
  BY <1>1 DEF Mutexes
<1> QED
  BY <1>2 DEF l

\* m, not locked any more, goes to the first thread waiting for it, if there is one.
LEMMA HandOverHeld ==
  ASSUME NEW x \in Mutexes, NEW m \in Mutex, x.lock[m] = 0,
         x.thread_list[m] # <<>> => x.id[m],
         \A n \in Mutex : n # m => Held(x, n),
         Distinct(x.thread_list[m])
  PROVE  LET y == HandOver(x, m)
         IN  /\ y \in Mutexes /\ y.thread_list = Popped(x, m) /\ y.id = x.id
             /\ \A n \in Mutex : Held(y, n)
<1> DEFINE y == HandOver(x, m)
           w == x.thread_list
           h == Head(w[m])
<1>1. CASE w[m] = <<>>
  <2>1. y = x
    BY <1>1 DEF HandOver
  <2> QED
    BY <1>1, <2>1 DEF Popped, Held
<1>2. CASE w[m] # <<>>
  <2> DEFINE l == [w EXCEPT ![m] = Tail(@)]
             z == [x EXCEPT !.thread_list = l]
  <2>1. w \in [Mutex -> Seq(Thread)]
    BY DEF Mutexes
  <2>2. h \in Thread /\ h \in ToSet(w[m]) /\ Tail(w[m]) \in Seq(Thread)
    BY <1>2, <2>1, TailSet
  <2>3. l \in [Mutex -> Seq(Thread)]
    BY <2>1, <2>2
  <2>4. y = Hold(z, m, h)
    BY <1>2 DEF HandOver
  <2> HIDE DEF l, h
  <2>5. /\ z \in Mutexes /\ z.thread_list = l /\ z.id = x.id /\ z.lock = x.lock
        /\ z.owner_thread = x.owner_thread
    BY <2>3, ListsType DEF SameLocks
  <2> HIDE DEF z, y
  <2>6. /\ y \in Mutexes /\ y.id = x.id /\ y.thread_list = l
        /\ y.lock = [x.lock EXCEPT ![m] = 1]
        /\ y.owner_thread = [x.owner_thread EXCEPT ![m] = h]
    <3>1. z \in Mutexes
      BY <2>5
    <3>2. y \in Mutexes /\ Taken(z, m, h, y)
      BY <2>2, <2>4, <3>1, HoldType
    <3> QED
      BY <2>5, <3>2 DEF Taken
  <2>7. ASSUME NEW n \in Mutex  PROVE Held(y, n)
    <3>1. /\ x.lock \in [Mutex -> 0 .. LockLimit]
          /\ x.owner_thread \in [Mutex -> Thread \cup {NoThread}]
      BY DEF Mutexes
    <3>2. CASE n = m
      BY <1>2, <2>2, <2>6, <3>1, <3>2 DEF Held
    <3>3. CASE n # m
      <4>1. y.lock[n] = x.lock[n] /\ y.owner_thread[n] = x.owner_thread[n] /\ l[n] = w[n]
        BY <2>1, <2>6, <3>1, <3>3 DEF l
      <4> QED
        BY <2>6, <3>3, <4>1 DEF Held
    <3> QED
      BY <3>2, <3>3
  <2> QED
    BY <1>2, <2>6, <2>7 DEF Popped, l, y
<1> QED
  BY <1>1, <1>2

---------------------------------------------------------------------------
\* The list of the mutexes a thread owns

\* The walk along the pointers of x, which passes at most once per mutex.
Walk(x, t, w) ==
  /\ w \in Seq(Mutex \cup {NoMutex}) /\ Len(w) = Cardinality(Mutex)
  /\ 1 <= Len(w) => w[1] = x.mutex_list[t]
  /\ \A i \in 1 .. Len(w) - 1 :
       w[i + 1] = IF w[i] \in Mutex THEN x.owner_next[w[i]] ELSE NoMutex

LEMMA Walked ==
  ASSUME NEW x \in Mutexes, NEW t \in Thread
  PROVE  \E w : /\ Walk(x, t, w)
                /\ MutexList(x, t) = SubSeq(w, 1, PastPrefix(w, Mutex) - 1)
<1> DEFINE N == Cardinality(Mutex)
           S == Mutex \cup {NoMutex}
           Next1(m) == IF m \in Mutex THEN x.owner_next[m] ELSE NoMutex
           Goes(g) == g = [i \in 1 .. N |-> IF i = 1 THEN x.mutex_list[t]
                                            ELSE IF g[i - 1] \in Mutex
                                                 THEN x.owner_next[g[i - 1]] ELSE NoMutex]
           walk == CHOOSE g : Goes(g)
           step == [n \in Nat |-> [m \in S |-> Next1(m)]]
<1>1. N \in Nat
  BY MutexAssumption, FS_CardinalityType
<1>2. x.mutex_list[t] \in S /\ \A m \in Mutex : x.owner_next[m] \in S
  BY DEF Mutexes
<1>3. step \in [Nat -> [S -> S]]
  BY <1>2
<1> HIDE DEF N
<1>4. \E g : Goes(g)
  <2>1. PICK f \in [Nat -> S] : Recurs(f, x.mutex_list[t], step)
    <3> HIDE DEF step, S
    <3> QED
      BY <1>2, <1>3, Recursion
  <2>2. f[0] = x.mutex_list[t] /\ \A n \in Nat : f[n + 1] = step[n + 1][f[n]]
    BY <2>1 DEF Recurs
  <2>3. ASSUME NEW n \in Nat  PROVE f[n + 1] = Next1(f[n])
    <3>1. n + 1 \in Nat /\ f[n] \in S
      OBVIOUS
    <3> QED
      BY <2>2, <3>1
  <2> DEFINE g == [i \in 1 .. N |-> f[i - 1]]
  <2>4. ASSUME NEW i \in 1 .. N
        PROVE  g[i] = IF i = 1 THEN x.mutex_list[t] ELSE Next1(g[i - 1])
    <3>1. CASE i = 1
      BY <1>1, <2>2, <3>1
    <3>2. CASE i # 1
      <4> DEFINE n == i - 2
      <4>1. n \in Nat /\ n + 1 = i - 1 /\ i - 1 \in 1 .. N /\ (i - 1) - 1 = n
        BY <1>1, <3>2
      <4> HIDE DEF n
      <4>2. g[i] = f[n + 1] /\ g[i - 1] = f[n]
        BY <4>1
      <4> QED
        BY <2>3, <3>2, <4>1, <4>2
    <3> QED
      BY <3>1, <3>2
  <2> HIDE DEF g
  <2>5. g = [i \in 1 .. N |-> g[i]]
    BY DEF g
  <2>6. Goes(g)
    BY <2>4, <2>5
  <2> QED
    BY <2>6
<1>5. Goes(walk)
  <2> HIDE DEF Goes
  <2> QED
    BY <1>4
<1>6. MutexList(x, t) = SubSeq(walk, 1, PastPrefix(walk, Mutex) - 1)
  BY DEF MutexList, N
<1> HIDE DEF walk
<1>7. DOMAIN walk = 1 .. N /\ walk = [i \in 1 .. N |-> walk[i]]
  BY <1>5
<1>8. \A i \in 1 .. N : walk[i] = IF i = 1 THEN x.mutex_list[t] ELSE Next1(walk[i - 1])
  BY <1>5
<1> HIDE DEF Goes
<1>9. \A i \in 1 .. N : walk[i] \in S
  <2>1. ASSUME NEW i \in 1 .. N  PROVE walk[i] \in S
    <3>1. CASE i = 1
      BY <1>2, <1>8, <3>1
    <3>2. CASE i # 1
      BY <1>2, <1>8, <3>2
    <3> QED
      BY <3>1, <3>2
  <2> QED
    BY <2>1
<1> HIDE DEF S
<1>10. walk \in Seq(S) /\ Len(walk) = N
  BY <1>1, <1>7, <1>9, IsASeq
<1>11. \A i \in 1 .. N - 1 : walk[i + 1] = Next1(walk[i])
  <2>1. ASSUME NEW i \in 1 .. N - 1  PROVE walk[i + 1] = Next1(walk[i])
    <3>1. i + 1 \in 1 .. N /\ i + 1 # 1 /\ (i + 1) - 1 = i
      BY <1>1
    <3> QED
      BY <1>8, <3>1
  <2> QED
    BY <2>1
<1>12. 1 <= N => walk[1] = x.mutex_list[t]
  BY <1>1, <1>8
<1> QED
  BY <1>6, <1>10, <1>11, <1>12 DEF Walk, N, S

LEMMA MutexListType ==
  ASSUME NEW x \in Mutexes, NEW t \in Thread
  PROVE  MutexList(x, t) \in Seq(Mutex)
<1>1. PICK w : /\ Walk(x, t, w)
               /\ MutexList(x, t) = SubSeq(w, 1, PastPrefix(w, Mutex) - 1)
  BY Walked
<1> DEFINE i == PastPrefix(w, Mutex)
<1>2. w \in Seq(Mutex \cup {NoMutex}) /\ Len(w) \in Nat
  BY <1>1 DEF Walk
<1>3. i \in 1 .. Len(w) + 1 /\ \A j \in 1 .. i - 1 : w[j] \in Mutex
  BY <1>2, PrefixIndex
<1> HIDE DEF i
<1>4. i - 1 \in 0 .. Len(w) /\ 1 \in 1 .. Len(w) + 1
  BY <1>2, <1>3
<1>5. SubSeq(w, 1, i - 1) \in Seq(Mutex)
  BY <1>2, <1>3, <1>4, SubSeqProperties
<1> QED
  BY <1>1, <1>5 DEF i

\* A list of distinct threads without one of them, or without NoThread.
LEMMA WithoutAny ==
  ASSUME NEW l \in Seq(Thread), Distinct(l), NEW t \in Thread \cup {NoThread}
  PROVE  Without(l, t) \in Seq(Thread) /\ ToSet(Without(l, t)) = ToSet(l) \ {t}
<1>1. CASE t \in Thread
  BY <1>1, WithoutSet
<1>2. CASE t \notin Thread
  <2>1. t \notin ToSet(l)
    BY <1>2 DEF ToSet
  <2> QED
    BY <2>1 DEF Without
<1> QED
  BY <1>1, <1>2

\* The priorities t may owe to: its own, and those at the heads of the lists.
Dues(s, x, t, gone) ==
  {priority_base[t]}
    \cup {s.priority[Head(Without(x.thread_list[m], gone))] :
            m \in {n \in PrioInherit \cap ToSet(MutexList(x, t)) :
                     Without(x.thread_list[n], gone) # <<>>}}

LEMMA OwedIs ==
  ASSUME NEW s, s.priority \in [Thread -> Nat], NEW x \in Mutexes, NEW t \in Thread,
         NEW gone \in Thread \cup {NoThread}, priority_base \in [Thread -> Nat],
         \A m \in Mutex : Distinct(x.thread_list[m])
  PROVE  /\ Owed(s, x, t, gone) \in Dues(s, x, t, gone)
         /\ Owed(s, x, t, gone) \in Nat
         /\ \A p \in Dues(s, x, t, gone) : p <= Owed(s, x, t, gone)
<1> DEFINE O == PrioInherit \cap ToSet(MutexList(x, t))
           L(m) == Without(x.thread_list[m], gone)
           M == {n \in O : L(n) # <<>>}
           f == [m \in M |-> s.priority[Head(L(m))]]
           H == {s.priority[Head(L(m))] : m \in M}
           D == Dues(s, x, t, gone)
<1>1. O \subseteq Mutex /\ x.thread_list \in [Mutex -> Seq(Thread)]
  BY MutexAssumption DEF Mutexes
<1>2. Owed(s, x, t, gone) = Max(D)
  <2> DEFINE Q == {L(m) : m \in O}
             G == {s.priority[Head(q)] : q \in Q \ {<<>>}}
  <2>1. Owed(s, x, t, gone) = Max({priority_base[t]} \cup G)
    BY DEF Owed
  <2> HIDE DEF O, L
  <2>2. G = H
    OBVIOUS
  <2>3. D = {priority_base[t]} \cup H
    BY DEF Dues, O, L
  <2> QED
    BY <2>1, <2>2, <2>3
<1>3. \A m \in M : L(m) \in Seq(Thread) /\ L(m) # <<>>
  BY <1>1, WithoutAny
<1>4. D = {priority_base[t]} \cup H
  BY DEF Dues
<1> HIDE DEF L, D
<1>5. \A m \in M : Head(L(m)) \in Thread
  BY <1>3, HeadTailProperties
<1>6. H \subseteq Nat
  BY <1>5
<1>7. IsFiniteSet(M)
  <2>1. M \subseteq Mutex
    BY <1>1
  <2> HIDE DEF M
  <2> QED
    BY <2>1, MutexAssumption, FS_Subset
<1> HIDE DEF M
<1>8. f \in [M -> H] /\ \A p \in H : \E m \in M : f[m] = p
  OBVIOUS
<1> HIDE DEF f, H
<1>9. IsFiniteSet(H)
  <2>1. f \in Surjection(M, H)
    BY <1>8 DEF Surjection
  <2> QED
    BY <1>7, <2>1, FS_Surjection
<1>10. IsFiniteSet(D)
  BY <1>4, <1>9, FS_AddElement
<1>11. D \subseteq Nat /\ D # {}
  BY <1>4, <1>6
<1>12. Max(D) \in D /\ \A p \in D : p <= Max(D)
  BY <1>10, <1>11, Maximum
<1> QED
  BY <1>2, <1>11, <1>12 DEF D

---------------------------------------------------------------------------
\* The links between the mutexes of an owner

\* The mutexes t owns, whatever the links say.
Owned(x, t) ==
  {m \in Mutex : x.id[m] /\ x.lock[m] # 0 /\ x.owner_thread[m] = t}

\* The pointer to the i-th mutex of l.
At(l, i) == IF i \in 1 .. Len(l) THEN l[i] ELSE NoMutex

\* From mutex_list of t the pointers lead through l, there and back.
Strung(x, t, l) ==
  /\ l \in Seq(Mutex) /\ Distinct(l)
  /\ x.mutex_list[t] = At(l, 1)
  /\ \A i \in 1 .. Len(l) : /\ x.owner_next[l[i]] = At(l, i + 1)
                            /\ x.owner_prev[l[i]] = At(l, i - 1)

Chain(x, t, l) == Strung(x, t, l) /\ ToSet(l) = Owned(x, t)

LEMMA StrungFacts ==
  ASSUME NEW l \in Seq(Mutex)
  PROVE  /\ Len(l) \in Nat /\ NoMutex \notin Mutex
         /\ \A i \in 1 .. Len(l) : l[i] \in Mutex /\ l[i] \in ToSet(l) /\ At(l, i) = l[i]
         /\ \A i \in Int : i \notin 1 .. Len(l) => At(l, i) = NoMutex
         /\ \A m \in ToSet(l) : m \in Mutex /\ \E i \in 1 .. Len(l) : l[i] = m
BY MutexAssumption DEF At, ToSet

\* Threads with no mutexes.
LEMMA StrungEmpty ==
  ASSUME NEW x, NEW t, x.mutex_list[t] = NoMutex
  PROVE  Strung(x, t, <<>>)
BY DEF Strung, Distinct, At

\* Other pointers may change.
LEMMA StrungSame ==
  ASSUME NEW x, NEW t, NEW l, Strung(x, t, l), NEW y, y.mutex_list[t] = x.mutex_list[t],
         \A m \in ToSet(l) : /\ y.owner_next[m] = x.owner_next[m]
                             /\ y.owner_prev[m] = x.owner_prev[m]
  PROVE  Strung(y, t, l)
BY DEF Strung, ToSet

\* A mutex is put in front of the others.
LEMMA HoldStrung ==
  ASSUME NEW x \in Mutexes, NEW t \in Thread, NEW l, Strung(x, t, l),
         NEW m \in Mutex, m \notin ToSet(l), NEW y, Taken(x, m, t, y)
  PROVE  Strung(y, t, <<m>> \o l) /\ ToSet(<<m>> \o l) = ToSet(l) \cup {m}
<1> DEFINE n == <<m>> \o l
           N == Len(l)
<1>1. /\ l \in Seq(Mutex) /\ Distinct(l) /\ x.mutex_list[t] = At(l, 1)
      /\ \A i \in 1 .. N : /\ x.owner_next[l[i]] = At(l, i + 1)
                           /\ x.owner_prev[l[i]] = At(l, i - 1)
  BY DEF Strung
<1>2. /\ N \in Nat /\ NoMutex \notin Mutex
      /\ \A i \in 1 .. N : l[i] \in Mutex /\ l[i] # m /\ At(l, i) = l[i]
      /\ \A i \in Int : i \notin 1 .. N => At(l, i) = NoMutex
  BY <1>1, StrungFacts
<1>3. /\ n \in Seq(Mutex) /\ Len(n) = N + 1 /\ n[1] = m
      /\ \A i \in 1 .. N : n[i + 1] = l[i]
  BY <1>1
<1>4. \A j \in 2 .. N + 1 : j - 1 \in 1 .. N /\ n[j] = l[j - 1]
  <2>1. ASSUME NEW j \in 2 .. N + 1  PROVE j - 1 \in 1 .. N /\ n[j] = l[j - 1]
    <3>1. j - 1 \in 1 .. N /\ (j - 1) + 1 = j
      BY <1>2
    <3> QED
      BY <1>3, <3>1
  <2> QED
    BY <2>1
<1> HIDE DEF n, N
<1>5. /\ At(n, 0) = NoMutex /\ At(n, 1) = m
      /\ \A i \in Nat : i >= 2 => At(n, i) = At(l, i - 1)
  <2>1. At(n, 0) = NoMutex /\ At(n, 1) = m
    BY <1>2, <1>3 DEF At
  <2>2. ASSUME NEW i \in Nat, i >= 2  PROVE At(n, i) = At(l, i - 1)
    <3>1. CASE i <= N + 1
      BY <1>2, <1>3, <1>4, <2>2, <3>1 DEF At
    <3>2. CASE ~(i <= N + 1)
      BY <1>2, <1>3, <2>2, <3>2 DEF At, N
    <3> QED
      BY <3>1, <3>2
  <2> QED
    BY <2>1, <2>2
<1>6. Distinct(n)
  <2> SUFFICES ASSUME NEW i \in 1 .. N + 1, NEW j \in 1 .. N + 1, n[i] = n[j]
               PROVE  i = j
    BY <1>3 DEF Distinct
  <2>1. \A a, b \in 1 .. N : l[a] = l[b] => a = b
    BY <1>1 DEF Distinct, N
  <2>2. CASE i = 1 \/ j = 1
    <3>1. \A a \in 2 .. N + 1 : n[a] # m
      BY <1>2, <1>4
    <3> QED
      BY <1>2, <1>3, <2>2, <3>1
  <2>3. CASE i # 1 /\ j # 1
    <3>1. i \in 2 .. N + 1 /\ j \in 2 .. N + 1
      BY <1>2, <2>3
    <3>2. i - 1 = j - 1
      BY <1>4, <2>1, <3>1
    <3> QED
      BY <1>2, <3>2
  <2> QED
    BY <2>2, <2>3
<1>7. /\ y.owner_next = [x.owner_next EXCEPT ![m] = At(l, 1)]
      /\ y.owner_prev = Link([x.owner_prev EXCEPT ![m] = NoMutex], At(l, 1), m)
      /\ y.mutex_list[t] = m
      /\ x.owner_next \in [Mutex -> Mutex \cup {NoMutex}]
      /\ x.owner_prev \in [Mutex -> Mutex \cup {NoMutex}]
  BY <1>1 DEF Taken, Mutexes
<1>8. ASSUME NEW i \in 1 .. N + 1
      PROVE  y.owner_next[n[i]] = At(n, i + 1) /\ y.owner_prev[n[i]] = At(n, i - 1)
  <2>1. CASE i = 1
    <3>1. At(n, 2) = At(l, 1) /\ At(l, 1) # m
      <4>1. (At(l, 1) = l[1] /\ 1 \in 1 .. N) \/ At(l, 1) = NoMutex
        BY <1>2
      <4> QED
        BY <1>2, <1>5, <4>1
    <3>2. y.owner_next[m] = At(l, 1) /\ y.owner_prev[m] = NoMutex
      BY <1>7, <3>1 DEF Link
    <3> QED
      BY <1>3, <1>5, <2>1, <3>1, <3>2
  <2>2. CASE i # 1
    <3> DEFINE j == i - 1
    <3>1. j \in 1 .. N /\ j + 1 = i /\ n[i] = l[j] /\ i \in 2 .. N + 1
      BY <1>2, <1>4, <2>2
    <3>2. l[j] \in Mutex /\ l[j] # m /\ At(l, j) = l[j]
      BY <1>2, <3>1
    <3>3. y.owner_next[l[j]] = At(l, j + 1)
      BY <1>1, <1>7, <3>1, <3>2
    <3>4. At(n, i + 1) = At(l, j + 1)
      BY <1>5, <3>1
    <3>5. y.owner_prev[l[j]] = At(n, i - 1)
      <4>1. CASE j = 1
        <5>1. At(l, 1) = l[j] /\ At(n, i - 1) = m /\ At(l, 1) # NoMutex
          BY <1>2, <1>5, <3>1, <3>2, <4>1
        <5> QED
          BY <1>7, <3>2, <5>1 DEF Link
      <4>2. CASE j # 1
        <5>1. At(n, i - 1) = At(l, j - 1) /\ 1 \in 1 .. N
          <6>1. i - 1 \in Nat /\ i - 1 >= 2 /\ (i - 1) - 1 = j - 1 /\ 1 \in 1 .. N
            BY <1>2, <3>1, <4>2
          <6> QED
            BY <1>5, <6>1
        <5>2. At(l, 1) # l[j]
          BY <1>1, <1>2, <3>1, <4>2, <5>1 DEF Distinct, N
        <5> QED
          BY <1>1, <1>7, <3>1, <3>2, <5>1, <5>2 DEF Link
      <4> QED
        BY <4>1, <4>2
    <3> QED
      BY <3>1, <3>3, <3>4, <3>5
  <2> QED
    BY <2>1, <2>2
<1>9. ToSet(n) = ToSet(l) \cup {m}
  <2>1. ToSet(n) \subseteq ToSet(l) \cup {m}
    <3> SUFFICES ASSUME NEW i \in 1 .. N + 1  PROVE n[i] \in ToSet(l) \cup {m}
      BY <1>3 DEF ToSet
    <3>1. CASE i = 1
      BY <1>3, <3>1
    <3>2. CASE i # 1
      <4>1. i \in 2 .. N + 1
        BY <1>2, <3>2
      <4> QED
        BY <1>4, <4>1 DEF ToSet, N
    <3> QED
      BY <3>1, <3>2
  <2>2. ToSet(l) \subseteq ToSet(n)
    <3> SUFFICES ASSUME NEW i \in 1 .. N  PROVE l[i] \in ToSet(n)
      BY <1>1 DEF ToSet, N
    <3>1. i + 1 \in 1 .. N + 1 /\ n[i + 1] = l[i]
      BY <1>2, <1>3
    <3> QED
      BY <1>3, <3>1 DEF ToSet
  <2>3. m \in ToSet(n)
    BY <1>2, <1>3 DEF ToSet
  <2> QED
    BY <2>1, <2>2, <2>3
<1>10. Strung(y, t, n)
  BY <1>3, <1>5, <1>6, <1>7, <1>8 DEF Strung
<1> QED
  BY <1>9, <1>10 DEF n

\* Nothing changes in the lists of the others.
LEMMA HoldOthers ==
  ASSUME NEW x \in Mutexes, NEW t \in Thread, NEW l, Strung(x, t, l),
         NEW m \in Mutex, NEW y, Taken(x, m, t, y),
         NEW u \in Thread, u # t, NEW r, Strung(x, u, r),
         m \notin ToSet(r), ToSet(l) \cap ToSet(r) = {}
  PROVE  Strung(y, u, r)
<1>1. r \in Seq(Mutex) /\ l \in Seq(Mutex) /\ x.mutex_list[t] = At(l, 1)
  BY DEF Strung
<1>2. y.mutex_list[u] = x.mutex_list[u]
  BY DEF Taken, Mutexes
<1>3. ASSUME NEW n \in ToSet(r)
      PROVE  y.owner_next[n] = x.owner_next[n] /\ y.owner_prev[n] = x.owner_prev[n]
  <2>1. n \in Mutex /\ n # m
    BY <1>1, StrungFacts
  <2>2. At(l, 1) # n
    <3>1. At(l, 1) = NoMutex \/ At(l, 1) \in ToSet(l)
      BY <1>1, StrungFacts DEF At
    <3> QED
      BY <2>1, <3>1, MutexAssumption
  <2>3. /\ x.owner_next \in [Mutex -> Mutex \cup {NoMutex}]
        /\ x.owner_prev \in [Mutex -> Mutex \cup {NoMutex}]
    BY DEF Mutexes
  <2> QED
    BY <1>1, <2>1, <2>2, <2>3 DEF Taken, Link
<1> QED
  BY <1>2, <1>3, StrungSame

\* The j-th mutex leaves the list.
LEMMA UnholdStrung ==
  ASSUME NEW x \in Mutexes, NEW t \in Thread, NEW l, Strung(x, t, l),
         NEW j \in 1 .. Len(l), x.owner_thread[l[j]] = t, NEW y, Unlinked(x, l[j], y)
  PROVE  /\ Strung(y, t, RemoveAt(l, j))
         /\ ToSet(RemoveAt(l, j)) = ToSet(l) \ {l[j]}
<1> DEFINE r == RemoveAt(l, j)
           N == Len(l)
           m == l[j]
           prev == At(l, j - 1)
           next == At(l, j + 1)
<1>1. /\ l \in Seq(Mutex) /\ Distinct(l) /\ x.mutex_list[t] = At(l, 1)
      /\ \A i \in 1 .. N : /\ x.owner_next[l[i]] = At(l, i + 1)
                           /\ x.owner_prev[l[i]] = At(l, i - 1)
  BY DEF Strung
<1>2. /\ N \in Nat /\ NoMutex \notin Mutex
      /\ \A i \in 1 .. N : l[i] \in Mutex /\ At(l, i) = l[i]
      /\ \A i \in Int : i \notin 1 .. N => At(l, i) = NoMutex
  BY <1>1, StrungFacts
<1>3. /\ r \in Seq(Mutex) /\ Len(r) = N - 1
      /\ \A i \in 1 .. N - 1 : r[i] = IF i < j THEN l[i] ELSE l[i + 1]
  BY <1>1, RemoveAtIndex
<1>4. \A a, b \in 1 .. N : l[a] = l[b] => a = b
  BY <1>1 DEF Distinct
<1>5. /\ m \in Mutex /\ x.owner_prev[m] = prev /\ x.owner_next[m] = next
      /\ x.owner_thread[m] = t
  BY <1>1, <1>2
<1>6. /\ y.owner_prev = Link(x.owner_prev, next, prev)
      /\ y.owner_next = Link(x.owner_next, prev, next)
      /\ y.mutex_list = IF prev # NoMutex THEN x.mutex_list
                        ELSE [x.mutex_list EXCEPT ![t] = next]
  BY <1>5 DEF Unlinked
<1> HIDE DEF r, N, m
<1>7. \A i \in Nat : At(r, i) = IF i < j THEN At(l, i) ELSE At(l, i + 1)
  <2> SUFFICES ASSUME NEW i \in Nat
               PROVE  At(r, i) = IF i < j THEN At(l, i) ELSE At(l, i + 1)
    OBVIOUS
  <2>1. j \in 1 .. N
    BY DEF N
  <2>2. CASE i \in 1 .. N - 1
    <3>1. i \in 1 .. N /\ i + 1 \in 1 .. N
      BY <1>2, <2>2
    <3> QED
      BY <1>2, <1>3, <2>2, <3>1 DEF At
  <2>3. CASE i \notin 1 .. N - 1
    <3>1. At(r, i) = NoMutex
      BY <1>3, <2>3 DEF At
    <3>2. i < j => i \notin 1 .. N
      BY <1>2, <2>1, <2>3
    <3>3. ~(i < j) => i + 1 \notin 1 .. N
      BY <1>2, <2>1, <2>3
    <3> QED
      BY <1>2, <3>1, <3>2, <3>3
  <2> QED
    BY <2>2, <2>3
<1>8. /\ x.owner_next \in [Mutex -> Mutex \cup {NoMutex}]
      /\ x.owner_prev \in [Mutex -> Mutex \cup {NoMutex}]
      /\ x.mutex_list \in [Thread -> Mutex \cup {NoMutex}] /\ j \in 1 .. N
  BY DEF Mutexes, N
<1>9. /\ \A i \in 1 .. N : prev = l[i] <=> i = j - 1
      /\ \A i \in 1 .. N : next = l[i] <=> i = j + 1
      /\ prev = NoMutex <=> j = 1
  <2>1. /\ j = 1 => prev = NoMutex
        /\ j # 1 => prev = l[j - 1] /\ j - 1 \in 1 .. N
    BY <1>2, <1>8
  <2>2. /\ j = N => next = NoMutex
        /\ j # N => next = l[j + 1] /\ j + 1 \in 1 .. N
    BY <1>2, <1>8
  <2>3. \A i \in 1 .. N : prev = l[i] <=> i = j - 1
    BY <1>2, <1>4, <1>8, <2>1
  <2>4. \A i \in 1 .. N : next = l[i] <=> i = j + 1
    BY <1>2, <1>4, <1>8, <2>2
  <2> QED
    BY <1>2, <2>1, <2>3, <2>4
<1> HIDE DEF prev, next
<1>10. \A i \in 1 .. N : /\ y.owner_next[l[i]] = IF i = j - 1 THEN next ELSE At(l, i + 1)
                         /\ y.owner_prev[l[i]] = IF i = j + 1 THEN prev ELSE At(l, i - 1)
  <2> SUFFICES ASSUME NEW i \in 1 .. N
               PROVE  /\ y.owner_next[l[i]] = IF i = j - 1 THEN next ELSE At(l, i + 1)
                      /\ y.owner_prev[l[i]] = IF i = j + 1 THEN prev ELSE At(l, i - 1)
    OBVIOUS
  <2>1. l[i] \in Mutex /\ l[i] # NoMutex
    BY <1>2
  <2> QED
    BY <1>1, <1>6, <1>8, <1>9, <2>1 DEF Link
<1>11. y.mutex_list[t] = At(r, 1)
  <2>1. At(r, 1) = IF j = 1 THEN next ELSE At(l, 1)
    BY <1>7, <1>8 DEF next
  <2> QED
    BY <1>1, <1>6, <1>8, <1>9, <2>1
<1>12. ASSUME NEW i \in 1 .. N - 1
       PROVE  y.owner_next[r[i]] = At(r, i + 1) /\ y.owner_prev[r[i]] = At(r, i - 1)
  <2>1. i \in 1 .. N /\ i + 1 \in 1 .. N /\ i + 1 \in Nat /\ i - 1 \in Nat
    BY <1>2
  <2>2. CASE i < j
    <3>1. r[i] = l[i] /\ At(r, i - 1) = At(l, i - 1) /\ i # j + 1
      BY <1>3, <1>7, <1>8, <2>1, <2>2
    <3>2. At(r, i + 1) = IF i = j - 1 THEN next ELSE At(l, i + 1)
      <4>1. At(r, i + 1) = IF i + 1 < j THEN At(l, i + 1) ELSE At(l, (i + 1) + 1)
        BY <1>7, <2>1
      <4>2. CASE i = j - 1
        <5>1. ~(i + 1 < j) /\ (i + 1) + 1 = j + 1
          BY <1>8, <4>2
        <5> QED
          BY <4>1, <4>2, <5>1 DEF next
      <4>3. CASE i # j - 1
        <5>1. i + 1 < j
          BY <1>8, <2>1, <2>2, <4>3
        <5> QED
          BY <4>1, <4>3, <5>1
      <4> QED
        BY <4>2, <4>3
    <3> QED
      BY <1>10, <2>1, <3>1, <3>2
  <2>3. CASE ~(i < j)
    <3>1. r[i] = l[i + 1] /\ At(r, i + 1) = At(l, (i + 1) + 1) /\ i + 1 # j - 1
      BY <1>3, <1>7, <1>8, <2>1, <2>3
    <3>2. At(r, i - 1) = IF i + 1 = j + 1 THEN prev ELSE At(l, (i + 1) - 1)
      <4>1. CASE i = j
        BY <1>7, <1>8, <2>1, <4>1 DEF prev
      <4>2. CASE i # j
        <5>1. (i - 1) + 1 = (i + 1) - 1 /\ ~(i - 1 < j)
          BY <1>8, <2>3, <4>2
        <5> QED
          BY <1>7, <1>8, <2>1, <4>2, <5>1
      <4> QED
        BY <4>1, <4>2
    <3> QED
      BY <1>10, <2>1, <3>1, <3>2
  <2> QED
    BY <2>2, <2>3
<1>13. Distinct(r)
  <2> SUFFICES ASSUME NEW a \in 1 .. N - 1, NEW b \in 1 .. N - 1, r[a] = r[b]
               PROVE  a = b
    BY <1>2, <1>3 DEF Distinct
  <2>1. a \in 1 .. N /\ a + 1 \in 1 .. N /\ b \in 1 .. N /\ b + 1 \in 1 .. N
    BY <1>2
  <2> QED
    BY <1>3, <1>4, <2>1
<1>14. ToSet(r) = ToSet(l) \ {m}
  <2>1. ASSUME NEW i \in 1 .. N - 1  PROVE r[i] \in ToSet(l) \ {m}
    <3>1. i \in 1 .. N /\ i + 1 \in 1 .. N
      BY <1>2
    <3>2. /\ i < j => r[i] = l[i] /\ i # j
          /\ ~(i < j) => r[i] = l[i + 1] /\ i + 1 # j
      BY <1>3
    <3> QED
      BY <1>1, <1>4, <1>8, <3>1, <3>2 DEF ToSet, m, N
  <2>2. ASSUME NEW i \in 1 .. N, i # j  PROVE l[i] \in ToSet(r)
    <3>1. CASE i < j
      <4>1. i \in 1 .. N - 1 /\ r[i] = l[i]
        BY <1>2, <1>3, <1>8, <3>1
      <4> QED
        BY <1>3, <4>1 DEF ToSet
    <3>2. CASE ~(i < j)
      <4>1. i - 1 \in 1 .. N - 1 /\ (i - 1) + 1 = i /\ ~(i - 1 < j)
        BY <1>2, <1>8, <2>2, <3>2
      <4>2. r[i - 1] = l[i]
        BY <1>3, <4>1
      <4> QED
        BY <1>3, <4>1, <4>2 DEF ToSet
    <3> QED
      BY <3>1, <3>2
  <2>3. ToSet(r) \subseteq ToSet(l) \ {m}
    BY <1>3, <2>1 DEF ToSet
  <2>4. ToSet(l) \ {m} \subseteq ToSet(r)
    <3>1. \A e \in ToSet(l) : \E i \in 1 .. N : l[i] = e
      BY <1>1, StrungFacts DEF N
    <3> QED
      BY <2>2, <3>1 DEF m
  <2> QED
    BY <2>3, <2>4
<1>15. Strung(y, t, r)
  BY <1>3, <1>11, <1>12, <1>13 DEF Strung
<1> QED
  BY <1>14, <1>15 DEF r, m

LEMMA UnholdOthers ==
  ASSUME NEW x \in Mutexes, NEW t \in Thread, NEW l, Strung(x, t, l),
         NEW j \in 1 .. Len(l), x.owner_thread[l[j]] = t, NEW y, Unlinked(x, l[j], y),
         NEW u \in Thread, u # t, NEW r, Strung(x, u, r), ToSet(l) \cap ToSet(r) = {}
  PROVE  Strung(y, u, r)
<1> DEFINE prev == At(l, j - 1)
           next == At(l, j + 1)
<1>1. /\ r \in Seq(Mutex) /\ l \in Seq(Mutex)
      /\ x.owner_next[l[j]] = next /\ x.owner_prev[l[j]] = prev
  BY DEF Strung
<1>2. y.mutex_list[u] = x.mutex_list[u]
  BY DEF Unlinked, Mutexes
<1>3. prev \in ToSet(l) \cup {NoMutex} /\ next \in ToSet(l) \cup {NoMutex}
  BY <1>1, StrungFacts DEF At
<1>4. /\ y.owner_prev = Link(x.owner_prev, next, prev)
      /\ y.owner_next = Link(x.owner_next, prev, next)
  BY <1>1 DEF Unlinked
<1> HIDE DEF prev, next
<1>5. ASSUME NEW n \in ToSet(r)
      PROVE  y.owner_next[n] = x.owner_next[n] /\ y.owner_prev[n] = x.owner_prev[n]
  <2>1. n \in Mutex /\ n # NoMutex
    BY <1>1, StrungFacts
  <2>2. n # prev /\ n # next
    BY <1>3, <2>1
  <2>3. /\ x.owner_next \in [Mutex -> Mutex \cup {NoMutex}]
        /\ x.owner_prev \in [Mutex -> Mutex \cup {NoMutex}]
    BY DEF Mutexes
  <2> QED
    BY <1>4, <2>1, <2>2, <2>3 DEF Link
<1> QED
  BY <1>2, <1>5, StrungSame

\* The walk finds the mutexes the pointers lead through.
LEMMA MutexListIs ==
  ASSUME NEW x \in Mutexes, NEW t \in Thread, NEW l, Strung(x, t, l)
  PROVE  MutexList(x, t) = l
<1> DEFINE N == Cardinality(Mutex)
           L == Len(l)
<1>1. PICK w : /\ Walk(x, t, w)
               /\ MutexList(x, t) = SubSeq(w, 1, PastPrefix(w, Mutex) - 1)
  BY Walked
<1>2. /\ w \in Seq(Mutex \cup {NoMutex}) /\ Len(w) = N /\ N \in Nat
      /\ (1 <= N => w[1] = x.mutex_list[t])
      /\ \A i \in 1 .. N - 1 :
           w[i + 1] = IF w[i] \in Mutex THEN x.owner_next[w[i]] ELSE NoMutex
  BY <1>1, MutexAssumption, FS_CardinalityType DEF Walk
<1>3. /\ l \in Seq(Mutex) /\ Distinct(l) /\ x.mutex_list[t] = At(l, 1)
      /\ \A i \in 1 .. L : x.owner_next[l[i]] = At(l, i + 1)
  BY DEF Strung
<1>4. /\ L \in Nat /\ NoMutex \notin Mutex
      /\ \A i \in 1 .. L : l[i] \in Mutex /\ At(l, i) = l[i]
      /\ \A i \in Int : i \notin 1 .. L => At(l, i) = NoMutex
  BY <1>3, StrungFacts
<1>5. L <= N
  <2>1. l \in Injection(1 .. L, Mutex)
    BY <1>3 DEF Injection, IsInjective, Distinct
  <2>2. Cardinality(1 .. L) <= N
    BY <2>1, FS_Injection, MutexAssumption
  <2>3. Cardinality(1 .. L) = L
    <3> HIDE DEF L
    <3>1. 1 \in Int /\ L \in Int
      BY <1>4
    <3>2. Cardinality(1 .. L) = IF 1 > L THEN 0 ELSE L - 1 + 1
      BY <3>1, FS_Interval
    <3> QED
      BY <1>4, <3>2
  <2> QED
    BY <2>2, <2>3
<1> HIDE DEF N, L
<1> DEFINE P == {i \in Nat : i + 1 <= N => w[i + 1] = At(l, i + 1)}
<1>6. Nat \subseteq P
  <2>1. 0 \in P
    BY <1>2, <1>3
  <2>2. ASSUME NEW i \in Nat, i \in P  PROVE i + 1 \in P
    <3> SUFFICES ASSUME (i + 1) + 1 <= N  PROVE w[(i + 1) + 1] = At(l, (i + 1) + 1)
      OBVIOUS
    <3> DEFINE j == i + 1
    <3>1. j \in 1 .. N - 1 /\ w[j] = At(l, j)
      BY <1>2, <2>2
    <3> HIDE DEF j
    <3>2. w[j + 1] = IF w[j] \in Mutex THEN x.owner_next[w[j]] ELSE NoMutex
      BY <1>2, <3>1
    <3>3. CASE j \in 1 .. L
      BY <1>3, <1>4, <3>1, <3>2, <3>3 DEF j
    <3>4. CASE j \notin 1 .. L
      <4>1. At(l, j) = NoMutex /\ At(l, j + 1) = NoMutex
        <5>1. j + 1 \notin 1 .. L /\ j \in Int /\ j + 1 \in Int
          BY <1>2, <1>4, <3>1, <3>4
        <5> QED
          BY <1>4, <3>4, <5>1
      <4> QED
        BY <1>4, <3>1, <3>2, <4>1 DEF j
    <3> QED
      BY <3>3, <3>4
  <2> HIDE DEF P
  <2> QED
    BY <2>1, <2>2, SetInduction
<1>7. \A i \in 1 .. N : w[i] = At(l, i)
  <2>1. ASSUME NEW i \in 1 .. N  PROVE w[i] = At(l, i)
    <3>1. i - 1 \in Nat /\ (i - 1) + 1 = i
      OBVIOUS
    <3>2. i - 1 \in P
      BY <1>6, <3>1
    <3> QED
      BY <1>2, <3>1, <3>2
  <2> QED
    BY <2>1
<1> HIDE DEF P
<1> DEFINE p == PastPrefix(w, Mutex)
<1>8. /\ p \in 1 .. N + 1 /\ \A i \in 1 .. p - 1 : w[i] \in Mutex
      /\ p <= N => w[p] \notin Mutex
  BY <1>2, PrefixIndex
<1> HIDE DEF p
<1>9. p = L + 1
  <2>1. ~(p <= L)
    <3> SUFFICES ASSUME p <= L  PROVE FALSE
      OBVIOUS
    <3>1. p \in 1 .. L /\ p \in 1 .. N
      BY <1>2, <1>4, <1>5, <1>8
    <3> QED
      BY <1>2, <1>4, <1>7, <1>8, <3>1
  <2>2. ~(p > L + 1)
    <3> SUFFICES ASSUME p > L + 1  PROVE FALSE
      OBVIOUS
    <3>1. L + 1 \in 1 .. p - 1 /\ L + 1 \in 1 .. N /\ L + 1 \notin 1 .. L
      BY <1>2, <1>4, <1>8
    <3>2. w[L + 1] \in Mutex /\ w[L + 1] = At(l, L + 1) /\ At(l, L + 1) = NoMutex
      BY <1>4, <1>7, <1>8, <3>1
    <3> QED
      BY <1>4, <3>2
  <2> QED
    BY <1>2, <1>4, <1>8, <2>1, <2>2
<1>10. MutexList(x, t) = SubSeq(w, 1, L)
  BY <1>1, <1>4, <1>9 DEF p
<1> DEFINE s == SubSeq(w, 1, L)
<1>11. s \in Seq(Mutex \cup {NoMutex}) /\ Len(s) = L /\ \A i \in 1 .. L : s[i] = w[i]
  <2>1. 1 \in 1 .. Len(w) + 1 /\ L \in 0 .. Len(w)
    BY <1>2, <1>4, <1>5
  <2> QED
    BY <1>2, <1>4, <2>1, SubSeqProperties
<1> HIDE DEF s
<1>12. \A i \in 1 .. L : s[i] = l[i]
  BY <1>2, <1>4, <1>5, <1>7, <1>11
<1>13. s = l
  <2>1. /\ s \in Seq(Mutex \cup {NoMutex}) /\ l \in Seq(Mutex \cup {NoMutex})
        /\ Len(s) = Len(l)
    BY <1>3, <1>11 DEF L
  <2> QED
    BY <1>12, <2>1, SeqEqual DEF L
<1> QED
  BY <1>10, <1>13 DEF s
---------------------------------------------------------------------------
\* The end of an owner

\* Between two mutexes of the list: every thread is in its place, every locked
\* mutex has an owner, and nobody but the threads woken has changed since q.
Leaves(q, s, x, T, low) ==
  /\ Queues(s, x, T, low) /\ x \in Mutexes /\ \A m \in Mutex : Held(x, m)
  /\ SameRun(q, s) /\ s.priority = q.priority
  /\ ToSet(q.ready) \subseteq ToSet(s.ready)
  /\ Wakened(q, s, T)

\* One mutex of the list.
Pass(l, m) ==
  IF m \notin Robust THEN l
  ELSE [s |-> WakeFirst(l.s, l.x, m), x |-> HandOver([l.x EXCEPT !.lock[m] = 0], m)]

LEMMA QueuesSame ==
  ASSUME NEW q, NEW x, NEW T, NEW low, Queues(q, x, T, low),
         NEW y, y.thread_list = x.thread_list
  PROVE  Queues(q, y, T, low)
BY DEF Queues

\* A mutex is handed over: its first waiting thread wakes up and owns it.
LEMMA PassKeeps ==
  ASSUME NEW q, NEW s, NEW x, NEW T, NEW low, Leaves(q, s, x, T, low), NEW m \in Mutex
  PROVE  LET y == HandOver([x EXCEPT !.lock[m] = 0], m)
         IN  Leaves(q, WakeFirst(s, x, m), y, T, low)
<1> DEFINE r == WakeFirst(s, x, m)
           z == [x EXCEPT !.lock[m] = 0]
           y == HandOver(z, m)
           l == Popped(x, m)
<1>1. Queues(s, x, T, low) /\ x \in Mutexes /\ \A n \in Mutex : Held(x, n)
  BY DEF Leaves
<1> HIDE DEF l, y, z
<1>2. /\ Queues(r, [x EXCEPT !.thread_list = Popped(x, m)], T, low)
      /\ SameRun(s, r) /\ r.priority = s.priority
      /\ ToSet(s.ready) \subseteq ToSet(r.ready)
      /\ Wakened(s, r, T)
  <2>1. x \in Mutexes /\ Queues(s, x, T, low)
    BY <1>1
  <2> QED
    BY <2>1, WakeFirstQueues
<1>3. 0 \in 0 .. LockLimit
  BY MutexAssumption
<1>4. /\ z \in Mutexes /\ z.lock = [x.lock EXCEPT ![m] = 0] /\ z.id = x.id
      /\ z.owner_thread = x.owner_thread /\ z.thread_list = x.thread_list
  BY <1>1, <1>3, LockType DEF z
<1>5. z.lock[m] = 0 /\ \A n \in Mutex : n # m => z.lock[n] = x.lock[n]
  BY <1>1, <1>4 DEF Mutexes
<1>6. /\ z.thread_list[m] # <<>> => z.id[m]
      /\ \A n \in Mutex : n # m => Held(z, n)
  BY <1>1, <1>4, <1>5 DEF Held
<1>7. Distinct(z.thread_list[m])
  BY <1>1, <1>4 DEF Queues, Waiting
<1>8. /\ y \in Mutexes /\ y.thread_list = Popped(z, m)
      /\ \A n \in Mutex : Held(y, n)
  BY <1>4, <1>5, <1>6, <1>7, HandOverHeld DEF y
<1> HIDE DEF r
<1>9. y.thread_list = l /\ l \in [Mutex -> Seq(Thread)]
  BY <1>4, <1>8 DEF Popped, Mutexes, l
<1>10. [x EXCEPT !.thread_list = l].thread_list = l
  BY <1>1, <1>9, ListsType
<1>11. Queues(r, y, T, low)
  BY <1>2, <1>9, <1>10, QueuesSame DEF l
<1>12. Wakened(q, r, T)
  BY <1>2, WakenedAgain DEF Leaves
<1> QED
  BY <1>2, <1>8, <1>11, <1>12 DEF Leaves, SameRun, y, r, z

\* The loop over the list: f[n] is what its first n mutexes leave.
Loop(q, x, list, f) ==
  /\ f[0] = [s |-> q, x |-> x]
  /\ \A n \in Nat : n < Len(list) => f[n + 1] = Pass(f[n], list[n + 1])

LEMMA BequeathLoops ==
  ASSUME NEW q, NEW x, NEW T, NEW low, Leaves(q, q, x, T, low), NEW t \in Thread
  PROVE  \E f : /\ Loop(q, x, MutexList(x, t), f)
                /\ Bequeath(q, x, t) = f[Len(MutexList(x, t))]
                /\ \A n \in Nat : Leaves(q, f[n].s, f[n].x, T, low)
<1> DEFINE list == MutexList(x, t)
           N == Len(list)
           K == [state : [Thread -> ThreadState], priority : [Thread -> Nat],
                 delay : [Thread -> Int \cup {Forever}],
                 ready : Seq(Thread), delay_list : Seq(Thread), wait_list : Seq(Thread),
                 curr : Thread, next : Thread, robin : Thread \cup {NoThread},
                 kernel : {"Running", "Locked"}]
           S == {l \in [s : K, x : Mutexes] : Leaves(q, l.s, l.x, T, low)}
           a == [s |-> q, x |-> x]
           Turn(l, n) == IF n \in 1 .. N THEN Pass(l, list[n]) ELSE l
           step == [n \in Nat |-> [l \in S |-> Turn(l, n)]]
           Goes(g) == g = [n \in 0 .. N |->
                             IF n = 0 THEN a
                             ELSE IF list[n] \notin Robust THEN g[n - 1]
                             ELSE [s |-> WakeFirst(g[n - 1].s, g[n - 1].x, list[n]),
                                   x |-> HandOver([g[n - 1].x EXCEPT !.lock[list[n]] = 0],
                                                  list[n])]]
           left == CHOOSE g : Goes(g)
<1>1. x \in Mutexes /\ list \in Seq(Mutex) /\ N \in Nat /\ \A n \in 1 .. N : list[n] \in Mutex
  BY MutexListType DEF Leaves
<1>2. ASSUME NEW s, NEW y, Leaves(q, s, y, T, low)  PROVE [s |-> s, x |-> y] \in S
  BY <1>2 DEF Leaves, Queues, Runs, Typed
<1>3. ASSUME NEW l \in S, NEW n \in Nat  PROVE Turn(l, n) \in S
  <2>1. CASE n \notin 1 .. N \/ list[n] \notin Robust
    BY <1>3, <2>1 DEF Pass
  <2>2. CASE n \in 1 .. N /\ list[n] \in Robust
    <3> DEFINE m == list[n]
               r == WakeFirst(l.s, l.x, m)
               y == HandOver([l.x EXCEPT !.lock[m] = 0], m)
    <3>1. m \in Mutex /\ Leaves(q, l.s, l.x, T, low)
      BY <1>1, <1>3, <2>2
    <3>2. Turn(l, n) = [s |-> r, x |-> y]
      BY <2>2 DEF Pass
    <3> HIDE DEF m
    <3>3. Leaves(q, r, y, T, low)
      BY <3>1, PassKeeps
    <3> HIDE DEF r, y, S, Turn
    <3> QED
      BY <1>2, <3>2, <3>3
  <2> QED
    BY <2>1, <2>2
<1>4. a \in S
  BY <1>2
<1>5. \A l \in S : Leaves(q, l.s, l.x, T, low)
  OBVIOUS
<1> HIDE DEF list, N, S
<1>6. PICK f \in [Nat -> S] : Recurs(f, a, step)
  <2> HIDE DEF Turn
  <2>1. step \in [Nat -> [S -> S]]
    BY <1>3
  <2> HIDE DEF step, a
  <2> QED
    BY <1>4, <2>1, Recursion
<1>7. f[0] = a /\ \A n \in Nat : f[n + 1] = Turn(f[n], n + 1) /\ f[n] \in S
  <2> HIDE DEF Turn
  <2>1. ASSUME NEW n \in Nat  PROVE f[n + 1] = Turn(f[n], n + 1)
    <3>1. n + 1 \in Nat /\ f[n] \in S
      OBVIOUS
    <3>2. f[n + 1] = step[n + 1][f[n]]
      <4> HIDE DEF step
      <4> QED
        BY <1>6 DEF Recurs
    <3> QED
      BY <3>1, <3>2
  <2> QED
    BY <1>6, <2>1 DEF Recurs
<1>8. ASSUME NEW n \in Nat, n < N  PROVE f[n + 1] = Pass(f[n], list[n + 1])
  BY <1>1, <1>7, <1>8
<1>9. Goes([n \in 0 .. N |-> f[n]])
  <2> DEFINE g == [n \in 0 .. N |-> f[n]]
  <2>1. ASSUME NEW n \in 0 .. N
        PROVE  g[n] = IF n = 0 THEN a
                      ELSE IF list[n] \notin Robust THEN g[n - 1]
                      ELSE [s |-> WakeFirst(g[n - 1].s, g[n - 1].x, list[n]),
                            x |-> HandOver([g[n - 1].x EXCEPT !.lock[list[n]] = 0], list[n])]
    <3>1. CASE n = 0
      <4> HIDE DEF a
      <4> QED
        BY <1>1, <1>7, <3>1
    <3>2. CASE n # 0
      <4> DEFINE i == n - 1
      <4>1. i \in Nat /\ i + 1 = n /\ i \in 0 .. N /\ i < N
        BY <1>1, <3>2
      <4>2. g[n] = f[n] /\ g[i] = f[i]
        BY <4>1
      <4> HIDE DEF i, g
      <4>3. g[n] = Pass(g[i], list[n])
        BY <1>8, <4>1, <4>2
      <4> QED
        BY <3>2, <4>3 DEF Pass, i
    <3> QED
      BY <3>1, <3>2
  <2> HIDE DEF g, a
  <2>2. g = [n \in 0 .. N |-> g[n]]
    BY DEF g
  <2>3. Goes(g)
    BY <2>1, <2>2
  <2> QED
    BY <2>3 DEF g
<1>10. Goes(left)
  <2> HIDE DEF Goes
  <2> QED
    BY <1>9
<1>11. Bequeath(q, x, t) = left[N]
  BY DEF Bequeath, N, list
<1> HIDE DEF left, a, Turn, step
<1>12. left[0] = a /\ \A n \in 1 .. N : left[n] = Pass(left[n - 1], list[n])
  <2>1. \A n \in 0 .. N : left[n] =
          IF n = 0 THEN a
          ELSE IF list[n] \notin Robust THEN left[n - 1]
          ELSE [s |-> WakeFirst(left[n - 1].s, left[n - 1].x, list[n]),
                x |-> HandOver([left[n - 1].x EXCEPT !.lock[list[n]] = 0], list[n])]
    BY <1>10
  <2> HIDE DEF Goes
  <2>2. 0 \in 0 .. N /\ \A n \in 1 .. N : n \in 0 .. N /\ n # 0
    BY <1>1
  <2>3. ASSUME NEW n \in 1 .. N  PROVE left[n] = Pass(left[n - 1], list[n])
    BY <2>1, <2>2 DEF Pass
  <2> QED
    BY <2>1, <2>2, <2>3
<1> HIDE DEF Goes
<1> DEFINE P == {n \in Nat : n <= N => left[n] = f[n]}
<1>13. Nat \subseteq P
  <2>1. 0 \in P
    BY <1>7, <1>12
  <2>2. ASSUME NEW n \in Nat, n \in P  PROVE n + 1 \in P
    <3>1. CASE n + 1 <= N
      <4>1. n <= N /\ n < N /\ n + 1 \in 1 .. N /\ (n + 1) - 1 = n
        BY <1>1, <3>1
      <4>2. left[n + 1] = Pass(left[n], list[n + 1]) /\ left[n] = f[n]
        BY <1>12, <2>2, <4>1
      <4> QED
        BY <1>8, <4>1, <4>2
    <3>2. CASE ~(n + 1 <= N)
      BY <3>2
    <3> QED
      BY <3>1, <3>2
  <2> HIDE DEF P
  <2> QED
    BY <2>1, <2>2, SetInduction
<1>14. left[N] = f[N]
  BY <1>1, <1>13
<1>15. Loop(q, x, list, f)
  BY <1>7, <1>8 DEF Loop, a, N
<1> QED
  BY <1>5, <1>7, <1>11, <1>14, <1>15 DEF list, N

\* The whole loop keeps what each turn of it keeps.
LEMMA BequeathKeeps ==
  ASSUME NEW q, NEW x, NEW T, NEW low, Leaves(q, q, x, T, low), NEW t \in Thread
  PROVE  Leaves(q, Bequeath(q, x, t).s, Bequeath(q, x, t).x, T, low)
<1>1. PICK f : /\ Bequeath(q, x, t) = f[Len(MutexList(x, t))]
               /\ \A n \in Nat : Leaves(q, f[n].s, f[n].x, T, low)
  BY BequeathLoops
<1>2. x \in Mutexes
  BY DEF Leaves
<1>3. Len(MutexList(x, t)) \in Nat
  BY <1>2, MutexListType
<1> QED
  BY <1>1, <1>3

---------------------------------------------------------------------------
\* The services of mutexes

LEMMA Now ==
  ASSUME QueuesInv, handler = "thread"
  PROVE  /\ Sorted(k, 1) /\ Runs(k, {}) /\ k.curr = k.next /\ Queues(k, mx, {}, 1)
         /\ mx \in Mutexes /\ \A m \in Mutex : Held(mx, m)
         /\ Typed(k) /\ "priority" \in DOMAIN k /\ k.priority \in [Thread -> Nat]
         /\ k.state \in [Thread -> ThreadState]
         /\ k.curr \in Thread /\ k.state[k.curr] = "Running"
         /\ k.curr \notin ToSet(k.delay_list)
         /\ Waiting(Mutex, MutexStates, k, mx.thread_list, AnyMutex)
         /\ \A t \in ToSet(k.delay_list) : k.state[t] \in BlockedStates
         /\ \A m \in Mutex : mx.thread_list[m] \in Seq(Thread) /\ Distinct(mx.thread_list[m])
         /\ Able(k) /\ Top(k)
<1>1. /\ Queues(k, mx, {}, 1) /\ Sorted(k, 1) /\ Runs(k, {}) /\ k.curr = k.next
      /\ Able(k) /\ Top(k)
  BY DEF QueuesInv, Queues
<1>2. mx \in Mutexes /\ \A m \in Mutex : Held(mx, m)
  BY DEF QueuesInv
<1>3. \A m \in Mutex : mx.thread_list[m] \in Seq(Thread) /\ Distinct(mx.thread_list[m])
  BY <1>1 DEF Queues, Waiting
<1> QED
  BY <1>1, <1>2, <1>3, RunningWaitsNot

\* The end of a handler.
LEMMA ReturnTop ==
  ASSUME NEW q, Runs(q, {}), Top(q)
  PROVE  Top(Return(q)) /\ Able(Return(q))
<1> DEFINE r == Return(q)
<1>1. r.state = q.state /\ r.priority = q.priority
  BY ReturnRuns
<1>2. r.kernel = q.kernel /\ r.ready = q.ready /\ r.next = q.next
  BY DEF Return, Runs, Typed
<1> HIDE DEF r
<1>3. Able(r)
  BY <1>1, <1>2 DEF Top, Able
<1>4. "Lock" \notin Habits => Tops(r)
  BY <1>1, <1>2 DEF Top, Tops, Outranked
<1> QED
  BY <1>3, <1>4 DEF Top, r

\* The end of a service that keeps everything in its place.
LEMMA ServiceKeeps ==
  ASSUME NEW after, NEW x \in Mutexes, Service(after, x), priority_base' \in [Thread -> Nat],
         Runs(after, {}), Sorted(after, 1), Top(after),
         Waiting(Mutex, MutexStates, after, x.thread_list, AnyMutex),
         \A m \in Mutex : Held(x, m)
  PROVE  QueuesInv' /\ k'.state = after.state
<1>1. k' = Return(after) /\ mx' = x /\ handler' = "thread"
  BY DEF Service
<1>2. /\ Runs(k', {}) /\ k'.curr = k'.next /\ k'.state = after.state
      /\ k'.priority = after.priority
  BY <1>1, ReturnRuns
<1>3. Sorted(k', 1)
  BY <1>1, ReturnSorted
<1>4. Sorted(k', 0)
  BY <1>3, Lower
<1>5. Waiting(Mutex, MutexStates, k', mx'.thread_list, AnyMutex)
  BY <1>1, <1>2, WaitsSame
<1>6. Typed(k')
  BY <1>2 DEF Runs
<1>7. Queues(k', mx', {}, 0)
  BY <1>2, <1>4, <1>5, <1>6, GoneNobody DEF Queues
<1>8. Top(k') /\ Able(k')
  BY <1>1, ReturnTop
<1> QED
  BY <1>1, <1>2, <1>3, <1>7, <1>8 DEF QueuesInv

\* A service that leaves the threads alone.
LEMMA LocksKeep ==
  ASSUME QueuesInv, NEW x \in Mutexes, Service(k, x), UNCHANGED priority_base,
         x.thread_list = mx.thread_list, \A m \in Mutex : Held(x, m)
  PROVE  QueuesInv' /\ Lives(k, k', {})
<1>1. handler = "thread" /\ priority_base' \in [Thread -> Nat]
  BY DEF Service, QueuesInv
<1>2. Top(k) /\ Sorted(k, 1) /\ Runs(k, {}) /\ Waiting(Mutex, MutexStates, k, x.thread_list, AnyMutex)
  BY <1>1, Now
<1> QED
  BY <1>1, <1>2, ServiceKeeps DEF Lives

LEMMA MutexNewKeeps ==
  ASSUME QueuesInv, NEW m \in Mutex, MutexNew(m)
  PROVE  QueuesInv' /\ Lives(k, k', {})
<1> DEFINE l == [mx.thread_list EXCEPT ![m] = <<>>]
           x == [mx EXCEPT !.id[m] = TRUE, !.lock[m] = 0, !.owner_thread[m] = NoThread,
                           !.owner_prev[m] = NoMutex, !.owner_next[m] = NoMutex,
                           !.thread_list[m] = <<>>]
<1>1. ~mx.id[m] /\ Service(k, x) /\ UNCHANGED priority_base /\ mx \in Mutexes
  BY DEF MutexNew, QueuesInv
<1>2. mx.thread_list[m] = <<>>
  BY <1>1 DEF QueuesInv, Held
<1>3. l = mx.thread_list
  BY <1>1, <1>2 DEF Mutexes
<1>4. 0 \in 0 .. LockLimit /\ <<>> \in Seq(Thread)
  BY MutexAssumption
<1>5. /\ x \in Mutexes /\ x.thread_list = l
      /\ x.lock = [mx.lock EXCEPT ![m] = 0] /\ x.id = [mx.id EXCEPT ![m] = TRUE]
      /\ x.owner_thread = [mx.owner_thread EXCEPT ![m] = NoThread]
  BY <1>1, <1>4 DEF Mutexes
<1> HIDE DEF l, x
<1>6. ASSUME NEW n \in Mutex  PROVE Held(x, n)
  <2>1. Held(mx, n)
    BY DEF QueuesInv
  <2>2. CASE n = m
    BY <1>1, <1>2, <1>3, <1>5, <2>2 DEF Held, Mutexes
  <2>3. CASE n # m
    BY <1>1, <1>3, <1>5, <2>1, <2>3 DEF Held, Mutexes
  <2> QED
    BY <2>2, <2>3
<1> QED
  BY <1>1, <1>3, <1>5, <1>6, LocksKeep

LEMMA AcquireFreeKeeps ==
  ASSUME QueuesInv, NEW m \in Mutex, MutexAcquireFree(m)
  PROVE  QueuesInv' /\ Lives(k, k', {})
<1> DEFINE x == Hold(mx, m, k.curr)
<1>1. /\ mx.id[m] /\ Service(k, x) /\ UNCHANGED priority_base /\ handler = "thread"
  BY DEF MutexAcquireFree, Service
<1>2. mx \in Mutexes /\ k.curr \in Thread
  BY <1>1, Now
<1>3. x \in Mutexes /\ Taken(mx, m, k.curr, x)
  BY <1>2, HoldType
<1> HIDE DEF x
<1>4. ASSUME NEW n \in Mutex  PROVE Held(x, n)
  <2>1. Held(mx, n)
    BY DEF QueuesInv
  <2> QED
    BY <1>1, <1>2, <1>3, <2>1 DEF Held, Taken, Mutexes
<1>5. x.thread_list = mx.thread_list
  BY <1>3 DEF Taken
<1> QED
  BY <1>1, <1>3, <1>4, <1>5, LocksKeep

\* The counter of a recursive mutex.
LEMMA CountKeeps ==
  ASSUME QueuesInv, NEW m \in Mutex, MutexAcquireAgain(m) \/ MutexReleaseOnce(m)
  PROVE  QueuesInv' /\ Lives(k, k', {})
<1>1. mx \in Mutexes /\ mx.lock[m] \in 0 .. LockLimit /\ LockLimit \in Nat
  BY MutexAssumption DEF QueuesInv, Mutexes
<1>2. PICK n \in 1 .. LockLimit : /\ Service(k, [mx EXCEPT !.lock[m] = n])
                                  /\ UNCHANGED priority_base /\ mx.lock[m] # 0
  <2>1. CASE MutexAcquireAgain(m)
    <3>1. mx.lock[m] + 1 \in 1 .. LockLimit
      BY <1>1, <2>1 DEF MutexAcquireAgain
    <3> QED
      BY <2>1, <3>1 DEF MutexAcquireAgain
  <2>2. CASE MutexReleaseOnce(m)
    <3>1. mx.lock[m] - 1 \in 1 .. LockLimit
      BY <1>1, <2>2 DEF MutexReleaseOnce
    <3> QED
      BY <1>1, <2>2, <3>1 DEF MutexReleaseOnce
  <2> QED
    BY <2>1, <2>2
<1> DEFINE x == [mx EXCEPT !.lock[m] = n]
<1>3. n \in 0 .. LockLimit /\ n # 0
  OBVIOUS
<1>4. /\ x \in Mutexes /\ x.lock = [mx.lock EXCEPT ![m] = n] /\ x.id = mx.id
      /\ x.owner_thread = mx.owner_thread /\ x.thread_list = mx.thread_list
  BY <1>1, <1>3, LockType
<1>5. Service(k, x)
  BY <1>2
<1> HIDE DEF x
<1>6. ASSUME NEW i \in Mutex  PROVE Held(x, i)
  <2>1. Held(mx, i)
    BY DEF QueuesInv
  <2> QED
    BY <1>1, <1>2, <1>3, <1>4, <2>1 DEF Held, Mutexes
<1> QED
  BY <1>2, <1>4, <1>5, <1>6, LocksKeep

\* Dispatching at the end of a service.
LEMMA DispatchKeeps ==
  ASSUME NEW q, NEW x, Queues(q, x, {}, 1), Able(q)
  PROVE  LET r == Dispatch(q)
         IN  /\ Top(r) /\ Runs(r, {}) /\ Sorted(r, 1) /\ Frame(q, r, {}) /\ r.priority = q.priority
             /\ Waiting(Mutex, MutexStates, r, x.thread_list, AnyMutex)
<1> DEFINE r == Dispatch(q)
<1>1. /\ Runs(q, {}) /\ q.curr = q.next /\ Sorted(q, 1) /\ "priority" \in DOMAIN q
      /\ Waiting(Mutex, MutexStates, q, x.thread_list, AnyMutex)
  BY RunningWaitsNot DEF Queues
<1>2. Runs(r, {}) /\ Frame(q, r, {}) /\ r.kernel = q.kernel
  BY <1>1, DispatchRuns
<1>3. Sorted(r, 1)
  BY <1>1, DispatchSorted
<1>4. r.priority = q.priority
  BY <1>1, DispatchPriorities DEF Prioritised
<1>6. q.kernel = "Running" => Tops(r)
  BY <1>1, DispatchTops
<1> HIDE DEF r
<1>5. Waiting(Mutex, MutexStates, r, x.thread_list, AnyMutex)
  BY <1>1, <1>2, <1>4, WaitsStand
<1>7. Able(r)
  BY <1>2, Idle \notin {}, FrameAble
<1> QED
  BY <1>2, <1>3, <1>4, <1>5, <1>6, <1>7 DEF r, Top, Able

\* The owner is raised, or not, before the running thread waits.
LEMMA AcquireRaises ==
  ASSUME QueuesInv, handler = "thread", NEW m \in Mutex, mx.lock[m] # 0
  PROVE  LET owner  == mx.owner_thread[m]
             raised == IF m \in PrioInherit /\ k.priority[owner] < k.priority[k.curr]
                       THEN Reprioritise(k, owner, k.priority[k.curr])
                       ELSE k
             x      == Requeue(k, raised, mx, owner)
         IN  Moved(k, mx, raised, x, 1)
<1> DEFINE owner  == mx.owner_thread[m]
           p      == k.priority[k.curr]
           raised == Reprioritise(k, owner, p)
<1>1. /\ Queues(k, mx, {}, 1) /\ mx \in Mutexes /\ k.curr \in Thread
      /\ k.priority \in [Thread -> Nat] /\ Held(mx, m)
  BY Now
<1>2. owner \in Thread /\ p \in Nat
  BY <1>1 DEF Held
<1>3. CASE m \in PrioInherit /\ k.priority[owner] < p
  <2> HIDE DEF owner, p
  <2> DEFINE r == Reprioritise(k, owner, p)
             y == Requeue(k, r, mx, owner)
  <2>1. mx \in Mutexes /\ Queues(k, mx, {}, 1)
    BY <1>1
  <2>2. Moved(k, mx, r, y, 1)
    BY <1>2, <2>1, ReprioritiseQueues
  <2> HIDE DEF r, y
  <2>3. m \in PrioInherit /\ k.priority[mx.owner_thread[m]] < k.priority[k.curr]
    BY <1>3 DEF owner, p
  <2> QED
    BY <2>2, <2>3 DEF r, y, owner, p
<1>4. CASE ~(m \in PrioInherit /\ k.priority[owner] < p)
  <2>1. Requeue(k, k, mx, owner) = mx
    BY DEF Requeue
  <2> QED
    BY <1>1, <1>4, <2>1 DEF Moved, SameRun, SameLocks, SameWaiters
<1> QED
  BY <1>3, <1>4

\* Held mutexes with other threads waiting for them, of which there are some only
\* where there were some before.
LEMMA HeldSame ==
  ASSUME NEW x, NEW y, SameLocks(x, y), \A m \in Mutex : Held(x, m),
         \A m \in Mutex : y.thread_list[m] # <<>> => x.thread_list[m] # <<>>
  PROVE  \A m \in Mutex : Held(y, m)
BY DEF Held, SameLocks

LEMMA SameWaitersEmpty ==
  ASSUME NEW x \in Mutexes, NEW y \in Mutexes, SameWaiters(x.thread_list, y.thread_list)
  PROVE  \A m \in Mutex : y.thread_list[m] # <<>> <=> x.thread_list[m] # <<>>
<1> SUFFICES ASSUME NEW m \in Mutex
             PROVE  y.thread_list[m] # <<>> <=> x.thread_list[m] # <<>>
  OBVIOUS
<1>1. x.thread_list[m] \in Seq(Thread) /\ y.thread_list[m] \in Seq(Thread)
  BY DEF Mutexes
<1>2. Len(y.thread_list[m]) = Len(x.thread_list[m])
  BY DEF SameWaiters
<1> QED
  BY <1>1, <1>2, EmptySeq

LEMMA AcquireWaitKeeps ==
  ASSUME QueuesInv, NEW m \in Mutex, NEW timeout \in Timeout, MutexAcquireWait(m, timeout)
  PROVE  QueuesInv' /\ Lives(k, k', {})
<1> DEFINE owner  == mx.owner_thread[m]
           raised == IF m \in PrioInherit /\ k.priority[owner] < k.priority[k.curr]
                     THEN Reprioritise(k, owner, k.priority[k.curr])
                     ELSE k
           x      == Requeue(k, raised, mx, owner)
           after  == WaitEnter(raised, "WaitingMutex", timeout)
           w      == x.thread_list
           l      == [w EXCEPT ![m] = ListPut(raised, @, k.curr)]
           y      == [x EXCEPT !.thread_list = l]
<1>1. /\ mx.id[m] /\ mx.lock[m] # 0 /\ UNCHANGED priority_base /\ handler = "thread"
      /\ IF CanSwitch(k) THEN Service(after, y) ELSE Service(raised, x)
  BY DEF MutexAcquireWait, Service
<1>2. /\ Queues(raised, x, {}, 1) /\ SameRun(k, raised)
      /\ ToSet(raised.ready) = ToSet(k.ready)
      /\ x \in Mutexes /\ SameLocks(mx, x)
      /\ SameWaiters(mx.thread_list, x.thread_list)
      /\ raised.state = k.state
  BY <1>1, AcquireRaises DEF Moved
<1> HIDE DEF raised, x
<1>10. Able(raised) /\ k.curr # Idle
  BY <1>1, <1>2, Now DEF Able, SameRun, Service
<1>3. /\ Runs(raised, {}) /\ Sorted(raised, 1) /\ raised.curr = raised.next
      /\ Typed(raised) /\ "priority" \in DOMAIN raised
      /\ raised.curr \in Thread /\ raised.state[raised.curr] = "Running"
      /\ raised.curr \notin ToSet(raised.delay_list)
      /\ Waiting(Mutex, MutexStates, raised, w, AnyMutex)
  BY <1>2, RunningWaitsNot DEF Queues
<1>4. priority_base' \in [Thread -> Nat] /\ \A n \in Mutex : Held(mx, n)
  BY <1>1 DEF QueuesInv
<1>5. mx \in Mutexes
  BY DEF QueuesInv
<1>6. \A n \in Mutex : w[n] # <<>> => mx.thread_list[n] # <<>>
  BY <1>2, <1>5, SameWaitersEmpty
<1>7. \A n \in Mutex : Held(x, n)
  BY <1>2, <1>4, <1>6, HeldSame
<1>8. CASE ~CanSwitch(k)
  <2>1. "Lock" \notin Habits => Tops(raised)
    <3>1. "Lock" \notin Habits => k.ready = <<>>
      BY <1>1, <1>8, Now DEF Able, CanSwitch
    <3> QED
      BY <1>2, <3>1, EmptyWaits DEF Tops, Outranked
  <2>2. Top(raised) /\ Service(raised, x)
    BY <1>1, <1>8, <1>10, <2>1 DEF Top
  <2> QED
    BY <1>2, <1>3, <1>4, <1>7, <2>2, ServiceKeeps DEF Lives
<1>9. CASE CanSwitch(k)
  <2>1. raised.ready # <<>> /\ raised.curr = k.curr
    <3>1. k.ready # <<>> /\ k.ready \in Seq(Thread) /\ raised.ready \in Seq(Thread)
      BY <1>1, <1>3, <1>9, Now, RankTypes DEF CanSwitch
    <3>2. Head(k.ready) \in ToSet(k.ready)
      BY <3>1 DEF ToSet
    <3> QED
      BY <1>2, <3>2, EmptyWaits DEF SameRun
  <2>2. /\ timeout \in Int \cup {Forever} /\ timeout \in Nat \cup {Forever}
        /\ (timeout = Forever \/ timeout >= 1) /\ 1 \in Nat
    BY MutexAssumption
  <2>3. /\ "WaitingMutex" \in BlockedStates /\ "WaitingMutex" \in ThreadState
        /\ "WaitingMutex" \in MutexStates /\ "Running" \notin MutexStates
    BY WaitsNowhere DEF ThreadState
  <2>4. /\ Runs(after, {}) /\ Frame(raised, after, {k.curr})
        /\ after.state[k.curr] = "WaitingMutex"
    <3>1. Runs(raised, {}) /\ raised.curr = raised.next /\ raised.ready # <<>>
      BY <1>3, <2>1
    <3>2. /\ Runs(after, {}) /\ Frame(raised, after, {raised.curr})
          /\ after.state[raised.curr] = "WaitingMutex"
      BY <2>2, <2>3, <3>1, WaitEnterRuns
    <3> QED
      BY <2>1, <3>2
  <2>5. Sorted(after, 1)
    BY <1>3, <2>1, <2>2, <2>3, WaitEnterSorted
  <2>6. after.priority = raised.priority
    BY <1>3, WaitPriorities DEF Prioritised
  <2>14. Tops(after) /\ after.kernel = raised.kernel
    <3>1. Sorted(raised, 1) /\ raised.curr \notin ToSet(raised.delay_list) /\ Typed(raised)
      BY <1>3
    <3>2. Tops(after)
      BY ONLY <2>1, <2>2, <2>3, <3>1, WaitEnterTops
    <3>3. after.kernel = raised.kernel
      BY ONLY <3>1, KernelStays
    <3> QED
      BY <3>2, <3>3
  <2> HIDE DEF after
  <2>15. Top(after)
    <3>1. Able(after)
      BY <1>10, <2>4, <2>14, FrameAble
    <3> QED
      BY <2>14, <3>1 DEF Top
  <2>7. AnyMutex[m] /\ k.curr \in Thread /\ raised.state[k.curr] \notin MutexStates
    BY <1>3, <2>1, <2>3 DEF AnyMutex
  <2>8. Waiting(Mutex, MutexStates, after, l, AnyMutex)
    <3> HIDE DEF w
    <3> QED
      BY <1>3, <2>3, <2>4, <2>6, <2>7, WaitsJoin
  <2>9. l \in [Mutex -> Seq(Thread)] /\ w \in [Mutex -> Seq(Thread)]
    BY <1>3, <2>8 DEF Waiting
  <2>10. \A n \in Mutex : n # m => l[n] = w[n]
    BY <2>9
  <2> HIDE DEF l
  <2>11. y \in Mutexes /\ SameLocks(x, y) /\ y.thread_list = l
    BY <1>2, <2>9, ListsType
  <2> HIDE DEF y, w
  <2>12. ASSUME NEW n \in Mutex  PROVE Held(y, n)
    <3>1. Held(x, n) /\ x.lock[m] # 0 /\ x.id[m]
      BY <1>1, <1>2, <1>7 DEF SameLocks
    <3>2. CASE n = m
      BY <2>11, <3>1, <3>2 DEF Held, SameLocks
    <3>3. CASE n # m
      BY <2>10, <2>11, <3>1, <3>3 DEF Held, SameLocks, w
    <3> QED
      BY <3>2, <3>3
  <2>13. Service(after, y)
    BY <1>1, <1>9
  <2>16. Lives(k, after, {})
    <3>1. Lives(raised, after, {})
      BY <1>3, <2>1, <2>4, FrameLives
    <3> QED
      BY <1>2, <3>1 DEF Lives
  <2>17. QueuesInv' /\ k'.state = after.state
    BY <1>4, <2>4, <2>5, <2>8, <2>11, <2>12, <2>13, <2>15, ServiceKeeps
  <2> QED
    BY <2>16, <2>17 DEF Lives
<1> QED
  BY <1>8, <1>9


\* The running thread releases m: it falls back to what it still owes, and the
\* first thread waiting for m wakes up and owns it.
LEMMA ReleaseKeeps ==
  ASSUME QueuesInv, NEW m \in Mutex, MutexRelease(m)
  PROVE  QueuesInv' /\ Lives(k, k', {})
<1> DEFINE z       == [mx EXCEPT !.lock[m] = 0]
           x       == Unhold(z, m)
           owed    == Owed(k, x, k.curr, NoThread)
           lowered == Reprioritise(k, k.curr, owed)
           woken   == WakeFirst(lowered, x, m)
           y       == HandOver(x, m)
           after   == Dispatch(woken)
<1>1. /\ mx.id[m] /\ Service(after, y) /\ UNCHANGED priority_base /\ handler = "thread"
  BY DEF MutexRelease, Service
<1>2. /\ mx \in Mutexes /\ k.curr \in Thread /\ k.priority \in [Thread -> Nat]
      /\ Queues(k, mx, {}, 1) /\ priority_base \in [Thread -> Nat]
      /\ \A n \in Mutex : /\ Held(mx, n) /\ Distinct(mx.thread_list[n])
  BY <1>1, Now DEF QueuesInv
<1>3. /\ z \in Mutexes /\ z.lock = [mx.lock EXCEPT ![m] = 0] /\ z.id = mx.id
      /\ z.owner_thread = mx.owner_thread /\ z.thread_list = mx.thread_list
  <2>1. 0 \in 0 .. LockLimit
    BY MutexAssumption
  <2> QED
    BY <1>2, <2>1, LockType
<1> HIDE DEF z
<1>4. x \in Mutexes /\ Unlinked(z, m, x)
  BY <1>3, UnholdType
<1> HIDE DEF x
<1>5. /\ x.lock = [mx.lock EXCEPT ![m] = 0] /\ x.id = mx.id
      /\ x.owner_thread = mx.owner_thread /\ x.thread_list = mx.thread_list
  BY <1>3, <1>4 DEF Unlinked
<1>6. owed \in Nat
  <2>1. NoThread \in Thread \cup {NoThread} /\ \A n \in Mutex : Distinct(x.thread_list[n])
    BY <1>2, <1>5
  <2> QED
    BY <1>2, <1>4, <2>1, OwedIs
<1> HIDE DEF owed
<1>7. Queues(k, x, {}, 1)
  BY <1>2, <1>5, QueuesSame
<1>8. Queues(lowered, x, {}, 1) /\ SameRun(k, lowered) /\ lowered.state = k.state
  BY <1>4, <1>6, <1>7, ReprioritiseRunning
<1> HIDE DEF lowered
<1>14. Able(lowered)
  BY <1>1, <1>8, Now DEF Able, SameRun
<1>9. /\ Queues(woken, [x EXCEPT !.thread_list = Popped(x, m)], {}, 1)
      /\ Wakened(lowered, woken, {}) /\ woken.kernel = lowered.kernel
  BY <1>4, <1>8, WakeFirstQueues DEF SameRun
<1> HIDE DEF woken
<1>15. Able(woken)
  BY <1>9, <1>14, WakenedAble
<1>10. y \in Mutexes /\ y.thread_list = Popped(x, m) /\ \A n \in Mutex : Held(y, n)
  <2>1. x.lock[m] = 0 /\ x.id[m] /\ Distinct(x.thread_list[m])
    BY <1>1, <1>2, <1>5 DEF Mutexes
  <2>2. ASSUME NEW n \in Mutex, n # m  PROVE Held(x, n)
    BY <1>2, <1>5, <2>2 DEF Held, Mutexes
  <2> QED
    BY <1>4, <2>1, <2>2, HandOverHeld
<1> HIDE DEF y
<1>11. Queues(woken, y, {}, 1)
  <2>1. y.thread_list = [x EXCEPT !.thread_list = Popped(x, m)].thread_list
    BY <1>4, <1>10 DEF Mutexes
  <2> QED
    BY <1>9, <2>1, QueuesSame
<1>16. Lives(lowered, woken, {})
  BY <1>9, WakenedLives
<1>12. /\ Top(after) /\ Runs(after, {}) /\ Sorted(after, 1) /\ Frame(woken, after, {})
       /\ Waiting(Mutex, MutexStates, after, y.thread_list, AnyMutex)
  BY <1>11, <1>15, DispatchKeeps
<1> HIDE DEF after
<1>13. priority_base' \in [Thread -> Nat]
  BY <1>1, <1>2
<1>17. Lives(woken, after, {})
  BY <1>12, FrameLives
<1>18. QueuesInv' /\ k'.state = after.state
  BY <1>1, <1>10, <1>12, <1>13, ServiceKeeps
<1> QED
  BY <1>8, <1>16, <1>17, <1>18 DEF Lives

\* m is no mutex any more, and nobody waits for it.
Emptied(y, m) == [y EXCEPT !.id[m] = FALSE, !.thread_list[m] = <<>>]

\* All the threads waiting for m wake up.
LEMMA WokenQueues ==
  ASSUME NEW q, NEW y \in Mutexes, Queues(q, y, {}, 1), NEW m \in Mutex,
         NEW woken, woken = Woken(q, y.thread_list[m]), NEW z, z = Emptied(y, m)
  PROVE  /\ Queues(woken, z, {}, 1) /\ z \in Mutexes
         /\ z.id = [y.id EXCEPT ![m] = FALSE] /\ z.lock = y.lock
         /\ z.owner_thread = y.owner_thread
         /\ z.thread_list = [y.thread_list EXCEPT ![m] = <<>>]
         /\ Able(q) => Able(woken)
         /\ Lives(q, woken, {})
         /\ Prioritised(q, woken)
<1> DEFINE w     == y.thread_list
           list  == w[m]
           l     == [w EXCEPT ![m] = <<>>]
           S     == ToSet(list)
<1>0. woken = Woken(q, list)
  OBVIOUS
<1>1. /\ Runs(q, {}) /\ Sorted(q, 1) /\ q.curr = q.next
      /\ Waiting(Mutex, MutexStates, q, w, AnyMutex)
  BY RunningWaitsNot DEF Queues
<1>2. list \in Seq(Thread) /\ Distinct(list)
  BY <1>1 DEF Waiting
<1>3. \A t \in S : q.state[t] \in BlockedStates /\ t \in Thread
  BY <1>1, Waiter
<1> HIDE DEF w, list
<1>4. Wakes(q, list, Len(list), woken)
  BY <1>0, <1>1, <1>2, <1>3, WokenWakes
<1>15. \A t \in S : woken.state[t] # "Inactive"
  BY <1>2, <1>4 DEF Wakes, ToSet
<1>5. S = {list[i] : i \in 1 .. Len(list)}
  BY <1>2 DEF ToSet
<1> HIDE DEF S
<1>6. /\ Runs(woken, {}) /\ Sorted(woken, 1) /\ woken.curr = woken.next
      /\ woken.priority = q.priority /\ Frame(q, woken, S)
      /\ \A t \in S : woken.state[t] \notin MutexStates
      /\ woken.kernel = q.kernel
  BY <1>1, <1>2, <1>4, <1>5, WaitsNowhere DEF Wakes, SameRun
<1>7. AnyMutex \in [Mutex -> BOOLEAN]
  BY DEF AnyMutex
<1>8. Waiting(Mutex, MutexStates, woken, l, [AnyMutex EXCEPT ![m] = FALSE])
  BY <1>1, <1>6, <1>7, WaitsEmpty DEF S, list
<1>9. Waiting(Mutex, MutexStates, woken, l, AnyMutex)
  BY <1>8 DEF Waiting, AnyMutex
<1>10. /\ z \in Mutexes /\ z.thread_list = l /\ z.id = [y.id EXCEPT ![m] = FALSE]
       /\ z.lock = y.lock /\ z.owner_thread = y.owner_thread
  <2>1. <<>> \in Seq(Thread)
    OBVIOUS
  <2> QED
    BY <2>1 DEF Mutexes, Emptied, w
<1> HIDE DEF l
<1>11. Typed(woken)
  BY <1>6 DEF Runs
<1>12. Queues(woken, z, {}, 1)
  BY <1>6, <1>9, <1>10, <1>11, GoneNobody DEF Queues
<1>13. Able(q) => Able(woken)
  <2> SUFFICES ASSUME Able(q)  PROVE Able(woken)
    OBVIOUS
  <2>1. Idle \notin S
    <3>1. {"Ready", "Running"} \cap BlockedStates = {}
      BY DEF BlockedStates, WaitStates
    <3> QED
      BY <1>3, <3>1 DEF Able
  <2> QED
    BY <1>6, <2>1, FrameAble
<1>14. Lives(q, woken, {})
  <2>1. \A t \in S \ {} : q.state[t] # "Inactive" /\ woken.state[t] # "Inactive"
    BY <1>3, <1>15, WaitsNowhere DEF BlockedStates, WaitStates
  <2> QED
    BY <1>6, <2>1, FrameLives
<1>16. Prioritised(q, woken)
  <2>1. "priority" \in DOMAIN woken
    BY <1>11 DEF Typed
  <2> QED
    BY <1>6, <2>1 DEF Prioritised
<1> QED
  BY <1>10, <1>12, <1>13, <1>14, <1>16 DEF l, w

LEMMA DeleteKeeps ==
  ASSUME QueuesInv, NEW m \in Mutex, MutexDelete(m)
  PROVE  QueuesInv' /\ Lives(k, k', {})
<1> DEFINE owner   == mx.owner_thread[m]
           x       == Unhold(mx, m)
           owed    == Owed(k, x, owner, NoThread)
           lowered == Reprioritise(k, owner, owed)
           y       == Requeue(k, lowered, x, owner)
           woken   == Woken(lowered, y.thread_list[m])
           after   == Dispatch(woken)
           z       == [y EXCEPT !.id[m] = FALSE, !.thread_list[m] = <<>>]
           free    == [mx EXCEPT !.id[m] = FALSE]
<1>1. /\ UNCHANGED priority_base /\ handler = "thread" /\ mx.id[m]
      /\ IF mx.lock[m] = 0 THEN Service(k, free) ELSE Service(after, z)
  BY DEF MutexDelete, Service
<1>2. /\ mx \in Mutexes /\ k.curr \in Thread /\ k.priority \in [Thread -> Nat]
      /\ Queues(k, mx, {}, 1) /\ priority_base \in [Thread -> Nat]
      /\ \A n \in Mutex : /\ Held(mx, n) /\ Distinct(mx.thread_list[n])
  BY <1>1, Now DEF QueuesInv
<1>3. CASE mx.lock[m] = 0
  <2>1. /\ free \in Mutexes /\ free.id = [mx.id EXCEPT ![m] = FALSE]
        /\ free.lock = mx.lock /\ free.owner_thread = mx.owner_thread
        /\ free.thread_list = mx.thread_list
    BY <1>2 DEF Mutexes
  <2>2. Service(k, free)
    BY <1>1, <1>3
  <2> HIDE DEF free
  <2>3. ASSUME NEW n \in Mutex  PROVE Held(free, n)
    <3>1. Held(mx, n)
      BY <1>2
    <3> QED
      BY <1>2, <1>3, <2>1, <3>1 DEF Held, Mutexes
  <2> QED
    BY <1>1, <2>1, <2>2, <2>3, LocksKeep
<1>4. CASE mx.lock[m] # 0
  <2>1. owner \in Thread
    BY <1>2, <1>4 DEF Held
  <2>2. x \in Mutexes /\ Unlinked(mx, m, x)
    BY <1>2, UnholdType
  <2>3. Service(after, z)
    BY <1>1, <1>4
  <2> HIDE DEF owner, x
  <2>4. /\ x.lock = mx.lock /\ x.id = mx.id
        /\ x.owner_thread = mx.owner_thread /\ x.thread_list = mx.thread_list
    BY <2>2 DEF Unlinked
  <2>5. owed \in Nat
    <3>1. NoThread \in Thread \cup {NoThread} /\ \A n \in Mutex : Distinct(x.thread_list[n])
      BY <1>2, <2>4
    <3> QED
      BY <1>2, <2>1, <2>2, <3>1, OwedIs
  <2> HIDE DEF owed
  <2>6. Queues(k, x, {}, 1)
    BY <1>2, <2>4, QueuesSame
  <2>7. Moved(k, x, lowered, y, 1)
    BY <2>1, <2>2, <2>5, <2>6, ReprioritiseQueues
  <2> HIDE DEF lowered, y
  <2>8. Queues(lowered, y, {}, 1) /\ y \in Mutexes /\ Able(lowered)
    BY <1>1, <2>7, Now DEF Moved, Able, SameRun
  <2>9. /\ Queues(woken, z, {}, 1) /\ z \in Mutexes
        /\ z.id = [y.id EXCEPT ![m] = FALSE] /\ z.lock = y.lock
        /\ z.owner_thread = y.owner_thread
        /\ z.thread_list = [y.thread_list EXCEPT ![m] = <<>>]
        /\ Able(woken) /\ Lives(lowered, woken, {})
    <3>1. woken = Woken(lowered, y.thread_list[m]) /\ z = Emptied(y, m)
      BY DEF Emptied
    <3> HIDE DEF woken, z
    <3> QED
      BY <2>8, <3>1, WokenQueues
  <2> HIDE DEF woken, z
  <2>10. /\ Top(after) /\ Runs(after, {}) /\ Sorted(after, 1) /\ Frame(woken, after, {})
         /\ Waiting(Mutex, MutexStates, after, z.thread_list, AnyMutex)
    BY <2>9, DispatchKeeps
  <2> HIDE DEF after
  <2>11. ASSUME NEW n \in Mutex  PROVE Held(z, n)
    <3>1. SameLocks(x, y) /\ SameWaiters(x.thread_list, y.thread_list)
      BY <2>7 DEF Moved
    <3>2. Held(x, n)
      BY <1>2, <2>4 DEF Held
    <3>3. y.thread_list[n] # <<>> => x.thread_list[n] # <<>>
      BY <2>2, <2>8, <3>1, SameWaitersEmpty
    <3>4. Held(y, n)
      BY <3>1, <3>2, <3>3 DEF Held, SameLocks
    <3> QED
      BY <2>8, <2>9, <3>4 DEF Held, Mutexes
  <2>12. priority_base' \in [Thread -> Nat]
    BY <1>1, <1>2
  <2>13. lowered.state = k.state
    BY <2>7 DEF Moved
  <2>14. Lives(woken, after, {})
    BY <2>10, FrameLives
  <2>15. QueuesInv' /\ k'.state = after.state
    BY <2>3, <2>9, <2>10, <2>11, <2>12, ServiceKeeps
  <2> QED
    BY <2>9, <2>13, <2>14, <2>15 DEF Lives
<1> QED
  BY <1>3, <1>4

---------------------------------------------------------------------------
\* The services of threads

\* A service that leaves the threads waiting for mutexes as they are.
LEMMA StandKeeps ==
  ASSUME QueuesInv, NEW after, NEW x \in Mutexes, Service(after, x),
         priority_base' \in [Thread -> Nat],
         x.thread_list = mx.thread_list, \A m \in Mutex : Held(x, m),
         Runs(after, {}), Sorted(after, 1), Top(after), NEW S, Frame(k, after, S),
         \A t \in Thread : t \notin S => after.priority[t] = k.priority[t],
         \A t \in Thread : t \in S => /\ k.state[t] \notin MutexStates
                                      /\ after.state[t] \notin MutexStates
  PROVE  QueuesInv' /\ k'.state = after.state
<1>1. Waiting(Mutex, MutexStates, k, x.thread_list, AnyMutex)
  BY Now DEF Service
<1>2. Waiting(Mutex, MutexStates, after, x.thread_list, AnyMutex)
  BY <1>1, WaitsStand
<1> QED
  BY <1>2, ServiceKeeps

\* A thread leaves whatever list it is in.
LEMMA LeaveHeld ==
  ASSUME NEW x \in Mutexes, NEW t \in Thread,
         \A m \in Mutex : Held(x, m) /\ Distinct(x.thread_list[m])
  PROVE  LET y == Leave(x, t)
             l == [m \in Mutex |-> Without(x.thread_list[m], t)]
         IN  /\ y \in Mutexes /\ SameLocks(x, y) /\ y.thread_list = l
             /\ \A m \in Mutex : Held(y, m)
<1> DEFINE y == Leave(x, t)
           l == [m \in Mutex |-> Without(x.thread_list[m], t)]
<1>1. ASSUME NEW m \in Mutex
      PROVE  /\ Without(x.thread_list[m], t) \in Seq(Thread)
             /\ Without(x.thread_list[m], t) # <<>> => x.thread_list[m] # <<>>
  <2>1. PICK s : s = x.thread_list[m]
    OBVIOUS
  <2>2. s \in Seq(Thread) /\ Distinct(s)
    BY <2>1 DEF Mutexes
  <2>3. Without(s, t) \in Seq(Thread)
    BY <2>2, WithoutSet
  <2> QED
    BY <2>1, <2>2, <2>3, WithoutShorter
<1>2. l \in [Mutex -> Seq(Thread)]
  BY <1>1
<1>3. y = [x EXCEPT !.thread_list = l]
  BY DEF Leave
<1> HIDE DEF y
<1>4. \A m \in Mutex : l[m] # <<>> => x.thread_list[m] # <<>>
  BY <1>1
<1> HIDE DEF l
<1>5. y \in Mutexes /\ SameLocks(x, y) /\ y.thread_list = l
  BY <1>2, <1>3, ListsType
<1>6. \A m \in Mutex : Held(y, m)
  BY <1>4, <1>5, HeldSame
<1> QED
  BY <1>5, <1>6 DEF y, l

\* A service that takes t from the list it waits in.
LEMMA LeaveKeeps ==
  ASSUME QueuesInv, NEW t \in Thread, NEW after, Service(after, Leave(mx, t)),
         UNCHANGED priority_base, Runs(after, {}), Sorted(after, 1), Top(after),
         Frame(k, after, {t}),
         Prioritised(k, after), after.state[t] \notin MutexStates
  PROVE  QueuesInv' /\ k'.state = after.state
<1> DEFINE x == Leave(mx, t)
           l == [m \in Mutex |-> Without(mx.thread_list[m], t)]
<1>1. /\ mx \in Mutexes /\ \A m \in Mutex : Held(mx, m)
      /\ Waiting(Mutex, MutexStates, k, mx.thread_list, AnyMutex) /\ Typed(k)
      /\ priority_base' \in [Thread -> Nat]
      /\ \A m \in Mutex : Distinct(mx.thread_list[m])
  BY Now DEF Service, QueuesInv
<1>2. x \in Mutexes /\ x.thread_list = l /\ \A m \in Mutex : Held(x, m)
  BY <1>1, LeaveHeld
<1>3. Service(after, x)
  OBVIOUS
<1> HIDE DEF x
<1>4. Waiting(Mutex, MutexStates, after, l, AnyMutex)
  <2>1. PICK w : w = mx.thread_list
    OBVIOUS
  <2>2. /\ Waiting(Mutex, MutexStates, k, w, AnyMutex) /\ Typed(k)
        /\ Frame(k, after, {t}) /\ after.priority = k.priority
        /\ after.state[t] \notin MutexStates
    BY <1>1, <2>1 DEF Prioritised
  <2>3. Waiting(Mutex, MutexStates, after, [m \in Mutex |-> Without(w[m], t)], AnyMutex)
    BY ONLY <2>2, t \in Thread, WaitsLeave
  <2> QED
    BY <2>1, <2>3
<1> QED
  BY <1>1, <1>2, <1>3, <1>4, ServiceKeeps

LEMMA ThreadNewKeeps ==
  ASSUME QueuesInv, NEW t \in Thread, NEW p \in Priority, ThreadNew(t, p)
  PROVE  QueuesInv' /\ Lives(k, k', {t}) /\ k'.state[t] # "Inactive"
<1> DEFINE m == Begun(k, t, p)
           r == DispatchThread(m, t)
           x == [mx EXCEPT !.mutex_list[t] = NoMutex]
<1>1. /\ k.state[t] = "Inactive" /\ handler = "thread" /\ Service(r, x) /\ p \in Nat
      /\ priority_base' = [priority_base EXCEPT ![t] = p]
  BY MutexAssumption DEF ThreadNew, Service, Begun
<1>2. Sorted(k, 1) /\ Runs(k, {}) /\ k.curr = k.next
  BY <1>1, Now
<1>3. /\ Sorted(m, 1) /\ \A u \in Thread : u # t => m.priority[u] = k.priority[u]
      /\ SameRun(k, m) /\ m.ready = k.ready
  BY <1>1, <1>2, NewThreadSorted
<1>4. Runs(r, {}) /\ Frame(k, r, {t}) /\ r.state[t] \in {"Ready", "Running"}
  BY <1>1, <1>2, NewThreadRuns
<1> HIDE DEF m
<1>5. Sorted(r, 1)
  BY <1>3, DispatchThreadSorted
<1>6. "priority" \in DOMAIN m
  BY <1>3 DEF Sorted, Typed
<1>7. r.priority = m.priority
  BY <1>6, DispatchPriorities DEF Prioritised
<1>14. r.kernel = k.kernel
  BY <1>3, KernelStays DEF Sorted, SameRun
<1>15. "Lock" \notin Habits => Tops(r)
  <2>1. \A u \in ToSet(k.ready) : u \in Thread /\ u # t
    <3>1. t \notin ToSet(k.ready)
      BY <1>1, <1>2 DEF Runs, Placed
    <3>2. k.ready \in Seq(Thread)
      BY <1>2 DEF Runs, Typed
    <3> QED
      BY <3>1, <3>2 DEF ToSet
  <2>2. k.next # t /\ k.next \in Thread /\ m.next = k.next
    BY <1>1, <1>2, <1>3 DEF Runs, Typed, SameRun
  <2>3. "Lock" \notin Habits => m.kernel = "Running" /\ Tops(k)
    BY <1>1, <1>3, Now DEF Able, Top, SameRun
  <2>4. "Lock" \notin Habits => Tops(m)
    BY <1>3, <2>1, <2>2, <2>3 DEF Tops, Outranked
  <2> QED
    BY <1>2, <1>3, <2>3, <2>4, DispatchThreadTops DEF SameRun
<1> HIDE DEF r
<1>16. Top(r)
  <2>1. Able(k) /\ Idle \notin {t}
    BY <1>1, Now DEF Able
  <2> QED
    BY <1>4, <1>14, <1>15, <2>1, FrameAble DEF Top
<1>8. \A u \in Thread : u \notin {t} => r.priority[u] = k.priority[u]
  BY <1>3, <1>7
<1>9. \A u \in Thread : u \in {t} => /\ k.state[u] \notin MutexStates
                                     /\ r.state[u] \notin MutexStates
  BY <1>1, <1>4, WaitsNowhere
<1>10. mx \in Mutexes /\ \A n \in Mutex : Held(mx, n)
  BY <1>1, Now
<1>11. /\ x \in Mutexes /\ x.thread_list = mx.thread_list /\ x.id = mx.id
       /\ x.lock = mx.lock /\ x.owner_thread = mx.owner_thread
  BY <1>10 DEF Mutexes
<1> HIDE DEF x
<1>12. \A n \in Mutex : Held(x, n)
  BY <1>10, <1>11 DEF Held
<1>13. priority_base' \in [Thread -> Nat]
  BY <1>1 DEF QueuesInv
<1>17. QueuesInv' /\ k'.state = r.state
  BY <1>1, <1>4, <1>5, <1>8, <1>9, <1>11, <1>12, <1>13, <1>16, StandKeeps
<1>18. Lives(k, r, {t})
  BY <1>4, FrameLives
<1> QED
  BY <1>4, <1>17, <1>18 DEF Lives

LEMMA ThreadSetPriorityKeeps ==
  ASSUME QueuesInv, NEW t \in Thread, NEW p \in Priority, ThreadSetPriority(t, p)
  PROVE  QueuesInv' /\ Lives(k, k', {})
<1> DEFINE m == [k EXCEPT !.priority[t] = p]
           l == [n \in Mutex |-> ListSort(m, mx.thread_list[n], t)]
           r == SetPriority(k, t, p)
           x == Requeue(k, m, mx, t)
<1>1. /\ handler = "thread" /\ Service(r, x) /\ p \in Nat /\ k.priority[t] # p
      /\ priority_base' = [priority_base EXCEPT ![t] = p]
  BY MutexAssumption DEF ThreadSetPriority, Service
<1>2. /\ Sorted(k, 1) /\ Runs(k, {}) /\ k.curr = k.next /\ Typed(k) /\ mx \in Mutexes
      /\ k.priority \in [Thread -> Nat]
      /\ Waiting(Mutex, MutexStates, k, mx.thread_list, AnyMutex) /\ \A n \in Mutex : Held(mx, n)
  BY <1>1, Now
<1>3. Runs(r, {}) /\ Frame(k, r, {})
  BY <1>1, <1>2, SetPriorityRuns
<1>4. Distinct(k.ready)
  BY <1>2 DEF Runs, Placed
<1>5. PICK n : /\ r = Dispatch(n) /\ Sorted(n, 1) /\ SameRun(k, n)
               /\ n.priority = [k.priority EXCEPT ![t] = p]
  BY <1>1, <1>2, <1>4, RaiseSorted
<1>6. Sorted(r, 1)
  BY <1>5, DispatchSorted
<1>7. "priority" \in DOMAIN n
  BY <1>5 DEF Sorted, Typed
<1>8. r.priority = [k.priority EXCEPT ![t] = p]
  BY <1>5, <1>7, DispatchPriorities DEF Prioritised
<1>17. r.kernel = k.kernel
  BY <1>2, KernelStays
<1>18. k.kernel = "Running" => Tops(r)
  BY <1>2, <1>5, DispatchTops DEF SameRun
<1> HIDE DEF r
<1>19. Top(r)
  <2>1. Able(k) /\ Idle \notin {}
    BY <1>1, Now
  <2>2. Able(r)
    BY <1>3, <1>17, <2>1, FrameAble
  <2> QED
    BY <1>17, <1>18, <2>1, <2>2 DEF Top, Able
<1>9. Waiting(Mutex, MutexStates, r, l, AnyMutex) /\ Fewer(Mutex, l, mx.thread_list)
  <2>1. PICK w : w = mx.thread_list
    OBVIOUS
  <2>2. /\ Waiting(Mutex, MutexStates, k, w, AnyMutex) /\ Typed(k) /\ p \in Nat
        /\ Frame(k, r, {}) /\ r.priority = [k.priority EXCEPT ![t] = p]
    BY <1>1, <1>2, <1>3, <1>8, <2>1
  <2> DEFINE v == [n1 \in Mutex |-> ListSort(m, w[n1], t)]
  <2>3. Waiting(Mutex, MutexStates, r, v, AnyMutex) /\ Fewer(Mutex, v, w)
    BY ONLY <2>2, t \in Thread, WaitsSort
  <2> QED
    BY <2>1, <2>3
<1>10. m.priority[t] # k.priority[t]
  BY <1>1, <1>2 DEF Typed
<1>11. x = [mx EXCEPT !.thread_list = l]
  <2> HIDE DEF m
  <2> QED
    BY <1>10 DEF Requeue
<1> HIDE DEF l, x, m
<1>12. l \in [Mutex -> Seq(Thread)]
  BY <1>9 DEF Waiting
<1>13. x \in Mutexes /\ SameLocks(mx, x) /\ x.thread_list = l
  BY <1>2, <1>11, <1>12, ListsType
<1>14. ASSUME NEW n1 \in Mutex  PROVE x.thread_list[n1] # <<>> => mx.thread_list[n1] # <<>>
  <2>1. mx.thread_list[n1] \in Seq(Thread) /\ x.thread_list[n1] \in Seq(Thread)
    BY <1>2, <1>13 DEF Mutexes
  <2>2. Len(x.thread_list[n1]) <= Len(mx.thread_list[n1])
    BY <1>9, <1>13 DEF Fewer
  <2> QED
    BY <2>1, <2>2, EmptySeq
<1>15. \A n1 \in Mutex : Held(x, n1)
  BY <1>2, <1>13, <1>14, HeldSame
<1>16. priority_base' \in [Thread -> Nat]
  BY <1>1 DEF QueuesInv
<1>20. QueuesInv' /\ k'.state = r.state
  BY <1>1, <1>3, <1>6, <1>9, <1>13, <1>15, <1>16, <1>19, ServiceKeeps
<1>21. Lives(k, r, {})
  BY <1>3, FrameLives
<1> QED
  BY <1>20, <1>21 DEF Lives

LEMMA ThreadSuspendKeeps ==
  ASSUME QueuesInv, NEW t \in Application, ThreadSuspend(t)
  PROVE  QueuesInv' /\ Lives(k, k', {})
<1> DEFINE r == Suspend(k, t)
<1>1. /\ handler = "thread" /\ Service(r, Leave(mx, t)) /\ Stoppable(k, t)
      /\ UNCHANGED priority_base /\ t \in Thread /\ Idle \notin {t}
  BY DEF ThreadSuspend, Service, Application
<1>2. /\ Sorted(k, 1) /\ Runs(k, {}) /\ k.curr = k.next
      /\ \A u \in ToSet(k.delay_list) : k.state[u] \in BlockedStates
      /\ "priority" \in DOMAIN k /\ Able(k) /\ Top(k) /\ Distinct(k.ready) /\ Typed(k)
  BY <1>1, Now DEF Runs, Placed
<1>3. Runs(r, {}) /\ Frame(k, r, {t}) /\ r.state[t] = "Blocked"
  BY <1>1, <1>2, SuspendRuns
<1>4. Sorted(r, 1)
  BY <1>1, <1>2, SuspendSorted
<1>5. Prioritised(k, r)
  BY <1>2, WaitPriorities
<1>7. /\ Tops(k) => Tops(r)
      /\ r.kernel = k.kernel
  BY <1>1, <1>2, SuspendTops, KernelStays
<1> HIDE DEF r
<1>6. r.state[t] \notin MutexStates
  BY <1>3, WaitsNowhere
<1>8. Top(r)
  BY <1>1, <1>2, <1>3, <1>7, FrameAble DEF Top
<1>9. QueuesInv' /\ k'.state = r.state
  BY <1>1, <1>3, <1>4, <1>5, <1>6, <1>8, LeaveKeeps
<1>10. Lives(k, r, {})
  <2>1. k.state[t] # "Inactive"
    BY <1>1 DEF Stoppable, BlockedStates, WaitStates
  <2> QED
    BY <1>3, <2>1, FrameLives
<1> QED
  BY <1>9, <1>10 DEF Lives

LEMMA ThreadResumeKeeps ==
  ASSUME QueuesInv, NEW t \in Thread, ThreadResume(t)
  PROVE  QueuesInv' /\ Lives(k, k', {})
<1> DEFINE r == Resume(k, t)
<1>1. /\ handler = "thread" /\ Service(r, Leave(mx, t)) /\ k.state[t] \in BlockedStates
      /\ UNCHANGED priority_base
  BY DEF ThreadResume, Service
<1>2. /\ Sorted(k, 1) /\ Runs(k, {}) /\ k.curr = k.next /\ "priority" \in DOMAIN k
      /\ Able(k) /\ Top(k) /\ Typed(k)
  BY <1>1, Now
<1>3. Runs(r, {}) /\ Frame(k, r, {t}) /\ r.state[t] \in {"Ready", "Running"}
  BY <1>1, <1>2, ResumeRuns
<1>4. Sorted(r, 1)
  BY <1>2, ResumeSorted
<1>5. Prioritised(k, r)
  BY <1>2, WaitPriorities
<1>7. /\ k.kernel = "Running" /\ Tops(k) => Tops(r)
      /\ r.kernel = k.kernel
  BY <1>2, ResumeTops, KernelStays
<1> HIDE DEF r
<1>6. r.state[t] \notin MutexStates
  BY <1>3, WaitsNowhere
<1>8. Top(r)
  <2>1. Idle \notin {t}
    BY <1>1, <1>2 DEF Able, BlockedStates, WaitStates
  <2>2. Able(r)
    BY <1>2, <1>3, <1>7, <2>1, FrameAble
  <2> QED
    BY <1>2, <1>7, <2>2 DEF Top, Able
<1>9. QueuesInv' /\ k'.state = r.state
  BY <1>1, <1>3, <1>4, <1>5, <1>6, <1>8, LeaveKeeps
<1>10. Lives(k, r, {})
  <2>1. k.state[t] # "Inactive"
    BY <1>1 DEF BlockedStates, WaitStates
  <2> QED
    BY <1>3, <2>1, FrameLives
<1> QED
  BY <1>9, <1>10 DEF Lives

LEMMA DelayKeeps ==
  ASSUME QueuesInv, NEW ticks \in Timeout, Delay(ticks)
  PROVE  QueuesInv' /\ Lives(k, k', {})
<1> DEFINE c == k.curr
           r == WaitEnter(k, "WaitingDelay", ticks)
<1>1. /\ handler = "thread" /\ Service(r, mx) /\ k.ready # <<>> /\ UNCHANGED priority_base
      /\ Idle \notin {c}
  BY DEF Delay, Service, CanSwitch
<1>2. /\ Sorted(k, 1) /\ Runs(k, {}) /\ k.curr = k.next /\ "priority" \in DOMAIN k
      /\ c \in Thread /\ k.state[c] = "Running" /\ c \notin ToSet(k.delay_list)
      /\ mx \in Mutexes /\ Able(k) /\ Typed(k) /\ \A n \in Mutex : Held(mx, n)
  BY <1>1, Now
<1>3. /\ ticks \in Int \cup {Forever} /\ ticks \in Nat \cup {Forever}
      /\ (ticks = Forever \/ ticks >= 1) /\ 1 \in Nat
  BY MutexAssumption
<1>4. "WaitingDelay" \in BlockedStates /\ "WaitingDelay" \in ThreadState
  BY DEF BlockedStates, WaitStates, ThreadState
<1>5. Runs(r, {}) /\ Frame(k, r, {c}) /\ r.state[c] = "WaitingDelay"
  BY <1>1, <1>2, <1>3, <1>4, WaitEnterRuns
<1>6. Sorted(r, 1)
  BY <1>1, <1>2, <1>3, <1>4, WaitEnterSorted
<1>7. r.priority = k.priority
  BY <1>2, WaitPriorities DEF Prioritised
<1>10. Tops(r) /\ r.kernel = k.kernel
  <2>1. Tops(r)
    BY <1>1, <1>2, <1>3, <1>4, WaitEnterTops
  <2>2. Typed(k)
    BY <1>2
  <2>3. r.kernel = k.kernel
    BY <2>2, KernelStays
  <2> QED
    BY <2>1, <2>3
<1> HIDE DEF r, c
<1>12. Able(r)
  <2>1. Able(k) /\ Frame(k, r, {c}) /\ Idle \notin {c} /\ r.kernel = k.kernel
    BY <1>1, <1>2, <1>5, <1>10
  <2> QED
    BY <2>1, FrameAble
<1>11. Top(r)
  BY <1>10, <1>12 DEF Top
<1>8. \A u \in Thread : u \in {c} => /\ k.state[u] \notin MutexStates
                                     /\ r.state[u] \notin MutexStates
  BY <1>2, <1>5, WaitsNowhere
<1>9. priority_base' \in [Thread -> Nat] /\ mx.thread_list = mx.thread_list
  BY <1>1 DEF QueuesInv
<1>13. QueuesInv' /\ k'.state = r.state
  BY <1>1, <1>2, <1>5, <1>6, <1>7, <1>8, <1>9, <1>11, StandKeeps
<1>14. Lives(k, r, {})
  BY <1>2, <1>5, FrameLives
<1> QED
  BY <1>13, <1>14 DEF Lives

\* The lock changes nothing but itself.
LEMMA LockKeeps ==
  ASSUME QueuesInv, KernelLock \/ KernelUnlock
  PROVE  QueuesInv' /\ Lives(k, k', {})
<1>1. PICK s \in {"Running", "Locked"} :
        /\ handler = "thread" /\ Service([k EXCEPT !.kernel = s], mx)
        /\ UNCHANGED priority_base /\ "Lock" \in Habits
  <2>1. KernelUnlock => "Lock" \in Habits
    BY DEF KernelUnlock, QueuesInv, Able
  <2> QED
    BY <2>1 DEF KernelLock, KernelUnlock, Service
<1> DEFINE r == [k EXCEPT !.kernel = s]
<1>2. /\ Sorted(k, 1) /\ Runs(k, {}) /\ Typed(k) /\ mx \in Mutexes
      /\ Able(k) /\ \A n \in Mutex : Held(mx, n)
  BY <1>1, Now
<1>3. /\ Typed(r) /\ r.state = k.state /\ r.ready = k.ready /\ r.delay = k.delay
      /\ r.delay_list = k.delay_list /\ r.wait_list = k.wait_list /\ r.next = k.next
      /\ r.priority = k.priority
  BY <1>2 DEF Typed
<1>4. Service(r, mx)
  BY <1>1
<1> HIDE DEF r
<1>5. Runs(r, {}) /\ Frame(k, r, {})
  BY <1>2, <1>3 DEF Runs, Placed, Frame
<1>6. Sorted(r, 1)
  BY <1>2, <1>3 DEF Sorted, Urgency, Due
<1>7. priority_base' \in [Thread -> Nat] /\ mx.thread_list = mx.thread_list
  BY <1>1 DEF QueuesInv
<1>8. Able(r)
  <2>1. Able(k) /\ r.state = k.state /\ "Lock" \in Habits
    BY <1>1, <1>2, <1>3
  <2> QED
    BY <2>1 DEF Able
<1>9. Top(r)
  BY <1>1, <1>8 DEF Top
<1>10. QueuesInv' /\ k'.state = r.state
  BY <1>2, <1>3, <1>4, <1>5, <1>6, <1>7, <1>9, StandKeeps
<1> QED
  BY <1>3, <1>10 DEF Lives

\* A thread ends, and its robust mutexes go to threads that wait for them.
LEMMA ThreadExitKeeps ==
  ASSUME QueuesInv, ThreadExit
  PROVE  QueuesInv' /\ Lives(k, k', {k.curr}) /\ k'.state[k.curr] = "Inactive"
<1> DEFINE c == k.curr
           left == Bequeath(k, mx, c)
           s == left.s
           x == left.x
           d == SwitchToReady(s)
           r == [d EXCEPT !.state[c] = "Inactive"]
<1>1. handler = "thread" /\ Service(r, x) /\ UNCHANGED priority_base /\ k.ready # <<>>
      /\ c # Idle
  BY DEF ThreadExit, Service, CanSwitch
<1>2. /\ Queues(k, mx, {}, 1) /\ mx \in Mutexes /\ \A m \in Mutex : Held(mx, m)
      /\ c \in Thread /\ Typed(k) /\ k.curr = k.next /\ Able(k)
  BY <1>1, Now
<1> HIDE DEF c
<1>3. Leaves(k, k, mx, {}, 1)
  BY <1>2 DEF Leaves, SameRun, Wakened
<1>4. Leaves(k, s, x, {}, 1)
  BY <1>2, <1>3, BequeathKeeps
<1> HIDE DEF left
<1>5. /\ Queues(s, x, {}, 1) /\ x \in Mutexes /\ \A m \in Mutex : Held(x, m)
      /\ s.curr = c /\ s.curr = s.next /\ ToSet(k.ready) \subseteq ToSet(s.ready)
      /\ Wakened(k, s, {}) /\ s.kernel = k.kernel
  BY <1>2, <1>4 DEF Leaves, SameRun, c
<1> HIDE DEF s, x
<1>6. /\ Runs(s, {}) /\ Sorted(s, 1) /\ "priority" \in DOMAIN s
      /\ s.state[s.curr] = "Running" /\ Waiting(Mutex, MutexStates, s, x.thread_list, AnyMutex)
  BY <1>5, RunningWaitsNot DEF Queues
<1>7. s.ready # <<>>
  <2>1. k.ready \in Seq(Thread)
    BY <1>2, RankTypes
  <2>2. Head(k.ready) \in ToSet(k.ready)
    BY <1>1, <2>1 DEF ToSet
  <2> QED
    BY <1>5, <2>2, EmptyWaits
<1>8. /\ Runs(r, {}) /\ Frame(s, r, {s.curr}) /\ r.state[s.curr] = "Inactive"
  BY <1>5, <1>6, <1>7, ExitRuns
<1>9. Sorted(d, 1) /\ Prioritised(s, d) /\ "priority" \in DOMAIN d
  BY <1>6, <1>7, SwitchToReadySorted, DispatchPriorities DEF Prioritised
<1>16. Tops(d) /\ d.kernel = s.kernel
  <2>1. Tops(d)
    BY <1>6, <1>7, SwitchToReadyTops
  <2>2. Typed(s)
    BY <1>6 DEF Runs
  <2>3. d.kernel = s.kernel
    BY <2>2, KernelStays
  <2> QED
    BY <2>1, <2>3
<1> HIDE DEF d
<1>10. "Inactive" \in ThreadState
  BY DEF ThreadState
<1>17. Top(r)
  <2>1. Tops(r) /\ r.kernel = d.kernel
    BY <1>2, <1>9, <1>10, <1>16, RestateTops DEF Sorted, Typed
  <2>2. Able(s)
    BY <1>2, <1>5, WakenedAble
  <2>3. Frame(s, r, {s.curr}) /\ Idle \notin {s.curr} /\ r.kernel = s.kernel
    BY <1>1, <1>5, <1>8, <1>16, <2>1
  <2>4. Able(r)
    BY <2>2, <2>3, FrameAble
  <2> QED
    BY <2>1, <2>4 DEF Top
<1>11. Sorted(r, 1) /\ Prioritised(d, r)
  BY <1>2, <1>9, <1>10, RestateSorted, BasicPriorities
<1> HIDE DEF r
<1>12. r.priority = s.priority
  BY <1>9, <1>11 DEF Prioritised
<1>13. \A u \in Thread : u \in {c} => /\ s.state[u] \notin MutexStates
                                      /\ r.state[u] \notin MutexStates
  BY <1>5, <1>6, <1>8, WaitsNowhere
<1>14. Waiting(Mutex, MutexStates, r, x.thread_list, AnyMutex)
  BY <1>5, <1>6, <1>8, <1>12, <1>13, WaitsStand
<1>15. priority_base' \in [Thread -> Nat]
  BY <1>1 DEF QueuesInv
<1>18. QueuesInv' /\ k'.state = r.state
  BY <1>1, <1>5, <1>8, <1>11, <1>14, <1>15, <1>17, ServiceKeeps
<1>19. Lives(k, s, {}) /\ Lives(s, r, {c})
  BY <1>5, <1>8, WakenedLives, FrameLives
<1> QED
  BY <1>5, <1>8, <1>18, <1>19 DEF Lives, c

\* A thread taken from its lists, about to end.
LEMMA UnlistQueues ==
  ASSUME QueuesInv, handler = "thread", NEW t \in Thread, t # k.curr
  PROVE  LET u == Unlist(k, t)
         IN  /\ Leaves(u, u, Leave(mx, t), {t}, 1) /\ u.priority = k.priority
             /\ u.state = k.state
             /\ Able(u)
<1> DEFINE u == Unlist(k, t)
           x == Leave(mx, t)
           w == mx.thread_list
           l == [m \in Mutex |-> Without(w[m], t)]
<1>1. /\ Runs(k, {}) /\ k.curr = k.next /\ Sorted(k, 1) /\ Typed(k) /\ "priority" \in DOMAIN k
      /\ mx \in Mutexes /\ \A m \in Mutex : Held(mx, m) /\ Distinct(w[m])
      /\ Waiting(Mutex, MutexStates, k, w, AnyMutex)
      /\ t \in ToSet(k.delay_list) => k.state[t] \in BlockedStates
  BY Now
<1>2. Runs(u, {t}) /\ SameRun(k, u) /\ u.state = k.state
  BY <1>1, UnlistPlaced
<1>3. Sorted(u, 1)
  BY <1>1, UnlistSorted
<1>4. u.priority = k.priority
  BY <1>1, BasicPriorities DEF Prioritised
<1> HIDE DEF u
<1>5. x \in Mutexes /\ x.thread_list = l /\ \A m \in Mutex : Held(x, m)
  BY <1>1, LeaveHeld
<1> HIDE DEF x
<1>6. /\ Typed(u) /\ Gone(u, {t}).priority = k.priority
      /\ \A v \in Thread : Gone(u, {t}).state[v] = IF v \in {t} THEN "Inactive" ELSE k.state[v]
  BY <1>2, <1>4, GoneType DEF Runs
<1>7. Frame(k, Gone(u, {t}), {t}) /\ Gone(u, {t}).state[t] \notin MutexStates
  BY <1>6, WaitsNowhere DEF Frame
<1>8. Waiting(Mutex, MutexStates, Gone(u, {t}), l, AnyMutex)
  <2> HIDE DEF w
  <2>1. PICK r : r = Gone(u, {t})
    OBVIOUS
  <2>2. /\ Waiting(Mutex, MutexStates, k, w, AnyMutex) /\ Typed(k)
        /\ Frame(k, r, {t}) /\ r.priority = k.priority /\ r.state[t] \notin MutexStates
    BY <1>1, <1>6, <1>7, <2>1
  <2>3. Waiting(Mutex, MutexStates, r, l, AnyMutex)
    BY ONLY <2>2, t \in Thread, WaitsLeave
  <2> QED
    BY <2>1, <2>3
<1> HIDE DEF l
<1>9. Queues(u, x, {t}, 1)
  BY <1>1, <1>2, <1>3, <1>5, <1>8 DEF Queues, SameRun
<1>10. Leaves(u, u, x, {t}, 1)
  BY <1>5, <1>9 DEF Leaves, SameRun, Wakened
<1>11. Able(u)
  BY <1>2, Now DEF Able, SameRun
<1> QED
  BY <1>2, <1>4, <1>10, <1>11 DEF u, x

LEMMA ThreadTerminateKeeps ==
  ASSUME QueuesInv, NEW t \in Application, ThreadTerminate(t)
  PROVE  QueuesInv' /\ Lives(k, k', {t}) /\ k'.state[t] = "Inactive"
<1> DEFINE u == Unlist(k, t)
           y == Leave(mx, t)
           left == Bequeath(u, y, t)
           s == left.s
           x == left.x
           d == Dispatch(s)
           r == [d EXCEPT !.state[t] = "Inactive"]
<1>1. handler = "thread" /\ Service(r, x) /\ UNCHANGED priority_base /\ t # k.curr
      /\ t \in Thread /\ Idle \notin {t}
  BY DEF ThreadTerminate, Service, Application
<1>2. Leaves(u, u, y, {t}, 1) /\ Able(u) /\ u.state = k.state
  BY <1>1, UnlistQueues
<1> HIDE DEF u, y
<1>3. Leaves(u, s, x, {t}, 1)
  BY <1>1, <1>2, BequeathKeeps
<1> HIDE DEF left, s, x
<1>4. /\ Runs(s, {t}) /\ Sorted(s, 1) /\ s.curr = s.next /\ Typed(s)
      /\ Waiting(Mutex, MutexStates, Gone(s, {t}), x.thread_list, AnyMutex)
      /\ Wakened(u, s, {t}) /\ s.kernel = u.kernel
      /\ x \in Mutexes /\ \A m \in Mutex : Held(x, m)
  BY <1>3 DEF Leaves, Queues, Runs, SameRun
<1>5. "priority" \in DOMAIN s
  BY <1>4 DEF Typed
<1>6. /\ Runs(d, {t}) /\ Frame(s, d, {}) /\ Sorted(d, 1) /\ Prioritised(s, d)
      /\ d.kernel = s.kernel
  BY <1>4, <1>5, DispatchRuns, DispatchSorted, DispatchPriorities
<1>18. s.kernel = "Running" => Tops(d)
  BY <1>4, DispatchTops
<1> HIDE DEF d
<1>7. Runs(r, {}) /\ Frame(d, r, {t}) /\ r.state[t] = "Inactive"
  BY <1>1, <1>6, EndRuns
<1>8. "Inactive" \in ThreadState
  BY DEF ThreadState
<1>19. Top(r)
  <2>1. /\ Tops(d) => Tops(r)
        /\ r.kernel = d.kernel
    BY <1>1, <1>6, <1>8, RestateTops DEF Sorted, Typed
  <2>2. Able(s)
    BY <1>2, <1>4, WakenedAble
  <2>3. Able(d)
    BY <1>6, <2>2, Idle \notin {}, FrameAble
  <2>4. Able(r)
    BY <1>1, <1>7, <2>1, <2>3, FrameAble
  <2> QED
    BY <1>6, <1>18, <2>1, <2>3, <2>4 DEF Top, Able
<1>9. Sorted(r, 1) /\ Prioritised(d, r)
  BY <1>1, <1>6, <1>8, RestateSorted, BasicPriorities DEF Prioritised
<1> HIDE DEF r
<1>10. r.priority = s.priority
  BY <1>6, <1>9 DEF Prioritised
<1>11. PICK g : g = Gone(s, {t})
  OBVIOUS
<1>12. /\ g.priority = s.priority
       /\ \A v \in Thread : g.state[v] = IF v \in {t} THEN "Inactive" ELSE s.state[v]
  BY <1>4, <1>11, GoneType
<1>13. Frame(g, r, {t})
  <2> SUFFICES ASSUME NEW v \in Thread \ {t}
               PROVE  \/ r.state[v] = g.state[v]
                      \/ {g.state[v], r.state[v]} \subseteq {"Ready", "Running"}
    BY DEF Frame
  <2>1. g.state[v] = s.state[v]
    BY <1>12
  <2>2. \/ d.state[v] = s.state[v]
        \/ {s.state[v], d.state[v]} \subseteq {"Ready", "Running"}
    BY <1>6 DEF Frame
  <2>3. \/ r.state[v] = d.state[v]
        \/ {d.state[v], r.state[v]} \subseteq {"Ready", "Running"}
    BY <1>7 DEF Frame
  <2> QED
    BY <2>1, <2>2, <2>3
<1>14. \A v \in Thread : v \in {t} => /\ g.state[v] \notin MutexStates
                                      /\ r.state[v] \notin MutexStates
  BY <1>7, <1>12, WaitsNowhere
<1>15. /\ Waiting(Mutex, MutexStates, g, x.thread_list, AnyMutex)
       /\ \A v \in Thread : v \notin {t} => r.priority[v] = g.priority[v]
  BY <1>4, <1>10, <1>11, <1>12
<1>16. Waiting(Mutex, MutexStates, r, x.thread_list, AnyMutex)
  BY <1>13, <1>14, <1>15, WaitsStand
<1>17. priority_base' \in [Thread -> Nat]
  BY <1>1 DEF QueuesInv
<1>20. QueuesInv' /\ k'.state = r.state
  BY <1>1, <1>4, <1>7, <1>9, <1>16, <1>17, <1>19, ServiceKeeps
<1>21. Lives(u, s, {}) /\ Lives(s, d, {}) /\ Lives(d, r, {t})
  BY <1>4, <1>6, <1>7, WakenedLives, FrameLives
<1> QED
  BY <1>2, <1>7, <1>20, <1>21 DEF Lives

---------------------------------------------------------------------------
\* The tick

LEMMA TickStartKeeps ==
  ASSUME QueuesInv, TickStart
  PROVE  QueuesInv' /\ Lives(k, k', {})
<1> DEFINE r == CountDown(k)
<1>1. /\ k' = r /\ mx' = mx /\ priority_base' = priority_base /\ handler' = "tick"
      /\ handler = "thread"
  BY DEF TickStart
<1>2. /\ Runs(k, {}) /\ k.curr = k.next /\ Sorted(k, 1) /\ "priority" \in DOMAIN k
      /\ Waiting(Mutex, MutexStates, k, mx.thread_list, AnyMutex) /\ Able(k)
  BY <1>1, Now
<1>3. Runs(r, {}) /\ SameRun(k, r) /\ r.state = k.state
  BY <1>2, CountDownRuns
<1>4. Sorted(r, 0) /\ r.priority = k.priority
  BY <1>2, CountDownSorted, BasicPriorities DEF Prioritised
<1> HIDE DEF r
<1>5. Waiting(Mutex, MutexStates, r, mx.thread_list, AnyMutex)
  BY <1>2, <1>3, <1>4, WaitsSame
<1>6. Typed(r)
  BY <1>3 DEF Runs
<1>7. Queues(r, mx, {}, 0)
  BY <1>2, <1>3, <1>4, <1>5, <1>6, GoneNobody DEF Queues, SameRun
<1>8. Able(r)
  BY <1>2, <1>3 DEF Able, SameRun
<1> QED
  BY <1>1, <1>3, <1>7, <1>8 DEF QueuesInv, Lives

LEMMA TickEndKeeps ==
  ASSUME QueuesInv, TickEnd
  PROVE  QueuesInv' /\ Lives(k, k', {})
<1> DEFINE d == Dispatch(k)
           r == RoundRobin(d)
<1>1. /\ k' = Return(r) /\ mx' = mx /\ priority_base' = priority_base
      /\ handler' = "thread" /\ ~Expired(k)
  BY DEF TickEnd
<1>2. Queues(k, mx, {}, 1)
  BY <1>1, NoneExpired DEF QueuesInv, Queues
<1>3. /\ Runs(d, {}) /\ Sorted(d, 1) /\ Waiting(Mutex, MutexStates, d, mx.thread_list, AnyMutex)
      /\ Top(d) /\ Frame(k, d, {})
  <2>1. Able(k)
    BY DEF QueuesInv
  <2> QED
    BY <1>2, <2>1, DispatchKeeps
<1> HIDE DEF d
<1>4. "priority" \in DOMAIN d
  BY <1>3 DEF Sorted, Typed
<1>5. Runs(r, {}) /\ Frame(d, r, {}) /\ Sorted(r, 1) /\ r.priority = d.priority
  BY <1>3, <1>4, RoundRobinRuns, RoundRobinSorted, RoundRobinPriorities DEF Prioritised
<1>12. Top(r)
  <2>1. Tops(d) => Tops(r)
    BY <1>3, RoundRobinTops
  <2>2. Typed(d)
    BY <1>3 DEF Runs
  <2>3. r.kernel = d.kernel
    BY <2>2, KernelStays
  <2> HIDE DEF r
  <2>4. Able(d)
    BY <1>3 DEF Top
  <2>5. Able(r)
    BY <1>5, <2>3, <2>4, Idle \notin {}, FrameAble
  <2> QED
    BY <1>3, <2>1, <2>5 DEF Top
<1> HIDE DEF r
<1>13. Top(k') /\ Able(k')
  BY <1>1, <1>5, <1>12, ReturnTop
<1>14. Lives(k, d, {}) /\ Lives(d, r, {})
  BY <1>3, <1>5, FrameLives
<1>6. Waiting(Mutex, MutexStates, r, mx.thread_list, AnyMutex)
  BY <1>3, <1>5, WaitsStand
<1>7. /\ Runs(k', {}) /\ k'.curr = k'.next /\ k'.state = r.state /\ k'.priority = r.priority
  BY <1>1, <1>5, ReturnRuns
<1>8. Sorted(k', 1)
  BY <1>1, <1>5, ReturnSorted
<1>9. Sorted(k', 0) /\ Typed(k')
  BY <1>7, <1>8, Lower DEF Runs
<1>10. Waiting(Mutex, MutexStates, k', mx.thread_list, AnyMutex)
  BY <1>6, <1>7, WaitsSame
<1>11. Queues(k', mx, {}, 0)
  BY <1>7, <1>9, <1>10, GoneNobody DEF Queues
<1> QED
  BY <1>1, <1>7, <1>8, <1>11, <1>13, <1>14 DEF QueuesInv, Lives

\* What the owner inherits from the thread that gives up is taken back first.
LEMMA Restored ==
  ASSUME QueuesInv, NEW t \in Thread, Waits(t)
  PROVE  LET m        == CHOOSE n \in Mutex : t \in ToSet(mx.thread_list[n])
             owner    == mx.owner_thread[m]
             restored == IF Waits(t) /\ m \in PrioInherit
                         THEN Reprioritise(k, owner, Owed(k, mx, owner, t))
                         ELSE k
             y        == Requeue(k, restored, mx, owner)
         IN  Moved(k, mx, restored, y, 0) /\ restored.delay_list = k.delay_list
<1> DEFINE m        == CHOOSE n \in Mutex : t \in ToSet(mx.thread_list[n])
           owner    == mx.owner_thread[m]
           owed     == Owed(k, mx, owner, t)
           r        == Reprioritise(k, owner, owed)
           restored == IF Waits(t) /\ m \in PrioInherit THEN r ELSE k
           y        == Requeue(k, restored, mx, owner)
<1>1. /\ Queues(k, mx, {}, 0) /\ mx \in Mutexes /\ priority_base \in [Thread -> Nat]
      /\ \A n \in Mutex : Held(mx, n)
  BY DEF QueuesInv
<1>2. /\ Typed(k) /\ k.priority \in [Thread -> Nat]
      /\ Waiting(Mutex, MutexStates, k, mx.thread_list, AnyMutex)
  BY <1>1, RunningWaitsNot
<1>3. m \in Mutex /\ t \in ToSet(mx.thread_list[m])
  <2>1. \E n \in Mutex : t \in ToSet(mx.thread_list[n])
    BY <1>2, WaitsNowhere DEF Waiting, Waits
  <2> QED
    BY <2>1
<1> HIDE DEF m
<1>4. owner \in Thread
  <2>1. mx.thread_list[m] # <<>>
    BY <1>3, EmptyWaits
  <2> QED
    BY <1>1, <1>3, <2>1 DEF Held
<1> HIDE DEF owner
<1>5. owed \in Nat
  <2>1. t \in Thread \cup {NoThread} /\ \A n \in Mutex : Distinct(mx.thread_list[n])
    BY <1>2 DEF Waiting
  <2> QED
    BY <1>1, <1>2, <1>4, <2>1, OwedIs
<1> HIDE DEF owed
<1>6. CASE m \in PrioInherit
  <2> DEFINE z == Requeue(k, r, mx, owner)
  <2>1. Moved(k, mx, r, z, 0)
    BY <1>1, <1>4, <1>5, ReprioritiseQueues
  <2>2. r.delay_list = k.delay_list
    BY <1>2, <1>4, <1>5, ReprioritisePriority
  <2> HIDE DEF r
  <2>3. restored = r
    BY <1>6
  <2> QED
    BY <2>1, <2>2, <2>3 DEF m, owner, owed, r
<1>7. CASE m \notin PrioInherit
  <2>1. restored = k /\ y = mx
    BY <1>7 DEF Requeue
  <2>2. Moved(k, mx, k, mx, 0)
    BY <1>1 DEF Moved, SameRun, SameLocks, SameWaiters
  <2> QED
    BY <2>1, <2>2 DEF m, owner, owed
<1> QED
  BY <1>6, <1>7

LEMMA TickReleaseKeeps ==
  ASSUME QueuesInv, TickRelease
  PROVE  QueuesInv' /\ Lives(k, k', {})
<1> DEFINE t        == Head(k.delay_list)
           m        == CHOOSE n \in Mutex : t \in ToSet(mx.thread_list[n])
           owner    == mx.owner_thread[m]
           restored == IF Waits(t) /\ m \in PrioInherit
                       THEN Reprioritise(k, owner, Owed(k, mx, owner, t))
                       ELSE k
           y        == Requeue(k, restored, mx, owner)
           x        == IF Waits(t) THEN Leave(y, t) ELSE mx
           r        == ReleaseHead(restored)
<1>1. /\ handler = "tick" /\ k.delay_list # <<>> /\ k' = r /\ mx' = x
      /\ UNCHANGED <<priority_base, handler>>
  BY DEF TickRelease, Expired
<1>2. /\ Queues(k, mx, {}, 0) /\ mx \in Mutexes /\ priority_base \in [Thread -> Nat]
      /\ \A n \in Mutex : Held(mx, n)
  BY DEF QueuesInv
<1>3. /\ Typed(k) /\ Waiting(Mutex, MutexStates, k, mx.thread_list, AnyMutex)
  BY <1>2, RunningWaitsNot
<1>4. t \in Thread
  BY <1>1, <1>3, RankTypes
<1>5. /\ Waits(t) => Moved(k, mx, restored, y, 0)
      /\ ~Waits(t) => restored = k
      /\ restored.delay_list = k.delay_list
  <2>1. CASE Waits(t)
    <3> HIDE DEF t
    <3> QED
      BY <1>4, <2>1, Restored
  <2>2. CASE ~Waits(t)
    BY <2>2
  <2> QED
    BY <2>1, <2>2
<1>6. /\ Runs(restored, {}) /\ Sorted(restored, 0) /\ restored.curr = restored.next
      /\ Typed(restored) /\ "priority" \in DOMAIN restored
      /\ Able(restored)
  <2>3. Able(k)
    BY DEF QueuesInv
  <2>1. CASE Moved(k, mx, restored, y, 0)
    <3> HIDE DEF restored, y
    <3> QED
      BY <2>1, <2>3, RunningWaitsNot DEF Moved, Queues, SameRun, Able
  <2>2. CASE restored = k
    <3> HIDE DEF restored
    <3> QED
      BY <1>2, <2>2, <2>3, RunningWaitsNot DEF Queues
  <2> QED
    BY <1>5, <2>1, <2>2
<1> HIDE DEF restored, y, m, owner
<1>7. /\ Runs(r, {}) /\ SameRun(restored, r) /\ restored.state[t] \in BlockedStates
      /\ r.state = [restored.state EXCEPT ![t] = "Ready"]
  BY <1>1, <1>5, <1>6, ReleaseHeadRuns
<1>8. Sorted(r, 0) /\ r.priority = restored.priority
  BY <1>1, <1>5, <1>6, ReleaseHeadSorted, WaitPriorities DEF Prioritised
<1> HIDE DEF r, t
<1>9. Frame(restored, r, {t}) /\ r.state[t] \notin MutexStates
  <2>1. restored.state \in [Thread -> ThreadState]
    BY <1>6, RankTypes
  <2> QED
    BY <1>4, <1>7, <2>1, WaitsNowhere DEF Frame
<1>10. /\ x \in Mutexes /\ \A n \in Mutex : Held(x, n)
       /\ Waiting(Mutex, MutexStates, r, x.thread_list, AnyMutex)
  <2>1. CASE Waits(t)
    <3>1. /\ y \in Mutexes /\ SameLocks(mx, y)
          /\ SameWaiters(mx.thread_list, y.thread_list)
          /\ Waiting(Mutex, MutexStates, restored, y.thread_list, AnyMutex)
      BY <1>5, <2>1, RunningWaitsNot DEF Moved
    <3>2. \A n \in Mutex : y.thread_list[n] # <<>> => mx.thread_list[n] # <<>>
      BY <1>2, <3>1, SameWaitersEmpty
    <3>3. \A n \in Mutex : Held(y, n)
      BY <1>2, <3>1, <3>2, HeldSame
    <3> DEFINE w == y.thread_list
               l == [n \in Mutex |-> Without(w[n], t)]
    <3>4. \A n \in Mutex : Held(y, n) /\ Distinct(w[n])
      BY <3>1, <3>3 DEF Waiting
    <3>5. Leave(y, t) \in Mutexes /\ Leave(y, t).thread_list = l
          /\ \A n \in Mutex : Held(Leave(y, t), n)
      BY <1>4, <3>1, <3>4, LeaveHeld
    <3>6. x = Leave(y, t)
      BY <2>1
    <3>7. Waiting(Mutex, MutexStates, r, l, AnyMutex)
      <4> HIDE DEF w
      <4>1. Waiting(Mutex, MutexStates, restored, w, AnyMutex)
        BY <3>1 DEF w
      <4> QED
        BY <1>4, <1>6, <1>8, <1>9, <4>1, WaitsLeave
    <3> QED
      BY <3>5, <3>6, <3>7
  <2>2. CASE ~Waits(t)
    <3>1. x = mx
      BY <2>2
    <3>2. Waiting(Mutex, MutexStates, r, mx.thread_list, AnyMutex)
      <4>1. restored = k
        BY <1>5, <2>2
      <4>2. restored.state[t] \notin MutexStates
        BY <2>2, <4>1 DEF Waits, MutexStates
      <4> QED
        BY <1>3, <1>8, <1>9, <4>1, <4>2, WaitsStand
    <3> QED
      BY <1>2, <3>1, <3>2
  <2> QED
    BY <2>1, <2>2
<1> HIDE DEF x
<1>11. r.curr = r.next /\ Typed(r)
  BY <1>6, <1>7 DEF SameRun, Runs
<1>12. Queues(r, x, {}, 0)
  BY <1>7, <1>8, <1>10, <1>11, GoneNobody DEF Queues
<1>13. Able(r)
  <2>1. r.state[Idle] \in {"Ready", "Running"}
    <3>1. restored.state \in [Thread -> ThreadState] /\ Idle \in Thread
      BY <1>6, RankTypes, MutexAssumption
    <3> QED
      BY <1>6, <1>7, <3>1 DEF Able
  <2> QED
    BY <1>6, <1>7, <2>1 DEF Able, SameRun
<1>14. Lives(k, r, {})
  <2>1. restored.state = k.state /\ restored.state \in [Thread -> ThreadState]
    BY <1>5, <1>6, RankTypes DEF Moved
  <2>2. restored.state[t] # "Inactive"
    BY <1>7 DEF BlockedStates, WaitStates
  <2> QED
    BY <1>4, <1>7, <2>1, <2>2 DEF Lives
<1> QED
  BY <1>1, <1>2, <1>10, <1>12, <1>13, <1>14 DEF QueuesInv

---------------------------------------------------------------------------
\* The beginning, the steps, and what the invariant says

LEMMA QueuesInvInit ==
  ASSUME Init
  PROVE  QueuesInv
<1>1. /\ Idle \in Thread /\ Main \in Thread /\ Idle # Main
      /\ NoThread \notin Thread /\ 0 # Forever
  BY MutexAssumption, SchedulerAssumption
<1> DEFINE st == [t \in Thread |-> CASE t = Main -> "Running"
                                     [] t = Idle -> "Ready"
                                     [] OTHER    -> "Inactive"]
           de == [t \in Thread |-> 0]
<1>2. k = [state |-> st, priority |-> priority_base, delay |-> de,
           ready |-> <<Idle>>, delay_list |-> <<>>, wait_list |-> <<>>,
           curr |-> Main, next |-> Main, robin |-> NoThread, kernel |-> "Running"]
  BY DEF Init
<1>3. /\ st[Main] = "Running" /\ st[Idle] = "Ready"
      /\ \A t \in Thread \ {Main, Idle} : st[t] = "Inactive"
  BY <1>1
<1>4. st \in [Thread -> ThreadState]
  BY <1>1 DEF ThreadState
<1>5. priority_base \in [Thread -> Nat]
  <2>1. (CHOOSE p \in Priority : TRUE) \in Priority
    BY MutexAssumption
  <2> QED
    BY <2>1, MutexAssumption DEF Init
<1>6. de \in [Thread -> Int \cup {Forever}] /\ \A t \in Thread : de[t] = 0
  OBVIOUS
<1>7. <<Idle>> \in Seq(Thread) /\ <<>> \in Seq(Thread)
  BY <1>1
<1> HIDE DEF st, de
<1>8. Typed(k)
  BY <1>1, <1>2, <1>4, <1>5, <1>6, <1>7 DEF Typed
<1>9. /\ k.state = st /\ k.delay = de /\ k.ready = <<Idle>> /\ k.delay_list = <<>>
      /\ k.wait_list = <<>> /\ k.curr = Main /\ k.next = Main
  BY <1>2
<1>10. Runs(k, {})
  <2>1. ToSet(<<>>) = {} /\ ToSet(<<Idle>>) = {Idle}
    BY DEF ToSet
  <2>2. Distinct(<<>>) /\ Distinct(<<Idle>>)
    BY DEF Distinct
  <2>3. Placed(k, {})
    BY <1>1, <1>3, <1>6, <1>9, <2>1, <2>2 DEF Placed, BlockedStates, WaitStates
  <2> QED
    BY <1>3, <1>8, <1>9, <2>3 DEF Runs
<1>11. Sorted(k, 1)
  <2>1. Ascends(k.ready, Urgency(k)) /\ Ascends(k.delay_list, Due(k))
    <3>1. Urgency(k)[Idle] \in Int
      BY <1>1, <1>8, RankTypes
    <3> QED
      BY <1>9, <3>1 DEF Ascends
  <2>2. ToSet(k.delay_list) = {} /\ Distinct(k.delay_list)
    BY <1>9, EmptyWaits
  <2> QED
    BY <1>6, <1>8, <1>9, <2>1, <2>2 DEF Sorted
<1>12. /\ mx \in Mutexes /\ handler = "thread"
       /\ \A m \in Mutex : mx.thread_list[m] = <<>> /\ mx.lock[m] = 0
  <2>1. 0 \in 0 .. LockLimit
    BY MutexAssumption
  <2> QED
    BY <1>7, <2>1 DEF Init, Mutexes
<1>13. Waiting(Mutex, MutexStates, k, mx.thread_list, AnyMutex)
  <2>1. mx.thread_list \in [Mutex -> Seq(Thread)]
    BY <1>12 DEF Mutexes
  <2>2. \A m \in Mutex : mx.thread_list[m] = <<>> /\ ToSet(mx.thread_list[m]) = {}
    BY <1>12, EmptyWaits
  <2>3. \A m \in Mutex : /\ Distinct(mx.thread_list[m])
                         /\ Ascends(mx.thread_list[m], Urgency(k))
    BY <2>2, EmptyWaits
  <2>4. \A t \in Thread : k.state[t] \notin MutexStates
    BY <1>1, <1>3, <1>9, WaitsNowhere
  <2> QED
    BY <2>1, <2>2, <2>3, <2>4 DEF Waiting, MutexStates, WaitStates
<1>14. Queues(k, mx, {}, 0)
  BY <1>8, <1>9, <1>10, <1>11, <1>13, Lower, GoneNobody DEF Queues
<1>15. \A m \in Mutex : Held(mx, m)
  BY <1>12 DEF Held
<1>16. Able(k)
  BY <1>2, <1>3 DEF Able
<1>17. Top(k)
  <2>1. k.priority[Idle] = IdlePriority /\ k.priority[Main] \in Priority
    <3>1. (CHOOSE p \in Priority : TRUE) \in Priority
      BY MutexAssumption
    <3> QED
      BY <1>1, <1>2, <3>1 DEF Init
  <2>2. k.priority[Idle] <= k.priority[Main]
    BY <2>1, MutexAssumption
  <2>3. ToSet(k.ready) = {Idle} /\ k.next = Main
    BY <1>9 DEF ToSet
  <2> QED
    BY <1>16, <2>2, <2>3 DEF Top, Tops, Outranked
<1> QED
  BY <1>5, <1>11, <1>12, <1>14, <1>15, <1>16, <1>17 DEF QueuesInv

LEMMA MutexCallKeeps ==
  ASSUME QueuesInv, NEW m \in Mutex, MutexCall(m)
  PROVE  QueuesInv'
<1>1. CASE MutexNew(m)
  BY <1>1, MutexNewKeeps
<1>2. CASE MutexDelete(m)
  BY <1>2, DeleteKeeps
<1>3. CASE MutexAcquireFree(m)
  BY <1>3, AcquireFreeKeeps
<1>4. CASE MutexAcquireAgain(m) \/ MutexReleaseOnce(m)
  BY <1>4, CountKeeps
<1>5. CASE \E timeout \in Timeout : MutexAcquireWait(m, timeout)
  BY <1>5, AcquireWaitKeeps
<1>6. CASE MutexRelease(m)
  BY <1>6, ReleaseKeeps
<1> QED
  BY <1>1, <1>2, <1>3, <1>4, <1>5, <1>6 DEF MutexCall

LEMMA ThreadCallKeeps ==
  ASSUME QueuesInv, NEW t \in Application, ThreadCall(t)
  PROVE  QueuesInv'
<1>6. t \in Thread
  BY DEF Application
<1>1. CASE \E p \in Priority : ThreadNew(t, p)
  BY <1>1, <1>6, ThreadNewKeeps
<1>2. CASE \E p \in Priority : ThreadSetPriority(t, p)
  BY <1>2, <1>6, ThreadSetPriorityKeeps
<1>3. CASE ThreadSuspend(t)
  BY <1>3, ThreadSuspendKeeps
<1>4. CASE ThreadResume(t)
  BY <1>4, <1>6, ThreadResumeKeeps
<1>5. CASE ThreadTerminate(t)
  BY <1>5, ThreadTerminateKeeps
<1> QED
  BY <1>1, <1>2, <1>3, <1>4, <1>5 DEF ThreadCall

LEMMA QueuesInvNext ==
  ASSUME QueuesInv, [Next]_vars
  PROVE  QueuesInv'
<1>1. CASE \E m \in Mutex : MutexCall(m)
  BY <1>1, MutexCallKeeps
<1>2. CASE \E t \in Application : ThreadCall(t)
  BY <1>2, ThreadCallKeeps
<1>3. CASE ThreadExit
  BY <1>3, ThreadExitKeeps
<1>4. CASE \E ticks \in Timeout : Delay(ticks)
  BY <1>4, DelayKeeps
<1>5. CASE KernelLock \/ KernelUnlock
  BY <1>5, LockKeeps
<1>6. CASE TickStart
  BY <1>6, TickStartKeeps
<1>7. CASE TickRelease
  BY <1>7, TickReleaseKeeps
<1>8. CASE TickEnd
  BY <1>8, TickEndKeeps
<1>9. CASE UNCHANGED vars
  BY <1>9 DEF vars, QueuesInv
<1> QED
  BY <1>1, <1>2, <1>3, <1>4, <1>5, <1>6, <1>7, <1>8, <1>9 DEF Next

LEMMA QueuesInvAlways == Spec => []QueuesInv
<1>1. Init => QueuesInv
  BY QueuesInvInit
<1>2. QueuesInv /\ [Next]_vars => QueuesInv'
  BY QueuesInvNext
<1> QED
  BY <1>1, <1>2, PTL DEF Spec

LEMMA QueuesInvSays ==
  ASSUME QueuesInv
  PROVE  /\ TypeOK /\ WaitersListed /\ WaitersSorted
         /\ "Lock" \notin Habits => HighestRuns
<1>1. /\ Runs(k, {}) /\ Sorted(k, 0) /\ mx \in Mutexes
      /\ Waiting(Mutex, MutexStates, k, mx.thread_list, AnyMutex)
      /\ \A m \in Mutex : Held(mx, m)
  BY RunningWaitsNot DEF QueuesInv, Queues
<1>2. /\ Typed(k) /\ k.delay \in [Thread -> Int \cup {Forever}]
      /\ \A t \in Thread : k.delay[t] \in Nat \cup {Forever}
      /\ k.priority \in [Thread -> Nat]
  BY <1>1, RankTypes DEF Sorted
<1>3. k \in Scheduler
  <2>1. k.delay \in [Thread -> Nat \cup {Forever}]
    BY <1>2
  <2> QED
    BY <1>2, <2>1 DEF Typed, Scheduler
<1>4. TypeOK
  BY <1>1, <1>3 DEF QueuesInv, TypeOK
<1>5. WaitersListed
  BY <1>1 DEF Waiting, WaitersListed, Held, Waits, MutexStates
<1>6. WaitersSorted
  <2> SUFFICES ASSUME NEW m \in Mutex, NEW i \in DOMAIN mx.thread_list[m],
                      NEW j \in DOMAIN mx.thread_list[m], i < j
               PROVE  k.priority[mx.thread_list[m][i]] >= k.priority[mx.thread_list[m][j]]
    BY DEF WaitersSorted
  <2>1. mx.thread_list[m][i] \in Thread /\ mx.thread_list[m][j] \in Thread
    BY <1>1 DEF Mutexes
  <2>2. Urgency(k)[mx.thread_list[m][i]] <= Urgency(k)[mx.thread_list[m][j]]
    BY <1>1 DEF Waiting, Ascends
  <2> QED
    BY <1>2, <2>1, <2>2 DEF Urgency
<1>7. "Lock" \notin Habits => HighestRuns
  BY DEF QueuesInv, Queues, Top, Tops, Outranked, HighestRuns
<1> QED
  BY <1>4, <1>5, <1>6, <1>7


---------------------------------------------------------------------------
\* What an owner inherits

\* The threads t inherits the priority of.
Creditors(x, t) ==
  {u \in Thread : \E m \in PrioInherit \cap Owned(x, t) : u \in ToSet(x.thread_list[m])}

\* With the priorities p and the base priorities b, t has what it is owed.
Fair(p, x, b, t) ==
  /\ p[t] = b[t] \/ \E u \in Creditors(x, t) : p[t] = p[u]
  /\ b[t] <= p[t]
  /\ \A u \in Creditors(x, t) : p[u] <= p[t]

\* Who waits owns nothing, and every live thread, but for those of D, has what it
\* is owed.
Settled(q, x, b, D) ==
  /\ \A m \in Mutex : \A u \in ToSet(x.thread_list[m]) : Owned(x, u) = {}
  /\ \A t \in Thread \ D : q.state[t] # "Inactive" => Fair(q.priority, x, b, t)

\* Who waits owns nothing, so nobody is his own creditor, nor that of a waiting one.
LEMMA CreditorsFree ==
  ASSUME NEW q, NEW x, NEW b, NEW D, Settled(q, x, b, D), NEW t, NEW u \in Creditors(x, t)
  PROVE  Owned(x, u) = {} /\ u # t /\ Creditors(x, u) = {}
<1>1. PICK m \in PrioInherit \cap Owned(x, t) : u \in ToSet(x.thread_list[m])
  BY DEF Creditors
<1>2. m \in Mutex /\ m \in Owned(x, t)
  BY DEF Owned
<1>3. Owned(x, u) = {}
  BY <1>1, <1>2 DEF Settled
<1> QED
  BY <1>2, <1>3 DEF Creditors

LEMMA CreditorsSame ==
  ASSUME NEW x, NEW y, NEW t, Owned(y, t) = Owned(x, t),
         \A m \in PrioInherit \cap Owned(x, t) :
           ToSet(y.thread_list[m]) = ToSet(x.thread_list[m])
  PROVE  Creditors(y, t) = Creditors(x, t)
BY DEF Creditors

\* What a thread is owed depends on its creditors alone.
LEMMA FairSame ==
  ASSUME NEW p, NEW x, NEW b, NEW t, Fair(p, x, b, t),
         NEW r, NEW y, NEW c, Creditors(y, t) = Creditors(x, t),
         r[t] = p[t], c[t] = b[t], \A u \in Creditors(x, t) : r[u] = p[u]
  PROVE  Fair(r, y, c, t)
BY DEF Fair

\* For all but t nothing changes that would count.
Elsewhere(q, x, b, r, y, c, t) ==
  \A u \in Thread \ {t} : /\ r.state[u] = "Inactive" <=> q.state[u] = "Inactive"
                          /\ Creditors(y, u) = Creditors(x, u)
                          /\ c[u] = b[u] /\ r.priority[u] = q.priority[u]

\* All is settled again after a step when it is for the thread it was about.
LEMMA SettledElse ==
  ASSUME NEW q, NEW x, NEW b, NEW D, Settled(q, x, b, D),
         NEW r, NEW y, NEW c, NEW t, Elsewhere(q, x, b, r, y, c, t),
         r.priority[t] = q.priority[t]
           \/ \A u \in Thread : t \notin Creditors(x, u),
         t \in Thread \ D /\ r.state[t] # "Inactive" => Fair(r.priority, y, c, t),
         \A m \in Mutex : \A u \in ToSet(y.thread_list[m]) : Owned(y, u) = {}
  PROVE  Settled(r, y, c, D)
<1> SUFFICES ASSUME NEW u \in Thread \ D, r.state[u] # "Inactive"
             PROVE  Fair(r.priority, y, c, u)
  BY DEF Settled
<1>1. CASE u = t
  BY <1>1
<1>2. CASE u # t
  <2>1. q.state[u] # "Inactive"
    BY <1>2 DEF Elsewhere
  <2>2. Fair(q.priority, x, b, u)
    BY <2>1 DEF Settled
  <2>3. \A v \in Creditors(x, u) : v \in Thread /\ r.priority[v] = q.priority[v]
    <3>1. \A v \in Creditors(x, u) : v \in Thread
      BY DEF Creditors
    <3> QED
      BY <3>1 DEF Elsewhere
  <2>4. /\ Creditors(y, u) = Creditors(x, u) /\ c[u] = b[u]
        /\ r.priority[u] = q.priority[u]
    BY <1>2 DEF Elsewhere
  <2> QED
    BY <2>2, <2>3, <2>4, FairSame
<1> QED
  BY <1>1, <1>2

\* Nothing changes that would count.
LEMMA SettledSame ==
  ASSUME NEW q, NEW x, NEW b, NEW D, Settled(q, x, b, D),
         NEW r, NEW y, NEW c, Lives(q, r, D), r.priority = q.priority, c = b,
         \A u \in Thread : Owned(y, u) = Owned(x, u),
         \A m \in Mutex : ToSet(y.thread_list[m]) = ToSet(x.thread_list[m]),
         \A m \in Mutex : ToSet(x.thread_list[m]) \subseteq Thread
  PROVE  Settled(r, y, c, D)
<1>1. \A u \in Thread : Creditors(y, u) = Creditors(x, u)
  <2> SUFFICES ASSUME NEW u \in Thread  PROVE Creditors(y, u) = Creditors(x, u)
    OBVIOUS
  <2>1. \A m \in PrioInherit \cap Owned(x, u) :
          ToSet(y.thread_list[m]) = ToSet(x.thread_list[m])
    BY DEF Owned
  <2> QED
    BY <2>1, CreditorsSame
<1>2. \A m \in Mutex : \A u \in ToSet(y.thread_list[m]) : Owned(y, u) = {}
  BY DEF Settled
<1> SUFFICES ASSUME NEW u \in Thread \ D, r.state[u] # "Inactive"
             PROVE  Fair(r.priority, y, c, u)
  BY <1>2 DEF Settled
<1>3. Fair(q.priority, x, b, u)
  BY DEF Settled, Lives
<1> QED
  BY <1>1, <1>3, FairSame

\* The first of an ordered list has the highest priority.
LEMMA FirstHighest ==
  ASSUME NEW q, q.priority \in [Thread -> Nat], NEW l \in Seq(Thread),
         Ascends(l, Urgency(q)), NEW u \in ToSet(l)
  PROVE  Head(l) \in ToSet(l) /\ Head(l) \in Thread /\ q.priority[u] <= q.priority[Head(l)]
<1>1. Len(l) \in Nat /\ DOMAIN l = 1 .. Len(l) /\ \A i \in 1 .. Len(l) : l[i] \in Thread
  OBVIOUS
<1>2. PICK i \in 1 .. Len(l) : l[i] = u
  BY <1>1 DEF ToSet
<1>3. Head(l) = l[1] /\ 1 \in 1 .. Len(l)
  BY <1>1, <1>2
<1>4. Head(l) \in ToSet(l) /\ Head(l) \in Thread /\ u \in Thread
  BY <1>1, <1>2, <1>3 DEF ToSet
<1>5. i = 1 \/ Urgency(q)[l[1]] <= Urgency(q)[l[i]]
  BY <1>1, <1>2, <1>3 DEF Ascends
<1>6. /\ Urgency(q)[Head(l)] = 0 - q.priority[Head(l)] /\ Urgency(q)[u] = 0 - q.priority[u]
      /\ q.priority[Head(l)] \in Nat /\ q.priority[u] \in Nat
  BY <1>4 DEF Urgency
<1>7. i = 1 \/ q.priority[u] <= q.priority[Head(l)]
  BY <1>2, <1>3, <1>5, <1>6
<1> QED
  BY <1>2, <1>3, <1>4, <1>6, <1>7

\* A thread that is given what it owes has what it is owed: the first threads of the
\* lists stand for all of them, those that give up apart.
LEMMA OwedFair ==
  ASSUME NEW s, s.priority \in [Thread -> Nat], NEW x \in Mutexes, NEW t \in Thread,
         NEW gone \in Thread \cup {NoThread}, priority_base \in [Thread -> Nat],
         \A m \in Mutex : /\ Distinct(x.thread_list[m])
                          /\ Ascends(x.thread_list[m], Urgency(s)),
         NEW y, Owned(y, t) = ToSet(MutexList(x, t)),
         \A m \in Owned(y, t) : /\ ToSet(y.thread_list[m]) = ToSet(x.thread_list[m]) \ {gone}
                                /\ t \notin ToSet(x.thread_list[m]),
         NEW p, p = [s.priority EXCEPT ![t] = Owed(s, x, t, gone)]
  PROVE  Fair(p, y, priority_base, t)
<1> DEFINE L(m) == Without(x.thread_list[m], gone)
           D == Dues(s, x, t, gone)
           owed == Owed(s, x, t, gone)
<1>1. owed \in D /\ owed \in Nat /\ \A d \in D : d <= owed
  BY OwedIs
<1>2. D = {priority_base[t]}
            \cup {s.priority[Head(L(m))] :
                    m \in {n \in PrioInherit \cap Owned(y, t) : L(n) # <<>>}}
  BY DEF Dues
<1> HIDE DEF D, owed
<1>3. p[t] = owed /\ \A u \in Thread \ {t} : p[u] = s.priority[u]
  BY DEF owed
<1>4. ASSUME NEW m \in Owned(y, t)
      PROVE  /\ L(m) \in Seq(Thread) /\ Ascends(L(m), Urgency(s))
             /\ ToSet(L(m)) = ToSet(y.thread_list[m])
             /\ t \notin ToSet(L(m))
  <2>1. m \in Mutex
    BY DEF Owned
  <2>2. PICK l : l = x.thread_list[m]
    OBVIOUS
  <2>3. l \in Seq(Thread) /\ Distinct(l) /\ Ascends(l, Urgency(s))
    BY <2>1, <2>2 DEF Mutexes
  <2>4. Without(l, gone) \in Seq(Thread) /\ ToSet(Without(l, gone)) = ToSet(l) \ {gone}
    BY <2>3, WithoutAny
  <2>5. Ascends(Without(l, gone), Urgency(s))
    <3>1. CASE gone \in Thread
      <4>1. Urgency(s) \in [Thread -> Int]
        BY DEF Urgency
      <4> QED
        BY <2>3, <3>1, <4>1, WithoutAscends
    <3>2. CASE gone \notin Thread
      <4>1. gone \notin ToSet(l)
        BY <2>3, <3>2 DEF ToSet
      <4> QED
        BY <2>3, <4>1 DEF Without
    <3> QED
      BY <3>1, <3>2
  <2> QED
    BY <2>2, <2>4, <2>5
<1>5. ASSUME NEW m \in PrioInherit \cap Owned(y, t), L(m) # <<>>
      PROVE  /\ Head(L(m)) \in Creditors(y, t) /\ Head(L(m)) \in Thread \ {t}
             /\ \A u \in ToSet(L(m)) : s.priority[u] <= s.priority[Head(L(m))]
  <2>1. PICK l : l = L(m)
    OBVIOUS
  <2>2. l \in Seq(Thread) /\ Ascends(l, Urgency(s)) /\ l # <<>> /\ t \notin ToSet(l)
    BY <1>4, <1>5, <2>1
  <2>3. Head(l) \in ToSet(l) /\ Head(l) \in Thread
    BY <2>2 DEF ToSet
  <2>4. \A u \in ToSet(l) : s.priority[u] <= s.priority[Head(l)]
    BY <2>2, FirstHighest
  <2>5. ToSet(l) = ToSet(y.thread_list[m])
    BY <1>4, <2>1
  <2> HIDE DEF L
  <2>6. Head(l) \in Creditors(y, t)
    BY <2>3, <2>5 DEF Creditors
  <2> QED
    BY <2>1, <2>2, <2>3, <2>4, <2>6
<1>6. ASSUME NEW u \in Creditors(y, t)
      PROVE  u \in Thread \ {t} /\ s.priority[u] <= owed /\ s.priority[u] \in Nat
  <2>1. PICK m \in PrioInherit \cap Owned(y, t) : u \in ToSet(y.thread_list[m])
    BY DEF Creditors
  <2>2. u \in ToSet(L(m)) /\ u # t /\ u \in Thread
    BY <1>4, <2>1 DEF Creditors
  <2>3. L(m) # <<>>
    BY <2>2, EmptyWaits
  <2>4. s.priority[Head(L(m))] \in D
    BY <1>2, <2>3
  <2>5. Head(L(m)) \in Thread /\ s.priority[u] <= s.priority[Head(L(m))]
    BY <1>5, <2>2, <2>3
  <2> HIDE DEF L
  <2>6. s.priority[Head(L(m))] <= owed /\ s.priority[Head(L(m))] \in Nat
    BY <1>1, <2>4, <2>5
  <2> QED
    BY <1>1, <2>2, <2>5, <2>6
<1>7. priority_base[t] <= owed
  BY <1>1, <1>2
<1>8. owed = priority_base[t] \/ \E u \in Creditors(y, t) : u # t /\ owed = s.priority[u]
  BY <1>1, <1>2, <1>5
<1> HIDE DEF L
<1> QED
  BY <1>3, <1>6, <1>7, <1>8 DEF Fair

\* A free mutex goes to the first thread waiting for it, who had nothing so far and
\* outranks those behind it.
LEMMA HandOverSettled ==
  ASSUME NEW q, q.priority \in [Thread -> Nat], NEW x \in Mutexes, NEW b, NEW D,
         Settled(q, x, b, D), NEW m \in Mutex, x.lock[m] = 0,
         Distinct(x.thread_list[m]), Ascends(x.thread_list[m], Urgency(q)),
         \A n \in Mutex \ {m} : ToSet(x.thread_list[n]) \cap ToSet(x.thread_list[m]) = {},
         x.thread_list[m] # <<>> =>
           /\ Head(x.thread_list[m]) \in Thread \ D
           /\ q.state[Head(x.thread_list[m])] # "Inactive"
  PROVE  Settled(q, HandOver(x, m), b, D)
<1> DEFINE w == x.thread_list
           h == Head(w[m])
           l == [w EXCEPT ![m] = Tail(@)]
           z == [x EXCEPT !.thread_list = l]
           y == HandOver(x, m)
<1>1. CASE w[m] = <<>>
  BY <1>1 DEF HandOver
<1>2. CASE w[m] # <<>>
  <2>1. h \in Thread \ D /\ q.state[h] # "Inactive"
    BY <1>2
  <2>2. y = Hold(z, m, h)
    BY <1>2 DEF HandOver
  <2>3. w \in [Mutex -> Seq(Thread)]
    BY DEF Mutexes
  <2>4. /\ Tail(w[m]) \in Seq(Thread) /\ h \in ToSet(w[m])
        /\ ToSet(Tail(w[m])) = ToSet(w[m]) \ {h}
    BY <1>2, <2>3, TailSet
  <2>5. /\ l \in [Mutex -> Seq(Thread)]
        /\ ToSet(l[m]) = ToSet(w[m]) \ {h}
        /\ \A n \in Mutex \ {m} : l[n] = w[n]
    BY <2>3, <2>4
  <2>6. \A u \in ToSet(w[m]) : q.priority[u] <= q.priority[h]
    <3>1. PICK list : list = w[m]
      OBVIOUS
    <3>2. list \in Seq(Thread) /\ Ascends(list, Urgency(q))
      BY <2>3, <3>1
    <3>3. \A u \in ToSet(list) : q.priority[u] <= q.priority[Head(list)]
      BY <3>2, FirstHighest
    <3> QED
      BY <3>1, <3>3
  <2> HIDE DEF l, h, y, w
  <2>7. z \in Mutexes /\ SameLocks(x, z) /\ z.thread_list = l
    BY <2>5, ListsType
  <2> HIDE DEF z
  <2>8. Taken(z, m, h, y)
    BY <2>1, <2>2, <2>7, HoldType
  <2>9. /\ y.id = x.id /\ y.lock[m] = 1 /\ y.owner_thread[m] = h /\ y.thread_list = l
        /\ \A n \in Mutex \ {m} : /\ y.lock[n] = x.lock[n]
                                  /\ y.owner_thread[n] = x.owner_thread[n]
    BY <2>7, <2>8 DEF Taken, Mutexes, SameLocks
  <2>10. Owned(x, h) = {}
    BY <2>4 DEF Settled, w
  <2>11. /\ Owned(y, h) \subseteq {m} /\ \A u : m \notin Owned(x, u)
         /\ \A u \in Thread \ {h} : Owned(y, u) = Owned(x, u)
    BY <2>9, <2>10 DEF Owned
  <2>12. \A u \in Thread \ {h} : Creditors(y, u) = Creditors(x, u)
    <3> SUFFICES ASSUME NEW u \in Thread \ {h}  PROVE Creditors(y, u) = Creditors(x, u)
      OBVIOUS
    <3>1. Owned(y, u) = Owned(x, u)
      BY <2>11
    <3>2. \A n \in PrioInherit \cap Owned(x, u) :
            ToSet(y.thread_list[n]) = ToSet(x.thread_list[n])
      BY <2>5, <2>9, <2>11 DEF Owned, w
    <3> QED
      BY <3>1, <3>2, CreditorsSame
  <2>13. Fair(q.priority, y, b, h)
    <3>1. Fair(q.priority, x, b, h) /\ Creditors(x, h) = {}
      BY <2>1, <2>10 DEF Settled, Creditors
    <3>2. \A u \in Creditors(y, h) : u \in ToSet(w[m])
      BY <2>5, <2>9, <2>11 DEF Creditors
    <3> QED
      BY <2>6, <3>1, <3>2 DEF Fair
  <2>14. \A n \in Mutex : \A u \in ToSet(y.thread_list[n]) : Owned(y, u) = {}
    <3> SUFFICES ASSUME NEW n \in Mutex, NEW u \in ToSet(l[n])
                 PROVE  Owned(y, u) = {}
      BY <2>9
    <3>1. u \in ToSet(w[n]) /\ u # h
      <4>1. CASE n = m
        BY <2>5, <4>1
      <4>2. CASE n # m
        BY <2>4, <2>5, <4>2 DEF w
      <4> QED
        BY <4>1, <4>2
    <3>2. u \in Thread /\ Owned(x, u) = {}
      BY <2>3, <3>1 DEF Settled, ToSet, w
    <3> QED
      BY <2>11, <3>1, <3>2
  <2>15. Elsewhere(q, x, b, q, y, b, h)
    BY <2>12 DEF Elsewhere
  <2>16. Settled(q, y, b, D)
    BY <2>13, <2>14, <2>15, SettledElse
  <2> QED
    BY <2>16 DEF y
<1> QED
  BY <1>1, <1>2
---------------------------------------------------------------------------
\* The links, step by step

\* A live thread owns exactly the mutexes of its list, a dead one owns none;
\* the threads of D do not count.
Linked(q, x, D) ==
  \A t \in Thread \ D : IF q.state[t] = "Inactive" THEN Owned(x, t) = {}
                        ELSE \E l : Chain(x, t, l)

SameLinks(x, y) ==
  /\ y.owner_prev = x.owner_prev /\ y.owner_next = x.owner_next
  /\ y.mutex_list = x.mutex_list

LEMMA LinkedSame ==
  ASSUME NEW q, NEW x, NEW D, Linked(q, x, D), NEW y, SameLinks(x, y),
         \A t \in Thread \ D : Owned(y, t) = Owned(x, t), NEW r, Lives(q, r, D)
  PROVE  Linked(r, y, D)
<1> SUFFICES ASSUME NEW t \in Thread \ D
             PROVE  IF r.state[t] = "Inactive" THEN Owned(y, t) = {}
                    ELSE \E l : Chain(y, t, l)
  BY DEF Linked
<1>1. /\ IF q.state[t] = "Inactive" THEN Owned(x, t) = {} ELSE \E l : Chain(x, t, l)
      /\ r.state[t] = "Inactive" <=> q.state[t] = "Inactive"
      /\ Owned(y, t) = Owned(x, t)
  BY DEF Linked, Lives
<1>2. ASSUME NEW l, Chain(x, t, l)  PROVE Chain(y, t, l)
  BY <1>1, <1>2 DEF Chain, Strung, SameLinks
<1> QED
  BY <1>1, <1>2

\* Where the locks are the same, so are the owners.
LEMMA LocksLinked ==
  ASSUME NEW q, NEW x, NEW D, Linked(q, x, D), NEW y, SameLocks(x, y),
         NEW r, Lives(q, r, D)
  PROVE  Linked(r, y, D)
<1>1. SameLinks(x, y) /\ \A t \in Thread \ D : Owned(y, t) = Owned(x, t)
  BY DEF SameLocks, SameLinks, Owned
<1> QED
  BY <1>1, LinkedSame

\* No two threads own a mutex.
LEMMA OwnersDiffer ==
  ASSUME NEW x, NEW t, NEW u, t # u
  PROVE  Owned(x, t) \cap Owned(x, u) = {}
BY DEF Owned

\* t becomes the owner of a free mutex.
LEMMA HoldLinked ==
  ASSUME NEW q, NEW x \in Mutexes, NEW D, Linked(q, x, D),
         NEW m \in Mutex, x.id[m], x.lock[m] = 0,
         NEW t \in Thread \ D, q.state[t] # "Inactive", NEW y, Taken(x, m, t, y)
  PROVE  Linked(q, y, D) /\ \A u \in Thread \ {t} : Owned(y, u) = Owned(x, u)
<1>1. PICK l : Strung(x, t, l) /\ ToSet(l) = Owned(x, t)
  BY DEF Linked, Chain
<1>2. /\ y.id = x.id /\ y.lock[m] = 1 /\ y.owner_thread[m] = t
      /\ \A n \in Mutex \ {m} : y.lock[n] = x.lock[n] /\ y.owner_thread[n] = x.owner_thread[n]
  BY DEF Taken, Mutexes
<1>3. /\ Owned(y, t) = Owned(x, t) \cup {m}
      /\ \A u \in Thread \ {t} : Owned(y, u) = Owned(x, u)
      /\ \A u \in Thread : m \notin Owned(x, u)
  BY <1>2 DEF Owned
<1>4. ASSUME NEW u \in Thread \ D
      PROVE  IF q.state[u] = "Inactive" THEN Owned(y, u) = {} ELSE \E r : Chain(y, u, r)
  <2>1. CASE u = t
    <3>1. m \notin ToSet(l)
      BY <1>1, <1>3
    <3>2. Strung(y, t, <<m>> \o l) /\ ToSet(<<m>> \o l) = ToSet(l) \cup {m}
      BY <1>1, <3>1, HoldStrung
    <3>3. Chain(y, t, <<m>> \o l)
      BY <1>1, <1>3, <3>2 DEF Chain
    <3> QED
      BY <2>1, <3>3
  <2>2. CASE u # t /\ q.state[u] = "Inactive"
    BY <1>3, <2>2 DEF Linked
  <2>3. CASE u # t /\ q.state[u] # "Inactive"
    <3>1. PICK r : Strung(x, u, r) /\ ToSet(r) = Owned(x, u)
      BY <2>3 DEF Linked, Chain
    <3>2. m \notin ToSet(r) /\ ToSet(l) \cap ToSet(r) = {}
      BY <1>1, <1>3, <2>3, <3>1, OwnersDiffer
    <3>3. Strung(y, u, r)
      BY <1>1, <2>3, <3>1, <3>2, HoldOthers
    <3>4. Chain(y, u, r)
      BY <1>3, <2>3, <3>1, <3>3 DEF Chain
    <3> QED
      BY <2>3, <3>4
  <2> QED
    BY <2>1, <2>2, <2>3
<1> QED
  BY <1>3, <1>4 DEF Linked

\* m leaves the list of its owner and is not owned any more.
LEMMA UnholdLinked ==
  ASSUME NEW q, NEW x \in Mutexes, Linked(q, x, {}), NEW m \in Mutex, NEW t \in Thread,
         m \in Owned(x, t), NEW y, Unlinked(x, m, y), NEW z, SameLinks(y, z),
         \A u \in Thread : Owned(z, u) = Owned(x, u) \ {m}
  PROVE  Linked(q, z, {}) /\ q.state[t] # "Inactive"
<1>1. q.state[t] # "Inactive"
  BY DEF Linked
<1>2. PICK l : Strung(x, t, l) /\ ToSet(l) = Owned(x, t)
  BY <1>1 DEF Linked, Chain
<1>3. PICK j \in 1 .. Len(l) : l[j] = m
  <2>1. l \in Seq(Mutex) /\ m \in ToSet(l)
    BY <1>2 DEF Strung
  <2> QED
    BY <2>1, StrungFacts
<1>4. x.owner_thread[l[j]] = t /\ Unlinked(x, l[j], y)
  BY <1>3 DEF Owned
<1>5. ASSUME NEW u, NEW r, Strung(y, u, r)  PROVE Strung(z, u, r)
  BY <1>5 DEF Strung, SameLinks
<1>6. ASSUME NEW u \in Thread
      PROVE  IF q.state[u] = "Inactive" THEN Owned(z, u) = {} ELSE \E r : Chain(z, u, r)
  <2>1. CASE u = t
    <3> DEFINE r == RemoveAt(l, j)
    <3>1. Strung(y, t, r) /\ ToSet(r) = ToSet(l) \ {l[j]}
      BY <1>2, <1>4, UnholdStrung
    <3> HIDE DEF r
    <3>2. Strung(z, t, r)
      BY <1>5, <3>1
    <3>3. Chain(z, t, r)
      BY <1>2, <1>3, <3>1, <3>2 DEF Chain
    <3> QED
      BY <1>1, <2>1, <3>3
  <2>2. CASE u # t /\ q.state[u] = "Inactive"
    BY <2>2 DEF Linked
  <2>3. CASE u # t /\ q.state[u] # "Inactive"
    <3>1. PICK r : Strung(x, u, r) /\ ToSet(r) = Owned(x, u)
      BY <2>3 DEF Linked, Chain
    <3>2. ToSet(l) \cap ToSet(r) = {} /\ m \notin Owned(x, u)
      BY <1>2, <2>3, <3>1, OwnersDiffer
    <3>3. Strung(y, u, r)
      BY <1>2, <1>4, <2>3, <3>1, <3>2, UnholdOthers
    <3>4. Strung(z, u, r)
      BY <1>5, <3>3
    <3>5. Chain(z, u, r)
      BY <3>1, <3>2, <3>4 DEF Chain
    <3> QED
      BY <2>3, <3>5
  <2> QED
    BY <2>1, <2>2, <2>3
<1> QED
  BY <1>1, <1>6 DEF Linked

\* A free mutex goes to the first thread waiting for it, which is alive.
LEMMA HandOverLinked ==
  ASSUME NEW q, NEW x \in Mutexes, NEW D, Linked(q, x, D), NEW m \in Mutex, x.lock[m] = 0,
         x.thread_list[m] # <<>> =>
           /\ x.id[m] /\ Head(x.thread_list[m]) \in Thread \ D
           /\ q.state[Head(x.thread_list[m])] # "Inactive"
  PROVE  LET y == HandOver(x, m)
         IN  Linked(q, y, D) /\ \A u \in D \cap Thread : Owned(y, u) = Owned(x, u)
<1> DEFINE w == x.thread_list
           h == Head(w[m])
           l == [w EXCEPT ![m] = Tail(@)]
           z == [x EXCEPT !.thread_list = l]
           y == HandOver(x, m)
<1>1. CASE w[m] = <<>>
  BY <1>1 DEF HandOver
<1>2. CASE w[m] # <<>>
  <2>1. x.id[m] /\ h \in Thread \ D /\ q.state[h] # "Inactive"
    BY <1>2
  <2>2. y = Hold(z, m, h)
    BY <1>2 DEF HandOver
  <2>3. w \in [Mutex -> Seq(Thread)]
    BY DEF Mutexes
  <2>4. l \in [Mutex -> Seq(Thread)]
    BY <1>2, <2>3
  <2> HIDE DEF l, h, y
  <2>5. z \in Mutexes /\ SameLocks(x, z)
    BY <2>4, ListsType
  <2> HIDE DEF z
  <2>6. Lives(q, q, D)
    BY DEF Lives
  <2>7. Linked(q, z, D)
    BY <2>5, <2>6, LocksLinked
  <2>8. z.id[m] /\ z.lock[m] = 0 /\ \A u \in Thread : Owned(z, u) = Owned(x, u)
    BY <2>1, <2>5 DEF SameLocks, Owned
  <2>9. Taken(z, m, h, y)
    BY <2>1, <2>2, <2>5, HoldType
  <2>10. Linked(q, y, D) /\ \A u \in Thread \ {h} : Owned(y, u) = Owned(z, u)
    BY <2>1, <2>5, <2>7, <2>8, <2>9, HoldLinked
  <2> QED
    BY <2>1, <2>8, <2>10 DEF y
<1> QED
  BY <1>1, <1>2

\* t, on its way out, waits for nothing, so it is nobody's heir.
LEMMA PassLinked ==
  ASSUME NEW q, NEW s, NEW x, NEW T, NEW low, Leaves(q, s, x, T, low),
         NEW t \in Thread, t \in T \/ (T = {} /\ t = q.curr),
         Linked(q, x, {t}), NEW m \in Mutex, m \in Owned(x, t), NEW b
  PROVE  LET y == HandOver([x EXCEPT !.lock[m] = 0], m)
         IN  /\ Linked(q, y, {t}) /\ Owned(y, t) = Owned(x, t) \ {m}
             /\ Settled(q, x, b, {t}) => Settled(q, y, b, {t})
<1> DEFINE z == [x EXCEPT !.lock[m] = 0]
           h == Head(x.thread_list[m])
<1>1. /\ Queues(s, x, T, low) /\ x \in Mutexes /\ \A n \in Mutex : Held(x, n)
      /\ SameRun(q, s) /\ Wakened(q, s, T)
  BY DEF Leaves
<1>2. 0 \in 0 .. LockLimit
  BY MutexAssumption
<1>3. /\ z \in Mutexes /\ z.lock = [x.lock EXCEPT ![m] = 0]
      /\ SameLinks(x, z) /\ z.id = x.id /\ z.owner_thread = x.owner_thread
      /\ z.thread_list = x.thread_list
  BY <1>1, <1>2, LockType DEF SameLinks
<1>4. /\ z.lock[m] = 0 /\ z.id[m]
      /\ \A n \in Mutex \ {m} : z.lock[n] = x.lock[n]
  BY <1>1, <1>3 DEF Mutexes, Owned
<1> HIDE DEF z
<1>5. \A u \in Thread : Owned(z, u) = Owned(x, u) \ {m}
  BY <1>3, <1>4 DEF Owned
<1>6. Linked(q, z, {t})
  <2>1. \A u \in Thread \ {t} : Owned(z, u) = Owned(x, u)
    BY <1>5 DEF Owned
  <2>2. Lives(q, q, {t})
    BY DEF Lives
  <2> QED
    BY <1>3, <2>1, <2>2, LinkedSame
<1>7. ASSUME x.thread_list[m] # <<>>
      PROVE  h \in Thread \ {t} /\ q.state[h] # "Inactive"
  <2>1. /\ Typed(s) /\ Waiting(Mutex, MutexStates, Gone(s, T), x.thread_list, AnyMutex)
    BY <1>1 DEF Queues, Runs
  <2>2. x.thread_list[m] \in Seq(Thread) /\ Distinct(x.thread_list[m])
    BY <2>1 DEF Waiting
  <2>3. h \in Thread /\ h \in ToSet(x.thread_list[m])
    BY <1>7, <2>2, TailSet
  <2>4. Gone(s, T).state[h] = "WaitingMutex"
    BY <2>1, <2>3 DEF Waiting, MutexStates
  <2>5. h \notin T /\ s.state[h] = "WaitingMutex"
    <3>1. Gone(s, T).state[h] = IF h \in T THEN "Inactive" ELSE s.state[h]
      BY <2>1, <2>3, GoneType
    <3> QED
      BY <2>4, <3>1
  <2>6. h # t
    <3>1. T = {} => s.state[s.curr] = "Running" /\ s.curr = q.curr
      BY <1>1, RunningWaitsNot DEF SameRun
    <3> QED
      BY <2>5, <3>1
  <2>7. Lives(q, s, {})
    BY <1>1, WakenedLives
  <2> QED
    BY <2>3, <2>5, <2>6, <2>7 DEF Lives
<1> DEFINE y == HandOver(z, m)
<1>8. Linked(q, y, {t}) /\ Owned(y, t) = Owned(z, t)
  <2>1. z.thread_list[m] # <<>> => /\ z.id[m] /\ Head(z.thread_list[m]) \in Thread \ {t}
                                   /\ q.state[Head(z.thread_list[m])] # "Inactive"
    BY <1>3, <1>4, <1>7
  <2>2. z \in Mutexes /\ z.lock[m] = 0
    BY <1>3, <1>4
  <2> HIDE DEF h, y
  <2>3. Linked(q, y, {t}) /\ \A u \in {t} \cap Thread : Owned(y, u) = Owned(z, u)
    BY ONLY <1>6, <2>1, <2>2, HandOverLinked, m \in Mutex DEF y
  <2> QED
    BY <2>3
<1>9. ASSUME Settled(q, x, b, {t})  PROVE Settled(q, y, b, {t})
  <2>1. Settled(q, z, b, {t})
    <3>1. \A u \in Thread \ {t} : Creditors(z, u) = Creditors(x, u)
      <4> SUFFICES ASSUME NEW u \in Thread \ {t}  PROVE Creditors(z, u) = Creditors(x, u)
        OBVIOUS
      <4>1. Owned(z, u) = Owned(x, u)
        BY <1>5 DEF Owned
      <4> QED
        BY <1>3, <4>1, CreditorsSame
    <3>2. \A n \in Mutex : \A u \in ToSet(z.thread_list[n]) : Owned(z, u) = {}
      <4> SUFFICES ASSUME NEW n \in Mutex, NEW u \in ToSet(x.thread_list[n])
                   PROVE  Owned(z, u) = {}
        BY <1>3
      <4>1. x.thread_list[n] \in Seq(Thread)
        BY <1>1 DEF Mutexes
      <4>2. u \in Thread /\ Owned(x, u) = {}
        BY <1>9, <4>1 DEF Settled, ToSet
      <4> QED
        BY <1>5, <4>2
    <3>3. Elsewhere(q, x, b, q, z, b, t)
      BY <3>1 DEF Elsewhere
    <3> QED
      BY <1>9, <3>2, <3>3, SettledElse
  <2>2. /\ Typed(s) /\ s.priority = q.priority /\ s.priority \in [Thread -> Nat]
        /\ Waiting(Mutex, MutexStates, Gone(s, T), x.thread_list, AnyMutex)
    BY <1>1, RankTypes DEF Leaves, Queues, Runs
  <2>3. Gone(s, T).priority = q.priority
    BY <2>2, GoneType
  <2>4. /\ Distinct(z.thread_list[m]) /\ Ascends(z.thread_list[m], Urgency(q))
        /\ \A n \in Mutex \ {m} :
             ToSet(z.thread_list[n]) \cap ToSet(z.thread_list[m]) = {}
    BY <1>3, <2>2, <2>3 DEF Waiting, Urgency
  <2>5. z.thread_list[m] # <<>> => /\ Head(z.thread_list[m]) \in Thread \ {t}
                                   /\ q.state[Head(z.thread_list[m])] # "Inactive"
    BY <1>3, <1>7
  <2>6. z \in Mutexes /\ z.lock[m] = 0 /\ q.priority \in [Thread -> Nat]
    BY <1>3, <1>4, <2>2
  <2> HIDE DEF h, y
  <2>7. Settled(q, y, b, {t})
    BY ONLY <2>1, <2>4, <2>5, <2>6, HandOverSettled, m \in Mutex DEF y
  <2> QED
    BY <2>7
<1> QED
  BY <1>5, <1>8, <1>9 DEF z

\* When all the mutexes of t are robust, all go to their heirs or are free in the end.
LEMMA BequeathLinked ==
  ASSUME NEW q, NEW x, NEW T, NEW low, Leaves(q, q, x, T, low),
         NEW t \in Thread, t \in T \/ (T = {} /\ t = q.curr),
         Linked(q, x, {t}), Chain(x, t, MutexList(x, t)),
         ToSet(MutexList(x, t)) \subseteq Robust, NEW b
  PROVE  LET y == Bequeath(q, x, t).x
         IN  /\ Linked(q, y, {t}) /\ Owned(y, t) = {}
             /\ Settled(q, x, b, {t}) => Settled(q, y, b, {t})
<1> DEFINE l == MutexList(x, t)
           N == Len(l)
           y == Bequeath(q, x, t).x
<1>1. PICK f : /\ Loop(q, x, l, f) /\ Bequeath(q, x, t) = f[N]
               /\ \A n \in Nat : Leaves(q, f[n].s, f[n].x, T, low)
  BY BequeathLoops
<1>2. /\ l \in Seq(Mutex) /\ Distinct(l) /\ N \in Nat /\ ToSet(l) = Owned(x, t)
      /\ \A i \in 1 .. N : l[i] \in Mutex /\ l[i] \in Robust
  BY DEF Chain, Strung, ToSet
<1>3. ToSet(l) = {l[i] : i \in 1 .. N} /\ \A i, j \in 1 .. N : l[i] = l[j] => i = j
  BY <1>2 DEF ToSet, Distinct
<1>4. f[0].x = x /\ \A n \in Nat : n < N => f[n + 1] = Pass(f[n], l[n + 1])
  BY <1>1 DEF Loop
<1>5. y = f[N].x
  BY <1>1
<1> HIDE DEF l, N, y
<1> DEFINE Rest(n) == {l[i] : i \in n + 1 .. N}
           Goes(n) == /\ Linked(q, f[n].x, {t}) /\ Owned(f[n].x, t) = Rest(n)
                      /\ Settled(q, x, b, {t}) => Settled(q, f[n].x, b, {t})
           P == {n \in Nat : n <= N => Goes(n)}
<1>6. Nat \subseteq P
  <2>1. 0 \in P
    <3>1. Rest(0) = Owned(x, t)
      BY <1>2, <1>3
    <3> QED
      BY <1>4, <3>1
  <2>2. ASSUME NEW n \in Nat, n \in P  PROVE n + 1 \in P
    <3> SUFFICES ASSUME n + 1 <= N
                 PROVE  Goes(n + 1)
      OBVIOUS
    <3> DEFINE m == l[n + 1]
               z == HandOver([f[n].x EXCEPT !.lock[m] = 0], m)
    <3>1. n < N /\ n <= N /\ n + 1 \in 1 .. N
      BY <1>2
    <3>2. /\ Linked(q, f[n].x, {t}) /\ Owned(f[n].x, t) = Rest(n)
          /\ Settled(q, x, b, {t}) => Settled(q, f[n].x, b, {t})
          /\ Leaves(q, f[n].s, f[n].x, T, low)
      BY <1>1, <2>2, <3>1
    <3>3. m \in Mutex /\ m \in Robust /\ m \in Rest(n)
      BY <1>2, <3>1
    <3>4. f[n + 1].x = z
      <4>1. f[n + 1] = Pass(f[n], m)
        BY <1>4, <3>1
      <4> QED
        BY <3>3, <4>1 DEF Pass
    <3>5. Rest(n + 1) = Rest(n) \ {m}
      <4>1. \A i \in n + 1 .. N : i = n + 1 \/ i \in (n + 1) + 1 .. N
        BY <1>2
      <4>2. \A i \in (n + 1) + 1 .. N : i \in n + 1 .. N /\ i \in 1 .. N /\ i # n + 1
        BY <1>2
      <4> QED
        BY <1>3, <3>1, <4>1, <4>2
    <3> HIDE DEF m
    <3>6. /\ Linked(q, z, {t}) /\ Owned(z, t) = Owned(f[n].x, t) \ {m}
          /\ Settled(q, f[n].x, b, {t}) => Settled(q, z, b, {t})
      <4>1. PICK v : v = f[n].x
        OBVIOUS
      <4>2. /\ Leaves(q, f[n].s, v, T, low) /\ Linked(q, v, {t})
            /\ t \in T \/ (T = {} /\ t = q.curr)
        BY <3>2, <4>1
      <4>3. m \in Mutex /\ m \in Owned(v, t) /\ t \in Thread
        BY <3>2, <3>3, <4>1
      <4> DEFINE y1 == HandOver([v EXCEPT !.lock[m] = 0], m)
      <4>4. /\ Linked(q, y1, {t}) /\ Owned(y1, t) = Owned(v, t) \ {m}
            /\ Settled(q, v, b, {t}) => Settled(q, y1, b, {t})
        BY ONLY <4>2, <4>3, PassLinked
      <4> QED
        BY <4>1, <4>4
    <3> QED
      BY <3>2, <3>4, <3>5, <3>6
  <2> HIDE DEF P
  <2> QED
    BY <2>1, <2>2, SetInduction
<1>7. Goes(N)
  <2>1. N \in Nat /\ N <= N
    BY <1>2
  <2>2. N \in P
    <3> HIDE DEF P
    <3> QED
      BY <1>6, <2>1
  <2> QED
    BY <2>1, <2>2
<1>8. Rest(N) = {}
  BY <1>2
<1> QED
  BY <1>5, <1>7, <1>8 DEF y

---------------------------------------------------------------------------
\* The steps

\* Between two steps, where nobody ends that owns a mutex that is not robust.
LinksInv == QueuesInv /\ ("Abandon" \notin Habits => Linked(k, mx, {}))

\* A record with all the fields of the mutexes, whatever is in them.
HasFields(x) ==
  {"id", "lock", "owner_thread", "owner_prev", "owner_next", "thread_list", "mutex_list"}
    \subseteq DOMAIN x

LEMMA MutexFields == ASSUME NEW x \in Mutexes PROVE HasFields(x)
BY DEF Mutexes, HasFields

LEMMA ListsLocks ==
  ASSUME NEW x, HasFields(x), NEW l
  PROVE  LET y == [x EXCEPT !.thread_list = l] IN HasFields(y) /\ SameLocks(x, y)
BY DEF HasFields, SameLocks

LEMMA RequeueLocks ==
  ASSUME NEW x, HasFields(x), NEW q, NEW r, NEW t
  PROVE  HasFields(Requeue(q, r, x, t)) /\ SameLocks(x, Requeue(q, r, x, t))
<1>1. CASE r.priority[t] = q.priority[t]
  BY <1>1 DEF Requeue, SameLocks
<1>2. CASE r.priority[t] # q.priority[t]
  <2>1. PICK l : Requeue(q, r, x, t) = [x EXCEPT !.thread_list = l]
    BY <1>2 DEF Requeue
  <2> QED
    BY <2>1, ListsLocks
<1> QED
  BY <1>1, <1>2

LEMMA LeaveLocks ==
  ASSUME NEW x, HasFields(x), NEW t
  PROVE  HasFields(Leave(x, t)) /\ SameLocks(x, Leave(x, t))
<1>1. PICK l : Leave(x, t) = [x EXCEPT !.thread_list = l]
  BY DEF Leave
<1> QED
  BY <1>1, ListsLocks

\* The steps that neither lock nor unlock a mutex.
LEMMA StillLinked ==
  ASSUME QueuesInv, Linked(k, mx, {}), SameLocks(mx, mx'), Lives(k, k', {})
  PROVE  Linked(k', mx', {})
BY LocksLinked

LEMMA AcquireWaitLocks ==
  ASSUME QueuesInv, NEW m \in Mutex, NEW timeout \in Timeout, MutexAcquireWait(m, timeout)
  PROVE  SameLocks(mx, mx')
<1> DEFINE owner  == mx.owner_thread[m]
           raised == IF m \in PrioInherit /\ k.priority[owner] < k.priority[k.curr]
                     THEN Reprioritise(k, owner, k.priority[k.curr])
                     ELSE k
           x      == Requeue(k, raised, mx, owner)
           y      == [x EXCEPT !.thread_list[m] = ListPut(raised, @, k.curr)]
<1>1. mx' = x \/ mx' = y
  BY DEF MutexAcquireWait, Service
<1>2. HasFields(mx)
  BY MutexFields DEF QueuesInv
<1> HIDE DEF owner, raised
<1>3. HasFields(x) /\ SameLocks(mx, x)
  BY <1>2, RequeueLocks
<1> HIDE DEF x
<1>4. SameLocks(x, y)
  BY <1>3, ListsLocks
<1> HIDE DEF y
<1> QED
  BY <1>1, <1>3, <1>4 DEF SameLocks

LEMMA TickReleaseLocks ==
  ASSUME QueuesInv, TickRelease
  PROVE  SameLocks(mx, mx')
<1>1. HasFields(mx)
  BY MutexFields DEF QueuesInv
<1>2. \/ mx' = mx
      \/ \E r, u, t : mx' = Leave(Requeue(k, r, mx, u), t)
  BY DEF TickRelease
<1>3. ASSUME NEW r, NEW u, NEW t
      PROVE  SameLocks(mx, Leave(Requeue(k, r, mx, u), t))
  <2>1. PICK x : x = Requeue(k, r, mx, u)
    OBVIOUS
  <2>2. HasFields(x) /\ SameLocks(mx, x) /\ SameLocks(x, Leave(x, t))
    BY <1>1, <2>1, RequeueLocks, LeaveLocks
  <2> QED
    BY <2>1, <2>2 DEF SameLocks
<1>4. CASE mx' = mx
  BY <1>4 DEF SameLocks
<1>5. CASE \E r, u, t : mx' = Leave(Requeue(k, r, mx, u), t)
  BY <1>3, <1>5
<1> QED
  BY <1>2, <1>4, <1>5

\* The lock of a mutex changes, and nothing else.
LEMMA LockLinks ==
  ASSUME NEW x \in Mutexes, NEW m \in Mutex, NEW n \in 0 .. LockLimit
  PROVE  LET y == [x EXCEPT !.lock[m] = n]
         IN  y \in Mutexes /\ SameLinks(x, y) /\ y.lock = [x.lock EXCEPT ![m] = n]
             /\ y.id = x.id /\ y.owner_thread = x.owner_thread
             /\ y.thread_list = x.thread_list
<1> DEFINE y == [x EXCEPT !.lock[m] = n]
<1>1. SameLinks(x, y)
  BY DEF SameLinks, Mutexes
<1> QED
  BY <1>1, LockType

LEMMA NewLinked ==
  ASSUME QueuesInv, Linked(k, mx, {}), NEW m \in Mutex, MutexNew(m)
  PROVE  Linked(k', mx', {})
<1>1. /\ mx \in Mutexes /\ ~mx.id[m] /\ Lives(k, k', {})
      /\ mx' = [mx EXCEPT !.id[m] = TRUE, !.lock[m] = 0, !.owner_thread[m] = NoThread,
                          !.owner_prev[m] = NoMutex, !.owner_next[m] = NoMutex,
                          !.thread_list[m] = <<>>]
  BY MutexNewKeeps DEF MutexNew, Service, QueuesInv
<1>2. /\ mx'.id = [mx.id EXCEPT ![m] = TRUE] /\ mx'.lock = [mx.lock EXCEPT ![m] = 0]
      /\ mx'.owner_thread = [mx.owner_thread EXCEPT ![m] = NoThread]
      /\ mx'.owner_prev = [mx.owner_prev EXCEPT ![m] = NoMutex]
      /\ mx'.owner_next = [mx.owner_next EXCEPT ![m] = NoMutex]
      /\ mx'.mutex_list = mx.mutex_list
  BY <1>1 DEF Mutexes
<1>3. \A n \in Mutex : n # m => /\ mx'.id[n] = mx.id[n] /\ mx'.lock[n] = mx.lock[n]
                                /\ mx'.owner_thread[n] = mx.owner_thread[n]
                                /\ mx'.owner_prev[n] = mx.owner_prev[n]
                                /\ mx'.owner_next[n] = mx.owner_next[n]
  BY <1>1, <1>2 DEF Mutexes
<1>4. mx'.lock[m] = 0
  BY <1>1, <1>2 DEF Mutexes
<1>5. \A t \in Thread : Owned(mx', t) = Owned(mx, t) /\ m \notin Owned(mx, t)
  BY <1>1, <1>3, <1>4 DEF Owned
<1> SUFFICES ASSUME NEW t \in Thread
             PROVE  IF k'.state[t] = "Inactive" THEN Owned(mx', t) = {}
                    ELSE \E l : Chain(mx', t, l)
  BY DEF Linked
<1>6. CASE k'.state[t] = "Inactive"
  BY <1>1, <1>5, <1>6 DEF Linked, Lives
<1>7. CASE k'.state[t] # "Inactive"
  <2>1. PICK l : Strung(mx, t, l) /\ ToSet(l) = Owned(mx, t)
    BY <1>1, <1>7 DEF Linked, Lives, Chain
  <2>2. \A n \in ToSet(l) : /\ mx'.owner_next[n] = mx.owner_next[n]
                            /\ mx'.owner_prev[n] = mx.owner_prev[n]
    BY <1>3, <1>5, <2>1 DEF Owned
  <2>3. Strung(mx', t, l)
    BY <1>2, <2>1, <2>2, StrungSame
  <2>4. Chain(mx', t, l)
    BY <1>5, <2>1, <2>3 DEF Chain
  <2> QED
    BY <1>7, <2>4
<1> QED
  BY <1>6, <1>7

LEMMA AcquireFreeLinked ==
  ASSUME QueuesInv, Linked(k, mx, {}), NEW m \in Mutex, MutexAcquireFree(m)
  PROVE  Linked(k', mx', {})
<1>1. /\ mx.id[m] /\ mx.lock[m] = 0 /\ mx' = Hold(mx, m, k.curr) /\ Lives(k, k', {})
      /\ handler = "thread"
  BY AcquireFreeKeeps DEF MutexAcquireFree, Service
<1>2. mx \in Mutexes /\ k.curr \in Thread /\ k.state[k.curr] = "Running"
  BY <1>1, Now
<1>3. Taken(mx, m, k.curr, mx') /\ k.curr \in Thread \ {} /\ k.state[k.curr] # "Inactive"
  BY <1>1, <1>2, HoldType
<1>4. Linked(k, mx', {})
  BY <1>1, <1>2, <1>3, HoldLinked
<1>5. SameLocks(mx', mx')
  BY DEF SameLocks
<1> QED
  BY <1>1, <1>4, <1>5, LocksLinked

LEMMA CountLinked ==
  ASSUME QueuesInv, Linked(k, mx, {}), NEW m \in Mutex,
         MutexAcquireAgain(m) \/ MutexReleaseOnce(m)
  PROVE  Linked(k', mx', {})
<1>1. mx \in Mutexes /\ mx.lock[m] \in 0 .. LockLimit /\ LockLimit \in Nat /\ Lives(k, k', {})
  BY MutexAssumption, CountKeeps DEF QueuesInv, Mutexes
<1>2. PICK n \in 0 .. LockLimit : /\ mx' = [mx EXCEPT !.lock[m] = n]
                                  /\ n # 0 /\ mx.lock[m] # 0
  <2>1. CASE MutexAcquireAgain(m)
    <3>1. mx.lock[m] + 1 \in 0 .. LockLimit /\ mx.lock[m] + 1 # 0
      BY <1>1, <2>1 DEF MutexAcquireAgain
    <3> QED
      BY <2>1, <3>1 DEF MutexAcquireAgain, Service
  <2>2. CASE MutexReleaseOnce(m)
    <3>1. mx.lock[m] - 1 \in 0 .. LockLimit /\ mx.lock[m] - 1 # 0 /\ mx.lock[m] # 0
      BY <1>1, <2>2 DEF MutexReleaseOnce
    <3> QED
      BY <2>2, <3>1 DEF MutexReleaseOnce, Service
  <2> QED
    BY <2>1, <2>2
<1>3. /\ SameLinks(mx, mx') /\ mx'.id = mx.id /\ mx'.owner_thread = mx.owner_thread
      /\ mx'.lock = [mx.lock EXCEPT ![m] = n]
  BY <1>1, <1>2, LockLinks
<1>4. mx'.lock[m] = n /\ \A i \in Mutex \ {m} : mx'.lock[i] = mx.lock[i]
  BY <1>1, <1>3 DEF Mutexes
<1>5. \A t \in Thread \ {} : Owned(mx', t) = Owned(mx, t)
  BY <1>2, <1>3, <1>4 DEF Owned
<1> QED
  BY <1>1, <1>3, <1>5, LinkedSame

\* The mutex released, unlocked, leaves the list of the running thread.
LEMMA ReleaseUnlinks ==
  ASSUME QueuesInv, Linked(k, mx, {}), NEW m \in Mutex, MutexRelease(m)
  PROVE  LET x == Unhold([mx EXCEPT !.lock[m] = 0], m)
             h == Head(x.thread_list[m])
         IN  /\ x \in Mutexes /\ x.lock[m] = 0 /\ x.thread_list = mx.thread_list
             /\ x.id = mx.id /\ x.owner_thread = mx.owner_thread
             /\ x.lock = [mx.lock EXCEPT ![m] = 0]
             /\ m \in Owned(mx, k.curr)
             /\ \A u \in Thread : Owned(x, u) = Owned(mx, u) \ {m}
             /\ Linked(k, x, {}) /\ k.state[k.curr] # "Inactive"
             /\ x.thread_list[m] # <<>> =>
                  x.id[m] /\ h \in Thread \ {} /\ k.state[h] # "Inactive"
<1> DEFINE z == [mx EXCEPT !.lock[m] = 0]
           x == Unhold(z, m)
           y == Unhold(mx, m)
           h == Head(mx.thread_list[m])
<1>1. mx.id[m] /\ mx.lock[m] = 1 /\ mx.owner_thread[m] = k.curr /\ handler = "thread"
  BY DEF MutexRelease, Service
<1>2. /\ mx \in Mutexes /\ k.curr \in Thread /\ k.state \in [Thread -> ThreadState]
      /\ Waiting(Mutex, MutexStates, k, mx.thread_list, AnyMutex)
      /\ mx.thread_list[m] \in Seq(Thread) /\ Distinct(mx.thread_list[m])
  BY <1>1, Now
<1>3. /\ z \in Mutexes /\ z.lock = [mx.lock EXCEPT ![m] = 0] /\ z.id = mx.id
      /\ z.owner_thread = mx.owner_thread /\ z.thread_list = mx.thread_list
      /\ SameLinks(mx, z)
  <2>1. 0 \in 0 .. LockLimit
    BY MutexAssumption
  <2> QED
    BY <1>2, <2>1, LockLinks
<1> HIDE DEF z
<1>4. x \in Mutexes /\ Unlinked(z, m, x) /\ Unlinked(mx, m, y)
  BY <1>2, <1>3, UnholdType
<1> HIDE DEF x, y
<1>5. SameLinks(y, x)
  BY <1>3, <1>4 DEF Unlinked, SameLinks
<1>6. /\ x.lock = [mx.lock EXCEPT ![m] = 0] /\ x.id = mx.id
      /\ x.owner_thread = mx.owner_thread /\ x.thread_list = mx.thread_list
  BY <1>3, <1>4 DEF Unlinked
<1>7. x.lock[m] = 0 /\ \A n \in Mutex \ {m} : x.lock[n] = mx.lock[n]
  BY <1>2, <1>6 DEF Mutexes
<1>8. \A u \in Thread : Owned(x, u) = Owned(mx, u) \ {m}
  BY <1>6, <1>7 DEF Owned
<1>9. m \in Owned(mx, k.curr)
  BY <1>1 DEF Owned
<1>10. Linked(k, x, {}) /\ k.state[k.curr] # "Inactive"
  BY <1>2, <1>4, <1>5, <1>8, <1>9, UnholdLinked
<1>11. ASSUME mx.thread_list[m] # <<>>
       PROVE  h \in Thread \ {} /\ k.state[h] # "Inactive"
  <2>1. h \in Thread /\ h \in ToSet(mx.thread_list[m])
    BY <1>2, <1>11, TailSet
  <2>2. k.state[h] \in MutexStates
    BY <1>2, <2>1 DEF Waiting
  <2> QED
    BY <2>1, <2>2 DEF MutexStates
<1>12. x.thread_list[m] # <<>> =>
         /\ x.id[m] /\ Head(x.thread_list[m]) \in Thread \ {}
         /\ k.state[Head(x.thread_list[m])] # "Inactive"
  BY <1>1, <1>6, <1>11
<1> QED
  BY <1>4, <1>6, <1>7, <1>8, <1>9, <1>10, <1>12 DEF x, z

LEMMA ReleaseLinked ==
  ASSUME QueuesInv, Linked(k, mx, {}), NEW m \in Mutex, MutexRelease(m)
  PROVE  Linked(k', mx', {})
<1>1. PICK x : x = Unhold([mx EXCEPT !.lock[m] = 0], m)
  OBVIOUS
<1>2. /\ x \in Mutexes /\ x.lock[m] = 0 /\ Linked(k, x, {})
      /\ x.thread_list[m] # <<>> =>
           /\ x.id[m] /\ Head(x.thread_list[m]) \in Thread \ {}
           /\ k.state[Head(x.thread_list[m])] # "Inactive"
  BY <1>1, ReleaseUnlinks
<1>3. mx' = HandOver(x, m) /\ Lives(k, k', {})
  BY <1>1, ReleaseKeeps DEF MutexRelease, Service
<1>4. Linked(k, HandOver(x, m), {})
  BY ONLY <1>2, HandOverLinked, m \in Mutex
<1>5. SameLocks(mx', mx')
  BY DEF SameLocks
<1> QED
  BY <1>3, <1>4, <1>5, LocksLinked

LEMMA DeleteLinked ==
  ASSUME QueuesInv, Linked(k, mx, {}), NEW m \in Mutex, MutexDelete(m)
  PROVE  Linked(k', mx', {})
<1> DEFINE owner   == mx.owner_thread[m]
           x       == Unhold(mx, m)
           lowered == Reprioritise(k, owner, Owed(k, x, owner, NoThread))
           y       == Requeue(k, lowered, x, owner)
<1>1. /\ mx.id[m] /\ Lives(k, k', {}) /\ handler = "thread"
      /\ mx.lock[m] = 0 => mx' = [mx EXCEPT !.id[m] = FALSE]
      /\ mx.lock[m] # 0 => mx' = [y EXCEPT !.id[m] = FALSE, !.thread_list[m] = <<>>]
  BY DeleteKeeps DEF MutexDelete, Service
<1>2. mx \in Mutexes /\ Held(mx, m)
  BY DEF QueuesInv
<1>3. CASE mx.lock[m] = 0
  <2>1. /\ SameLinks(mx, mx') /\ mx'.id = [mx.id EXCEPT ![m] = FALSE]
        /\ mx'.lock = mx.lock /\ mx'.owner_thread = mx.owner_thread
    BY <1>1, <1>2, <1>3 DEF Mutexes, SameLinks
  <2>2. mx'.lock[m] = 0 /\ \A n \in Mutex \ {m} : mx'.id[n] = mx.id[n]
    BY <1>2, <1>3, <2>1 DEF Mutexes
  <2>3. \A t \in Thread \ {} : Owned(mx', t) = Owned(mx, t)
    BY <1>3, <2>1, <2>2 DEF Owned
  <2> QED
    BY <1>1, <2>1, <2>3, LinkedSame
<1>4. CASE mx.lock[m] # 0
  <2>1. owner \in Thread /\ m \in Owned(mx, owner)
    BY <1>1, <1>2, <1>4 DEF Held, Owned
  <2>2. x \in Mutexes /\ Unlinked(mx, m, x)
    BY <1>2, UnholdType
  <2>3. HasFields(x)
    BY <2>2, MutexFields
  <2> HIDE DEF owner, x, lowered
  <2>4. HasFields(y) /\ SameLocks(x, y)
    BY <2>3, RequeueLocks
  <2> HIDE DEF y
  <2>5. /\ mx'.id = [y.id EXCEPT ![m] = FALSE] /\ mx'.lock = y.lock
        /\ mx'.owner_thread = y.owner_thread /\ SameLinks(y, mx')
    BY <1>1, <1>4, <2>4 DEF HasFields, SameLinks
  <2>6. /\ mx'.id = [mx.id EXCEPT ![m] = FALSE] /\ mx'.lock = mx.lock
        /\ mx'.owner_thread = mx.owner_thread /\ SameLinks(x, mx')
    BY <2>2, <2>4, <2>5 DEF Unlinked, SameLocks, SameLinks
  <2>7. ~mx'.id[m] /\ \A n \in Mutex \ {m} : mx'.id[n] = mx.id[n]
    BY <1>2, <2>6 DEF Mutexes
  <2>8. \A u \in Thread : Owned(mx', u) = Owned(mx, u) \ {m}
    BY <2>6, <2>7 DEF Owned
  <2>9. Linked(k, mx', {})
    BY <1>2, <2>1, <2>2, <2>6, <2>8, UnholdLinked
  <2>10. SameLocks(mx', mx')
    BY DEF SameLocks
  <2> QED
    BY <1>1, <2>9, <2>10, LocksLinked
<1> QED
  BY <1>3, <1>4

\* The steps in which threads only change lists.
LEMMA MoveLinked ==
  ASSUME QueuesInv, Linked(k, mx, {}), Lives(k, k', {}),
         \/ mx' = mx
         \/ \E t : mx' = Leave(mx, t)
         \/ \E q, r, t : mx' = Requeue(q, r, mx, t)
  PROVE  Linked(k', mx', {})
<1>1. HasFields(mx)
  BY MutexFields DEF QueuesInv
<1>2. SameLocks(mx, mx')
  <2>1. CASE mx' = mx
    BY <2>1 DEF SameLocks
  <2>2. CASE \E t : mx' = Leave(mx, t)
    BY <1>1, <2>2, LeaveLocks
  <2>3. CASE \E q, r, t : mx' = Requeue(q, r, mx, t)
    BY <1>1, <2>3, RequeueLocks
  <2> QED
    BY <2>1, <2>2, <2>3
<1> QED
  BY <1>2, StillLinked

LEMMA AcquireWaitLinked ==
  ASSUME QueuesInv, Linked(k, mx, {}), NEW m \in Mutex, NEW timeout \in Timeout,
         MutexAcquireWait(m, timeout)
  PROVE  Linked(k', mx', {})
BY AcquireWaitKeeps, AcquireWaitLocks, StillLinked

LEMMA TickReleaseLinked ==
  ASSUME QueuesInv, Linked(k, mx, {}), TickRelease
  PROVE  Linked(k', mx', {})
BY TickReleaseKeeps, TickReleaseLocks, StillLinked

\* A dead thread owns nothing, so it owns nothing when it comes to life.
LEMMA ThreadNewLinked ==
  ASSUME QueuesInv, Linked(k, mx, {}), NEW t \in Thread, NEW p \in Priority, ThreadNew(t, p)
  PROVE  Linked(k', mx', {})
<1>1. /\ k.state[t] = "Inactive" /\ mx' = [mx EXCEPT !.mutex_list[t] = NoMutex]
      /\ Lives(k, k', {t}) /\ k'.state[t] # "Inactive" /\ mx \in Mutexes
  BY ThreadNewKeeps DEF ThreadNew, Service, QueuesInv
<1>2. /\ mx'.id = mx.id /\ mx'.lock = mx.lock /\ mx'.owner_thread = mx.owner_thread
      /\ mx'.owner_next = mx.owner_next /\ mx'.owner_prev = mx.owner_prev
      /\ mx'.mutex_list = [mx.mutex_list EXCEPT ![t] = NoMutex]
  BY <1>1 DEF Mutexes
<1>3. mx'.mutex_list[t] = NoMutex
      /\ \A u \in Thread \ {t} : mx'.mutex_list[u] = mx.mutex_list[u]
  BY <1>1, <1>2 DEF Mutexes
<1>4. \A u \in Thread : Owned(mx', u) = Owned(mx, u)
  BY <1>2 DEF Owned
<1> SUFFICES ASSUME NEW u \in Thread
             PROVE  IF k'.state[u] = "Inactive" THEN Owned(mx', u) = {}
                    ELSE \E l : Chain(mx', u, l)
  BY DEF Linked
<1>5. CASE u = t
  <2>1. Strung(mx', t, <<>>)
    BY <1>3, StrungEmpty
  <2>2. Owned(mx', t) = {} /\ ToSet(<<>>) = {}
    BY <1>1, <1>4 DEF Linked, ToSet
  <2>3. Chain(mx', t, <<>>)
    BY <2>1, <2>2 DEF Chain
  <2> QED
    BY <1>1, <1>5, <2>3
<1>6. CASE u # t /\ k'.state[u] = "Inactive"
  BY <1>1, <1>4, <1>6 DEF Linked, Lives
<1>7. CASE u # t /\ k'.state[u] # "Inactive"
  <2>1. PICK l : Strung(mx, u, l) /\ ToSet(l) = Owned(mx, u)
    BY <1>1, <1>7 DEF Linked, Lives, Chain
  <2>2. Strung(mx', u, l)
    BY <1>2, <1>3, <1>7, <2>1, StrungSame
  <2>3. Chain(mx', u, l)
    BY <1>4, <2>1, <2>2 DEF Chain
  <2> QED
    BY <1>7, <2>3
<1> QED
  BY <1>5, <1>6, <1>7

\* The end of t, all of whose mutexes are robust, leaves it none.
LEMMA EndLinked ==
  ASSUME NEW q, NEW x, NEW T, NEW low, Leaves(q, q, x, T, low),
         NEW t \in Thread, t \in T \/ (T = {} /\ t = q.curr),
         Linked(q, x, {}), q.state[t] # "Inactive",
         ToSet(MutexList(x, t)) \subseteq Robust,
         NEW r, Lives(q, r, {t}), r.state[t] = "Inactive", NEW b
  PROVE  LET y == Bequeath(q, x, t).x
         IN  Linked(r, y, {}) /\ (Settled(q, x, b, {}) => Settled(q, y, b, {t}))
<1>1. PICK l : Chain(x, t, l)
  BY DEF Linked
<1>2. MutexList(x, t) = l
  BY <1>1, MutexListIs DEF Chain, Leaves
<1>3. Linked(q, x, {t})
  BY DEF Linked
<1> DEFINE y == Bequeath(q, x, t).x
<1>4. /\ Linked(q, y, {t}) /\ Owned(y, t) = {}
      /\ Settled(q, x, b, {t}) => Settled(q, y, b, {t})
  <2>1. Chain(x, t, MutexList(x, t))
    BY <1>1, <1>2
  <2> QED
    BY <1>3, <2>1, BequeathLinked
<1>8. Settled(q, x, b, {}) => Settled(q, x, b, {t})
  BY DEF Settled
<1> HIDE DEF y
<1>5. SameLocks(y, y)
  BY DEF SameLocks
<1>6. Linked(r, y, {t})
  BY <1>4, <1>5, LocksLinked
<1>7. Linked(r, y, {})
  BY <1>4, <1>6 DEF Linked
<1> QED
  BY <1>4, <1>7, <1>8 DEF y

LEMMA ThreadExitLinked ==
  ASSUME QueuesInv, Linked(k, mx, {}), ThreadExit, "Abandon" \notin Habits
  PROVE  Linked(k', mx', {})
<1>1. /\ handler = "thread" /\ ToSet(MutexList(mx, k.curr)) \subseteq Robust
      /\ mx' = Bequeath(k, mx, k.curr).x
      /\ Lives(k, k', {k.curr}) /\ k'.state[k.curr] = "Inactive"
  BY ThreadExitKeeps DEF ThreadExit, Service, MayEnd
<1>2. /\ Queues(k, mx, {}, 1) /\ mx \in Mutexes /\ \A m \in Mutex : Held(mx, m)
      /\ k.curr \in Thread /\ k.state[k.curr] # "Inactive"
  BY <1>1, Now
<1>3. Leaves(k, k, mx, {}, 1)
  BY <1>2 DEF Leaves, SameRun, Wakened
<1>4. Linked(k', Bequeath(k, mx, k.curr).x, {})
  BY <1>1, <1>2, <1>3, EndLinked
<1> QED
  BY <1>1, <1>4

LEMMA ThreadTerminateLinked ==
  ASSUME QueuesInv, Linked(k, mx, {}), NEW t \in Application, ThreadTerminate(t),
         "Abandon" \notin Habits
  PROVE  Linked(k', mx', {})
<1> DEFINE u == Unlist(k, t)
           y == Leave(mx, t)
<1>1. /\ handler = "thread" /\ ToSet(MutexList(mx, t)) \subseteq Robust
      /\ mx' = Bequeath(u, y, t).x /\ t # k.curr
      /\ Lives(k, k', {t}) /\ k'.state[t] = "Inactive"
      /\ k.state[t] # "Inactive" /\ t \in Thread
  <2>1. Lives(k, k', {t}) /\ k'.state[t] = "Inactive"
    BY ThreadTerminateKeeps
  <2>2. handler = "thread" /\ mx' = Bequeath(u, y, t).x
    BY DEF ThreadTerminate, Service
  <2>3. t # k.curr /\ Stoppable(k, t) /\ MayEnd(t) /\ t \in Thread
    BY DEF ThreadTerminate, Application
  <2>4. ToSet(MutexList(mx, t)) \subseteq Robust
    BY <2>3 DEF MayEnd
  <2>5. k.state[t] # "Inactive"
    BY <2>3 DEF Stoppable, BlockedStates, WaitStates
  <2> QED
    BY <2>1, <2>2, <2>3, <2>4, <2>5
<1>2. Leaves(u, u, y, {t}, 1) /\ u.state = k.state
  BY <1>1, UnlistQueues
<1>3. mx \in Mutexes /\ HasFields(mx)
  BY MutexFields DEF QueuesInv
<1> HIDE DEF u
<1>4. SameLocks(mx, y)
  BY <1>3, LeaveLocks
<1> HIDE DEF y
<1>5. y \in Mutexes
  BY <1>2 DEF Leaves
<1>6. Linked(u, y, {})
  <2>1. Lives(k, u, {})
    BY <1>2 DEF Lives
  <2> QED
    BY <1>4, <2>1, LocksLinked
<1>7. MutexList(y, t) = MutexList(mx, t)
  <2>1. PICK l : Strung(mx, t, l)
    BY <1>1 DEF Linked, Chain
  <2>2. Strung(y, t, l)
    BY <1>4, <2>1 DEF Strung, SameLocks
  <2> QED
    BY <1>1, <1>3, <1>5, <2>1, <2>2, MutexListIs
<1>8. Lives(u, k', {t}) /\ u.state[t] # "Inactive" /\ t \in {t}
  BY <1>1, <1>2 DEF Lives
<1>9. Linked(k', Bequeath(u, y, t).x, {})
  <2>1. ToSet(MutexList(y, t)) \subseteq Robust
    BY <1>1, <1>7
  <2> QED
    BY <1>1, <1>2, <1>6, <1>8, <2>1, EndLinked
<1> QED
  BY <1>1, <1>9

---------------------------------------------------------------------------
\* The beginning, the steps, and what they say of the links

LEMMA LinksInvInit ==
  ASSUME Init
  PROVE  LinksInv
<1>1. QueuesInv /\ mx \in Mutexes
  BY QueuesInvInit DEF QueuesInv
<1>2. \A t \in Thread : mx.mutex_list[t] = NoMutex /\ Owned(mx, t) = {}
  BY DEF Init, Owned
<1>3. Linked(k, mx, {})
  <2> SUFFICES ASSUME NEW t \in Thread  PROVE Owned(mx, t) = {} /\ Chain(mx, t, <<>>)
    BY DEF Linked
  <2>1. Strung(mx, t, <<>>)
    BY <1>2, StrungEmpty
  <2>2. ToSet(<<>>) = {}
    BY DEF ToSet
  <2> QED
    BY <1>2, <2>1, <2>2 DEF Chain
<1> QED
  BY <1>1, <1>3 DEF LinksInv

LEMMA MutexCallLinked ==
  ASSUME QueuesInv, Linked(k, mx, {}), NEW m \in Mutex, MutexCall(m)
  PROVE  Linked(k', mx', {})
<1>1. CASE MutexNew(m)
  BY <1>1, NewLinked
<1>2. CASE MutexDelete(m)
  BY <1>2, DeleteLinked
<1>3. CASE MutexAcquireFree(m)
  BY <1>3, AcquireFreeLinked
<1>4. CASE MutexAcquireAgain(m) \/ MutexReleaseOnce(m)
  BY <1>4, CountLinked
<1>5. CASE \E timeout \in Timeout : MutexAcquireWait(m, timeout)
  BY <1>5, AcquireWaitLinked
<1>6. CASE MutexRelease(m)
  BY <1>6, ReleaseLinked
<1> QED
  BY <1>1, <1>2, <1>3, <1>4, <1>5, <1>6 DEF MutexCall

LEMMA ThreadCallLinked ==
  ASSUME QueuesInv, Linked(k, mx, {}), NEW t \in Application, ThreadCall(t),
         "Abandon" \notin Habits
  PROVE  Linked(k', mx', {})
<1>6. t \in Thread
  BY DEF Application
<1>1. CASE \E p \in Priority : ThreadNew(t, p)
  BY <1>1, <1>6, ThreadNewLinked
<1>2. CASE \E p \in Priority : ThreadSetPriority(t, p)
  <2>1. PICK p \in Priority : ThreadSetPriority(t, p)
    BY <1>2
  <2>2. mx' = Requeue(k, [k EXCEPT !.priority[t] = p], mx, t)
    BY <2>1 DEF ThreadSetPriority, Service
  <2>3. \E q, r, u : mx' = Requeue(q, r, mx, u)
    BY <2>2
  <2> QED
    BY <1>6, <2>1, <2>3, ThreadSetPriorityKeeps, MoveLinked
<1>3. CASE ThreadSuspend(t)
  BY <1>3, ThreadSuspendKeeps, MoveLinked DEF ThreadSuspend, Service
<1>4. CASE ThreadResume(t)
  BY <1>4, <1>6, ThreadResumeKeeps, MoveLinked DEF ThreadResume, Service
<1>5. CASE ThreadTerminate(t)
  BY <1>5, ThreadTerminateLinked
<1> QED
  BY <1>1, <1>2, <1>3, <1>4, <1>5 DEF ThreadCall

LEMMA LinksInvNext ==
  ASSUME LinksInv, [Next]_vars
  PROVE  LinksInv'
<1> SUFFICES ASSUME "Abandon" \notin Habits
             PROVE  Linked(k', mx', {})
  BY QueuesInvNext DEF LinksInv
<1>0. QueuesInv /\ Linked(k, mx, {})
  BY DEF LinksInv
<1>1. CASE \E m \in Mutex : MutexCall(m)
  BY <1>0, <1>1, MutexCallLinked
<1>2. CASE \E t \in Application : ThreadCall(t)
  BY <1>0, <1>2, ThreadCallLinked
<1>3. CASE ThreadExit
  BY <1>0, <1>3, ThreadExitLinked
<1>4. CASE \E ticks \in Timeout : Delay(ticks)
  BY <1>0, <1>4, DelayKeeps, MoveLinked DEF Delay, Service
<1>5. CASE KernelLock \/ KernelUnlock
  BY <1>0, <1>5, LockKeeps, MoveLinked DEF KernelLock, KernelUnlock, Service
<1>6. CASE TickStart
  BY <1>0, <1>6, TickStartKeeps, MoveLinked DEF TickStart
<1>7. CASE TickRelease
  BY <1>0, <1>7, TickReleaseLinked
<1>8. CASE TickEnd
  BY <1>0, <1>8, TickEndKeeps, MoveLinked DEF TickEnd
<1>9. CASE UNCHANGED vars
  BY <1>0, <1>9 DEF vars
<1> QED
  BY <1>1, <1>2, <1>3, <1>4, <1>5, <1>6, <1>7, <1>8, <1>9 DEF Next

LEMMA LinksInvAlways == Spec => []LinksInv
<1>1. Init => LinksInv
  BY LinksInvInit
<1>2. LinksInv /\ [Next]_vars => LinksInv'
  BY LinksInvNext
<1> QED
  BY <1>1, <1>2, PTL DEF Spec

\* A list the pointers lead through is the list the walk finds.
LEMMA LinksInvSays ==
  ASSUME LinksInv, "Abandon" \notin Habits
  PROVE  OwnersLinked
<1>1. mx \in Mutexes /\ Linked(k, mx, {})
  BY DEF LinksInv, QueuesInv
<1> SUFFICES ASSUME NEW t \in Thread, Alive(t)
             PROVE  LET list == MutexList(mx, t)
                    IN  /\ Distinct(list)
                        /\ ToSet(list) = Owned(mx, t)
                        /\ \A i \in DOMAIN list :
                             mx.owner_prev[list[i]] = IF i = 1 THEN NoMutex ELSE list[i - 1]
  BY DEF OwnersLinked, Owned
<1>2. PICK l : Strung(mx, t, l) /\ ToSet(l) = Owned(mx, t)
  BY <1>1 DEF Linked, Alive, Chain
<1>3. MutexList(mx, t) = l /\ l \in Seq(Mutex) /\ Distinct(l)
  BY <1>1, <1>2, MutexListIs DEF Strung
<1>4. ASSUME NEW i \in DOMAIN l
      PROVE  mx.owner_prev[l[i]] = IF i = 1 THEN NoMutex ELSE l[i - 1]
  <2>1. i \in 1 .. Len(l) /\ Len(l) \in Nat
    BY <1>3
  <2>2. mx.owner_prev[l[i]] = At(l, i - 1)
    BY <1>2, <2>1 DEF Strung
  <2>3. i # 1 => i - 1 \in 1 .. Len(l)
    BY <2>1
  <2>4. i = 1 => i - 1 \notin 1 .. Len(l)
    BY <2>1
  <2> QED
    BY <2>2, <2>3, <2>4 DEF At
<1> QED
  BY <1>2, <1>3, <1>4

---------------------------------------------------------------------------
\* What is owed, step by step

\* Between two steps the threads in the lists of the mutexes wait, and no other does.
LEMMA Waiters ==
  ASSUME QueuesInv
  PROVE  /\ mx \in Mutexes /\ Typed(k) /\ "priority" \in DOMAIN k
         /\ k.priority \in [Thread -> Nat] /\ priority_base \in [Thread -> Nat]
         /\ k.curr \in Thread /\ k.state[k.curr] = "Running"
         /\ Waiting(Mutex, MutexStates, k, mx.thread_list, AnyMutex)
         /\ \A m \in Mutex : /\ Held(mx, m) /\ ToSet(mx.thread_list[m]) \subseteq Thread
                             /\ \A u \in ToSet(mx.thread_list[m]) : Waits(u) /\ u # k.curr
<1>1. /\ Queues(k, mx, {}, 0) /\ mx \in Mutexes /\ priority_base \in [Thread -> Nat]
      /\ \A m \in Mutex : Held(mx, m)
  BY DEF QueuesInv
<1>2. /\ Typed(k) /\ "priority" \in DOMAIN k /\ k.priority \in [Thread -> Nat]
      /\ k.curr \in Thread /\ k.state[k.curr] = "Running"
      /\ Waiting(Mutex, MutexStates, k, mx.thread_list, AnyMutex)
  BY <1>1, RunningWaitsNot
<1>3. ASSUME NEW m \in Mutex, NEW u \in ToSet(mx.thread_list[m])
      PROVE  u \in Thread /\ Waits(u) /\ u # k.curr
  <2>1. mx.thread_list[m] \in Seq(Thread)
    BY <1>2 DEF Waiting
  <2>2. u \in Thread
    BY <2>1 DEF ToSet
  <2>3. k.state[u] \in MutexStates
    BY <1>2, <2>2 DEF Waiting
  <2> QED
    BY <1>2, <2>2, <2>3, WaitsNowhere DEF Waits, MutexStates
<1> QED
  BY <1>1, <1>2, <1>3

\* No step but those of the mutexes changes a priority unless it says so.
LEMMA ServicePriorities ==
  ASSUME NEW after, NEW x, Service(after, x), "priority" \in DOMAIN after
  PROVE  k'.priority = after.priority /\ mx' = x
BY BasicPriorities DEF Prioritised, Service

\* The steps that change neither a lock nor a priority nor who waits for what.
LEMMA StillSettled ==
  ASSUME QueuesInv, Settled(k, mx, priority_base, {}), Lives(k, k', {}),
         k'.priority = k.priority, UNCHANGED priority_base,
         SameLocks(mx, mx'),
         \A m \in Mutex : ToSet(mx'.thread_list[m]) = ToSet(mx.thread_list[m])
  PROVE  Settled(k', mx', priority_base', {})
<1>1. \A u \in Thread : Owned(mx', u) = Owned(mx, u)
  BY DEF SameLocks, Owned
<1>2. \A m \in Mutex : ToSet(mx.thread_list[m]) \subseteq Thread
  BY Waiters
<1> QED
  BY <1>1, <1>2, SettledSame

\* A service that takes a thread from its list when it is in none.
LEMMA LeaveNobody ==
  ASSUME QueuesInv, NEW t, ~Waits(t)
  PROVE  /\ SameLocks(mx, Leave(mx, t))
         /\ \A m \in Mutex : Leave(mx, t).thread_list[m] = mx.thread_list[m]
<1>1. mx \in Mutexes /\ \A m \in Mutex : t \notin ToSet(mx.thread_list[m])
  BY Waiters
<1>2. SameLocks(mx, Leave(mx, t))
  BY <1>1, MutexFields, LeaveLocks
<1>3. Leave(mx, t).thread_list = [m \in Mutex |-> Without(mx.thread_list[m], t)]
  BY <1>1 DEF Leave, Mutexes
<1>4. \A m \in Mutex : Without(mx.thread_list[m], t) = mx.thread_list[m]
  BY <1>1 DEF Without
<1> QED
  BY <1>2, <1>3, <1>4

LEMMA NewSettled ==
  ASSUME QueuesInv, Settled(k, mx, priority_base, {}), NEW m \in Mutex, MutexNew(m)
  PROVE  Settled(k', mx', priority_base', {})
<1>1. /\ mx \in Mutexes /\ ~mx.id[m] /\ Lives(k, k', {}) /\ UNCHANGED priority_base
      /\ mx' = [mx EXCEPT !.id[m] = TRUE, !.lock[m] = 0, !.owner_thread[m] = NoThread,
                          !.owner_prev[m] = NoMutex, !.owner_next[m] = NoMutex,
                          !.thread_list[m] = <<>>]
  BY MutexNewKeeps DEF MutexNew, Service, QueuesInv
<1>2. /\ mx'.id = [mx.id EXCEPT ![m] = TRUE] /\ mx'.lock = [mx.lock EXCEPT ![m] = 0]
      /\ mx'.owner_thread = [mx.owner_thread EXCEPT ![m] = NoThread]
      /\ mx'.thread_list = [mx.thread_list EXCEPT ![m] = <<>>]
  BY <1>1 DEF Mutexes
<1>3. \A n \in Mutex : n # m => /\ mx'.id[n] = mx.id[n] /\ mx'.lock[n] = mx.lock[n]
                                /\ mx'.owner_thread[n] = mx.owner_thread[n]
                                /\ mx'.thread_list[n] = mx.thread_list[n]
  BY <1>1, <1>2 DEF Mutexes
<1>4. mx'.lock[m] = 0 /\ mx'.thread_list[m] = <<>>
  BY <1>1, <1>2 DEF Mutexes
<1>5. mx.thread_list[m] = <<>> /\ \A n \in Mutex : ToSet(mx.thread_list[n]) \subseteq Thread
  BY <1>1, Waiters DEF Held
<1>6. \A t \in Thread : Owned(mx', t) = Owned(mx, t)
  BY <1>1, <1>3, <1>4 DEF Owned
<1>7. \A n \in Mutex : ToSet(mx'.thread_list[n]) = ToSet(mx.thread_list[n])
  BY <1>3, <1>4, <1>5
<1>8. k'.priority = k.priority
  BY ServicePriorities, Waiters DEF MutexNew
<1> QED
  BY <1>1, <1>5, <1>6, <1>7, <1>8, SettledSame

\* Nobody waits for a free mutex, so its owner inherits nothing with it.
LEMMA AcquireFreeSettled ==
  ASSUME QueuesInv, Settled(k, mx, priority_base, {}), NEW m \in Mutex, MutexAcquireFree(m)
  PROVE  Settled(k', mx', priority_base', {})
<1> DEFINE c == k.curr
<1>1. /\ mx.id[m] /\ mx.lock[m] = 0 /\ mx' = Hold(mx, m, c) /\ Lives(k, k', {})
      /\ UNCHANGED priority_base
  BY AcquireFreeKeeps DEF MutexAcquireFree, Service
<1>2. /\ mx \in Mutexes /\ c \in Thread /\ k.state[c] = "Running"
      /\ mx.thread_list[m] = <<>>
      /\ \A n \in Mutex : /\ ToSet(mx.thread_list[n]) \subseteq Thread
                          /\ c \notin ToSet(mx.thread_list[n])
  BY <1>1, Waiters DEF Held
<1>3. k'.priority = k.priority
  BY ServicePriorities, Waiters DEF MutexAcquireFree
<1> HIDE DEF c
<1>4. Taken(mx, m, c, mx')
  BY <1>1, <1>2, HoldType
<1>5. /\ mx'.id = mx.id /\ mx'.lock[m] = 1 /\ mx'.owner_thread[m] = c
      /\ mx'.thread_list = mx.thread_list
      /\ \A n \in Mutex \ {m} : /\ mx'.lock[n] = mx.lock[n]
                                /\ mx'.owner_thread[n] = mx.owner_thread[n]
  BY <1>2, <1>4 DEF Taken, Mutexes
<1>6. /\ Owned(mx', c) = Owned(mx, c) \cup {m}
      /\ \A u \in Thread \ {c} : Owned(mx', u) = Owned(mx, u)
  BY <1>1, <1>5 DEF Owned
<1>7. \A u \in Thread : Creditors(mx', u) = Creditors(mx, u)
  <2>1. Creditors(mx', c) = Creditors(mx, c)
    BY <1>2, <1>5, <1>6, EmptyWaits DEF Creditors
  <2>2. \A u \in Thread \ {c} : Creditors(mx', u) = Creditors(mx, u)
    BY <1>5, <1>6 DEF Creditors
  <2> QED
    BY <2>1, <2>2
<1>8. Fair(k'.priority, mx', priority_base', c)
  <2>1. Fair(k.priority, mx, priority_base, c)
    BY <1>2 DEF Settled
  <2> QED
    BY <1>1, <1>2, <1>3, <1>7, <2>1, FairSame
<1>9. \A n \in Mutex : \A u \in ToSet(mx'.thread_list[n]) : Owned(mx', u) = {}
  BY <1>2, <1>5, <1>6 DEF Settled
<1>10. Elsewhere(k, mx, priority_base, k', mx', priority_base', c)
  BY <1>1, <1>3, <1>7 DEF Elsewhere, Lives
<1> QED
  BY <1>3, <1>8, <1>9, <1>10, SettledElse

LEMMA CountSettled ==
  ASSUME QueuesInv, Settled(k, mx, priority_base, {}), NEW m \in Mutex,
         MutexAcquireAgain(m) \/ MutexReleaseOnce(m)
  PROVE  Settled(k', mx', priority_base', {})
<1>1. /\ mx \in Mutexes /\ mx.lock[m] \in 0 .. LockLimit /\ LockLimit \in Nat
      /\ Lives(k, k', {}) /\ UNCHANGED priority_base
  BY MutexAssumption, CountKeeps DEF QueuesInv, Mutexes, MutexAcquireAgain, MutexReleaseOnce
<1>2. PICK n \in 0 .. LockLimit : /\ mx' = [mx EXCEPT !.lock[m] = n]
                                  /\ n # 0 /\ mx.lock[m] # 0
  <2>1. CASE MutexAcquireAgain(m)
    <3>1. mx.lock[m] + 1 \in 0 .. LockLimit /\ mx.lock[m] + 1 # 0
      BY <1>1, <2>1 DEF MutexAcquireAgain
    <3> QED
      BY <2>1, <3>1 DEF MutexAcquireAgain, Service
  <2>2. CASE MutexReleaseOnce(m)
    <3>1. mx.lock[m] - 1 \in 0 .. LockLimit /\ mx.lock[m] - 1 # 0 /\ mx.lock[m] # 0
      BY <1>1, <2>2 DEF MutexReleaseOnce
    <3> QED
      BY <2>2, <3>1 DEF MutexReleaseOnce, Service
  <2> QED
    BY <1>1, <2>1, <2>2
<1>3. /\ mx'.id = mx.id /\ mx'.owner_thread = mx.owner_thread
      /\ mx'.lock = [mx.lock EXCEPT ![m] = n] /\ mx'.thread_list = mx.thread_list
  BY <1>1, <1>2, LockLinks
<1>4. mx'.lock[m] = n /\ \A i \in Mutex \ {m} : mx'.lock[i] = mx.lock[i]
  BY <1>1, <1>3 DEF Mutexes
<1>5. \A t \in Thread : Owned(mx', t) = Owned(mx, t)
  BY <1>2, <1>3, <1>4 DEF Owned
<1>6. k'.priority = k.priority
  BY ServicePriorities, Waiters DEF MutexAcquireAgain, MutexReleaseOnce
<1>7. \A i \in Mutex : ToSet(mx.thread_list[i]) \subseteq Thread
  BY Waiters
<1> QED
  BY <1>1, <1>3, <1>5, <1>6, <1>7, SettledSame

LEMMA ListPutSet ==
  ASSUME NEW q, NEW list \in Seq(Thread), NEW t \in Thread, t \notin ToSet(list), Distinct(list)
  PROVE  ToSet(ListPut(q, list, t)) = ToSet(list) \cup {t}
<1> DEFINE S == {u \in Thread : q.priority[u] >= q.priority[t]}
<1>1. ListPut(q, list, t) = InsertAt(list, PastPrefix(list, S), t)
  BY DEF ListPut
<1> HIDE DEF S
<1>2. PastPrefix(list, S) \in 1 .. Len(list) + 1
  BY PastPrefixIndex
<1> QED
  BY <1>1, <1>2, InsertSet

\* A thread without a first mutex owns none.
LEMMA ListEmpty ==
  ASSUME NEW x, NEW t, NEW l, Chain(x, t, l), x.mutex_list[t] = NoMutex
  PROVE  Owned(x, t) = {}
<1>1. l \in Seq(Mutex) /\ At(l, 1) = NoMutex /\ ToSet(l) = Owned(x, t)
  BY DEF Chain, Strung
<1>2. 1 \notin 1 .. Len(l)
  <2>1. \A i \in 1 .. Len(l) : l[i] \in Mutex /\ At(l, i) = l[i]
    BY <1>1, StrungFacts
  <2> QED
    BY <1>1, <2>1, MutexAssumption
<1>3. Len(l) \in Nat /\ Len(l) = 0
  BY <1>1, <1>2
<1> QED
  BY <1>1, <1>3 DEF ToSet

\* Where nobody locks the kernel a thread other than the idle one can always give the
\* processor away: to the idle thread if to no other.
LEMMA ReadySomebody ==
  ASSUME QueuesInv, handler = "thread", "Lock" \notin Habits, k.curr # Idle
  PROVE  CanSwitch(k)
<1>1. Runs(k, {}) /\ k.curr = k.next /\ Able(k) /\ Idle \in Thread
  BY Now, MutexAssumption
<1>2. k.state[Idle] = "Ready"
  BY <1>1 DEF Able, Runs, Placed
<1>3. Idle \in ToSet(k.ready)
  BY <1>1, <1>2 DEF Runs, Placed
<1> QED
  BY <1>1, <1>3, EmptyWaits DEF CanSwitch, Able

\* What the thread that waits and the owner are left with.
LEMMA AcquireWaitFacts ==
  ASSUME QueuesInv, Linked(k, mx, {}), Habits \subseteq {"Delete"},
         NEW m \in Mutex, NEW timeout \in Timeout, MutexAcquireWait(m, timeout)
  PROVE  LET owner == mx.owner_thread[m]
             c     == k.curr
         IN  /\ owner \in Thread \ {c} /\ Owned(mx, c) = {} /\ m \in Owned(mx, owner)
             /\ k'.priority = IF m \in PrioInherit /\ k.priority[owner] < k.priority[c]
                              THEN [k.priority EXCEPT ![owner] = k.priority[c]]
                              ELSE k.priority
             /\ ToSet(mx'.thread_list[m]) = ToSet(mx.thread_list[m]) \cup {c}
             /\ \A n \in Mutex \ {m} :
                  ToSet(mx'.thread_list[n]) = ToSet(mx.thread_list[n])
<1> DEFINE owner  == mx.owner_thread[m]
           c      == k.curr
           risen  == Reprioritise(k, owner, k.priority[c])
           raised == IF m \in PrioInherit /\ k.priority[owner] < k.priority[c]
                     THEN risen ELSE k
           x      == Requeue(k, raised, mx, owner)
           y      == [x EXCEPT !.thread_list[m] = ListPut(raised, @, c)]
           after  == WaitEnter(raised, "WaitingMutex", timeout)
<1>1. /\ mx.id[m] /\ mx.lock[m] # 0 /\ handler = "thread" /\ mx.mutex_list[c] = NoMutex
      /\ c # Idle /\ "Lock" \notin Habits
  BY DEF MutexAcquireWait, Service
<1>2. Service(after, y)
  <2>1. CanSwitch(k)
    BY <1>1, ReadySomebody
  <2> QED
    BY <2>1 DEF MutexAcquireWait
<1>3. /\ owner \in Thread /\ c \in Thread /\ k.state[c] = "Running" /\ Typed(k)
      /\ k.priority \in [Thread -> Nat] /\ "priority" \in DOMAIN k
      /\ \A n \in Mutex : c \notin ToSet(mx.thread_list[n])
  BY <1>1, Waiters DEF Held
<1>4. m \in Owned(mx, owner)
  BY <1>1 DEF Owned
<1>5. Owned(mx, c) = {}
  <2>1. PICK l : Chain(mx, c, l)
    BY <1>3 DEF Linked
  <2> QED
    BY <1>1, <2>1, ListEmpty
<1>6. owner # c
  BY <1>4, <1>5
<1>7. Moved(k, mx, raised, x, 1)
  BY <1>1, AcquireRaises
<1>8. /\ "priority" \in DOMAIN raised
      /\ raised.priority = IF m \in PrioInherit /\ k.priority[owner] < k.priority[c]
                           THEN [k.priority EXCEPT ![owner] = k.priority[c]]
                           ELSE k.priority
  <2>1. k.priority[c] \in Nat
    BY <1>3
  <2>2. risen.priority = [k.priority EXCEPT ![owner] = k.priority[c]]
    BY <1>3, <2>1, ReprioritisePriority
  <2> HIDE DEF risen, x
  <2>3. "priority" \in DOMAIN raised
    <3> HIDE DEF raised
    <3> QED
      BY <1>7, RunningWaitsNot DEF Moved
  <2> QED
    BY <2>2, <2>3
<1> HIDE DEF owner, c, raised, x
<1>9. k'.priority = raised.priority
  <2>1. Prioritised(raised, after)
    BY <1>8, WaitPriorities
  <2> HIDE DEF after, y
  <2> QED
    BY <1>2, <2>1, ServicePriorities DEF Prioritised
<1>10. /\ x \in Mutexes /\ SameWaiters(mx.thread_list, x.thread_list)
       /\ Waiting(Mutex, MutexStates, raised, x.thread_list, AnyMutex)
  BY <1>7, RunningWaitsNot DEF Moved
<1>11. mx' = y
  BY <1>2 DEF Service
<1>12. /\ x.thread_list \in [Mutex -> Seq(Thread)]
       /\ \A n \in Mutex : /\ Distinct(x.thread_list[n])
                           /\ ToSet(x.thread_list[n]) = ToSet(mx.thread_list[n])
  BY <1>10 DEF Waiting, SameWaiters
<1>13. y.thread_list = [x.thread_list EXCEPT ![m] = ListPut(raised, @, c)]
  BY <1>10 DEF Mutexes
<1> HIDE DEF y
<1>14. /\ y.thread_list[m] = ListPut(raised, x.thread_list[m], c)
       /\ \A n \in Mutex \ {m} : y.thread_list[n] = x.thread_list[n]
  BY <1>12, <1>13
<1>15. ToSet(y.thread_list[m]) = ToSet(x.thread_list[m]) \cup {c}
  <2>1. x.thread_list[m] \in Seq(Thread) /\ c \notin ToSet(x.thread_list[m])
    BY <1>3, <1>12
  <2> QED
    BY <1>3, <1>12, <1>14, <2>1, ListPutSet
<1>16. /\ ToSet(mx'.thread_list[m]) = ToSet(mx.thread_list[m]) \cup {c}
       /\ \A n \in Mutex \ {m} : ToSet(mx'.thread_list[n]) = ToSet(mx.thread_list[n])
  BY <1>11, <1>12, <1>14, <1>15
<1> QED
  BY <1>3, <1>4, <1>5, <1>6, <1>8, <1>9, <1>16 DEF owner, c

\* The owner is raised to what the new creditor has, where that is more.
LEMMA AcquireWaitSettled ==
  ASSUME QueuesInv, Linked(k, mx, {}), Settled(k, mx, priority_base, {}),
         Habits \subseteq {"Delete"},
         NEW m \in Mutex, NEW timeout \in Timeout, MutexAcquireWait(m, timeout)
  PROVE  Settled(k', mx', priority_base', {})
<1> DEFINE owner == mx.owner_thread[m]
           c     == k.curr
<1>1. /\ owner \in Thread /\ owner # c /\ Owned(mx, c) = {} /\ m \in Owned(mx, owner)
      /\ k'.priority = IF m \in PrioInherit /\ k.priority[owner] < k.priority[c]
                       THEN [k.priority EXCEPT ![owner] = k.priority[c]]
                       ELSE k.priority
      /\ ToSet(mx'.thread_list[m]) = ToSet(mx.thread_list[m]) \cup {c}
      /\ \A n \in Mutex \ {m} : ToSet(mx'.thread_list[n]) = ToSet(mx.thread_list[n])
  BY AcquireWaitFacts
<1>2. /\ Lives(k, k', {}) /\ SameLocks(mx, mx') /\ UNCHANGED priority_base
  BY AcquireWaitKeeps, AcquireWaitLocks DEF MutexAcquireWait
<1>3. /\ k.priority \in [Thread -> Nat] /\ c \in Thread /\ priority_base \in [Thread -> Nat]
  BY Waiters
<1> HIDE DEF owner, c
<1>4. \A u : Owned(mx', u) = Owned(mx, u)
  BY <1>2 DEF SameLocks, Owned
<1>5. \A u \in Thread \ {owner} : Creditors(mx', u) = Creditors(mx, u)
  <2> SUFFICES ASSUME NEW u \in Thread \ {owner}
               PROVE  Creditors(mx', u) = Creditors(mx, u)
    OBVIOUS
  <2>1. \A n \in Owned(mx, u) : n \in Mutex \ {m}
    BY <1>1 DEF Owned
  <2>2. \A n \in PrioInherit \cap Owned(mx, u) :
          ToSet(mx'.thread_list[n]) = ToSet(mx.thread_list[n])
    BY <1>1, <2>1
  <2> QED
    BY <1>4, <2>2, CreditorsSame
<1>6. Creditors(mx', owner) = IF m \in PrioInherit THEN Creditors(mx, owner) \cup {c}
                              ELSE Creditors(mx, owner)
  <2>1. \A n \in Owned(mx, owner) : n \in Mutex
    BY DEF Owned
  <2> QED
    BY <1>1, <1>3, <1>4, <2>1 DEF Creditors
<1>7. \A u \in Thread \ {owner} : k'.priority[u] = k.priority[u]
  BY <1>1, <1>3
<1>8. \A u \in Thread : owner \notin Creditors(mx, u)
  BY <1>1, CreditorsFree
<1>9. k.state[owner] # "Inactive"
  BY <1>1 DEF Linked
<1>10. Fair(k.priority, mx, priority_base, owner)
  BY <1>1, <1>9 DEF Settled
<1>11. Fair(k'.priority, mx', priority_base', owner)
  <2>1. /\ k.priority[owner] \in Nat /\ k.priority[c] \in Nat
        /\ \A u \in Creditors(mx, owner) : u \in Thread /\ k.priority[u] \in Nat
        /\ priority_base[owner] \in Nat
    BY <1>1, <1>3 DEF Creditors
  <2>2. \A u \in Creditors(mx, owner) : u # owner /\ k'.priority[u] = k.priority[u]
    BY <1>7, <1>8, <2>1, <1>1
  <2>3. k'.priority[c] = k.priority[c]
    BY <1>1, <1>3, <1>7
  <2>4. CASE m \notin PrioInherit
    BY <1>1, <1>2, <1>6, <1>10, <2>4 DEF Fair
  <2>5. CASE m \in PrioInherit /\ k.priority[owner] < k.priority[c]
    <3>1. k'.priority[owner] = k.priority[c]
      BY <1>1, <1>3, <2>5
    <3>2. Creditors(mx', owner) = Creditors(mx, owner) \cup {c}
      BY <1>6, <2>5
    <3>3. priority_base[owner] <= k.priority[owner]
          /\ \A u \in Creditors(mx, owner) : k.priority[u] <= k.priority[owner]
      BY <1>10 DEF Fair
    <3>4. priority_base[owner] <= k.priority[c]
          /\ \A u \in Creditors(mx, owner) : k.priority[u] <= k.priority[c]
      BY <2>1, <2>5, <3>3
    <3> QED
      BY <1>2, <2>1, <2>2, <2>3, <3>1, <3>2, <3>4 DEF Fair
  <2>6. CASE m \in PrioInherit /\ ~(k.priority[owner] < k.priority[c])
    <3>1. k'.priority = k.priority /\ k.priority[c] <= k.priority[owner]
      BY <1>1, <2>1, <2>6
    <3>2. Creditors(mx', owner) = Creditors(mx, owner) \cup {c}
      BY <1>6, <2>6
    <3> QED
      BY <1>2, <1>10, <3>1, <3>2 DEF Fair
  <2> QED
    BY <2>4, <2>5, <2>6
<1>12. \A n \in Mutex : \A u \in ToSet(mx'.thread_list[n]) : Owned(mx', u) = {}
  BY <1>1, <1>4 DEF Settled
<1>13. Elsewhere(k, mx, priority_base, k', mx', priority_base', owner)
  BY <1>2, <1>5, <1>7 DEF Elsewhere, Lives
<1> QED
  BY <1>8, <1>11, <1>12, <1>13, SettledElse

\* The services that leave everyone in the list he is in.
LEMMA StandSettled ==
  ASSUME QueuesInv, Settled(k, mx, priority_base, {}), Lives(k, k', {}),
         NEW after, Service(after, mx), Prioritised(k, after), UNCHANGED priority_base
  PROVE  Settled(k', mx', priority_base', {})
<1>1. k'.priority = k.priority /\ mx' = mx
  BY ServicePriorities DEF Prioritised
<1> QED
  BY <1>1, StillSettled DEF SameLocks

\* ... and those that take a thread from the list it waits in, which it does not.
LEMMA LeaveSettled ==
  ASSUME QueuesInv, Settled(k, mx, priority_base, {}), Lives(k, k', {}),
         NEW t, ~Waits(t),
         NEW after, Service(after, Leave(mx, t)), Prioritised(k, after),
         UNCHANGED priority_base
  PROVE  Settled(k', mx', priority_base', {})
<1>1. k'.priority = k.priority /\ mx' = Leave(mx, t)
  BY ServicePriorities DEF Prioritised
<1>2. SameLocks(mx, mx') /\ \A m \in Mutex : mx'.thread_list[m] = mx.thread_list[m]
  BY <1>1, LeaveNobody
<1> QED
  BY <1>1, <1>2, StillSettled

LEMMA SuspendSettled ==
  ASSUME QueuesInv, Settled(k, mx, priority_base, {}), "Disturb" \notin Habits,
         NEW t \in Application, ThreadSuspend(t)
  PROVE  Settled(k', mx', priority_base', {})
<1>1. Service(Suspend(k, t), Leave(mx, t)) /\ ~Waits(t) /\ UNCHANGED priority_base
  BY DEF ThreadSuspend, MayDisturb
<1>2. Lives(k, k', {})
  BY ThreadSuspendKeeps
<1>3. Prioritised(k, Suspend(k, t))
  BY Waiters, WaitPriorities
<1> QED
  BY <1>1, <1>2, <1>3, LeaveSettled

LEMMA ResumeSettled ==
  ASSUME QueuesInv, Settled(k, mx, priority_base, {}), "Disturb" \notin Habits,
         NEW t \in Application, ThreadResume(t)
  PROVE  Settled(k', mx', priority_base', {})
<1>1. Service(Resume(k, t), Leave(mx, t)) /\ ~Waits(t) /\ UNCHANGED priority_base
  BY DEF ThreadResume, MayDisturb
<1>2. Lives(k, k', {})
  BY ThreadResumeKeeps DEF Application
<1>3. Prioritised(k, Resume(k, t))
  BY Waiters, WaitPriorities
<1> QED
  BY <1>1, <1>2, <1>3, LeaveSettled

LEMMA DelaySettled ==
  ASSUME QueuesInv, Settled(k, mx, priority_base, {}), NEW ticks \in Timeout, Delay(ticks)
  PROVE  Settled(k', mx', priority_base', {})
<1>1. Service(WaitEnter(k, "WaitingDelay", ticks), mx) /\ UNCHANGED priority_base
  BY DEF Delay
<1>2. Lives(k, k', {})
  BY DelayKeeps
<1>3. Prioritised(k, WaitEnter(k, "WaitingDelay", ticks))
  BY Waiters, WaitPriorities
<1> QED
  BY <1>1, <1>2, <1>3, StandSettled

LEMMA LockSettled ==
  ASSUME QueuesInv, Settled(k, mx, priority_base, {}), KernelLock \/ KernelUnlock
  PROVE  Settled(k', mx', priority_base', {})
<1>1. PICK s : Service([k EXCEPT !.kernel = s], mx) /\ UNCHANGED priority_base
  BY DEF KernelLock, KernelUnlock
<1>2. Lives(k, k', {})
  BY LockKeeps
<1>3. Prioritised(k, [k EXCEPT !.kernel = s])
  BY Waiters, BasicPriorities
<1> QED
  BY <1>1, <1>2, <1>3, StandSettled

LEMMA TickStartSettled ==
  ASSUME QueuesInv, Settled(k, mx, priority_base, {}), TickStart
  PROVE  Settled(k', mx', priority_base', {})
<1>1. k' = CountDown(k) /\ mx' = mx /\ UNCHANGED priority_base
  BY DEF TickStart
<1>2. Lives(k, k', {})
  BY TickStartKeeps
<1>3. k'.priority = k.priority
  BY <1>1, Waiters, BasicPriorities DEF Prioritised
<1> QED
  BY <1>1, <1>2, <1>3, StillSettled DEF SameLocks

LEMMA TickEndSettled ==
  ASSUME QueuesInv, Settled(k, mx, priority_base, {}), TickEnd
  PROVE  Settled(k', mx', priority_base', {})
<1> DEFINE d == Dispatch(k)
           r == RoundRobin(d)
<1>1. k' = Return(r) /\ mx' = mx /\ UNCHANGED priority_base
  BY DEF TickEnd
<1>2. Lives(k, k', {})
  BY TickEndKeeps
<1>3. Prioritised(k, d)
  BY Waiters, DispatchPriorities
<1> HIDE DEF d
<1>4. Prioritised(d, r)
  BY <1>3, RoundRobinPriorities DEF Prioritised
<1> HIDE DEF r
<1>5. Prioritised(r, Return(r))
  BY <1>4, BasicPriorities DEF Prioritised
<1>6. k'.priority = k.priority
  BY <1>1, <1>3, <1>4, <1>5 DEF Prioritised
<1> QED
  BY <1>1, <1>2, <1>6, StillSettled DEF SameLocks

\* A new thread has its own priority, and neither mutexes nor creditors.
LEMMA ThreadNewSettled ==
  ASSUME QueuesInv, Linked(k, mx, {}), Settled(k, mx, priority_base, {}),
         NEW t \in Thread, NEW p \in Priority, ThreadNew(t, p)
  PROVE  Settled(k', mx', priority_base', {})
<1> DEFINE b == Begun(k, t, p)
<1>1. /\ k.state[t] = "Inactive" /\ mx' = [mx EXCEPT !.mutex_list[t] = NoMutex]
      /\ Service(DispatchThread(b, t), mx') /\ p \in Nat
      /\ priority_base' = [priority_base EXCEPT ![t] = p]
  BY MutexAssumption DEF ThreadNew, Service, Begun
<1>2. /\ mx \in Mutexes /\ Typed(k) /\ k.priority \in [Thread -> Nat]
      /\ priority_base \in [Thread -> Nat] /\ Lives(k, k', {t})
      /\ \A m \in Mutex : /\ ToSet(mx.thread_list[m]) \subseteq Thread
                          /\ t \notin ToSet(mx.thread_list[m])
  BY <1>1, Waiters, ThreadNewKeeps DEF Waits
<1>3. "priority" \in DOMAIN b /\ b.priority = [k.priority EXCEPT ![t] = p]
  BY <1>2 DEF Begun, Typed
<1> HIDE DEF b
<1>4. k'.priority = [k.priority EXCEPT ![t] = p]
  <2>1. Prioritised(b, DispatchThread(b, t))
    BY <1>3, DispatchPriorities
  <2> QED
    BY <1>1, <1>3, <2>1, ServicePriorities DEF Prioritised
<1>5. /\ mx'.id = mx.id /\ mx'.lock = mx.lock /\ mx'.owner_thread = mx.owner_thread
      /\ mx'.thread_list = mx.thread_list
  BY <1>1, <1>2 DEF Mutexes
<1>6. \A u : Owned(mx', u) = Owned(mx, u)
  BY <1>5 DEF Owned
<1>7. \A u : Creditors(mx', u) = Creditors(mx, u) /\ t \notin Creditors(mx, u)
  BY <1>2, <1>5, <1>6 DEF Creditors, Owned
<1>8. Creditors(mx', t) = {}
  <2>1. Owned(mx, t) = {}
    BY <1>1 DEF Linked
  <2> QED
    BY <1>6, <2>1 DEF Creditors
<1>9. Fair(k'.priority, mx', priority_base', t)
  <2>1. k'.priority[t] = p /\ priority_base'[t] = p
    BY <1>1, <1>2, <1>4
  <2> QED
    BY <1>1, <1>8, <2>1 DEF Fair
<1>10. \A u \in Thread \ {t} : /\ priority_base'[u] = priority_base[u]
                               /\ k'.priority[u] = k.priority[u]
  BY <1>1, <1>2, <1>4
<1>11. \A m \in Mutex : \A u \in ToSet(mx'.thread_list[m]) : Owned(mx', u) = {}
  BY <1>5, <1>6 DEF Settled
<1>12. Elsewhere(k, mx, priority_base, k', mx', priority_base', t)
  BY <1>2, <1>7, <1>10 DEF Elsewhere, Lives
<1>13. \A u \in Thread : t \notin Creditors(mx, u)
  BY <1>7
<1> QED
  BY <1>9, <1>11, <1>12, <1>13, SettledElse

\* Who waits for nothing and owns nothing may change his own priority.
LEMMA SetPrioritySettled ==
  ASSUME QueuesInv, Linked(k, mx, {}), Settled(k, mx, priority_base, {}),
         "Disturb" \notin Habits,
         NEW t \in Thread, NEW p \in Priority, ThreadSetPriority(t, p)
  PROVE  Settled(k', mx', priority_base', {})
<1> DEFINE m == [k EXCEPT !.priority[t] = p]
           r == SetPriority(k, t, p)
           x == Requeue(k, m, mx, t)
<1>1. /\ Service(r, x) /\ p \in Nat /\ k.state[t] # "Inactive" /\ handler = "thread"
      /\ priority_base' = [priority_base EXCEPT ![t] = p]
      /\ ~Waits(t) /\ mx.mutex_list[t] = NoMutex
  BY MutexAssumption DEF ThreadSetPriority, Service, MayDisturb
<1>2. /\ mx \in Mutexes /\ Typed(k) /\ k.priority \in [Thread -> Nat]
      /\ priority_base \in [Thread -> Nat] /\ Lives(k, k', {})
      /\ \A n \in Mutex : /\ ToSet(mx.thread_list[n]) \subseteq Thread
                          /\ t \notin ToSet(mx.thread_list[n])
  BY <1>1, Waiters, ThreadSetPriorityKeeps
<1>3. k'.priority = [k.priority EXCEPT ![t] = p]
  <2>1. Sorted(k, 1) /\ Distinct(k.ready)
    BY <1>1, Now DEF Runs, Placed
  <2>2. PICK n : /\ r = Dispatch(n) /\ Sorted(n, 1)
                 /\ n.priority = [k.priority EXCEPT ![t] = p]
    BY <1>1, <2>1, RaiseSorted
  <2>4. "priority" \in DOMAIN n
    BY <2>2 DEF Sorted, Typed
  <2>3. Prioritised(n, r)
    BY <2>2, <2>4, DispatchPriorities
  <2> HIDE DEF r, x
  <2> QED
    BY <1>1, <2>2, <2>3, ServicePriorities DEF Prioritised
<1>4. mx' = x /\ SameLocks(mx, x)
  BY <1>1, <1>2, MutexFields, RequeueLocks DEF Service
<1>5. \A n \in Mutex : x.thread_list[n] = mx.thread_list[n]
  <2>1. \A n \in Mutex : ListSort(m, mx.thread_list[n], t) = mx.thread_list[n]
    BY <1>2 DEF ListSort
  <2> HIDE DEF m
  <2> QED
    BY <1>2, <2>1 DEF Requeue, Mutexes
<1> HIDE DEF x, r, m
<1>6. \A u : Owned(mx', u) = Owned(mx, u)
  BY <1>4 DEF SameLocks, Owned
<1>7. \A u : Creditors(mx', u) = Creditors(mx, u) /\ t \notin Creditors(mx, u)
  BY <1>2, <1>4, <1>5, <1>6 DEF Creditors, Owned
<1>8. Creditors(mx', t) = {}
  <2>1. PICK l : Chain(mx, t, l)
    BY <1>1 DEF Linked
  <2>2. Owned(mx, t) = {}
    BY <1>1, <2>1, ListEmpty
  <2> QED
    BY <1>6, <2>2 DEF Creditors
<1>9. Fair(k'.priority, mx', priority_base', t)
  <2>1. k'.priority[t] = p /\ priority_base'[t] = p
    BY <1>1, <1>2, <1>3
  <2> QED
    BY <1>1, <1>8, <2>1 DEF Fair
<1>10. \A u \in Thread \ {t} : /\ priority_base'[u] = priority_base[u]
                               /\ k'.priority[u] = k.priority[u]
  BY <1>1, <1>2, <1>3
<1>11. \A n \in Mutex : \A u \in ToSet(mx'.thread_list[n]) : Owned(mx', u) = {}
  BY <1>4, <1>5, <1>6 DEF Settled
<1>12. Elsewhere(k, mx, priority_base, k', mx', priority_base', t)
  BY <1>2, <1>7, <1>10 DEF Elsewhere, Lives
<1>13. \A u \in Thread : t \notin Creditors(mx, u)
  BY <1>7
<1> QED
  BY <1>9, <1>11, <1>12, <1>13, SettledElse

\* A thread that has ended is owed nothing.
LEMMA DeadSettled ==
  ASSUME NEW q, NEW x, NEW b, NEW t, Settled(q, x, b, {t}),
         NEW r, r.priority = q.priority, Lives(q, r, {t}), r.state[t] = "Inactive"
  PROVE  Settled(r, x, b, {})
BY DEF Settled, Lives

LEMMA ThreadExitSettled ==
  ASSUME QueuesInv, Linked(k, mx, {}), Settled(k, mx, priority_base, {}),
         "Abandon" \notin Habits, ThreadExit
  PROVE  Settled(k', mx', priority_base', {})
<1> DEFINE c == k.curr
           left == Bequeath(k, mx, c)
           d == SwitchToReady(left.s)
           r == [d EXCEPT !.state[c] = "Inactive"]
<1>1. /\ handler = "thread" /\ ToSet(MutexList(mx, c)) \subseteq Robust
      /\ Service(r, left.x) /\ UNCHANGED priority_base
      /\ Lives(k, k', {c}) /\ k'.state[c] = "Inactive"
  BY ThreadExitKeeps DEF ThreadExit, Service, MayEnd
<1>2. /\ Queues(k, mx, {}, 1) /\ mx \in Mutexes /\ \A m \in Mutex : Held(mx, m)
      /\ c \in Thread /\ k.state[c] # "Inactive"
  BY <1>1, Now
<1>3. Leaves(k, k, mx, {}, 1)
  BY <1>2 DEF Leaves, SameRun, Wakened
<1>4. Leaves(k, left.s, left.x, {}, 1)
  BY <1>2, <1>3, BequeathKeeps
<1>5. PICK b : b = priority_base
  OBVIOUS
<1>6. Settled(k, left.x, b, {c})
  <2>1. Settled(k, mx, b, {})
    BY <1>5
  <2>2. Settled(k, mx, b, {}) => Settled(k, Bequeath(k, mx, c).x, b, {c})
    BY <1>1, <1>2, <1>3, EndLinked
  <2> QED
    BY <2>1, <2>2
<1>7. "priority" \in DOMAIN left.s /\ left.s.priority = k.priority
  BY <1>4, RunningWaitsNot DEF Leaves
<1> HIDE DEF left
<1>8. Prioritised(left.s, d)
  BY <1>7, DispatchPriorities
<1> HIDE DEF d
<1>9. Prioritised(d, r)
  BY <1>8, BasicPriorities DEF Prioritised
<1> HIDE DEF r
<1>10. k'.priority = k.priority /\ mx' = left.x
  BY <1>1, <1>7, <1>8, <1>9, ServicePriorities DEF Prioritised
<1> HIDE DEF c
<1>11. Settled(k', mx', b, {})
  BY <1>1, <1>6, <1>10, DeadSettled
<1> QED
  BY <1>1, <1>5, <1>11

LEMMA ThreadTerminateSettled ==
  ASSUME QueuesInv, Linked(k, mx, {}), Settled(k, mx, priority_base, {}),
         "Abandon" \notin Habits, "Disturb" \notin Habits,
         NEW t \in Application, ThreadTerminate(t)
  PROVE  Settled(k', mx', priority_base', {})
<1> DEFINE u == Unlist(k, t)
           y == Leave(mx, t)
           left == Bequeath(u, y, t)
           d == Dispatch(left.s)
           r == [d EXCEPT !.state[t] = "Inactive"]
<1>1. /\ handler = "thread" /\ t \in Thread /\ t # k.curr /\ ~Waits(t)
      /\ ToSet(MutexList(mx, t)) \subseteq Robust /\ k.state[t] # "Inactive"
      /\ Service(r, left.x) /\ UNCHANGED priority_base
      /\ Lives(k, k', {t}) /\ k'.state[t] = "Inactive"
  <2>1. Lives(k, k', {t}) /\ k'.state[t] = "Inactive"
    BY ThreadTerminateKeeps
  <2>2. handler = "thread" /\ Service(r, left.x) /\ UNCHANGED priority_base
    BY DEF ThreadTerminate, Service
  <2>3. t # k.curr /\ Stoppable(k, t) /\ MayEnd(t) /\ t \in Thread /\ ~Waits(t)
    BY DEF ThreadTerminate, Application, MayDisturb
  <2>4. ToSet(MutexList(mx, t)) \subseteq Robust
    BY <2>3 DEF MayEnd
  <2>5. k.state[t] # "Inactive"
    BY <2>3 DEF Stoppable, BlockedStates, WaitStates
  <2> QED
    BY <2>1, <2>2, <2>3, <2>4, <2>5
<1>2. Leaves(u, u, y, {t}, 1) /\ u.state = k.state /\ u.priority = k.priority
  BY <1>1, UnlistQueues
<1>3. mx \in Mutexes
  BY DEF QueuesInv
<1> HIDE DEF u
<1>4. SameLocks(mx, y) /\ \A m \in Mutex : y.thread_list[m] = mx.thread_list[m]
  BY <1>1, LeaveNobody
<1> HIDE DEF y
<1>5. y \in Mutexes
  BY <1>2 DEF Leaves
<1>6. Linked(u, y, {}) /\ Lives(k, u, {})
  <2>1. Lives(k, u, {})
    BY <1>2 DEF Lives
  <2> QED
    BY <1>4, <2>1, LocksLinked
<1>7. MutexList(y, t) = MutexList(mx, t)
  <2>1. PICK l : Strung(mx, t, l)
    BY <1>1 DEF Linked, Chain
  <2>2. Strung(y, t, l)
    BY <1>4, <2>1 DEF Strung, SameLocks
  <2> QED
    BY <1>1, <1>3, <1>5, <2>1, <2>2, MutexListIs
<1>8. Lives(u, k', {t}) /\ u.state[t] # "Inactive" /\ t \in {t}
  BY <1>1, <1>2 DEF Lives
<1>9. PICK b : b = priority_base
  OBVIOUS
<1>10. Settled(u, y, b, {})
  <2>1. \A v \in Thread : Owned(y, v) = Owned(mx, v)
    BY <1>4 DEF SameLocks, Owned
  <2>2. \A m \in Mutex : ToSet(mx.thread_list[m]) \subseteq Thread
    BY Waiters
  <2> QED
    BY <1>2, <1>4, <1>6, <1>9, <2>1, <2>2, SettledSame
<1>11. Settled(u, left.x, b, {t})
  <2>1. ToSet(MutexList(y, t)) \subseteq Robust
    BY <1>1, <1>7
  <2>2. Settled(u, y, b, {}) => Settled(u, Bequeath(u, y, t).x, b, {t})
    BY <1>1, <1>2, <1>6, <1>8, <2>1, EndLinked
  <2> QED
    BY <1>10, <2>2
<1>12. "priority" \in DOMAIN left.s /\ left.s.priority = k.priority
  <2>1. Leaves(u, left.s, left.x, {t}, 1)
    BY <1>1, <1>2, BequeathKeeps
  <2> HIDE DEF left
  <2> QED
    BY <1>2, <2>1 DEF Leaves, Queues, Runs, Typed
<1> HIDE DEF left
<1>13. Prioritised(left.s, d)
  BY <1>12, DispatchPriorities
<1> HIDE DEF d
<1>14. Prioritised(d, r)
  BY <1>13, BasicPriorities DEF Prioritised
<1> HIDE DEF r
<1>15. k'.priority = u.priority /\ mx' = left.x
  BY <1>1, <1>2, <1>12, <1>13, <1>14, ServicePriorities DEF Prioritised
<1>16. Settled(k', mx', b, {})
  BY <1>1, <1>8, <1>11, <1>15, DeadSettled
<1> QED
  BY <1>1, <1>9, <1>16

\* x and y agree on what the threads other than t own and who waits for it.
Spared(x, y, t) ==
  \A u \in Thread \ {t} :
    /\ Owned(y, u) = Owned(x, u)
    /\ \A m \in PrioInherit \cap Owned(x, u) :
         ToSet(y.thread_list[m]) = ToSet(x.thread_list[m])

\* t, which owned something, is given what it owes once a mutex is gone, or a thread
\* that waited for one.
LEMMA LoweredSettled ==
  ASSUME QueuesInv, Settled(k, mx, priority_base, {}),
         NEW t \in Thread, Owned(mx, t) # {}, NEW gone \in Thread \cup {NoThread},
         NEW x \in Mutexes, x.thread_list = mx.thread_list,
         NEW y, Owned(y, t) = ToSet(MutexList(x, t)), Owned(y, t) \subseteq Owned(mx, t),
         \A m \in Owned(y, t) : ToSet(y.thread_list[m]) = ToSet(mx.thread_list[m]) \ {gone},
         \A m \in Mutex : ToSet(y.thread_list[m]) \subseteq ToSet(mx.thread_list[m]),
         Spared(mx, y, t),
         NEW r, Lives(k, r, {}), r.priority = [k.priority EXCEPT ![t] = Owed(k, x, t, gone)]
  PROVE  Settled(r, y, priority_base, {})
<1>1. /\ k.priority \in [Thread -> Nat] /\ priority_base \in [Thread -> Nat]
      /\ Waiting(Mutex, MutexStates, k, mx.thread_list, AnyMutex)
      /\ \A m \in Mutex : ToSet(mx.thread_list[m]) \subseteq Thread
  BY Waiters
<1>2. \A m \in Mutex : t \notin ToSet(mx.thread_list[m])
  BY DEF Settled
<1>3. \A u \in Thread : t \notin Creditors(mx, u)
  BY CreditorsFree
<1>4. \A m \in Mutex : /\ Distinct(x.thread_list[m])
                       /\ Ascends(x.thread_list[m], Urgency(k))
  BY <1>1 DEF Waiting
<1>5. \A m \in Owned(y, t) : /\ ToSet(y.thread_list[m]) = ToSet(x.thread_list[m]) \ {gone}
                             /\ t \notin ToSet(x.thread_list[m])
  BY <1>2 DEF Owned
<1>6. Fair(r.priority, y, priority_base, t)
  <2>1. k.priority \in [Thread -> Nat] /\ priority_base \in [Thread -> Nat]
    BY <1>1
  <2>2. Owned(y, t) = ToSet(MutexList(x, t))
    OBVIOUS
  <2>3. PICK p : p = r.priority
    OBVIOUS
  <2>4. p = [k.priority EXCEPT ![t] = Owed(k, x, t, gone)]
    BY <2>3
  <2>5. Fair(p, y, priority_base, t)
    BY ONLY <1>4, <1>5, <2>1, <2>2, <2>4, OwedFair, x \in Mutexes, t \in Thread,
            gone \in Thread \cup {NoThread}
  <2> QED
    BY <2>3, <2>5
<1>7. \A u \in Thread \ {t} : r.priority[u] = k.priority[u]
  BY <1>1
<1>8. \A u \in Thread \ {t} : Creditors(y, u) = Creditors(mx, u)
  <2> SUFFICES ASSUME NEW u \in Thread \ {t}  PROVE Creditors(y, u) = Creditors(mx, u)
    OBVIOUS
  <2>1. /\ Owned(y, u) = Owned(mx, u)
        /\ \A m \in PrioInherit \cap Owned(mx, u) :
             ToSet(y.thread_list[m]) = ToSet(mx.thread_list[m])
    BY DEF Spared
  <2> QED
    BY <2>1, CreditorsSame
<1>9. Elsewhere(k, mx, priority_base, r, y, priority_base, t)
  BY <1>7, <1>8 DEF Elsewhere, Lives
<1>10. \A m \in Mutex : \A u \in ToSet(y.thread_list[m]) : Owned(y, u) = {}
  <2> SUFFICES ASSUME NEW m \in Mutex, NEW u \in ToSet(y.thread_list[m])
               PROVE  Owned(y, u) = {}
    OBVIOUS
  <2>1. u \in ToSet(mx.thread_list[m])
    OBVIOUS
  <2>2. u \in Thread \ {t} /\ Owned(mx, u) = {}
    BY <1>1, <1>2, <2>1 DEF Settled
  <2> QED
    BY <2>2 DEF Spared
<1> QED
  BY <1>3, <1>6, <1>9, <1>10, SettledElse

\* The same threads are alive, with the same priorities.
LEMMA SettledOn ==
  ASSUME NEW q, NEW x, NEW b, NEW D, Settled(q, x, b, D),
         NEW r, Lives(q, r, D), r.priority = q.priority
  PROVE  Settled(r, x, b, D)
BY DEF Settled, Lives

\* The list the walk finds is that of the mutexes owned.
LEMMA ListChained ==
  ASSUME NEW q, NEW x \in Mutexes, Linked(q, x, {}), NEW t \in Thread,
         q.state[t] # "Inactive"
  PROVE  Chain(x, t, MutexList(x, t)) /\ ToSet(MutexList(x, t)) = Owned(x, t)
<1>1. PICK l : Chain(x, t, l)
  BY DEF Linked
<1>2. MutexList(x, t) = l
  BY <1>1, MutexListIs DEF Chain
<1> QED
  BY <1>1, <1>2 DEF Chain

\* The running thread falls back to what it still owes; the first of the threads that
\* waited for the mutex becomes its owner and has the others as creditors.
LEMMA ReleaseSettled ==
  ASSUME QueuesInv, Linked(k, mx, {}), Settled(k, mx, priority_base, {}),
         NEW m \in Mutex, MutexRelease(m)
  PROVE  Settled(k', mx', priority_base', {})
<1>1. PICK x : x = Unhold([mx EXCEPT !.lock[m] = 0], m)
  OBVIOUS
<1>2. PICK c : c = k.curr
  OBVIOUS
<1>3. PICK lowered : lowered = Reprioritise(k, c, Owed(k, x, c, NoThread))
  OBVIOUS
<1>4. /\ x \in Mutexes /\ x.lock[m] = 0 /\ x.thread_list = mx.thread_list
      /\ m \in Owned(mx, c) /\ \A u \in Thread : Owned(x, u) = Owned(mx, u) \ {m}
      /\ Linked(k, x, {}) /\ k.state[c] # "Inactive"
      /\ x.thread_list[m] # <<>> =>
           /\ Head(x.thread_list[m]) \in Thread \ {}
           /\ k.state[Head(x.thread_list[m])] # "Inactive"
  BY <1>1, <1>2, ReleaseUnlinks
<1>5. /\ Service(Dispatch(WakeFirst(lowered, x, m)), HandOver(x, m))
      /\ UNCHANGED priority_base /\ handler = "thread"
  BY <1>1, <1>2, <1>3 DEF MutexRelease, Service
<1>6. /\ Queues(k, mx, {}, 1) /\ c \in Thread /\ k.priority \in [Thread -> Nat]
      /\ priority_base \in [Thread -> Nat]
      /\ Waiting(Mutex, MutexStates, k, mx.thread_list, AnyMutex)
  BY <1>2, <1>5, Now, Waiters
<1>7. Owed(k, x, c, NoThread) \in Nat
  <2>1. \A n \in Mutex : Distinct(x.thread_list[n])
    BY <1>4, <1>6 DEF Waiting
  <2>2. NoThread \in Thread \cup {NoThread}
    OBVIOUS
  <2> QED
    BY <1>4, <1>6, <2>1, <2>2, OwedIs
<1>8. Queues(k, x, {}, 1)
  BY <1>4, <1>6, QueuesSame
<1>9. /\ Queues(lowered, x, {}, 1) /\ lowered.state = k.state
      /\ lowered.priority = [k.priority EXCEPT ![c] = Owed(k, x, c, NoThread)]
  <2>1. PICK owed : owed = Owed(k, x, c, NoThread)
    OBVIOUS
  <2> DEFINE e == Reprioritise(k, k.curr, owed)
  <2>2. owed \in Nat
    BY <1>7, <2>1
  <2>3. /\ Queues(e, x, {}, 1) /\ e.state = k.state
        /\ e.priority = [k.priority EXCEPT ![k.curr] = owed]
    BY ONLY <1>4, <1>8, <2>2, ReprioritiseRunning
  <2>4. lowered = e
    BY <1>2, <1>3, <2>1
  <2> HIDE DEF e
  <2> QED
    BY <1>2, <2>1, <2>3, <2>4
<1>10. /\ "priority" \in DOMAIN lowered /\ lowered.priority \in [Thread -> Nat]
       /\ Waiting(Mutex, MutexStates, lowered, x.thread_list, AnyMutex)
  BY <1>9, RunningWaitsNot
<1>11. Settled(lowered, x, priority_base, {})
  <2>1. Owned(x, c) = ToSet(MutexList(x, c))
    BY <1>4, <1>6, ListChained
  <2>2. \A n \in Mutex : /\ NoThread \notin ToSet(mx.thread_list[n])
                         /\ ToSet(x.thread_list[n]) = ToSet(mx.thread_list[n])
    BY <1>4, Waiters, SchedulerAssumption
  <2>3. \A n \in Owned(x, c) : ToSet(x.thread_list[n]) = ToSet(mx.thread_list[n]) \ {NoThread}
    BY <2>2 DEF Owned
  <2>4. Spared(mx, x, c)
    <3>1. \A u \in Thread \ {c} : m \notin Owned(mx, u)
      BY <1>4 DEF Owned
    <3> QED
      BY <1>4, <3>1 DEF Spared
  <2>5. Lives(k, lowered, {})
    BY <1>9 DEF Lives
  <2>6. Owned(x, c) \subseteq Owned(mx, c) /\ Owned(mx, c) # {}
    BY <1>4, <1>6
  <2>7. \A n \in Mutex : ToSet(x.thread_list[n]) \subseteq ToSet(mx.thread_list[n])
    BY <2>2
  <2>8. NoThread \in Thread \cup {NoThread}
    OBVIOUS
  <2> QED
    BY <1>4, <1>6, <1>9, <2>1, <2>3, <2>4, <2>5, <2>6, <2>7, <2>8, LoweredSettled
<1>12. Settled(lowered, HandOver(x, m), priority_base, {})
  <2>1. /\ Distinct(x.thread_list[m]) /\ Ascends(x.thread_list[m], Urgency(lowered))
        /\ \A n \in Mutex \ {m} : ToSet(x.thread_list[n]) \cap ToSet(x.thread_list[m]) = {}
    BY <1>10 DEF Waiting
  <2>2. x.thread_list[m] # <<>> =>
          /\ Head(x.thread_list[m]) \in Thread \ {}
          /\ lowered.state[Head(x.thread_list[m])] # "Inactive"
    BY <1>4, <1>9
  <2> QED
    BY ONLY <1>4, <1>10, <1>11, <2>1, <2>2, HandOverSettled, m \in Mutex
<1>13. k'.priority = lowered.priority
  <2>1. Prioritised(lowered, WakeFirst(lowered, x, m))
    <3>1. Prioritised(lowered, WaitExit(lowered, Head(x.thread_list[m])))
      BY <1>10, WaitPriorities
    <3> QED
      BY <1>10, <3>1 DEF WakeFirst, Prioritised
  <2>2. PICK w : w = WakeFirst(lowered, x, m)
    OBVIOUS
  <2>3. Prioritised(w, Dispatch(w))
    BY <2>1, <2>2, DispatchPriorities DEF Prioritised
  <2>4. "priority" \in DOMAIN Dispatch(w) /\ Dispatch(w).priority = lowered.priority
    BY <2>1, <2>2, <2>3 DEF Prioritised
  <2>5. Service(Dispatch(w), HandOver(x, m))
    BY <1>5, <2>2
  <2> QED
    BY ONLY <2>4, <2>5, ServicePriorities
<1>14. mx' = HandOver(x, m) /\ Lives(k, k', {})
  BY <1>5, ReleaseKeeps DEF Service
<1>15. Lives(lowered, k', {})
  BY <1>9, <1>14 DEF Lives
<1>16. Settled(k', HandOver(x, m), priority_base, {})
  BY ONLY <1>12, <1>13, <1>15, SettledOn
<1> QED
  BY <1>5, <1>14, <1>16

\* What deleting a locked mutex leaves: the mutexes, the list of its owner, and the
\* priorities.
LEMMA DeleteFacts ==
  ASSUME QueuesInv, Linked(k, mx, {}), NEW m \in Mutex, MutexDelete(m), mx.lock[m] # 0
  PROVE  LET owner == mx.owner_thread[m]
             x     == Unhold(mx, m)
         IN  /\ owner \in Thread /\ m \in Owned(mx, owner)
             /\ x \in Mutexes /\ x.thread_list = mx.thread_list
             /\ SameLinks(x, mx')
             /\ mx'.id = [mx.id EXCEPT ![m] = FALSE] /\ mx'.lock = mx.lock
             /\ mx'.owner_thread = mx.owner_thread
             /\ \A u \in Thread : Owned(mx', u) = Owned(mx, u) \ {m}
             /\ mx'.thread_list[m] = <<>>
             /\ \A n \in Mutex \ {m} :
                  ToSet(mx'.thread_list[n]) = ToSet(mx.thread_list[n])
             /\ k'.priority = [k.priority EXCEPT ![owner] = Owed(k, x, owner, NoThread)]
<1>1. PICK owner : owner = mx.owner_thread[m]
  OBVIOUS
<1>2. PICK x : x = Unhold(mx, m)
  OBVIOUS
<1>3. PICK owed : owed = Owed(k, x, owner, NoThread)
  OBVIOUS
<1>4. PICK lowered : lowered = Reprioritise(k, owner, owed)
  OBVIOUS
<1>5. PICK y : y = Requeue(k, lowered, x, owner)
  OBVIOUS
<1>6. PICK z : z = Emptied(y, m)
  OBVIOUS
<1>7. PICK woken : woken = Woken(lowered, y.thread_list[m])
  OBVIOUS
<1>8. /\ Service(Dispatch(woken), z) /\ handler = "thread" /\ mx.id[m]
  BY <1>1, <1>2, <1>3, <1>4, <1>5, <1>6, <1>7 DEF MutexDelete, Service, Emptied
<1>9. /\ mx \in Mutexes /\ Queues(k, mx, {}, 1) /\ k.priority \in [Thread -> Nat]
      /\ priority_base \in [Thread -> Nat] /\ Typed(k) /\ Held(mx, m)
      /\ \A n \in Mutex : Distinct(mx.thread_list[n])
  BY <1>8, Now, Waiters
<1>10. owner \in Thread /\ m \in Owned(mx, owner)
  BY <1>1, <1>8, <1>9 DEF Held, Owned
<1>11. x \in Mutexes /\ Unlinked(mx, m, x)
  BY <1>2, <1>9, UnholdType
<1>12. /\ x.lock = mx.lock /\ x.id = mx.id
       /\ x.owner_thread = mx.owner_thread /\ x.thread_list = mx.thread_list
  BY <1>11 DEF Unlinked
<1>13. owed \in Nat
  <2>1. \A n \in Mutex : Distinct(x.thread_list[n])
    BY <1>9, <1>12
  <2>2. NoThread \in Thread \cup {NoThread}
    OBVIOUS
  <2> QED
    BY <1>3, <1>9, <1>10, <1>11, <2>1, <2>2, OwedIs
<1>14. Queues(k, x, {}, 1)
  BY <1>9, <1>12, QueuesSame
<1>15. Moved(k, x, lowered, y, 1)
  BY <1>4, <1>5, <1>10, <1>11, <1>13, <1>14, ReprioritiseQueues
<1>16. lowered.priority = [k.priority EXCEPT ![owner] = owed]
  BY <1>4, <1>9, <1>10, <1>13, ReprioritisePriority
<1>17. /\ Queues(lowered, y, {}, 1) /\ y \in Mutexes /\ SameLocks(x, y)
       /\ SameWaiters(x.thread_list, y.thread_list)
  BY <1>15 DEF Moved
<1>18. /\ z.id = [y.id EXCEPT ![m] = FALSE] /\ z.lock = y.lock
       /\ z.owner_thread = y.owner_thread
       /\ z.thread_list = [y.thread_list EXCEPT ![m] = <<>>]
       /\ Prioritised(lowered, woken)
  BY ONLY <1>6, <1>7, <1>17, m \in Mutex, WokenQueues
<1>19. SameLinks(y, z)
  BY <1>6, <1>17 DEF Mutexes, SameLinks, Emptied
<1>20. Prioritised(woken, Dispatch(woken))
  BY <1>18, DispatchPriorities DEF Prioritised
<1>21. mx' = z /\ k'.priority = lowered.priority
  <2>1. "priority" \in DOMAIN Dispatch(woken) /\ Dispatch(woken).priority = lowered.priority
    BY <1>18, <1>20 DEF Prioritised
  <2> QED
    BY ONLY <1>8, <2>1, ServicePriorities
<1>22. /\ z.id = [mx.id EXCEPT ![m] = FALSE] /\ z.lock = mx.lock
       /\ z.owner_thread = mx.owner_thread /\ SameLinks(x, z)
  BY <1>12, <1>17, <1>18, <1>19 DEF SameLocks, SameLinks
<1>23. \A u \in Thread : Owned(z, u) = Owned(mx, u) \ {m}
  <2>1. ~z.id[m] /\ \A n \in Mutex \ {m} : z.id[n] = mx.id[n]
    BY <1>9, <1>22 DEF Mutexes
  <2> QED
    BY <1>22, <2>1 DEF Owned
<1>24. /\ z.thread_list[m] = <<>>
       /\ \A n \in Mutex \ {m} : z.thread_list[n] = y.thread_list[n]
  BY <1>17, <1>18 DEF Mutexes
<1>25. \A n \in Mutex \ {m} : ToSet(z.thread_list[n]) = ToSet(mx.thread_list[n])
  BY <1>12, <1>17, <1>24 DEF SameWaiters
<1> QED
  BY <1>1, <1>2, <1>3, <1>10, <1>11, <1>12, <1>16, <1>21, <1>22, <1>23, <1>24, <1>25

\* The owner falls back to what it still owes, the threads that waited are nobody's
\* creditors any more.
LEMMA DeleteSettled ==
  ASSUME QueuesInv, Linked(k, mx, {}), Settled(k, mx, priority_base, {}),
         NEW m \in Mutex, MutexDelete(m)
  PROVE  Settled(k', mx', priority_base', {})
<1>1. Lives(k, k', {}) /\ UNCHANGED priority_base
  BY DeleteKeeps DEF MutexDelete
<1>2. /\ mx \in Mutexes /\ Held(mx, m) /\ "priority" \in DOMAIN k
      /\ \A n \in Mutex : ToSet(mx.thread_list[n]) \subseteq Thread
  BY Waiters
<1>3. CASE mx.lock[m] = 0
  <2>1. Service(k, [mx EXCEPT !.id[m] = FALSE])
    BY <1>3 DEF MutexDelete
  <2>2. k'.priority = k.priority /\ mx' = [mx EXCEPT !.id[m] = FALSE]
    BY <1>2, <2>1, ServicePriorities
  <2>3. /\ mx'.id = [mx.id EXCEPT ![m] = FALSE] /\ mx'.lock = mx.lock
        /\ mx'.owner_thread = mx.owner_thread /\ mx'.thread_list = mx.thread_list
    BY <1>2, <2>2 DEF Mutexes
  <2>4. mx'.lock[m] = 0 /\ \A n \in Mutex \ {m} : mx'.id[n] = mx.id[n]
    BY <1>2, <1>3, <2>3 DEF Mutexes
  <2>5. \A u \in Thread : Owned(mx', u) = Owned(mx, u)
    BY <1>3, <2>3, <2>4 DEF Owned
  <2> QED
    BY <1>1, <1>2, <2>2, <2>3, <2>5, SettledSame
<1>4. CASE mx.lock[m] # 0
  <2>1. PICK owner : owner = mx.owner_thread[m]
    OBVIOUS
  <2>2. PICK x : x = Unhold(mx, m)
    OBVIOUS
  <2>3. /\ owner \in Thread /\ m \in Owned(mx, owner)
        /\ x \in Mutexes /\ x.thread_list = mx.thread_list /\ SameLinks(x, mx')
        /\ \A u \in Thread : Owned(mx', u) = Owned(mx, u) \ {m}
        /\ mx'.thread_list[m] = <<>>
        /\ \A n \in Mutex \ {m} : ToSet(mx'.thread_list[n]) = ToSet(mx.thread_list[n])
        /\ k'.priority = [k.priority EXCEPT ![owner] = Owed(k, x, owner, NoThread)]
    BY <1>4, <2>1, <2>2, DeleteFacts
  <2>4. Owned(mx', owner) = ToSet(MutexList(x, owner))
    <3>1. k.state[owner] # "Inactive"
      BY <2>3 DEF Linked
    <3>2. k'.state[owner] # "Inactive"
      BY <1>1, <2>3, <3>1 DEF Lives
    <3>3. Linked(k', mx', {})
      BY DeleteLinked
    <3>4. PICK l : Strung(mx', owner, l) /\ ToSet(l) = Owned(mx', owner)
      BY <2>3, <3>2, <3>3 DEF Linked, Chain
    <3>5. Strung(x, owner, l)
      BY <2>3, <3>4 DEF SameLinks, Strung
    <3>6. MutexList(x, owner) = l
      BY <2>3, <3>5, MutexListIs
    <3> QED
      BY <3>4, <3>6
  <2>5. \A n \in Mutex : NoThread \notin ToSet(mx.thread_list[n])
    BY <1>2, SchedulerAssumption
  <2>6. \A n \in Owned(mx', owner) :
          ToSet(mx'.thread_list[n]) = ToSet(mx.thread_list[n]) \ {NoThread}
    <3>1. \A n \in Owned(mx', owner) : n \in Mutex \ {m}
      BY <2>3 DEF Owned
    <3> QED
      BY <2>3, <2>5, <3>1
  <2>7. \A n \in Mutex : ToSet(mx'.thread_list[n]) \subseteq ToSet(mx.thread_list[n])
    BY <2>3, EmptyWaits
  <2>8. Spared(mx, mx', owner)
    <3>1. \A u \in Thread \ {owner} : \A n \in Owned(mx, u) : n \in Mutex \ {m}
      BY <2>3 DEF Owned
    <3>2. \A u \in Thread \ {owner} : m \notin Owned(mx, u)
      BY <3>1
    <3> QED
      BY <2>3, <3>1, <3>2 DEF Spared
  <2>9. Owned(mx', owner) \subseteq Owned(mx, owner) /\ Owned(mx, owner) # {}
    BY <2>3
  <2>10. NoThread \in Thread \cup {NoThread}
    OBVIOUS
  <2>11. Settled(k', mx', priority_base, {})
    BY <1>1, <2>3, <2>4, <2>6, <2>7, <2>8, <2>9, <2>10, LoweredSettled
  <2> QED
    BY <1>1, <2>11
<1> QED
  BY <1>3, <1>4

\* What the thread that gives up leaves.
LEMMA TickReleaseFacts ==
  ASSUME QueuesInv, TickRelease, Waits(Head(k.delay_list))
  PROVE  LET t     == Head(k.delay_list)
             m     == CHOOSE n \in Mutex : t \in ToSet(mx.thread_list[n])
             owner == mx.owner_thread[m]
         IN  /\ t \in Thread /\ m \in Mutex /\ owner \in Thread /\ m \in Owned(mx, owner)
             /\ \A n \in Mutex : /\ t \in ToSet(mx.thread_list[n]) => n = m
                                 /\ ToSet(mx'.thread_list[n]) = ToSet(mx.thread_list[n]) \ {t}
             /\ k'.priority = IF m \in PrioInherit
                              THEN [k.priority EXCEPT ![owner] = Owed(k, mx, owner, t)]
                              ELSE k.priority
<1> DEFINE t        == Head(k.delay_list)
           m        == CHOOSE n \in Mutex : t \in ToSet(mx.thread_list[n])
           owner    == mx.owner_thread[m]
           owed     == Owed(k, mx, owner, t)
           restored == IF Waits(t) /\ m \in PrioInherit
                       THEN Reprioritise(k, owner, owed)
                       ELSE k
           y        == Requeue(k, restored, mx, owner)
           x        == IF Waits(t) THEN Leave(y, t) ELSE mx
<1>1. k' = ReleaseHead(restored) /\ mx' = x /\ k.delay_list # <<>>
  BY DEF TickRelease, Expired
<1>6. k' = ReleaseHead(restored) /\ mx' = Leave(y, t) /\ k.delay_list # <<>>
  <2>1. x = Leave(y, t)
    OBVIOUS
  <2> HIDE DEF x, y, restored
  <2> QED
    BY <1>1, <2>1
<1> HIDE DEF x
<1>7. /\ mx \in Mutexes /\ Typed(k) /\ k.priority \in [Thread -> Nat]
      /\ priority_base \in [Thread -> Nat]
      /\ Waiting(Mutex, MutexStates, k, mx.thread_list, AnyMutex)
      /\ \A n \in Mutex : Held(mx, n)
  BY Waiters
<1>8. t \in Thread
  BY <1>6, <1>7, RankTypes
<1>9. m \in Mutex /\ t \in ToSet(mx.thread_list[m])
  <2>1. \E n \in Mutex : t \in ToSet(mx.thread_list[n])
    BY <1>7, <1>8, WaitsNowhere DEF Waiting, Waits
  <2> QED
    BY <2>1
<1>13. Moved(k, mx, restored, y, 0)
  <2> HIDE DEF t
  <2>1. t \in Thread /\ Waits(t)
    BY <1>8 DEF t
  <2> QED
    BY <2>1, Restored
<1>2. owner = mx.owner_thread[m] /\ owed = Owed(k, mx, owner, t)
  OBVIOUS
<1>3. restored = IF m \in PrioInherit THEN Reprioritise(k, owner, owed) ELSE k
  OBVIOUS
<1> HIDE DEF m, owner, owed, restored, y, t
<1>10. \A n \in Mutex : t \in ToSet(mx.thread_list[n]) => n = m
  BY <1>7, <1>9 DEF Waiting
<1>11. owner \in Thread /\ m \in Owned(mx, owner)
  <2>1. mx.thread_list[m] # <<>>
    BY <1>9, EmptyWaits
  <2> QED
    BY <1>2, <1>7, <1>9, <2>1 DEF Held, Owned
<1>12. owed \in Nat
  <2>1. t \in Thread \cup {NoThread} /\ \A n \in Mutex : Distinct(mx.thread_list[n])
    BY <1>7, <1>8 DEF Waiting
  <2> QED
    BY <1>2, <1>7, <1>11, <2>1, OwedIs
<1>14. restored.priority = IF m \in PrioInherit THEN [k.priority EXCEPT ![owner] = owed]
                           ELSE k.priority
  <2>1. CASE m \in PrioInherit
    <3>1. Reprioritise(k, owner, owed).priority = [k.priority EXCEPT ![owner] = owed]
      BY ONLY <1>7, <1>11, <1>12, ReprioritisePriority
    <3> QED
      BY <1>3, <2>1, <3>1
  <2>2. CASE m \notin PrioInherit
    BY <1>3, <2>2
  <2> QED
    BY <2>1, <2>2
<1>15. /\ y \in Mutexes /\ SameLocks(mx, y) /\ "priority" \in DOMAIN restored
       /\ SameWaiters(mx.thread_list, y.thread_list)
       /\ Waiting(Mutex, MutexStates, restored, y.thread_list, AnyMutex)
  BY <1>13, RunningWaitsNot DEF Moved
<1>16. k'.priority = restored.priority
  BY <1>6, <1>15, WaitPriorities DEF Prioritised
<1>17. mx'.thread_list = [n \in Mutex |-> Without(y.thread_list[n], t)]
  BY <1>6, <1>15 DEF Leave, Mutexes
<1>18. ASSUME NEW n \in Mutex
       PROVE  ToSet(mx'.thread_list[n]) = ToSet(mx.thread_list[n]) \ {t}
  <2>1. y.thread_list[n] \in Seq(Thread) /\ Distinct(y.thread_list[n])
    BY <1>15 DEF Waiting
  <2>2. ToSet(Without(y.thread_list[n], t)) = ToSet(y.thread_list[n]) \ {t}
    BY <1>8, <2>1, WithoutSet
  <2> QED
    BY <1>15, <1>17, <2>2 DEF SameWaiters
<1> QED
  BY <1>8, <1>9, <1>10, <1>11, <1>14, <1>16, <1>18 DEF t, m, owner, owed

\* The owner falls back to what it owes to the threads that stay.
LEMMA TickReleaseSettled ==
  ASSUME QueuesInv, Linked(k, mx, {}), Settled(k, mx, priority_base, {}), TickRelease
  PROVE  Settled(k', mx', priority_base', {})
<1> DEFINE t     == Head(k.delay_list)
           m     == CHOOSE n \in Mutex : t \in ToSet(mx.thread_list[n])
           owner == mx.owner_thread[m]
<1>2. /\ Lives(k, k', {}) /\ UNCHANGED priority_base /\ SameLocks(mx, mx')
  BY TickReleaseKeeps, TickReleaseLocks DEF TickRelease
<1>3. /\ mx \in Mutexes /\ "priority" \in DOMAIN k
      /\ \A n \in Mutex : ToSet(mx.thread_list[n]) \subseteq Thread
      /\ k.priority \in [Thread -> Nat]
  BY Waiters
<1>4. CASE ~Waits(t)
  <2>1. k' = ReleaseHead(k) /\ mx' = mx
    BY <1>4 DEF TickRelease
  <2>2. k'.priority = k.priority
    BY <1>3, <2>1, WaitPriorities DEF Prioritised
  <2> QED
    BY <1>2, <2>1, <2>2, StillSettled
<1>5. CASE Waits(t)
  <2>3. /\ t \in Thread /\ m \in Mutex /\ owner \in Thread /\ m \in Owned(mx, owner)
        /\ \A n \in Mutex : /\ t \in ToSet(mx.thread_list[n]) => n = m
                            /\ ToSet(mx'.thread_list[n]) = ToSet(mx.thread_list[n]) \ {t}
        /\ k'.priority = IF m \in PrioInherit
                         THEN [k.priority EXCEPT ![owner] = Owed(k, mx, owner, t)]
                         ELSE k.priority
    BY ONLY QueuesInv, TickRelease, <1>5, TickReleaseFacts
  <2> HIDE DEF t, m, owner
  <2>4. \A u : Owned(mx', u) = Owned(mx, u)
    BY <1>2 DEF SameLocks, Owned
  <2>5. \A n \in Mutex : ToSet(mx'.thread_list[n]) \subseteq ToSet(mx.thread_list[n])
    BY <2>3
  <2>6. \A n \in Mutex \ {m} : ToSet(mx'.thread_list[n]) = ToSet(mx.thread_list[n])
    BY <2>3
  <2>7. CASE m \in PrioInherit
    <3>1. Spared(mx, mx', owner)
      <4>1. \A u \in Thread \ {owner} : \A n \in Owned(mx, u) : n \in Mutex \ {m}
        BY <2>3 DEF Owned
      <4> QED
        BY <2>4, <2>6, <4>1 DEF Spared
    <3>2. Owned(mx', owner) = ToSet(MutexList(mx, owner))
      <4>1. k.state[owner] # "Inactive"
        BY <2>3 DEF Linked
      <4> QED
        BY <1>3, <2>3, <2>4, <4>1, ListChained
    <3>3. Owned(mx', owner) \subseteq Owned(mx, owner) /\ Owned(mx, owner) # {}
      BY <2>3, <2>4
    <3>4. \A n \in Owned(mx', owner) :
            ToSet(mx'.thread_list[n]) = ToSet(mx.thread_list[n]) \ {t}
      BY <2>3 DEF Owned
    <3>5. k'.priority = [k.priority EXCEPT ![owner] = Owed(k, mx, owner, t)]
      BY <2>3, <2>7
    <3>6. t \in Thread \cup {NoThread} /\ owner \in Thread
      BY <2>3
    <3>7. PICK x : x = mx
      OBVIOUS
    <3>8. /\ x \in Mutexes /\ x.thread_list = mx.thread_list
          /\ Owned(mx', owner) = ToSet(MutexList(x, owner))
          /\ k'.priority = [k.priority EXCEPT ![owner] = Owed(k, x, owner, t)]
      BY <1>3, <3>2, <3>5, <3>7
    <3>9. Settled(k', mx', priority_base, {})
      BY ONLY QueuesInv, Settled(k, mx, priority_base, {}), <1>2, <2>5, <3>1, <3>3, <3>4,
              <3>6, <3>8, LoweredSettled
    <3> QED
      BY <1>2, <3>9
  <2>8. CASE m \notin PrioInherit
    <3>1. k'.priority = k.priority
      BY <2>3, <2>8
    <3>2. \A u \in Thread : Creditors(mx', u) = Creditors(mx, u)
      <4> SUFFICES ASSUME NEW u \in Thread  PROVE Creditors(mx', u) = Creditors(mx, u)
        OBVIOUS
      <4>1. \A n \in PrioInherit \cap Owned(mx, u) :
              ToSet(mx'.thread_list[n]) = ToSet(mx.thread_list[n])
        BY <2>6, <2>8 DEF Owned
      <4> QED
        BY <2>4, <4>1, CreditorsSame
    <3>3. \A n \in Mutex : \A u \in ToSet(mx'.thread_list[n]) : Owned(mx', u) = {}
      BY <2>4, <2>5 DEF Settled
    <3> SUFFICES ASSUME NEW u \in Thread \ {}, k'.state[u] # "Inactive"
                 PROVE  Fair(k'.priority, mx', priority_base', u)
      BY <3>3 DEF Settled
    <3>4. Fair(k.priority, mx, priority_base, u)
      BY <1>2 DEF Settled, Lives
    <3> QED
      BY <1>2, <3>1, <3>2, <3>4 DEF Fair
  <2> QED
    BY <2>7, <2>8
<1> QED
  BY <1>4, <1>5

---------------------------------------------------------------------------
\* The beginning, the steps, and what they say of inheritance

\* Between two steps, where the application does nothing but delete mutexes that a
\* thread may wait for or own when something else happens to it.
ExactInv ==
  LinksInv /\ (Habits \subseteq {"Delete"} => Settled(k, mx, priority_base, {}))

LEMMA ExactInvInit ==
  ASSUME Init
  PROVE  ExactInv
<1>1. LinksInv
  BY LinksInvInit
<1>2. \A m \in Mutex : mx.thread_list[m] = <<>> /\ ToSet(mx.thread_list[m]) = {}
  BY EmptyWaits DEF Init
<1>3. \A t \in Thread : k.priority[t] = priority_base[t] /\ priority_base[t] \in Nat
  <2>1. k.priority = priority_base
    BY DEF Init
  <2> QED
    BY <1>1, <2>1 DEF LinksInv, QueuesInv
<1>4. \A t \in Thread : Creditors(mx, t) = {}
  BY <1>2 DEF Creditors, Owned
<1>5. Settled(k, mx, priority_base, {})
  BY <1>2, <1>3, <1>4 DEF Settled, Fair
<1> QED
  BY <1>1, <1>5 DEF ExactInv

LEMMA MutexCallSettled ==
  ASSUME QueuesInv, Linked(k, mx, {}), Settled(k, mx, priority_base, {}),
         Habits \subseteq {"Delete"}, NEW m \in Mutex, MutexCall(m)
  PROVE  Settled(k', mx', priority_base', {})
<1>1. CASE MutexNew(m)
  BY <1>1, NewSettled
<1>2. CASE MutexDelete(m)
  BY <1>2, DeleteSettled
<1>3. CASE MutexAcquireFree(m)
  BY <1>3, AcquireFreeSettled
<1>4. CASE MutexAcquireAgain(m) \/ MutexReleaseOnce(m)
  BY <1>4, CountSettled
<1>5. CASE \E timeout \in Timeout : MutexAcquireWait(m, timeout)
  BY <1>5, AcquireWaitSettled
<1>6. CASE MutexRelease(m)
  BY <1>6, ReleaseSettled
<1> QED
  BY <1>1, <1>2, <1>3, <1>4, <1>5, <1>6 DEF MutexCall

LEMMA ThreadCallSettled ==
  ASSUME QueuesInv, Linked(k, mx, {}), Settled(k, mx, priority_base, {}),
         Habits \subseteq {"Delete"}, NEW t \in Application, ThreadCall(t)
  PROVE  Settled(k', mx', priority_base', {})
<1>6. t \in Thread /\ "Disturb" \notin Habits /\ "Abandon" \notin Habits
  BY DEF Application
<1>1. CASE \E p \in Priority : ThreadNew(t, p)
  BY <1>1, <1>6, ThreadNewSettled
<1>2. CASE \E p \in Priority : ThreadSetPriority(t, p)
  BY <1>2, <1>6, SetPrioritySettled
<1>3. CASE ThreadSuspend(t)
  BY <1>3, <1>6, SuspendSettled
<1>4. CASE ThreadResume(t)
  BY <1>4, <1>6, ResumeSettled
<1>5. CASE ThreadTerminate(t)
  BY <1>5, <1>6, ThreadTerminateSettled
<1> QED
  BY <1>1, <1>2, <1>3, <1>4, <1>5 DEF ThreadCall

LEMMA ExactInvNext ==
  ASSUME ExactInv, [Next]_vars
  PROVE  ExactInv'
<1>0. LinksInv'
  BY LinksInvNext DEF ExactInv
<1> SUFFICES ASSUME Habits \subseteq {"Delete"}
             PROVE  Settled(k', mx', priority_base', {})
  BY <1>0 DEF ExactInv
<1>10. "Abandon" \notin Habits
  OBVIOUS
<1>11. QueuesInv /\ Linked(k, mx, {}) /\ Settled(k, mx, priority_base, {})
  BY <1>10 DEF ExactInv, LinksInv
<1>1. CASE \E m \in Mutex : MutexCall(m)
  BY <1>1, <1>11, MutexCallSettled
<1>2. CASE \E t \in Application : ThreadCall(t)
  BY <1>2, <1>11, ThreadCallSettled
<1>3. CASE ThreadExit
  BY <1>3, <1>10, <1>11, ThreadExitSettled
<1>4. CASE \E ticks \in Timeout : Delay(ticks)
  BY <1>4, <1>11, DelaySettled
<1>5. CASE KernelLock \/ KernelUnlock
  BY <1>5, <1>11, LockSettled
<1>6. CASE TickStart
  BY <1>6, <1>11, TickStartSettled
<1>7. CASE TickRelease
  BY <1>7, <1>11, TickReleaseSettled
<1>8. CASE TickEnd
  BY <1>8, <1>11, TickEndSettled
<1>9. CASE UNCHANGED vars
  BY <1>9, <1>11 DEF vars
<1> QED
  BY <1>1, <1>2, <1>3, <1>4, <1>5, <1>6, <1>7, <1>8, <1>9 DEF Next

LEMMA ExactInvAlways == Spec => []ExactInv
<1>1. Init => ExactInv
  BY ExactInvInit
<1>2. ExactInv /\ [Next]_vars => ExactInv'
  BY ExactInvNext
<1> QED
  BY <1>1, <1>2, PTL DEF Spec

\* The greatest of some numbers.
LEMMA MaxIs ==
  ASSUME NEW S, S \subseteq Nat, NEW v \in S, \A y \in S : y <= v
  PROVE  Max(S) = v
<1>1. \A y \in S : v >= y
  OBVIOUS
<1>2. \A w \in S : (\A y \in S : w >= y) => w = v
  OBVIOUS
<1> QED
  BY <1>1, <1>2 DEF Max

LEMMA ExactInvSays ==
  ASSUME ExactInv, Habits \subseteq {"Delete"}
  PROVE  InheritsExactly
<1>1. QueuesInv /\ Settled(k, mx, priority_base, {})
  BY DEF ExactInv, LinksInv
<1>2. /\ k.priority \in [Thread -> Nat] /\ priority_base \in [Thread -> Nat]
      /\ \A m \in Mutex : ToSet(mx.thread_list[m]) \subseteq Thread
  BY <1>1, Waiters
<1> SUFFICES ASSUME NEW t \in Thread, Alive(t)
             PROVE  LET waiting == UNION {ToSet(mx.thread_list[m]) :
                                            m \in {n \in PrioInherit :
                                                     /\ mx.id[n] /\ mx.lock[n] # 0
                                                     /\ mx.owner_thread[n] = t}}
                    IN  k.priority[t] = Max({priority_base[t]}
                                              \cup {k.priority[u] : u \in waiting})
  BY DEF InheritsExactly
<1> DEFINE W == UNION {ToSet(mx.thread_list[m]) :
                         m \in {n \in PrioInherit : /\ mx.id[n] /\ mx.lock[n] # 0
                                                    /\ mx.owner_thread[n] = t}}
           S == {priority_base[t]} \cup {k.priority[u] : u \in W}
<1>3. W = Creditors(mx, t)
  <2>1. PrioInherit \subseteq Mutex
    BY MutexAssumption
  <2> QED
    BY <1>2, <2>1 DEF Creditors, Owned
<1> HIDE DEF W
<1>4. Fair(k.priority, mx, priority_base, t)
  BY <1>1 DEF Settled, Alive
<1>5. \A u \in W : u \in Thread
  BY <1>3 DEF Creditors
<1>6. S \subseteq Nat
  BY <1>2, <1>5
<1>7. k.priority[t] \in S
  BY <1>3, <1>4 DEF Fair
<1>8. \A y \in S : y <= k.priority[t]
  BY <1>3, <1>4 DEF Fair
<1> HIDE DEF S
<1>9. Max(S) = k.priority[t]
  BY <1>6, <1>7, <1>8, MaxIs
<1> QED
  BY <1>9 DEF S, W

---------------------------------------------------------------------------
\* What the callers see

\* The variables of MutexService, of the mutexes x.
HolderOf(x)  == [m \in Mutex |-> IF x.id[m] /\ x.lock[m] # 0 THEN x.owner_thread[m]
                                 ELSE NoThread]
DepthOf(x)   == [m \in Mutex |-> IF x.id[m] THEN x.lock[m] ELSE 0]
WaitersOf(x) == [m \in Mutex |-> IF x.id[m] THEN ToSet(x.thread_list[m]) ELSE {}]

\* y looks to the callers as x does ...
SameAt(x, y, m) ==
  /\ y.id[m] = x.id[m] /\ y.lock[m] = x.lock[m] /\ y.owner_thread[m] = x.owner_thread[m]
  /\ ToSet(y.thread_list[m]) = ToSet(x.thread_list[m])

SameView(x, y) == \A m \in Mutex : SameAt(x, y, m)

\* ... but for m.
SameBut(x, y, m) == \A n \in Mutex \ {m} : SameAt(x, y, n)

LEMMA ViewBut ==
  ASSUME NEW x, NEW y, NEW m \in Mutex, SameBut(x, y, m)
  PROVE  /\ HolderOf(y) = [HolderOf(x) EXCEPT ![m] = HolderOf(y)[m]]
         /\ DepthOf(y) = [DepthOf(x) EXCEPT ![m] = DepthOf(y)[m]]
         /\ WaitersOf(y) = [WaitersOf(x) EXCEPT ![m] = WaitersOf(y)[m]]
<1>1. ASSUME NEW n \in Mutex, n # m
      PROVE  /\ HolderOf(y)[n] = HolderOf(x)[n] /\ DepthOf(y)[n] = DepthOf(x)[n]
             /\ WaitersOf(y)[n] = WaitersOf(x)[n]
  BY <1>1 DEF SameBut, SameAt, HolderOf, DepthOf, WaitersOf
<1>2. HolderOf(y) = [HolderOf(x) EXCEPT ![m] = HolderOf(y)[m]]
  <2>1. HolderOf(y) = [n \in Mutex |-> HolderOf(y)[n]]
    BY DEF HolderOf
  <2>2. [HolderOf(x) EXCEPT ![m] = HolderOf(y)[m]]
        = [n \in Mutex |-> IF n = m THEN HolderOf(y)[m] ELSE HolderOf(x)[n]]
    BY DEF HolderOf
  <2> QED
    BY <1>1, <2>1, <2>2
<1>3. DepthOf(y) = [DepthOf(x) EXCEPT ![m] = DepthOf(y)[m]]
  <2>1. DepthOf(y) = [n \in Mutex |-> DepthOf(y)[n]]
    BY DEF DepthOf
  <2>2. [DepthOf(x) EXCEPT ![m] = DepthOf(y)[m]]
        = [n \in Mutex |-> IF n = m THEN DepthOf(y)[m] ELSE DepthOf(x)[n]]
    BY DEF DepthOf
  <2> QED
    BY <1>1, <2>1, <2>2
<1>4. WaitersOf(y) = [WaitersOf(x) EXCEPT ![m] = WaitersOf(y)[m]]
  <2>1. WaitersOf(y) = [n \in Mutex |-> WaitersOf(y)[n]]
    BY DEF WaitersOf
  <2>2. [WaitersOf(x) EXCEPT ![m] = WaitersOf(y)[m]]
        = [n \in Mutex |-> IF n = m THEN WaitersOf(y)[m] ELSE WaitersOf(x)[n]]
    BY DEF WaitersOf
  <2> QED
    BY <1>1, <2>1, <2>2
<1> QED
  BY <1>2, <1>3, <1>4

LEMMA ViewSame ==
  ASSUME NEW x, NEW y, SameView(x, y)
  PROVE  HolderOf(y) = HolderOf(x) /\ DepthOf(y) = DepthOf(x) /\ WaitersOf(y) = WaitersOf(x)
<1>1. HolderOf(y) = HolderOf(x)
  BY DEF SameView, SameAt, HolderOf
<1>2. DepthOf(y) = DepthOf(x)
  BY DEF SameView, SameAt, DepthOf
<1>3. WaitersOf(y) = WaitersOf(x)
  BY DEF SameView, SameAt, WaitersOf
<1> QED
  BY <1>1, <1>2, <1>3

LEMMA ViewStays ==
  ASSUME HolderOf(mx') = HolderOf(mx), DepthOf(mx') = DepthOf(mx),
         WaitersOf(mx') = WaitersOf(mx)
  PROVE  UNCHANGED Locks!lockVars
BY DEF HolderOf, DepthOf, WaitersOf, Locks!lockVars

LEMMA SameServes ==
  ASSUME SameView(mx, mx')
  PROVE  UNCHANGED Locks!lockVars
<1>1. HolderOf(mx') = HolderOf(mx) /\ DepthOf(mx') = DepthOf(mx) /\ WaitersOf(mx') = WaitersOf(mx)
  BY ViewSame
<1> QED
  BY <1>1, ViewStays

LEMMA NewServes ==
  ASSUME QueuesInv, NEW m \in Mutex, MutexNew(m)
  PROVE  UNCHANGED Locks!lockVars
<1>1. /\ mx \in Mutexes /\ ~mx.id[m]
      /\ mx' = [mx EXCEPT !.id[m] = TRUE, !.lock[m] = 0, !.owner_thread[m] = NoThread,
                          !.owner_prev[m] = NoMutex, !.owner_next[m] = NoMutex,
                          !.thread_list[m] = <<>>]
  BY DEF MutexNew, Service, QueuesInv
<1>2. /\ mx'.id = [mx.id EXCEPT ![m] = TRUE] /\ mx'.lock = [mx.lock EXCEPT ![m] = 0]
      /\ mx'.owner_thread = [mx.owner_thread EXCEPT ![m] = NoThread]
      /\ mx'.thread_list = [mx.thread_list EXCEPT ![m] = <<>>]
  BY <1>1 DEF Mutexes
<1>3. /\ mx'.id[m] /\ mx'.lock[m] = 0 /\ mx'.thread_list[m] = <<>>
      /\ SameBut(mx, mx', m)
  BY <1>1, <1>2 DEF Mutexes, SameBut, SameAt
<1>4. /\ HolderOf(mx)[m] = NoThread /\ DepthOf(mx)[m] = 0 /\ WaitersOf(mx)[m] = {}
  BY <1>1 DEF HolderOf, DepthOf, WaitersOf
<1>5. ToSet(<<>>) = {}
  BY EmptyWaits
<1>6. /\ HolderOf(mx')[m] = NoThread /\ DepthOf(mx')[m] = 0 /\ WaitersOf(mx')[m] = {}
  BY <1>3, <1>5 DEF HolderOf, DepthOf, WaitersOf
<1>7. /\ HolderOf(mx') = [HolderOf(mx) EXCEPT ![m] = HolderOf(mx)[m]]
      /\ DepthOf(mx') = [DepthOf(mx) EXCEPT ![m] = DepthOf(mx)[m]]
      /\ WaitersOf(mx') = [WaitersOf(mx) EXCEPT ![m] = WaitersOf(mx)[m]]
  BY <1>3, <1>4, <1>6, ViewBut
<1>8. HolderOf(mx') = HolderOf(mx)
  BY <1>7 DEF HolderOf
<1>9. DepthOf(mx') = DepthOf(mx)
  BY <1>7 DEF DepthOf
<1>10. WaitersOf(mx') = WaitersOf(mx)
  BY <1>7 DEF WaitersOf
<1> QED
  BY <1>8, <1>9, <1>10, ViewStays

LEMMA AcquireFreeServes ==
  ASSUME QueuesInv, NEW m \in Mutex, MutexAcquireFree(m)
  PROVE  Locks!Acquire(m)
<1>1. mx.id[m] /\ mx.lock[m] = 0 /\ mx' = Hold(mx, m, k.curr) /\ handler = "thread"
  BY DEF MutexAcquireFree, Service
<1>2. mx \in Mutexes /\ k.curr \in Thread
  BY <1>1, Now
<1>3. Taken(mx, m, k.curr, mx')
  BY <1>1, <1>2, HoldType
<1>4. /\ mx'.id = mx.id /\ mx'.thread_list = mx.thread_list
      /\ mx'.lock[m] = 1 /\ mx'.owner_thread[m] = k.curr
      /\ \A n \in Mutex \ {m} : /\ mx'.lock[n] = mx.lock[n]
                                /\ mx'.owner_thread[n] = mx.owner_thread[n]
  BY <1>2, <1>3 DEF Taken, Mutexes
<1>5. SameBut(mx, mx', m)
  BY <1>4 DEF SameBut, SameAt
<1>6. /\ HolderOf(mx')[m] = k.curr /\ DepthOf(mx')[m] = 1 /\ DepthOf(mx)[m] = 0
      /\ WaitersOf(mx') = WaitersOf(mx)
  BY <1>1, <1>4 DEF HolderOf, DepthOf, WaitersOf
<1>7. /\ DepthOf(mx)[m] = 0
      /\ HolderOf(mx') = [HolderOf(mx) EXCEPT ![m] = k.curr]
      /\ DepthOf(mx') = [DepthOf(mx) EXCEPT ![m] = 1]
      /\ WaitersOf(mx') = WaitersOf(mx)
  BY <1>5, <1>6, ViewBut
<1> QED
  BY <1>7 DEF Locks!Acquire, HolderOf, DepthOf, WaitersOf

\* The counter of a recursive mutex changes by one, and stays above 0.
LEMMA CountServes ==
  ASSUME QueuesInv, NEW m \in Mutex
  PROVE  /\ MutexAcquireAgain(m) => Locks!AcquireAgain(m)
         /\ MutexReleaseOnce(m) => Locks!Release(m)
<1>1. mx \in Mutexes /\ mx.lock[m] \in 0 .. LockLimit /\ LockLimit \in Nat
  BY MutexAssumption DEF QueuesInv, Mutexes
<1>2. ASSUME NEW n \in Nat, n # 0, mx.id[m], mx.lock[m] # 0, mx' = [mx EXCEPT !.lock[m] = n]
      PROVE  /\ HolderOf(mx') = HolderOf(mx) /\ HolderOf(mx)[m] = mx.owner_thread[m]
             /\ DepthOf(mx') = [DepthOf(mx) EXCEPT ![m] = n] /\ DepthOf(mx)[m] = mx.lock[m]
             /\ WaitersOf(mx') = WaitersOf(mx)
  <2>1. /\ mx'.id = mx.id /\ mx'.owner_thread = mx.owner_thread
        /\ mx'.thread_list = mx.thread_list /\ mx'.lock[m] = n
        /\ \A i \in Mutex \ {m} : mx'.lock[i] = mx.lock[i]
    BY <1>1, <1>2 DEF Mutexes
  <2>2. SameBut(mx, mx', m)
    BY <2>1 DEF SameBut, SameAt
  <2>3. /\ DepthOf(mx')[m] = n /\ DepthOf(mx)[m] = mx.lock[m]
        /\ HolderOf(mx)[m] = mx.owner_thread[m] /\ WaitersOf(mx') = WaitersOf(mx)
    BY <1>2, <2>1 DEF DepthOf, HolderOf, WaitersOf
  <2>4. HolderOf(mx') = HolderOf(mx)
    <3>1. \A i \in Mutex : mx'.lock[i] # 0 <=> mx.lock[i] # 0
      BY <1>2, <2>1
    <3> QED
      BY <2>1, <3>1 DEF HolderOf
  <2> QED
    BY <2>2, <2>3, <2>4, ViewBut
<1>3. ASSUME MutexAcquireAgain(m)  PROVE Locks!AcquireAgain(m)
  <2>1. /\ mx.id[m] /\ mx.lock[m] # 0 /\ m \in Recursive /\ mx.owner_thread[m] = k.curr
        /\ mx' = [mx EXCEPT !.lock[m] = mx.lock[m] + 1]
    BY <1>3 DEF MutexAcquireAgain, Again, Service
  <2>2. mx.lock[m] + 1 \in Nat /\ mx.lock[m] + 1 # 0
    BY <1>1
  <2>3. /\ HolderOf(mx') = HolderOf(mx) /\ HolderOf(mx)[m] = k.curr
        /\ DepthOf(mx') = [DepthOf(mx) EXCEPT ![m] = DepthOf(mx)[m] + 1]
        /\ WaitersOf(mx') = WaitersOf(mx)
    BY <1>2, <2>1, <2>2
  <2> QED
    BY <2>1, <2>3 DEF Locks!AcquireAgain, HolderOf, DepthOf, WaitersOf
<1>4. ASSUME MutexReleaseOnce(m)  PROVE Locks!Release(m)
  <2>1. /\ mx.id[m] /\ mx.lock[m] > 1 /\ mx.owner_thread[m] = k.curr
        /\ mx' = [mx EXCEPT !.lock[m] = mx.lock[m] - 1]
    BY <1>4 DEF MutexReleaseOnce, Service
  <2>2. mx.lock[m] - 1 \in Nat /\ mx.lock[m] - 1 # 0 /\ mx.lock[m] # 0
    BY <1>1, <2>1
  <2>3. /\ HolderOf(mx') = HolderOf(mx) /\ HolderOf(mx)[m] = k.curr
        /\ DepthOf(mx') = [DepthOf(mx) EXCEPT ![m] = DepthOf(mx)[m] - 1]
        /\ WaitersOf(mx') = WaitersOf(mx) /\ DepthOf(mx)[m] > 1
    BY <1>2, <2>1, <2>2
  <2> QED
    BY <2>3 DEF Locks!Release, HolderOf, DepthOf, WaitersOf
<1> QED
  BY <1>3, <1>4

\* A thread leaves the list it is in.
LEMMA LeaveServes ==
  ASSUME QueuesInv, NEW t \in Thread, SameLocks(mx, mx'),
         \A m \in Mutex : ToSet(mx'.thread_list[m]) = ToSet(mx.thread_list[m]) \ {t}
  PROVE  Locks!GiveUp(t)
<1>1. HolderOf(mx') = HolderOf(mx) /\ DepthOf(mx') = DepthOf(mx)
  BY DEF SameLocks, HolderOf, DepthOf
<1>2. WaitersOf(mx') = [m \in Mutex |-> WaitersOf(mx)[m] \ {t}]
  <2>1. \A m \in Mutex :
          (IF mx'.id[m] THEN ToSet(mx'.thread_list[m]) ELSE {}) = WaitersOf(mx)[m] \ {t}
    BY DEF SameLocks, WaitersOf
  <2> QED
    BY <2>1 DEF WaitersOf
<1> QED
  BY <1>1, <1>2 DEF Locks!GiveUp, HolderOf, DepthOf, WaitersOf

LEMMA SuspendServes ==
  ASSUME QueuesInv, NEW t \in Thread, mx' = Leave(mx, t)
  PROVE  Locks!GiveUp(t)
<1>1. /\ mx \in Mutexes
      /\ \A m \in Mutex : Held(mx, m) /\ Distinct(mx.thread_list[m])
  BY Waiters DEF Waiting
<1>2. /\ SameLocks(mx, mx')
      /\ mx'.thread_list = [m \in Mutex |-> Without(mx.thread_list[m], t)]
  BY <1>1, LeaveHeld
<1>3. ASSUME NEW m \in Mutex
      PROVE  ToSet(mx'.thread_list[m]) = ToSet(mx.thread_list[m]) \ {t}
  <2>1. mx.thread_list[m] \in Seq(Thread) /\ Distinct(mx.thread_list[m])
    BY <1>1 DEF Mutexes
  <2> QED
    BY <1>2, <2>1, WithoutSet
<1> QED
  BY <1>2, <1>3, LeaveServes

LEMMA TickReleaseServes ==
  ASSUME QueuesInv, TickRelease
  PROVE  (\E t \in Thread : Locks!GiveUp(t)) \/ UNCHANGED Locks!lockVars
<1> DEFINE t     == Head(k.delay_list)
           m     == CHOOSE n \in Mutex : t \in ToSet(mx.thread_list[n])
           owner == mx.owner_thread[m]
<1>1. CASE Waits(t)
  <2>1. /\ t \in Thread
        /\ \A n \in Mutex : ToSet(mx'.thread_list[n]) = ToSet(mx.thread_list[n]) \ {t}
    BY ONLY QueuesInv, TickRelease, <1>1, TickReleaseFacts
  <2> HIDE DEF t
  <2> QED
    BY <2>1, TickReleaseLocks, LeaveServes
<1>2. CASE ~Waits(t)
  <2>1. mx' = mx
    BY <1>2 DEF TickRelease
  <2>2. SameView(mx, mx')
    BY <2>1 DEF SameView, SameAt
  <2> QED
    BY <2>2, SameServes
<1> QED
  BY <1>1, <1>2

\* A thread starts to wait: c is in the list of m and of no other mutex.
LEMMA WaitServes ==
  ASSUME QueuesInv, NEW m \in Mutex, mx.id[m], mx.lock[m] # 0, SameLocks(mx, mx'),
         \A n \in Mutex : k.curr \notin ToSet(mx.thread_list[n]),
         ToSet(mx'.thread_list[m]) = ToSet(mx.thread_list[m]) \cup {k.curr},
         \A n \in Mutex \ {m} : ToSet(mx'.thread_list[n]) = ToSet(mx.thread_list[n])
  PROVE  Locks!Wait(m)
<1>1. mx.lock[m] \in Nat /\ mx.lock[m] > 0
  BY MutexAssumption DEF QueuesInv, Mutexes
<1>2. HolderOf(mx') = HolderOf(mx) /\ DepthOf(mx') = DepthOf(mx)
  BY DEF SameLocks, HolderOf, DepthOf
<1>3. SameBut(mx, mx', m)
  BY DEF SameLocks, SameBut, SameAt
<1>4. WaitersOf(mx')[m] = WaitersOf(mx)[m] \cup {k.curr} /\ DepthOf(mx)[m] = mx.lock[m]
  BY DEF SameLocks, WaitersOf, DepthOf
<1>5. \A n \in Mutex : k.curr \notin WaitersOf(mx)[n]
  BY DEF WaitersOf
<1>6. WaitersOf(mx') = [WaitersOf(mx) EXCEPT ![m] = WaitersOf(mx)[m] \cup {k.curr}]
  BY <1>3, <1>4, ViewBut
<1>7. DepthOf(mx)[m] > 0
  BY <1>1, <1>4
<1> QED
  BY <1>2, <1>5, <1>6, <1>7 DEF Locks!Wait, HolderOf, DepthOf, WaitersOf

\* Only the place of the owner in a list changes, and the thread that waits is added
\* where it can.
LEMMA AcquireWaitServes ==
  ASSUME QueuesInv, NEW m \in Mutex, NEW timeout \in Timeout, MutexAcquireWait(m, timeout)
  PROVE  Locks!Wait(m) \/ UNCHANGED Locks!lockVars
<1> DEFINE owner  == mx.owner_thread[m]
           c      == k.curr
           raised == IF m \in PrioInherit /\ k.priority[owner] < k.priority[c]
                     THEN Reprioritise(k, owner, k.priority[c]) ELSE k
           x      == Requeue(k, raised, mx, owner)
           y      == [x EXCEPT !.thread_list[m] = ListPut(raised, @, c)]
<1>1. /\ mx.id[m] /\ mx.lock[m] # 0 /\ handler = "thread" /\ SameLocks(mx, mx')
      /\ mx' = y \/ mx' = x
  BY AcquireWaitLocks DEF MutexAcquireWait, Service
<1>2. c \in Thread /\ \A n \in Mutex : c \notin ToSet(mx.thread_list[n])
  BY Waiters
<1>3. Moved(k, mx, raised, x, 1)
  BY <1>1, AcquireRaises
<1> HIDE DEF raised, x
<1>4. /\ x \in Mutexes /\ SameWaiters(mx.thread_list, x.thread_list)
      /\ Waiting(Mutex, MutexStates, raised, x.thread_list, AnyMutex)
  BY <1>3, RunningWaitsNot DEF Moved
<1>5. /\ x.thread_list \in [Mutex -> Seq(Thread)]
      /\ \A n \in Mutex : /\ Distinct(x.thread_list[n])
                          /\ ToSet(x.thread_list[n]) = ToSet(mx.thread_list[n])
  BY <1>4 DEF Waiting, SameWaiters
<1>6. CASE mx' = x
  <2>1. SameView(mx, mx')
    BY <1>1, <1>5, <1>6 DEF SameLocks, SameView, SameAt
  <2> QED
    BY <2>1, SameServes
<1>7. CASE mx' = y
  <2>1. y.thread_list = [x.thread_list EXCEPT ![m] = ListPut(raised, @, c)]
    BY <1>4 DEF Mutexes
  <2> HIDE DEF y
  <2>2. /\ mx'.thread_list[m] = ListPut(raised, x.thread_list[m], c)
        /\ \A n \in Mutex \ {m} : mx'.thread_list[n] = x.thread_list[n]
    BY <1>5, <1>7, <2>1
  <2>3. x.thread_list[m] \in Seq(Thread) /\ c \notin ToSet(x.thread_list[m])
    BY <1>2, <1>5
  <2>4. ToSet(mx'.thread_list[m]) = ToSet(x.thread_list[m]) \cup {c}
    BY <1>2, <1>5, <2>2, <2>3, ListPutSet
  <2>5. /\ ToSet(mx'.thread_list[m]) = ToSet(mx.thread_list[m]) \cup {c}
        /\ \A n \in Mutex \ {m} : ToSet(mx'.thread_list[n]) = ToSet(mx.thread_list[n])
    BY <1>5, <2>2, <2>4
  <2> QED
    BY <1>1, <1>2, <2>5, WaitServes
<1> QED
  BY <1>1, <1>6, <1>7

\* The callers see nothing of a deleted mutex.
LEMMA DeleteServes ==
  ASSUME QueuesInv, Linked(k, mx, {}), NEW m \in Mutex, MutexDelete(m)
  PROVE  Locks!Delete(m)
<1>1. /\ mx'.id = [mx.id EXCEPT ![m] = FALSE] /\ mx'.lock = mx.lock
      /\ mx'.owner_thread = mx.owner_thread
      /\ \A n \in Mutex \ {m} : ToSet(mx'.thread_list[n]) = ToSet(mx.thread_list[n])
  <2>1. CASE mx.lock[m] # 0
    BY <2>1, DeleteFacts
  <2>2. CASE mx.lock[m] = 0
    <3>1. mx' = [mx EXCEPT !.id[m] = FALSE] /\ mx \in Mutexes
      BY <2>2 DEF MutexDelete, Service, QueuesInv
    <3> QED
      BY <3>1 DEF Mutexes
  <2> QED
    BY <2>1, <2>2
<1>2. ~mx'.id[m] /\ \A n \in Mutex \ {m} : mx'.id[n] = mx.id[n]
  BY <1>1 DEF QueuesInv, Mutexes
<1>3. SameBut(mx, mx', m)
  BY <1>1, <1>2 DEF SameBut, SameAt
<1>4. HolderOf(mx')[m] = NoThread /\ DepthOf(mx')[m] = 0 /\ WaitersOf(mx')[m] = {}
  BY <1>2 DEF HolderOf, DepthOf, WaitersOf
<1>5. /\ HolderOf(mx') = [HolderOf(mx) EXCEPT ![m] = NoThread]
      /\ DepthOf(mx') = [DepthOf(mx) EXCEPT ![m] = 0]
      /\ WaitersOf(mx') = [WaitersOf(mx) EXCEPT ![m] = {}]
  BY <1>3, <1>4, ViewBut
<1> QED
  BY <1>5 DEF Locks!Delete, HolderOf, DepthOf, WaitersOf

\* m has gone to the first thread that waited for it, or is free; it is as it was.
PassedAt(x, y, m) ==
  /\ y.id[m] = x.id[m]
  /\ IF x.thread_list[m] = <<>>
     THEN y.lock[m] = 0 /\ y.thread_list[m] = <<>>
     ELSE /\ y.lock[m] = 1 /\ y.owner_thread[m] = Head(x.thread_list[m])
          /\ y.thread_list[m] = Tail(x.thread_list[m])

KeptAt(x, y, m) ==
  /\ y.id[m] = x.id[m] /\ y.lock[m] = x.lock[m] /\ y.owner_thread[m] = x.owner_thread[m]
  /\ y.thread_list[m] = x.thread_list[m]

\* The mutexes of S have been passed on, and no other.
Passed(x, y, S) ==
  /\ \A m \in S : PassedAt(x, y, m)
  /\ \A m \in Mutex \ S : KeptAt(x, y, m)

LEMMA PassedNone == ASSUME NEW x PROVE Passed(x, x, {})
BY DEF Passed, KeptAt

LEMMA PassedMore ==
  ASSUME NEW x, NEW y, NEW z, NEW S, S \subseteq Mutex, NEW m \in Mutex, m \notin S,
         Passed(x, y, S), Passed(y, z, {m})
  PROVE  Passed(x, z, S \cup {m})
<1>1. ASSUME NEW n \in S  PROVE PassedAt(x, z, n)
  <2>1. PassedAt(x, y, n)
    BY DEF Passed
  <2>2. KeptAt(y, z, n)
    BY DEF Passed
  <2> QED
    BY <2>1, <2>2 DEF PassedAt, KeptAt
<1>2. PassedAt(x, z, m)
  <2>1. KeptAt(x, y, m) /\ PassedAt(y, z, m)
    BY DEF Passed
  <2> QED
    BY <2>1 DEF PassedAt, KeptAt
<1>3. ASSUME NEW n \in Mutex \ (S \cup {m})  PROVE KeptAt(x, z, n)
  <2>1. KeptAt(x, y, n) /\ KeptAt(y, z, n)
    BY DEF Passed
  <2> QED
    BY <2>1 DEF KeptAt
<1> QED
  BY <1>1, <1>2, <1>3 DEF Passed

\* A mutex unlocked and handed over is passed on.
LEMMA HandOverPassed ==
  ASSUME NEW x \in Mutexes, NEW z \in Mutexes, NEW m \in Mutex,
         z.lock = [x.lock EXCEPT ![m] = 0], z.id = x.id,
         z.owner_thread = x.owner_thread, z.thread_list = x.thread_list,
         x.thread_list[m] # <<>> => Head(x.thread_list[m]) \in Thread
  PROVE  Passed(x, HandOver(z, m), {m})
<1>1. /\ z.lock[m] = 0 /\ \A n \in Mutex \ {m} : z.lock[n] = x.lock[n]
  BY DEF Mutexes
<1>2. CASE x.thread_list[m] = <<>>
  <2>1. HandOver(z, m) = z
    BY <1>2 DEF HandOver
  <2> QED
    BY <1>1, <1>2, <2>1 DEF Passed, PassedAt, KeptAt
<1>3. CASE x.thread_list[m] # <<>>
  <2> DEFINE w == z.thread_list
             h == Head(w[m])
             l == [w EXCEPT ![m] = Tail(@)]
             u == [z EXCEPT !.thread_list = l]
             y == HandOver(z, m)
  <2>1. h \in Thread /\ y = Hold(u, m, h)
    BY <1>3 DEF HandOver
  <2>2. w \in [Mutex -> Seq(Thread)]
    BY DEF Mutexes
  <2>3. /\ l \in [Mutex -> Seq(Thread)] /\ l[m] = Tail(w[m])
        /\ \A n \in Mutex \ {m} : l[n] = w[n]
    BY <1>3, <2>2
  <2> HIDE DEF l, h, y
  <2>4. u \in Mutexes /\ SameLocks(z, u) /\ u.thread_list = l
    BY <2>3, ListsType
  <2> HIDE DEF u
  <2>5. Taken(u, m, h, y)
    BY <2>1, <2>4, HoldType
  <2>6. /\ y.id = x.id /\ y.thread_list = l /\ y.lock = [z.lock EXCEPT ![m] = 1]
        /\ y.owner_thread = [x.owner_thread EXCEPT ![m] = h]
    BY <2>4, <2>5 DEF Taken, SameLocks
  <2>7. /\ y.lock[m] = 1 /\ y.owner_thread[m] = h
        /\ \A n \in Mutex \ {m} : /\ y.lock[n] = z.lock[n]
                                  /\ y.owner_thread[n] = x.owner_thread[n]
    BY <2>6 DEF Mutexes
  <2>8. PassedAt(x, y, m)
    BY <1>3, <2>3, <2>6, <2>7 DEF PassedAt, h
  <2>9. \A n \in Mutex \ {m} : KeptAt(x, y, n)
    BY <1>1, <2>3, <2>6, <2>7 DEF KeptAt
  <2> QED
    BY <2>8, <2>9 DEF Passed, y
<1> QED
  BY <1>2, <1>3

\* When all the mutexes of t are robust, all are passed on in the end.
LEMMA BequeathPassed ==
  ASSUME NEW q, NEW x, NEW T, NEW low, Leaves(q, q, x, T, low), NEW t \in Thread,
         Chain(x, t, MutexList(x, t)), ToSet(MutexList(x, t)) \subseteq Robust
  PROVE  Passed(x, Bequeath(q, x, t).x, ToSet(MutexList(x, t)))
<1> DEFINE l == MutexList(x, t)
           N == Len(l)
           y == Bequeath(q, x, t).x
<1>1. PICK f : /\ Loop(q, x, l, f) /\ Bequeath(q, x, t) = f[N]
               /\ \A n \in Nat : Leaves(q, f[n].s, f[n].x, T, low)
  BY BequeathLoops
<1>2. /\ l \in Seq(Mutex) /\ Distinct(l) /\ N \in Nat
      /\ \A i \in 1 .. N : l[i] \in Mutex /\ l[i] \in Robust
  BY DEF Chain, Strung, ToSet
<1>3. ToSet(l) = {l[i] : i \in 1 .. N} /\ \A i, j \in 1 .. N : l[i] = l[j] => i = j
  BY <1>2 DEF ToSet, Distinct
<1>4. f[0].x = x /\ \A n \in Nat : n < N => f[n + 1] = Pass(f[n], l[n + 1])
  BY <1>1 DEF Loop
<1>5. y = f[N].x
  BY <1>1
<1> HIDE DEF l, N, y
<1> DEFINE Done(n) == {l[i] : i \in 1 .. n}
           Goes(n) == Passed(x, f[n].x, Done(n))
           P == {n \in Nat : n <= N => Goes(n)}
<1>6. Nat \subseteq P
  <2>1. 0 \in P
    <3>1. Done(0) = {}
      OBVIOUS
    <3>2. Passed(x, x, {})
      BY PassedNone
    <3> QED
      BY <1>4, <3>1, <3>2
  <2>2. ASSUME NEW n \in Nat, n \in P  PROVE n + 1 \in P
    <3> SUFFICES ASSUME n + 1 <= N
                 PROVE  Goes(n + 1)
      OBVIOUS
    <3> DEFINE m == l[n + 1]
               z == HandOver([f[n].x EXCEPT !.lock[m] = 0], m)
    <3>1. n < N /\ n <= N /\ n + 1 \in 1 .. N
      BY <1>2
    <3>2. /\ Passed(x, f[n].x, Done(n)) /\ Leaves(q, f[n].s, f[n].x, T, low)
      BY <1>1, <2>2, <3>1
    <3>3. m \in Mutex /\ m \in Robust /\ Done(n) \subseteq Mutex
      BY <1>2, <3>1
    <3>4. f[n + 1].x = z
      <4>1. f[n + 1] = Pass(f[n], m)
        BY <1>4, <3>1
      <4> QED
        BY <3>3, <4>1 DEF Pass
    <3>5. Done(n + 1) = Done(n) \cup {m} /\ m \notin Done(n)
      <4>1. \A i \in 1 .. n + 1 : i = n + 1 \/ i \in 1 .. n
        OBVIOUS
      <4>2. \A i \in 1 .. n : i \in 1 .. n + 1 /\ i \in 1 .. N /\ i # n + 1
        BY <1>2, <3>1
      <4>3. n + 1 \in 1 .. n + 1
        OBVIOUS
      <4> QED
        BY <1>3, <3>1, <4>1, <4>2, <4>3
    <3> HIDE DEF m
    <3>6. Passed(f[n].x, z, {m})
      <4>1. PICK v : v = f[n].x
        OBVIOUS
      <4>2. v \in Mutexes /\ Queues(f[n].s, v, T, low)
        BY <3>2, <4>1 DEF Leaves
      <4>3. 0 \in 0 .. LockLimit
        BY MutexAssumption
      <4> DEFINE u == [v EXCEPT !.lock[m] = 0]
      <4>4. /\ u \in Mutexes /\ u.lock = [v.lock EXCEPT ![m] = 0] /\ u.id = v.id
            /\ u.owner_thread = v.owner_thread /\ u.thread_list = v.thread_list
        BY <3>3, <4>2, <4>3, LockType
      <4>5. v.thread_list[m] # <<>> => Head(v.thread_list[m]) \in Thread
        BY <3>3, <4>2 DEF Mutexes
      <4> HIDE DEF u
      <4>6. Passed(v, HandOver(u, m), {m})
        BY ONLY <3>3, <4>2, <4>4, <4>5, HandOverPassed
      <4> QED
        BY <4>1, <4>6 DEF u
    <3> HIDE DEF z, Done
    <3>7. Passed(x, z, Done(n) \cup {m})
      <4>1. PICK v : v = f[n].x
        OBVIOUS
      <4>2. Passed(x, v, Done(n)) /\ Passed(v, z, {m})
        BY <3>2, <3>6, <4>1
      <4> QED
        BY ONLY <3>3, <3>5, <4>2, PassedMore
    <3> QED
      BY <3>4, <3>5, <3>7
  <2> HIDE DEF P
  <2> QED
    BY <2>1, <2>2, SetInduction
<1>7. Goes(N)
  <2>1. N \in Nat /\ N <= N
    BY <1>2
  <2>2. N \in P
    <3> HIDE DEF P
    <3> QED
      BY <1>6, <2>1
  <2> QED
    BY <2>1, <2>2
<1>8. Done(N) = ToSet(l)
  BY <1>3
<1> QED
  BY <1>5, <1>7, <1>8 DEF y, l

\* The step from x to y of PassOn in MutexService.
PassesOn(x, y, S, left) ==
  \E heir \in [S -> Thread \cup {NoThread}] :
    /\ \A m \in S : IF left[m] = {} THEN heir[m] = NoThread ELSE heir[m] \in left[m]
    /\ HolderOf(y) = [m \in Mutex |-> IF m \in S THEN heir[m] ELSE HolderOf(x)[m]]
    /\ DepthOf(y) = [m \in Mutex |-> IF m \notin S THEN DepthOf(x)[m]
                                    ELSE IF heir[m] = NoThread THEN 0 ELSE 1]
    /\ WaitersOf(y) = [m \in Mutex |-> IF m \in S THEN left[m] \ {heir[m]} ELSE left[m]]

\* What has been passed on went to heirs that waited for it.
LEMMA PassOnServes ==
  ASSUME NEW x \in Mutexes, NEW S, S \subseteq Mutex, Passed(x, mx', S),
         \A m \in S : x.id[m], \A m \in Mutex : Distinct(x.thread_list[m]),
         HolderOf(x) = HolderOf(mx), DepthOf(x) = DepthOf(mx)
  PROVE  PassesOn(mx, mx', S, WaitersOf(x))
<1> DEFINE heir == [m \in S |-> IF x.thread_list[m] = <<>> THEN NoThread
                                ELSE Head(x.thread_list[m])]
           left == WaitersOf(x)
<1>1. ASSUME NEW m \in S
      PROVE  /\ IF left[m] = {} THEN heir[m] = NoThread ELSE heir[m] \in left[m]
             /\ heir[m] \in Thread \cup {NoThread}
             /\ HolderOf(mx')[m] = heir[m]
             /\ DepthOf(mx')[m] = IF heir[m] = NoThread THEN 0 ELSE 1
             /\ WaitersOf(mx')[m] = left[m] \ {heir[m]}
  <2>1. /\ m \in Mutex /\ x.id[m] /\ mx'.id[m] /\ PassedAt(x, mx', m)
        /\ x.thread_list[m] \in Seq(Thread) /\ Distinct(x.thread_list[m])
    BY DEF Passed, PassedAt, Mutexes
  <2>2. /\ left[m] = ToSet(x.thread_list[m]) /\ WaitersOf(mx')[m] = ToSet(mx'.thread_list[m])
        /\ DepthOf(mx')[m] = mx'.lock[m]
        /\ HolderOf(mx')[m] = IF mx'.lock[m] # 0 THEN mx'.owner_thread[m] ELSE NoThread
    BY <2>1 DEF WaitersOf, DepthOf, HolderOf
  <2>3. CASE x.thread_list[m] = <<>>
    <3>1. /\ heir[m] = NoThread /\ mx'.lock[m] = 0 /\ mx'.thread_list[m] = <<>>
          /\ ToSet(<<>>) = {}
      BY <2>1, <2>3, EmptyWaits DEF PassedAt
    <3> QED
      BY <2>2, <2>3, <3>1
  <2>4. CASE x.thread_list[m] # <<>>
    <3>1. /\ heir[m] = Head(x.thread_list[m]) /\ mx'.lock[m] = 1
          /\ mx'.owner_thread[m] = heir[m] /\ mx'.thread_list[m] = Tail(x.thread_list[m])
      BY <2>1, <2>4 DEF PassedAt
    <3>2. /\ heir[m] \in ToSet(x.thread_list[m]) /\ heir[m] \in Thread
          /\ ToSet(mx'.thread_list[m]) = ToSet(x.thread_list[m]) \ {heir[m]}
      BY <2>1, <2>4, <3>1, TailSet
    <3>3. heir[m] # NoThread
      BY <3>2, SchedulerAssumption
    <3> HIDE DEF heir, left
    <3> QED
      BY <2>2, <3>1, <3>2, <3>3
  <2> QED
    BY <2>3, <2>4
<1>2. ASSUME NEW m \in Mutex \ S
      PROVE  /\ HolderOf(mx')[m] = HolderOf(mx)[m] /\ DepthOf(mx')[m] = DepthOf(mx)[m]
             /\ WaitersOf(mx')[m] = left[m]
  <2>1. KeptAt(x, mx', m)
    BY DEF Passed
  <2>2. /\ HolderOf(mx')[m] = HolderOf(x)[m] /\ DepthOf(mx')[m] = DepthOf(x)[m]
        /\ WaitersOf(mx')[m] = left[m]
    BY <2>1 DEF KeptAt, HolderOf, DepthOf, WaitersOf
  <2> QED
    BY <2>2
<1>3. heir \in [S -> Thread \cup {NoThread}]
  <2>1. heir = [m \in S |-> heir[m]]
    OBVIOUS
  <2> HIDE DEF heir
  <2> QED
    BY <1>1, <2>1
<1> HIDE DEF heir, left
<1>4. HolderOf(mx') = [m \in Mutex |-> IF m \in S THEN heir[m] ELSE HolderOf(mx)[m]]
  <2>1. HolderOf(mx') = [m \in Mutex |-> HolderOf(mx')[m]]
    BY DEF HolderOf
  <2> QED
    BY <1>1, <1>2, <2>1
<1>5. DepthOf(mx') = [m \in Mutex |-> IF m \notin S THEN DepthOf(mx)[m]
                                      ELSE IF heir[m] = NoThread THEN 0 ELSE 1]
  <2>1. DepthOf(mx') = [m \in Mutex |-> DepthOf(mx')[m]]
    BY DEF DepthOf
  <2> QED
    BY <1>1, <1>2, <2>1
<1>6. WaitersOf(mx') = [m \in Mutex |-> IF m \in S THEN left[m] \ {heir[m]} ELSE left[m]]
  <2>1. WaitersOf(mx') = [m \in Mutex |-> WaitersOf(mx')[m]]
    BY DEF WaitersOf
  <2> QED
    BY <1>1, <1>2, <2>1
<1>7. \A m \in S : IF left[m] = {} THEN heir[m] = NoThread ELSE heir[m] \in left[m]
  BY <1>1
<1>8. PassesOn(mx, mx', S, left)
  BY <1>3, <1>4, <1>5, <1>6, <1>7 DEF PassesOn
<1> QED
  BY <1>8 DEF left

\* The running thread releases a mutex it has acquired once.
LEMMA ReleaseServes ==
  ASSUME QueuesInv, Linked(k, mx, {}), NEW m \in Mutex, MutexRelease(m)
  PROVE  Locks!Release(m)
<1>1. PICK x : x = Unhold([mx EXCEPT !.lock[m] = 0], m)
  OBVIOUS
<1>2. /\ mx' = HandOver(x, m) /\ mx.id[m] /\ mx.owner_thread[m] = k.curr /\ mx.lock[m] = 1
  BY <1>1 DEF MutexRelease, Service
<1>3. /\ x \in Mutexes /\ x.thread_list = mx.thread_list /\ x.id = mx.id
      /\ x.owner_thread = mx.owner_thread /\ x.lock = [mx.lock EXCEPT ![m] = 0]
      /\ x.thread_list[m] # <<>> => Head(x.thread_list[m]) \in Thread \ {}
  BY <1>1, ReleaseUnlinks
<1>4. mx \in Mutexes /\ \A n \in Mutex : Distinct(mx.thread_list[n])
  BY Waiters DEF Waiting
<1>5. Passed(mx, mx', {m})
  <2>1. mx.thread_list[m] # <<>> => Head(mx.thread_list[m]) \in Thread
    BY <1>3
  <2> QED
    BY <1>2, <1>3, <1>4, <2>1, HandOverPassed
<1>6. /\ HolderOf(mx) = HolderOf(mx) /\ DepthOf(mx) = DepthOf(mx)
      /\ {m} \subseteq Mutex /\ \A n \in {m} : mx.id[n]
  BY <1>2
<1>7. PassesOn(mx, mx', {m}, WaitersOf(mx))
  BY <1>4, <1>5, <1>6, PassOnServes
<1>8. HolderOf(mx)[m] = k.curr /\ ~(DepthOf(mx)[m] > 1)
  BY <1>2 DEF HolderOf, DepthOf
<1> QED
  BY <1>7, <1>8 DEF PassesOn, Locks!Release, Locks!PassOn, HolderOf, DepthOf, WaitersOf

\* A thread ends: what it owned is passed on, when it waits for nothing any more.
LEMMA EndPasses ==
  ASSUME QueuesInv, NEW t \in Thread, NEW x \in Mutexes, SameLocks(mx, x),
         \A m \in Mutex : /\ ToSet(x.thread_list[m]) = ToSet(mx.thread_list[m]) \ {t}
                          /\ Distinct(x.thread_list[m]),
         Owned(mx, t) \subseteq Robust, Passed(x, mx', Owned(mx, t))
  PROVE  PassesOn(mx, mx', {m \in Robust : HolderOf(mx)[m] = t},
                  [m \in Mutex |-> WaitersOf(mx)[m] \ {t}])
<1>1. HolderOf(x) = HolderOf(mx) /\ DepthOf(x) = DepthOf(mx)
  BY DEF SameLocks, HolderOf, DepthOf
<1>2. Owned(mx, t) = {m \in Robust : HolderOf(mx)[m] = t}
  <2>1. t # NoThread /\ Robust \subseteq Mutex
    BY SchedulerAssumption, MutexAssumption
  <2> QED
    BY <2>1 DEF Owned, HolderOf
<1>3. WaitersOf(x) = [m \in Mutex |-> WaitersOf(mx)[m] \ {t}]
  <2>1. \A m \in Mutex :
          (IF x.id[m] THEN ToSet(x.thread_list[m]) ELSE {}) = WaitersOf(mx)[m] \ {t}
    BY DEF SameLocks, WaitersOf
  <2> QED
    BY <2>1 DEF WaitersOf
<1>4. \A m \in Owned(mx, t) : m \in Mutex /\ x.id[m]
  BY DEF Owned, SameLocks
<1>5. PassesOn(mx, mx', Owned(mx, t), WaitersOf(x))
  <2>1. Owned(mx, t) \subseteq Mutex
    BY <1>4
  <2> QED
    BY <1>1, <1>4, <2>1, PassOnServes
<1> QED
  BY <1>2, <1>3, <1>5

LEMMA ThreadExitServes ==
  ASSUME QueuesInv, Linked(k, mx, {}), ThreadExit, "Abandon" \notin Habits
  PROVE  \E t \in Thread : Locks!End(t)
<1>1. /\ handler = "thread" /\ ToSet(MutexList(mx, k.curr)) \subseteq Robust
      /\ mx' = Bequeath(k, mx, k.curr).x
  BY DEF ThreadExit, Service, MayEnd
<1>2. /\ Queues(k, mx, {}, 1) /\ mx \in Mutexes /\ \A m \in Mutex : Held(mx, m)
      /\ k.curr \in Thread /\ k.state[k.curr] # "Inactive"
  BY <1>1, Now
<1>3. Leaves(k, k, mx, {}, 1)
  BY <1>2 DEF Leaves, SameRun, Wakened
<1>4. /\ ToSet(MutexList(mx, k.curr)) = Owned(mx, k.curr)
      /\ Chain(mx, k.curr, MutexList(mx, k.curr))
  BY <1>2, ListChained
<1>5. Passed(mx, Bequeath(k, mx, k.curr).x, ToSet(MutexList(mx, k.curr)))
  BY <1>1, <1>2, <1>3, <1>4, BequeathPassed
<1>6. Owned(mx, k.curr) \subseteq Robust /\ Passed(mx, mx', Owned(mx, k.curr))
  BY <1>1, <1>4, <1>5
<1>7. SameLocks(mx, mx)
  BY DEF SameLocks
<1>8. \A m \in Mutex :
        /\ ToSet(mx.thread_list[m]) = ToSet(mx.thread_list[m]) \ {k.curr}
        /\ Distinct(mx.thread_list[m])
  BY Waiters DEF Waiting
<1>9. PICK x : x = mx
  OBVIOUS
<1>10. /\ x \in Mutexes /\ SameLocks(mx, x) /\ Passed(x, mx', Owned(mx, k.curr))
       /\ \A m \in Mutex :
            /\ ToSet(x.thread_list[m]) = ToSet(mx.thread_list[m]) \ {k.curr}
            /\ Distinct(x.thread_list[m])
  BY <1>2, <1>6, <1>7, <1>8, <1>9
<1>11. PICK t \in Thread : t = k.curr
  BY <1>2
<1>12. /\ Owned(mx, t) \subseteq Robust /\ Passed(x, mx', Owned(mx, t))
       /\ \A m \in Mutex : /\ ToSet(x.thread_list[m]) = ToSet(mx.thread_list[m]) \ {t}
                           /\ Distinct(x.thread_list[m])
  BY <1>6, <1>10, <1>11
<1>13. PassesOn(mx, mx', {m \in Robust : HolderOf(mx)[m] = t},
                [m \in Mutex |-> WaitersOf(mx)[m] \ {t}])
  BY ONLY QueuesInv, <1>10, <1>12, t \in Thread, EndPasses
<1>14. Locks!End(t)
  BY <1>13 DEF PassesOn, Locks!End, Locks!PassOn, HolderOf, DepthOf, WaitersOf
<1> QED
  BY <1>14

LEMMA ThreadTerminateServes ==
  ASSUME QueuesInv, Linked(k, mx, {}), NEW t \in Application, ThreadTerminate(t),
         "Abandon" \notin Habits
  PROVE  Locks!End(t)
<1> DEFINE u == Unlist(k, t)
           y == Leave(mx, t)
<1>1. /\ handler = "thread" /\ ToSet(MutexList(mx, t)) \subseteq Robust
      /\ mx' = Bequeath(u, y, t).x /\ t # k.curr /\ Stoppable(k, t)
      /\ k.state[t] # "Inactive" /\ t \in Thread
  <2>1. handler = "thread" /\ mx' = Bequeath(u, y, t).x
    BY DEF ThreadTerminate, Service
  <2>2. t # k.curr /\ Stoppable(k, t) /\ MayEnd(t) /\ t \in Thread
    BY DEF ThreadTerminate, Application
  <2>3. ToSet(MutexList(mx, t)) \subseteq Robust
    BY <2>2 DEF MayEnd
  <2>4. k.state[t] # "Inactive"
    BY <2>2 DEF Stoppable, BlockedStates, WaitStates
  <2> QED
    BY <2>1, <2>2, <2>3, <2>4
<1>2. Leaves(u, u, y, {t}, 1) /\ u.state = k.state
  BY <1>1, UnlistQueues
<1> HIDE DEF u
<1>3. /\ mx \in Mutexes
      /\ \A m \in Mutex : Held(mx, m) /\ Distinct(mx.thread_list[m])
  BY Waiters DEF Waiting
<1>4. /\ y \in Mutexes /\ SameLocks(mx, y)
      /\ y.thread_list = [m \in Mutex |-> Without(mx.thread_list[m], t)]
  BY <1>1, <1>3, LeaveHeld
<1> HIDE DEF y
<1>5. ASSUME NEW m \in Mutex
      PROVE  /\ ToSet(y.thread_list[m]) = ToSet(mx.thread_list[m]) \ {t}
             /\ Distinct(y.thread_list[m])
  <2>1. mx.thread_list[m] \in Seq(Thread) /\ Distinct(mx.thread_list[m])
    BY <1>3 DEF Mutexes
  <2> QED
    BY <1>1, <1>4, <2>1, WithoutSet
<1>6. Linked(u, y, {}) /\ u.state[t] # "Inactive"
  <2>1. Lives(k, u, {})
    BY <1>2 DEF Lives
  <2> QED
    BY <1>1, <1>2, <1>4, <2>1, LocksLinked
<1>7. /\ MutexList(y, t) = MutexList(mx, t) /\ ToSet(MutexList(y, t)) = Owned(mx, t)
      /\ Chain(y, t, MutexList(y, t))
  <2>1. /\ Chain(mx, t, MutexList(mx, t)) /\ ToSet(MutexList(mx, t)) = Owned(mx, t)
    BY <1>1, <1>3, ListChained
  <2>2. /\ Chain(y, t, MutexList(y, t)) /\ ToSet(MutexList(y, t)) = Owned(y, t)
    BY <1>1, <1>4, <1>6, ListChained
  <2>3. Strung(y, t, MutexList(mx, t))
    BY <1>4, <2>1 DEF Strung, SameLocks, Chain
  <2>4. MutexList(y, t) = MutexList(mx, t)
    BY <1>1, <1>4, <2>3, MutexListIs
  <2> QED
    BY <2>1, <2>2, <2>4
<1>8. Passed(y, Bequeath(u, y, t).x, ToSet(MutexList(y, t)))
  BY <1>1, <1>2, <1>7, BequeathPassed
<1>9. Owned(mx, t) \subseteq Robust /\ Passed(y, mx', Owned(mx, t))
  BY <1>1, <1>7, <1>8
<1>10. PassesOn(mx, mx', {m \in Robust : HolderOf(mx)[m] = t},
                [m \in Mutex |-> WaitersOf(mx)[m] \ {t}])
  BY <1>1, <1>4, <1>5, <1>9, EndPasses
<1> QED
  BY <1>10 DEF PassesOn, Locks!End, Locks!PassOn, HolderOf, DepthOf, WaitersOf

LEMMA ThreadNewServes ==
  ASSUME QueuesInv, NEW t \in Thread, NEW p \in Priority, ThreadNew(t, p)
  PROVE  UNCHANGED Locks!lockVars
<1>1. mx' = [mx EXCEPT !.mutex_list[t] = NoMutex] /\ mx \in Mutexes
  BY DEF ThreadNew, Service, QueuesInv
<1>2. /\ mx'.id = mx.id /\ mx'.lock = mx.lock /\ mx'.owner_thread = mx.owner_thread
      /\ mx'.thread_list = mx.thread_list
  BY <1>1 DEF Mutexes
<1>3. SameView(mx, mx')
  BY <1>2 DEF SameView, SameAt
<1> QED
  BY <1>3, SameServes

LEMMA SetPriorityServes ==
  ASSUME QueuesInv, NEW t \in Thread, NEW p \in Priority, ThreadSetPriority(t, p)
  PROVE  UNCHANGED Locks!lockVars
<1> DEFINE m == [k EXCEPT !.priority[t] = p]
           l == [n \in Mutex |-> ListSort(m, mx.thread_list[n], t)]
           x == Requeue(k, m, mx, t)
<1>1. mx' = x /\ p \in Nat /\ k.priority[t] # p
  BY MutexAssumption DEF ThreadSetPriority, Service
<1>2. /\ mx \in Mutexes /\ Typed(k) /\ HasFields(mx)
      /\ Waiting(Mutex, MutexStates, k, mx.thread_list, AnyMutex)
  BY Waiters, MutexFields
<1>3. \A n \in Mutex : ToSet(l[n]) = ToSet(mx.thread_list[n])
  <2> SUFFICES ASSUME NEW n \in Mutex
               PROVE  ToSet(ListSort(m, mx.thread_list[n], t)) = ToSet(mx.thread_list[n])
    OBVIOUS
  <2>1. PICK w : w = mx.thread_list[n]
    OBVIOUS
  <2>2. w \in Seq(Thread) /\ Distinct(w) /\ Ascends(w, Urgency(k))
    BY <1>2, <2>1 DEF Waiting
  <2>3. ToSet(ListSort(m, w, t)) = ToSet(w)
    BY ONLY <1>1, <1>2, <2>2, t \in Thread, ListSortAscends
  <2> QED
    BY <2>1, <2>3
<1>4. SameLocks(mx, x)
  BY <1>2, RequeueLocks
<1>5. m.priority[t] # k.priority[t]
  BY <1>1, <1>2 DEF Typed
<1>6. x = [mx EXCEPT !.thread_list = l]
  <2> HIDE DEF m
  <2> QED
    BY <1>5 DEF Requeue
<1> HIDE DEF l, m, x
<1>7. x.thread_list = l
  BY <1>2, <1>6 DEF HasFields
<1>8. SameView(mx, mx')
  BY <1>1, <1>3, <1>4, <1>7 DEF SameLocks, SameView, SameAt
<1> QED
  BY <1>8, SameServes

---------------------------------------------------------------------------
\* The steps, each as one of the service

LEMMA MutexCallServes ==
  ASSUME QueuesInv, Linked(k, mx, {}), NEW m \in Mutex, MutexCall(m)
  PROVE  \/ Locks!Acquire(m) \/ Locks!AcquireAgain(m) \/ Locks!Wait(m)
         \/ Locks!Release(m) \/ Locks!Delete(m)
         \/ UNCHANGED Locks!lockVars
<1>1. CASE MutexNew(m)
  BY <1>1, NewServes
<1>2. CASE MutexDelete(m)
  BY <1>2, DeleteServes
<1>3. CASE MutexAcquireFree(m)
  BY <1>3, AcquireFreeServes
<1>4. CASE MutexAcquireAgain(m) \/ MutexReleaseOnce(m)
  BY <1>4, CountServes
<1>5. CASE \E timeout \in Timeout : MutexAcquireWait(m, timeout)
  BY <1>5, AcquireWaitServes
<1>6. CASE MutexRelease(m)
  BY <1>6, ReleaseServes
<1> QED
  BY <1>1, <1>2, <1>3, <1>4, <1>5, <1>6 DEF MutexCall

LEMMA ThreadCallServes ==
  ASSUME QueuesInv, Linked(k, mx, {}), NEW t \in Application, ThreadCall(t),
         "Abandon" \notin Habits
  PROVE  Locks!GiveUp(t) \/ Locks!End(t) \/ UNCHANGED Locks!lockVars
<1>1. t \in Thread
  BY DEF Application
<1>2. CASE \E p \in Priority : ThreadNew(t, p)
  BY <1>1, <1>2, ThreadNewServes
<1>3. CASE \E p \in Priority : ThreadSetPriority(t, p)
  BY <1>1, <1>3, SetPriorityServes
<1>4. CASE ThreadSuspend(t)
  <2>1. mx' = Leave(mx, t)
    BY <1>4 DEF ThreadSuspend, Service
  <2> QED
    BY <1>1, <2>1, SuspendServes
<1>5. CASE ThreadResume(t)
  <2>1. mx' = Leave(mx, t)
    BY <1>5 DEF ThreadResume, Service
  <2> QED
    BY <1>1, <2>1, SuspendServes
<1>6. CASE ThreadTerminate(t)
  BY <1>6, ThreadTerminateServes
<1> QED
  BY <1>2, <1>3, <1>4, <1>5, <1>6 DEF ThreadCall

LEMMA StepServes ==
  ASSUME LinksInv, TypeOK', Next, "Abandon" \notin Habits
  PROVE  Locks!Next
<1>0. QueuesInv /\ Linked(k, mx, {}) /\ k.curr \in Thread
  BY Waiters DEF LinksInv
<1>1. k'.curr \in Thread
  BY DEF TypeOK, Scheduler
<1> SUFFICES \/ \E m \in Mutex : \/ Locks!Acquire(m) \/ Locks!AcquireAgain(m)
                                 \/ Locks!Wait(m) \/ Locks!Release(m) \/ Locks!Delete(m)
             \/ \E t \in Thread : Locks!GiveUp(t) \/ Locks!End(t)
             \/ UNCHANGED Locks!lockVars
  BY <1>1 DEF Locks!Next
<1>2. CASE \E m \in Mutex : MutexCall(m)
  BY <1>0, <1>2, MutexCallServes
<1>3. CASE \E t \in Application : ThreadCall(t)
  <2>1. PICK t \in Application : ThreadCall(t)
    BY <1>3
  <2>2. t \in Thread
    BY DEF Application
  <2>3. Locks!GiveUp(t) \/ Locks!End(t) \/ UNCHANGED Locks!lockVars
    BY <1>0, <2>1, ThreadCallServes
  <2> QED
    BY <2>2, <2>3
<1>4. CASE ThreadExit
  BY <1>0, <1>4, ThreadExitServes
<1>5. CASE TickRelease
  BY <1>0, <1>5, TickReleaseServes
<1>6. CASE \/ \E ticks \in Timeout : Delay(ticks)
           \/ KernelLock \/ KernelUnlock \/ TickStart \/ TickEnd
  <2>1. mx' = mx
    BY <1>6 DEF Delay, KernelLock, KernelUnlock, TickStart, TickEnd, Service
  <2>2. SameView(mx, mx')
    BY <2>1 DEF SameView, SameAt
  <2> QED
    BY <2>2, SameServes
<1>7. \/ \E m \in Mutex : MutexCall(m)
      \/ \E t \in Application : ThreadCall(t)
      \/ ThreadExit \/ TickRelease
      \/ \/ \E ticks \in Timeout : Delay(ticks)
         \/ KernelLock \/ KernelUnlock \/ TickStart \/ TickEnd
  BY DEF Next
<1> QED
  BY ONLY <1>2, <1>3, <1>4, <1>5, <1>6, <1>7

LEMMA NextServes ==
  ASSUME LinksInv, TypeOK', [Next]_vars, "Abandon" \notin Habits
  PROVE  [Locks!Next]_<<k.curr, Locks!lockVars>>
<1>1. CASE Next
  BY <1>1, StepServes
<1>2. CASE UNCHANGED vars
  <2>1. mx' = mx /\ k' = k
    BY <1>2 DEF vars
  <2>2. SameView(mx, mx')
    BY <2>1 DEF SameView, SameAt
  <2>3. UNCHANGED Locks!lockVars
    BY <2>2, SameServes
  <2> QED
    BY <2>1, <2>3
<1> QED
  BY <1>1, <1>2

LEMMA InitServes ==
  ASSUME Init
  PROVE  Locks!Init
<1>1. k.curr \in Thread /\ \A m \in Mutex : mx.id[m] = FALSE
  BY MutexAssumption DEF Init
<1> QED
  BY <1>1 DEF Locks!Init
---------------------------------------------------------------------------
\* The theorems

\* The types, for every application.
THEOREM MutexTypes == Spec => []TypeOK
<1>1. QueuesInv => TypeOK
  BY QueuesInvSays
<1> QED
  BY <1>1, QueuesInvAlways, PTL

\* Whatever is acquired, released, deleted, ended, disturbed or timed out, a thread
\* blocked for a mutex is in the list of exactly one, a locked one.
THEOREM MutexWaitersListed == Spec => []WaitersListed
<1>1. QueuesInv => WaitersListed
  BY QueuesInvSays
<1> QED
  BY <1>1, QueuesInvAlways, PTL

\* Inheritance, its end and osThreadSetPriority keep every list in the order of the
\* priorities the threads have.
THEOREM MutexWaitersSorted == Spec => []WaitersSorted
<1>1. QueuesInv => WaitersSorted
  BY QueuesInvSays
<1> QED
  BY <1>1, QueuesInvAlways, PTL

\* Where the application does not lock the kernel, no ready thread outranks the one
\* that runs, whatever raised or lowered either of them.
THEOREM MutexHighestRuns ==
  ASSUME "Lock" \notin Habits
  PROVE  Spec => []HighestRuns
<1>1. QueuesInv => HighestRuns
  BY QueuesInvSays
<1> QED
  BY <1>1, QueuesInvAlways, PTL

\* Where nobody ends that owns a mutex that is not robust, the list of each live
\* thread holds exactly the mutexes it has locked, forwards and backwards, and the
\* lists of waiting threads are as they should be beside it.
THEOREM MutexListsLinked ==
  ASSUME "Abandon" \notin Habits
  PROVE  Spec => []ListsLinked
<1>1. LinksInv => ListsLinked
  BY LinksInvSays, QueuesInvSays DEF LinksInv, ListsLinked
<1> QED
  BY <1>1, LinksInvAlways, PTL

\* Where nobody waits while it owns another mutex, waiting threads and owners are
\* left alone, nobody ends with a mutex that is not robust and the kernel is not
\* locked, every thread has exactly the priority it is owed: the highest of its own
\* and those of the threads waiting for its priority inheriting mutexes.
THEOREM MutexInheritsExactly ==
  ASSUME Habits \subseteq {"Delete"}
  PROVE  Spec => []InheritsExactly
<1>1. ExactInv => InheritsExactly
  BY ExactInvSays
<1> QED
  BY <1>1, ExactInvAlways, PTL

\* Where nobody ends that owns a mutex that is not robust, the mutexes keep what they
\* promise: only its owner, running, releases one, and one that is released, or whose
\* owner ends, goes to a thread that waits for it if there is one.
THEOREM MutexesServe ==
  ASSUME "Abandon" \notin Habits
  PROVE  Spec => ImplementsService
<1>1. Init => Locks!Init
  BY InitServes
<1>2. LinksInv /\ TypeOK' /\ [Next]_vars => [Locks!Next]_<<k.curr, Locks!lockVars>>
  BY NextServes
<1> QED
  BY <1>1, <1>2, LinksInvAlways, MutexTypes, PTL DEF Spec, ImplementsService, Locks!Spec
===========================================================================
