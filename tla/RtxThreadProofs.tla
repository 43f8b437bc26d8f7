-------------------------- MODULE RtxThreadProofs --------------------------
(***************************************************************************)
(* Proofs about RtxThread, for any set of threads, priorities, timeouts    *)
(* and flags: the threads are in the lists their states say, the links of  *)
(* osThreadJoin are symmetric, no thread-flags wakeup is lost, nobody      *)
(* sleeps in osThreadJoin for a thread that is gone, the lists stay        *)
(* ordered, and the thread that runs is one of the highest priority: every *)
(* service, tick and interrupt that leaves the scheduler unlocked looks at *)
(* the head of the ready list, and only osKernelUnlock puts that off.      *)
(***************************************************************************)
EXTENDS RtxThread, RtxSchedulerProofs

Alive(t) == k.state[t] \notin {"Inactive", "Terminated"}

\* No thread joins itself: svcRtxThreadJoin refuses the running thread.
NoSelfJoin == \A t \in Thread : thread_join[t] # t

\* The links of osThreadJoin are part of the inductive invariant, for the exit
\* of a thread takes its joiner from the wait list without looking at its state.
IInv ==
  /\ Runs(k, {}) /\ k.curr = k.next
  /\ thread_join \in [Thread -> Thread \cup {NoThread}]
  /\ joins \in [Thread -> Thread \cup {NoThread}]
  /\ isr_queue \in Seq(Thread)
  /\ JoinLinked
  /\ NoSelfJoin

\* A step after which everything is in its place; the states of the threads
\* outside S change only for the processor.
Keeps(S) == Runs(k', {}) /\ k'.curr = k'.next /\ Frame(k, k', S)

---------------------------------------------------------------------------

LEMMA RunsOnePlace ==
  ASSUME Runs(k, {})
  PROVE  OnePlace
BY DEF Runs, Placed, OnePlace

\* The end of a service or of a handler.
LEMMA ReturnKeeps ==
  ASSUME NEW after, NEW S, Runs(after, {}), Frame(k, after, S), k' = Return(after)
  PROVE  Keeps(S) /\ k'.state = after.state
<1>1. /\ k'.state = after.state /\ k'.ready = after.ready
      /\ k'.delay_list = after.delay_list /\ k'.wait_list = after.wait_list
      /\ k'.delay = after.delay /\ k'.next = after.next /\ k'.curr = after.next
      /\ after.next \in Thread
  BY DEF Return, Runs, Typed
<1>2. Typed(k')
  BY <1>1 DEF Return, Runs, Typed
<1> QED BY <1>1, <1>2 DEF Keeps, Runs, Placed, Frame

\* Nothing but the processor, or the state of threads that neither join nor
\* are dead.
LEMMA JoinLinksKept ==
  ASSUME IInv, NEW S \in SUBSET Thread, Frame(k, k', S),
         \A u \in S : Alive(u) /\ k.state[u] # "WaitingJoin",
         UNCHANGED <<thread_join, joins>>
  PROVE  JoinLinked' /\ NoSelfJoin'
<1>1. NoSelfJoin'
  BY DEF IInv, NoSelfJoin
<1>2. JoinLinked'
  <2> SUFFICES ASSUME NEW t \in Thread,
                      k'.state[t] \notin {"Inactive", "Terminated"},
                      thread_join[t] # NoThread
               PROVE  /\ k'.state[thread_join[t]] = "WaitingJoin"
                      /\ joins[thread_join[t]] = t
    BY DEF JoinLinked
  <2>1. Alive(t)
    BY DEF Frame, Alive
  <2> DEFINE u == thread_join[t]
  <2>2. u \in Thread /\ k.state[u] = "WaitingJoin" /\ joins[u] = t
    BY <2>1 DEF IInv, JoinLinked, Alive
  <2> HIDE DEF u
  <2>3. k'.state[u] = "WaitingJoin"
    BY <2>2 DEF Frame
  <2> QED BY <2>2, <2>3 DEF u
<1> QED BY <1>1, <1>2

LEMMA KeepsIInv ==
  ASSUME IInv, NEW S \in SUBSET Thread, Keeps(S),
         \A u \in S : Alive(u) /\ k.state[u] # "WaitingJoin",
         UNCHANGED <<thread_join, joins>>, isr_queue' \in Seq(Thread)
  PROVE  IInv'
BY JoinLinksKept DEF IInv, Keeps

---------------------------------------------------------------------------
\* Services that leave the joins alone

LEMMA ServiceEndKeeps ==
  ASSUME IInv, NEW after, NEW S \in SUBSET Thread, ServiceEnd(after),
         Runs(after, {}), Frame(k, after, S),
         \A u \in S : Alive(u) /\ k.state[u] # "WaitingJoin",
         UNCHANGED <<thread_join, joins>>
  PROVE  IInv' /\ Keeps(S) /\ k'.state = after.state
<1>1. Keeps(S) /\ k'.state = after.state
  BY ReturnKeeps DEF ServiceEnd
<1>2. isr_queue' \in Seq(Thread)
  BY DEF ServiceEnd, IInv
<1> QED BY <1>1, <1>2, KeepsIInv

LEMMA ServiceKeeps ==
  ASSUME IInv, NEW after, NEW S \in SUBSET Thread, Service(after),
         Runs(after, {}), Frame(k, after, S),
         \A u \in S : Alive(u) /\ k.state[u] # "WaitingJoin",
         UNCHANGED <<thread_join, joins>>
  PROVE  IInv' /\ Keeps(S) /\ k'.state = after.state
BY ServiceEndKeeps DEF Service

\* Only flags, or the lock of the scheduler.
LEMMA IdleServiceKeeps ==
  ASSUME IInv, ServiceEnd(k), UNCHANGED <<thread_join, joins>>
  PROVE  IInv' /\ Keeps({})
<1>1. Runs(k, {}) /\ Frame(k, k, {})
  BY DEF IInv, Frame
<1> QED BY <1>1, ServiceEndKeeps

LEMMA LockKeeps ==
  ASSUME IInv, KernelLock \/ KernelUnlock
  PROVE  IInv' /\ Keeps({})
<1>1. PICK s \in {"Running", "Locked"} :
        /\ Service([k EXCEPT !.kernel = s])
        /\ UNCHANGED <<thread_join, joins>>
  BY DEF KernelLock, KernelUnlock, joinVars
<1> DEFINE m == [k EXCEPT !.kernel = s]
<1>2. /\ m.state = k.state /\ m.ready = k.ready /\ m.delay = k.delay
      /\ m.delay_list = k.delay_list /\ m.wait_list = k.wait_list /\ m.next = k.next
  BY DEF IInv, Runs, Typed
<1>3. Typed(m)
  BY DEF IInv, Runs, Typed
<1>4. Service(m)
  BY <1>1
<1> HIDE DEF m
<1>5. Runs(m, {}) /\ Frame(k, m, {})
  BY <1>2, <1>3 DEF IInv, Runs, Placed, Frame
<1> QED BY <1>1, <1>4, <1>5, ServiceKeeps

LEMMA SetPriorityKeeps ==
  ASSUME IInv, NEW t \in Thread, NEW p \in Priority, ThreadSetPriority(t, p)
  PROVE  IInv' /\ Keeps({})
<1> DEFINE r == SetPriority(k, t, p)
<1>1. Service(r) /\ UNCHANGED <<thread_join, joins>>
  BY DEF ThreadSetPriority, joinVars
<1>2. p \in Nat /\ Runs(k, {}) /\ k.curr = k.next
  BY ThreadAssumption DEF IInv
<1>3. Runs(r, {}) /\ Frame(k, r, {})
  BY <1>2, SetPriorityRuns
<1> HIDE DEF r
<1> QED BY <1>1, <1>3, ServiceKeeps

LEMMA YieldKeeps ==
  ASSUME IInv, ThreadYield
  PROVE  IInv' /\ Keeps({})
<1> DEFINE r == Yield(k)
<1>1. Service(r) /\ UNCHANGED <<thread_join, joins>>
  BY DEF ThreadYield, joinVars
<1>2. Runs(r, {}) /\ Frame(k, r, {})
  BY YieldRuns DEF IInv
<1> HIDE DEF r
<1> QED BY <1>1, <1>2, ServiceKeeps

LEMMA SuspendKeeps ==
  ASSUME IInv, SparesJoiners, NEW t \in Thread, ThreadSuspend(t)
  PROVE  IInv' /\ Keeps({t}) /\ k'.state[t] = "Blocked"
<1> DEFINE r == Suspend(k, t)
           V == {t}
<1>1. /\ Service(r) /\ UNCHANGED <<thread_join, joins>>
      /\ Stoppable(k, t) /\ k.state[t] # "WaitingJoin"
  BY DEF ThreadSuspend, joinVars
<1>2. Runs(r, {}) /\ Frame(k, r, V) /\ r.state[t] = "Blocked"
  BY <1>1, SuspendRuns DEF IInv
<1>3. \A u \in V : Alive(u) /\ k.state[u] # "WaitingJoin"
  BY <1>1 DEF Stoppable, Alive, BlockedStates, WaitStates
<1>4. V \in SUBSET Thread
  OBVIOUS
<1> HIDE DEF r, V
<1>5. IInv' /\ Keeps(V) /\ k'.state = r.state
  BY <1>1, <1>2, <1>3, <1>4, ServiceKeeps
<1> QED BY <1>2, <1>5 DEF V

LEMMA ResumeKeeps ==
  ASSUME IInv, SparesJoiners, NEW t \in Thread, ThreadResume(t)
  PROVE  IInv' /\ Keeps({t}) /\ k'.state[t] \in {"Ready", "Running"}
<1> DEFINE r == Resume(k, t)
           V == {t}
<1>1. /\ Service(r) /\ UNCHANGED <<thread_join, joins>>
      /\ k.state[t] \in BlockedStates /\ k.state[t] # "WaitingJoin"
  BY DEF ThreadResume, joinVars
<1>2. Runs(r, {}) /\ Frame(k, r, V) /\ r.state[t] \in {"Ready", "Running"}
  BY <1>1, ResumeRuns DEF IInv
<1>3. \A u \in V : Alive(u) /\ k.state[u] # "WaitingJoin"
  BY <1>1 DEF Alive, BlockedStates, WaitStates
<1>4. V \in SUBSET Thread
  OBVIOUS
<1> HIDE DEF r, V
<1>5. IInv' /\ Keeps(V) /\ k'.state = r.state
  BY <1>1, <1>2, <1>3, <1>4, ServiceKeeps
<1> QED BY <1>2, <1>5 DEF V

\* The running thread blocks in a wait that is not osThreadJoin.
LEMMA WaitKeeps ==
  ASSUME IInv, NEW s \in WaitStates \ {"WaitingJoin"}, NEW timeout \in Timeout,
         CanSwitch(k), ServiceEnd(WaitEnter(k, s, timeout)),
         UNCHANGED <<thread_join, joins>>
  PROVE  IInv' /\ Keeps({k.curr}) /\ k'.state[k.curr] = s
<1> DEFINE r == WaitEnter(k, s, timeout)
           V == {k.curr}
<1>1. /\ Runs(k, {}) /\ k.curr = k.next /\ k.ready # <<>>
      /\ s \in BlockedStates /\ s # "WaitingJoin" /\ timeout \in Int \cup {Forever}
  BY ThreadAssumption DEF IInv, CanSwitch, BlockedStates
<1>2. Runs(r, {}) /\ Frame(k, r, V) /\ r.state[k.curr] = s
  BY <1>1, WaitEnterRuns
<1>3. \A u \in V : Alive(u) /\ k.state[u] # "WaitingJoin"
  BY <1>1 DEF Alive, Runs
<1>4. V \in SUBSET Thread
  BY DEF IInv, Runs, Typed
<1>5. ServiceEnd(r)
  OBVIOUS
<1> HIDE DEF r, V
<1>6. IInv' /\ Keeps(V) /\ k'.state = r.state
  BY <1>2, <1>3, <1>4, <1>5, ServiceEndKeeps
<1> QED BY <1>2, <1>6 DEF V

---------------------------------------------------------------------------
\* Creation, join and termination

LEMMA ThreadNewKeeps ==
  ASSUME IInv, NEW t \in Thread, NEW p \in Priority, NEW j \in Joinability,
         ThreadNew(t, p, j)
  PROVE  IInv' /\ Keeps({t}) /\ k'.state[t] \in {"Ready", "Running"}
<1> DEFINE r == DispatchThread(Begun(k, t, p), t)
<1>1. /\ k.state[t] = "Inactive" /\ Service(r)
      /\ thread_join' = [thread_join EXCEPT ![t] = NoThread]
      /\ joins' = [joins EXCEPT ![t] = NoThread]
  BY DEF ThreadNew, Exists, Begun
<1>2. Runs(k, {}) /\ k.curr = k.next /\ p \in Nat
  BY ThreadAssumption DEF IInv
<1>3. Runs(r, {}) /\ Frame(k, r, {t}) /\ r.state[t] \in {"Ready", "Running"}
  BY <1>1, <1>2, NewThreadRuns
<1> HIDE DEF r
<1>4. Keeps({t}) /\ k'.state = r.state
  BY <1>1, <1>3, ReturnKeeps DEF Service, ServiceEnd
<1>5. JoinLinked'
  <2> SUFFICES ASSUME NEW x \in Thread,
                      k'.state[x] \notin {"Inactive", "Terminated"},
                      thread_join'[x] # NoThread
               PROVE  /\ k'.state[thread_join'[x]] = "WaitingJoin"
                      /\ joins'[thread_join'[x]] = x
    BY DEF JoinLinked
  <2>1. x # t /\ thread_join'[x] = thread_join[x] /\ Alive(x)
    BY <1>1, <1>4 DEF IInv, Keeps, Frame, Alive
  <2> DEFINE u == thread_join[x]
  <2>2. u \in Thread /\ k.state[u] = "WaitingJoin" /\ joins[u] = x
    BY <2>1 DEF IInv, JoinLinked, Alive
  <2> HIDE DEF u
  <2>3. u # t /\ k'.state[u] = "WaitingJoin" /\ joins'[u] = x
    BY <1>1, <1>4, <2>2 DEF Keeps, Frame, IInv
  <2> QED BY <2>1, <2>3 DEF u
<1>6. NoSelfJoin' /\ thread_join' \in [Thread -> Thread \cup {NoThread}]
       /\ joins' \in [Thread -> Thread \cup {NoThread}]
  BY <1>1, SchedulerAssumption DEF IInv, NoSelfJoin
<1>7. isr_queue' \in Seq(Thread)
  BY <1>1 DEF Service, ServiceEnd, IInv
<1> QED BY <1>3, <1>4, <1>5, <1>6, <1>7 DEF IInv, Keeps

\* A terminated thread is freed, by osThreadJoin or osThreadDetach.
LEMMA FreeKeeps ==
  ASSUME IInv, NEW t \in Thread, k.state[t] = "Terminated",
         Service([k EXCEPT !.state[t] = "Inactive"]),
         UNCHANGED <<thread_join, joins>>
  PROVE  IInv' /\ Keeps({t}) /\ k'.state[t] = "Inactive"
<1> DEFINE r == [k EXCEPT !.state[t] = "Inactive"]
           V == {} \cup {t}
<1>1. V = {t} /\ t \in V /\ V \ {t} = {} /\ k.state \in [Thread -> ThreadState]
  BY DEF IInv, Runs, Typed
<1>2. Placed(k, V)
  <2>1. Placed(k, {}) /\ k.state[t] \notin BlockedStates \cup {"Ready"}
    BY DEF IInv, Runs, BlockedStates, WaitStates
  <2> QED BY <2>1, Lift
<1> HIDE DEF V
<1>3. /\ Typed(r) /\ Placed(r, V) /\ SameRun(k, r)
      /\ r.state = [k.state EXCEPT ![t] = "Inactive"]
  <2>1. Typed(k) /\ "Inactive" \in ThreadState
    BY DEF IInv, Runs, ThreadState
  <2> QED BY <1>1, <1>2, <2>1, Recast
<1>4. Service(r)
  OBVIOUS
<1> HIDE DEF r
<1>5. Placed(r, V \ {t})
  <2>1. r.state[t] = "Inactive" /\ r.state[t] \notin BlockedStates \cup {"Ready", "Running"}
    BY <1>1, <1>3 DEF BlockedStates, WaitStates
  <2> QED BY <1>1, <1>3, <2>1, Land
<1>6. Runs(r, {}) /\ Frame(k, r, {t}) /\ r.state[t] = "Inactive"
  <2>1. k.next # t /\ k.state[k.next] = "Running" /\ k.next \in Thread
    BY DEF IInv, Runs, Typed
  <2>2. r.next = k.next /\ r.state[t] = "Inactive"
        /\ \A u \in Thread : u # t => r.state[u] = k.state[u]
    BY <1>1, <1>3 DEF SameRun
  <2>3. Frame(k, r, {t})
    BY <2>2 DEF Frame
  <2> QED BY <1>1, <1>3, <1>5, <2>1, <2>2, <2>3 DEF Runs
<1>7. Keeps({t}) /\ k'.state = r.state
  BY <1>4, <1>6, ReturnKeeps DEF Service, ServiceEnd
<1>8. JoinLinked'
  BY <1>6, <1>7 DEF JoinLinked, IInv, Keeps, Frame
<1>9. isr_queue' \in Seq(Thread)
  BY DEF Service, ServiceEnd, IInv
<1> QED BY <1>6, <1>7, <1>8, <1>9 DEF IInv, Keeps, NoSelfJoin

LEMMA JoinWaitKeeps ==
  ASSUME IInv, NEW t \in Thread, ThreadJoinWait(t)
  PROVE  IInv' /\ Keeps({k.curr}) /\ k'.state[k.curr] = "WaitingJoin"
<1> DEFINE c == k.curr
           r == WaitEnter(k, "WaitingJoin", Forever)
<1>1. /\ CanSwitch(k) /\ Service(r) /\ k.state[t] # "Running"
      /\ joins' = [joins EXCEPT ![c] = t]
      /\ thread_join' = [thread_join EXCEPT ![t] = c]
  BY DEF ThreadJoinWait
<1>2. Runs(r, {}) /\ Frame(k, r, {c}) /\ r.state[c] = "WaitingJoin"
  <2>1. /\ Runs(k, {}) /\ k.curr = k.next /\ k.ready # <<>>
        /\ "WaitingJoin" \in BlockedStates
    BY <1>1 DEF IInv, CanSwitch, BlockedStates, WaitStates
  <2> QED BY <2>1, WaitEnterRuns
<1> HIDE DEF r
<1>3. c \in Thread /\ k.state[c] = "Running" /\ t # c
  BY <1>1 DEF IInv, Runs, Typed
<1> HIDE DEF c
<1>4. Keeps({c}) /\ k'.state = r.state
  BY <1>1, <1>2, ReturnKeeps DEF Service, ServiceEnd
<1>5. JoinLinked'
  <2> SUFFICES ASSUME NEW x \in Thread,
                      k'.state[x] \notin {"Inactive", "Terminated"},
                      thread_join'[x] # NoThread
               PROVE  /\ k'.state[thread_join'[x]] = "WaitingJoin"
                      /\ joins'[thread_join'[x]] = x
    BY DEF JoinLinked
  <2>1. CASE x = t
    BY <1>1, <1>2, <1>3, <1>4, <2>1 DEF IInv
  <2>2. CASE x # t
    <3>1. thread_join'[x] = thread_join[x] /\ Alive(x)
      BY <1>1, <1>3, <1>4, <2>2 DEF IInv, Keeps, Frame, Alive
    <3> DEFINE u == thread_join[x]
    <3>2. u \in Thread /\ k.state[u] = "WaitingJoin" /\ joins[u] = x
      BY <3>1 DEF IInv, JoinLinked, Alive
    <3> HIDE DEF u
    <3>3. u # c /\ k'.state[u] = "WaitingJoin" /\ joins'[u] = x
      BY <1>1, <1>3, <1>4, <3>2 DEF Keeps, Frame, IInv
    <3> QED BY <3>1, <3>3 DEF u
  <2> QED BY <2>1, <2>2
<1>6. /\ NoSelfJoin' /\ thread_join' \in [Thread -> Thread \cup {NoThread}]
      /\ joins' \in [Thread -> Thread \cup {NoThread}]
  BY <1>1, <1>3 DEF IInv, NoSelfJoin
<1>7. isr_queue' \in Seq(Thread)
  BY <1>1 DEF Service, ServiceEnd, IInv
<1> QED BY <1>2, <1>4, <1>5, <1>6, <1>7 DEF IInv, Keeps, c

\* osRtxThreadDestroy: the last station of a thread in no list.
LEMMA DestroyRuns ==
  ASSUME NEW s, NEW t \in Thread, NEW V, V = {t}, Runs(s, V)
  PROVE  LET r == Destroy(s, t)
         IN  /\ Runs(r, {}) /\ Frame(s, r, {t})
             /\ r.state[t] \in {"Inactive", "Terminated"}
<1> DEFINE g == IF joinable[t] THEN "Terminated" ELSE "Inactive"
           r == [s EXCEPT !.state[t] = g]
<1>1. t \in V /\ V \ {t} = {} /\ s.state \in [Thread -> ThreadState] /\ s.next # t
  BY DEF Runs, Typed
<1>2. Destroy(s, t) = r
  BY DEF Destroy
<1>3. g \in {"Inactive", "Terminated"} /\ g \in ThreadState
  BY DEF ThreadState
<1> HIDE DEF g
<1>4. /\ Typed(r) /\ Placed(r, V) /\ SameRun(s, r)
      /\ r.state = [s.state EXCEPT ![t] = g]
  <2>1. Typed(s) /\ Placed(s, V)
    BY DEF Runs
  <2> QED BY <1>1, <1>3, <2>1, Recast
<1> HIDE DEF r
<1>5. r.state[t] = g /\ \A u \in Thread : u # t => r.state[u] = s.state[u]
  BY <1>1, <1>4
<1>6. Placed(r, V \ {t})
  <2>1. r.state[t] \notin BlockedStates \cup {"Ready", "Running"}
    BY <1>3, <1>5 DEF BlockedStates, WaitStates
  <2> QED BY <1>1, <1>4, <2>1, Land
<1>7. r.next \in Thread /\ r.next # t /\ r.state[r.next] = "Running"
  BY <1>1, <1>4, <1>5 DEF Runs, SameRun, Typed
<1>8. Frame(s, r, {t})
  BY <1>5 DEF Frame
<1> QED BY <1>1, <1>2, <1>3, <1>4, <1>5, <1>6, <1>7, <1>8 DEF Runs

\* osRtxThreadJoinWakeup while t is on its way: a thread recorded as waiting
\* for t does wait for it, and becomes ready.
LEMMA JoinWakeupPlaced ==
  ASSUME IInv, NEW s, NEW t \in Thread, Alive(t), NEW V, V = {t},
         Typed(s), Placed(s, V), s.state = k.state, s.next = k.next, s.curr = k.curr
  PROVE  LET r == JoinWakeup(s, t)
         IN  /\ Typed(r) /\ Placed(r, V) /\ SameRun(s, r)
             /\ Frame(k, r, {thread_join[t]})
             /\ r.state[t] = k.state[t] /\ r.state[k.next] = "Running"
             /\ thread_join[t] # NoThread => r.state[thread_join[t]] = "Ready"
             /\ ToSet(s.ready) \subseteq ToSet(r.ready)
<1>0. k.next \in Thread /\ k.state[k.next] = "Running" /\ k.state \in [Thread -> ThreadState]
  BY DEF IInv, Runs, Typed
<1>1. CASE thread_join[t] = NoThread
  BY <1>0, <1>1 DEF JoinWakeup, SameRun, Frame
<1>2. CASE thread_join[t] # NoThread
  <2> DEFINE u == thread_join[t]
             r == WaitExit(s, u)
  <2>1. u \in Thread /\ u # t /\ k.state[u] = "WaitingJoin"
    BY <1>2 DEF IInv, JoinLinked, NoSelfJoin, Alive
  <2> HIDE DEF u
  <2>2. u \notin V /\ s.state[u] \in BlockedStates
    BY <2>1 DEF BlockedStates, WaitStates
  <2>3. /\ Typed(r) /\ Placed(r, V) /\ SameRun(s, r)
        /\ r.state = [s.state EXCEPT ![u] = "Ready"]
        /\ ToSet(r.ready) = ToSet(s.ready) \cup {u}
    BY <2>1, <2>2, WaitExitPlaced
  <2>4. JoinWakeup(s, t) = r
    BY <1>2 DEF JoinWakeup, u
  <2> HIDE DEF r
  <2>5. /\ Frame(k, r, {u}) /\ r.state[t] = k.state[t] /\ r.state[k.next] = "Running"
        /\ r.state[u] = "Ready"
    BY <1>0, <2>1, <2>3 DEF Frame
  <2> QED BY <2>3, <2>4, <2>5 DEF u
<1> QED BY <1>1, <1>2

\* The links after t has died: its joiner and its own wait are forgotten.
LEMMA DeathLinks ==
  ASSUME IInv, NEW t \in Thread, Alive(t), LeaveJoin(t), UNCHANGED joins,
         k'.state[t] \in {"Inactive", "Terminated"},
         Frame(k, k', {t, thread_join[t]})
  PROVE  /\ JoinLinked' /\ NoSelfJoin'
         /\ thread_join' \in [Thread -> Thread \cup {NoThread}]
<1>1. /\ thread_join' \in [Thread -> Thread \cup {NoThread}]
      /\ \A x \in Thread : thread_join'[x] \in {thread_join[x], NoThread}
      /\ \A x \in Thread : k.state[t] = "WaitingJoin" /\ joins[t] = x =>
                             thread_join'[x] = NoThread
  BY DEF LeaveJoin, IInv
<1>2. NoSelfJoin'
  BY <1>1, SchedulerAssumption DEF NoSelfJoin, IInv
<1>3. JoinLinked'
  <2> SUFFICES ASSUME NEW x \in Thread,
                      k'.state[x] \notin {"Inactive", "Terminated"},
                      thread_join'[x] # NoThread
               PROVE  /\ k'.state[thread_join'[x]] = "WaitingJoin"
                      /\ joins[thread_join'[x]] = x
    BY DEF JoinLinked
  <2>1. x # t /\ thread_join'[x] = thread_join[x]
    BY <1>1
  <2>2. thread_join[t] # NoThread =>
          k.state[thread_join[t]] = "WaitingJoin" /\ joins[thread_join[t]] = t
    BY DEF IInv, JoinLinked, Alive
  <2>3. Alive(x)
    <3>1. CASE x = thread_join[t]
      BY <2>2, <3>1, SchedulerAssumption DEF Alive
    <3>2. CASE x # thread_join[t]
      BY <2>1, <3>2 DEF Frame, Alive
    <3> QED BY <3>1, <3>2
  <2> DEFINE w == thread_join[x]
  <2>4. w \in Thread /\ k.state[w] = "WaitingJoin" /\ joins[w] = x
    BY <2>1, <2>3 DEF IInv, JoinLinked, Alive
  <2>5. w # t
    BY <1>1, <2>1, <2>4
  <2>6. w # thread_join[t]
    BY <2>1, <2>2, <2>4, SchedulerAssumption
  <2> HIDE DEF w
  <2>7. k'.state[w] = "WaitingJoin"
    BY <2>4, <2>5, <2>6 DEF Frame
  <2> QED BY <2>1, <2>4, <2>7 DEF w
<1> QED BY <1>1, <1>2, <1>3

LEMMA ExitKeeps ==
  ASSUME IInv, ThreadExit
  PROVE  /\ IInv' /\ Keeps({k.curr, thread_join[k.curr]})
         /\ k'.state[k.curr] \in {"Inactive", "Terminated"}
         /\ thread_join[k.curr] \in Thread =>
              k'.state[thread_join[k.curr]] \in {"Ready", "Running"}
<1> DEFINE c == k.curr
           V == {} \cup {c}
           w == JoinWakeup(k, c)
           off == SwitchToReady(w)
           r == Destroy(off, c)
<1>1. CanSwitch(k) /\ Service(r) /\ LeaveJoin(c) /\ UNCHANGED joins
  BY DEF ThreadExit
<1>2. /\ c \in Thread /\ k.state[c] = "Running" /\ Alive(c) /\ c = k.next
      /\ Typed(k) /\ Placed(k, {})
  BY DEF IInv, Runs, Typed, Alive
<1>3. k.ready # <<>> /\ k.ready \in Seq(Thread)
  BY <1>1 DEF CanSwitch, IInv, Runs, Typed
<1> HIDE DEF c
<1>4. Placed(k, V) /\ V = {c} /\ c \in V
  BY <1>2, Lift DEF BlockedStates, WaitStates
<1> HIDE DEF V
<1>5. /\ Typed(w) /\ Placed(w, V) /\ SameRun(k, w) /\ Frame(k, w, {thread_join[c]})
      /\ thread_join[c] # NoThread => w.state[thread_join[c]] = "Ready"
      /\ w.state[c] = "Running" /\ ToSet(k.ready) \subseteq ToSet(w.ready)
  BY <1>2, <1>4, JoinWakeupPlaced
<1> HIDE DEF w
<1>6. w.ready # <<>>
  <2>1. k.ready[1] \in ToSet(k.ready)
    BY <1>3 DEF ToSet
  <2>2. ToSet(<<>>) = {}
    BY DEF ToSet
  <2> QED BY <1>5, <2>1, <2>2
<1>7. Runs(off, V) /\ Frame(w, off, {})
  <2>1. w.next \in V \/ w.state[w.next] # "Running"
    BY <1>2, <1>4, <1>5 DEF SameRun
  <2> QED BY <1>5, <1>6, <2>1, SwitchToReadyRuns
<1> HIDE DEF off
<1>8. Runs(r, {}) /\ Frame(off, r, {c}) /\ r.state[c] \in {"Inactive", "Terminated"}
  BY <1>2, <1>4, <1>7, DestroyRuns
<1> HIDE DEF r
<1>9. Frame(k, r, {c, thread_join[c]})
  BY <1>5, <1>7, <1>8 DEF Frame
<1>10. Keeps({c, thread_join[c]}) /\ k'.state = r.state
  BY <1>1, <1>8, <1>9, ReturnKeeps DEF Service, ServiceEnd
<1>11. JoinLinked' /\ NoSelfJoin' /\ thread_join' \in [Thread -> Thread \cup {NoThread}]
  BY <1>1, <1>2, <1>8, <1>10, DeathLinks DEF Keeps
<1>12. isr_queue' \in Seq(Thread)
  BY <1>1 DEF Service, ServiceEnd, IInv
<1>13. thread_join[c] \in Thread => k'.state[thread_join[c]] \in {"Ready", "Running"}
  <2>1. ASSUME thread_join[c] \in Thread
        PROVE  /\ thread_join[c] # c
               /\ w.state[thread_join[c]] = "Ready"
    BY <1>2, <1>5, <2>1, SchedulerAssumption DEF IInv, NoSelfJoin
  <2> QED BY <1>7, <1>8, <1>10, <2>1 DEF Frame
<1> QED BY <1>1, <1>8, <1>10, <1>11, <1>12, <1>13 DEF IInv, Keeps, c

LEMMA TerminateKeeps ==
  ASSUME IInv, NEW t \in Thread, ThreadTerminate(t)
  PROVE  /\ IInv' /\ Keeps({t, thread_join[t]})
         /\ k'.state[t] \in {"Inactive", "Terminated"}
         /\ thread_join[t] \in Thread =>
              k'.state[thread_join[t]] \in {"Ready", "Running"}
<1> DEFINE V == {t}
           u == Unlist(k, t)
           w == JoinWakeup(u, t)
           d == Dispatch(w)
           r == Destroy(d, t)
<1>1. /\ t # k.next /\ Stoppable(k, t) /\ Service(r) /\ LeaveJoin(t) /\ UNCHANGED joins
      /\ Runs(k, {}) /\ k.curr = k.next
  BY DEF ThreadTerminate, IInv
<1>2. Alive(t)
  BY <1>1 DEF Stoppable, Alive, BlockedStates, WaitStates
<1>3. Runs(u, V) /\ SameRun(k, u) /\ u.state = k.state
  BY <1>1, UnlistPlaced
<1> HIDE DEF u
<1>4. /\ Typed(w) /\ Placed(w, V) /\ SameRun(u, w) /\ Frame(k, w, {thread_join[t]})
      /\ w.state[k.next] = "Running"
      /\ thread_join[t] # NoThread => w.state[thread_join[t]] = "Ready"
  <2>1. Typed(u) /\ Placed(u, V) /\ u.next = k.next /\ u.curr = k.curr
    BY <1>3 DEF Runs, SameRun
  <2> QED BY <1>2, <1>3, <2>1, JoinWakeupPlaced
<1> HIDE DEF w
<1>5. Runs(w, V) /\ w.curr = w.next
  BY <1>1, <1>3, <1>4 DEF Runs, SameRun
<1>6. Runs(d, V) /\ Frame(w, d, {})
  <2> HIDE DEF V
  <2> QED BY <1>5, DispatchRuns
<1> HIDE DEF d
<1>7. Runs(r, {}) /\ Frame(d, r, {t}) /\ r.state[t] \in {"Inactive", "Terminated"}
  BY <1>6, DestroyRuns
<1> HIDE DEF r
<1>8. Frame(k, r, {t, thread_join[t]})
  BY <1>4, <1>6, <1>7 DEF Frame
<1>9. Keeps({t, thread_join[t]}) /\ k'.state = r.state
  BY <1>1, <1>7, <1>8, ReturnKeeps DEF Service, ServiceEnd
<1>10. JoinLinked' /\ NoSelfJoin' /\ thread_join' \in [Thread -> Thread \cup {NoThread}]
  BY <1>1, <1>2, <1>7, <1>9, DeathLinks DEF Keeps
<1>11. isr_queue' \in Seq(Thread)
  BY <1>1 DEF Service, ServiceEnd, IInv
<1>12. thread_join[t] \in Thread => k'.state[thread_join[t]] \in {"Ready", "Running"}
  <2>1. ASSUME thread_join[t] \in Thread
        PROVE  /\ thread_join[t] # t
               /\ w.state[thread_join[t]] = "Ready"
    BY <1>4, <2>1, SchedulerAssumption DEF IInv, NoSelfJoin
  <2> QED BY <1>6, <1>7, <1>9, <2>1 DEF Frame
<1> QED BY <1>1, <1>7, <1>9, <1>10, <1>11, <1>12 DEF IInv, Keeps

---------------------------------------------------------------------------
\* Thread flags and the handlers

LEMMA FlagsSetKeeps ==
  ASSUME IInv, NEW t \in Thread, NEW f, FlagsSet(t, f)
  PROVE  /\ IInv'
         /\ \/ /\ k.state[t] = "WaitingThreadFlags"
               /\ Satisfies(thread_flags[t] \cup f, wait[t])
               /\ Keeps({t}) /\ k'.state[t] \in {"Ready", "Running"}
            \/ /\ ~(/\ k.state[t] = "WaitingThreadFlags"
                    /\ Satisfies(thread_flags[t] \cup f, wait[t]))
               /\ Keeps({})
<1> DEFINE wakes == /\ k.state[t] = "WaitingThreadFlags"
                    /\ Satisfies(thread_flags[t] \cup f, wait[t])
<1>1. UNCHANGED <<thread_join, joins>>
  BY DEF FlagsSet, joinVars
<1>2. CASE ~wakes
  <2>1. ServiceEnd(k)
    BY <1>2 DEF FlagsSet, Service
  <2> QED BY <1>1, <1>2, <2>1, IdleServiceKeeps
<1>3. CASE wakes
  <2> DEFINE r == WaitExitDispatch(k, t)
             V == {t}
  <2>1. Service(r)
    BY <1>3 DEF FlagsSet
  <2>2. Runs(r, {}) /\ Frame(k, r, V) /\ r.state[t] \in {"Ready", "Running"}
    <3>1. k.state[t] \in BlockedStates /\ Runs(k, {}) /\ k.curr = k.next
      BY <1>3 DEF IInv, BlockedStates, WaitStates
    <3> QED BY <3>1, ResumeRuns
  <2>3. /\ \A u \in V : Alive(u) /\ k.state[u] # "WaitingJoin"
        /\ V \in SUBSET Thread
    BY <1>3 DEF Alive
  <2> HIDE DEF r, V
  <2>4. IInv' /\ Keeps(V) /\ k'.state = r.state
    BY <1>1, <2>1, <2>2, <2>3, ServiceKeeps
  <2> QED BY <1>3, <2>2, <2>4 DEF V
<1> QED BY <1>2, <1>3

LEMMA FlagsWaitEnterKeeps ==
  ASSUME IInv, NEW timeout \in Timeout, FlagsWaitEnter(timeout)
  PROVE  /\ IInv'
         /\ \/ Keeps({k.curr}) /\ k'.state[k.curr] = "WaitingThreadFlags"
            \/ Keeps({})
<1>1. UNCHANGED <<thread_join, joins>>
  BY DEF FlagsWaitEnter, joinVars
<1>2. CASE CanSwitch(k)
  <2>1. ServiceEnd(WaitEnter(k, "WaitingThreadFlags", timeout))
    BY <1>2 DEF FlagsWaitEnter
  <2>2. "WaitingThreadFlags" \in WaitStates \ {"WaitingJoin"}
    BY DEF WaitStates
  <2> QED BY <1>1, <1>2, <2>1, <2>2, WaitKeeps
<1>3. CASE ~CanSwitch(k)
  <2>1. ServiceEnd(k)
    BY <1>3 DEF FlagsWaitEnter
  <2> QED BY <1>1, <2>1, IdleServiceKeeps
<1> QED BY <1>2, <1>3

\* A step of a handler that does not end it.
LEMMA HandlerKeeps ==
  ASSUME IInv, NEW S \in SUBSET Thread, Runs(k', {}), SameRun(k, k'), Frame(k, k', S),
         \A u \in S : Alive(u) /\ k.state[u] # "WaitingJoin",
         UNCHANGED <<thread_join, joins>>, isr_queue' \in Seq(Thread)
  PROVE  IInv' /\ Keeps(S)
<1>1. Keeps(S)
  BY DEF Keeps, SameRun, IInv
<1> QED BY <1>1, KeepsIInv

LEMMA StandsKeeps ==
  ASSUME IInv, UNCHANGED <<k, thread_join, joins>>, isr_queue' \in Seq(Thread)
  PROVE  IInv' /\ Keeps({})
<1>1. Runs(k', {}) /\ SameRun(k, k') /\ Frame(k, k', {})
  BY DEF IInv, SameRun, Frame
<1> QED BY <1>1, HandlerKeeps

LEMMA PendSVThreadKeeps ==
  ASSUME IInv, PendSVThread
  PROVE  LET t == Head(isr_queue)
         IN  /\ IInv' /\ t \in Thread
             /\ \/ /\ k.state[t] = "WaitingThreadFlags"
                   /\ Satisfies(thread_flags[t], wait[t])
                   /\ Keeps({t}) /\ k'.state[t] = "Ready"
                \/ /\ ~(/\ k.state[t] = "WaitingThreadFlags"
                        /\ Satisfies(thread_flags[t], wait[t]))
                   /\ Keeps({})
<1> DEFINE t == Head(isr_queue)
           wakes == k.state[t] = "WaitingThreadFlags" /\ Satisfies(thread_flags[t], wait[t])
<1>1. /\ t \in Thread /\ isr_queue' \in Seq(Thread)
      /\ UNCHANGED <<thread_join, joins>>
  BY HeadTailProperties DEF PendSVThread, IInv, joinVars
<1>2. CASE ~wakes
  <2>1. UNCHANGED k
    BY <1>2 DEF PendSVThread
  <2> QED BY <1>1, <1>2, <2>1, StandsKeeps
<1>3. CASE wakes
  <2>1. k' = WaitExit(k, t)
    BY <1>3 DEF PendSVThread
  <2> HIDE DEF t
  <2> DEFINE r == WaitExit(k, t)
             V == {t}
  <2>2. /\ Typed(r) /\ Placed(r, {}) /\ SameRun(k, r)
        /\ r.state = [k.state EXCEPT ![t] = "Ready"]
    <3>1. k.state[t] \in BlockedStates /\ Typed(k) /\ Placed(k, {}) /\ t \notin {}
      BY <1>3 DEF IInv, Runs, BlockedStates, WaitStates
    <3> QED BY <1>1, <3>1, WaitExitPlaced
  <2> HIDE DEF r
  <2>3. /\ k.next \in Thread /\ k.state[k.next] = "Running"
        /\ k.state \in [Thread -> ThreadState] /\ k.next # t
    BY <1>3 DEF IInv, Runs, Typed
  <2>4. r.state[t] = "Ready" /\ \A u \in Thread : u # t => r.state[u] = k.state[u]
    BY <1>1, <2>2, <2>3
  <2>5. Runs(r, {}) /\ Frame(k, r, V)
    BY <2>2, <2>3, <2>4 DEF Runs, SameRun, Frame
  <2>6. /\ \A u \in V : Alive(u) /\ k.state[u] # "WaitingJoin"
        /\ V \in SUBSET Thread
    BY <1>1, <1>3 DEF Alive
  <2> HIDE DEF V
  <2>7. IInv' /\ Keeps(V)
    BY <1>1, <2>1, <2>2, <2>5, <2>6, HandlerKeeps DEF r
  <2> QED BY <1>1, <1>3, <2>1, <2>4, <2>7 DEF V, r, t
<1> QED BY <1>2, <1>3

LEMMA PendSVEndKeeps ==
  ASSUME IInv, PendSVEnd
  PROVE  IInv' /\ Keeps({})
<1> DEFINE r == Dispatch(k)
<1>1. k' = Return(r) /\ UNCHANGED <<thread_join, joins, isr_queue>>
  BY DEF PendSVEnd, joinVars
<1>2. Runs(r, {}) /\ Frame(k, r, {})
  BY DispatchRuns DEF IInv
<1> HIDE DEF r
<1>3. Keeps({})
  BY <1>1, <1>2, ReturnKeeps
<1>4. isr_queue' \in Seq(Thread)
  BY <1>1 DEF IInv
<1> QED BY <1>1, <1>3, <1>4, KeepsIInv

LEMMA TickStartKeeps ==
  ASSUME IInv, TickStart
  PROVE  IInv' /\ Keeps({})
<1> DEFINE r == CountDown(k)
<1>1. k' = r /\ UNCHANGED <<thread_join, joins, isr_queue>>
  BY DEF TickStart, joinVars
<1>2. Runs(r, {}) /\ SameRun(k, r) /\ r.state = k.state
  BY CountDownRuns DEF IInv
<1> HIDE DEF r
<1>3. Frame(k, r, {}) /\ isr_queue' \in Seq(Thread)
  BY <1>1, <1>2 DEF Frame, IInv
<1> QED BY <1>1, <1>2, <1>3, HandlerKeeps

LEMMA TickReleaseKeeps ==
  ASSUME IInv, TickRelease
  PROVE  LET h == Head(k.delay_list)
         IN  IInv' /\ h \in Thread /\ Keeps({h}) /\ k'.state[h] = "Ready"
<1> DEFINE r == ReleaseHead(k)
           h == Head(k.delay_list)
           V == {h}
<1>1. k' = r /\ UNCHANGED <<thread_join, joins, isr_queue>> /\ k.delay_list # <<>>
  BY DEF TickRelease, joinVars, Expired
<1>2. /\ Runs(r, {}) /\ SameRun(k, r)
      /\ h \in Thread /\ k.state[h] \in BlockedStates \ {"WaitingJoin"}
      /\ r.state = [k.state EXCEPT ![h] = "Ready"]
  BY <1>1, ReleaseHeadRuns DEF IInv
<1> HIDE DEF r, h
<1>3. r.state[h] = "Ready" /\ \A u \in Thread : u # h => r.state[u] = k.state[u]
  BY <1>2 DEF IInv, Runs, Typed
<1>4. Frame(k, r, V) /\ V \in SUBSET Thread
  BY <1>2, <1>3 DEF Frame
<1>5. \A u \in V : Alive(u) /\ k.state[u] # "WaitingJoin"
  BY <1>2 DEF Alive, BlockedStates, WaitStates
<1> HIDE DEF V
<1>6. IInv' /\ Keeps(V)
  <2>1. isr_queue' \in Seq(Thread)
    BY <1>1 DEF IInv
  <2> QED BY <1>1, <1>2, <1>4, <1>5, <2>1, HandlerKeeps
<1> QED BY <1>1, <1>2, <1>3, <1>6 DEF V, h

LEMMA TickEndKeeps ==
  ASSUME IInv, TickEnd
  PROVE  IInv' /\ Keeps({})
<1> DEFINE d == Dispatch(k)
           r == RoundRobin(d)
<1>1. k' = Return(r) /\ UNCHANGED <<thread_join, joins, isr_queue>>
  BY DEF TickEnd, joinVars
<1>2. Runs(d, {}) /\ Frame(k, d, {})
  BY DispatchRuns DEF IInv
<1> HIDE DEF d
<1>3. Runs(r, {}) /\ Frame(d, r, {})
  BY <1>2, RoundRobinRuns
<1> HIDE DEF r
<1>4. Frame(k, r, {})
  BY <1>2, <1>3 DEF Frame
<1>5. Keeps({})
  BY <1>1, <1>3, <1>4, ReturnKeeps
<1>6. isr_queue' \in Seq(Thread)
  BY <1>1 DEF IInv
<1> QED BY <1>1, <1>5, <1>6, KeepsIInv

LEMMA DetachKeeps ==
  ASSUME IInv, NEW t \in Thread, ThreadDetach(t)
  PROVE  /\ IInv'
         /\ \/ Keeps({t}) /\ k'.state[t] = "Inactive"
            \/ Keeps({})
<1>1. UNCHANGED <<thread_join, joins>>
  BY DEF ThreadDetach
<1>2. CASE k.state[t] = "Terminated"
  <2>1. Service([k EXCEPT !.state[t] = "Inactive"])
    BY <1>2 DEF ThreadDetach
  <2> QED BY <1>1, <1>2, <2>1, FreeKeeps
<1>3. CASE k.state[t] # "Terminated"
  <2>1. ServiceEnd(k)
    BY <1>3 DEF ThreadDetach, Service
  <2> QED BY <1>1, <2>1, IdleServiceKeeps
<1> QED BY <1>2, <1>3

LEMMA JoinTerminatedKeeps ==
  ASSUME IInv, NEW t \in Thread, ThreadJoinTerminated(t)
  PROVE  IInv' /\ Keeps({t}) /\ k'.state[t] = "Inactive"
<1>1. /\ Service([k EXCEPT !.state[t] = "Inactive"]) /\ k.state[t] = "Terminated"
      /\ UNCHANGED <<thread_join, joins>>
  BY DEF ThreadJoinTerminated, joinVars
<1> QED BY <1>1, FreeKeeps

LEMMA DelayKeeps ==
  ASSUME IInv, NEW ticks \in Timeout, Delay(ticks)
  PROVE  IInv' /\ Keeps({k.curr}) /\ k'.state[k.curr] = "WaitingDelay"
<1>1. /\ CanSwitch(k) /\ ServiceEnd(WaitEnter(k, "WaitingDelay", ticks))
      /\ UNCHANGED <<thread_join, joins>>
  BY DEF Delay, Service, joinVars
<1>2. "WaitingDelay" \in WaitStates \ {"WaitingJoin"}
  BY DEF WaitStates
<1> QED BY <1>1, <1>2, WaitKeeps

LEMMA IsrFlagsSetKeeps ==
  ASSUME IInv, NEW t \in IsrTarget, NEW f, IsrFlagsSet(t, f)
  PROVE  IInv' /\ Keeps({})
<1>1. t \in Thread /\ isr_queue \in Seq(Thread)
  BY ThreadAssumption DEF IInv
<1>2. isr_queue' \in Seq(Thread) /\ UNCHANGED <<k, thread_join, joins>>
  BY <1>1, AppendProperties DEF IsrFlagsSet, joinVars
<1> QED BY <1>2, StandsKeeps

---------------------------------------------------------------------------
\* The inductive invariant

LEMMA IInvInit ==
  ASSUME Init
  PROVE  IInv
<1>1. /\ Idle \in Thread /\ Main \in Thread /\ Idle # Main
      /\ NoThread \notin Thread /\ 0 # Forever
  BY ThreadAssumption, SchedulerAssumption
<1>2. /\ k.ready = <<Idle>> /\ k.delay_list = <<>> /\ k.wait_list = <<>>
      /\ k.curr = Main /\ k.next = Main
      /\ k.delay = [t \in Thread |-> 0]
      /\ k.state = [t \in Thread |-> CASE t = Main -> "Running"
                                       [] t = Idle -> "Ready"
                                       [] OTHER    -> "Inactive"]
  BY DEF Init
<1>3. /\ k.state[Main] = "Running" /\ k.state[Idle] = "Ready"
      /\ \A t \in Thread \ {Main, Idle} : k.state[t] = "Inactive"
  BY <1>1, <1>2
<1>4. Typed(k)
  <2> DEFINE st == [t \in Thread |-> CASE t = Main -> "Running"
                                       [] t = Idle -> "Ready"
                                       [] OTHER    -> "Inactive"]
             pr == [t \in Thread |->
                      IF t = Main THEN CHOOSE p \in Priority : TRUE ELSE IdlePriority]
             de == [t \in Thread |-> 0]
  <2>1. st \in [Thread -> ThreadState]
    BY <1>1 DEF ThreadState
  <2>2. pr \in [Thread -> Nat]
    <3>1. (CHOOSE p \in Priority : TRUE) \in Priority
      BY ThreadAssumption
    <3> QED BY <3>1, ThreadAssumption
  <2>3. de \in [Thread -> Int \cup {Forever}]
    OBVIOUS
  <2>4. k = [state |-> st, priority |-> pr, delay |-> de,
             ready |-> <<Idle>>, delay_list |-> <<>>, wait_list |-> <<>>,
             curr |-> Main, next |-> Main, robin |-> NoThread, kernel |-> "Running"]
    BY DEF Init
  <2>5. <<Idle>> \in Seq(Thread) /\ <<>> \in Seq(Thread)
    BY <1>1
  <2> HIDE DEF st, pr, de
  <2> QED BY <1>1, <2>1, <2>2, <2>3, <2>4, <2>5 DEF Typed
<1>5. Placed(k, {})
  <2>1. ToSet(<<>>) = {} /\ ToSet(<<Idle>>) = {Idle}
    BY DEF ToSet
  <2>2. Distinct(<<>>) /\ Distinct(<<Idle>>)
    BY DEF Distinct
  <2> QED BY <1>1, <1>2, <1>3, <2>1, <2>2 DEF Placed, BlockedStates, WaitStates
<1>6. /\ thread_join = [t \in Thread |-> NoThread] /\ joins = [t \in Thread |-> NoThread]
      /\ isr_queue = <<>>
  BY DEF Init
<1> QED BY <1>1, <1>2, <1>3, <1>4, <1>5, <1>6 DEF IInv, Runs, JoinLinked, NoSelfJoin

LEMMA IInvNext ==
  ASSUME IInv, [Next]_vars, SparesJoiners
  PROVE  IInv'
<1>1. ASSUME NEW t \in Application, ThreadService(t) PROVE IInv'
  <2>1. t \in Thread
    BY DEF Application
  <2>2. ASSUME NEW p \in Priority, NEW j \in Joinability, ThreadNew(t, p, j) PROVE IInv'
    BY <2>1, <2>2, ThreadNewKeeps
  <2>3. ASSUME NEW p \in Priority, ThreadSetPriority(t, p) PROVE IInv'
    BY <2>1, <2>3, SetPriorityKeeps
  <2>4. CASE ThreadSuspend(t)
    BY <2>1, <2>4, SuspendKeeps
  <2>5. CASE ThreadResume(t)
    BY <2>1, <2>5, ResumeKeeps
  <2>6. CASE ThreadDetach(t)
    BY <2>1, <2>6, DetachKeeps
  <2>7. CASE ThreadJoinTerminated(t)
    BY <2>1, <2>7, JoinTerminatedKeeps
  <2>8. CASE ThreadJoinWait(t)
    BY <2>1, <2>8, JoinWaitKeeps
  <2>9. CASE ThreadTerminate(t)
    BY <2>1, <2>9, TerminateKeeps
  <2>10. ASSUME NEW f \in FlagSet, FlagsSet(t, f) PROVE IInv'
    BY <2>1, <2>10, FlagsSetKeeps
  <2> QED BY <1>1, <2>2, <2>3, <2>4, <2>5, <2>6, <2>7, <2>8, <2>9, <2>10
          DEF ThreadService
<1>2. ASSUME OwnService PROVE IInv'
  <2>1. CASE ThreadYield
    BY <2>1, YieldKeeps
  <2>2. CASE ThreadExit
    BY <2>2, ExitKeeps
  <2>3. ASSUME NEW ticks \in Timeout, Delay(ticks) PROVE IInv'
    BY <2>3, DelayKeeps
  <2>4. CASE KernelLock \/ KernelUnlock
    BY <2>4, LockKeeps
  <2>5. ASSUME NEW f \in FlagSet, FlagsClear(f) PROVE IInv'
    BY <2>5, IdleServiceKeeps DEF FlagsClear, Service, joinVars
  <2>6. ASSUME NEW w \in FlagWait, FlagsTake(w) PROVE IInv'
    BY <2>6, IdleServiceKeeps DEF FlagsTake, Service, joinVars
  <2>7. ASSUME NEW w \in FlagWait, FlagsWaitFor(w) PROVE IInv'
    <3>1. UNCHANGED <<k, thread_join, joins, isr_queue>>
      BY <2>7 DEF FlagsWaitFor, joinVars
    <3>2. isr_queue' \in Seq(Thread)
      BY <3>1 DEF IInv
    <3> QED BY <3>1, <3>2, StandsKeeps
  <2> QED BY <1>2, <2>1, <2>2, <2>3, <2>4, <2>5, <2>6, <2>7 DEF OwnService
<1>3. ASSUME NEW t \in IsrTarget, NEW f \in FlagSet, IsrFlagsSet(t, f) PROVE IInv'
  BY <1>3, IsrFlagsSetKeeps
<1>4. ASSUME Handler PROVE IInv'
  <2>1. CASE PendSVStart
    <3>1. UNCHANGED <<k, thread_join, joins, isr_queue>>
      BY <2>1 DEF PendSVStart, joinVars
    <3>2. isr_queue' \in Seq(Thread)
      BY <3>1 DEF IInv
    <3> QED BY <3>1, <3>2, StandsKeeps
  <2>2. CASE PendSVThread
    BY <2>2, PendSVThreadKeeps
  <2>3. CASE PendSVEnd
    BY <2>3, PendSVEndKeeps
  <2>4. CASE TickStart
    BY <2>4, TickStartKeeps
  <2>5. CASE TickRelease
    BY <2>5, TickReleaseKeeps
  <2>6. CASE TickEnd
    BY <2>6, TickEndKeeps
  <2>7. ASSUME NEW timeout \in Timeout, FlagsWaitEnter(timeout) PROVE IInv'
    BY <2>7, FlagsWaitEnterKeeps
  <2> QED BY <1>4, <2>1, <2>2, <2>3, <2>4, <2>5, <2>6, <2>7 DEF Handler
<1>5. CASE UNCHANGED vars
  <2>1. UNCHANGED <<k, thread_join, joins, isr_queue>>
    BY <1>5 DEF vars
  <2>2. isr_queue' \in Seq(Thread)
    BY <2>1 DEF IInv
  <2> QED BY <2>1, <2>2, StandsKeeps
<1> QED BY <1>1, <1>2, <1>3, <1>4, <1>5 DEF Next

\* The invariant that the theorems below are parts of.
THEOREM Invariance ==
  ASSUME SparesJoiners
  PROVE  Spec => []IInv
<1>1. Init => IInv
  BY IInvInit
<1>2. IInv /\ [Next]_vars => IInv'
  BY IInvNext
<1> QED BY <1>1, <1>2, PTL DEF Spec

\* As long as nobody suspends or resumes a thread blocked in osThreadJoin,
\* every thread is where its state says and nowhere else: the unlinking and
\* relinking in the service, tick and PendSV handlers never loses a thread nor
\* links one twice, for any number of threads and any priorities.
THEOREM ThreadsInPlace ==
  ASSUME SparesJoiners
  PROVE  Spec => []OnePlace
<1>1. IInv => OnePlace
  BY RunsOnePlace DEF IInv
<1> QED BY <1>1, Invariance, PTL

\* Under the same assumption a thread recorded as joining is blocked in
\* osThreadJoin for the very thread that records it, so the exit of the target
\* wakes nobody else.
THEOREM JoinsLinked ==
  ASSUME SparesJoiners
  PROVE  Spec => []JoinLinked
<1>1. IInv => JoinLinked
  BY DEF IInv
<1> QED BY <1>1, Invariance, PTL

---------------------------------------------------------------------------
\* No lost wakeup

\* With the types that the flag operations need.
FlagsInv ==
  /\ thread_flags \in [Thread -> SUBSET Flag]
  /\ wait \in [Thread -> FlagWait \cup {NoWait}]
  /\ NoMissedFlags

\* In the middle of osThreadFlagsWait: the check has failed, so flags that are
\* there now were set by an interrupt, whose entry PendSV cannot have taken yet.
OwnFlagsSeen ==
  handler = "svc" /\ Satisfies(thread_flags[k.curr], wait[k.curr]) =>
    k.curr \in ToSet(isr_queue)

\* A step after which no other thread waits for flags than before.
LEMMA FlagsKept ==
  ASSUME FlagsInv, NEW S, Keeps(S),
         \A u \in S \cap Thread : k'.state[u] # "WaitingThreadFlags",
         UNCHANGED <<thread_flags, wait>>, isr_queue' = isr_queue
  PROVE  FlagsInv'
<1>1. NoMissedFlags'
  <2> SUFFICES ASSUME NEW t \in Thread, k'.state[t] = "WaitingThreadFlags",
                      Satisfies(thread_flags[t], wait[t])
               PROVE  t \in ToSet(isr_queue)
    BY DEF NoMissedFlags
  <2>1. k.state[t] = "WaitingThreadFlags"
    BY DEF Keeps, Frame
  <2> QED BY <2>1 DEF FlagsInv, NoMissedFlags
<1> QED BY <1>1 DEF FlagsInv

\* A step on the flags of one thread t, which does not wait for them after it.
LEMMA FlagsTaken ==
  ASSUME FlagsInv, NEW S, Keeps(S), NEW t \in Thread,
         \A u \in S \cap Thread : u = t,
         k'.state[t] = "WaitingThreadFlags" => ~Satisfies(thread_flags'[t], wait'[t]),
         \A u \in Thread \ {t} : /\ thread_flags'[u] = thread_flags[u]
                                 /\ wait'[u] = wait[u]
                                 /\ u \in ToSet(isr_queue) => u \in ToSet(isr_queue')
  PROVE  NoMissedFlags'
<1> SUFFICES ASSUME NEW u \in Thread, k'.state[u] = "WaitingThreadFlags",
                    Satisfies(thread_flags'[u], wait'[u])
             PROVE  u \in ToSet(isr_queue')
  BY DEF NoMissedFlags
<1>1. u # t
  OBVIOUS
<1>2. k.state[u] = "WaitingThreadFlags"
  BY <1>1 DEF Keeps, Frame
<1> QED BY <1>1, <1>2 DEF FlagsInv, NoMissedFlags

LEMMA FlagsInvInit ==
  ASSUME Init
  PROVE  FlagsInv
<1>1. /\ thread_flags = [t \in Thread |-> {}] /\ wait = [t \in Thread |-> NoWait]
      /\ \A t \in Thread : k.state[t] # "WaitingThreadFlags"
  BY DEF Init
<1> QED BY <1>1 DEF FlagsInv, NoMissedFlags

LEMMA FlagsSetFlags ==
  ASSUME IInv, FlagsInv, NEW t \in Thread, NEW f \in FlagSet, FlagsSet(t, f)
  PROVE  FlagsInv'
<1> DEFINE wakes == /\ k.state[t] = "WaitingThreadFlags"
                    /\ Satisfies(thread_flags[t] \cup f, wait[t])
           g == IF wakes THEN Taken(thread_flags[t] \cup f, wait[t])
                ELSE thread_flags[t] \cup f
<1>1. /\ thread_flags' = [thread_flags EXCEPT ![t] = g]
      /\ wait' = wait /\ isr_queue' = isr_queue
  BY DEF FlagsSet, Service, ServiceEnd
<1>2. g \subseteq Flag
  BY DEF FlagsInv, Taken, FlagSet
<1>3. thread_flags' \in [Thread -> SUBSET Flag] /\ thread_flags'[t] = g
      /\ \A u \in Thread \ {t} : thread_flags'[u] = thread_flags[u]
  <2> HIDE DEF g
  <2> QED BY <1>1, <1>2 DEF FlagsInv
<1>4. CASE wakes
  <2>1. Keeps({t}) /\ k'.state[t] \in {"Ready", "Running"}
    BY <1>4, FlagsSetKeeps
  <2>2. k'.state[t] # "WaitingThreadFlags"
    BY <2>1
  <2> HIDE DEF g
  <2>3. NoMissedFlags'
    BY <1>1, <1>3, <2>1, <2>2, FlagsTaken
  <2> QED BY <1>1, <1>3, <2>3 DEF FlagsInv
<1>5. CASE ~wakes
  <2>1. Keeps({})
    BY <1>5, FlagsSetKeeps
  <2>2. thread_flags'[t] = thread_flags[t] \cup f
    BY <1>3, <1>5
  <2>3. k'.state[t] = "WaitingThreadFlags" => k.state[t] = "WaitingThreadFlags"
    BY <2>1 DEF Keeps, Frame
  <2>4. k'.state[t] = "WaitingThreadFlags" => ~Satisfies(thread_flags'[t], wait'[t])
    BY <1>1, <1>5, <2>2, <2>3
  <2> HIDE DEF g
  <2>5. NoMissedFlags'
    BY <1>1, <1>3, <2>1, <2>4, FlagsTaken
  <2> QED BY <1>1, <1>3, <2>5 DEF FlagsInv
<1> QED BY <1>4, <1>5

\* The running thread clears or takes flags.
LEMMA OwnFlags ==
  ASSUME IInv, FlagsInv, NEW f \in SUBSET Flag, Service(k),
         thread_flags' = [thread_flags EXCEPT ![k.curr] = f],
         UNCHANGED <<thread_join, joins, wait>>
  PROVE  FlagsInv'
<1>1. Keeps({}) /\ isr_queue' = isr_queue
  BY IdleServiceKeeps DEF Service, ServiceEnd
<1>2. k.curr \in Thread /\ k.state[k.curr] = "Running"
  BY DEF IInv, Runs, Typed
<1>3. k'.state[k.curr] # "WaitingThreadFlags"
  BY <1>1, <1>2 DEF Keeps, Frame
<1>4. /\ thread_flags' \in [Thread -> SUBSET Flag]
      /\ \A u \in Thread \ {k.curr} : thread_flags'[u] = thread_flags[u]
  BY DEF FlagsInv
<1>5. NoMissedFlags'
  BY <1>1, <1>2, <1>3, <1>4, FlagsTaken
<1> QED BY <1>4, <1>5 DEF FlagsInv

\* The first half of osThreadFlagsWait: the thread still runs.
LEMMA FlagsWaitForFlags ==
  ASSUME IInv, FlagsInv, NEW w \in FlagWait, FlagsWaitFor(w)
  PROVE  FlagsInv' /\ OwnFlagsSeen'
<1> DEFINE c == k.curr
<1>1. /\ ~Satisfies(thread_flags[c], w) /\ thread_flags' = thread_flags /\ k' = k
      /\ wait' = [wait EXCEPT ![c] = w] /\ isr_queue' = isr_queue
      /\ k'.curr = c
  BY DEF FlagsWaitFor
<1>2. c \in Thread /\ k.state[c] = "Running"
  BY DEF IInv, Runs, Typed
<1> HIDE DEF c
<1>3. /\ wait' \in [Thread -> FlagWait \cup {NoWait}] /\ wait'[c] = w
      /\ \A u \in Thread \ {c} : wait'[u] = wait[u]
  BY <1>1, <1>2 DEF FlagsInv
<1>4. NoMissedFlags'
  BY <1>1, <1>2, <1>3 DEF FlagsInv, NoMissedFlags
<1>5. OwnFlagsSeen'
  BY <1>1, <1>3 DEF OwnFlagsSeen
<1> QED BY <1>1, <1>3, <1>4, <1>5 DEF FlagsInv

\* The second half: flags set since the check have their entry.
LEMMA FlagsWaitEnterFlags ==
  ASSUME IInv, FlagsInv, OwnFlagsSeen, NEW timeout \in Timeout, FlagsWaitEnter(timeout)
  PROVE  FlagsInv'
<1> DEFINE c == k.curr
<1>1. /\ UNCHANGED <<thread_flags, wait, isr_queue>> /\ c \in Thread
      /\ Satisfies(thread_flags[c], wait[c]) => c \in ToSet(isr_queue)
  BY DEF FlagsWaitEnter, ServiceEnd, flagVars, OwnFlagsSeen, IInv, Runs, Typed
<1>2. PICK S \in {{c}, {}} : Keeps(S)
  BY FlagsWaitEnterKeeps
<1> HIDE DEF c
<1>3. NoMissedFlags'
  <2> SUFFICES ASSUME NEW u \in Thread, k'.state[u] = "WaitingThreadFlags",
                      Satisfies(thread_flags[u], wait[u])
               PROVE  u \in ToSet(isr_queue)
    BY <1>1 DEF NoMissedFlags
  <2>1. CASE u = c
    BY <1>1, <2>1
  <2>2. CASE u # c
    <3>1. k.state[u] = "WaitingThreadFlags"
      BY <1>2, <2>2 DEF Keeps, Frame
    <3> QED BY <3>1 DEF FlagsInv, NoMissedFlags
  <2> QED BY <2>1, <2>2
<1> QED BY <1>1, <1>3 DEF FlagsInv

LEMMA ThreadNewFlags ==
  ASSUME IInv, FlagsInv, NEW t \in Thread, NEW p \in Priority, NEW j \in Joinability,
         ThreadNew(t, p, j)
  PROVE  FlagsInv'
<1>1. /\ thread_flags' = [thread_flags EXCEPT ![t] = {}]
      /\ wait' = [wait EXCEPT ![t] = NoWait] /\ isr_queue' = isr_queue
  BY DEF ThreadNew, Service, ServiceEnd
<1>2. Keeps({t}) /\ k'.state[t] # "WaitingThreadFlags"
  BY ThreadNewKeeps
<1>3. /\ thread_flags' \in [Thread -> SUBSET Flag]
      /\ wait' \in [Thread -> FlagWait \cup {NoWait}]
      /\ \A u \in Thread \ {t} : thread_flags'[u] = thread_flags[u] /\ wait'[u] = wait[u]
  BY <1>1 DEF FlagsInv
<1>4. NoMissedFlags'
  BY <1>1, <1>2, <1>3, FlagsTaken
<1> QED BY <1>3, <1>4 DEF FlagsInv

\* The interrupt registers the thread whose flags it sets.
LEMMA IsrFlagsSetFlags ==
  ASSUME IInv, FlagsInv, NEW t \in IsrTarget, NEW f \in FlagSet, IsrFlagsSet(t, f)
  PROVE  FlagsInv' /\ (OwnFlagsSeen => OwnFlagsSeen')
<1>1. /\ thread_flags' = [thread_flags EXCEPT ![t] = @ \cup f] /\ wait' = wait
      /\ isr_queue' = Append(isr_queue, t) /\ k' = k /\ handler' = handler /\ t \in Thread
  BY ThreadAssumption DEF IsrFlagsSet
<1>2. ToSet(isr_queue') = ToSet(isr_queue) \cup {t}
  BY <1>1, AppendSet DEF IInv
<1>3. /\ thread_flags' \in [Thread -> SUBSET Flag]
      /\ \A u \in Thread \ {t} : thread_flags'[u] = thread_flags[u]
  BY <1>1 DEF FlagsInv, FlagSet
<1>4. NoMissedFlags'
  BY <1>1, <1>2, <1>3 DEF FlagsInv, NoMissedFlags
<1>5. k.curr \in Thread
  BY DEF IInv, Runs, Typed
<1>6. OwnFlagsSeen => OwnFlagsSeen'
  BY <1>1, <1>2, <1>3, <1>5 DEF OwnFlagsSeen
<1> QED BY <1>1, <1>3, <1>4, <1>6 DEF FlagsInv

\* Post processing takes the thread from the queue when it has looked at it.
LEMMA PendSVThreadFlags ==
  ASSUME IInv, FlagsInv, PendSVThread
  PROVE  FlagsInv'
<1> DEFINE t == Head(isr_queue)
           wakes == k.state[t] = "WaitingThreadFlags" /\ Satisfies(thread_flags[t], wait[t])
<1>1. /\ isr_queue # <<>> /\ isr_queue' = Tail(isr_queue) /\ wait' = wait
      /\ thread_flags' = IF wakes
                         THEN [thread_flags EXCEPT ![t] = Taken(thread_flags[t], wait[t])]
                         ELSE thread_flags
  BY DEF PendSVThread
<1>2. /\ t \in Thread
      /\ \/ wakes /\ Keeps({t}) /\ k'.state[t] = "Ready"
         \/ ~wakes /\ Keeps({})
  BY PendSVThreadKeeps
<1>3. \A u \in Thread \ {t} : u \in ToSet(isr_queue) => u \in ToSet(isr_queue')
  <2> SUFFICES ASSUME NEW i \in DOMAIN isr_queue, isr_queue[i] # t
               PROVE  isr_queue[i] \in ToSet(isr_queue')
    BY DEF ToSet
  <2>1. /\ Len(isr_queue) \in Nat \ {0} /\ DOMAIN isr_queue = 1 .. Len(isr_queue)
        /\ t = isr_queue[1] /\ DOMAIN isr_queue' = 1 .. Len(isr_queue) - 1
        /\ \A j \in 1 .. Len(isr_queue) - 1 : isr_queue'[j] = isr_queue[j + 1]
    BY <1>1, HeadTailProperties, EmptySeq DEF IInv
  <2>2. i - 1 \in 1 .. Len(isr_queue) - 1 /\ isr_queue'[i - 1] = isr_queue[i]
    BY <2>1
  <2> QED BY <2>1, <2>2 DEF ToSet
<1> HIDE DEF t
<1>4. /\ thread_flags' \in [Thread -> SUBSET Flag]
      /\ \A u \in Thread \ {t} : thread_flags'[u] = thread_flags[u]
      /\ ~wakes => thread_flags'[t] = thread_flags[t]
  BY <1>1, <1>2 DEF FlagsInv, Taken
<1>5. NoMissedFlags'
  <2>1. CASE wakes
    <3>1. Keeps({t}) /\ k'.state[t] # "WaitingThreadFlags"
      BY <1>2, <2>1
    <3> QED BY <1>1, <1>2, <1>3, <1>4, <3>1, FlagsTaken
  <2>2. CASE ~wakes
    <3>1. Keeps({})
      BY <1>2, <2>2
    <3>2. k'.state[t] = "WaitingThreadFlags" => ~Satisfies(thread_flags'[t], wait'[t])
      BY <1>1, <1>2, <1>4, <2>2, <3>1 DEF Keeps, Frame
    <3> QED BY <1>1, <1>2, <1>3, <1>4, <3>1, <3>2, FlagsTaken
  <2> QED BY <2>1, <2>2
<1> QED BY <1>1, <1>4, <1>5 DEF FlagsInv

LEMMA FlagsInvNext ==
  ASSUME IInv, FlagsInv, OwnFlagsSeen, [Next]_vars, SparesJoiners
  PROVE  FlagsInv'
<1> USE DEF flagVars
<1>1. ASSUME NEW t \in Application, ThreadService(t) PROVE FlagsInv'
  <2>1. t \in Thread
    BY DEF Application
  <2>2. ASSUME NEW p \in Priority, NEW j \in Joinability, ThreadNew(t, p, j) PROVE FlagsInv'
    BY <2>1, <2>2, ThreadNewFlags
  <2>3. ASSUME NEW p \in Priority, ThreadSetPriority(t, p) PROVE FlagsInv'
    <3>1. Keeps({}) /\ UNCHANGED <<thread_flags, wait, isr_queue>>
      BY <2>1, <2>3, SetPriorityKeeps DEF ThreadSetPriority, Service, ServiceEnd
    <3> QED BY <3>1, FlagsKept
  <2>4. CASE ThreadSuspend(t)
    <3>1. /\ Keeps({t}) /\ k'.state[t] # "WaitingThreadFlags"
          /\ UNCHANGED <<thread_flags, wait, isr_queue>>
      BY <2>1, <2>4, SuspendKeeps DEF ThreadSuspend, Service, ServiceEnd
    <3> QED BY <3>1, FlagsKept
  <2>5. CASE ThreadResume(t)
    <3>1. /\ Keeps({t}) /\ k'.state[t] # "WaitingThreadFlags"
          /\ UNCHANGED <<thread_flags, wait, isr_queue>>
      BY <2>1, <2>5, ResumeKeeps DEF ThreadResume, Service, ServiceEnd
    <3> QED BY <3>1, FlagsKept
  <2>6. CASE ThreadDetach(t)
    <3>1. /\ (Keeps({t}) /\ k'.state[t] # "WaitingThreadFlags") \/ Keeps({})
          /\ UNCHANGED <<thread_flags, wait, isr_queue>>
      BY <2>1, <2>6, DetachKeeps DEF ThreadDetach, Service, ServiceEnd
    <3> QED BY <3>1, FlagsKept
  <2>7. CASE ThreadJoinTerminated(t)
    <3>1. /\ Keeps({t}) /\ k'.state[t] # "WaitingThreadFlags"
          /\ UNCHANGED <<thread_flags, wait, isr_queue>>
      BY <2>1, <2>7, JoinTerminatedKeeps DEF ThreadJoinTerminated, Service, ServiceEnd
    <3> QED BY <3>1, FlagsKept
  <2>8. CASE ThreadJoinWait(t)
    <3>1. /\ Keeps({k.curr}) /\ k'.state[k.curr] # "WaitingThreadFlags"
          /\ UNCHANGED <<thread_flags, wait, isr_queue>>
      BY <2>1, <2>8, JoinWaitKeeps DEF ThreadJoinWait, Service, ServiceEnd
    <3> QED BY <3>1, FlagsKept
  <2>9. CASE ThreadTerminate(t)
    <3>1. /\ Keeps({t, thread_join[t]})
          /\ \A u \in {t, thread_join[t]} \cap Thread : k'.state[u] # "WaitingThreadFlags"
          /\ UNCHANGED <<thread_flags, wait, isr_queue>>
      BY <2>1, <2>9, TerminateKeeps DEF ThreadTerminate, Service, ServiceEnd
    <3> QED BY <3>1, FlagsKept
  <2>10. ASSUME NEW f \in FlagSet, FlagsSet(t, f) PROVE FlagsInv'
    BY <2>1, <2>10, FlagsSetFlags
  <2> QED BY <1>1, <2>2, <2>3, <2>4, <2>5, <2>6, <2>7, <2>8, <2>9, <2>10
          DEF ThreadService
<1>2. ASSUME OwnService PROVE FlagsInv'
  <2>1. CASE ThreadYield
    <3>1. Keeps({}) /\ UNCHANGED <<thread_flags, wait, isr_queue>>
      BY <2>1, YieldKeeps DEF ThreadYield, Service, ServiceEnd
    <3> QED BY <3>1, FlagsKept
  <2>2. CASE ThreadExit
    <3>1. /\ Keeps({k.curr, thread_join[k.curr]})
          /\ \A u \in {k.curr, thread_join[k.curr]} \cap Thread :
               k'.state[u] # "WaitingThreadFlags"
          /\ UNCHANGED <<thread_flags, wait, isr_queue>>
      BY <2>2, ExitKeeps DEF ThreadExit, Service, ServiceEnd
    <3> QED BY <3>1, FlagsKept
  <2>3. ASSUME NEW ticks \in Timeout, Delay(ticks) PROVE FlagsInv'
    <3>1. /\ Keeps({k.curr}) /\ k'.state[k.curr] # "WaitingThreadFlags"
          /\ UNCHANGED <<thread_flags, wait, isr_queue>>
      BY <2>3, DelayKeeps DEF Delay, Service, ServiceEnd
    <3> QED BY <3>1, FlagsKept
  <2>4. CASE KernelLock \/ KernelUnlock
    <3>1. Keeps({}) /\ UNCHANGED <<thread_flags, wait, isr_queue>>
      BY <2>4, LockKeeps DEF KernelLock, KernelUnlock, Service, ServiceEnd
    <3> QED BY <3>1, FlagsKept
  <2>5. ASSUME NEW f \in FlagSet, FlagsClear(f) PROVE FlagsInv'
    <3>1. thread_flags[k.curr] \ f \in SUBSET Flag
      BY DEF FlagsInv, IInv, Runs, Typed
    <3> QED BY <2>5, <3>1, OwnFlags DEF FlagsClear, joinVars
  <2>6. ASSUME NEW w \in FlagWait, FlagsTake(w) PROVE FlagsInv'
    <3>1. Taken(thread_flags[k.curr], w) \in SUBSET Flag
      BY DEF FlagsInv, IInv, Runs, Typed, Taken
    <3> QED BY <2>6, <3>1, OwnFlags DEF FlagsTake, joinVars
  <2>7. ASSUME NEW w \in FlagWait, FlagsWaitFor(w) PROVE FlagsInv'
    BY <2>7, FlagsWaitForFlags
  <2> QED BY <1>2, <2>1, <2>2, <2>3, <2>4, <2>5, <2>6, <2>7 DEF OwnService
<1>3. ASSUME NEW t \in IsrTarget, NEW f \in FlagSet, IsrFlagsSet(t, f) PROVE FlagsInv'
  BY <1>3, IsrFlagsSetFlags
<1>4. ASSUME Handler PROVE FlagsInv'
  <2>1. CASE PendSVStart
    <3>1. UNCHANGED <<k, thread_flags, wait, isr_queue>>
      BY <2>1 DEF PendSVStart
    <3> QED BY <3>1 DEF FlagsInv, NoMissedFlags
  <2>2. CASE PendSVThread
    BY <2>2, PendSVThreadFlags
  <2>3. CASE PendSVEnd
    <3>1. Keeps({}) /\ UNCHANGED <<thread_flags, wait, isr_queue>>
      BY <2>3, PendSVEndKeeps DEF PendSVEnd
    <3> QED BY <3>1, FlagsKept
  <2>4. CASE TickStart
    <3>1. Keeps({}) /\ UNCHANGED <<thread_flags, wait, isr_queue>>
      BY <2>4, TickStartKeeps DEF TickStart
    <3> QED BY <3>1, FlagsKept
  <2>5. CASE TickRelease
    <3>1. /\ Keeps({Head(k.delay_list)})
          /\ k'.state[Head(k.delay_list)] # "WaitingThreadFlags"
          /\ UNCHANGED <<thread_flags, wait, isr_queue>>
      BY <2>5, TickReleaseKeeps DEF TickRelease
    <3> QED BY <3>1, FlagsKept
  <2>6. CASE TickEnd
    <3>1. Keeps({}) /\ UNCHANGED <<thread_flags, wait, isr_queue>>
      BY <2>6, TickEndKeeps DEF TickEnd
    <3> QED BY <3>1, FlagsKept
  <2>7. ASSUME NEW timeout \in Timeout, FlagsWaitEnter(timeout) PROVE FlagsInv'
    BY <2>7, FlagsWaitEnterFlags
  <2> QED BY <1>4, <2>1, <2>2, <2>3, <2>4, <2>5, <2>6, <2>7 DEF Handler
<1>5. CASE UNCHANGED vars
  BY <1>5 DEF vars, FlagsInv, NoMissedFlags
<1> QED BY <1>1, <1>2, <1>3, <1>4, <1>5 DEF Next

\* Only the first half of osThreadFlagsWait stops in the middle of a service.
LEMMA OwnFlagsSeenNext ==
  ASSUME IInv, FlagsInv, OwnFlagsSeen, [Next]_vars
  PROVE  OwnFlagsSeen'
<1>1. SUFFICES ASSUME handler' = "svc" PROVE OwnFlagsSeen'
  BY DEF OwnFlagsSeen
<1>2. ASSUME NEW after, Service(after) PROVE FALSE
  BY <1>1, <1>2 DEF Service, ServiceEnd
<1>3. ASSUME NEW t \in Application, ThreadService(t) PROVE FALSE
  BY <1>2, <1>3 DEF ThreadService, ThreadNew, ThreadSetPriority, ThreadSuspend, ThreadResume,
     ThreadDetach, ThreadJoinTerminated, ThreadJoinWait, ThreadTerminate, FlagsSet
<1>4. ASSUME OwnService PROVE OwnFlagsSeen'
  <2>1. ASSUME NEW w \in FlagWait, FlagsWaitFor(w) PROVE OwnFlagsSeen'
    BY <2>1, FlagsWaitForFlags
  <2> QED BY <1>2, <1>4, <2>1 DEF OwnService, ThreadYield, ThreadExit, Delay, KernelLock,
             KernelUnlock, FlagsClear, FlagsTake
<1>5. ASSUME NEW t \in IsrTarget, NEW f \in FlagSet, IsrFlagsSet(t, f) PROVE OwnFlagsSeen'
  BY <1>5, IsrFlagsSetFlags
<1>6. ASSUME Handler PROVE FALSE
  BY <1>1, <1>6 DEF Handler, FlagsWaitEnter, ServiceEnd, PendSVStart, PendSVThread, PendSVEnd,
     TickStart, TickRelease, TickEnd
<1>7. CASE UNCHANGED vars
  BY <1>7 DEF vars, OwnFlagsSeen
<1> QED BY <1>3, <1>4, <1>5, <1>6, <1>7 DEF Next

\* No thread-flags wakeup is lost: a thread that waits for flags it already
\* has is registered for post processing, for any set of flags, any waits and
\* any interleaving of services, interrupts, PendSV and ticks.
THEOREM FlagsNotMissed ==
  ASSUME SparesJoiners
  PROVE  Spec => []NoMissedFlags
<1>1. Init => FlagsInv /\ OwnFlagsSeen
  BY FlagsInvInit DEF Init, OwnFlagsSeen
<1>2. IInv /\ FlagsInv /\ OwnFlagsSeen /\ [Next]_vars => FlagsInv' /\ OwnFlagsSeen'
  BY FlagsInvNext, OwnFlagsSeenNext
<1>3. FlagsInv => NoMissedFlags
  BY DEF FlagsInv
<1> QED BY <1>1, <1>2, <1>3, Invariance, PTL DEF Spec

---------------------------------------------------------------------------
\* Nobody sleeps in osThreadJoin for a thread that is gone: the links from a
\* joiner to its target, on top of those of IInv from a target to its joiner.

\* A target is no longer joinable, so no second thread takes over the one link
\* that it keeps to a joiner, and its exit is not left to somebody else's join.
JoinInv ==
  /\ joinable \in [Thread -> BOOLEAN]
  /\ \A t \in Thread :
       k.state[t] = "WaitingJoin" =>
         /\ joins[t] \in Thread /\ thread_join[joins[t]] = t
         /\ Alive(joins[t]) /\ ~joinable[joins[t]]

\* A step after which no other thread joins than before and none has died.
LEMMA JoinsKept ==
  ASSUME JoinInv, NEW S, Keeps(S),
         \A u \in S \cap Thread : /\ k'.state[u] # "WaitingJoin"
                                  /\ Alive(u) => Alive(u)',
         UNCHANGED <<thread_join, joins>>,
         joinable' \in [Thread -> BOOLEAN],
         \A u \in Thread : joinable'[u] => joinable[u]
  PROVE  JoinInv'
<1> SUFFICES ASSUME NEW t \in Thread, k'.state[t] = "WaitingJoin"
             PROVE  /\ joins[t] \in Thread /\ thread_join[joins[t]] = t
                    /\ k'.state[joins[t]] \notin {"Inactive", "Terminated"}
                    /\ ~joinable'[joins[t]]
  BY DEF JoinInv, Alive
<1>1. k.state[t] = "WaitingJoin"
  BY DEF Keeps, Frame
<1> DEFINE x == joins[t]
<1>2. x \in Thread /\ thread_join[x] = t /\ Alive(x) /\ ~joinable[x]
  BY <1>1 DEF JoinInv
<1> HIDE DEF x
<1>3. k'.state[x] \notin {"Inactive", "Terminated"}
  <2>1. CASE x \in S
    BY <1>2, <2>1 DEF Alive
  <2>2. CASE x \notin S
    BY <1>2, <2>2 DEF Keeps, Frame, Alive
  <2> QED BY <2>1, <2>2
<1> QED BY <1>2, <1>3 DEF x

\* The same for a step that leaves alone which threads can be joined.
LEMMA JoinsStand ==
  ASSUME JoinInv, NEW S, Keeps(S),
         \A u \in S \cap Thread : /\ k'.state[u] # "WaitingJoin"
                                  /\ Alive(u) => Alive(u)',
         UNCHANGED joinVars
  PROVE  JoinInv'
<1>1. /\ UNCHANGED <<thread_join, joins>>
      /\ joinable' \in [Thread -> BOOLEAN]
      /\ \A u \in Thread : joinable'[u] => joinable[u]
  BY DEF joinVars, JoinInv
<1> QED BY <1>1, JoinsKept

LEMMA JoinInvInit ==
  ASSUME Init
  PROVE  JoinInv
BY DEF Init, JoinInv

\* A control block is taken again only after the death of its thread, which
\* no thread waited for.
LEMMA ThreadNewJoins ==
  ASSUME IInv, JoinInv, NEW t \in Thread, NEW p \in Priority, NEW j \in Joinability,
         ThreadNew(t, p, j)
  PROVE  JoinInv'
<1>1. Keeps({t}) /\ k'.state[t] \in {"Ready", "Running"}
  BY ThreadNewKeeps
<1>2. /\ ~Alive(t) /\ j \in BOOLEAN
      /\ thread_join' = [thread_join EXCEPT ![t] = NoThread]
      /\ joins' = [joins EXCEPT ![t] = NoThread]
      /\ joinable' = [joinable EXCEPT ![t] = j]
  BY ThreadAssumption DEF ThreadNew, Exists, Alive
<1>3. joinable' \in [Thread -> BOOLEAN]
  BY <1>2 DEF JoinInv
<1>4. ASSUME NEW u \in Thread, k'.state[u] = "WaitingJoin"
      PROVE  /\ joins'[u] \in Thread /\ thread_join'[joins'[u]] = u
             /\ k'.state[joins'[u]] \notin {"Inactive", "Terminated"}
             /\ ~joinable'[joins'[u]]
  <2>1. u # t /\ k.state[u] = "WaitingJoin"
    BY <1>1, <1>4 DEF Keeps, Frame
  <2> DEFINE x == joins[u]
  <2>2. x \in Thread /\ thread_join[x] = u /\ Alive(x) /\ ~joinable[x]
    BY <2>1 DEF JoinInv
  <2>3. joins'[u] = x
    BY <1>2, <2>1 DEF IInv
  <2> HIDE DEF x
  <2>4. x # t
    BY <1>2, <2>2
  <2>5. thread_join'[x] = u /\ ~joinable'[x]
    BY <1>2, <2>2, <2>4 DEF IInv, JoinInv
  <2>6. k'.state[x] \notin {"Inactive", "Terminated"}
    BY <1>1, <2>2, <2>4 DEF Keeps, Frame, Alive
  <2> QED BY <2>2, <2>3, <2>5, <2>6
<1> QED BY <1>3, <1>4 DEF JoinInv, Alive

\* The new joiner takes a link that no other thread relies on.
LEMMA JoinWaitJoins ==
  ASSUME IInv, JoinInv, NEW t \in Thread, ThreadJoinWait(t)
  PROVE  JoinInv'
<1> DEFINE c == k.curr
<1>1. Keeps({c}) /\ k'.state[c] = "WaitingJoin"
  BY JoinWaitKeeps
<1>2. /\ c \in Thread /\ t # c /\ Alive(t) /\ joinable[t]
      /\ joins' = [joins EXCEPT ![c] = t]
      /\ thread_join' = [thread_join EXCEPT ![t] = c]
      /\ joinable' = [joinable EXCEPT ![t] = FALSE]
  BY DEF ThreadJoinWait, IInv, Runs, Typed, Alive
<1> HIDE DEF c
<1>3. joinable' \in [Thread -> BOOLEAN]
  BY <1>2 DEF JoinInv
<1>4. ASSUME NEW u \in Thread, k'.state[u] = "WaitingJoin"
      PROVE  /\ joins'[u] \in Thread /\ thread_join'[joins'[u]] = u
             /\ k'.state[joins'[u]] \notin {"Inactive", "Terminated"}
             /\ ~joinable'[joins'[u]]
  <2>1. CASE u = c
    <3>1. joins'[u] = t /\ thread_join'[t] = u /\ ~joinable'[t]
      BY <1>2, <2>1 DEF IInv, JoinInv
    <3>2. k'.state[t] \notin {"Inactive", "Terminated"}
      BY <1>1, <1>2 DEF Keeps, Frame, Alive
    <3> QED BY <3>1, <3>2
  <2>2. CASE u # c
    <3>1. k.state[u] = "WaitingJoin"
      BY <1>1, <1>4, <2>2 DEF Keeps, Frame
    <3> DEFINE x == joins[u]
    <3>2. x \in Thread /\ thread_join[x] = u /\ Alive(x) /\ ~joinable[x]
      BY <3>1 DEF JoinInv
    <3>3. joins'[u] = x
      BY <1>2, <2>2 DEF IInv
    <3> HIDE DEF x
    <3>4. x # t
      BY <1>2, <3>2
    <3>5. thread_join'[x] = u /\ ~joinable'[x]
      BY <1>2, <3>2, <3>4 DEF IInv, JoinInv
    <3>6. k'.state[x] \notin {"Inactive", "Terminated"}
      BY <1>1, <3>2 DEF Keeps, Frame, Alive
    <3> QED BY <3>2, <3>3, <3>5, <3>6
  <2> QED BY <2>1, <2>2
<1> QED BY <1>3, <1>4 DEF JoinInv, Alive

\* The death of t wakes its joiner, and takes t off the thread it waited for.
LEMMA DeathJoins ==
  ASSUME IInv, JoinInv, NEW t \in Thread, LeaveJoin(t), UNCHANGED <<joins, joinable>>,
         Keeps({t, thread_join[t]}), k'.state[t] \in {"Inactive", "Terminated"},
         thread_join[t] \in Thread => k'.state[thread_join[t]] \in {"Ready", "Running"}
  PROVE  JoinInv'
<1>1. joinable' \in [Thread -> BOOLEAN]
  BY DEF JoinInv
<1>2. ASSUME NEW u \in Thread, k'.state[u] = "WaitingJoin"
      PROVE  /\ joins[u] \in Thread /\ thread_join'[joins[u]] = u
             /\ k'.state[joins[u]] \notin {"Inactive", "Terminated"}
             /\ ~joinable[joins[u]]
  <2>1. u # t /\ u # thread_join[t]
    BY <1>2
  <2>2. k.state[u] = "WaitingJoin"
    BY <1>2, <2>1 DEF Keeps, Frame
  <2> DEFINE x == joins[u]
  <2>3. x \in Thread /\ thread_join[x] = u /\ Alive(x) /\ ~joinable[x]
    BY <2>2 DEF JoinInv
  <2> HIDE DEF x
  <2>4. x # t
    BY <2>1, <2>3
  <2>5. thread_join'[x] = u
    <3>1. k.state[t] = "WaitingJoin" => thread_join[joins[t]] = t
      BY DEF JoinInv
    <3> QED BY <2>1, <2>3, <3>1 DEF LeaveJoin, IInv
  <2>6. k'.state[x] \notin {"Inactive", "Terminated"}
    <3>1. CASE x = thread_join[t]
      BY <2>3, <3>1
    <3>2. CASE x # thread_join[t]
      BY <2>3, <2>4, <3>2 DEF Keeps, Frame, Alive
    <3> QED BY <3>1, <3>2
  <2> QED BY <2>3, <2>5, <2>6 DEF x
<1> QED BY <1>1, <1>2 DEF JoinInv, Alive

LEMMA DetachJoins ==
  ASSUME IInv, JoinInv, NEW t \in Thread, ThreadDetach(t)
  PROVE  JoinInv'
<1>1. UNCHANGED <<thread_join, joins>>
  BY DEF ThreadDetach
<1>2. CASE k.state[t] = "Terminated"
  <2>1. Service([k EXCEPT !.state[t] = "Inactive"]) /\ UNCHANGED joinVars
    BY <1>2 DEF ThreadDetach, joinVars
  <2>2. Keeps({t}) /\ k'.state[t] = "Inactive" /\ ~Alive(t)
    BY <1>1, <1>2, <2>1, FreeKeeps DEF Alive
  <2> QED BY <2>1, <2>2, JoinsStand
<1>3. CASE k.state[t] # "Terminated"
  <2>1. ServiceEnd(k) /\ joinable' = [joinable EXCEPT ![t] = FALSE]
    BY <1>3 DEF ThreadDetach, Service
  <2>2. Keeps({})
    BY <1>1, <2>1, IdleServiceKeeps
  <2>3. /\ joinable' \in [Thread -> BOOLEAN]
        /\ \A u \in Thread : joinable'[u] => joinable[u]
    BY <2>1 DEF JoinInv
  <2> QED BY <1>1, <2>2, <2>3, JoinsKept
<1> QED BY <1>2, <1>3

LEMMA FlagsSetJoins ==
  ASSUME IInv, JoinInv, NEW t \in Thread, NEW f, FlagsSet(t, f)
  PROVE  JoinInv'
<1>1. UNCHANGED joinVars
  BY DEF FlagsSet
<1>2. (Keeps({t}) /\ k'.state[t] \in {"Ready", "Running"}) \/ Keeps({})
  BY FlagsSetKeeps
<1>3. k'.state[t] \in {"Ready", "Running"} => k'.state[t] # "WaitingJoin" /\ Alive(t)'
  BY DEF Alive
<1> QED BY <1>1, <1>2, <1>3, JoinsStand

LEMMA FlagsWaitEnterJoins ==
  ASSUME IInv, JoinInv, NEW timeout \in Timeout, FlagsWaitEnter(timeout)
  PROVE  JoinInv'
<1> DEFINE c == k.curr
<1>1. UNCHANGED joinVars
  BY DEF FlagsWaitEnter
<1>2. (Keeps({c}) /\ k'.state[c] = "WaitingThreadFlags") \/ Keeps({})
  BY FlagsWaitEnterKeeps
<1> HIDE DEF c
<1>3. CASE Keeps({c}) /\ k'.state[c] = "WaitingThreadFlags"
  <2>1. \A u \in {c} : k'.state[u] # "WaitingJoin" /\ Alive(u)'
    BY <1>3 DEF Alive
  <2> QED BY <1>1, <1>3, <2>1, JoinsStand
<1>4. CASE Keeps({})
  BY <1>1, <1>4, JoinsStand
<1> QED BY <1>2, <1>3, <1>4

\* A thread that ends in any other state neither joins nor is dead.
LEMMA LivesOn ==
  ASSUME JoinInv, NEW u, Keeps({u}), UNCHANGED joinVars,
         k'.state[u] \notin {"WaitingJoin", "Inactive", "Terminated"}
  PROVE  JoinInv'
<1> DEFINE S == {u}
<1>1. \A v \in S : k'.state[v] \notin {"WaitingJoin", "Inactive", "Terminated"}
  OBVIOUS
<1>2. Keeps(S)
  OBVIOUS
<1> HIDE DEF S
<1>3. \A v \in S \cap Thread : /\ k'.state[v] # "WaitingJoin"
                               /\ Alive(v) => Alive(v)'
  BY <1>1 DEF Alive
<1> QED BY <1>2, <1>3, JoinsStand

LEMMA JoinInvNext ==
  ASSUME IInv, JoinInv, [Next]_vars, SparesJoiners
  PROVE  JoinInv'
<1>1. ASSUME NEW t \in Application, ThreadService(t) PROVE JoinInv'
  <2>1. t \in Thread
    BY DEF Application
  <2>2. ASSUME NEW p \in Priority, NEW j \in Joinability, ThreadNew(t, p, j) PROVE JoinInv'
    BY <2>1, <2>2, ThreadNewJoins
  <2>3. ASSUME NEW p \in Priority, ThreadSetPriority(t, p) PROVE JoinInv'
    <3>1. Keeps({}) /\ UNCHANGED joinVars
      BY <2>1, <2>3, SetPriorityKeeps DEF ThreadSetPriority
    <3> QED BY <3>1, JoinsStand
  <2>4. CASE ThreadSuspend(t)
    <3>1. Keeps({t}) /\ k'.state[t] = "Blocked" /\ UNCHANGED joinVars
      BY <2>1, <2>4, SuspendKeeps DEF ThreadSuspend
    <3> QED BY <3>1, LivesOn
  <2>5. CASE ThreadResume(t)
    <3>1. Keeps({t}) /\ k'.state[t] \in {"Ready", "Running"} /\ UNCHANGED joinVars
      BY <2>1, <2>5, ResumeKeeps DEF ThreadResume
    <3> QED BY <3>1, LivesOn
  <2>6. CASE ThreadDetach(t)
    BY <2>1, <2>6, DetachJoins
  <2>7. CASE ThreadJoinTerminated(t)
    <3>1. Keeps({t}) /\ k'.state[t] = "Inactive" /\ ~Alive(t) /\ UNCHANGED joinVars
      BY <2>1, <2>7, JoinTerminatedKeeps DEF ThreadJoinTerminated, Alive
    <3> QED BY <3>1, JoinsStand
  <2>8. CASE ThreadJoinWait(t)
    BY <2>1, <2>8, JoinWaitJoins
  <2>9. CASE ThreadTerminate(t)
    <3>1. LeaveJoin(t) /\ UNCHANGED <<joins, joinable>>
      BY <2>9 DEF ThreadTerminate
    <3> QED BY <2>1, <2>9, <3>1, TerminateKeeps, DeathJoins
  <2>10. ASSUME NEW f \in FlagSet, FlagsSet(t, f) PROVE JoinInv'
    BY <2>1, <2>10, FlagsSetJoins
  <2> QED BY <1>1, <2>2, <2>3, <2>4, <2>5, <2>6, <2>7, <2>8, <2>9, <2>10
          DEF ThreadService
<1>2. ASSUME OwnService PROVE JoinInv'
  <2>1. CASE ThreadYield
    <3>1. Keeps({}) /\ UNCHANGED joinVars
      BY <2>1, YieldKeeps DEF ThreadYield
    <3> QED BY <3>1, JoinsStand
  <2>2. CASE ThreadExit
    <3> DEFINE c == k.curr
    <3>1. /\ LeaveJoin(c) /\ UNCHANGED <<joins, joinable>>
          /\ c \in Thread /\ Keeps({c, thread_join[c]})
          /\ k'.state[c] \in {"Inactive", "Terminated"}
          /\ thread_join[c] \in Thread => k'.state[thread_join[c]] \in {"Ready", "Running"}
      BY <2>2, ExitKeeps DEF ThreadExit, IInv, Runs, Typed
    <3> HIDE DEF c
    <3> QED BY <3>1, DeathJoins
  <2>3. ASSUME NEW ticks \in Timeout, Delay(ticks) PROVE JoinInv'
    <3>1. Keeps({k.curr}) /\ k'.state[k.curr] = "WaitingDelay" /\ UNCHANGED joinVars
      BY <2>3, DelayKeeps DEF Delay
    <3> QED BY <3>1, LivesOn
  <2>4. CASE KernelLock \/ KernelUnlock
    <3>1. Keeps({}) /\ UNCHANGED joinVars
      BY <2>4, LockKeeps DEF KernelLock, KernelUnlock
    <3> QED BY <3>1, JoinsStand
  <2>5. ASSUME NEW f \in FlagSet, FlagsClear(f) PROVE JoinInv'
    <3>1. ServiceEnd(k) /\ UNCHANGED joinVars /\ UNCHANGED <<thread_join, joins>>
      BY <2>5 DEF FlagsClear, Service, joinVars
    <3> QED BY <3>1, IdleServiceKeeps, JoinsStand
  <2>6. ASSUME NEW w \in FlagWait, FlagsTake(w) PROVE JoinInv'
    <3>1. ServiceEnd(k) /\ UNCHANGED joinVars /\ UNCHANGED <<thread_join, joins>>
      BY <2>6 DEF FlagsTake, Service, joinVars
    <3> QED BY <3>1, IdleServiceKeeps, JoinsStand
  <2>7. ASSUME NEW w \in FlagWait, FlagsWaitFor(w) PROVE JoinInv'
    <3>1. UNCHANGED <<k, thread_join, joins, joinable>>
      BY <2>7 DEF FlagsWaitFor, joinVars
    <3> QED BY <3>1 DEF JoinInv, Alive
  <2> QED BY <1>2, <2>1, <2>2, <2>3, <2>4, <2>5, <2>6, <2>7 DEF OwnService
<1>3. ASSUME NEW t \in IsrTarget, NEW f \in FlagSet, IsrFlagsSet(t, f) PROVE JoinInv'
  <2>1. Keeps({}) /\ UNCHANGED joinVars
    BY <1>3, IsrFlagsSetKeeps DEF IsrFlagsSet
  <2> QED BY <2>1, JoinsStand
<1>4. ASSUME Handler PROVE JoinInv'
  <2>1. CASE PendSVStart
    <3>1. UNCHANGED <<k, thread_join, joins, joinable>>
      BY <2>1 DEF PendSVStart, joinVars
    <3> QED BY <3>1 DEF JoinInv, Alive
  <2>2. CASE PendSVThread
    <3>1. UNCHANGED joinVars
      BY <2>2 DEF PendSVThread
    <3>2. \/ /\ Keeps({Head(isr_queue)})
             /\ k'.state[Head(isr_queue)] = "Ready"
          \/ Keeps({})
      BY <2>2, PendSVThreadKeeps
    <3> QED BY <3>1, <3>2, LivesOn, JoinsStand
  <2>3. CASE PendSVEnd
    <3>1. Keeps({}) /\ UNCHANGED joinVars
      BY <2>3, PendSVEndKeeps DEF PendSVEnd
    <3> QED BY <3>1, JoinsStand
  <2>4. CASE TickStart
    <3>1. Keeps({}) /\ UNCHANGED joinVars
      BY <2>4, TickStartKeeps DEF TickStart
    <3> QED BY <3>1, JoinsStand
  <2>5. CASE TickRelease
    <3>1. /\ Keeps({Head(k.delay_list)}) /\ k'.state[Head(k.delay_list)] = "Ready"
          /\ UNCHANGED joinVars
      BY <2>5, TickReleaseKeeps DEF TickRelease
    <3> QED BY <3>1, LivesOn
  <2>6. CASE TickEnd
    <3>1. Keeps({}) /\ UNCHANGED joinVars
      BY <2>6, TickEndKeeps DEF TickEnd
    <3> QED BY <3>1, JoinsStand
  <2>7. ASSUME NEW timeout \in Timeout, FlagsWaitEnter(timeout) PROVE JoinInv'
    BY <2>7, FlagsWaitEnterJoins
  <2> QED BY <1>4, <2>1, <2>2, <2>3, <2>4, <2>5, <2>6, <2>7 DEF Handler
<1>5. CASE UNCHANGED vars
  BY <1>5 DEF vars, JoinInv, Alive
<1> QED BY <1>1, <1>2, <1>3, <1>4, <1>5 DEF Next

\* As long as nobody suspends or resumes a thread blocked in osThreadJoin, the
\* thread that one waits for is alive and knows it: exit, termination, detach
\* and the reuse of a control block, in any order, for any number of joiners.
THEOREM JoinersRemembered ==
  ASSUME SparesJoiners
  PROVE  Spec => []JoinerNotForgotten
<1>1. Init => JoinInv
  BY JoinInvInit
<1>2. IInv /\ JoinInv /\ [Next]_vars => JoinInv'
  BY JoinInvNext
<1>3. JoinInv => JoinerNotForgotten
  BY DEF JoinInv, JoinerNotForgotten, Alive
<1> QED BY <1>1, <1>2, <1>3, Invariance, PTL DEF Spec

---------------------------------------------------------------------------
\* The order of the lists

\* The tick has released every thread whose time has come before anything else
\* looks at the delay list.
OrderInv ==
  /\ handler \in {"thread", "svc", "tick", "pendsv"}
  /\ Sorted(k, 0)
  /\ handler # "tick" => Sorted(k, 1)

LEMMA ServiceEndOrder ==
  ASSUME NEW after, Sorted(after, 1), ServiceEnd(after)
  PROVE  OrderInv'
<1>1. k' = Return(after) /\ handler' \in {"thread", "pendsv"}
  BY DEF ServiceEnd
<1>2. Sorted(k', 1) /\ Sorted(k', 0)
  BY <1>1, ReturnSorted, Lower
<1> QED BY <1>1, <1>2 DEF OrderInv

LEMMA ServiceOrder ==
  ASSUME NEW after, Sorted(after, 1), Service(after)
  PROVE  OrderInv'
BY ServiceEndOrder DEF Service

\* What a service finds, and its second half too.
LEMMA InOrder ==
  ASSUME IInv, OrderInv, handler # "tick"
  PROVE  /\ Sorted(k, 1) /\ Runs(k, {})
         /\ k.curr \in Thread /\ k.curr \notin ToSet(k.delay_list)
         /\ k.state[k.curr] = "Running"
         /\ \A t \in Thread :
              t \in ToSet(k.delay_list) => k.state[t] \in BlockedStates
<1>1. Sorted(k, 1) /\ Runs(k, {}) /\ k.curr = k.next
  BY DEF OrderInv, IInv
<1>2. /\ k.curr \in Thread /\ k.state[k.curr] = "Running"
      /\ \A t \in Thread :
           t \in ToSet(k.delay_list) => k.state[t] \in BlockedStates
  BY <1>1 DEF Runs, Typed, Placed
<1>3. "Running" \notin BlockedStates
  BY DEF BlockedStates, WaitStates
<1> QED BY <1>1, <1>2, <1>3

LEMMA Before ==
  ASSUME IInv, OrderInv, NEW after, Service(after)
  PROVE  /\ Sorted(k, 1) /\ Runs(k, {})
         /\ k.curr \in Thread /\ k.curr \notin ToSet(k.delay_list)
         /\ k.state[k.curr] = "Running"
         /\ \A t \in Thread :
              t \in ToSet(k.delay_list) => k.state[t] \in BlockedStates
BY InOrder DEF Service

LEMMA ThreadNewOrder ==
  ASSUME IInv, OrderInv, NEW t \in Thread, NEW p \in Priority, NEW j \in Joinability,
         ThreadNew(t, p, j)
  PROVE  OrderInv'
<1> DEFINE m == Begun(k, t, p)
           r == DispatchThread(m, t)
<1>1. Service(r) /\ k.state[t] = "Inactive" /\ p \in Nat
  BY ThreadAssumption DEF ThreadNew, Exists, Begun
<1>2. Sorted(k, 1) /\ Runs(k, {})
  BY <1>1, Before
<1>3. Sorted(m, 1)
  BY <1>1, <1>2, NewThreadSorted
<1> HIDE DEF m
<1>4. Sorted(r, 1)
  BY <1>3, DispatchThreadSorted
<1> HIDE DEF r
<1> QED BY <1>1, <1>4, ServiceOrder

\* Only flags, or the lock of the scheduler.
LEMMA IdleServiceOrder ==
  ASSUME IInv, OrderInv, Service(k)
  PROVE  OrderInv'
BY Before, ServiceOrder

LEMMA LockOrder ==
  ASSUME IInv, OrderInv, KernelLock \/ KernelUnlock
  PROVE  OrderInv'
<1>1. PICK s \in {"Running", "Locked"} : Service([k EXCEPT !.kernel = s])
  BY DEF KernelLock, KernelUnlock
<1> DEFINE m == [k EXCEPT !.kernel = s]
<1>2. Service(m)
  BY <1>1
<1>3. Sorted(k, 1) /\ Typed(k) /\ Ascends(k.ready, Urgency(k))
  BY <1>1, Before DEF Sorted
<1>4. Typed(m) /\ SameDelays(k, m) /\ m.ready = k.ready
  BY <1>3 DEF Typed, SameDelays
<1> HIDE DEF m
<1>5. Sorted(m, 1)
  BY <1>3, <1>4, Relisted
<1> QED BY <1>2, <1>5, ServiceOrder

LEMMA WaitOrder ==
  ASSUME IInv, OrderInv, NEW s \in WaitStates, NEW timeout \in Timeout \cup {Forever},
         CanSwitch(k), Service(WaitEnter(k, s, timeout))
  PROVE  OrderInv'
<1> DEFINE r == WaitEnter(k, s, timeout)
<1>1. Service(r)
  OBVIOUS
<1>2. /\ Sorted(k, 1) /\ k.curr \notin ToSet(k.delay_list) /\ k.ready # <<>>
      /\ s \in ThreadState
  BY <1>1, Before DEF CanSwitch, ThreadState, BlockedStates
<1>3. timeout \in Nat \cup {Forever} /\ (timeout = Forever \/ timeout >= 1)
  BY ThreadAssumption
<1>4. Sorted(r, 1)
  BY <1>2, <1>3, WaitEnterSorted
<1> HIDE DEF r
<1> QED BY <1>1, <1>4, ServiceOrder

LEMMA FlagsWaitEnterOrder ==
  ASSUME IInv, OrderInv, NEW timeout \in Timeout, FlagsWaitEnter(timeout)
  PROVE  OrderInv'
<1>1. /\ Sorted(k, 1) /\ k.curr \notin ToSet(k.delay_list)
      /\ "WaitingThreadFlags" \in ThreadState
  BY InOrder DEF FlagsWaitEnter, ThreadState, BlockedStates, WaitStates
<1>2. timeout \in Nat \cup {Forever} /\ (timeout = Forever \/ timeout >= 1)
  BY ThreadAssumption
<1>3. CASE CanSwitch(k)
  <2> DEFINE r == WaitEnter(k, "WaitingThreadFlags", timeout)
  <2>1. ServiceEnd(r)
    BY <1>3 DEF FlagsWaitEnter
  <2>2. k.ready # <<>>
    BY <1>3 DEF CanSwitch
  <2>3. Sorted(r, 1)
    BY <1>1, <1>2, <2>2, WaitEnterSorted
  <2> HIDE DEF r
  <2> QED BY <2>1, <2>3, ServiceEndOrder
<1>4. CASE ~CanSwitch(k)
  <2>1. ServiceEnd(k)
    BY <1>4 DEF FlagsWaitEnter
  <2> QED BY <1>1, <2>1, ServiceEndOrder
<1> QED BY <1>3, <1>4

LEMMA FreeOrder ==
  ASSUME IInv, OrderInv, NEW t \in Thread, Service([k EXCEPT !.state[t] = "Inactive"])
  PROVE  OrderInv'
<1> DEFINE r == [k EXCEPT !.state[t] = "Inactive"]
<1>1. Service(r) /\ "Inactive" \in ThreadState
  BY DEF ThreadState
<1>2. Sorted(r, 1)
  BY <1>1, Before, RestateSorted
<1> HIDE DEF r
<1> QED BY <1>1, <1>2, ServiceOrder

\* Whoever waited for t goes to its place in the ready list.
LEMMA JoinWakeupSorted ==
  ASSUME IInv, NEW s, Sorted(s, 1), NEW t \in Thread
  PROVE  LET r == JoinWakeup(s, t)
         IN  Sorted(r, 1) /\ SameRun(s, r) /\ (s.ready # <<>> => r.ready # <<>>)
<1>1. thread_join[t] \in Thread \cup {NoThread} /\ SameRun(s, s)
  BY DEF IInv, SameRun
<1> QED BY <1>1, WaitExitSorted DEF JoinWakeup

LEMMA DestroySorted ==
  ASSUME NEW s, Sorted(s, 1), NEW t \in Thread
  PROVE  LET r == Destroy(s, t)
         IN  /\ Sorted(r, 1) /\ SameDelays(s, r) /\ r.ready = s.ready
             /\ SameRun(s, r)
<1> DEFINE g == IF joinable[t] THEN "Terminated" ELSE "Inactive"
<1>1. g \in ThreadState /\ Destroy(s, t) = [s EXCEPT !.state[t] = g]
  BY DEF Destroy, ThreadState
<1> HIDE DEF g
<1> QED BY <1>1, RestateSorted

LEMMA ExitOrder ==
  ASSUME IInv, OrderInv, ThreadExit
  PROVE  OrderInv'
<1> DEFINE c == k.curr
           w == JoinWakeup(k, c)
           off == SwitchToReady(w)
           r == Destroy(off, c)
<1>1. Service(r) /\ k.ready # <<>>
  BY DEF ThreadExit, CanSwitch
<1>2. Sorted(k, 1) /\ c \in Thread
  BY <1>1, Before
<1> HIDE DEF c
<1>3. Sorted(w, 1) /\ w.ready # <<>>
  BY <1>1, <1>2, JoinWakeupSorted
<1> HIDE DEF w
<1>4. Sorted(off, 1)
  BY <1>3, SwitchToReadySorted
<1> HIDE DEF off
<1>5. Sorted(r, 1)
  BY <1>2, <1>4, DestroySorted
<1> HIDE DEF r
<1> QED BY <1>1, <1>5, ServiceOrder

LEMMA TerminateOrder ==
  ASSUME IInv, OrderInv, NEW t \in Thread, ThreadTerminate(t)
  PROVE  OrderInv'
<1> DEFINE u == Unlist(k, t)
           w == JoinWakeup(u, t)
           d == Dispatch(w)
           r == Destroy(d, t)
<1>1. Service(r)
  BY DEF ThreadTerminate
<1>2. Sorted(k, 1) /\ (t \in ToSet(k.delay_list) => k.state[t] \in BlockedStates)
  BY <1>1, Before
<1>3. Sorted(u, 1)
  BY <1>2, UnlistSorted
<1> HIDE DEF u
<1>4. Sorted(w, 1)
  BY <1>3, JoinWakeupSorted
<1> HIDE DEF w
<1>5. Sorted(d, 1)
  BY <1>4, DispatchSorted
<1> HIDE DEF d
<1>6. Sorted(r, 1)
  BY <1>5, DestroySorted
<1> HIDE DEF r
<1> QED BY <1>1, <1>6, ServiceOrder

LEMMA SetPriorityOrder ==
  ASSUME IInv, OrderInv, NEW t \in Thread, NEW p \in Priority, ThreadSetPriority(t, p)
  PROVE  OrderInv'
<1> DEFINE r == SetPriority(k, t, p)
<1>1. Service(r) /\ p \in Nat
  BY ThreadAssumption DEF ThreadSetPriority
<1>2. Sorted(k, 1) /\ Distinct(k.ready)
  BY <1>1, Before DEF Runs, Placed
<1>3. PICK m : /\ r = Dispatch(m) /\ Sorted(m, 1)
               /\ SameRun(k, m) /\ m.priority = [k.priority EXCEPT ![t] = p]
  BY <1>1, <1>2, RaiseSorted
<1> HIDE DEF r
<1>4. Sorted(r, 1)
  BY <1>3, DispatchSorted
<1> QED BY <1>1, <1>4, ServiceOrder

LEMMA SuspendOrder ==
  ASSUME IInv, OrderInv, NEW t \in Thread, ThreadSuspend(t)
  PROVE  OrderInv'
<1> DEFINE r == Suspend(k, t)
<1>1. Service(r) /\ Stoppable(k, t)
  BY DEF ThreadSuspend
<1>2. Sorted(k, 1) /\ (t \in ToSet(k.delay_list) => k.state[t] \in BlockedStates)
  BY <1>1, Before
<1>3. Sorted(r, 1)
  BY <1>1, <1>2, SuspendSorted
<1> HIDE DEF r
<1> QED BY <1>1, <1>3, ServiceOrder

\* osThreadResume, and osThreadFlagsSet that ends a wait.
LEMMA ResumeOrder ==
  ASSUME IInv, OrderInv, NEW t \in Thread,
         Service(Resume(k, t)) \/ Service(WaitExitDispatch(k, t))
  PROVE  OrderInv'
<1> DEFINE r == Resume(k, t)
<1>1. Sorted(k, 1)
  BY Before
<1>2. Sorted(r, 1) /\ Service(r)
  BY <1>1, ResumeSorted
<1> HIDE DEF r
<1> QED BY <1>2, ServiceOrder

LEMMA PendSVThreadOrder ==
  ASSUME IInv, OrderInv, PendSVThread
  PROVE  OrderInv'
<1> DEFINE t == Head(isr_queue)
<1>1. /\ handler = "pendsv" /\ UNCHANGED handler
      /\ k' = WaitExit(k, t) \/ k' = k
      /\ t \in Thread
  BY HeadTailProperties DEF PendSVThread, IInv
<1> HIDE DEF t
<1>2. Sorted(k, 1)
  BY <1>1 DEF OrderInv
<1>3. Sorted(k', 1)
  <2>1. CASE k' = k
    BY <1>2, <2>1
  <2>2. CASE k' = WaitExit(k, t)
    BY <1>1, <1>2, <2>2, WaitExitSorted
  <2> QED BY <1>1, <2>1, <2>2
<1>4. Sorted(k', 0)
  BY <1>3, Lower
<1> QED BY <1>1, <1>3, <1>4 DEF OrderInv

LEMMA PendSVEndOrder ==
  ASSUME OrderInv, PendSVEnd
  PROVE  OrderInv'
<1> DEFINE r == Dispatch(k)
<1>1. k' = Return(r) /\ handler' = "thread" /\ Sorted(k, 1)
  BY DEF PendSVEnd, OrderInv
<1>2. Sorted(r, 1)
  BY <1>1, DispatchSorted
<1> HIDE DEF r
<1>3. Sorted(k', 1) /\ Sorted(k', 0)
  BY <1>1, <1>2, ReturnSorted, Lower
<1> QED BY <1>1, <1>3 DEF OrderInv

LEMMA TickOrder ==
  ASSUME IInv, OrderInv, TickStart \/ TickRelease
  PROVE  OrderInv'
<1>1. CASE TickStart
  <2>1. k' = CountDown(k) /\ handler' = "tick" /\ Sorted(k, 1)
    BY <1>1 DEF TickStart, OrderInv
  <2>2. Sorted(k', 0)
    BY <2>1, CountDownSorted
  <2> QED BY <2>1, <2>2 DEF OrderInv
<1>2. CASE TickRelease
  <2>1. /\ k' = ReleaseHead(k) /\ handler' = "tick" /\ Sorted(k, 0)
        /\ k.delay_list # <<>>
    BY <1>2 DEF TickRelease, OrderInv, Expired
  <2>2. Sorted(k', 0)
    BY <2>1, ReleaseHeadSorted
  <2> QED BY <2>1, <2>2 DEF OrderInv
<1> QED BY <1>1, <1>2

LEMMA TickEndOrder ==
  ASSUME IInv, OrderInv, TickEnd
  PROVE  OrderInv'
<1> DEFINE d == Dispatch(k)
           r == RoundRobin(d)
<1>1. k' = Return(r) /\ handler' = "thread" /\ ~Expired(k)
  BY DEF TickEnd
<1>2. Sorted(k, 1)
  BY <1>1, NoneExpired DEF OrderInv
<1>3. Sorted(d, 1) /\ Runs(d, {})
  BY <1>2, DispatchSorted, DispatchRuns DEF IInv
<1> HIDE DEF d
<1>4. Sorted(r, 1)
  BY <1>3, RoundRobinSorted
<1> HIDE DEF r
<1>5. Sorted(k', 1) /\ Sorted(k', 0)
  BY <1>1, <1>4, ReturnSorted, Lower
<1> QED BY <1>1, <1>5 DEF OrderInv

---------------------------------------------------------------------------
LEMMA OrderInvInit ==
  ASSUME Init
  PROVE  OrderInv
<1>1. IInv
  BY IInvInit
<1>2. /\ k.ready = <<Idle>> /\ k.delay_list = <<>> /\ handler = "thread"
      /\ k.delay = [t \in Thread |-> 0]
  BY DEF Init
<1>3. Typed(k) /\ Distinct(k.delay_list)
  BY <1>1 DEF IInv, Runs, Placed
<1>4. Ascends(k.ready, Urgency(k)) /\ Ascends(k.delay_list, Due(k))
  <2>1. Urgency(k)[Idle] \in Int
    BY <1>3, RankTypes, ThreadAssumption
  <2> QED BY <1>2, <2>1 DEF Ascends
<1>5. ToSet(k.delay_list) = {}
  BY <1>2 DEF ToSet
<1>6. Sorted(k, 1)
  BY <1>2, <1>3, <1>4, <1>5 DEF Sorted
<1> QED BY <1>2, <1>6, Lower DEF OrderInv

LEMMA OrderInvNext ==
  ASSUME IInv, OrderInv, [Next]_vars
  PROVE  OrderInv'
<1>1. ASSUME NEW t \in Application, ThreadService(t) PROVE OrderInv'
  <2>1. t \in Thread
    BY DEF Application
  <2>2. ASSUME NEW p \in Priority, NEW j \in Joinability, ThreadNew(t, p, j) PROVE OrderInv'
    BY <2>1, <2>2, ThreadNewOrder
  <2>3. ASSUME NEW p \in Priority, ThreadSetPriority(t, p) PROVE OrderInv'
    BY <2>1, <2>3, SetPriorityOrder
  <2>4. CASE ThreadSuspend(t)
    BY <2>1, <2>4, SuspendOrder
  <2>5. CASE ThreadResume(t)
    BY <2>1, <2>5, ResumeOrder DEF ThreadResume
  <2>6. CASE ThreadDetach(t)
    BY <2>1, <2>6, FreeOrder, IdleServiceOrder DEF ThreadDetach
  <2>7. CASE ThreadJoinTerminated(t)
    BY <2>1, <2>7, FreeOrder DEF ThreadJoinTerminated
  <2>8. CASE ThreadJoinWait(t)
    <3>1. "WaitingJoin" \in WaitStates
      BY DEF WaitStates
    <3> QED BY <2>8, <3>1, WaitOrder DEF ThreadJoinWait
  <2>9. CASE ThreadTerminate(t)
    BY <2>1, <2>9, TerminateOrder
  <2>10. ASSUME NEW f \in FlagSet, FlagsSet(t, f) PROVE OrderInv'
    <3>1. Service(k) \/ Service(WaitExitDispatch(k, t))
      BY <2>10 DEF FlagsSet
    <3> QED BY <2>1, <3>1, IdleServiceOrder, ResumeOrder
  <2> QED BY <1>1, <2>2, <2>3, <2>4, <2>5, <2>6, <2>7, <2>8, <2>9, <2>10
          DEF ThreadService
<1>2. ASSUME OwnService PROVE OrderInv'
  <2>1. CASE ThreadYield
    <3> DEFINE r == Yield(k)
    <3>1. Service(r)
      BY <2>1 DEF ThreadYield
    <3>2. Sorted(r, 1)
      BY <3>1, Before, YieldSorted
    <3> HIDE DEF r
    <3> QED BY <3>1, <3>2, ServiceOrder
  <2>2. CASE ThreadExit
    BY <2>2, ExitOrder
  <2>3. ASSUME NEW ticks \in Timeout, Delay(ticks) PROVE OrderInv'
    <3>1. "WaitingDelay" \in WaitStates
      BY DEF WaitStates
    <3> QED BY <2>3, <3>1, WaitOrder DEF Delay
  <2>4. CASE KernelLock \/ KernelUnlock
    BY <2>4, LockOrder
  <2>5. ASSUME NEW f \in FlagSet, FlagsClear(f) PROVE OrderInv'
    BY <2>5, IdleServiceOrder DEF FlagsClear
  <2>6. ASSUME NEW w \in FlagWait, FlagsTake(w) PROVE OrderInv'
    BY <2>6, IdleServiceOrder DEF FlagsTake
  <2>7. ASSUME NEW w \in FlagWait, FlagsWaitFor(w) PROVE OrderInv'
    BY <2>7 DEF FlagsWaitFor, OrderInv
  <2> QED BY <1>2, <2>1, <2>2, <2>3, <2>4, <2>5, <2>6, <2>7 DEF OwnService
<1>3. ASSUME NEW t \in IsrTarget, NEW f \in FlagSet, IsrFlagsSet(t, f) PROVE OrderInv'
  BY <1>3 DEF IsrFlagsSet, OrderInv
<1>4. ASSUME Handler PROVE OrderInv'
  <2>1. CASE PendSVStart
    BY <2>1 DEF PendSVStart, OrderInv
  <2>2. CASE PendSVThread
    BY <2>2, PendSVThreadOrder
  <2>3. CASE PendSVEnd
    BY <2>3, PendSVEndOrder
  <2>4. CASE TickStart \/ TickRelease
    BY <2>4, TickOrder
  <2>5. CASE TickEnd
    BY <2>5, TickEndOrder
  <2>6. ASSUME NEW timeout \in Timeout, FlagsWaitEnter(timeout) PROVE OrderInv'
    BY <2>6, FlagsWaitEnterOrder
  <2> QED BY <1>4, <2>1, <2>2, <2>3, <2>4, <2>5, <2>6 DEF Handler
<1>5. CASE UNCHANGED vars
  BY <1>5 DEF vars, OrderInv
<1> QED BY <1>1, <1>2, <1>3, <1>4, <1>5 DEF Next

LEMMA OrderListsSorted ==
  ASSUME IInv, JoinInv, FlagsInv, OrderInv
  PROVE  ListsSorted
<1>1. /\ Typed(k) /\ k.ready \in Seq(Thread) /\ k.delay_list \in Seq(Thread)
      /\ k.priority \in [Thread -> Nat] /\ k.delay \in [Thread -> Int \cup {Forever}]
      /\ Ascends(k.ready, Urgency(k)) /\ Ascends(k.delay_list, Due(k))
      /\ \A t \in Thread : k.delay[t] \in Nat \cup {Forever}
      /\ \A t \in ToSet(k.delay_list) : k.delay[t] # Forever
  BY RankTypes DEF OrderInv, Sorted
<1>2. TypeOK
  <2>1. k.delay \in [Thread -> Nat \cup {Forever}]
    BY <1>1
  <2>2. k \in Scheduler
    BY <1>1, <2>1 DEF Typed, Scheduler
  <2> QED BY <2>2 DEF TypeOK, IInv, JoinInv, FlagsInv, OrderInv
<1>3. ReadySorted
  <2> SUFFICES ASSUME NEW i \in DOMAIN k.ready, NEW j \in DOMAIN k.ready, i < j
               PROVE  k.priority[k.ready[i]] >= k.priority[k.ready[j]]
    BY DEF ReadySorted
  <2>1. k.ready[i] \in Thread /\ k.ready[j] \in Thread
    BY <1>1
  <2>2. Urgency(k)[k.ready[i]] <= Urgency(k)[k.ready[j]]
    BY <1>1 DEF Ascends
  <2> QED BY <1>1, <2>1, <2>2 DEF Urgency
<1>4. DelaySorted
  <2> SUFFICES ASSUME NEW i \in DOMAIN k.delay_list, NEW j \in DOMAIN k.delay_list, i < j
               PROVE  k.delay[k.delay_list[i]] <= k.delay[k.delay_list[j]]
    BY DEF DelaySorted
  <2>1. k.delay_list[i] \in Thread /\ k.delay_list[j] \in Thread
    BY <1>1
  <2>2. k.delay_list[i] \in ToSet(k.delay_list) /\ k.delay_list[j] \in ToSet(k.delay_list)
    BY DEF ToSet
  <2>3. Due(k)[k.delay_list[i]] <= Due(k)[k.delay_list[j]]
    BY <1>1 DEF Ascends
  <2> QED BY <1>1, <2>1, <2>2, <2>3 DEF Due
<1> QED BY <1>2, <1>3, <1>4 DEF ListsSorted

\* As long as nobody suspends or resumes a thread blocked in osThreadJoin, the
\* ready list is ordered by priority and the delay list by the ticks left, all
\* variables have their types and no count of ticks underflows: every service,
\* tick and interrupt puts a thread in its place, for any number of threads.
THEOREM ListsStaySorted ==
  ASSUME SparesJoiners
  PROVE  Spec => []ListsSorted
<1>1. Init => JoinInv /\ FlagsInv /\ OwnFlagsSeen /\ OrderInv
  BY JoinInvInit, FlagsInvInit, OrderInvInit DEF Init, OwnFlagsSeen
<1>2. IInv /\ JoinInv /\ FlagsInv /\ OwnFlagsSeen /\ OrderInv /\ [Next]_vars
        => JoinInv' /\ FlagsInv' /\ OwnFlagsSeen' /\ OrderInv'
  BY JoinInvNext, FlagsInvNext, OwnFlagsSeenNext, OrderInvNext
<1>3. IInv /\ JoinInv /\ FlagsInv /\ OrderInv => ListsSorted
  BY OrderListsSorted
<1> QED BY <1>1, <1>2, <1>3, Invariance, PTL DEF Spec

---------------------------------------------------------------------------
\* The thread that runs

\* What OnlyUnlockDefers says of a step.
Kept ==
  Schedulable' => \/ HighestRuns'
                  \/ handler = "thread" /\ k.kernel = "Locked"
                  \/ handler = "thread" /\ ~HighestRuns

\* When the scheduler is unlocked, and the highest priority runs.
Settled(s) == Sorted(s, 1) /\ s.kernel = "Running" /\ s.curr = s.next /\ Tops(s)

LEMMA ReturnHighest ==
  ASSUME NEW after, Tops(after), k' = Return(after), Typed(after)
  PROVE  Kept
<1>1. k'.ready = after.ready /\ k'.priority = after.priority /\ k'.curr = after.next
  BY DEF Return, Typed
<1> QED BY <1>1 DEF Kept, HighestRuns, Tops, Outranked

LEMMA ServiceKept ==
  ASSUME IInv, OrderInv, NEW after, Service(after), Typed(after),
         Settled(k) => Tops(after)
  PROVE  Kept
<1>1. /\ handler = "thread" /\ k' = Return(after) /\ Sorted(k, 1) /\ k.curr = k.next
      /\ k.kernel \in {"Running", "Locked"}
  BY DEF Service, ServiceEnd, OrderInv, IInv, Sorted, Typed
<1>2. CASE k.kernel = "Running" /\ HighestRuns
  <2>1. Settled(k)
    BY <1>1, <1>2 DEF Settled, HighestRuns, Tops, Outranked
  <2> QED BY <1>1, <2>1, ReturnHighest
<1> QED BY <1>1, <1>2 DEF Kept

\* The next state decides: the service settles what it left.
LEMMA SortedKept ==
  ASSUME IInv, OrderInv, NEW after, Service(after), Sorted(after, 1),
         Settled(k) => Tops(after)
  PROVE  Kept
BY ServiceKept DEF Sorted

LEMMA ThreadNewKept ==
  ASSUME IInv, OrderInv, NEW t \in Thread, NEW p \in Priority, NEW j \in Joinability,
         ThreadNew(t, p, j)
  PROVE  Kept
<1> DEFINE m == Begun(k, t, p)
           r == DispatchThread(m, t)
<1>1. Service(r) /\ k.state[t] = "Inactive" /\ p \in Nat
  BY ThreadAssumption DEF ThreadNew, Exists, Begun
<1>2. Sorted(k, 1) /\ Runs(k, {})
  BY <1>1, Before
<1>3. /\ Sorted(m, 1) /\ SameRun(k, m) /\ m.ready = k.ready
      /\ \A u \in Thread : u # t => m.priority[u] = k.priority[u]
  BY <1>1, <1>2, NewThreadSorted
<1>4. t \notin ToSet(k.ready) /\ t # k.next
  BY <1>1, <1>2 DEF Runs, Placed
<1> HIDE DEF m
<1>5. Sorted(r, 1)
  BY <1>3, DispatchThreadSorted
<1>6. ASSUME Settled(k) PROVE Tops(r)
  <2>1. \A u \in ToSet(k.ready) : u \in Thread /\ u # t
    BY <1>2, <1>4, RankTypes DEF Sorted, ToSet
  <2>2. k.next \in Thread /\ m.kernel = "Running" /\ m.curr = m.next /\ m.next = k.next
    BY <1>2, <1>3, <1>6, RankTypes DEF Settled, SameRun, Sorted
  <2>3. Tops(m)
    BY <1>3, <1>4, <1>6, <2>1, <2>2 DEF Settled, Tops, Outranked
  <2> QED BY <1>3, <2>2, <2>3, DispatchThreadTops
<1> HIDE DEF r
<1> QED BY <1>1, <1>5, <1>6, SortedKept

LEMMA IdleServiceKept ==
  ASSUME IInv, OrderInv, Service(k)
  PROVE  Kept
BY Before, SortedKept DEF Settled

\* The lock keeps the handlers from dispatching, and its release is excepted.
LEMMA LockKept ==
  ASSUME IInv, OrderInv, KernelLock \/ KernelUnlock
  PROVE  Kept
<1>1. CASE KernelLock
  <2>1. k' = Return([k EXCEPT !.kernel = "Locked"]) /\ Typed(k)
    BY <1>1 DEF KernelLock, Service, ServiceEnd, IInv, Runs
  <2>2. k'.kernel = "Locked"
    BY <2>1 DEF Return, Typed
  <2> QED BY <2>2 DEF Kept, Schedulable
<1>2. CASE KernelUnlock
  BY <1>2 DEF KernelUnlock, Service, ServiceEnd, Kept
<1> QED BY <1>1, <1>2

LEMMA WaitKept ==
  ASSUME IInv, OrderInv, NEW s \in WaitStates, NEW timeout \in Timeout \cup {Forever},
         CanSwitch(k), Service(WaitEnter(k, s, timeout))
  PROVE  Kept
<1> DEFINE r == WaitEnter(k, s, timeout)
<1>1. Service(r)
  OBVIOUS
<1>2. /\ Sorted(k, 1) /\ k.curr \notin ToSet(k.delay_list) /\ k.ready # <<>>
      /\ s \in ThreadState
  BY <1>1, Before DEF CanSwitch, ThreadState, BlockedStates
<1>3. timeout \in Nat \cup {Forever} /\ (timeout = Forever \/ timeout >= 1)
  BY ThreadAssumption
<1>4. Sorted(r, 1) /\ Tops(r)
  BY <1>2, <1>3, WaitEnterSorted, WaitEnterTops
<1> HIDE DEF r
<1> QED BY <1>1, <1>4, SortedKept

\* The thread waits, and so the highest priority runs, or there is nobody else
\* to run, or the scheduler is locked.
LEMMA FlagsWaitEnterKept ==
  ASSUME IInv, OrderInv, NEW timeout \in Timeout, FlagsWaitEnter(timeout)
  PROVE  Kept
<1>1. /\ Sorted(k, 1) /\ k.curr \notin ToSet(k.delay_list)
      /\ "WaitingThreadFlags" \in ThreadState /\ Typed(k)
  BY InOrder DEF FlagsWaitEnter, ThreadState, BlockedStates, WaitStates, Runs
<1>2. timeout \in Nat \cup {Forever} /\ (timeout = Forever \/ timeout >= 1)
  BY ThreadAssumption
<1>3. CASE CanSwitch(k)
  <2> DEFINE r == WaitEnter(k, "WaitingThreadFlags", timeout)
  <2>1. k' = Return(r)
    BY <1>3 DEF FlagsWaitEnter, ServiceEnd
  <2>2. k.ready # <<>>
    BY <1>3 DEF CanSwitch
  <2>3. Sorted(r, 1) /\ Tops(r)
    BY <1>1, <1>2, <2>2, WaitEnterSorted, WaitEnterTops
  <2> HIDE DEF r
  <2> QED BY <2>1, <2>3, ReturnHighest DEF Sorted
<1>4. CASE ~CanSwitch(k)
  <2>1. k' = Return(k)
    BY <1>4 DEF FlagsWaitEnter, ServiceEnd
  <2>2. k'.kernel = k.kernel /\ k'.ready = k.ready
    BY <1>1, <2>1 DEF Return, Typed
  <2>3. CASE k.ready = <<>>
    <3>1. ToSet(k'.ready) = {}
      BY <2>2, <2>3 DEF ToSet
    <3> QED BY <3>1 DEF Kept, HighestRuns
  <2>4. CASE k.kernel # "Running"
    BY <2>2, <2>4 DEF Kept, Schedulable
  <2> QED BY <1>4, <2>3, <2>4 DEF CanSwitch
<1> QED BY <1>3, <1>4

LEMMA FreeKept ==
  ASSUME IInv, OrderInv, NEW t \in Thread, Service([k EXCEPT !.state[t] = "Inactive"])
  PROVE  Kept
<1> DEFINE r == [k EXCEPT !.state[t] = "Inactive"]
<1>1. Service(r) /\ "Inactive" \in ThreadState /\ Sorted(k, 1)
  BY Before DEF ThreadState
<1>2. Sorted(r, 1) /\ (Tops(k) => Tops(r))
  BY <1>1, RestateSorted, RestateTops
<1> HIDE DEF r
<1> QED BY <1>1, <1>2, SortedKept DEF Settled

LEMMA DestroyTops ==
  ASSUME NEW s, Sorted(s, 1), Tops(s), NEW t \in Thread
  PROVE  Tops(Destroy(s, t))
<1> DEFINE r == Destroy(s, t)
<1>1. SameDelays(s, r) /\ r.ready = s.ready /\ SameRun(s, r)
  BY DestroySorted
<1> HIDE DEF r
<1>2. Outranked(r, r.next)
  BY <1>1, FewerOutranked DEF Tops, SameDelays, SameRun
<1> QED BY <1>2 DEF Tops, r

LEMMA ExitKept ==
  ASSUME IInv, OrderInv, ThreadExit
  PROVE  Kept
<1> DEFINE c == k.curr
           w == JoinWakeup(k, c)
           off == SwitchToReady(w)
           r == Destroy(off, c)
<1>1. Service(r) /\ k.ready # <<>>
  BY DEF ThreadExit, CanSwitch
<1>2. Sorted(k, 1) /\ c \in Thread
  BY <1>1, Before
<1> HIDE DEF c
<1>3. Sorted(w, 1) /\ w.ready # <<>>
  BY <1>1, <1>2, JoinWakeupSorted
<1> HIDE DEF w
<1>4. Sorted(off, 1) /\ Tops(off)
  BY <1>3, SwitchToReadySorted, SwitchToReadyTops
<1> HIDE DEF off
<1>5. Sorted(r, 1) /\ Tops(r)
  BY <1>2, <1>4, DestroySorted, DestroyTops
<1> HIDE DEF r
<1> QED BY <1>1, <1>5, SortedKept

LEMMA TerminateKept ==
  ASSUME IInv, OrderInv, NEW t \in Thread, ThreadTerminate(t)
  PROVE  Kept
<1> DEFINE u == Unlist(k, t)
           w == JoinWakeup(u, t)
           d == Dispatch(w)
           r == Destroy(d, t)
<1>1. Service(r)
  BY DEF ThreadTerminate
<1>2. Sorted(k, 1) /\ (t \in ToSet(k.delay_list) => k.state[t] \in BlockedStates)
  BY <1>1, Before
<1>3. Sorted(u, 1) /\ SameRun(k, u)
  BY <1>2, UnlistSorted
<1> HIDE DEF u
<1>4. Sorted(w, 1) /\ SameRun(u, w)
  BY <1>3, JoinWakeupSorted
<1> HIDE DEF w
<1>5. Sorted(d, 1)
  BY <1>4, DispatchSorted
<1>6. ASSUME Settled(k) PROVE Tops(d)
  <2>1. w.kernel = "Running" /\ w.curr = w.next
    BY <1>3, <1>4, <1>6 DEF Settled, SameRun
  <2> QED BY <1>4, <2>1, DispatchTops
<1> HIDE DEF d
<1>7. Sorted(r, 1) /\ (Tops(d) => Tops(r))
  BY <1>5, DestroySorted, DestroyTops
<1> HIDE DEF r
<1> QED BY <1>1, <1>6, <1>7, SortedKept

LEMMA SetPriorityKept ==
  ASSUME IInv, OrderInv, NEW t \in Thread, NEW p \in Priority, ThreadSetPriority(t, p)
  PROVE  Kept
<1> DEFINE r == SetPriority(k, t, p)
<1>1. Service(r) /\ p \in Nat
  BY ThreadAssumption DEF ThreadSetPriority
<1>2. Sorted(k, 1) /\ Distinct(k.ready)
  BY <1>1, Before DEF Runs, Placed
<1>3. PICK m : /\ r = Dispatch(m) /\ Sorted(m, 1)
               /\ SameRun(k, m) /\ m.priority = [k.priority EXCEPT ![t] = p]
  BY <1>1, <1>2, RaiseSorted
<1> HIDE DEF r
<1>4. Sorted(r, 1)
  BY <1>3, DispatchSorted
<1>5. ASSUME Settled(k) PROVE Tops(r)
  <2>1. m.kernel = "Running" /\ m.curr = m.next
    BY <1>3, <1>5 DEF Settled, SameRun
  <2> QED BY <1>3, <2>1, DispatchTops
<1> QED BY <1>1, <1>4, <1>5, SortedKept

LEMMA SuspendKept ==
  ASSUME IInv, OrderInv, NEW t \in Thread, ThreadSuspend(t)
  PROVE  Kept
<1> DEFINE r == Suspend(k, t)
<1>1. Service(r) /\ Stoppable(k, t)
  BY DEF ThreadSuspend
<1>2. /\ Sorted(k, 1) /\ Distinct(k.ready)
      /\ (t \in ToSet(k.delay_list) => k.state[t] \in BlockedStates)
  BY <1>1, Before DEF Runs, Placed
<1>3. Sorted(r, 1) /\ (Tops(k) => Tops(r))
  BY <1>1, <1>2, SuspendSorted, SuspendTops
<1> HIDE DEF r
<1> QED BY <1>1, <1>3, SortedKept DEF Settled

LEMMA ResumeKept ==
  ASSUME IInv, OrderInv, NEW t \in Thread,
         Service(Resume(k, t)) \/ Service(WaitExitDispatch(k, t))
  PROVE  Kept
<1> DEFINE r == Resume(k, t)
<1>1. Sorted(k, 1)
  BY Before
<1>2. Sorted(r, 1) /\ Service(r)
  BY <1>1, ResumeSorted
<1>3. Settled(k) => Tops(r)
  BY ResumeTops DEF Settled
<1> HIDE DEF r
<1> QED BY <1>2, <1>3, SortedKept

LEMMA YieldKept ==
  ASSUME IInv, OrderInv, ThreadYield
  PROVE  Kept
<1> DEFINE r == Yield(k)
<1>1. Service(r)
  BY DEF ThreadYield
<1>2. Sorted(r, 1) /\ (Settled(k) => Tops(r))
  BY <1>1, Before, YieldSorted, YieldTops DEF Settled
<1> HIDE DEF r
<1> QED BY <1>1, <1>2, SortedKept

\* PendSV and SysTick end with a look at the head of the ready list.
LEMMA PendSVEndKept ==
  ASSUME IInv, OrderInv, PendSVEnd
  PROVE  Kept
<1> DEFINE r == Dispatch(k)
<1>1. k' = Return(r) /\ Sorted(k, 1) /\ Runs(k, {}) /\ k.curr = k.next
  BY DEF PendSVEnd, OrderInv, IInv
<1>2. Runs(r, {}) /\ r.kernel = k.kernel /\ Sorted(r, 1)
  BY <1>1, DispatchRuns, DispatchSorted
<1>3. k.kernel = "Running" => Tops(r)
  BY <1>1, DispatchTops
<1> HIDE DEF r
<1>4. k'.kernel = k.kernel /\ Typed(r)
  BY <1>1, <1>2 DEF Return, Runs, Typed
<1> QED BY <1>1, <1>3, <1>4, ReturnHighest DEF Kept, Schedulable

LEMMA TickEndKept ==
  ASSUME IInv, OrderInv, TickEnd
  PROVE  Kept
<1> DEFINE d == Dispatch(k)
           r == RoundRobin(d)
<1>1. k' = Return(r) /\ ~Expired(k) /\ Runs(k, {}) /\ k.curr = k.next
  BY DEF TickEnd, IInv
<1>2. Sorted(k, 1)
  BY <1>1, NoneExpired DEF OrderInv
<1>3. Sorted(d, 1) /\ Runs(d, {}) /\ d.kernel = k.kernel /\ d.curr = k.curr
  BY <1>1, <1>2, DispatchSorted, DispatchRuns
<1>4. k.kernel = "Running" => Tops(d)
  BY <1>1, <1>2, DispatchTops
<1> HIDE DEF d
<1>5. Sorted(r, 1) /\ (Tops(d) => Tops(r))
  BY <1>3, RoundRobinSorted, RoundRobinTops
<1>6. r.kernel = d.kernel
  BY <1>3 DEF RoundRobin, Switch, ReadyPut, Runs, Typed
<1> HIDE DEF r
<1>7. k'.kernel = k.kernel /\ Typed(r)
  BY <1>1, <1>3, <1>5, <1>6 DEF Return, Sorted, Typed
<1> QED BY <1>1, <1>4, <1>5, <1>7, ReturnHighest DEF Kept, Schedulable

LEMMA NextKept ==
  ASSUME IInv, OrderInv, Next
  PROVE  Kept
<1>1. ASSUME NEW t \in Application, ThreadService(t) PROVE Kept
  <2>1. t \in Thread
    BY DEF Application
  <2>2. ASSUME NEW p \in Priority, NEW j \in Joinability, ThreadNew(t, p, j) PROVE Kept
    BY <2>1, <2>2, ThreadNewKept
  <2>3. ASSUME NEW p \in Priority, ThreadSetPriority(t, p) PROVE Kept
    BY <2>1, <2>3, SetPriorityKept
  <2>4. CASE ThreadSuspend(t)
    BY <2>1, <2>4, SuspendKept
  <2>5. CASE ThreadResume(t)
    BY <2>1, <2>5, ResumeKept DEF ThreadResume
  <2>6. CASE ThreadDetach(t)
    BY <2>1, <2>6, FreeKept, IdleServiceKept DEF ThreadDetach
  <2>7. CASE ThreadJoinTerminated(t)
    BY <2>1, <2>7, FreeKept DEF ThreadJoinTerminated
  <2>8. CASE ThreadJoinWait(t)
    <3>1. "WaitingJoin" \in WaitStates
      BY DEF WaitStates
    <3> QED BY <2>8, <3>1, WaitKept DEF ThreadJoinWait
  <2>9. CASE ThreadTerminate(t)
    BY <2>1, <2>9, TerminateKept
  <2>10. ASSUME NEW f \in FlagSet, FlagsSet(t, f) PROVE Kept
    <3>1. Service(k) \/ Service(WaitExitDispatch(k, t))
      BY <2>10 DEF FlagsSet
    <3> QED BY <2>1, <3>1, IdleServiceKept, ResumeKept
  <2> QED BY <1>1, <2>2, <2>3, <2>4, <2>5, <2>6, <2>7, <2>8, <2>9, <2>10
          DEF ThreadService
<1>2. ASSUME OwnService PROVE Kept
  <2>1. CASE ThreadYield
    BY <2>1, YieldKept
  <2>2. CASE ThreadExit
    BY <2>2, ExitKept
  <2>3. ASSUME NEW ticks \in Timeout, Delay(ticks) PROVE Kept
    <3>1. "WaitingDelay" \in WaitStates
      BY DEF WaitStates
    <3> QED BY <2>3, <3>1, WaitKept DEF Delay
  <2>4. CASE KernelLock \/ KernelUnlock
    BY <2>4, LockKept
  <2>5. ASSUME NEW f \in FlagSet, FlagsClear(f) PROVE Kept
    BY <2>5, IdleServiceKept DEF FlagsClear
  <2>6. ASSUME NEW w \in FlagWait, FlagsTake(w) PROVE Kept
    BY <2>6, IdleServiceKept DEF FlagsTake
  <2>7. ASSUME NEW w \in FlagWait, FlagsWaitFor(w) PROVE Kept
    BY <2>7 DEF FlagsWaitFor, Kept, Schedulable
  <2> QED BY <1>2, <2>1, <2>2, <2>3, <2>4, <2>5, <2>6, <2>7 DEF OwnService
\* An interrupt that does not disturb the scheduler leaves what there was.
<1>3. ASSUME NEW t \in IsrTarget, NEW f \in FlagSet, IsrFlagsSet(t, f) PROVE Kept
  BY <1>3 DEF IsrFlagsSet, Kept, Schedulable, HighestRuns
<1>4. ASSUME Handler PROVE Kept
  <2>1. CASE PendSVStart \/ PendSVThread \/ TickStart \/ TickRelease
    <3>1. handler' # "thread"
      BY <2>1 DEF PendSVStart, PendSVThread, TickStart, TickRelease
    <3> QED BY <3>1 DEF Kept, Schedulable
  <2>2. CASE PendSVEnd
    BY <2>2, PendSVEndKept
  <2>3. CASE TickEnd
    BY <2>3, TickEndKept
  <2>4. ASSUME NEW timeout \in Timeout, FlagsWaitEnter(timeout) PROVE Kept
    BY <2>4, FlagsWaitEnterKept
  <2> QED BY <1>4, <2>1, <2>2, <2>3, <2>4 DEF Handler
<1> QED BY <1>1, <1>2, <1>3, <1>4 DEF Next

\* A higher-priority thread is kept waiting only by a kernel lock, as long as
\* nobody suspends or resumes a thread blocked in osThreadJoin: for any number
\* of threads and priorities, every service, tick and interrupt that leaves the
\* scheduler unlocked leaves the highest priority running, except
\* osKernelUnlock (rtx_kernel.c:317).
THEOREM HighestPriorityRuns ==
  ASSUME SparesJoiners
  PROVE  Spec => OnlyUnlockDefers
<1>1. Init => OrderInv
  BY OrderInvInit
<1>2. IInv /\ OrderInv /\ [Next]_vars => OrderInv'
  BY OrderInvNext
<1>3. IInv /\ OrderInv /\ [Next]_vars => [Kept]_vars
  BY NextKept
<1>4. OnlyUnlockDefers <=> [][Kept]_vars
  BY DEF OnlyUnlockDefers, Kept
<1> QED BY <1>1, <1>2, <1>3, <1>4, Invariance, PTL DEF Spec

===========================================================================
