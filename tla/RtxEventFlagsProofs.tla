------------------------ MODULE RtxEventFlagsProofs ------------------------
(***************************************************************************)
(* Proofs about RtxEventFlags, for any threads, objects, flags and         *)
(* interrupts: the list of each object holds who waits for it, and nobody  *)
(* waits for flags that are set unless they are going to be checked again, *)
(* whatever interrupts do between the steps of a walk.                     *)
(***************************************************************************)
EXTENDS RtxEventFlags, RtxObjectProofs

---------------------------------------------------------------------------
\* What is at work.  A walk has threads of the list still to check; a failed
\* check is followed by the wait, and an entry has come if it would not fail now.
Idling   == walk = None /\ handler # "svc"

Walks == \E ef \in Object, threads \in Seq(Thread) :
  /\ walk = Checking(ef, threads)
  /\ Distinct(threads) /\ ToSet(threads) \subseteq ToSet(thread_list[ef])
  /\ handler \in {"svc", "pendsv"}

Failed == \E ef \in Object, w \in FlagWait, timeout \in Timeout :
  /\ walk = WaitFailed(ef, w, timeout)
  /\ id[ef] /\ handler = "svc"
  /\ Satisfies(event_flags[ef], w) => ef \in ToSet(isr_queue)

\* Who is in a list says what it waits for.
WaitsKnown == \A ef \in Object : \A t \in ToSet(thread_list[ef]) : wait[t] \in FlagWait

\* The inductive invariant
EventInv ==
  /\ KernelInv
  /\ isr_queue \in Seq(Object) /\ Len(isr_queue) <= IsrLimit
  /\ event_flags \in [Object -> SUBSET Flag]
  /\ wait \in [Thread -> FlagWait \cup {NoWait}]
  /\ WaitsKnown
  /\ Idling \/ Walks \/ Failed
  /\ NoMissedEvent

\* Whether the walk will check t for the flags of ef, and whether all who wait for
\* them will be checked.
OnWalk(ef, t) == walk.do = "check" /\ walk.ef = ef /\ t \in ToSet(walk.threads)
Rechecked(ef) ==
  ef \in ToSet(isr_queue) \/ \A t \in ToSet(thread_list[ef]) : OnWalk(ef, t)

---------------------------------------------------------------------------
\* Facts about flags

LEMMA FewerFlags ==
  ASSUME NEW f, NEW g, f \subseteq g, NEW w \in FlagWait
  PROVE  /\ Satisfies(f, w) => Satisfies(g, w)
         /\ ~Satisfies({}, w)
         /\ Taken(f, w) \subseteq f
<1>0. w.flags \in FlagSet
  BY DEF FlagWait
<1>1. w.flags # {}
  BY <1>0 DEF FlagSet
<1>2. ~Satisfies({}, w)
  BY <1>1 DEF Satisfies
<1>3. Satisfies(f, w) => Satisfies(g, w)
  BY DEF Satisfies
<1>4. Taken(f, w) \subseteq f
  BY DEF Taken
<1> QED
  BY <1>2, <1>3, <1>4

\* What the actions do to the flags of one object.
LEMMA ChangedFlags ==
  ASSUME event_flags \in [Object -> SUBSET Flag], NEW ef \in Object, NEW f \in SUBSET Flag,
         event_flags' = [event_flags EXCEPT ![ef] = f]
  PROVE  /\ event_flags' \in [Object -> SUBSET Flag] /\ event_flags'[ef] = f
         /\ \A e \in Object : e # ef => event_flags'[e] = event_flags[e]
OBVIOUS

LEMMA TakenFlags ==
  ASSUME event_flags \in [Object -> SUBSET Flag], NEW ef \in Object, NEW w \in FlagWait,
         Take(ef, w)
  PROVE  /\ event_flags' \in [Object -> SUBSET Flag]
         /\ \A e \in Object : event_flags'[e] \subseteq event_flags[e]
<1>1. Taken(event_flags[ef], w) \subseteq event_flags[ef]
  BY FewerFlags
<1>2. event_flags' = [event_flags EXCEPT ![ef] = Taken(event_flags[ef], w)]
  BY DEF Take
<1>3. Taken(event_flags[ef], w) \in SUBSET Flag
  BY <1>1
<1> QED
  BY <1>1, <1>2, <1>3, ChangedFlags

LEMMA ClearedFlags ==
  ASSUME event_flags \in [Object -> SUBSET Flag], NEW ef \in Object, NEW f, Clear(ef, f)
  PROVE  /\ event_flags' \in [Object -> SUBSET Flag]
         /\ \A e \in Object : event_flags'[e] \subseteq event_flags[e]
<1>1. event_flags' = [event_flags EXCEPT ![ef] = event_flags[ef] \ f]
  BY DEF Clear
<1>2. event_flags[ef] \ f \in SUBSET Flag
  OBVIOUS
<1> QED
  BY <1>1, <1>2, ChangedFlags

LEMMA SetFlags ==
  ASSUME event_flags \in [Object -> SUBSET Flag], NEW ef \in Object, NEW f \in FlagSet,
         Set(ef, f)
  PROVE  /\ event_flags' \in [Object -> SUBSET Flag]
         /\ \A e \in Object : e # ef => event_flags'[e] = event_flags[e]
<1>1. event_flags' = [event_flags EXCEPT ![ef] = event_flags[ef] \cup f]
  BY DEF Set
<1>2. event_flags[ef] \cup f \in SUBSET Flag
  BY DEF FlagSet
<1> QED
  BY <1>1, <1>2, ChangedFlags

---------------------------------------------------------------------------
\* What the invariant says of a walk and of the threads that wait

LEMMA AtWork ==
  ASSUME EventInv
  PROVE  /\ handler = "thread" \/ handler = "tick" => walk = None
         /\ walk = None => handler # "svc"
         /\ walk.do = "check" => Walks
         /\ walk.do = "wait" => Failed
         /\ \A ef, t : walk = None => ~OnWalk(ef, t)
BY DEF EventInv, Idling, Walks, Failed, None, Checking, WaitFailed, OnWalk

\* Nobody waits in vain after a step in which nobody begins to wait: of each object,
\* those who wait are going to be checked, or its flags are fewer and whoever was
\* to be checked is so still.
LEMMA MissesNone ==
  ASSUME EventInv, wait' = wait, Fewer(Object, thread_list', thread_list),
         \A ef \in Object :
           \/ Rechecked(ef)'
           \/ /\ event_flags'[ef] \subseteq event_flags[ef] /\ ef \notin ToSet(isr_queue)
              /\ \A t : OnWalk(ef, t) => OnWalk(ef, t)'
  PROVE  WaitsKnown' /\ NoMissedEvent'
<1>1. WaitsKnown'
  BY DEF EventInv, WaitsKnown, Fewer
<1> SUFFICES ASSUME NEW ef \in Object, NEW t \in Thread, Satisfied(ef, t)',
                    ~Rechecked(ef)'
             PROVE  OnWalk(ef, t)'
  BY <1>1 DEF NoMissedEvent, Rechecked, OnWalk, Satisfied
<1>2. /\ event_flags'[ef] \subseteq event_flags[ef] /\ ef \notin ToSet(isr_queue)
      /\ OnWalk(ef, t) => OnWalk(ef, t)'
  OBVIOUS
<1>3. t \in ToSet(thread_list[ef]) /\ wait[t] \in FlagWait
  BY DEF Satisfied, Fewer, EventInv, WaitsKnown
<1>4. Satisfies(event_flags'[ef], wait[t])
  BY DEF Satisfied
<1>5. Satisfied(ef, t)
  BY <1>2, <1>3, <1>4, FewerFlags DEF Satisfied
<1> QED
  BY <1>2, <1>5 DEF EventInv, NoMissedEvent, OnWalk

\* A step that ends with nothing at work, after which nobody need be checked who
\* was not before.
LEMMA QuietStep ==
  ASSUME EventInv, KernelInv', Shrinks, walk' = None, handler' # "svc",
         isr_queue' = isr_queue, wait' = wait, event_flags' \in [Object -> SUBSET Flag],
         \A ef \in Object : event_flags'[ef] \subseteq event_flags[ef],
         \A ef, t : ~OnWalk(ef, t)
  PROVE  EventInv'
<1>1. \A ef \in Object : ef \in ToSet(isr_queue) => Rechecked(ef)'
  BY DEF Rechecked
<1>2. WaitsKnown' /\ NoMissedEvent'
  BY <1>1, MissesNone DEF Shrinks
<1> QED
  BY <1>2 DEF EventInv, Idling

\* An interrupt during a walk or between two.
LEMMA InterruptStep ==
  ASSUME EventInv, UNCHANGED <<k, id, thread_list, handler, wait, walk>>,
         isr_queue' \in Seq(Object), Len(isr_queue') <= IsrLimit,
         event_flags' \in [Object -> SUBSET Flag],
         \A ef \in Object : ef \in ToSet(isr_queue) => ef \in ToSet(isr_queue'),
         \A ef \in Object : event_flags'[ef] \subseteq event_flags[ef] \/ ef \in ToSet(isr_queue')
  PROVE  EventInv'
<1>1. KernelInv'
  BY HandlerKeeps DEF EventInv, KernelInv
<1>2. \A ef \in Object : ef \in ToSet(isr_queue') => Rechecked(ef)'
  BY DEF Rechecked
<1>3. \A ef, t : OnWalk(ef, t) => OnWalk(ef, t)'
  BY DEF OnWalk
<1>4. Fewer(Object, thread_list', thread_list)
  BY KernelNow DEF EventInv
<1>5. WaitsKnown' /\ NoMissedEvent'
  BY <1>2, <1>3, <1>4, MissesNone
<1>6. Idling' \/ Walks' \/ Failed'
  <2>1. CASE Idling
    BY <2>1 DEF Idling
  <2>2. CASE Walks
    BY <2>2 DEF Walks
  <2>3. CASE Failed
    <3>1. PICK ef \in Object, w \in FlagWait, timeout \in Timeout :
            /\ walk = WaitFailed(ef, w, timeout)
            /\ id[ef] /\ handler = "svc"
            /\ Satisfies(event_flags[ef], w) => ef \in ToSet(isr_queue)
      BY <2>3 DEF Failed
    <3>2. Satisfies(event_flags'[ef], w) => ef \in ToSet(isr_queue')
      BY <3>1, FewerFlags
    <3> QED
      BY <3>1, <3>2 DEF Failed
  <2> QED
    BY <2>1, <2>2, <2>3 DEF EventInv
<1> QED
  BY <1>1, <1>5, <1>6 DEF EventInv

---------------------------------------------------------------------------
\* The services

LEMMA EventInvInit ==
  ASSUME Init
  PROVE  EventInv
<1>1. KernelInv
  BY KernelInvInit DEF Init
<1>2. /\ isr_queue = <<>> /\ thread_list = [o \in Object |-> <<>>] /\ handler = "thread"
      /\ event_flags = [ef \in Object |-> {}] /\ wait = [t \in Thread |-> NoWait]
      /\ walk = None
  BY DEF Init, KernelInit
<1>3. isr_queue \in Seq(Object) /\ Len(isr_queue) <= IsrLimit
  BY <1>2, ObjectAssumption
<1>4. event_flags \in [Object -> SUBSET Flag] /\ wait \in [Thread -> FlagWait \cup {NoWait}]
  BY <1>2
<1>5. \A ef \in Object : ToSet(thread_list[ef]) = {}
  BY <1>2, EmptyWaits
<1>6. WaitsKnown /\ NoMissedEvent /\ Idling
  BY <1>2, <1>5 DEF WaitsKnown, NoMissedEvent, Satisfied, Idling
<1> QED
  BY <1>1, <1>3, <1>4, <1>6 DEF EventInv

\* A service that is one step.
LEMMA ServiceStep ==
  ASSUME EventInv, handler = "thread", KernelInv', Shrinks, NEW after, NEW lists,
         Finish(after, lists), UNCHANGED <<wait, walk>>,
         event_flags' \in [Object -> SUBSET Flag],
         \A ef \in Object : event_flags'[ef] \subseteq event_flags[ef]
  PROVE  EventInv'
<1>1. walk' = None /\ \A ef, t : ~OnWalk(ef, t)
  BY AtWork
<1>2. handler' # "svc" /\ isr_queue' = isr_queue
  BY DEF Finish
<1> QED
  BY <1>1, <1>2, QuietStep

LEMMA EventFlagsNewKeeps ==
  ASSUME EventInv, NEW ef \in Object, EventFlagsNew(ef)
  PROVE  EventInv'
<1>1. KernelInv' /\ thread_list' = thread_list
  BY ObjectNewKeeps DEF EventFlagsNew, EventInv
<1>2. Shrinks
  BY <1>1, KernelNow DEF Shrinks, EventInv
<1>3. /\ handler = "thread" /\ Finish(k, [thread_list EXCEPT ![ef] = <<>>])
      /\ UNCHANGED <<wait, walk>> /\ event_flags' = [event_flags EXCEPT ![ef] = {}]
  BY DEF EventFlagsNew, ObjectNew, Calls
<1>4. /\ event_flags' \in [Object -> SUBSET Flag]
      /\ \A e \in Object : event_flags'[e] \subseteq event_flags[e]
  <2>1. event_flags \in [Object -> SUBSET Flag] /\ {} \in SUBSET Flag
    BY DEF EventInv
  <2> QED
    BY <1>3, <2>1, ChangedFlags
<1> QED
  BY <1>1, <1>2, <1>3, <1>4, ServiceStep

LEMMA EventFlagsDeleteKeeps ==
  ASSUME EventInv, NEW ef \in Object, EventFlagsDelete(ef)
  PROVE  EventInv'
<1>1. KernelInv' /\ Shrinks
  BY ObjectDeleteKeeps DEF EventFlagsDelete, EventInv
<1>2. PICK after, lists : Finish(after, lists)
  BY DEF EventFlagsDelete, ObjectDelete
<1>3. handler = "thread" /\ UNCHANGED <<wait, walk>> /\ event_flags' = event_flags
  BY DEF EventFlagsDelete, ObjectDelete, Calls
<1>4. event_flags' \in [Object -> SUBSET Flag]
  BY <1>3 DEF EventInv
<1> QED
  BY <1>1, <1>2, <1>3, <1>4, ServiceStep

LEMMA EventFlagsClearKeeps ==
  ASSUME EventInv, NEW ef \in Object, NEW f \in FlagSet, EventFlagsClear(ef, f)
  PROVE  EventInv'
<1>1. /\ handler = "thread" /\ Finish(k, thread_list) /\ id' = id
      /\ UNCHANGED <<wait, walk>> /\ Clear(ef, f)
  BY DEF EventFlagsClear, Service, Calls
<1>2. KernelInv' /\ Shrinks
  BY <1>1, NothingKeeps DEF EventInv
<1>3. /\ event_flags' \in [Object -> SUBSET Flag]
      /\ \A e \in Object : event_flags'[e] \subseteq event_flags[e]
  BY <1>1, ClearedFlags DEF EventInv
<1> QED
  BY <1>1, <1>2, <1>3, ServiceStep

LEMMA EventFlagsTakeKeeps ==
  ASSUME EventInv, NEW ef \in Object, NEW w \in FlagWait, EventFlagsTake(ef, w)
  PROVE  EventInv'
<1>1. /\ handler = "thread" /\ Finish(k, thread_list) /\ id' = id
      /\ UNCHANGED <<wait, walk>> /\ Take(ef, w)
  BY DEF EventFlagsTake, Service, Calls
<1>2. KernelInv' /\ Shrinks
  BY <1>1, NothingKeeps DEF EventInv
<1>3. /\ event_flags' \in [Object -> SUBSET Flag]
      /\ \A e \in Object : event_flags'[e] \subseteq event_flags[e]
  BY <1>1, TakenFlags DEF EventInv
<1> QED
  BY <1>1, <1>2, <1>3, ServiceStep

\* The walk of a setter has the whole list before it.
LEMMA EventFlagsSetKeeps ==
  ASSUME EventInv, NEW ef \in Object, NEW f \in FlagSet, EventFlagsSet(ef, f)
  PROVE  EventInv'
<1>1. /\ handler = "thread" /\ handler' = "svc" /\ Set(ef, f)
      /\ walk' = Checking(ef, thread_list[ef])
      /\ UNCHANGED <<k, id, thread_list, isr_queue, wait>>
  BY DEF EventFlagsSet, Calls
<1>2. KernelInv'
  BY <1>1, HandlerKeeps DEF EventInv, KernelInv
<1>3. /\ event_flags' \in [Object -> SUBSET Flag]
      /\ \A e \in Object : e # ef => event_flags'[e] = event_flags[e]
  BY <1>1, SetFlags DEF EventInv
<1>4. thread_list[ef] \in Seq(Thread) /\ Distinct(thread_list[ef])
  BY DEF EventInv, KernelInv, Waiting
<1>5. Walks'
  BY <1>1, <1>4 DEF Walks
<1>6. Rechecked(ef)'
  BY <1>1 DEF Rechecked, OnWalk, Checking
<1>7. ASSUME NEW e \in Object
      PROVE  \/ Rechecked(e)'
             \/ /\ event_flags'[e] \subseteq event_flags[e] /\ e \notin ToSet(isr_queue)
                /\ \A t : OnWalk(e, t) => OnWalk(e, t)'
  <2>1. \A t : ~OnWalk(e, t)
    BY <1>1, AtWork
  <2>2. e \in ToSet(isr_queue) => Rechecked(e)'
    BY <1>1 DEF Rechecked
  <2> QED
    BY <1>3, <1>6, <2>1, <2>2
<1>8. Fewer(Object, thread_list', thread_list)
  BY <1>1, KernelNow DEF EventInv
<1>9. WaitsKnown' /\ NoMissedEvent'
  BY <1>1, <1>7, <1>8, MissesNone
<1> QED
  BY <1>1, <1>2, <1>3, <1>5, <1>9 DEF EventInv

\* A turn of the walk.  Its thread is woken and leaves the list, or goes on waiting
\* for flags that are not set.
LEMMA CheckNextKeeps ==
  ASSUME EventInv, CheckNext
  PROVE  EventInv'
<1>1. walk.do = "check" /\ walk.threads # <<>>
  BY DEF CheckNext
<1>2. PICK ef \in Object, threads \in Seq(Thread) :
        /\ walk = Checking(ef, threads)
        /\ Distinct(threads) /\ ToSet(threads) \subseteq ToSet(thread_list[ef])
        /\ handler \in {"svc", "pendsv"}
  BY <1>1, AtWork DEF Walks
<1>3. PICK t : t = Head(threads)
  OBVIOUS
<1>4. walk.ef = ef /\ walk.threads = threads /\ threads # <<>>
  BY <1>1, <1>2 DEF Checking
<1>5. /\ Tail(threads) \in Seq(Thread) /\ Distinct(Tail(threads))
      /\ ToSet(Tail(threads)) = ToSet(threads) \ {t} /\ t \in ToSet(threads)
  BY <1>2, <1>3, <1>4, TailSet DEF ToSet
<1>6. /\ walk' = [walk EXCEPT !.threads = Tail(threads)]
      /\ UNCHANGED <<id, handler, isr_queue, wait>>
  BY <1>4 DEF CheckNext
<1>7. walk' = Checking(ef, Tail(threads))
  BY <1>2, <1>6 DEF Checking
<1>8. \A e, u : OnWalk(e, u) /\ u # t => OnWalk(e, u)'
  BY <1>4, <1>5, <1>7 DEF OnWalk, Checking
<1>9. \A e, u : OnWalk(e, u) => e = ef
  BY <1>4 DEF OnWalk
<1>10. \A e \in Object : e \in ToSet(isr_queue) => Rechecked(e)'
  BY <1>6 DEF Rechecked
<1>11. t \in ToSet(thread_list[ef]) /\ handler # "tick"
  BY <1>2, <1>5
<1>12. CASE Satisfies(event_flags[ef], wait[t])
  <2>1. Take(ef, wait[t]) /\ thread_list' = Leaving(t) /\ k' = WaitExit(k, t)
    BY <1>3, <1>4, <1>12 DEF CheckNext
  <2>2. KernelInv' /\ Shrinks
    BY <1>6, <1>11, <2>1, LeavesKeeps DEF EventInv
  <2>3. wait[t] \in FlagWait
    BY <1>11 DEF EventInv, WaitsKnown
  <2>4. /\ event_flags' \in [Object -> SUBSET Flag]
        /\ \A e \in Object : event_flags'[e] \subseteq event_flags[e]
    BY <2>1, <2>3, TakenFlags DEF EventInv
  <2>5. t \in Thread
    BY <1>11, Waiter DEF EventInv, KernelInv
  <2>6. \A e \in Object : ToSet(thread_list'[e]) = ToSet(thread_list[e]) \ {t}
    <3>1. ASSUME NEW e \in Object
          PROVE  thread_list[e] \in Seq(Thread) /\ Distinct(thread_list[e])
      BY DEF EventInv, KernelInv, Waiting
    <3> QED
      BY <2>1, <2>5, <3>1, WithoutSet DEF Leaving
  <2>7. ToSet(Tail(threads)) \subseteq ToSet(thread_list'[ef])
    BY <1>2, <1>5, <2>6
  <2>8. Walks'
    BY <1>2, <1>5, <1>6, <1>7, <2>7 DEF Walks
  <2>9. WaitsKnown'
    BY <1>6, <2>6 DEF EventInv, WaitsKnown
  <2>10. NoMissedEvent'
    <3> SUFFICES ASSUME NEW e \in Object, NEW u \in Thread, Satisfied(e, u)',
                        e \notin ToSet(isr_queue')
                 PROVE  OnWalk(e, u)'
      BY DEF NoMissedEvent, OnWalk
    <3>1. u \in ToSet(thread_list[e]) /\ u # t /\ wait[u] \in FlagWait
      BY <2>6 DEF Satisfied, EventInv, WaitsKnown
    <3>2. Satisfies(event_flags'[e], wait[u])
      BY <1>6 DEF Satisfied
    <3>3. Satisfied(e, u)
      BY <2>4, <3>1, <3>2, FewerFlags DEF Satisfied
    <3>4. OnWalk(e, u)
      BY <1>6, <3>3 DEF EventInv, NoMissedEvent, OnWalk
    <3> QED
      BY <1>8, <3>1, <3>4
  <2> QED
    BY <1>6, <2>2, <2>4, <2>8, <2>9, <2>10 DEF EventInv
<1>13. CASE ~Satisfies(event_flags[ef], wait[t])
  <2>1. UNCHANGED <<event_flags, thread_list, k>>
    BY <1>3, <1>4, <1>13 DEF CheckNext
  <2>2. KernelInv'
    BY <1>6, <2>1, HandlerKeeps DEF EventInv, KernelInv
  <2>3. Walks'
    BY <1>2, <1>5, <1>6, <1>7, <2>1 DEF Walks
  <2>4. WaitsKnown'
    BY <1>6, <2>1 DEF EventInv, WaitsKnown
  <2>5. NoMissedEvent'
    <3> SUFFICES ASSUME NEW e \in Object, NEW u \in Thread, Satisfied(e, u),
                        e \notin ToSet(isr_queue)
                 PROVE  OnWalk(e, u)'
      BY <1>6, <2>1 DEF NoMissedEvent, OnWalk, Satisfied
    <3>1. OnWalk(e, u)
      BY DEF EventInv, NoMissedEvent, OnWalk
    <3>2. u # t
      BY <1>9, <1>13, <3>1 DEF Satisfied
    <3> QED
      BY <1>8, <3>1, <3>2
  <2> QED
    BY <1>6, <2>1, <2>2, <2>3, <2>4, <2>5 DEF EventInv
<1> QED
  BY <1>12, <1>13

LEMMA WalkEndsKeeps ==
  ASSUME EventInv, WalkEnds
  PROVE  EventInv'
<1>1. /\ walk.do = "check" /\ walk.threads = <<>> /\ walk' = None
      /\ UNCHANGED <<id, event_flags, wait>>
  BY DEF WalkEnds
<1>2. handler \in {"svc", "pendsv"}
  BY <1>1, AtWork DEF Walks
<1>3. \A ef, t : ~OnWalk(ef, t)
  BY <1>1, EmptyWaits DEF OnWalk
<1>4. KernelInv' /\ Shrinks /\ handler' # "svc" /\ isr_queue' = isr_queue
  <2>1. CASE handler = "svc"
    <3>1. Finish(Dispatch(k), thread_list)
      BY <2>1 DEF WalkEnds
    <3> QED
      BY <1>1, <2>1, <3>1, DispatchKeeps DEF EventInv, Finish
  <2>2. CASE handler # "svc"
    <3>1. UNCHANGED <<k, thread_list, handler, isr_queue>>
      BY <2>2 DEF WalkEnds
    <3>2. KernelInv'
      BY <1>1, <3>1, HandlerKeeps DEF EventInv, KernelInv
    <3> QED
      BY <2>2, <3>1, <3>2, KernelNow DEF Shrinks, EventInv
  <2> QED
    BY <2>1, <2>2
<1>5. event_flags' \in [Object -> SUBSET Flag]
  BY <1>1 DEF EventInv
<1> QED
  BY <1>1, <1>3, <1>4, <1>5, QuietStep

\* The check fails.
LEMMA EventFlagsWaitKeeps ==
  ASSUME EventInv, NEW ef \in Object, NEW w \in FlagWait, NEW timeout \in Timeout,
         EventFlagsWait(ef, w, timeout)
  PROVE  EventInv'
<1>1. /\ handler = "thread" /\ id[ef] /\ ~Satisfies(event_flags[ef], w)
      /\ handler' = "svc" /\ walk' = WaitFailed(ef, w, timeout)
      /\ UNCHANGED <<k, id, thread_list, isr_queue, event_flags, wait>>
  BY DEF EventFlagsWait, Calls
<1>2. KernelInv'
  BY <1>1, HandlerKeeps DEF EventInv, KernelInv
<1>3. Failed'
  BY <1>1 DEF Failed
<1>4. \A e, t : ~OnWalk(e, t)
  BY <1>1, AtWork
<1>5. \A e \in Object : e \in ToSet(isr_queue) => Rechecked(e)'
  BY <1>1 DEF Rechecked
<1>6. Fewer(Object, thread_list', thread_list)
  BY <1>1, KernelNow DEF EventInv
<1>7. WaitsKnown' /\ NoMissedEvent'
  BY <1>1, <1>4, <1>5, <1>6, MissesNone
<1> QED
  BY <1>1, <1>2, <1>3, <1>7 DEF EventInv

\* The thread waits, and an entry has come if its flags are set.
LEMMA EventFlagsWaitsKeeps ==
  ASSUME EventInv, EventFlagsWaits
  PROVE  EventInv'
<1>1. /\ walk.do = "wait" /\ walk' = None /\ UNCHANGED <<id, event_flags>>
  BY DEF EventFlagsWaits
<1>2. PICK ef \in Object, w \in FlagWait, timeout \in Timeout :
        /\ walk = WaitFailed(ef, w, timeout)
        /\ id[ef] /\ handler = "svc"
        /\ Satisfies(event_flags[ef], w) => ef \in ToSet(isr_queue)
  BY <1>1, AtWork DEF Failed
<1>3. walk.ef = ef /\ walk.for = w /\ walk.timeout = timeout
  BY <1>2 DEF WaitFailed
<1>4. \A e, t : ~OnWalk(e, t)
  BY <1>1 DEF OnWalk
<1>5. CASE CanSwitch(k)
  <2> DEFINE c == k.curr
  <2>1. /\ Finish(WaitEnter(k, "WaitingEventFlags", timeout), Joining(ef))
        /\ wait' = [wait EXCEPT ![c] = w]
    BY <1>3, <1>5 DEF EventFlagsWaits
  <2>2. "WaitingEventFlags" \in ObjectStates
    BY DEF ObjectStates
  <2>3. KernelInv'
    BY <1>1, <1>2, <1>5, <2>1, <2>2, EntersKeeps DEF EventInv
  <2>4. thread_list' = Joining(ef) /\ handler' # "svc" /\ isr_queue' = isr_queue
    BY <2>1 DEF Finish
  <2>5. c \in Thread /\ k.state[c] \notin ObjectStates
    BY KernelNow DEF EventInv
  <2>6. \A e \in Object : c \notin ToSet(thread_list[e])
    BY <2>5 DEF EventInv, KernelInv, Waiting
  <2>7. \A e \in Object : \A t \in ToSet(thread_list'[e]) :
          t \in ToSet(thread_list[e]) \/ (t = c /\ e = ef)
    <3> DEFINE S == {u \in Thread : k.priority[u] >= k.priority[c]}
    <3>1. /\ thread_list \in [Object -> Seq(Thread)] /\ thread_list[ef] \in Seq(Thread)
          /\ Distinct(thread_list[ef])
      BY DEF EventInv, KernelInv, Waiting
    <3>2. thread_list' = [thread_list EXCEPT ![ef] =
                            InsertAt(thread_list[ef], PastPrefix(thread_list[ef], S), c)]
      BY <2>4 DEF Joining, ListPut
    <3> HIDE DEF S, c
    <3>3. PastPrefix(thread_list[ef], S) \in 1 .. Len(thread_list[ef]) + 1
      BY <3>1, PastPrefixIndex
    <3>4. ToSet(InsertAt(thread_list[ef], PastPrefix(thread_list[ef], S), c))
            = ToSet(thread_list[ef]) \cup {c}
      BY <2>5, <2>6, <3>1, <3>3, InsertSet
    <3> QED
      BY <3>1, <3>2, <3>4
  <2> HIDE DEF c
  <2>8. /\ wait \in [Thread -> FlagWait \cup {NoWait}]
        /\ wait'[c] = w /\ \A t \in Thread : t # c => wait'[t] = wait[t]
    BY <2>1, <2>5 DEF EventInv
  <2>9. wait' \in [Thread -> FlagWait \cup {NoWait}]
    BY <2>1, <2>5, <2>8
  <2>10. \A e \in Object : \A t \in ToSet(thread_list[e]) : t \in Thread /\ t # c
    BY <2>6, Waiter DEF EventInv, KernelInv
  <2>11. WaitsKnown'
    BY <2>7, <2>8, <2>10 DEF EventInv, WaitsKnown
  <2>12. NoMissedEvent'
    <3> SUFFICES ASSUME NEW e \in Object, NEW t \in Thread, Satisfied(e, t)'
                 PROVE  e \in ToSet(isr_queue')
      BY DEF NoMissedEvent
    <3>1. t \in ToSet(thread_list'[e]) /\ Satisfies(event_flags[e], wait'[t])
      BY <1>1 DEF Satisfied
    <3>2. CASE t \in ToSet(thread_list[e])
      <4>1. Satisfied(e, t)
        BY <2>8, <2>10, <3>1, <3>2 DEF Satisfied
      <4> QED
        BY <1>4, <2>4, <4>1 DEF EventInv, NoMissedEvent, OnWalk
    <3>3. CASE t \notin ToSet(thread_list[e])
      BY <1>2, <2>4, <2>7, <2>8, <3>1, <3>3
    <3> QED
      BY <3>2, <3>3
  <2> QED
    BY <1>1, <2>3, <2>4, <2>9, <2>11, <2>12 DEF EventInv, Idling
<1>6. CASE ~CanSwitch(k)
  <2>1. Finish(k, thread_list) /\ wait' = wait
    BY <1>6 DEF EventFlagsWaits
  <2>2. KernelInv' /\ Shrinks
    BY <1>1, <1>2, <2>1, NothingKeeps DEF EventInv
  <2>3. handler' # "svc" /\ isr_queue' = isr_queue
    BY <2>1 DEF Finish
  <2>4. event_flags' \in [Object -> SUBSET Flag]
    BY <1>1 DEF EventInv
  <2> QED
    BY <1>1, <1>4, <2>1, <2>2, <2>3, <2>4, QuietStep
<1> QED
  BY <1>5, <1>6

---------------------------------------------------------------------------
\* Interrupts and PendSV

LEMMA AppendedEntry ==
  ASSUME isr_queue \in Seq(Object), NEW ef \in Object, PostProcess(ef)
  PROVE  /\ isr_queue' \in Seq(Object) /\ Len(isr_queue') <= IsrLimit
         /\ ToSet(isr_queue') = ToSet(isr_queue) \cup {ef}
<1>1. isr_queue' = Append(isr_queue, ef) /\ Len(isr_queue) < IsrLimit
  BY DEF PostProcess
<1>2. /\ isr_queue' \in Seq(Object) /\ Len(isr_queue') = Len(isr_queue) + 1
      /\ \A i \in 1 .. Len(isr_queue) : isr_queue'[i] = isr_queue[i]
      /\ isr_queue'[Len(isr_queue) + 1] = ef
  BY <1>1
<1>3. Len(isr_queue) \in Nat /\ IsrLimit \in Nat
  BY ObjectAssumption
<1>4. ToSet(isr_queue') = ToSet(isr_queue) \cup {ef}
  BY <1>2, <1>3 DEF ToSet
<1> QED
  BY <1>1, <1>2, <1>3, <1>4

LEMMA InterruptKeeps ==
  ASSUME EventInv, NEW ef \in Object, Interrupt(ef)
  PROVE  EventInv'
<1>1. /\ isr_queue \in Seq(Object) /\ Len(isr_queue) <= IsrLimit
      /\ event_flags \in [Object -> SUBSET Flag]
  BY DEF EventInv
<1>2. ASSUME NEW f \in FlagSet, IsrEventFlagsSet(ef, f)  PROVE EventInv'
  <2>1. /\ Set(ef, f) /\ PostProcess(ef)
        /\ UNCHANGED <<k, id, thread_list, handler, wait, walk>>
    BY <1>2 DEF IsrEventFlagsSet
  <2> QED
    BY <1>1, <2>1, SetFlags, AppendedEntry, InterruptStep
<1>3. ASSUME NEW f \in FlagSet, IsrEventFlagsClear(ef, f)  PROVE EventInv'
  <2>1. Clear(ef, f) /\ UNCHANGED <<k, id, thread_list, handler, wait, walk, isr_queue>>
    BY <1>3 DEF IsrEventFlagsClear, kernelVars
  <2> QED
    BY <1>1, <2>1, ClearedFlags, InterruptStep
<1>4. ASSUME NEW w \in FlagWait, IsrEventFlagsWait(ef, w)  PROVE EventInv'
  <2>1. Take(ef, w) /\ UNCHANGED <<k, id, thread_list, handler, wait, walk, isr_queue>>
    BY <1>4 DEF IsrEventFlagsWait, kernelVars
  <2> QED
    BY <1>1, <2>1, TakenFlags, InterruptStep
<1> QED
  BY <1>2, <1>3, <1>4 DEF Interrupt

\* PendSV begins to check all who wait, in place of the entry it takes.
LEMMA PendSVEventFlagsKeeps ==
  ASSUME EventInv, PendSVEventFlags
  PROVE  EventInv'
<1>1. PICK ef : ef = Head(isr_queue)
  OBVIOUS
<1>2. /\ handler = "pendsv" /\ isr_queue # <<>> /\ walk = None
      /\ PendSVTakes(k, thread_list) /\ isr_queue' = Tail(isr_queue)
      /\ UNCHANGED <<k, thread_list, id, handler, event_flags, wait>>
      /\ walk' = IF id[ef] THEN Checking(ef, thread_list[ef]) ELSE None
  BY <1>1 DEF PendSVEventFlags, Pending, PendSVTakes
<1>3. KernelInv'
  BY <1>2, PassesKeeps DEF EventInv
<1>4. isr_queue \in Seq(Object) /\ Len(isr_queue) <= IsrLimit /\ Len(isr_queue) \in Nat
  BY DEF EventInv
<1>5. /\ ef \in Object /\ isr_queue' \in Seq(Object) /\ Len(isr_queue') <= IsrLimit
  BY <1>1, <1>2, <1>4, ObjectAssumption
<1>6. ASSUME NEW e \in ToSet(isr_queue), e # ef  PROVE e \in ToSet(isr_queue')
  <2>1. PICK i \in 1 .. Len(isr_queue) : isr_queue[i] = e
    BY <1>4 DEF ToSet
  <2>2. i # 1
    BY <1>1, <1>2, <1>4, <1>6, <2>1
  <2>3. i - 1 \in 1 .. Len(isr_queue') /\ isr_queue'[i - 1] = e
    BY <1>2, <1>4, <2>1, <2>2
  <2> QED
    BY <1>5, <2>3 DEF ToSet
<1>7. /\ thread_list[ef] \in Seq(Thread) /\ Distinct(thread_list[ef])
      /\ (thread_list[ef] # <<>> => id[ef])
  BY <1>5 DEF EventInv, KernelInv, Waiting
<1>8. Walks' \/ Idling'
  <2>1. CASE id[ef]
    BY <1>2, <1>5, <1>7, <2>1 DEF Walks
  <2>2. CASE ~id[ef]
    BY <1>2, <2>2 DEF Idling
  <2> QED
    BY <2>1, <2>2
<1>9. Rechecked(ef)'
  <2>1. CASE id[ef]
    BY <1>2, <2>1 DEF Rechecked, OnWalk, Checking
  <2>2. CASE ~id[ef]
    BY <1>2, <1>7, <2>2, EmptyWaits DEF Rechecked
  <2> QED
    BY <2>1, <2>2
<1>10. ASSUME NEW e \in Object
       PROVE  \/ Rechecked(e)'
              \/ /\ event_flags'[e] \subseteq event_flags[e] /\ e \notin ToSet(isr_queue)
                 /\ \A t : OnWalk(e, t) => OnWalk(e, t)'
  <2>1. \A t : ~OnWalk(e, t)
    BY <1>2, AtWork
  <2>2. e \in ToSet(isr_queue) => Rechecked(e)'
    BY <1>6, <1>9 DEF Rechecked
  <2> QED
    BY <1>2, <2>1, <2>2
<1>11. Fewer(Object, thread_list', thread_list)
  BY <1>2, KernelNow DEF EventInv
<1>12. WaitsKnown' /\ NoMissedEvent'
  BY <1>2, <1>10, <1>11, MissesNone
<1> QED
  BY <1>2, <1>3, <1>5, <1>8, <1>12 DEF EventInv

LEMMA EventInvNext ==
  ASSUME EventInv, [Next]_vars
  PROVE  EventInv'
<1>1. ASSUME NEW ef \in Object, EventFlagsCall(ef)  PROVE EventInv'
  BY <1>1, EventFlagsNewKeeps, EventFlagsDeleteKeeps, EventFlagsSetKeeps,
     EventFlagsClearKeeps, EventFlagsTakeKeeps, EventFlagsWaitKeeps DEF EventFlagsCall
<1>2. CASE EventFlagsSteps
  BY <1>2, CheckNextKeeps, WalkEndsKeeps, EventFlagsWaitsKeeps, PendSVEventFlagsKeeps
  DEF EventFlagsSteps
<1>3. CASE Others(KernelStep)
  <2>1. /\ KernelStep /\ walk = None /\ walk' = None /\ wait' = wait
        /\ event_flags' = event_flags
    BY <1>3 DEF Others
  <2>2. KernelInv' /\ Shrinks
    BY <2>1, KernelStepKeeps DEF EventInv
  <2>3. \A ef, t : ~OnWalk(ef, t)
    BY <2>1, AtWork
  <2>4. event_flags' \in [Object -> SUBSET Flag]
    BY <2>1 DEF EventInv
  <2> QED
    BY <2>1, <2>2, <2>3, <2>4, KernelStepQueue, QuietStep
<1>4. CASE UNCHANGED vars
  <2>1. /\ UNCHANGED <<k, id, thread_list, handler, wait, walk>>
        /\ isr_queue' = isr_queue /\ event_flags' = event_flags
    BY <1>4 DEF vars, kernelVars
  <2>2. /\ isr_queue' \in Seq(Object) /\ Len(isr_queue') <= IsrLimit
        /\ event_flags' \in [Object -> SUBSET Flag]
    BY <2>1 DEF EventInv
  <2> QED
    BY <2>1, <2>2, InterruptStep
<1> QED
  BY <1>1, <1>2, <1>3, <1>4, InterruptKeeps DEF Next

LEMMA EventTypes ==
  ASSUME EventInv
  PROVE  TypeOK
<1>1. KernelTypeOK
  BY KernelInvSays DEF EventInv, KernelTypeOK
<1>2. ASSUME NEW t \in Thread, k.state[t] = "WaitingEventFlags"  PROVE wait[t] \in FlagWait
  <2>1. k.state[t] \in ObjectStates
    BY <1>2 DEF ObjectStates
  <2> QED
    BY <2>1 DEF EventInv, KernelInv, Waiting, WaitsKnown
<1>3. \/ walk = None
      \/ walk \in [do : {"check"}, ef : Object, threads : Seq(Thread)]
      \/ walk \in [do : {"wait"}, ef : Object, for : FlagWait, timeout : Timeout]
  BY DEF EventInv, Idling, Walks, Failed, Checking, WaitFailed
<1> QED
  BY <1>1, <1>2, <1>3 DEF EventInv, TypeOK

\* For any threads, objects, flags and interrupts: a thread blocked for event flags is
\* in the list of exactly one object, a valid one, in the order of the priorities.
THEOREM FlagWaitersInOrder == Spec => [](WaitersListed /\ WaitersSorted)
<1>1. Init => EventInv
  BY EventInvInit
<1>2. EventInv /\ [Next]_vars => EventInv'
  BY EventInvNext
<1>3. EventInv => WaitersListed /\ WaitersSorted
  BY KernelInvSays DEF EventInv
<1> QED
  BY <1>1, <1>2, <1>3, PTL DEF Spec

\* Nobody waits for flags that are set unless PendSV or the walk at work is going to
\* check them again: also when flags were set behind the walk, between the failed
\* check and the wait, or while PendSV stood in the middle of a list.  And every
\* variable has its type.
THEOREM EventsNotMissed == Spec => [](TypeOK /\ NoMissedEvent)
<1>1. Init => EventInv
  BY EventInvInit
<1>2. EventInv /\ [Next]_vars => EventInv'
  BY EventInvNext
<1>3. EventInv => TypeOK /\ NoMissedEvent
  BY EventTypes DEF EventInv
<1> QED
  BY <1>1, <1>2, <1>3, PTL DEF Spec

=============================================================================
