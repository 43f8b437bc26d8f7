---------------------------- MODULE SystemEvent ----------------------------
(***************************************************************************)
(* The event loop of application/system_event.c: threads register and      *)
(* unregister handlers and post events, the thread sys_evt dispatches.     *)
(*                                                                         *)
(* The list of handlers is walked node by node.  Its mutex is recursive;   *)
(* the queue of events is a bounded sequence (RtxMutex and RtxMsgQueue     *)
(* have both in full).  The loop has been created and is never deleted:    *)
(* osMessageQueueGet fails for a deleted queue only.                       *)
(***************************************************************************)
EXTENDS Integers, Sequences, FiniteSets

CONSTANTS
  Client, Loop, NoThread,
  Event,
  Handler,
  Node, NoNode,  \* what rt_malloc can return
  QueueSize,     \* event_queue_count
  RegistersOf,   \* the events each client registers
  Repeats        \* whether clients register what is registered already

SystemEventAssumption ==
  /\ Loop \notin Client /\ NoThread \notin Client \cup {Loop}
  /\ NoNode \notin Node
  /\ QueueSize \in Nat \ {0}
  /\ RegistersOf \in [Client -> SUBSET Event]
  /\ Repeats \in BOOLEAN

VARIABLES
  head_node, next, item,  \* the list; item is the event and handler of a node
  free,                   \* the nodes that are not allocated
  mutex,                  \* node_mutex: owner and lock count
  event_queue,
  at                      \* what each thread is doing, with its local variables

list == <<head_node, next, item, free>>
vars == <<list, mutex, event_queue, at>>

Actor  == Client \cup {Loop}
Item   == Event \X Handler
AtRest == [step |-> "idle", node |-> NoNode, prev |-> NoNode, new |-> NoNode, what |-> <<>>]

TypeOK ==
  /\ head_node \in Node \cup {NoNode}
  /\ next \in [Node -> Node \cup {NoNode}]
  /\ item \in [Node -> Item \cup {<<>>}]
  /\ free \subseteq Node
  /\ mutex \in [owner : Actor \cup {NoThread}, lock : Nat]
  /\ (mutex.owner = NoThread) = (mutex.lock = 0)
  /\ event_queue \in Seq(Event) /\ Len(event_queue) <= QueueSize
  /\ at \in [Actor -> [step : {"idle", "check", "searching", "alloc", "append", "appending",
                               "unregister", "unregistering", "lookup", "dispatching",
                               "calling", "called"},
                       node : Node \cup {NoNode}, prev : Node \cup {NoNode},
                       new : Node \cup {NoNode}, what : Item \cup Event \cup {<<>>}]]

Init ==
  /\ head_node = NoNode /\ next = [n \in Node |-> NoNode] /\ item = [n \in Node |-> <<>>]
  /\ free = Node
  /\ mutex = [owner |-> NoThread, lock |-> 0]
  /\ event_queue = <<>>
  /\ at = [a \in Actor |-> AtRest]

---------------------------------------------------------------------------
At(a, step) == at[a].step = step

\* a goes on to step.
Goes(a, step)       == at' = [at EXCEPT ![a].step = step]
Walks(a, step, n)   == at' = [at EXCEPT ![a].step = step, ![a].node = n, ![a].prev = n]
Returns(a)          == at' = [at EXCEPT ![a] = AtRest]

Acquire(a) ==
  /\ mutex.owner \in {NoThread, a}
  /\ mutex' = [owner |-> a, lock |-> mutex.lock + 1]

Release(a) ==
  mutex' = IF mutex.lock = 1 THEN [owner |-> NoThread, lock |-> 0]
           ELSE [mutex EXCEPT !.lock = @ - 1]

Reachable ==
  LET nth[i \in 1 .. Cardinality(Node)] ==
        IF i = 1 THEN head_node ELSE IF nth[i - 1] = NoNode THEN NoNode ELSE next[nth[i - 1]]
  IN  {nth[i] : i \in 1 .. Cardinality(Node)} \ {NoNode}

Registered(e) == \E n \in Reachable : item[n][1] = e

---------------------------------------------------------------------------
\* system_event_handler_register

Register(c, e, h) ==
  /\ At(c, "idle") /\ e \in RegistersOf[c]
  /\ Repeats \/ ~Registered(e)
  /\ at' = [at EXCEPT ![c].step = "check", ![c].what = <<e, h>>]
  /\ UNCHANGED <<list, mutex, event_queue>>

RegisterAcquires(c) ==
  /\ At(c, "check") /\ Acquire(c)
  /\ Walks(c, "searching", head_node)
  /\ UNCHANGED <<list, event_queue>>

\* The call ends when the event is found; the mutex is not released.
RegisterChecks(c) ==
  LET n == at[c].node
  IN  /\ At(c, "searching") /\ n # NoNode
      /\ IF item[n][1] = at[c].what[1] THEN Returns(c) ELSE Walks(c, "searching", next[n])
      /\ UNCHANGED <<list, mutex, event_queue>>

RegisterReleases(c) ==
  /\ At(c, "searching") /\ at[c].node = NoNode
  /\ Release(c)
  /\ Goes(c, "alloc")
  /\ UNCHANGED <<list, event_queue>>

\* rt_malloc may fail.
RegisterAllocs(c) ==
  /\ At(c, "alloc")
  /\ \/ Returns(c) /\ UNCHANGED list
     \/ \E n \in free :
          /\ free' = free \ {n}
          /\ next' = [next EXCEPT ![n] = NoNode]
          /\ item' = [item EXCEPT ![n] = at[c].what]
          /\ at' = [at EXCEPT ![c].step = "append", ![c].new = n]
          /\ UNCHANGED head_node
  /\ UNCHANGED <<mutex, event_queue>>

\* Mutant of AppendAcquires: the mutex is not taken a second time.
AppendAcquires_NoMutex(c) ==
  /\ At(c, "append")
  /\ Walks(c, "appending", head_node)
  /\ UNCHANGED <<list, mutex, event_queue>>

AppendAcquires(c) ==
  /\ At(c, "append") /\ Acquire(c)
  /\ Walks(c, "appending", head_node)
  /\ UNCHANGED <<list, event_queue>>

AppendWalks(c) ==
  LET n == at[c].node
  IN  /\ At(c, "appending") /\ n # NoNode /\ next[n] # NoNode
      /\ Walks(c, "appending", next[n])
      /\ UNCHANGED <<list, mutex, event_queue>>

Append_(c) ==
  LET n == at[c].node
  IN  /\ At(c, "appending") /\ (n # NoNode => next[n] = NoNode)
      /\ IF n = NoNode
         THEN head_node' = at[c].new /\ UNCHANGED next
         ELSE next' = [next EXCEPT ![n] = at[c].new] /\ UNCHANGED head_node
      /\ IF mutex.owner = c THEN Release(c) ELSE UNCHANGED mutex
      /\ Returns(c)
      /\ UNCHANGED <<item, free, event_queue>>

---------------------------------------------------------------------------
\* system_event_handler_unregister

Unregister(c, e, h) ==
  /\ At(c, "idle") /\ e \in RegistersOf[c]
  /\ at' = [at EXCEPT ![c].step = "unregister", ![c].what = <<e, h>>]
  /\ UNCHANGED <<list, mutex, event_queue>>

UnregisterAcquires(c) ==
  /\ At(c, "unregister") /\ Acquire(c)
  /\ Walks(c, "unregistering", head_node)
  /\ UNCHANGED <<list, event_queue>>

UnregisterWalks(c) ==
  LET n == at[c].node
  IN  /\ At(c, "unregistering") /\ n # NoNode /\ item[n] # at[c].what
      /\ at' = [at EXCEPT ![c].prev = n, ![c].node = next[n]]
      /\ UNCHANGED <<list, mutex, event_queue>>

\* The node found is unlinked and freed.
UnregisterEnds(c) ==
  LET n == at[c].node
  IN  /\ At(c, "unregistering") /\ (n # NoNode => item[n] = at[c].what)
      /\ IF n = NoNode THEN UNCHANGED <<head_node, next, free>>
         ELSE /\ free' = free \cup {n}
              /\ IF n = head_node
                 THEN head_node' = next[n] /\ UNCHANGED next
                 ELSE next' = [next EXCEPT ![at[c].prev] = next[n]] /\ UNCHANGED head_node
      /\ IF mutex.owner = c THEN Release(c) ELSE UNCHANGED mutex
      /\ Returns(c)
      /\ UNCHANGED <<item, event_queue>>

---------------------------------------------------------------------------
\* A full queue makes the caller wait, or return when the time is over.
Post(c, e) ==
  /\ At(c, "idle")
  /\ Len(event_queue) < QueueSize
  /\ event_queue' = Append(event_queue, e)
  /\ UNCHANGED <<list, mutex, at>>

---------------------------------------------------------------------------
\* system_event_loop_run_thread

LoopGets ==
  /\ At(Loop, "idle") /\ event_queue # <<>>
  /\ event_queue' = Tail(event_queue)
  /\ at' = [at EXCEPT ![Loop].step = "lookup", ![Loop].what = Head(event_queue)]
  /\ UNCHANGED <<list, mutex>>

LoopAcquires ==
  /\ At(Loop, "lookup") /\ Acquire(Loop)
  /\ Walks(Loop, "dispatching", head_node)
  /\ UNCHANGED <<list, event_queue>>

\* The handler is copied and the mutex released before the handler is called.
LoopChecks ==
  LET n == at[Loop].node
  IN  /\ At(Loop, "dispatching") /\ n # NoNode
      /\ IF item[n][1] = at[Loop].what
         THEN /\ at' = [at EXCEPT ![Loop] = [AtRest EXCEPT !.step = "calling", !.what = item[n]]]
              /\ Release(Loop)
         ELSE Walks(Loop, "dispatching", next[n]) /\ UNCHANGED mutex
      /\ UNCHANGED <<list, event_queue>>

\* Mutant of LoopFindsNone: the mutex is kept when no handler was found.
LoopFindsNone_KeepsMutex ==
  /\ At(Loop, "dispatching") /\ at[Loop].node = NoNode
  /\ Returns(Loop)
  /\ UNCHANGED <<list, mutex, event_queue>>

LoopFindsNone ==
  /\ At(Loop, "dispatching") /\ at[Loop].node = NoNode
  /\ Release(Loop) /\ Returns(Loop)
  /\ UNCHANGED <<list, event_queue>>

LoopCalls ==
  /\ At(Loop, "calling")
  /\ Goes(Loop, "called")
  /\ UNCHANGED <<list, mutex, event_queue>>

CallReturns ==
  /\ At(Loop, "called")
  /\ Returns(Loop)
  /\ UNCHANGED <<list, mutex, event_queue>>

---------------------------------------------------------------------------
Acquires(a) ==
  IF a = Loop THEN LoopAcquires
  ELSE RegisterAcquires(a) \/ AppendAcquires(a) \/ UnregisterAcquires(a)

\* What a does by itself once it has begun, and owns the mutex or needs none.
Proceeds(a) ==
  IF a = Loop THEN LoopGets \/ LoopChecks \/ LoopFindsNone \/ LoopCalls \/ CallReturns
  ELSE \/ RegisterChecks(a) \/ RegisterReleases(a) \/ RegisterAllocs(a)
       \/ AppendWalks(a) \/ Append_(a)
       \/ UnregisterWalks(a) \/ UnregisterEnds(a)

Begins(c) ==
  \E e \in Event : \/ \E h \in Handler : Register(c, e, h) \/ Unregister(c, e, h)
                   \/ Post(c, e)

Next ==
  \/ \E c \in Client : Begins(c)
  \/ \E a \in Actor : Acquires(a) \/ Proceeds(a)

Spec == Init /\ [][Next]_vars

\* A thread that can run goes on, handlers return, and a thread that waits
\* for the mutex is given it when it is released time and again: release
\* hands the mutex to the first of the waiting threads.
Fairness == \A a \in Actor : WF_vars(Proceeds(a)) /\ SF_vars(Acquires(a))

FairSpec == Spec /\ Fairness

---------------------------------------------------------------------------
\* No thread holds a pointer to a node that was freed, and none is linked:
\* the walks of register, unregister and the dispatch never read freed memory.
NodesLive ==
  /\ Reachable \cap free = {}
  /\ \A a \in Actor : {at[a].node, at[a].prev, at[a].new} \cap free = {}

\* Every node that is allocated is in the list, or about to be appended by the
\* thread that allocated it: no append or unlink loses the handler of another.
HandlersReachable ==
  \A n \in Node \ free : n \in Reachable \/ \E c \in Client : at[c].new = n

\* Whoever registers, unregisters or dispatches comes to the end of it: no
\* path leaves node_mutex locked behind it.
CallsReturn == \A a \in Actor : ~At(a, "idle") ~> At(a, "idle")

\* "@note this function is thread safe.": a client between two calls does not
\* own the mutex.
MutexReleased == \A c \in Client : At(c, "idle") => mutex.owner # c

\* "registering the same event multiple times would throws error code": an
\* event has one handler at most.
OneHandler == \A m, n \in Reachable : item[m][1] = item[n][1] => m = n

\* "Unregisters a handler, so it will no longer be called during dispatch": a
\* handler that is called is registered.
CalledIsRegistered ==
  [][At(Loop, "calling") /\ ~At(Loop, "calling")'
       => \E n \in Reachable : item[n] = at[Loop].what]_vars
===========================================================================
