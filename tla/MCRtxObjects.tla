--------------------------- MODULE MCRtxObjects ---------------------------
(***************************************************************************)
(* The kernel objects that interrupt handlers use, for TLC: semaphores,    *)
(* and beside them an instance for each other kind of object, two for      *)
(* message queues (handlers send, or they receive as well and the threads  *)
(* that receive only poll), and one for the queue of post processing under *)
(* them.  Only the instance that kind names takes steps.  The threads of   *)
(* Spare are interchangeable.                                              *)
(***************************************************************************)
EXTENDS RtxSemaphore, TLC

CONSTANTS Spare, Kind

VARIABLES
  kind,                                          \* the instance
  kernel, valid, waiting, active, registered,    \* of RtxObject, in the others
  block_free, used_blocks, held, step,           \* of RtxMemPool
  event_flags, wait, walk,                       \* of RtxEventFlags
  mx, sending, work, message_balance,            \* of RtxMsgQueue
  cnt, in, out, data, put, get, service, blocked, pendSV, pending, fifo
                                                 \* of RtxIsrQueue

Pools == INSTANCE RtxMemPool WITH
  k <- kernel, id <- valid, thread_list <- waiting, handler <- active,
  isr_queue <- registered, IsrLimit <- 2, MaxBlocks <- 2

Events == INSTANCE RtxEventFlags WITH
  k <- kernel, id <- valid, thread_list <- waiting, handler <- active,
  isr_queue <- registered,
  Priority <- {2}, Timeout <- {Forever}, IsrLimit <- 1,
  Flag <- {"rx", "tx"}

\* Handlers send, threads wait on both sides.
Senders == INSTANCE RtxMsgQueue WITH
  k <- kernel, id <- valid, thread_list <- waiting, handler <- active,
  isr_queue <- registered, balance <- message_balance,
  Priority <- {2}, Timeout <- {1}, IsrLimit <- 2,
  MsgCount <- 2, MsgPriority <- {1, 2},
  GetTimeout <- {1}, IsrReceives <- FALSE

\* Handlers receive too.
Receivers == INSTANCE RtxMsgQueue WITH
  k <- kernel, id <- valid, thread_list <- waiting, handler <- active,
  isr_queue <- registered, balance <- message_balance,
  Priority <- {2}, IsrLimit <- 2,
  MsgCount <- 2, MsgPriority <- {1},
  GetTimeout <- {}, IsrReceives <- TRUE

IsrQueue == INSTANCE RtxIsrQueue WITH
  Object <- {"x", "y", "z"}, Empty <- "empty", max <- 3, Levels <- 2, Burst <- 3

ASSUME
  /\ Pools!ObjectAssumption /\ Events!ObjectAssumption
  /\ Pools!PoolAssumption
  /\ Senders!QueueAssumption /\ Receivers!QueueAssumption
  /\ IsrQueue!IsrQueueAssumption

otherKernelVars == <<kernel, valid, waiting, active, registered>>
poolVars      == <<block_free, used_blocks, held, step>>
eventVars     == <<event_flags, wait, walk>>
queueVars     == <<mx, sending, work, message_balance>>
entryVars     == <<cnt, in, out, data, put, get, service, blocked, pendSV, pending, fifo>>
allVars == <<kind, vars, otherKernelVars, poolVars, eventVars, queueVars, entryVars>>

\* The variables of the kinds that are not in use; those of the semaphore are
\* as they were in the beginning then.
NoKernel    == kernel = 0 /\ valid = 0 /\ waiting = 0 /\ active = 0 /\ registered = 0
NoPool      == block_free = 0 /\ used_blocks = 0 /\ held = 0 /\ step = 0
NoEvent     == event_flags = 0 /\ wait = 0 /\ walk = 0
NoQueue     == mx = 0 /\ sending = 0 /\ work = 0 /\ message_balance = 0
NoEntry     == /\ cnt = 0 /\ in = 0 /\ out = 0 /\ data = 0 /\ put = 0 /\ get = 0
               /\ service = 0 /\ blocked = 0 /\ pendSV = 0 /\ pending = 0 /\ fifo = 0

MCInit ==
  /\ kind \in Kind
  /\ Init
  /\ CASE kind = "semaphore" -> NoKernel
       [] kind = "pool"      -> Pools!Init
       [] kind = "event"     -> Events!Init
       [] kind = "senders"   -> Senders!Init
       [] kind = "receivers" -> Receivers!Init
       [] kind = "entries"   -> IsrQueue!Init /\ NoKernel
  /\ kind # "pool" => NoPool
  /\ kind # "event" => NoEvent
  /\ kind \notin {"senders", "receivers"} => NoQueue
  /\ kind # "entries" => NoEntry

MCNext ==
  \/ /\ kind = "semaphore" /\ Next
     /\ UNCHANGED <<kind, otherKernelVars, poolVars, eventVars, queueVars, entryVars>>
  \/ /\ kind = "pool" /\ Pools!Next
     /\ UNCHANGED <<kind, vars, eventVars, queueVars, entryVars>>
  \/ /\ kind = "event" /\ Events!Next
     /\ UNCHANGED <<kind, vars, poolVars, queueVars, entryVars>>
  \/ /\ kind = "senders" /\ Senders!Next
     /\ UNCHANGED <<kind, vars, poolVars, eventVars, entryVars>>
  \/ /\ kind = "receivers" /\ Receivers!Next
     /\ UNCHANGED <<kind, vars, poolVars, eventVars, entryVars>>
  \/ /\ kind = "entries" /\ IsrQueue!Next
     /\ UNCHANGED <<kind, vars, otherKernelVars, poolVars, eventVars, queueVars>>

MCSpec == MCInit /\ [][MCNext]_allVars

Symmetry == Permutations(Spare)

\* Event flags have one spare thread: the other keeps the priority it had before
\* it was created.
OneSpare == kind = "event" => \E t \in Spare : kernel.priority[t] = IdlePriority

---------------------------------------------------------------------------
\* The properties of the other kinds; those of the semaphore are in its module.

\* A thread blocked for a pool is in its list, in order.  A free block beside a
\* waiting thread has an entry for PendSV, and outside services the used blocks
\* are those that are not free.  The same list for event flags; nobody waits for
\* flags that are set unless they are going to be checked.
BlocksAndFlagsInOrder ==
  /\ kind = "pool" => /\ Pools!TypeOK /\ Pools!WaitersListed /\ Pools!WaitersSorted
                      /\ Pools!NoStrandedBlock /\ Pools!BlocksCounted
  /\ kind = "event" => /\ Events!TypeOK /\ Events!WaitersListed /\ Events!WaitersSorted
                       /\ Events!NoMissedEvent

\* Every block of a queue is free, in the list or on its way; the messages in a
\* queue are those accepted and not yet received, sorted by priority; nobody
\* waits for a message or for space that is there; the threads that wait are in
\* the list, in order.
MessagesInOrder ==
  /\ kind = "senders" => Senders!TypeOK
  /\ kind = "receivers" => Receivers!TypeOK
  /\ kind \in {"senders", "receivers"} =>
       /\ Senders!WaitersListed /\ Senders!WaitersSorted
       /\ Senders!BlocksAccounted /\ Senders!MessagesConserved
       /\ Senders!MessagesSorted /\ Senders!NoStrandedWaiter

\* PendSV reads what was registered first; a suspended kernel processes nothing,
\* and one that is not suspended every entry there is.
EntriesInOrder ==
  kind = "entries" => /\ IsrQueue!TypeOK /\ IsrQueue!ReadsOldest
                      /\ IsrQueue!NoForgottenEntry /\ IsrQueue!SuspendedQuiet
===========================================================================
