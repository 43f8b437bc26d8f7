---------------------------- MODULE RtxMsgQueue ----------------------------
(***************************************************************************)
(* Message queues (rtx_msgqueue.c), used by threads and interrupt          *)
(* handlers.  A queue owns a pool of message blocks and a list of them     *)
(* ordered by priority.  Only threads and PendSV change the list: a        *)
(* handler that sends registers the block for PendSV to insert, one that   *)
(* receives claims the block (flags = 1) and registers it for PendSV to    *)
(* remove.  The same list holds the threads that wait to receive and to    *)
(* send: a queue is thought never to have both.                            *)
(*                                                                         *)
(* A service is several steps, split where it accesses what handlers use   *)
(* too: the pool, msg_count and the flags of the blocks.  What a handler   *)
(* does is one step: handlers that use the same queue do not nest.         *)
(***************************************************************************)
EXTENDS RtxObject

CONSTANTS
  MsgCount,     \* max_blocks of the pool of each queue
  MsgPriority,  \* the priorities of messages
  GetTimeout,   \* the timeouts of threads that receive; they only poll if {}
  IsrReceives   \* whether interrupt handlers receive messages

QueueAssumption ==
  /\ MsgCount \in Nat \ {0}
  /\ MsgPriority \subseteq Nat /\ MsgPriority # {}
  /\ GetTimeout \subseteq Timeout
  /\ IsrReceives \in BOOLEAN

VARIABLES
  mx,       \* the queues and their blocks
  sending,  \* the priority of the message each thread last waited to send
  work,     \* the service or post processing at work
  balance   \* history: the messages accepted less those received or discarded

vars == <<kernelVars, mx, sending, work, balance>>

\* A block, with the queue it belongs to
Message == Object \X (1 .. MsgCount)
Blocks(mq) == [i \in 1 .. MsgCount |-> <<mq, i>>]

None == [do |-> "none"]

\* The fields of mx: block_free, the stack of free blocks; list, from msg_first
\* to msg_last; msg_count; flags and priority of each block.
TypeOK ==
  /\ KernelTypeOK
  /\ isr_queue \in Seq(Message)
  /\ mx \in [block_free : [Object -> Seq(Message)], list : [Object -> Seq(Message)],
             msg_count : [Object -> 0 .. MsgCount],
             flags : [Message -> {0, 1}], priority : [Message -> MsgPriority]]
  /\ sending \in [Thread -> MsgPriority]
  /\ \/ work = None
     \/ /\ work.do \in {"claim", "put", "getFails", "putFails", "refill", "insert",
                         "reset", "discard", "senders", "resend"}
        /\ work.mq \in Object
  /\ balance \in [Object -> Int]

Init ==
  /\ KernelInit
  /\ LET lowest == CHOOSE p \in MsgPriority : \A q \in MsgPriority : p <= q
     IN  /\ mx = [block_free |-> [mq \in Object |-> <<>>],
                  list |-> [mq \in Object |-> <<>>],
                  msg_count |-> [mq \in Object |-> 0],
                  flags |-> [m \in Message |-> 0],
                  priority |-> [m \in Message |-> lowest]]
         /\ sending = [t \in Thread |-> lowest]
  /\ work = None
  /\ balance = [mq \in Object |-> 0]

---------------------------------------------------------------------------
\* The helpers, on mx

CanAlloc(mq) == mx.block_free[mq] # <<>>
Block1(mq) == Head(mx.block_free[mq])

\* Mutant of Alloc: the flags are left as the last receiver set them.
Alloc_StillClaimed(mq, p) ==
  [mx EXCEPT !.block_free[mq] = Tail(@), !.priority[Block1(mq)] = p]

\* osRtxMemoryPoolAlloc, and the fields every sender stores in the block
Alloc(mq, p) ==
  [mx EXCEPT !.block_free[mq] = Tail(@), !.flags[Block1(mq)] = 0,
             !.priority[Block1(mq)] = p]

\* MessageQueuePut: behind the messages of the same priority.
Insert(x, m) ==
  LET atLeast == {n \in Message : x.priority[n] >= x.priority[m]}
  IN  [x EXCEPT !.list[m[1]] = InsertAt(@, PastPrefix(@, atLeast), m),
                !.msg_count[m[1]] = @ + 1]

\* MessageQueueRemove and osRtxMemoryPoolFree
Release(x, m) ==
  [x EXCEPT !.list[m[1]] = Without(@, m), !.block_free[m[1]] = <<m>> \o @]

\* The second half of MessageQueueGet finds the first block that is not claimed.
Claimable(x, mq) == SelectSeq(x.list[mq], LAMBDA m : x.flags[m] = 0)
Found(x, mq) == Head(Claimable(x, mq))

Decrement(x, mq) == [x EXCEPT !.msg_count[mq] = @ - 1]
Claim(x, mq) == [x EXCEPT !.flags[Found(x, mq)] = 1]

Accept(mq, n) == balance' = [balance EXCEPT ![mq] = @ + n]

HeadWaits(mq, state) == Waited(mq) /\ k.state[First(mq)] = state

---------------------------------------------------------------------------
\* The steps of a service or of PendSV

Begins(next) ==
  /\ Calls
  /\ handler' = "svc" /\ work' = next
  /\ UNCHANGED <<k, id, thread_list, isr_queue>>

Continues(next) == work' = next /\ UNCHANGED kernelVars

\* The end of a service, or of the processing of one entry in PendSV; the head
\* of the list of waiting threads is woken if wakes.
Ends(mq, wakes) ==
  /\ work' = None
  /\ IF handler = "svc"
     THEN /\ Finish(IF wakes THEN WaitExitDispatch(k, First(mq)) ELSE k,
                    IF wakes THEN Popped(mq) ELSE thread_list)
          /\ UNCHANGED id
     ELSE /\ k' = IF wakes THEN WaitExit(k, First(mq)) ELSE k
          /\ thread_list' = IF wakes THEN Popped(mq) ELSE thread_list
          /\ UNCHANGED <<id, handler, isr_queue>>

MessageQueueNew(mq) ==
  /\ ObjectNew(mq)
  /\ mx' = [mx EXCEPT !.block_free[mq] = Blocks(mq), !.list[mq] = <<>>,
                      !.msg_count[mq] = 0]
  /\ balance' = [balance EXCEPT ![mq] = 0]
  /\ UNCHANGED <<sending, work>>

MessageQueueDelete(mq) ==
  /\ ObjectDelete(mq)
  /\ UNCHANGED <<mx, sending, work, balance>>

\* osMessageQueuePut to a thread that waits to receive
MessageQueuePutDirect(mq) ==
  /\ id[mq] /\ HeadWaits(mq, "WaitingMessageGet")
  /\ Service(WaitExitDispatch(k, First(mq)), Popped(mq))
  /\ UNCHANGED <<mx, sending, work, balance>>

MessageQueuePut(mq, p) ==
  /\ id[mq] /\ ~HeadWaits(mq, "WaitingMessageGet") /\ CanAlloc(mq)
  /\ Begins([do |-> "put", mq |-> mq, msg |-> Block1(mq)])
  /\ mx' = Alloc(mq, p)
  /\ UNCHANGED <<sending, balance>>

PutInserts ==
  /\ work.do = "put"
  /\ mx' = Insert(mx, work.msg)
  /\ Accept(work.mq, 1)
  /\ Ends(work.mq, FALSE)
  /\ UNCHANGED sending

MessageQueuePutFails(mq, p, timeout) ==
  /\ id[mq] /\ ~HeadWaits(mq, "WaitingMessageGet") /\ ~CanAlloc(mq)
  /\ Begins([do |-> "putFails", mq |-> mq, timeout |-> timeout, priority |-> p])
  /\ UNCHANGED <<mx, sending, balance>>

PutWaits ==
  /\ work.do = "putFails"
  /\ IF CanSwitch(k)
     THEN /\ Finish(WaitEnter(k, "WaitingMessagePut", work.timeout), Joining(work.mq))
          /\ sending' = [sending EXCEPT ![k.curr] = work.priority]
     ELSE Finish(k, thread_list) /\ UNCHANGED sending
  /\ work' = None
  /\ UNCHANGED <<id, mx, balance>>

\* The count says that there is a message; an interrupt may claim the first one
\* before the service does.
MessageQueueGet(mq) ==
  /\ id[mq] /\ mx.msg_count[mq] # 0
  /\ Begins([do |-> "claim", mq |-> mq])
  /\ mx' = Decrement(mx, mq)
  /\ UNCHANGED <<sending, balance>>

\* ... which is removed and its block freed.
GetClaims ==
  LET mq == work.mq
  IN  /\ work.do = "claim"
      /\ mx' = Release(Claim(mx, mq), Found(mx, mq))
      /\ Accept(mq, -1)
      /\ IF Waited(mq) THEN Continues([do |-> "refill", mq |-> mq])
                       ELSE Ends(mq, FALSE)
      /\ UNCHANGED sending

\* A block for the first waiting thread, if an interrupt has left one.  It is
\* taken for a sender: of a receiver the code reads a pointer for the priority,
\* which may be any.
AllocForFirst(mq, next) ==
  /\ CanAlloc(mq)
  /\ \E p \in IF HeadWaits(mq, "WaitingMessagePut") THEN {sending[First(mq)]}
                                                   ELSE MsgPriority :
       mx' = Alloc(mq, p)
  /\ Continues([do |-> next, mq |-> mq, msg |-> Block1(mq)])

Refill ==
  /\ work.do = "refill"
  /\ \/ AllocForFirst(work.mq, "insert")
     \/ ~CanAlloc(work.mq) /\ Ends(work.mq, FALSE) /\ UNCHANGED mx
  /\ UNCHANGED <<sending, balance>>

\* The thread woken returns osOK: its message was sent or, if it waited to
\* receive, it takes what its buffer holds for a message.
FirstAccepts == IF HeadWaits(work.mq, "WaitingMessagePut") THEN 1 ELSE -1

RefillInserts ==
  /\ work.do = "insert"
  /\ mx' = Insert(mx, work.msg)
  /\ Accept(work.mq, FirstAccepts)
  /\ Ends(work.mq, TRUE)
  /\ UNCHANGED sending

MessageQueueGetFails(mq, timeout) ==
  /\ id[mq] /\ mx.msg_count[mq] = 0
  /\ Begins([do |-> "getFails", mq |-> mq, timeout |-> timeout])
  /\ UNCHANGED <<mx, sending, balance>>

GetWaits ==
  /\ work.do = "getFails"
  /\ IF CanSwitch(k)
     THEN Finish(WaitEnter(k, "WaitingMessageGet", work.timeout), Joining(work.mq))
     ELSE Finish(k, thread_list)
  /\ work' = None
  /\ UNCHANGED <<id, mx, sending, balance>>

---------------------------------------------------------------------------
\* osMessageQueueReset discards the messages, then lets waiting threads send.
MessageQueueReset(mq) ==
  /\ id[mq]
  /\ Begins([do |-> "reset", mq |-> mq])
  /\ UNCHANGED <<mx, sending, balance>>

ResetCounts ==
  /\ work.do = "reset" /\ mx.msg_count[work.mq] # 0
  /\ mx' = Decrement(mx, work.mq)
  /\ Continues([work EXCEPT !.do = "discard"])
  /\ UNCHANGED <<sending, balance>>

ResetDiscards ==
  /\ work.do = "discard"
  /\ mx' = Release(Claim(mx, work.mq), Found(mx, work.mq))
  /\ Accept(work.mq, -1)
  /\ Continues([work EXCEPT !.do = "reset"])
  /\ UNCHANGED sending

ResetEmpty ==
  /\ work.do = "reset" /\ mx.msg_count[work.mq] = 0
  /\ IF HeadWaits(work.mq, "WaitingMessagePut")
     THEN Continues([work EXCEPT !.do = "senders"])
     ELSE Ends(work.mq, FALSE)
  /\ UNCHANGED <<mx, sending, balance>>

ResetAllocs ==
  /\ work.do = "senders" /\ Waited(work.mq)
  /\ AllocForFirst(work.mq, "resend")
  /\ UNCHANGED <<sending, balance>>

ResetInserts ==
  /\ work.do = "resend"
  /\ mx' = Insert(mx, work.msg)
  /\ Accept(work.mq, FirstAccepts)
  /\ k' = WaitExit(k, First(work.mq)) /\ thread_list' = Popped(work.mq)
  /\ work' = [do |-> "senders", mq |-> work.mq]
  /\ UNCHANGED <<id, handler, isr_queue, sending>>

ResetEnds ==
  /\ work.do = "senders" /\ ~(Waited(work.mq) /\ CanAlloc(work.mq))
  /\ Finish(Dispatch(k), thread_list)
  /\ work' = None
  /\ UNCHANGED <<id, mx, sending, balance>>

---------------------------------------------------------------------------
\* Interrupts and PendSV

IsrMessageQueuePut(mq, p) ==
  /\ id[mq] /\ CanAlloc(mq)
  /\ mx' = Alloc(mq, p)
  /\ PostProcess(Block1(mq))
  /\ Accept(mq, 1)
  /\ UNCHANGED <<k, id, thread_list, handler, sending, work>>

IsrMessageQueueGet(mq) ==
  /\ IsrReceives
  /\ id[mq] /\ mx.msg_count[mq] # 0
  /\ mx' = Claim(Decrement(mx, mq), mq)
  /\ PostProcess(Found(mx, mq))
  /\ Accept(mq, -1)
  /\ UNCHANGED <<k, id, thread_list, handler, sending, work>>

\* osRtxMessageQueuePostProcess of a block that a handler received ...
PendSVReceived ==
  LET m == Head(isr_queue)
  IN  /\ Pending /\ work = None /\ mx.flags[m] = 1
      /\ mx' = Release(mx, m)
      /\ PendSVTakes(k, thread_list)
      /\ work' = IF Waited(m[1]) THEN [do |-> "refill", mq |-> m[1]] ELSE None
      /\ UNCHANGED <<sending, balance>>

\* ... and of one it sent.
PendSVSent ==
  LET m  == Head(isr_queue)
      mq == m[1]
  IN  /\ Pending /\ work = None /\ mx.flags[m] = 0
      /\ IF HeadWaits(mq, "WaitingMessageGet")
         THEN /\ PendSVTakes(WaitExit(k, First(mq)), Popped(mq))
              /\ mx' = Release(mx, m)
              /\ Accept(mq, -1)
         ELSE /\ PendSVTakes(k, thread_list)
              /\ mx' = Insert(mx, m)
              /\ UNCHANGED balance
      /\ UNCHANGED <<sending, work>>

---------------------------------------------------------------------------
MessageQueueCall(mq) ==
  \/ MessageQueueNew(mq) \/ MessageQueueDelete(mq) \/ MessageQueueReset(mq)
  \/ MessageQueuePutDirect(mq) \/ MessageQueueGet(mq)
  \/ \E p \in MsgPriority :
       MessageQueuePut(mq, p) \/ \E timeout \in Timeout : MessageQueuePutFails(mq, p, timeout)
  \/ \E timeout \in GetTimeout : MessageQueueGetFails(mq, timeout)

Interrupt(mq) ==
  (\E p \in MsgPriority : IsrMessageQueuePut(mq, p)) \/ IsrMessageQueueGet(mq)

MessageQueueSteps ==
  \/ PutInserts \/ PutWaits
  \/ GetClaims \/ GetWaits \/ Refill \/ RefillInserts
  \/ ResetCounts \/ ResetDiscards \/ ResetEmpty
  \/ ResetAllocs \/ ResetInserts \/ ResetEnds
  \/ PendSVReceived \/ PendSVSent

Next ==
  \/ \E mq \in Object : MessageQueueCall(mq) \/ Interrupt(mq)
  \/ MessageQueueSteps
  \/ work = None /\ KernelStep /\ UNCHANGED <<mx, sending, work, balance>>

Spec == Init /\ [][Next]_vars
---------------------------------------------------------------------------
\* Properties

\* The blocks handlers sent and PendSV has not seen, and those they claimed
Sent(mq) == {m \in ToSet(isr_queue) : m[1] = mq /\ mx.flags[m] = 0}
Received(mq) == {m \in ToSet(isr_queue) : m[1] = mq /\ mx.flags[m] = 1}

InHand(mq) ==
  IF work.do \in {"put", "insert", "resend"} /\ work.mq = mq THEN {work.msg} ELSE {}

\* Every block is free, in the list, sent or in the hands of a service, and of
\* these only one; the blocks claimed in the list are those PendSV will remove,
\* and the count is that of the others, but for one a service has just taken.
BlocksAccounted ==
  \A mq \in Object : id[mq] =>
    LET parts == <<ToSet(mx.block_free[mq]), ToSet(mx.list[mq]), Sent(mq), InHand(mq)>>
    IN  /\ UNION ToSet(parts) = ToSet(Blocks(mq))
        /\ \A i, j \in 1 .. 4 : i # j => parts[i] \cap parts[j] = {}
        /\ Distinct(mx.block_free[mq]) /\ Distinct(mx.list[mq]) /\ Distinct(isr_queue)
        /\ {m \in parts[2] : mx.flags[m] = 1} = Received(mq)
        /\ Len(Claimable(mx, mq)) =
             mx.msg_count[mq] + (IF work.do \in {"claim", "discard"} /\ work.mq = mq
                                 THEN 1 ELSE 0)

\* No message is lost, duplicated or made up, whichever of threads, interrupts
\* and PendSV hands it on: those accepted and not yet received are in the list
\* or on their way to it.
MessagesConserved ==
  \A mq \in Object : id[mq] =>
    balance[mq] = Len(Claimable(mx, mq)) + Cardinality(Sent(mq))

\* The first message is always one of the highest priority.
MessagesSorted ==
  \A mq \in Object : id[mq] =>
    \A i, j \in DOMAIN mx.list[mq] :
      i < j => mx.priority[mx.list[mq][i]] >= mx.priority[mx.list[mq][j]]

\* Between services nobody waits to receive while there is a message, nor to send
\* while there is a free block.
NoStrandedWaiter ==
  work = None =>
    \A mq \in Object : \A t \in ToSet(thread_list[mq]) :
      /\ k.state[t] = "WaitingMessageGet" => Claimable(mx, mq) = <<>>
      /\ k.state[t] = "WaitingMessagePut" => mx.block_free[mq] = <<>>
===========================================================================
