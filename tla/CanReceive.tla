---------------------------- MODULE CanReceive ----------------------------
(***************************************************************************)
(* Reception on CAN (components/can/can.c): the interrupt puts messages    *)
(* into the slots of a box, a thread reads them.  The slots move between   *)
(* two lists, which thread and interrupt change without a lock.            *)
(*                                                                         *)
(* The thread takes one step per statement, the interrupt is one step.     *)
(* RT_CAN_USING_HDR is off, as in the build.                               *)
(***************************************************************************)
EXTENDS RtList, Integers

CONSTANTS
  Slot,           \* rx_fifo->buffer
  freelist, uselist,
  Message, NoMessage,
  Interruptible   \* the steps of the reader at which the interrupt may come

ReceiveAssumption ==
  /\ IsFiniteSet(Slot) /\ freelist \notin Slot /\ uselist \notin Slot
  /\ NoMessage \notin Message

VARIABLES
  lists,        \* the links of the slots and of the two heads
  freenumbers,
  data,         \* of each slot
  reader,       \* what _can_int_rx is doing, with its local variables
  fifo          \* history: the messages received and neither read nor dropped

vars == <<lists, freenumbers, data, reader, fifo>>

Node == Slot \cup {freelist, uselist}

Steps == {"loop", "first", "bypass", "forget", "isolate", "copy", "insert", "load", "store"}

At(step, n) == [at |-> step, listmsg |-> n, numbers |-> 0, oldest |-> TRUE]
Idle == At("idle", freelist)

TypeOK ==
  /\ lists \in Links(Node)
  /\ freenumbers \in 0 .. Cardinality(Slot)
  /\ data \in [Node -> Message \cup {NoMessage}]
  /\ reader \in [at : Steps \cup {"idle", "failed"}, listmsg : Node, numbers : Int,
                 oldest : BOOLEAN]
  /\ fifo \in Seq(Message)

\* rt_can_open, in the order in which the slots are inserted
Init ==
  /\ \E order \in [1 .. Cardinality(Slot) -> Slot] :
       /\ \A i, j \in DOMAIN order : order[i] = order[j] => i = j
       /\ lists = LET fill[i \in 0 .. Cardinality(Slot)] ==
                        IF i = 0 THEN Alone(Node)
                        ELSE InsertBefore(fill[i - 1], freelist, order[i])
                  IN  fill[Cardinality(Slot)]
  /\ freenumbers = Cardinality(Slot)
  /\ data = [n \in Node |-> NoMessage]
  /\ reader = Idle
  /\ fifo = <<>>

---------------------------------------------------------------------------
\* _can_int_rx

Goes(step) == reader' = [reader EXCEPT !.at = step]

Read ==
  /\ reader.at = "idle"
  /\ Goes("loop")
  /\ UNCHANGED <<lists, freenumbers, data, fifo>>

\* All messages asked for are read.
ReadEnds ==
  /\ reader.at = "loop"
  /\ reader' = Idle
  /\ UNCHANGED <<lists, freenumbers, data, fifo>>

ReadChecks ==
  /\ reader.at = "loop"
  /\ IF IsEmpty(lists, uselist) THEN reader' = Idle ELSE Goes("first")
  /\ UNCHANGED <<lists, freenumbers, data, fifo>>

ReadFirst ==
  /\ reader.at = "first"
  /\ reader' = At("bypass", lists.next[uselist])
  /\ UNCHANGED <<lists, freenumbers, data, fifo>>

ReadBypasses ==
  /\ reader.at = "bypass"
  /\ lists' = Bypass(lists, reader.listmsg) /\ Goes("forget")
  /\ UNCHANGED <<freenumbers, data, fifo>>

ReadForgets ==
  /\ reader.at = "forget"
  /\ lists' = Forget(lists, reader.listmsg) /\ Goes("isolate")
  /\ UNCHANGED <<freenumbers, data, fifo>>

\* With this the message is the reader's.
ReadIsolates ==
  /\ reader.at = "isolate"
  /\ lists' = Isolate(lists, reader.listmsg)
  /\ reader' = [reader EXCEPT !.at = "copy",
                              !.oldest = fifo # <<>> /\ data[reader.listmsg] = fifo[1]]
  /\ fifo' = IF fifo = <<>> THEN fifo ELSE Tail(fifo)
  /\ UNCHANGED <<freenumbers, data>>

ReadCopies ==
  /\ reader.at = "copy"
  /\ Goes("insert")
  /\ UNCHANGED <<lists, freenumbers, data, fifo>>

ReadInserts ==
  /\ reader.at = "insert"
  /\ lists' = InsertBefore(lists, freelist, reader.listmsg)
  /\ Goes("load")
  /\ UNCHANGED <<freenumbers, data, fifo>>

ReadLoadsNumbers ==
  /\ reader.at = "load"
  /\ reader' = [reader EXCEPT !.at = "store", !.numbers = freenumbers]
  /\ UNCHANGED <<lists, freenumbers, data, fifo>>

\* RT_ASSERT stops the system.
ReadStoresNumbers ==
  /\ reader.at = "store"
  /\ freenumbers' = reader.numbers + 1
  /\ IF freenumbers' <= Cardinality(Slot) THEN reader' = At("loop", freelist)
                                          ELSE Goes("failed")
  /\ UNCHANGED <<lists, data, fifo>>

---------------------------------------------------------------------------
\* rt_hw_can_isr, RT_CAN_EVENT_RX_IND

Interrupt == reader.at = "idle" \/ reader.at \in Interruptible

\* m goes into slot n, to the end of what is to be read.
Keep(n, m, rest) ==
  /\ lists' = InsertBefore(Remove(lists, n), uselist, n)
  /\ data' = [data EXCEPT ![n] = m]
  /\ fifo' = Append(rest, m)

ReceiveFree(m) ==
  /\ Interrupt
  /\ ~IsEmpty(lists, freelist)
  /\ IF freenumbers > 0
     THEN /\ freenumbers' = freenumbers - 1
          /\ Keep(lists.next[freelist], m, fifo)
          /\ UNCHANGED reader
     ELSE /\ Goes("failed")
          /\ UNCHANGED <<lists, freenumbers, data, fifo>>

\* Mutant of ReceiveOver: the newest message is dropped instead of the oldest.
ReceiveOver_Newest(m) ==
  /\ Interrupt
  /\ IsEmpty(lists, freelist) /\ ~IsEmpty(lists, uselist)
  /\ Keep(lists.prev[uselist], m, IF fifo = <<>> THEN fifo ELSE Tail(fifo))
  /\ UNCHANGED <<freenumbers, reader>>

\* No slot is free: the oldest message is dropped.  When both lists are empty, the
\* only slot being in the hands of the reader, the interrupt changes nothing.
ReceiveOver(m) ==
  /\ Interrupt
  /\ IsEmpty(lists, freelist) /\ ~IsEmpty(lists, uselist)
  /\ Keep(lists.next[uselist], m, IF fifo = <<>> THEN fifo ELSE Tail(fifo))
  /\ UNCHANGED <<freenumbers, reader>>

---------------------------------------------------------------------------
Next ==
  \/ Read \/ ReadEnds \/ ReadChecks \/ ReadFirst
  \/ ReadBypasses \/ ReadForgets \/ ReadIsolates
  \/ ReadCopies \/ ReadInserts \/ ReadLoadsNumbers \/ ReadStoresNumbers
  \/ \E m \in Message : ReceiveFree(m) \/ ReceiveOver(m)

Spec == Init /\ [][Next]_vars
---------------------------------------------------------------------------
\* Properties

\* The slot the reader has taken out and not yet put back
InHand == IF reader.at \in {"copy", "insert"} THEN {reader.listmsg} ELSE {}

Whole == reader.at \in {"idle", "loop", "first", "copy", "insert", "load", "store"}

\* Every slot is in one of the lists or in the hands of the reader, and the list
\* to be read holds the messages received, in their order.
SlotsKept ==
  Whole =>
    LET free == Entries(lists, freelist)
        used == Entries(lists, uselist)
    IN  /\ Ring(lists, freelist) /\ Ring(lists, uselist)
        /\ {free[i] : i \in DOMAIN free} \cup {used[i] : i \in DOMAIN used} \cup InHand = Slot
        /\ Len(free) + Len(used) + Cardinality(InHand) = Cardinality(Slot)
        /\ [i \in DOMAIN used |-> data[used[i]]] = fifo

\* can.c:58, "read from software FIFO": what is read is the oldest message that
\* was not dropped.
ReadsOldest == reader.oldest

\* can.c:109 and can.c:753: the number of free slots is positive when the
\* interrupt has found one, and never exceeds the size of the box.
NumbersHold == reader.at # "failed"
===========================================================================
