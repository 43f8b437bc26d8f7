---------------------------- MODULE MCDevices ----------------------------
(***************************************************************************)
(* The drivers and the heap for TLC.  Their models share no state, so each *)
(* is an instance of its own: the ring buffer, with its marks loaded       *)
(* together and apart; the two directions of CAN, sending with one writer  *)
(* and with two; the input capture device, opened by one thread after the  *)
(* other, whose driver fails or does not; the microsecond delay; the heap, *)
(* with the sizes of the 32-bit build.                                     *)
(***************************************************************************)
EXTENDS Integers

CONSTANTS
  Byte, Slot, TwoSlots, Message, Writer, FirstWriter, Thread, TwoThreads,
  freelist, uselist, None, Device

VARIABLES
  device,                                               \* the instance
  read, write, buffer, get, taken,                      \* of RingBuffer
  boxes, freenumbers, data, reader, fifo,               \* of CanReceive
  lists, sem, completion, result, mailbox, writer,      \* of CanTransmit
  activated, opened, ref_count, ringbuff, capturing, use, held,  \* of InputCapture
  cnt, car, enabled, interrupts, timer_sem, at, us, elapsed,     \* of HwDelay
  heap, blocks                                          \* of SmallMem

Bytes == INSTANCE RingBuffer WITH Size <- 4, Torn <- FALSE, at <- get
Marks == INSTANCE RingBuffer WITH Size <- 4, Torn <- TRUE, at <- get

\* The interrupt stays out of the two windows of the reader.
Box == INSTANCE CanReceive WITH
  NoMessage <- None, Interruptible <- {"loop", "copy", "insert"}, lists <- boxes

OneWriter == INSTANCE CanTransmit WITH
  Writer <- {FirstWriter}, Overlap <- FALSE
Writers == INSTANCE CanTransmit WITH
  Slot <- TwoSlots, Overlap <- FALSE

Capture == INSTANCE InputCapture WITH
  RB_SIZE <- 3, NoRing <- None, Overlap <- FALSE, StopFails <- FALSE,
  AnyPrescale <- FALSE, at <- use
Failing == INSTANCE InputCapture WITH
  RB_SIZE <- 3, NoRing <- None, Overlap <- FALSE, StopFails <- TRUE,
  AnyPrescale <- FALSE, at <- use

Delay == INSTANCE HwDelay WITH Thread <- TwoThreads, Us <- {1, 2, 4}, Overlap <- FALSE

Heap == INSTANCE SmallMem WITH
  Size <- 24, Header <- 3, MinSize <- 3, Request <- {1, 3, 4, 6, 9}, held <- blocks

ASSUME
  /\ Bytes!RingBufferAssumption /\ Marks!RingBufferAssumption
  /\ Box!ReceiveAssumption
  /\ OneWriter!TransmitAssumption /\ Writers!TransmitAssumption
  /\ Capture!CaptureAssumption /\ Failing!CaptureAssumption
  /\ Delay!DelayAssumption
  /\ Heap!SmallMemAssumption

ringVars    == <<read, write, buffer, get, taken>>
boxVars     == <<boxes, freenumbers, data, reader, fifo>>
sendVars    == <<lists, sem, completion, result, mailbox, writer>>
captureVars == <<activated, opened, ref_count, ringbuff, capturing, use, held>>
delayVars   == <<cnt, car, enabled, interrupts, timer_sem, at, us, elapsed>>
heapVars    == <<heap, blocks>>
vars == <<device, ringVars, boxVars, sendVars, captureVars, delayVars,
          heapVars>>

\* The drivers at rest.
NoRing    == read = 0 /\ write = 0 /\ buffer = 0 /\ get = 0 /\ taken = 0
NoBox     == boxes = 0 /\ freenumbers = 0 /\ data = 0 /\ reader = 0 /\ fifo = 0
NoSending == /\ lists = 0 /\ sem = 0 /\ completion = 0
             /\ result = 0 /\ mailbox = 0 /\ writer = 0
NoCapture == /\ activated = 0 /\ opened = 0 /\ ref_count = 0 /\ ringbuff = 0
             /\ capturing = 0 /\ use = 0 /\ held = 0
NoDelay   == /\ cnt = 0 /\ car = 0 /\ enabled = 0 /\ interrupts = 0
             /\ timer_sem = 0 /\ at = 0 /\ us = 0 /\ elapsed = 0
NoHeap    == heap = 0 /\ blocks = 0

Init ==
  /\ device \in Device
  /\ CASE device = "bytes"   -> Bytes!Init
       [] device = "marks"   -> Marks!Init
       [] device = "box"     -> Box!Init
       [] device = "writer"  -> OneWriter!Init
       [] device = "writers" -> Writers!Init
       [] device = "capture" -> Capture!Init
       [] device = "failing" -> Failing!Init
       [] device = "delay"   -> Delay!Init
       [] device = "heap"    -> Heap!Init
  /\ device \notin {"bytes", "marks"} => NoRing
  /\ device # "box" => NoBox
  /\ device \notin {"writer", "writers"} => NoSending
  /\ device \notin {"capture", "failing"} => NoCapture
  /\ device # "delay" => NoDelay
  /\ device # "heap" => NoHeap

Next ==
  \/ /\ \/ device = "bytes" /\ Bytes!Next
        \/ device = "marks" /\ Marks!Next
     /\ UNCHANGED <<device, boxVars, sendVars, captureVars, delayVars, heapVars>>
  \/ /\ device = "box" /\ Box!Next
     /\ UNCHANGED <<device, ringVars, sendVars, captureVars, delayVars, heapVars>>
  \/ /\ \/ device = "writer" /\ OneWriter!Next
        \/ device = "writers" /\ Writers!Next
     /\ UNCHANGED <<device, ringVars, boxVars, captureVars, delayVars, heapVars>>
  \/ /\ \/ device = "capture" /\ Capture!Next
        \/ device = "failing" /\ Failing!Next
     /\ UNCHANGED <<device, ringVars, boxVars, sendVars, delayVars, heapVars>>
  \/ /\ device = "delay" /\ Delay!Next
     /\ UNCHANGED <<device, ringVars, boxVars, sendVars, captureVars, heapVars>>
  \/ /\ device = "heap" /\ Heap!Next
     /\ UNCHANGED <<device, ringVars, boxVars, sendVars, captureVars, delayVars>>

Spec == Init /\ [][Next]_vars
---------------------------------------------------------------------------
\* The properties of the drivers and the heap, in the instances that can
\* break them.

\* The ring buffer is a bounded queue: Fifo!Spec.
ImplementsFifo ==
  /\ device = "bytes" => Bytes!Abstract!Init
  /\ [][device = "bytes" => [Bytes!Abstract!Next]_<<Bytes!Queue, taken>>]_vars

\* What get and peak return from the ring buffer is what was written first, and
\* its marks stay within it, also when they are loaded one after the other.
\* Every slot of the CAN box is in one list, or held by the reader or the
\* interrupt, the number of free slots is right whenever the interrupt relies
\* on it, and messages are read in the order they came.  The mark, the count and
\* the users of the input capture device agree; its interrupt has its buffer,
\* nobody else uses the device, and a new user finds it empty, also when the
\* driver fails.
BuffersInOrder ==
  CASE device = "bytes" -> Bytes!CopiesOldest
    [] device = "marks" -> Marks!TypeOK
    [] device = "box"   -> /\ Box!TypeOK /\ Box!SlotsKept
                           /\ Box!NumbersHold /\ Box!ReadsOldest
    [] device = "capture" -> Capture!TypeOK /\ Capture!MarksAgree
    [] device = "failing" -> /\ Failing!TypeOK /\ Failing!RingThere
                             /\ Failing!OneUser /\ Failing!StartsEmpty
    [] OTHER -> TRUE

\* What counts as sent was sent, and what is in a mailbox is somebody's; who has
\* a token finds a slot, and no token is lost or made, with two writers that
\* retry and give up.
SendingInOrder ==
  CASE device = "writer"  -> /\ OneWriter!TypeOK /\ OneWriter!SentIsSent
                             /\ OneWriter!BusyIsUsed /\ OneWriter!SlotForToken
    [] device = "writers" -> Writers!TypeOK /\ Writers!TokensHold
    [] OTHER -> TRUE

\* A delay lasts at least as long as was asked for.
LastsLongEnough == [][device = "delay" => Delay!Lasts]_vars

\* The blocks fill the heap from end to end, no two neighbours are free, what
\* is held is not touched, what is free is found, and the statistics are right.
HeapInOrder ==
  device = "heap" =>
    /\ Heap!TypeOK /\ Heap!Tiled /\ Heap!HolesPlugged
    /\ Heap!HeldIntact /\ Heap!FindsSpace /\ Heap!UsedCounted
===========================================================================
