---------------------------- MODULE RingBuffer ----------------------------
(***************************************************************************)
(* The ring buffer of components/ipc/ringbuffer.c, between a writer and a  *)
(* reader.  Each of them owns a mark: an index and a mirror bit, which     *)
(* turns whenever the index wraps around.                                  *)
(*                                                                         *)
(* In this program an interrupt handler writes (rt_hw_inputcapture_isr)    *)
(* and a thread reads: the handler may come between any two accesses of    *)
(* the thread.  Index and mirror are bit fields of one half-word: the      *)
(* build stores them together, and may load one some time after the other. *)
(* The functions that write by force and the reset move the mark of the    *)
(* reader too: the thread calls them.                                      *)
(***************************************************************************)
EXTENDS Integers, Sequences, SequencesExt

CONSTANTS
  Byte,
  Size,  \* buffer_size
  Torn   \* whether the build loads the mirrors after it has compared the indices

RingBufferAssumption == Size \in Nat \ {0} /\ Torn \in BOOLEAN

VARIABLES
  read, write,  \* the marks
  buffer,
  at,           \* what the reader is doing, with its local variables
  taken         \* history: the bytes get or peak returned last

vars == <<read, write, buffer, at, taken>>

Mark  == [mirror : {0, 1}, index : 0 .. Size - 1]
Bytes == BoundedSeq(Byte, Size + 1)
Idle  == [step |-> "idle", length |-> 0, got |-> <<>>]

TypeOK ==
  /\ read \in Mark /\ write \in Mark
  /\ buffer \in [0 .. Size - 1 -> Byte]
  /\ at.step \in {"idle", "mirrors", "copying", "copied"} /\ at.length \in 0 .. Size
  /\ at.got \in Bytes /\ taken \in Bytes

Init ==
  /\ read = [mirror |-> 0, index |-> 0] /\ write = read
  /\ buffer \in [0 .. Size - 1 -> Byte]
  /\ at = Idle /\ taken = <<>>

---------------------------------------------------------------------------
\* rt_ringbuffer_data_len
DataLen(r, w) ==
  CASE w.index = r.index /\ w.mirror = r.mirror -> 0
    [] w.index = r.index /\ w.mirror # r.mirror -> Size
    [] w.index > r.index -> w.index - r.index
    [] OTHER -> Size - (r.index - w.index)

SpaceLen == Size - DataLen(read, write)

Least(m, n) == IF m < n THEN m ELSE n

Turned(m) == 1 - m.mirror

\* The mark n bytes on.
Past(m, n) ==
  IF Size - m.index > n THEN [m EXCEPT !.index = @ + n]
  ELSE [mirror |-> Turned(m), index |-> n - (Size - m.index)]

\* The buffer with a block at the mark, and the n bytes from a mark on.
With(block) ==
  [i \in 0 .. Size - 1 |->
     LET offset == (i - write.index + Size) % Size
     IN  IF offset < Len(block) THEN block[offset + 1] ELSE buffer[i]]

From(m, n) == [i \in 1 .. n |-> buffer[(m.index + i - 1) % Size]]

---------------------------------------------------------------------------
\* rt_ringbuffer_put: all of the block, or nothing.  rt_ringbuffer_putchar is
\* the same for one byte.
Put(block) ==
  /\ Len(block) <= SpaceLen
  /\ buffer' = With(block) /\ write' = Past(write, Len(block))
  /\ UNCHANGED <<read, at, taken>>

\* Mutant of PutForce: the mirror of the reader is left alone.
PutForce_NoMirror(block) ==
  LET tail == IF Len(block) > Size THEN SubSeq(block, Len(block) - Size + 1, Len(block))
              ELSE block
      w    == Past(write, Len(tail))
  IN  /\ at.step = "idle"
      /\ buffer' = With(tail) /\ write' = w
      /\ read' = IF Len(tail) <= SpaceLen THEN read ELSE [read EXCEPT !.index = w.index]
      /\ UNCHANGED <<at, taken>>

\* rt_ringbuffer_put_force: the end of a block that is too long.  The reader
\* is moved on past what was overwritten.
PutForce(block) ==
  LET tail == IF Len(block) > Size THEN SubSeq(block, Len(block) - Size + 1, Len(block))
              ELSE block
      w    == Past(write, Len(tail))
  IN  /\ at.step = "idle"
      /\ buffer' = With(tail) /\ write' = w
      /\ read' = IF Len(tail) <= SpaceLen THEN read
                 ELSE [mirror |-> IF w.mirror # write.mirror /\ w.index <= read.index
                                  THEN Turned(read) ELSE read.mirror,
                       index  |-> w.index]
      /\ UNCHANGED <<at, taken>>

\* rt_ringbuffer_putchar_force
PutCharForce(b) ==
  LET w == Past(write, 1)
  IN  /\ at.step = "idle"
      /\ buffer' = With(<<b>>) /\ write' = w
      /\ read' = IF DataLen(read, write) < Size THEN read
                 ELSE [mirror |-> IF w.mirror # write.mirror THEN Turned(read) ELSE read.mirror,
                       index  |-> w.index]
      /\ UNCHANGED <<at, taken>>

---------------------------------------------------------------------------
\* rt_ringbuffer_get(n): the length is looked up, at once
GetLength(n) ==
  LET length == DataLen(read, write)
  IN  /\ at.step = "idle" /\ length > 0
      /\ at' = [at EXCEPT !.step = "copying", !.length = Least(length, n)]
      /\ UNCHANGED <<read, write, buffer, taken>>

\* or, when the indices are the same, in two steps;
GetComparesIndices(n) ==
  /\ Torn /\ at.step = "idle" /\ read.index = write.index
  /\ at' = [at EXCEPT !.step = "mirrors", !.length = n]
  /\ UNCHANGED <<read, write, buffer, taken>>

GetComparesMirrors ==
  /\ at.step = "mirrors"
  /\ at' = IF read.mirror = write.mirror THEN Idle
           ELSE [at EXCEPT !.step = "copying", !.length = Least(Size, @)]
  /\ UNCHANGED <<read, write, buffer, taken>>

\* the bytes are copied,
GetCopies ==
  /\ at.step = "copying"
  /\ at' = [at EXCEPT !.step = "copied", !.got = From(read, at.length)]
  /\ UNCHANGED <<read, write, buffer, taken>>

\* and given up.
GetEnds ==
  /\ at.step = "copied"
  /\ read' = Past(read, at.length)
  /\ taken' = at.got
  /\ at' = Idle
  /\ UNCHANGED <<write, buffer>>

\* rt_ringbuffer_peak gives up at once what it returns a pointer to: the bytes
\* up to the end of the buffer.
Peak ==
  LET size == DataLen(read, write)
  IN  /\ at.step = "idle" /\ size > 0
      /\ read' = IF Size - read.index > size THEN [read EXCEPT !.index = @ + size]
                 ELSE [mirror |-> Turned(read), index |-> 0]
      /\ taken' = From(read, Least(size, Size - read.index))
      /\ UNCHANGED <<write, buffer, at>>

\* rt_ringbuffer_reset: both marks are in one word, which is stored at once.
Reset ==
  /\ at.step = "idle"
  /\ read' = [mirror |-> 0, index |-> 0] /\ write' = read'
  /\ taken' = <<>>
  /\ UNCHANGED <<buffer, at>>

Next ==
  \/ \E block \in Bytes : Put(block) \/ PutForce(block)
  \/ \E b \in Byte : PutCharForce(b)
  \/ \E n \in 1 .. Size : GetLength(n) \/ GetComparesIndices(n)
  \/ GetComparesMirrors \/ GetCopies \/ GetEnds \/ Peak \/ Reset

Spec == Init /\ [][Next]_vars

---------------------------------------------------------------------------
Queue == From(read, DataLen(read, write))

Abstract == INSTANCE Fifo WITH queue <- Queue

\* The bytes are read in the order they were written, none twice, and none is
\* lost but what is overwritten by force.
ImplementsFifo == Abstract!Spec

\* The bytes a reader has copied are still the oldest when it gives them up,
\* whatever was written meanwhile.
CopiesOldest ==
  at.step = "copied" => at.length <= Len(Queue) /\ at.got = SubSeq(Queue, 1, at.length)
===========================================================================
