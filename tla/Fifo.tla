------------------------------- MODULE Fifo -------------------------------
(***************************************************************************)
(* What a ring buffer promises: a queue of at most Size bytes.             *)
(***************************************************************************)
EXTENDS Naturals, Sequences, SequencesExt

CONSTANTS Byte, Size

VARIABLES
  queue,
  taken  \* the bytes that were taken last

\* A block is put as a whole,
Put(block) ==
  /\ Len(queue) + Len(block) <= Size
  /\ queue' = queue \o block /\ UNCHANGED taken

\* or by force, at the expense of what is oldest.
PutForce(block) ==
  LET all == queue \o block
  IN  /\ queue' = IF Len(all) <= Size THEN all
                  ELSE SubSeq(all, Len(all) - Size + 1, Len(all))
      /\ UNCHANGED taken

\* The oldest bytes are taken.
Get ==
  \E n \in 1 .. Len(queue) :
    /\ taken' = SubSeq(queue, 1, n)
    /\ queue' = SubSeq(queue, n + 1, Len(queue))

Clear == queue' = <<>> /\ taken' = <<>>

Next == Get \/ Clear \/ \E block \in BoundedSeq(Byte, Size + 1) : Put(block) \/ PutForce(block)

Init == queue = <<>> /\ taken = <<>>

Spec == Init /\ [][Next]_<<queue, taken>>
===========================================================================
