-------------------------- MODULE MCRtxDelayList --------------------------
(***************************************************************************)
(* RtxDelayList for TLC: the threads are interchangeable.                  *)
(***************************************************************************)
EXTENDS RtxDelayList

Symmetry == Permutations(Thread)

\* The variables have their types, the two lists hold every blocked thread once
\* and can be walked both ways, and the head is never due already.
ListsInOrder == TypeOK /\ Linked /\ HeadDue
===========================================================================
