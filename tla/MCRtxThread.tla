---------------------------- MODULE MCRtxThread ----------------------------
(***************************************************************************)
(* RtxThread for TLC, used in two ways that between them fire all of its   *)
(* services: main and the threads of Spare join and nobody sets flags, or  *)
(* main, its Partner and interrupts set flags and nobody joins.  Threads   *)
(* are created, die and are created again; those of Spare are              *)
(* interchangeable.                                                        *)
(***************************************************************************)
EXTENDS RtxThread, TLC

CONSTANTS Spare, Partner

\* t was never created: those that were have a priority above the idle thread's.
Unused(t) == k.priority[t] = IdlePriority

JoinsOnly ==
  /\ \A t \in Thread : thread_flags[t] = {} /\ wait[t] = NoWait
  /\ isr_queue = <<>>
  /\ Unused(Partner)

FlagsOnly ==
  /\ \A t \in Thread : /\ thread_join[t] = NoThread /\ joins[t] = NoThread
                       /\ ~joinable[t]
  /\ \A t \in Spare : Unused(t)

Uses == JoinsOnly \/ FlagsOnly

Symmetry == Permutations(Spare)
===========================================================================
