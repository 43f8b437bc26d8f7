---------------------------- MODULE MCRtxMutex ----------------------------
(***************************************************************************)
(* RtxMutex for TLC: two equal mutexes, inherited through and deleted, and *)
(* beside it three instances with variables of their own: inheritance over *)
(* three priorities, the threads waiting for one mutex with every attribute*)
(* while others disturb them, and the lists of owned mutexes with nested   *)
(* waits.  Only one of the four takes steps.  The threads of Spare are     *)
(* interchangeable, and so are the two equal mutexes.                      *)
(***************************************************************************)
EXTENDS RtxMutex, TLC

CONSTANTS Spare, M1, M2

VARIABLES
  s, base, locks, exception,  \* of the other three
  instance                    \* which of the four

Inherit == INSTANCE RtxMutex WITH
  k <- s, priority_base <- base, mx <- locks, handler <- exception,
  Priority <- {1, 2, 3}, Habits <- {}

Waiters == INSTANCE RtxMutex WITH
  k <- s, priority_base <- base, mx <- locks, handler <- exception,
  Timeout <- {1, Forever}, Mutex <- {M1},
  Recursive <- {M1}, PrioInherit <- {M1}, Robust <- {M1},
  Habits <- {"Disturb", "Lock", "Delete"}

Owners == INSTANCE RtxMutex WITH
  k <- s, priority_base <- base, mx <- locks, handler <- exception,
  Priority <- {2}, Mutex <- {M1, M2},
  Recursive <- {M2}, PrioInherit <- {M1}, Robust <- {M1},
  Habits <- {"Nest", "Disturb", "Delete"}

ASSUME
  Inherit!MutexAssumption /\ Waiters!MutexAssumption /\ Owners!MutexAssumption

otherVars == <<s, base, locks, exception>>
allVars   == <<vars, otherVars, instance>>

\* RtxMutex is as it was in the beginning while another instance takes steps.
MCInit ==
  /\ Init
  /\ \/ instance = "mutexes" /\ s = 0 /\ base = 0 /\ locks = 0 /\ exception = 0
     \/ instance = "inherit" /\ Inherit!Init
     \/ instance = "waiters" /\ Waiters!Init
     \/ instance = "owners" /\ Owners!Init

MCNext ==
  \/ instance = "mutexes" /\ Next /\ UNCHANGED <<otherVars, instance>>
  \/ instance = "inherit" /\ Inherit!Next /\ UNCHANGED <<vars, instance>>
  \/ instance = "waiters" /\ Waiters!Next /\ UNCHANGED <<vars, instance>>
  \/ instance = "owners" /\ Owners!Next /\ UNCHANGED <<vars, instance>>

MCSpec == MCInit /\ [][MCNext]_allVars

Symmetry == Permutations(Spare) \cup Permutations(Mutex)
---------------------------------------------------------------------------
\* The properties of RtxMutex in the other instances, as far as they apply: with
\* three priorities inheritance stays exact; whoever disturbs waiting threads
\* finds them listed and sorted, and their owners raised until they release their
\* mutexes at the latest; nested waits keep the links, and the promises.
OthersInOrder ==
  /\ [](CASE instance = "mutexes" -> TRUE
          [] instance = "inherit" -> /\ Inherit!InheritsExactly /\ Inherit!HighestRuns
                                     /\ Inherit!TypeOK /\ Inherit!WaitersListed
          [] instance = "waiters" -> /\ Waiters!RaiseEnds
                                     /\ Waiters!TypeOK /\ Waiters!WaitersListed
                                     /\ Waiters!WaitersSorted
          [] instance = "owners"  -> Owners!RaiseEnds /\ Owners!ListsLinked)
  /\ instance = "owners" => Owners!Locks!Init
  /\ [][instance = "owners" => Owners!Locks!Next]_allVars
===========================================================================
