--------------------------- MODULE MutexService ---------------------------
(***************************************************************************)
(* What the mutexes of the kernel promise their callers (cmsis_os2.h,      *)
(* Mutex Management): one holder at a time, taken by the running thread,   *)
(* given up only by the holder, by deletion or, when the mutex is robust,  *)
(* by the end of the holder, and then passed to a waiting thread if there  *)
(* is one.  RtxMutex implements it.                                        *)
(***************************************************************************)
EXTENDS Naturals

CONSTANTS Thread, NoThread, Mutex, Recursive, Robust

VARIABLES
  running,  \* the running thread
  holder,   \* the thread that holds each mutex
  depth,    \* how many times it has acquired it
  waiters   \* the threads waiting for it

lockVars == <<holder, depth, waiters>>

Init ==
  /\ running \in Thread
  /\ holder = [m \in Mutex |-> NoThread]
  /\ depth = [m \in Mutex |-> 0]
  /\ waiters = [m \in Mutex |-> {}]

Acquire(m) ==
  /\ depth[m] = 0
  /\ holder' = [holder EXCEPT ![m] = running]
  /\ depth' = [depth EXCEPT ![m] = 1]
  /\ UNCHANGED waiters

AcquireAgain(m) ==
  /\ m \in Recursive /\ holder[m] = running
  /\ depth' = [depth EXCEPT ![m] = @ + 1]
  /\ UNCHANGED <<holder, waiters>>

Wait(m) ==
  /\ depth[m] > 0
  /\ \A n \in Mutex : running \notin waiters[n]
  /\ waiters' = [waiters EXCEPT ![m] = @ \cup {running}]
  /\ UNCHANGED <<holder, depth>>

\* The mutexes of S go to one of their waiters each, or become free.
PassOn(S, left) ==
  \E heir \in [S -> Thread \cup {NoThread}] :
    /\ \A m \in S : IF left[m] = {} THEN heir[m] = NoThread ELSE heir[m] \in left[m]
    /\ holder' = [m \in Mutex |-> IF m \in S THEN heir[m] ELSE holder[m]]
    /\ depth' = [m \in Mutex |-> IF m \notin S THEN depth[m]
                                 ELSE IF heir[m] = NoThread THEN 0 ELSE 1]
    /\ waiters' = [m \in Mutex |-> IF m \in S THEN left[m] \ {heir[m]} ELSE left[m]]

Release(m) ==
  /\ holder[m] = running
  /\ IF depth[m] > 1
     THEN /\ depth' = [depth EXCEPT ![m] = @ - 1]
          /\ UNCHANGED <<holder, waiters>>
     ELSE PassOn({m}, waiters)

\* A timeout or another thread ends the wait.
GiveUp(t) ==
  /\ waiters' = [m \in Mutex |-> waiters[m] \ {t}]
  /\ UNCHANGED <<holder, depth>>

End(t) ==
  PassOn({m \in Robust : holder[m] = t}, [m \in Mutex |-> waiters[m] \ {t}])

Delete(m) ==
  /\ holder' = [holder EXCEPT ![m] = NoThread]
  /\ depth' = [depth EXCEPT ![m] = 0]
  /\ waiters' = [waiters EXCEPT ![m] = {}]

Next ==
  /\ running' \in Thread
  /\ \/ \E m \in Mutex : \/ Acquire(m) \/ AcquireAgain(m) \/ Wait(m)
                         \/ Release(m) \/ Delete(m)
     \/ \E t \in Thread : GiveUp(t) \/ End(t)
     \/ UNCHANGED lockVars

Spec == Init /\ [][Next]_<<running, lockVars>>
===========================================================================
