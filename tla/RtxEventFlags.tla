--------------------------- MODULE RtxEventFlags ---------------------------
(***************************************************************************)
(* Event flags (rtx_evflags.c).  A setter, or PendSV after an interrupt,   *)
(* walks the list of waiting threads from its head and gives the flags to  *)
(* each thread they satisfy; one that clears them takes them from those    *)
(* behind it.  EventFlagsSet, -Clear and -Check are atomic, the walk is    *)
(* not: interrupts may set, clear and take flags between any two checks.   *)
(***************************************************************************)
EXTENDS RtxObject

CONSTANT Flag  \* the bits of event_flags the application uses

VARIABLES
  event_flags,  \* of each object
  wait,         \* wait_flags and flags_options of each thread
  walk          \* the service or post processing at work

vars == <<kernelVars, event_flags, wait, walk>>

FlagSet  == (SUBSET Flag) \ {{}}
FlagWait == [flags : FlagSet, all : BOOLEAN, clear : BOOLEAN]
NoWait   == [flags |-> {}, all |-> FALSE, clear |-> FALSE]

\* Nothing at work; the rest of the list of ef that is still to be checked; the
\* check of osEventFlagsWait has failed.
None == [do |-> "none"]
Checking(ef, threads) == [do |-> "check", ef |-> ef, threads |-> threads]
WaitFailed(ef, w, timeout) ==
  [do |-> "wait", ef |-> ef, for |-> w, timeout |-> timeout]

TypeOK ==
  /\ KernelTypeOK
  /\ isr_queue \in Seq(Object)
  /\ event_flags \in [Object -> SUBSET Flag]
  /\ wait \in [Thread -> FlagWait \cup {NoWait}]
  /\ \A t \in Thread : k.state[t] = "WaitingEventFlags" => wait[t] \in FlagWait
  /\ \/ walk = None
     \/ walk \in [do : {"check"}, ef : Object, threads : Seq(Thread)]
     \/ walk \in [do : {"wait"}, ef : Object, for : FlagWait, timeout : Timeout]

Init ==
  /\ KernelInit
  /\ event_flags = [ef \in Object |-> {}]
  /\ wait = [t \in Thread |-> NoWait]
  /\ walk = None

---------------------------------------------------------------------------
\* EventFlagsCheck succeeds, and clears the flags unless osFlagsNoClear.
Satisfies(flags, w) ==
  IF w.all THEN w.flags \subseteq flags ELSE w.flags \cap flags # {}

Taken(flags, w) == IF w.clear THEN flags \ w.flags ELSE flags

Set(ef, f) == event_flags' = [event_flags EXCEPT ![ef] = @ \cup f]
Clear(ef, f) == event_flags' = [event_flags EXCEPT ![ef] = @ \ f]
Take(ef, w) == event_flags' = [event_flags EXCEPT ![ef] = Taken(@, w)]

---------------------------------------------------------------------------
EventFlagsNew(ef) ==
  /\ ObjectNew(ef)
  /\ event_flags' = [event_flags EXCEPT ![ef] = {}]
  /\ UNCHANGED <<wait, walk>>

EventFlagsDelete(ef) ==
  /\ ObjectDelete(ef)
  /\ UNCHANGED <<event_flags, wait, walk>>

\* The flags are set before the list is looked at.
EventFlagsSet(ef, f) ==
  /\ Calls /\ id[ef]
  /\ Set(ef, f)
  /\ handler' = "svc" /\ walk' = Checking(ef, thread_list[ef])
  /\ UNCHANGED <<k, id, thread_list, isr_queue, wait>>

\* Mutant of CheckNext: the walk ends with the first thread it wakes.
CheckNext_FirstOnly ==
  LET ef == walk.ef
      t  == Head(walk.threads)
  IN  /\ walk.do = "check" /\ walk.threads # <<>>
      /\ IF Satisfies(event_flags[ef], wait[t])
         THEN /\ Take(ef, wait[t])
              /\ thread_list' = Leaving(t)
              /\ k' = WaitExit(k, t)
              /\ walk' = [walk EXCEPT !.threads = <<>>]
         ELSE /\ UNCHANGED <<event_flags, thread_list, k>>
              /\ walk' = [walk EXCEPT !.threads = Tail(@)]
      /\ UNCHANGED <<id, handler, isr_queue, wait>>

\* One turn of the loop of svcRtxEventFlagsSet or osRtxEventFlagsPostProcess.
CheckNext ==
  LET ef == walk.ef
      t  == Head(walk.threads)
  IN  /\ walk.do = "check" /\ walk.threads # <<>>
      /\ IF Satisfies(event_flags[ef], wait[t])
         THEN /\ Take(ef, wait[t])
              /\ thread_list' = Leaving(t)
              /\ k' = WaitExit(k, t)
         ELSE UNCHANGED <<event_flags, thread_list, k>>
      /\ walk' = [walk EXCEPT !.threads = Tail(@)]
      /\ UNCHANGED <<id, handler, isr_queue, wait>>

\* The service dispatches at the end, PendSV with its last entry.
WalkEnds ==
  /\ walk.do = "check" /\ walk.threads = <<>>
  /\ IF handler = "svc" THEN Finish(Dispatch(k), thread_list)
     ELSE UNCHANGED <<k, thread_list, handler, isr_queue>>
  /\ walk' = None
  /\ UNCHANGED <<id, event_flags, wait>>

EventFlagsClear(ef, f) ==
  /\ id[ef]
  /\ Service(k, thread_list)
  /\ Clear(ef, f)
  /\ UNCHANGED <<wait, walk>>

EventFlagsTake(ef, w) ==
  /\ id[ef] /\ Satisfies(event_flags[ef], w)
  /\ Service(k, thread_list)
  /\ Take(ef, w)
  /\ UNCHANGED <<wait, walk>>

EventFlagsWait(ef, w, timeout) ==
  /\ Calls /\ id[ef] /\ ~Satisfies(event_flags[ef], w)
  /\ handler' = "svc" /\ walk' = WaitFailed(ef, w, timeout)
  /\ UNCHANGED <<k, id, thread_list, isr_queue, event_flags, wait>>

EventFlagsWaits ==
  /\ walk.do = "wait"
  /\ IF CanSwitch(k)
     THEN /\ Finish(WaitEnter(k, "WaitingEventFlags", walk.timeout), Joining(walk.ef))
          /\ wait' = [wait EXCEPT ![k.curr] = walk.for]
     ELSE /\ Finish(k, thread_list)
          /\ UNCHANGED wait
  /\ walk' = None
  /\ UNCHANGED <<id, event_flags>>

---------------------------------------------------------------------------
\* Interrupts

\* Mutant of IsrEventFlagsSet: the object is registered only if the flags satisfy
\* a thread that waits at that moment.
IsrEventFlagsSet_IfWaited(ef, f) ==
  /\ id[ef]
  /\ Set(ef, f)
  /\ IF \E t \in ToSet(thread_list[ef]) : Satisfies(event_flags[ef] \cup f, wait[t])
     THEN PostProcess(ef) ELSE UNCHANGED isr_queue
  /\ UNCHANGED <<k, id, thread_list, handler, wait, walk>>

IsrEventFlagsSet(ef, f) ==
  /\ id[ef]
  /\ Set(ef, f)
  /\ PostProcess(ef)
  /\ UNCHANGED <<k, id, thread_list, handler, wait, walk>>

IsrEventFlagsClear(ef, f) ==
  /\ id[ef]
  /\ Clear(ef, f)
  /\ UNCHANGED <<kernelVars, wait, walk>>

IsrEventFlagsWait(ef, w) ==
  /\ id[ef] /\ Satisfies(event_flags[ef], w)
  /\ Take(ef, w)
  /\ UNCHANGED <<kernelVars, wait, walk>>

\* osRtxEventFlagsPostProcess begins.
PendSVEventFlags ==
  LET ef == Head(isr_queue)
  IN  /\ Pending /\ walk = None
      /\ PendSVTakes(k, thread_list)
      /\ walk' = IF id[ef] THEN Checking(ef, thread_list[ef]) ELSE None
      /\ UNCHANGED <<event_flags, wait>>

---------------------------------------------------------------------------
EventFlagsCall(ef) ==
  \/ EventFlagsNew(ef) \/ EventFlagsDelete(ef)
  \/ \E f \in FlagSet : EventFlagsSet(ef, f) \/ EventFlagsClear(ef, f)
  \/ \E w \in FlagWait :
       EventFlagsTake(ef, w) \/ \E timeout \in Timeout : EventFlagsWait(ef, w, timeout)

Interrupt(ef) ==
  \/ \E f \in FlagSet : IsrEventFlagsSet(ef, f) \/ IsrEventFlagsClear(ef, f)
  \/ \E w \in FlagWait : IsrEventFlagsWait(ef, w)

EventFlagsSteps == CheckNext \/ WalkEnds \/ EventFlagsWaits \/ PendSVEventFlags

Others(step) == walk = None /\ step /\ UNCHANGED <<event_flags, wait, walk>>

Next ==
  \/ \E ef \in Object : EventFlagsCall(ef) \/ Interrupt(ef)
  \/ EventFlagsSteps
  \/ Others(KernelStep)

Handlers == EventFlagsSteps \/ Others(HandlerStep)

Spec == Init /\ [][Next]_vars

\* A service that has begun ends, and the exceptions that are pending run.
FairSpec == Spec /\ WF_vars(Handlers)
---------------------------------------------------------------------------
\* Properties

Satisfied(ef, t) == t \in ToSet(thread_list[ef]) /\ Satisfies(event_flags[ef], wait[t])

\* Nobody waits for flags that are set unless PendSV or the walk at work is going
\* to check them again: also when flags were set behind the walk, or between the
\* failed check and the wait, or given back to one thread by the end of another.
NoMissedEvent ==
  \A ef \in Object : \A t \in Thread :
    Satisfied(ef, t) =>
      \/ ef \in ToSet(isr_queue)
      \/ walk.do = "check" /\ walk.ef = ef /\ t \in ToSet(walk.threads)

\* Hence nobody waits forever for flags that stay set.
EventServed ==
  \A ef \in Object : \A t \in Application : Satisfied(ef, t) ~> ~Satisfied(ef, t)
===========================================================================
