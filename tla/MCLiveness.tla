---------------------------- MODULE MCLiveness ----------------------------
(***************************************************************************)
(* What must come when exceptions, the timer thread and the threads inside *)
(* a driver go on: the flags of an event-flags object, and beside them an  *)
(* instance each for the tokens of a semaphore, which have one thread more,*)
(* the callbacks of timers, a CAN message, the calls of the event loop.    *)
(* Only one of the five takes steps.  Liveness: no symmetry.               *)
(***************************************************************************)
EXTENDS RtxEventFlags, TLC

CONSTANTS Spare, Timer, NoTimer, Slot, freelist, Sender, NoMessage,
          c1, c2, e1, e2, Loop, Handler, EventNode, NoNode

VARIABLES
  tokens, wanted, balance,                 \* of RtxSemaphore
  timers, queue, calling, failed,          \* of RtxTimer
  lists, sem, completion, result, mailbox, writer,  \* of CanTransmit
  head_node, next, item, free, mutex, event_queue, at,  \* of SystemEvent
  instance                                 \* which of the five

Tokens == INSTANCE RtxSemaphore WITH
  Thread <- Thread \cup Spare, IsrLimit <- 2, MaxTokens <- 2

Callbacks == INSTANCE RtxTimer WITH Ticks <- {1, 2}, QueueSize <- 2

Sending == INSTANCE CanTransmit WITH
  Writer <- {Sender}, Overlap <- FALSE, None <- NoMessage

\* Nobody registers an event twice.
Loops == INSTANCE SystemEvent WITH
  Node <- EventNode, Client <- {c1, c2}, Event <- {e1, e2}, QueueSize <- 1,
  RegistersOf <- c1 :> {e1} @@ c2 :> {e2}, Repeats <- FALSE

ASSUME Loops!SystemEventAssumption

tokenVars  == <<tokens, wanted, balance>>
eventVars  == <<event_flags, wait, walk>>
timerVars  == <<timers, queue, calling, failed>>
sendVars   == <<lists, sem, completion, result, mailbox, writer>>
loopVars   == <<head_node, next, item, free, mutex, event_queue, at>>
allVars    == <<kernelVars, tokenVars, eventVars, timerVars, sendVars, loopVars, instance>>

\* The variables an instance has no use for; those of the event flags are as they
\* were in the beginning then.
NoTokens == tokens = 0 /\ wanted = 0 /\ balance = 0
NoTimers == timers = 0 /\ queue = 0 /\ calling = 0 /\ failed = 0
NoSending == /\ lists = 0 /\ sem = 0 /\ completion = 0
             /\ result = 0 /\ mailbox = 0 /\ writer = 0
NoLoop    == /\ head_node = 0 /\ next = 0 /\ item = 0 /\ free = 0 /\ mutex = 0
             /\ event_queue = 0 /\ at = 0

MCInit ==
  /\ instance \in {"tokens", "events", "callbacks", "sending", "loop"}
  /\ CASE instance = "tokens" -> Tokens!Init
       [] instance = "callbacks" -> Callbacks!Init
       [] instance = "sending" -> Sending!Init
       [] instance = "loop" -> Loops!Init
       [] OTHER -> TRUE
  /\ instance # "tokens" => KernelInit /\ NoTokens
  /\ event_flags = [ef \in Object |-> {}]
  /\ wait = [t \in Thread |-> NoWait]
  /\ walk = None
  /\ instance # "callbacks" => NoTimers
  /\ instance # "sending" => NoSending
  /\ instance # "loop" => NoLoop

Token(does) ==
  /\ instance = "tokens" /\ does
  /\ UNCHANGED <<eventVars, timerVars, sendVars, loopVars, instance>>
Event(does) ==
  /\ instance = "events" /\ does
  /\ UNCHANGED <<tokenVars, timerVars, sendVars, loopVars, instance>>
Callback(does) ==
  /\ instance = "callbacks" /\ does
  /\ UNCHANGED <<kernelVars, tokenVars, eventVars, sendVars, loopVars, instance>>
Send(does) ==
  /\ instance = "sending" /\ does
  /\ UNCHANGED <<kernelVars, tokenVars, eventVars, timerVars, loopVars, instance>>

Register(does) ==
  /\ instance = "loop" /\ does
  /\ UNCHANGED <<kernelVars, tokenVars, eventVars, timerVars, sendVars, instance>>

MCNext ==
  \/ Token(Tokens!Next) \/ Event(Next) \/ Callback(Callbacks!Next)
  \/ Send(Sending!Next) \/ Register(Loops!Next)

Fairness ==
  /\ WF_allVars(Token(Tokens!Handlers))
  /\ WF_allVars(Event(Handlers))
  /\ WF_allVars(Callback(Callbacks!TimerThreadGet))
  /\ WF_allVars(Callback(Callbacks!TimerThreadReturns))
  /\ WF_allVars(Send(Sending!WriterStep(Sender)))
  /\ \A a \in {c1, c2, Loop} :
       /\ WF_allVars(Register(Loops!Proceeds(a)))
       /\ SF_allVars(Register(Loops!Acquires(a)))

MCSpec == MCInit /\ [][MCNext]_allVars /\ Fairness
---------------------------------------------------------------------------
\* A token and a thread waiting for it come together, or one of them goes.
TokenServed ==
  \A s \in Object :
    (instance = "tokens" /\ Tokens!Meet(s)) ~> (instance = "tokens" => ~Tokens!Meet(s))

\* A queued callback is called, unless the queue overflows.
CallbackComes ==
  \A t \in Timer :
    (instance = "callbacks" /\ Callbacks!Awaits(t))
      ~> (instance = "callbacks" => ~Callbacks!Awaits(t))

\* A write to the CAN device returns, whatever becomes of the message.
WriteReturns ==
  (instance = "sending" /\ writer[Sender].at # "idle")
    ~> (instance = "sending" => writer[Sender].at = "idle")

\* Whoever registers, unregisters or dispatches comes to the end of it: no
\* path leaves the mutex of the list locked behind it.
CallsReturn ==
  \A a \in {c1, c2, Loop} :
    (instance = "loop" /\ at[a].step # "idle") ~> (instance = "loop" => at[a].step = "idle")
===========================================================================
