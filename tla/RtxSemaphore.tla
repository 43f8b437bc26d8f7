--------------------------- MODULE RtxSemaphore ---------------------------
(***************************************************************************)
(* Semaphores (rtx_semaphore.c), taken and given by threads and by         *)
(* interrupt handlers.  A token given in an interrupt is put back into     *)
(* the semaphore and handed to a waiting thread only when PendSV runs.     *)
(*                                                                         *)
(* SemaphoreTokenDecrement and SemaphoreTokenIncrement are atomic.  Between *)
(* the decrement that fails and the wait an interrupt may give a token:    *)
(* osSemaphoreAcquire takes two steps then.                                *)
(***************************************************************************)
EXTENDS RtxObject

CONSTANT MaxTokens  \* max_tokens of the semaphores created

ASSUME SemaphoreAssumption == MaxTokens \in Nat \ {0}

VARIABLES
  tokens,   \* of each semaphore
  wanted,   \* the semaphore and timeout of the acquisition being made
  balance   \* history: the tokens given, the initial ones among them, less the
            \* acquisitions that returned osOK

vars == <<kernelVars, tokens, wanted, balance>>

NoRequest == <<>>

TypeOK ==
  /\ KernelTypeOK
  /\ isr_queue \in Seq(Object)
  /\ tokens \in [Object -> 0 .. MaxTokens]
  /\ wanted \in {NoRequest} \cup (Object \X Timeout)
  /\ balance \in [Object -> Int]

Init ==
  /\ KernelInit
  /\ tokens = [s \in Object |-> 0]
  /\ wanted = NoRequest
  /\ balance = [s \in Object |-> 0]

---------------------------------------------------------------------------
\* n more tokens are given or, when n < 0, taken.
Give(s, n) == balance' = [balance EXCEPT ![s] = @ + n]

SemaphoreNew(s, initial) ==
  /\ ObjectNew(s)
  /\ tokens' = [tokens EXCEPT ![s] = initial]
  /\ balance' = [balance EXCEPT ![s] = initial]
  /\ UNCHANGED wanted

SemaphoreDelete(s) ==
  /\ ObjectDelete(s)
  /\ UNCHANGED <<tokens, wanted, balance>>

\* SemaphoreTokenDecrement succeeds.
TokenTaken(s) == tokens' = [tokens EXCEPT ![s] = @ - 1]

SemaphoreAcquire(s) ==
  /\ id[s] /\ tokens[s] # 0
  /\ Service(k, thread_list)
  /\ TokenTaken(s) /\ Give(s, -1)
  /\ UNCHANGED wanted

SemaphoreAcquireFails(s, timeout) ==
  /\ Calls /\ id[s] /\ tokens[s] = 0
  /\ handler' = "svc"
  /\ wanted' = <<s, timeout>>
  /\ UNCHANGED <<k, id, thread_list, isr_queue, tokens, balance>>

SemaphoreAcquireWaits ==
  /\ handler = "svc"
  /\ IF CanSwitch(k)
     THEN Finish(WaitEnter(k, "WaitingSemaphore", wanted[2]), Joining(wanted[1]))
     ELSE Finish(k, thread_list)
  /\ wanted' = NoRequest
  /\ UNCHANGED <<id, tokens, balance>>

\* The token goes to the first waiting thread, if there is one.
SemaphoreRelease(s) ==
  /\ id[s]
  /\ IF Waited(s)
     THEN /\ Service(WaitExitDispatch(k, First(s)), Popped(s))
          /\ UNCHANGED <<tokens, balance>>
     ELSE /\ tokens[s] < MaxTokens
          /\ Service(k, thread_list)
          /\ tokens' = [tokens EXCEPT ![s] = @ + 1]
          /\ Give(s, 1)
  /\ UNCHANGED wanted

---------------------------------------------------------------------------
\* Interrupts

IsrSemaphoreAcquire(s) ==
  /\ id[s] /\ tokens[s] # 0
  /\ TokenTaken(s) /\ Give(s, -1)
  /\ UNCHANGED <<kernelVars, wanted>>

\* Mutant of IsrSemaphoreRelease: only a token with a thread waiting at that
\* moment is registered.
IsrSemaphoreRelease_IfWaited(s) ==
  /\ id[s] /\ tokens[s] < MaxTokens
  /\ tokens' = [tokens EXCEPT ![s] = @ + 1]
  /\ Give(s, 1)
  /\ IF Waited(s) THEN PostProcess(s) ELSE UNCHANGED isr_queue
  /\ UNCHANGED <<k, id, thread_list, handler, wanted>>

IsrSemaphoreRelease(s) ==
  /\ id[s] /\ tokens[s] < MaxTokens
  /\ tokens' = [tokens EXCEPT ![s] = @ + 1]
  /\ Give(s, 1)
  /\ PostProcess(s)
  /\ UNCHANGED <<k, id, thread_list, handler, wanted>>

\* osRtxSemaphorePostProcess
PendSVSemaphore ==
  LET s == Head(isr_queue)
  IN  /\ Pending
      /\ IF id[s] /\ Waited(s) /\ tokens[s] # 0
         THEN /\ PendSVTakes(WaitExit(k, First(s)), Popped(s))
              /\ TokenTaken(s) /\ Give(s, -1)
         ELSE /\ PendSVTakes(k, thread_list)
              /\ UNCHANGED <<tokens, balance>>
      /\ UNCHANGED wanted

---------------------------------------------------------------------------
SemaphoreCall(s) ==
  \/ \E n \in 0 .. MaxTokens : SemaphoreNew(s, n)
  \/ SemaphoreDelete(s)
  \/ SemaphoreAcquire(s)
  \/ \E timeout \in Timeout : SemaphoreAcquireFails(s, timeout)
  \/ SemaphoreRelease(s)

Interrupt(s) == IsrSemaphoreAcquire(s) \/ IsrSemaphoreRelease(s)

Next ==
  \/ \E s \in Object : SemaphoreCall(s) \/ Interrupt(s)
  \/ SemaphoreAcquireWaits
  \/ PendSVSemaphore
  \/ KernelStep /\ UNCHANGED <<tokens, wanted, balance>>

Handlers ==
  \/ SemaphoreAcquireWaits \/ PendSVSemaphore
  \/ HandlerStep /\ UNCHANGED <<tokens, wanted, balance>>

Spec == Init /\ [][Next]_vars

\* A service that has begun ends, and the exceptions that are pending run.
FairSpec == Spec /\ WF_vars(Handlers)
---------------------------------------------------------------------------
\* Properties

\* Tokens are neither made nor lost: the count is what was given less what was
\* taken, whether a token went through the count or straight to a waiting
\* thread, in a service, in an interrupt or in PendSV.
TokensConserved == \A s \in Object : id[s] => tokens[s] = balance[s]

Entries(s) == Cardinality({i \in DOMAIN isr_queue : isr_queue[i] = s})

\* No token lies in a semaphore with threads waiting for it unless PendSV is to
\* hand it over: there are as many entries for it as threads it could serve,
\* also when the interrupt came between the failed decrement and the wait.
NoStrandedToken ==
  \A s \in Object :
    Waited(s) => \/ Entries(s) >= tokens[s]
                 \/ Entries(s) >= Len(thread_list[s])

\* Both, of every state.
TokensInOrder == TokensConserved /\ NoStrandedToken

\* The variables have their types, a thread blocked for a semaphore is in the
\* list of exactly one, a valid one, and the head of a list is who is served
\* first.
WaitersInOrder == TypeOK /\ WaitersListed /\ WaitersSorted

Meet(s) == tokens[s] > 0 /\ Waited(s)

\* Hence a token and a thread waiting for it always come together, or one of
\* the two goes: timeouts, other threads and interrupts may take it first.
TokenServed == \A s \in Object : Meet(s) ~> ~Meet(s)
===========================================================================
