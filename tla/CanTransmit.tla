--------------------------- MODULE CanTransmit ---------------------------
(***************************************************************************)
(* Transmission on CAN (components/can/can.c, bsp/driver/drv_can.c).  A    *)
(* slot stands for a mailbox of the controller.  A writer takes a token    *)
(* from a semaphore that counts the free slots, takes a slot off the free  *)
(* list, fills its mailbox and waits for the interrupt to complete it.     *)
(*                                                                         *)
(* rt_can_write takes no lock: writers interleave at every step.  privmode *)
(* is off, as in the default configuration.  A change of the list or of a  *)
(* semaphore is one step.                                                  *)
(***************************************************************************)
EXTENDS RtList

CONSTANTS
  Writer,         \* threads that write to the device
  Slot,           \* tx_fifo->buffer, with a mailbox each
  freelist,
  None,
  Overlap         \* whether a writer may look for a slot between another's look and removal

TransmitAssumption ==
  /\ Overlap \in BOOLEAN
  /\ IsFiniteSet(Slot) /\ freelist \notin Slot
  /\ None \notin Writer

VARIABLES
  lists,          \* the links of the slots and of the head
  sem,
  completion,     \* tokens of the semaphore of each slot, one at most
  result,
  mailbox,        \* whose message the controller is sending
  writer          \* what each writer is doing, with its local variables

vars == <<lists, sem, completion, result, mailbox, writer>>

Node == Slot \cup {freelist}
SndBoxNumber == Cardinality(Slot)
CAN_RETRY_MAX == SndBoxNumber

\* Steps at which the writer has taken a token and not yet given it back
Holding == {"look", "unlist", "send", "return", "give up", "sent", "woken", "late", "release",
            "broken"}

TypeOK ==
  /\ lists \in Links(Node)
  /\ sem \in 0 .. SndBoxNumber
  /\ completion \in [Slot -> 0 .. 1]
  /\ result \in [Slot -> {"OK", "ERR", "WAIT"}]
  /\ mailbox \in [Slot -> Writer \cup {None}]
  /\ writer \in [Writer -> [at : Holding \cup {"idle", "acquire", "clear"},
                            tx_tosnd : Node, retry : 0 .. CAN_RETRY_MAX,
                            res : {"OK", "ERR", "WAIT"}]]

\* rt_can_open
Init ==
  /\ \E order \in [1 .. SndBoxNumber -> Slot] :
       /\ \A i, j \in DOMAIN order : order[i] = order[j] => i = j
       /\ lists = LET fill[i \in 0 .. SndBoxNumber] ==
                        IF i = 0 THEN Alone(Node)
                        ELSE InsertBefore(fill[i - 1], freelist, order[i])
                  IN  fill[SndBoxNumber]
  /\ sem = SndBoxNumber
  /\ completion = [s \in Slot |-> 0]
  /\ result = [s \in Slot |-> "OK"]
  /\ mailbox = [s \in Slot |-> None]
  /\ writer = [w \in Writer |-> [at |-> "idle", tx_tosnd |-> freelist, retry |-> 0, res |-> "OK"]]

---------------------------------------------------------------------------
\* _can_int_tx

slot(w) == writer[w].tx_tosnd
Goes(w, step) == writer' = [writer EXCEPT ![w].at = step]
Ends(w) == writer' = [writer EXCEPT ![w] = [at |-> "idle", tx_tosnd |-> freelist,
                                            retry |-> 0, res |-> "OK"]]

\* osSemaphoreRelease(tx_fifo->sem)
GivesToken == sem' = IF sem < SndBoxNumber THEN sem + 1 ELSE sem

Writes(w) ==
  /\ writer[w].at = "idle"
  /\ Goes(w, "acquire")
  /\ UNCHANGED <<lists, sem, completion, result, mailbox>>

Acquires(w) ==
  /\ writer[w].at = "acquire" /\ sem > 0
  /\ sem' = sem - 1
  /\ Goes(w, "look")
  /\ UNCHANGED <<lists, completion, result, mailbox>>

\* The first slot is not checked to exist: the head of an empty list is taken for
\* a slot, and what follows is undefined.
Looks(w) ==
  /\ writer[w].at = "look"
  /\ Overlap \/ \A v \in Writer : writer[v].at # "unlist"
  /\ writer' = [writer EXCEPT
                  ![w].tx_tosnd = lists.next[freelist],
                  ![w].at = IF IsEmpty(lists, freelist) THEN "broken" ELSE "unlist"]
  /\ UNCHANGED <<lists, sem, completion, result, mailbox>>

\* Mutant of Unlists: the result of the last use of the slot stays.
Unlists_KeepsResult(w) ==
  /\ writer[w].at = "unlist"
  /\ lists' = Remove(lists, slot(w))
  /\ Goes(w, "send")
  /\ UNCHANGED <<sem, completion, result, mailbox>>

Unlists(w) ==
  /\ writer[w].at = "unlist"
  /\ lists' = Remove(lists, slot(w))
  /\ result' = [result EXCEPT ![slot(w)] = "WAIT"]
  /\ Goes(w, "send")
  /\ UNCHANGED <<sem, completion, mailbox>>

\* The mailbox takes the message; a writer out of retries gives up all the same.
Sends(w) ==
  /\ writer[w].at = "send" /\ mailbox[slot(w)] = None
  /\ mailbox' = [mailbox EXCEPT ![slot(w)] = w]
  /\ writer' = IF writer[w].retry >= CAN_RETRY_MAX
               THEN [writer EXCEPT ![w].at = "give up"]
               ELSE [writer EXCEPT ![w].at = "sent", ![w].retry = 0]
  /\ UNCHANGED <<lists, sem, completion, result>>

\* The mailbox is busy: the slot goes to the front of the list, to be tried again.
Retries(w) ==
  /\ writer[w].at = "send" /\ mailbox[slot(w)] # None
  /\ writer[w].retry < CAN_RETRY_MAX
  /\ lists' = InsertAfter(lists, freelist, slot(w))
  /\ Goes(w, "return")
  /\ UNCHANGED <<sem, completion, result, mailbox>>

\* ... and osDelay(5)
Returns(w) ==
  /\ writer[w].at = "return"
  /\ GivesToken
  /\ writer' = [writer EXCEPT ![w].at = "acquire", ![w].retry = @ + 1]
  /\ UNCHANGED <<lists, completion, result, mailbox>>

NoRetryLeft(w) ==
  /\ writer[w].at = "send" /\ mailbox[slot(w)] # None
  /\ writer[w].retry >= CAN_RETRY_MAX
  /\ Goes(w, "give up")
  /\ UNCHANGED <<lists, sem, completion, result, mailbox>>

\* The slot is not put back.
GivesUp(w) ==
  /\ writer[w].at = "give up"
  /\ GivesToken
  /\ Goes(w, "clear")
  /\ UNCHANGED <<lists, completion, result, mailbox>>

IsCompleted(w) ==
  /\ writer[w].at = "sent" /\ completion[slot(w)] > 0
  /\ completion' = [completion EXCEPT ![slot(w)] = @ - 1]
  /\ Goes(w, "woken")
  /\ UNCHANGED <<lists, sem, result, mailbox>>

\* RT_CAN_SND_TIMEOUT
TimesOut(w) ==
  /\ writer[w].at = "sent" /\ completion[slot(w)] = 0
  /\ Goes(w, "late")
  /\ UNCHANGED <<lists, sem, completion, result, mailbox>>

PutsBack(w) ==
  /\ writer[w].at \in {"woken", "late"}
  /\ writer' = [writer EXCEPT
                  ![w].res = IF writer[w].at = "woken" THEN result[slot(w)] ELSE "ERR",
                  ![w].at = "release"]
  /\ lists' = InsertBefore(IF IsEmpty(lists, slot(w)) THEN lists ELSE Remove(lists, slot(w)),
                           freelist, slot(w))
  /\ UNCHANGED <<sem, completion, result, mailbox>>

\* A message that was not sent ends the write.
Releases(w) ==
  /\ writer[w].at = "release"
  /\ GivesToken
  /\ IF writer[w].res = "OK" THEN Ends(w) ELSE Goes(w, "clear")
  /\ UNCHANGED <<lists, completion, result, mailbox>>

\* Mutant of Clears: the message is written again instead of being dropped.
Clears_WritesAgain(w) ==
  /\ writer[w].at = "clear"
  /\ mailbox' = [mailbox EXCEPT ![slot(w)] = None]
  /\ Goes(w, "acquire")
  /\ UNCHANGED <<lists, sem, completion, result>>

\* can_control, RT_DEVICE_CTRL_CLR_INT: the interrupt is off, the transmission is
\* stopped and its flag cleared.
Clears(w) ==
  /\ writer[w].at = "clear"
  /\ mailbox' = [mailbox EXCEPT ![slot(w)] = None]
  /\ Ends(w)
  /\ UNCHANGED <<lists, sem, completion, result>>

---------------------------------------------------------------------------
\* The controller has sent the message of a mailbox: USBD_HP_CAN0_TX_IRQHandler
\* and rt_hw_can_isr, RT_CAN_EVENT_TX_DONE.
TxDone(s) ==
  /\ mailbox[s] # None
  /\ mailbox' = [mailbox EXCEPT ![s] = None]
  /\ result' = [result EXCEPT ![s] = "OK"]
  /\ completion' = [completion EXCEPT ![s] = 1]
  /\ UNCHANGED <<lists, sem, writer>>

---------------------------------------------------------------------------
WriterStep(w) ==
  \/ Acquires(w) \/ Looks(w) \/ Unlists(w) \/ Sends(w) \/ Retries(w) \/ Returns(w)
  \/ NoRetryLeft(w) \/ GivesUp(w) \/ IsCompleted(w) \/ TimesOut(w)
  \/ PutsBack(w) \/ Releases(w) \/ Clears(w)

Next == \/ \E w \in Writer : Writes(w) \/ WriterStep(w)
        \/ \E s \in Slot : TxDone(s)

Spec == Init /\ [][Next]_vars

\* A writer that can go on does so in the end.
FairSpec == Spec /\ \A w \in Writer : WF_vars(WriterStep(w))
---------------------------------------------------------------------------
\* Properties

Holders == {w \in Writer : writer[w].at \in Holding}

\* The tokens of tx_fifo->sem and those that writers hold are as many as there
\* are mailboxes, on every way through _can_int_tx.
TokensHold == sem + Cardinality(Holders) = SndBoxNumber

\* can.c:162, "all semaphores taken are restored": a token stands for a free slot,
\* so that a writer which acquires one finds a slot on the list.
SlotForToken == sem <= Len(Entries(lists, freelist)) /\ Ring(lists, freelist)

\* A writer counts a message as sent only when its mailbox is done with it.
SentIsSent ==
  \A w \in Writer : writer[w].at = "release" /\ writer[w].res = "OK" => mailbox[slot(w)] # w

\* The controller sends only for a writer that has not ended its write: whatever
\* way a write ends, it leaves no message behind in a mailbox.
BusyIsUsed ==
  \A s \in Slot : mailbox[s] # None => \E w \in Writer : slot(w) = s /\ writer[w].at # "idle"

\* can.c:189, "clear the CAN mailbox that cannot be sent": a writer stops only the
\* transmission of its own message.
CancelsOwn ==
  [][\A w \in Writer : Clears(w) => mailbox[slot(w)] \in {w, None}]_vars

\* can.c:172, "while waiting for the completion semaphore the interrupt has changed
\* tx_tosnd->result": a writer that is woken finds a result.
ResultKnown == \A w \in Writer : writer[w].at = "woken" => result[slot(w)] # "WAIT"

\* Each write returns, sent, dropped or given up.
WriteReturns == \A w \in Writer : writer[w].at # "idle" ~> writer[w].at = "idle"
===========================================================================
