---------------------------- MODULE RtxIsrQueue ----------------------------
(***************************************************************************)
(* The queue through which interrupt handlers leave work for PendSV        *)
(* (rtx_system.c, EXCLUSIVE_ACCESS), access by access, and the suspension  *)
(* of the kernel, during which PendSV is kept from running (rtx_kernel.c). *)
(*                                                                         *)
(* An interrupt handler is preempted by those of a higher Level only, the  *)
(* two services by interrupts, PendSV by both.  What PendSV does with an   *)
(* object is in the modules of the objects.                                *)
(***************************************************************************)
EXTENDS Integers, Sequences, FiniteSets

CONSTANTS
  Object, Empty,
  max,     \* isr_queue.max
  Levels,  \* of interrupts that nest
  Burst    \* bounds the objects that are registered and not yet read

IsrQueueAssumption ==
  /\ max \in Nat \ {0} /\ Levels \in Nat \ {0} /\ Burst \in Nat \ {0}
  /\ Empty \notin Object

VARIABLES
  cnt, in, out, data,       \* osRtxInfo.isr_queue
  put,                      \* what the handler of each level is doing
  get,                      \* what PendSV is doing
  service,                  \* what KernelBlock or KernelUnblock is doing
  blocked, pendSV,          \* osRtxInfo.kernel
  pending,                  \* the pending bit of PendSV
  fifo                      \* history: the objects whose slots are reserved and not read

queue  == <<cnt, in, out, data, fifo>>
kernel == <<service, blocked, pendSV>>
vars   == <<queue, kernel, put, get, pending>>

Level == 1 .. Levels
Slot  == 0 .. max - 1
At(step, o, n) == [at |-> step, object |-> o, slot |-> n]
AtRest == At("idle", Empty, 0)

TypeOK ==
  /\ cnt \in 0 .. max /\ in \in Slot /\ out \in Slot
  /\ data \in [Slot -> Object \cup {Empty}]
  /\ put \in [Level -> [at : {"idle", "counted", "placed", "stored", "failed"},
                        object : Object \cup {Empty}, slot : Slot]]
  /\ get \in [at : {"idle", "loop", "counted", "placed"}, object : {Empty}, slot : Slot]
  /\ service \in {"none", "block", "clear", "note", "unblock", "set"}
  /\ blocked \in BOOLEAN /\ pendSV \in BOOLEAN /\ pending \in BOOLEAN
  /\ fifo \in Seq(Object)

Init ==
  /\ cnt = 0 /\ in = 0 /\ out = 0 /\ data = [n \in Slot |-> Empty]
  /\ put = [l \in Level |-> AtRest]
  /\ get = AtRest
  /\ service = "none" /\ blocked = FALSE /\ pendSV = FALSE /\ pending = FALSE
  /\ fifo = <<>>

---------------------------------------------------------------------------
\* isr_queue_put and osRtxPostProcess

Unplaced == {l \in Level : put[l].at = "counted"}

InIsr(l, step) ==
  /\ put[l].at = step
  /\ \A k \in Level : k > l => put[k] = AtRest

\* cnt is counted up unless the queue is full: osRtxErrorNotify never returns.
Register(l, o) ==
  /\ InIsr(l, "idle")
  /\ Len(fifo) + Cardinality(Unplaced) < Burst
  /\ IF cnt < max
     THEN cnt' = cnt + 1 /\ put' = [put EXCEPT ![l] = At("counted", o, 0)]
     ELSE cnt' = cnt /\ put' = [put EXCEPT ![l] = At("failed", o, 0)]
  /\ UNCHANGED <<in, out, data, fifo, kernel, get, pending>>

Place(l) ==
  /\ InIsr(l, "counted")
  /\ put' = [put EXCEPT ![l].at = "placed", ![l].slot = in]
  /\ fifo' = Append(fifo, put[l].object)
  /\ in' = (in + 1) % max
  /\ UNCHANGED <<cnt, out, data, kernel, get, pending>>

Store(l) ==
  /\ InIsr(l, "placed")
  /\ data' = [data EXCEPT ![put[l].slot] = put[l].object]
  /\ put' = [put EXCEPT ![l] = At("stored", Empty, 0)]
  /\ UNCHANGED <<cnt, in, out, fifo, kernel, get, pending>>

Pend(l) ==
  /\ InIsr(l, "stored")
  /\ IF blocked THEN pendSV' = TRUE /\ UNCHANGED pending
                ELSE pending' = TRUE /\ UNCHANGED pendSV
  /\ put' = [put EXCEPT ![l] = AtRest]
  /\ UNCHANGED <<queue, service, blocked, get>>

---------------------------------------------------------------------------
\* osRtxPendSV_Handler and isr_queue_get

InPendSV(step) ==
  /\ get.at = step
  /\ service = "none" /\ \A l \in Level : put[l] = AtRest

PendSVStart ==
  /\ InPendSV("idle") /\ pending
  /\ pending' = FALSE
  /\ get' = At("loop", Empty, 0)
  /\ UNCHANGED <<queue, kernel, put>>

\* PendSV ends when nothing is left.
Count ==
  /\ InPendSV("loop")
  /\ IF cnt > 0
     THEN cnt' = cnt - 1 /\ get' = At("counted", Empty, 0)
     ELSE cnt' = cnt /\ get' = AtRest
  /\ UNCHANGED <<in, out, data, fifo, kernel, put, pending>>

Take ==
  /\ InPendSV("counted")
  /\ get' = At("placed", Empty, out)
  /\ out' = (out + 1) % max
  /\ UNCHANGED <<cnt, in, data, fifo, kernel, put, pending>>

Read ==
  /\ InPendSV("placed")
  /\ get' = At("loop", Empty, 0)
  /\ fifo' = Tail(fifo)
  /\ UNCHANGED <<cnt, in, out, data, kernel, put, pending>>

---------------------------------------------------------------------------
\* KernelBlock in osKernelSuspend, KernelUnblock in osKernelResume

InService(step) == service = step /\ \A l \in Level : put[l] = AtRest

Suspend ==
  /\ InService("none") /\ get = AtRest /\ ~blocked
  /\ blocked' = TRUE /\ service' = "block"
  /\ UNCHANGED <<queue, put, get, pending, pendSV>>

BlockGetPendSV ==
  /\ InService("block")
  /\ service' = IF pending THEN "clear" ELSE "none"
  /\ UNCHANGED <<queue, put, get, pending, blocked, pendSV>>

\* Mutant of BlockClrPendSV: it is not noted that PendSV was pending.
BlockClrPendSV_NotNoted ==
  /\ InService("clear")
  /\ pending' = FALSE /\ service' = "none"
  /\ UNCHANGED <<queue, put, get, blocked, pendSV>>

BlockClrPendSV ==
  /\ InService("clear")
  /\ pending' = FALSE /\ service' = "note"
  /\ UNCHANGED <<queue, put, get, blocked, pendSV>>

BlockNotes ==
  /\ InService("note")
  /\ pendSV' = TRUE /\ service' = "none"
  /\ UNCHANGED <<queue, put, get, pending, blocked>>

Resume ==
  /\ InService("none") /\ get = AtRest /\ blocked
  /\ blocked' = FALSE /\ service' = "unblock"
  /\ UNCHANGED <<queue, put, get, pending, pendSV>>

UnblockChecks ==
  /\ InService("unblock")
  /\ pendSV' = FALSE /\ service' = IF pendSV THEN "set" ELSE "none"
  /\ UNCHANGED <<queue, put, get, pending, blocked>>

UnblockSetPendSV ==
  /\ InService("set")
  /\ pending' = TRUE /\ service' = "none"
  /\ UNCHANGED <<queue, put, get, blocked, pendSV>>

---------------------------------------------------------------------------
Next ==
  \/ \E l \in Level : \/ Place(l) \/ Store(l) \/ Pend(l)
                       \/ \E o \in Object : Register(l, o)
  \/ PendSVStart \/ Count \/ Take \/ Read
  \/ Suspend \/ BlockGetPendSV \/ BlockClrPendSV \/ BlockNotes
  \/ Resume \/ UnblockChecks \/ UnblockSetPendSV

Spec == Init /\ [][Next]_vars
---------------------------------------------------------------------------
\* Properties

\* What PendSV reads is what was registered first: no entry is overwritten,
\* skipped or read twice, however the handlers nest while they register.
ReadsOldest ==
  get.at = "placed" => fifo # <<>> /\ data[get.slot] = Head(fifo)

\* Every entry is read: PendSV is pending or running, or the suspended kernel
\* knows that it has to be, also if the entry comes while it is being suspended
\* or resumed.
NoForgottenEntry ==
  fifo # <<>> /\ (\A l \in Level : put[l] = AtRest) =>
    \/ pending \/ get # AtRest
    \/ pendSV /\ (blocked \/ service = "unblock")
    \/ service \in {"note", "set"}

\* While the kernel is suspended PendSV neither runs nor is pending.
SuspendedQuiet ==
  blocked /\ service = "none" => ~pending /\ get = AtRest
===========================================================================
