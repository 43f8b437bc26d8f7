---------------------------- MODULE RtxMemPool ----------------------------
(***************************************************************************)
(* Memory pools (rtx_mempool.c), used by threads and interrupt handlers.   *)
(* A pool keeps its free blocks in a linked stack and, apart from it, the  *)
(* number of blocks in use.  Each is accessed by an atomic operation, but  *)
(* the two are not updated together: a service is several steps, and an    *)
(* interrupt may come between any two of them.  What an interrupt handler  *)
(* does is one step: handlers that use the same pool do not nest.          *)
(*                                                                         *)
(* Blocks are interchangeable; the stack is the number of its blocks.      *)
(***************************************************************************)
EXTENDS RtxObject

CONSTANT MaxBlocks  \* max_blocks of the pools created

PoolAssumption == MaxBlocks \in Nat \ {0}

VARIABLES
  block_free,   \* the number of blocks in the stack of each pool
  used_blocks,
  held,         \* history: the blocks allocated to somebody and not yet freed
  step          \* where the service or the post processing at work stands

vars == <<kernelVars, block_free, used_blocks, held, step>>

None == <<"none">>

Steps ==
  {None}
  \cup ({"allocated", "freed", "handover", "handed"} \X Object)
  \cup ({"failed"} \X Object \X Timeout)

TypeOK ==
  /\ KernelTypeOK
  /\ isr_queue \in Seq(Object)
  /\ block_free \in [Object -> 0 .. MaxBlocks]
  /\ used_blocks \in [Object -> 0 .. MaxBlocks + 1]
  /\ held \in [Object -> 0 .. MaxBlocks]
  /\ step \in Steps

Init ==
  /\ KernelInit
  /\ block_free = [mp \in Object |-> 0]
  /\ used_blocks = [mp \in Object |-> 0]
  /\ held = [mp \in Object |-> 0]
  /\ step = None

---------------------------------------------------------------------------
\* The two accesses of osRtxMemoryPoolAlloc and of osRtxMemoryPoolFree, and the
\* blocks that change hands.
Get(mp) ==
  /\ block_free[mp] # 0
  /\ block_free' = [block_free EXCEPT ![mp] = @ - 1]

Put(mp) ==
  /\ held[mp] # 0
  /\ block_free' = [block_free EXCEPT ![mp] = @ + 1]

Count(mp, n) == used_blocks' = [used_blocks EXCEPT ![mp] = @ + n]

Held(mp, n) == held' = [held EXCEPT ![mp] = @ + n]

\* A service takes its first step, or another one.
Begins(next) ==
  /\ Calls
  /\ handler' = "svc" /\ step' = next
  /\ UNCHANGED <<k, id, thread_list, isr_queue>>

Continues(next) ==
  /\ step' = next
  /\ UNCHANGED kernelVars

Ends(after, lists) ==
  /\ handler = "svc"
  /\ Finish(after, lists)
  /\ step' = None
  /\ UNCHANGED id

---------------------------------------------------------------------------
MemoryPoolNew(mp) ==
  /\ ObjectNew(mp)
  /\ block_free' = [block_free EXCEPT ![mp] = MaxBlocks]
  /\ used_blocks' = [used_blocks EXCEPT ![mp] = 0]
  /\ held' = [held EXCEPT ![mp] = 0]
  /\ UNCHANGED step

MemoryPoolDelete(mp) ==
  /\ ObjectDelete(mp)
  /\ UNCHANGED <<block_free, used_blocks, held, step>>

MemoryPoolAlloc(mp) ==
  /\ id[mp] /\ Get(mp)
  /\ Begins(<<"allocated", mp>>)
  /\ UNCHANGED <<used_blocks, held>>

MemoryPoolAllocEnd ==
  /\ step[1] = "allocated"
  /\ Count(step[2], 1) /\ Held(step[2], 1)
  /\ Ends(k, thread_list)
  /\ UNCHANGED block_free

MemoryPoolAllocFails(mp, timeout) ==
  /\ id[mp] /\ block_free[mp] = 0
  /\ Begins(<<"failed", mp, timeout>>)
  /\ UNCHANGED <<block_free, used_blocks, held>>

MemoryPoolAllocWait ==
  /\ step[1] = "failed"
  /\ IF CanSwitch(k)
     THEN Ends(WaitEnter(k, "WaitingMemoryPool", step[3]), Joining(step[2]))
     ELSE Ends(k, thread_list)
  /\ UNCHANGED <<block_free, used_blocks, held>>

\* The running thread frees a block it was given.
MemoryPoolFree(mp) ==
  /\ id[mp] /\ Put(mp) /\ Held(mp, -1)
  /\ Begins(<<"freed", mp>>)
  /\ UNCHANGED used_blocks

\* Mutant of MemoryPoolFreed: nobody is given the block.
MemoryPoolFreed_NoHandover ==
  /\ step[1] = "freed"
  /\ Count(step[2], -1)
  /\ Ends(k, thread_list)
  /\ UNCHANGED <<block_free, held>>

MemoryPoolFreed ==
  /\ step[1] = "freed"
  /\ Count(step[2], -1)
  /\ IF Waited(step[2]) THEN Continues(<<"handover", step[2]>>)
                        ELSE Ends(k, thread_list)
  /\ UNCHANGED <<block_free, held>>

\* osRtxMemoryPoolAlloc for the first waiting thread, in a service or in PendSV:
\* the stack may be empty again.
HandOver ==
  /\ step[1] = "handover"
  /\ Get(step[2])
  /\ Continues(<<"handed", step[2]>>)
  /\ UNCHANGED <<used_blocks, held>>

HandOverFails ==
  /\ step[1] = "handover" /\ block_free[step[2]] = 0
  /\ IF handler = "svc" THEN Ends(k, thread_list) ELSE Continues(None)
  /\ UNCHANGED <<block_free, used_blocks, held>>

HandedOver ==
  LET mp == step[2]
  IN  /\ step[1] = "handed"
      /\ Count(mp, 1) /\ Held(mp, 1)
      /\ IF handler = "svc"
         THEN Ends(WaitExitDispatch(k, First(mp)), Popped(mp))
         ELSE /\ k' = WaitExit(k, First(mp)) /\ thread_list' = Popped(mp)
              /\ step' = None
              /\ UNCHANGED <<id, handler, isr_queue>>
      /\ UNCHANGED block_free

---------------------------------------------------------------------------
\* Interrupts

IsrMemoryPoolAlloc(mp) ==
  /\ id[mp] /\ Get(mp) /\ Count(mp, 1) /\ Held(mp, 1)
  /\ UNCHANGED <<kernelVars, step>>

IsrMemoryPoolFree(mp) ==
  /\ id[mp] /\ Put(mp) /\ Count(mp, -1) /\ Held(mp, -1)
  /\ PostProcess(mp)
  /\ UNCHANGED <<k, id, thread_list, handler, step>>

\* osRtxMemoryPoolPostProcess begins.
PendSVMemoryPool ==
  LET mp == Head(isr_queue)
  IN  /\ Pending /\ step = None
      /\ PendSVTakes(k, thread_list)
      /\ step' = IF id[mp] /\ Waited(mp) THEN <<"handover", mp>> ELSE None
      /\ UNCHANGED <<block_free, used_blocks, held>>

---------------------------------------------------------------------------
MemoryPoolCall(mp) ==
  \/ MemoryPoolNew(mp) \/ MemoryPoolDelete(mp)
  \/ MemoryPoolAlloc(mp) \/ MemoryPoolFree(mp)
  \/ \E timeout \in Timeout : MemoryPoolAllocFails(mp, timeout)

Interrupt(mp) == IsrMemoryPoolAlloc(mp) \/ IsrMemoryPoolFree(mp)

MemoryPoolSteps ==
  \/ MemoryPoolAllocEnd \/ MemoryPoolAllocWait \/ MemoryPoolFreed
  \/ HandOver \/ HandOverFails \/ HandedOver
  \/ PendSVMemoryPool

Next ==
  \/ \E mp \in Object : MemoryPoolCall(mp) \/ Interrupt(mp)
  \/ MemoryPoolSteps
  \/ step = None /\ KernelStep /\ UNCHANGED <<block_free, used_blocks, held, step>>

Spec == Init /\ [][Next]_vars
---------------------------------------------------------------------------
\* Properties

\* Whatever the interrupts did between the two accesses, every block is in the
\* stack, held by one or on its way, and the count is right again as soon as a
\* service is over.
BlocksCounted ==
  \A mp \in Object : id[mp] =>
    /\ block_free[mp] + held[mp] =
         IF step \in {<<"allocated", mp>>, <<"handed", mp>>}
         THEN MaxBlocks - 1 ELSE MaxBlocks
    /\ used_blocks[mp] = IF step = <<"freed", mp>> THEN held[mp] + 1 ELSE held[mp]

Entries(mp) == Cardinality({i \in DOMAIN isr_queue : isr_queue[i] = mp})

\* No block lies in the stack of a pool threads wait for, unless PendSV or the
\* service at work is about to hand it over.
NoStrandedBlock ==
  \A mp \in Object :
    step = None /\ Waited(mp) => \/ Entries(mp) >= block_free[mp]
                                 \/ Entries(mp) >= Len(thread_list[mp])

\* What osMemoryPoolGetSpace returns, max_blocks - used_blocks, is never
\* negative, also in an interrupt handler.
SpaceLeft == \A mp \in Object : id[mp] => used_blocks[mp] <= MaxBlocks
===========================================================================
