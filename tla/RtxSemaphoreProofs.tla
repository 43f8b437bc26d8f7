------------------------- MODULE RtxSemaphoreProofs -------------------------
(***************************************************************************)
(* Proofs about RtxSemaphore, for any threads, semaphores and interrupts:  *)
(* the list of each semaphore holds who waits for it, tokens are neither   *)
(* made nor lost, and none lies idle while a thread waits for it.          *)
(***************************************************************************)
EXTENDS RtxSemaphore, RtxObjectProofs

---------------------------------------------------------------------------
\* The request between its failed decrement and its wait has an entry for every
\* token that came since.
Covered ==
  \E s \in Object, timeout \in Timeout :
    wanted = <<s, timeout>> /\ id[s] /\ Entries(s) >= tokens[s]

\* The inductive invariant
SemInv ==
  /\ KernelInv
  /\ isr_queue \in Seq(Object) /\ Len(isr_queue) <= IsrLimit
  /\ tokens \in [Object -> 0 .. MaxTokens]
  /\ wanted \in {NoRequest} \cup (Object \X Timeout)
  /\ balance \in [Object -> Int]
  /\ TokensConserved /\ NoStrandedToken
  /\ handler = "svc" => Covered

LEMMA EntriesCount ==
  ASSUME isr_queue \in Seq(Object), NEW s \in Object
  PROVE  /\ Entries(s) \in Nat
         /\ isr_queue' = isr_queue => Entries(s)' = Entries(s)
         /\ \A e \in Object : isr_queue' = Append(isr_queue, e) =>
              Entries(s)' = IF s = e THEN Entries(s) + 1 ELSE Entries(s)
         /\ isr_queue # <<>> /\ isr_queue' = Tail(isr_queue) =>
              /\ Entries(s)' = IF s = Head(isr_queue) THEN Entries(s) - 1 ELSE Entries(s)
              /\ s = Head(isr_queue) => Entries(s) > 0
<1>1. Entries(s) = Times(isr_queue, s) /\ Entries(s)' = Times(isr_queue', s)
  BY DEF Entries, Times
<1>2. Entries(s) \in Nat
  BY <1>1, TimesAppend
<1>3. \A e \in Object : Times(Append(isr_queue, e), s) =
                          IF s = e THEN Times(isr_queue, s) + 1 ELSE Times(isr_queue, s)
  BY TimesAppend
<1>4. ASSUME isr_queue # <<>>
      PROVE  /\ Times(Tail(isr_queue), s) = IF s = Head(isr_queue) THEN Times(isr_queue, s) - 1
                                            ELSE Times(isr_queue, s)
             /\ s = Head(isr_queue) => Times(isr_queue, s) > 0
  BY <1>4, TimesTail
<1> QED
  BY <1>1, <1>2, <1>3, <1>4

\* The lists, the tokens and their count, as numbers.
LEMMA SemTypes ==
  ASSUME SemInv, NEW s \in Object
  PROVE  /\ tokens[s] \in Nat /\ tokens[s] <= MaxTokens /\ balance[s] \in Int
         /\ Entries(s) \in Nat /\ Len(thread_list[s]) \in Nat /\ MaxTokens \in Nat
         /\ Waited(s) => Len(thread_list[s]) > 0 /\ id[s]
<1>1. MaxTokens \in Nat /\ tokens[s] \in 0 .. MaxTokens /\ balance[s] \in Int
  BY SemaphoreAssumption DEF SemInv
<1>2. Entries(s) \in Nat
  BY EntriesCount DEF SemInv
<1>3. thread_list[s] \in Seq(Thread) /\ (thread_list[s] # <<>> => id[s])
  BY DEF SemInv, KernelInv, Waiting
<1>4. Len(thread_list[s]) \in Nat /\ (Waited(s) => Len(thread_list[s]) > 0 /\ id[s])
  BY <1>3 DEF Waited
<1> QED
  BY <1>1, <1>2, <1>4

\* A step in which no thread begins to wait and no token comes.
LEMMA FewerStranded ==
  ASSUME SemInv, KernelInv', isr_queue' = isr_queue, tokens' \in [Object -> 0 .. MaxTokens],
         \A s \in Object :
           \/ thread_list'[s] = <<>>
           \/ Len(thread_list'[s]) <= Len(thread_list[s]) /\ tokens'[s] <= tokens[s]
  PROVE  NoStrandedToken'
<1> SUFFICES ASSUME NEW s \in Object, Waited(s)'
             PROVE  Entries(s)' >= tokens'[s] \/ Entries(s)' >= Len(thread_list'[s])
  BY DEF NoStrandedToken
<1>1. thread_list'[s] # <<>> /\ thread_list'[s] \in Seq(Thread)
  BY DEF Waited, KernelInv, Waiting
<1>2. Len(thread_list'[s]) <= Len(thread_list[s]) /\ tokens'[s] <= tokens[s]
  BY <1>1
<1>3. Len(thread_list'[s]) > 0 /\ Len(thread_list'[s]) \in Nat
  BY <1>1
<1>4. /\ tokens[s] \in Nat /\ Len(thread_list[s]) \in Nat /\ Entries(s) \in Nat
      /\ tokens'[s] \in Nat
  BY SemTypes DEF SemInv
<1>5. Waited(s)
  BY <1>2, <1>3, <1>4 DEF Waited, SemInv, KernelInv, Waiting
<1>6. Entries(s)' = Entries(s)
  BY EntriesCount DEF SemInv
<1>7. Entries(s) >= tokens[s] \/ Entries(s) >= Len(thread_list[s])
  BY <1>5 DEF SemInv, NoStrandedToken
<1> QED
  BY <1>2, <1>3, <1>4, <1>6, <1>7

\* A request remains covered when each token that comes brings an entry.
LEMMA StillCovered ==
  ASSUME SemInv, handler = "svc", wanted' = wanted, id' = id,
         \A s \in Object : Entries(s) >= tokens[s] => Entries(s)' >= tokens'[s]
  PROVE  Covered'
BY DEF SemInv, Covered

---------------------------------------------------------------------------
\* The services

LEMMA SemInvInit ==
  ASSUME Init
  PROVE  SemInv
<1>1. KernelInv
  BY KernelInvInit DEF Init
<1>2. /\ isr_queue = <<>> /\ thread_list = [o \in Object |-> <<>>] /\ handler = "thread"
      /\ id = [o \in Object |-> FALSE] /\ tokens = [s \in Object |-> 0]
      /\ wanted = NoRequest /\ balance = [s \in Object |-> 0]
  BY DEF Init, KernelInit
<1>3. /\ isr_queue \in Seq(Object) /\ Len(isr_queue) <= IsrLimit
      /\ tokens \in [Object -> 0 .. MaxTokens] /\ balance \in [Object -> Int]
      /\ wanted \in {NoRequest} \cup (Object \X Timeout)
  BY <1>2, ObjectAssumption, SemaphoreAssumption
<1>4. TokensConserved /\ NoStrandedToken
  BY <1>2 DEF TokensConserved, NoStrandedToken, Waited
<1> QED
  BY <1>1, <1>2, <1>3, <1>4 DEF SemInv

\* A step of a thread that neither waits nor gives a token to the count.
LEMMA ServiceStep ==
  ASSUME SemInv, KernelInv', isr_queue' = isr_queue, handler' # "svc", wanted' = wanted,
         tokens' \in [Object -> 0 .. MaxTokens], balance' \in [Object -> Int],
         TokensConserved',
         \A s \in Object :
           \/ thread_list'[s] = <<>>
           \/ Len(thread_list'[s]) <= Len(thread_list[s]) /\ tokens'[s] <= tokens[s]
  PROVE  SemInv'
<1>1. NoStrandedToken'
  BY FewerStranded
<1> QED
  BY <1>1 DEF SemInv

\* Nor takes one.
LEMMA TokensAlone ==
  ASSUME SemInv, KernelInv', Shrinks, isr_queue' = isr_queue, handler' # "svc", id' = id,
         UNCHANGED <<tokens, wanted, balance>>
  PROVE  SemInv'
<1>1. /\ tokens' \in [Object -> 0 .. MaxTokens] /\ balance' \in [Object -> Int]
      /\ TokensConserved'
  BY DEF SemInv, TokensConserved
<1>2. \A s \in Object : Len(thread_list'[s]) <= Len(thread_list[s]) /\ tokens'[s] <= tokens[s]
  BY SemTypes DEF Shrinks, Fewer
<1> QED
  BY <1>1, <1>2, ServiceStep

LEMMA SemaphoreNewKeeps ==
  ASSUME SemInv, NEW s \in Object, NEW n \in 0 .. MaxTokens, SemaphoreNew(s, n)
  PROVE  SemInv'
<1>1. /\ KernelInv' /\ thread_list' = thread_list
  BY ObjectNewKeeps DEF SemaphoreNew, SemInv
<1>2. /\ isr_queue' = isr_queue /\ handler' # "svc" /\ wanted' = wanted /\ ~id[s]
      /\ id' = [id EXCEPT ![s] = TRUE] /\ tokens' = [tokens EXCEPT ![s] = n]
      /\ balance' = [balance EXCEPT ![s] = n]
  BY DEF SemaphoreNew, ObjectNew, Finish
<1>3. /\ id \in [Object -> BOOLEAN] /\ tokens \in [Object -> 0 .. MaxTokens]
      /\ balance \in [Object -> Int] /\ n \in Int /\ TokensConserved
  BY DEF SemInv, KernelInv
<1>4. tokens' \in [Object -> 0 .. MaxTokens] /\ balance' \in [Object -> Int]
  BY <1>2, <1>3
<1>5. TokensConserved'
  BY <1>2, <1>3 DEF TokensConserved
<1>6. ASSUME NEW t \in Object
      PROVE  \/ thread_list'[t] = <<>>
             \/ Len(thread_list'[t]) <= Len(thread_list[t]) /\ tokens'[t] <= tokens[t]
  <2>1. t = s => thread_list[t] = <<>>
    BY <1>2 DEF SemInv, KernelInv, Waiting
  <2>2. t # s => tokens'[t] = tokens[t]
    BY <1>2, <1>3
  <2> QED
    BY <1>1, <2>1, <2>2, SemTypes
<1> QED
  BY <1>1, <1>2, <1>4, <1>5, <1>6, ServiceStep

LEMMA SemaphoreDeleteKeeps ==
  ASSUME SemInv, NEW s \in Object, SemaphoreDelete(s)
  PROVE  SemInv'
<1>1. KernelInv' /\ Shrinks
  BY ObjectDeleteKeeps DEF SemaphoreDelete, SemInv
<1>2. /\ isr_queue' = isr_queue /\ handler' # "svc" /\ wanted' = wanted
      /\ id' = [id EXCEPT ![s] = FALSE] /\ tokens' = tokens /\ balance' = balance
  BY DEF SemaphoreDelete, ObjectDelete, Finish
<1>3. /\ id \in [Object -> BOOLEAN] /\ tokens \in [Object -> 0 .. MaxTokens]
      /\ balance \in [Object -> Int] /\ TokensConserved
  BY DEF SemInv, KernelInv
<1>4. TokensConserved'
  BY <1>2, <1>3 DEF TokensConserved
<1>5. \A t \in Object : Len(thread_list'[t]) <= Len(thread_list[t]) /\ tokens'[t] <= tokens[t]
  BY <1>1, <1>2, SemTypes DEF Shrinks, Fewer
<1> QED
  BY <1>1, <1>2, <1>3, <1>4, <1>5, ServiceStep

\* What TokenTaken and Give do to the count of one semaphore.
LEMMA TakenConserved ==
  ASSUME SemInv, NEW s \in Object, tokens[s] # 0, TokenTaken(s), Give(s, -1), id' = id
  PROVE  /\ tokens' \in [Object -> 0 .. MaxTokens] /\ balance' \in [Object -> Int]
         /\ TokensConserved' /\ \A t \in Object : tokens'[t] <= tokens[t]
         /\ tokens'[s] = tokens[s] - 1 /\ \A t \in Object : t # s => tokens'[t] = tokens[t]
<1>1. /\ tokens \in [Object -> 0 .. MaxTokens] /\ balance \in [Object -> Int]
      /\ TokensConserved /\ MaxTokens \in Nat
  BY SemaphoreAssumption DEF SemInv
<1>2. /\ tokens' = [tokens EXCEPT ![s] = tokens[s] - 1]
      /\ balance' = [balance EXCEPT ![s] = balance[s] + (-1)]
  BY DEF TokenTaken, Give
<1>3. tokens[s] - 1 \in 0 .. MaxTokens /\ balance[s] + (-1) \in Int
  BY <1>1
<1>4. tokens' \in [Object -> 0 .. MaxTokens] /\ balance' \in [Object -> Int]
  BY <1>1, <1>2, <1>3
<1>5. /\ tokens'[s] = tokens[s] - 1 /\ balance'[s] = balance[s] - 1
      /\ \A t \in Object : t # s => tokens'[t] = tokens[t] /\ balance'[t] = balance[t]
  BY <1>1, <1>2
<1>6. TokensConserved'
  BY <1>1, <1>5 DEF TokensConserved
<1>7. ASSUME NEW t \in Object  PROVE tokens'[t] <= tokens[t]
  BY <1>1, <1>5
<1> QED
  BY <1>4, <1>5, <1>6, <1>7

LEMMA GivenConserved ==
  ASSUME SemInv, NEW s \in Object, tokens[s] < MaxTokens,
         tokens' = [tokens EXCEPT ![s] = @ + 1], Give(s, 1), id' = id
  PROVE  /\ tokens' \in [Object -> 0 .. MaxTokens] /\ balance' \in [Object -> Int]
         /\ TokensConserved'
         /\ tokens'[s] = tokens[s] + 1 /\ \A t \in Object : t # s => tokens'[t] = tokens[t]
<1>1. /\ tokens \in [Object -> 0 .. MaxTokens] /\ balance \in [Object -> Int]
      /\ TokensConserved /\ MaxTokens \in Nat
  BY SemaphoreAssumption DEF SemInv
<1>2. /\ tokens' = [tokens EXCEPT ![s] = tokens[s] + 1]
      /\ balance' = [balance EXCEPT ![s] = balance[s] + 1]
  BY DEF Give
<1>3. tokens[s] + 1 \in 0 .. MaxTokens /\ balance[s] + 1 \in Int
  BY <1>1
<1>4. tokens' \in [Object -> 0 .. MaxTokens] /\ balance' \in [Object -> Int]
  BY <1>1, <1>2, <1>3
<1>5. /\ tokens'[s] = tokens[s] + 1 /\ balance'[s] = balance[s] + 1
      /\ \A t \in Object : t # s => tokens'[t] = tokens[t] /\ balance'[t] = balance[t]
  BY <1>1, <1>2
<1>6. TokensConserved'
  BY <1>1, <1>5 DEF TokensConserved
<1> QED
  BY <1>4, <1>5, <1>6

LEMMA SemaphoreAcquireKeeps ==
  ASSUME SemInv, NEW s \in Object, SemaphoreAcquire(s)
  PROVE  SemInv'
<1>1. /\ handler = "thread" /\ Finish(k, thread_list) /\ id' = id /\ wanted' = wanted
      /\ tokens[s] # 0 /\ TokenTaken(s) /\ Give(s, -1)
  BY DEF SemaphoreAcquire, Service, Calls
<1>2. KernelInv' /\ Shrinks
  BY <1>1, NothingKeeps DEF SemInv
<1>3. isr_queue' = isr_queue /\ handler' # "svc"
  BY <1>1 DEF Finish
<1>4. /\ tokens' \in [Object -> 0 .. MaxTokens] /\ balance' \in [Object -> Int]
      /\ TokensConserved' /\ \A t \in Object : tokens'[t] <= tokens[t]
  BY <1>1, TakenConserved
<1> QED
  BY <1>1, <1>2, <1>3, <1>4, ServiceStep DEF Shrinks, Fewer

LEMMA SemaphoreAcquireFailsKeeps ==
  ASSUME SemInv, NEW s \in Object, NEW timeout \in Timeout, SemaphoreAcquireFails(s, timeout)
  PROVE  SemInv'
<1>1. /\ handler = "thread" /\ id[s] /\ tokens[s] = 0 /\ handler' = "svc"
      /\ wanted' = <<s, timeout>> /\ k' = k /\ id' = id /\ thread_list' = thread_list
      /\ isr_queue' = isr_queue /\ tokens' = tokens /\ balance' = balance
  BY DEF SemaphoreAcquireFails, Calls
<1>2. KernelInv'
  BY <1>1, HandlerKeeps DEF SemInv, KernelInv
<1>3. /\ Entries(s) \in Nat /\ Entries(s)' = Entries(s)
      /\ \A t \in Object : Len(thread_list[t]) <= Len(thread_list[t]) /\ tokens[t] <= tokens[t]
  BY <1>1, SemTypes, EntriesCount DEF SemInv
<1>4. NoStrandedToken'
  BY <1>1, <1>2, <1>3, FewerStranded DEF SemInv
<1>5. TokensConserved'
  BY <1>1 DEF SemInv, TokensConserved
<1>6. id'[s] /\ Entries(s)' >= tokens'[s]
  BY <1>1, <1>3
<1>7. wanted' \in Object \X Timeout /\ Covered'
  BY <1>1, <1>6 DEF Covered
<1> QED
  BY <1>1, <1>2, <1>4, <1>5, <1>7 DEF SemInv

LEMMA SemaphoreAcquireWaitsKeeps ==
  ASSUME SemInv, SemaphoreAcquireWaits
  PROVE  SemInv'
<1>1. /\ handler = "svc" /\ id' = id /\ tokens' = tokens /\ balance' = balance
      /\ wanted' = NoRequest /\ isr_queue' = isr_queue /\ handler' # "svc"
  BY DEF SemaphoreAcquireWaits, Finish
<1>2. PICK s \in Object, timeout \in Timeout :
        wanted = <<s, timeout>> /\ id[s] /\ Entries(s) >= tokens[s]
  BY <1>1 DEF SemInv, Covered
<1>3. TokensConserved'
  BY <1>1 DEF SemInv, TokensConserved
<1>4. \A t \in Object : Entries(t)' = Entries(t)
  BY <1>1, EntriesCount DEF SemInv
<1>5. CASE CanSwitch(k)
  <2>1. Finish(WaitEnter(k, "WaitingSemaphore", timeout), Joining(s))
    BY <1>2, <1>5 DEF SemaphoreAcquireWaits
  <2>2. KernelInv'
    <3>1. "WaitingSemaphore" \in ObjectStates
      BY DEF ObjectStates
    <3> QED
      BY <1>1, <1>2, <1>5, <2>1, <3>1, EntersKeeps DEF SemInv
  <2>3. \A t \in Object : t # s => thread_list'[t] = thread_list[t]
    BY <2>1 DEF Finish, Joining, SemInv, KernelInv, Waiting
  <2>4. NoStrandedToken'
    <3> SUFFICES ASSUME NEW t \in Object, Waited(t)'
                 PROVE  Entries(t)' >= tokens'[t] \/ Entries(t)' >= Len(thread_list'[t])
      BY DEF NoStrandedToken
    <3>1. CASE t = s
      BY <1>1, <1>2, <1>4, <3>1
    <3>2. CASE t # s
      <4>1. Waited(t) /\ thread_list'[t] = thread_list[t]
        BY <2>3, <3>2 DEF Waited
      <4> QED
        BY <1>1, <1>4, <4>1 DEF SemInv, NoStrandedToken
    <3> QED
      BY <3>1, <3>2
  <2> QED
    BY <1>1, <1>3, <2>2, <2>4 DEF SemInv
<1>6. CASE ~CanSwitch(k)
  <2>1. Finish(k, thread_list)
    BY <1>6 DEF SemaphoreAcquireWaits
  <2>2. KernelInv' /\ Shrinks
    BY <1>1, <2>1, NothingKeeps DEF SemInv
  <2>3. \A t \in Object : Len(thread_list'[t]) <= Len(thread_list[t]) /\ tokens'[t] <= tokens[t]
    BY <1>1, <2>2, SemTypes DEF Shrinks, Fewer
  <2>4. NoStrandedToken'
    BY <1>1, <2>2, <2>3, FewerStranded DEF SemInv
  <2> QED
    BY <1>1, <1>3, <2>2, <2>4 DEF SemInv
<1> QED
  BY <1>5, <1>6

LEMMA SemaphoreReleaseKeeps ==
  ASSUME SemInv, NEW s \in Object, SemaphoreRelease(s)
  PROVE  SemInv'
<1>1. wanted' = wanted /\ id[s]
  BY DEF SemaphoreRelease
<1>2. CASE Waited(s)
  <2>1. /\ Calls /\ Finish(WaitExitDispatch(k, First(s)), Popped(s)) /\ id' = id
        /\ UNCHANGED <<tokens, wanted, balance>>
    BY <1>1, <1>2 DEF SemaphoreRelease, Service
  <2>2. KernelInv' /\ Shrinks
    BY <1>2, <2>1, WakesFirstKeeps DEF SemInv
  <2>3. isr_queue' = isr_queue /\ handler' # "svc"
    BY <2>1 DEF Finish
  <2> QED
    BY <2>1, <2>2, <2>3, TokensAlone
<1>3. CASE ~Waited(s)
  <2>1. /\ handler = "thread" /\ Finish(k, thread_list) /\ id' = id /\ tokens[s] < MaxTokens
        /\ tokens' = [tokens EXCEPT ![s] = @ + 1] /\ Give(s, 1)
    BY <1>3 DEF SemaphoreRelease, Service, Calls
  <2>2. KernelInv' /\ Shrinks
    BY <2>1, NothingKeeps DEF SemInv
  <2>3. isr_queue' = isr_queue /\ handler' # "svc" /\ thread_list' = thread_list
    BY <2>1 DEF Finish
  <2>4. /\ tokens' \in [Object -> 0 .. MaxTokens] /\ balance' \in [Object -> Int]
        /\ TokensConserved' /\ \A t \in Object : t # s => tokens'[t] = tokens[t]
    BY <2>1, GivenConserved
  <2>5. ASSUME NEW t \in Object
        PROVE  \/ thread_list'[t] = <<>>
               \/ Len(thread_list'[t]) <= Len(thread_list[t]) /\ tokens'[t] <= tokens[t]
    <3>1. t = s => thread_list'[t] = <<>>
      BY <1>3, <2>3 DEF Waited
    <3> QED
      BY <2>3, <2>4, <3>1, SemTypes
  <2> QED
    BY <1>1, <2>2, <2>3, <2>4, <2>5, ServiceStep
<1> QED
  BY <1>2, <1>3

---------------------------------------------------------------------------
\* Interrupts

\* An interrupt leaves the kernel alone but for the queue.
LEMMA InterruptKernel ==
  ASSUME SemInv, UNCHANGED <<k, id, thread_list, handler>>
  PROVE  KernelInv'
BY HandlerKeeps DEF SemInv, KernelInv

LEMMA IsrSemaphoreAcquireKeeps ==
  ASSUME SemInv, NEW s \in Object, IsrSemaphoreAcquire(s)
  PROVE  SemInv'
<1>1. /\ tokens[s] # 0 /\ TokenTaken(s) /\ Give(s, -1) /\ wanted' = wanted
      /\ k' = k /\ id' = id /\ thread_list' = thread_list /\ handler' = handler
      /\ isr_queue' = isr_queue
  BY DEF IsrSemaphoreAcquire, kernelVars
<1>2. KernelInv'
  BY <1>1, InterruptKernel
<1>3. /\ tokens' \in [Object -> 0 .. MaxTokens] /\ balance' \in [Object -> Int]
      /\ TokensConserved' /\ \A t \in Object : tokens'[t] <= tokens[t]
  BY <1>1, TakenConserved
<1>4. NoStrandedToken'
  BY <1>1, <1>2, <1>3, SemTypes, FewerStranded
<1>5. ASSUME NEW t \in Object, Entries(t) >= tokens[t]
      PROVE  Entries(t)' >= tokens'[t]
  <2>1. Entries(t)' = Entries(t)
    BY <1>1, EntriesCount DEF SemInv
  <2>2. /\ Entries(t) \in Nat /\ tokens[t] \in Nat
        /\ tokens'[t] <= tokens[t] /\ tokens'[t] \in Nat
    BY <1>3, SemTypes
  <2> QED
    BY <1>5, <2>1, <2>2
<1>6. handler' = "svc" => Covered'
  BY <1>1, <1>5, StillCovered
<1> QED
  BY <1>1, <1>2, <1>3, <1>4, <1>6 DEF SemInv

LEMMA IsrSemaphoreReleaseKeeps ==
  ASSUME SemInv, NEW s \in Object, IsrSemaphoreRelease(s)
  PROVE  SemInv'
<1>1. /\ tokens[s] < MaxTokens /\ tokens' = [tokens EXCEPT ![s] = @ + 1] /\ Give(s, 1)
      /\ wanted' = wanted /\ k' = k /\ id' = id /\ thread_list' = thread_list
      /\ handler' = handler
      /\ Len(isr_queue) < IsrLimit /\ isr_queue' = Append(isr_queue, s)
  BY DEF IsrSemaphoreRelease, PostProcess
<1>2. KernelInv'
  BY <1>1, InterruptKernel
<1>3. /\ tokens' \in [Object -> 0 .. MaxTokens] /\ balance' \in [Object -> Int]
      /\ TokensConserved' /\ tokens'[s] = tokens[s] + 1
      /\ \A t \in Object : t # s => tokens'[t] = tokens[t]
  BY <1>1, GivenConserved
<1>4. isr_queue' \in Seq(Object) /\ Len(isr_queue') <= IsrLimit
  BY <1>1, ObjectAssumption DEF SemInv
<1>5. ASSUME NEW t \in Object
      PROVE  /\ Entries(t) \in Nat /\ tokens[t] \in Nat
             /\ \/ Entries(t)' = Entries(t) + 1 /\ tokens'[t] = tokens[t] + 1
                \/ Entries(t)' = Entries(t) /\ tokens'[t] = tokens[t]
  <2>1. Entries(t) \in Nat /\ Entries(t)' = IF t = s THEN Entries(t) + 1 ELSE Entries(t)
    BY <1>1, EntriesCount DEF SemInv
  <2> QED
    BY <1>3, <2>1, SemTypes
<1>6. NoStrandedToken'
  <2> SUFFICES ASSUME NEW t \in Object, Waited(t)'
               PROVE  Entries(t)' >= tokens'[t] \/ Entries(t)' >= Len(thread_list'[t])
    BY DEF NoStrandedToken
  <2>1. Waited(t) /\ thread_list'[t] = thread_list[t] /\ Len(thread_list[t]) \in Nat
    BY <1>1, SemTypes DEF Waited
  <2>2. Entries(t) >= tokens[t] \/ Entries(t) >= Len(thread_list[t])
    BY <2>1 DEF SemInv, NoStrandedToken
  <2>3. /\ Entries(t) \in Nat /\ tokens[t] \in Nat
        /\ \/ Entries(t)' = Entries(t) + 1 /\ tokens'[t] = tokens[t] + 1
           \/ Entries(t)' = Entries(t) /\ tokens'[t] = tokens[t]
    BY <1>5
  <2> QED
    BY <2>1, <2>2, <2>3
<1>7. ASSUME NEW t \in Object, Entries(t) >= tokens[t]
      PROVE  Entries(t)' >= tokens'[t]
  BY <1>5, <1>7
<1>8. handler' = "svc" => Covered'
  BY <1>1, <1>7, StillCovered
<1> QED
  BY <1>1, <1>2, <1>3, <1>4, <1>6, <1>8 DEF SemInv

LEMMA PendSVSemaphoreKeeps ==
  ASSUME SemInv, PendSVSemaphore
  PROVE  SemInv'
<1>0. PICK s : s = Head(isr_queue)
  OBVIOUS
<1>1. /\ Pending /\ handler = "pendsv" /\ isr_queue # <<>> /\ wanted' = wanted
      /\ isr_queue' = Tail(isr_queue) /\ id' = id /\ handler' = handler
  BY DEF PendSVSemaphore, Pending, PendSVTakes
<1>2. s \in Object /\ isr_queue' \in Seq(Object) /\ Len(isr_queue') <= IsrLimit
  BY <1>0, <1>1, ObjectAssumption DEF SemInv
<1>3. ASSUME NEW t \in Object
      PROVE  /\ Entries(t) \in Nat
             /\ Entries(t)' = IF t = s THEN Entries(t) - 1 ELSE Entries(t)
             /\ t = s => Entries(t) > 0
  BY <1>0, <1>1, EntriesCount DEF SemInv
<1>4. CASE id[s] /\ Waited(s) /\ tokens[s] # 0
  <2>1. /\ PendSVTakes(WaitExit(k, First(s)), Popped(s)) /\ TokenTaken(s) /\ Give(s, -1)
    BY <1>0, <1>4 DEF PendSVSemaphore
  <2>2. KernelInv' /\ Shrinks
    BY <1>1, <1>2, <1>4, <2>1, ServesKeeps DEF SemInv
  <2>3. /\ tokens' \in [Object -> 0 .. MaxTokens] /\ balance' \in [Object -> Int]
        /\ TokensConserved' /\ tokens'[s] = tokens[s] - 1
        /\ \A t \in Object : t # s => tokens'[t] = tokens[t]
    BY <1>1, <1>2, <1>4, <2>1, TakenConserved
  <2>4. thread_list'[s] = Tail(thread_list[s]) /\ \A t \in Object : t # s =>
          thread_list'[t] = thread_list[t]
    BY <1>2, <2>1 DEF PendSVTakes, Popped, SemInv, KernelInv, Waiting
  <2>5. Len(thread_list'[s]) = Len(thread_list[s]) - 1
    BY <1>2, <1>4, <2>4 DEF Waited, SemInv, KernelInv, Waiting
  <2>6. NoStrandedToken'
    <3> SUFFICES ASSUME NEW t \in Object, Waited(t)'
                 PROVE  Entries(t)' >= tokens'[t] \/ Entries(t)' >= Len(thread_list'[t])
      BY DEF NoStrandedToken
    <3>1. CASE t = s
      <4>1. Entries(t) >= tokens[t] \/ Entries(t) >= Len(thread_list[t])
        BY <1>4, <3>1 DEF SemInv, NoStrandedToken
      <4>2. Entries(t)' = Entries(t) - 1 /\ Entries(t) \in Nat
        BY <1>3, <3>1
      <4>3. tokens[t] \in Nat /\ Len(thread_list[t]) \in Nat
        BY SemTypes
      <4>4. tokens'[t] = tokens[t] - 1 /\ Len(thread_list'[t]) = Len(thread_list[t]) - 1
        BY <2>3, <2>5, <3>1
      <4> QED
        BY <4>1, <4>2, <4>3, <4>4
    <3>2. CASE t # s
      <4>1. Waited(t) /\ thread_list'[t] = thread_list[t]
        BY <2>4, <3>2 DEF Waited
      <4> QED
        BY <1>3, <2>3, <3>2, <4>1 DEF SemInv, NoStrandedToken
    <3> QED
      BY <3>1, <3>2
  <2> QED
    BY <1>1, <1>2, <2>2, <2>3, <2>6 DEF SemInv
<1>5. CASE ~(id[s] /\ Waited(s) /\ tokens[s] # 0)
  <2>1. PendSVTakes(k, thread_list) /\ tokens' = tokens /\ balance' = balance
    BY <1>0, <1>5 DEF PendSVSemaphore
  <2>2. KernelInv' /\ thread_list' = thread_list
    BY <2>1, PassesKeeps DEF SemInv, PendSVTakes
  <2>3. TokensConserved'
    BY <1>1, <2>1 DEF SemInv, TokensConserved
  <2>4. NoStrandedToken'
    <3> SUFFICES ASSUME NEW t \in Object, Waited(t)'
                 PROVE  Entries(t)' >= tokens'[t] \/ Entries(t)' >= Len(thread_list'[t])
      BY DEF NoStrandedToken
    <3>1. Waited(t) /\ thread_list'[t] = thread_list[t]
      BY <2>2 DEF Waited
    <3>2. CASE t = s
      <4>1. tokens'[t] = 0
        BY <1>5, <2>1, <3>1, <3>2, SemTypes
      <4>2. Entries(t) \in Nat /\ Entries(t)' = Entries(t) - 1 /\ Entries(t) > 0
        BY <1>3, <3>2
      <4> QED
        BY <4>1, <4>2
    <3>3. CASE t # s
      BY <1>3, <2>1, <3>1, <3>3 DEF SemInv, NoStrandedToken
    <3> QED
      BY <3>2, <3>3
  <2> QED
    BY <1>1, <1>2, <2>1, <2>2, <2>3, <2>4 DEF SemInv
<1> QED
  BY <1>4, <1>5

---------------------------------------------------------------------------
\* The invariant

LEMMA SemInvNext ==
  ASSUME SemInv, [Next]_vars
  PROVE  SemInv'
<1>1. ASSUME NEW s \in Object, SemaphoreCall(s)  PROVE SemInv'
  BY <1>1, SemaphoreNewKeeps, SemaphoreDeleteKeeps, SemaphoreAcquireKeeps,
     SemaphoreAcquireFailsKeeps, SemaphoreReleaseKeeps DEF SemaphoreCall
<1>2. ASSUME NEW s \in Object, Interrupt(s)  PROVE SemInv'
  BY <1>2, IsrSemaphoreAcquireKeeps, IsrSemaphoreReleaseKeeps DEF Interrupt
<1>3. CASE KernelStep /\ UNCHANGED <<tokens, wanted, balance>>
  <2>1. KernelInv' /\ Shrinks
    BY <1>3, KernelStepKeeps DEF SemInv
  <2> QED
    BY <1>3, <2>1, KernelStepQueue, TokensAlone
<1>4. CASE UNCHANGED vars
  <2>1. /\ k' = k /\ id' = id /\ thread_list' = thread_list /\ handler' = handler
        /\ isr_queue' = isr_queue /\ tokens' = tokens /\ wanted' = wanted
        /\ balance' = balance
    BY <1>4 DEF vars, kernelVars
  <2>2. KernelInv'
    BY <2>1, InterruptKernel
  <2>3. TokensConserved' /\ NoStrandedToken' /\ (handler = "svc" => Covered')
    BY <2>1 DEF SemInv, TokensConserved, NoStrandedToken, Covered, Entries, Waited
  <2> QED
    BY <2>1, <2>2, <2>3 DEF SemInv
<1> QED
  BY <1>1, <1>2, <1>3, <1>4, SemaphoreAcquireWaitsKeeps, PendSVSemaphoreKeeps DEF Next

\* For any threads, priorities, semaphores and interrupts: a thread blocked for a
\* semaphore is in the list of exactly one, a valid one, in the order of the
\* priorities, whatever services, timeouts, terminations and deletions take it out;
\* and every variable has its type, the count of tokens never above the maximum.
THEOREM WaitersStayInOrder == Spec => []WaitersInOrder
<1>1. Init => SemInv
  BY SemInvInit
<1>2. SemInv /\ [Next]_vars => SemInv'
  BY SemInvNext
<1>3. SemInv => WaitersInOrder
  BY KernelInvSays DEF SemInv, WaitersInOrder, TypeOK, KernelTypeOK
<1> QED
  BY <1>1, <1>2, <1>3, PTL DEF Spec

\* For any threads, semaphores and interrupts: tokens are neither made nor lost,
\* and where a thread waits beside a token, as when an interrupt gives one between
\* the failed decrement and the wait, PendSV has an entry for it.
THEOREM TokensStayInOrder == Spec => []TokensInOrder
<1>1. Init => SemInv
  BY SemInvInit
<1>2. SemInv /\ [Next]_vars => SemInv'
  BY SemInvNext
<1>3. SemInv => TokensInOrder
  BY DEF SemInv, TokensInOrder
<1> QED
  BY <1>1, <1>2, <1>3, PTL DEF Spec

=============================================================================
