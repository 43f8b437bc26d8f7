------------------------ MODULE RtxSchedulerProofs ------------------------
(***************************************************************************)
(* Lemmas about the list and dispatch operators of RtxScheduler, for any   *)
(* set of threads and any lists: every thread is in its place, the ready   *)
(* list stays ordered by priority and the delay list by the ticks left, no *)
(* count of ticks falls below zero, and a thread of the highest priority   *)
(* is elected.                                                             *)
(***************************************************************************)
EXTENDS RtxScheduler, ListFacts

---------------------------------------------------------------------------
\* Lists

\* PastPrefix is an index or one past the end, and behaves as it says.
LEMMA PrefixIndex ==
  ASSUME NEW E, NEW list \in Seq(E), NEW S
  PROVE  /\ PastPrefix(list, S) \in 1 .. Len(list) + 1
         /\ \A j \in 1 .. PastPrefix(list, S) - 1 : list[j] \in S
         /\ PastPrefix(list, S) <= Len(list) => list[PastPrefix(list, S)] \notin S
<1> DEFINE P(i) == /\ \A j \in 1 .. i - 1 : list[j] \in S
                   /\ i <= Len(list) => list[i] \notin S
           I == {i \in 1 .. Len(list) + 1 : i <= Len(list) => list[i] \notin S}
<1>1. \E i \in 1 .. Len(list) + 1 : P(i)
  <2>1. Len(list) \in Nat
    OBVIOUS
  <2>2. Len(list) + 1 \in I /\ I \subseteq Nat
    BY <2>1
  <2>3. PICK i \in I : \A j \in I : i <= j
    BY <2>2, LeastNumber
  <2>4. ASSUME NEW j \in 1 .. i - 1 PROVE list[j] \in S
    BY <2>1, <2>3
  <2> QED BY <2>3, <2>4
<1>2. PastPrefix(list, S) = CHOOSE i \in 1 .. Len(list) + 1 : P(i)
  BY DEF PastPrefix
<1> HIDE DEF P
<1>3. PastPrefix(list, S) \in 1 .. Len(list) + 1 /\ P(PastPrefix(list, S))
  BY <1>1, <1>2
<1> QED BY <1>3 DEF P

LEMMA PastPrefixIndex ==
  ASSUME NEW list \in Seq(Thread), NEW S
  PROVE  /\ PastPrefix(list, S) \in 1 .. Len(list) + 1
         /\ \A j \in 1 .. PastPrefix(list, S) - 1 : list[j] \in S
         /\ PastPrefix(list, S) <= Len(list) => list[PastPrefix(list, S)] \notin S
BY PrefixIndex

\* Inserting a thread adds it and nothing else, and keeps the others distinct.
LEMMA InsertSet ==
  ASSUME NEW s \in Seq(Thread), NEW t \in Thread, NEW i \in 1 .. Len(s) + 1
  PROVE  /\ InsertAt(s, i, t) \in Seq(Thread)
         /\ ToSet(InsertAt(s, i, t)) = ToSet(s) \cup {t}
         /\ Distinct(s) /\ t \notin ToSet(s) => Distinct(InsertAt(s, i, t))
<1> DEFINE r == InsertAt(s, i, t)
<1>1. /\ r \in Seq(Thread) /\ Len(r) = Len(s) + 1 /\ Len(s) \in Nat
      /\ \A j \in 1 .. Len(s) + 1 :
           r[j] = IF j < i THEN s[j] ELSE IF j = i THEN t ELSE s[j - 1]
  BY InsertAtIndex
<1> HIDE DEF r
<1>2. DOMAIN r = 1 .. Len(s) + 1 /\ DOMAIN s = 1 .. Len(s)
  BY <1>1
<1>3. ToSet(r) \subseteq ToSet(s) \cup {t}
  <2> SUFFICES ASSUME NEW j \in 1 .. Len(s) + 1 PROVE r[j] \in ToSet(s) \cup {t}
    BY <1>2 DEF ToSet
  <2>1. CASE j < i
    <3>1. j \in 1 .. Len(s) /\ r[j] = s[j]
      BY <1>1, <2>1
    <3> QED BY <1>2, <3>1 DEF ToSet
  <2>2. CASE j = i
    BY <1>1, <2>2
  <2>3. CASE j > i
    <3>1. j - 1 \in 1 .. Len(s) /\ r[j] = s[j - 1]
      BY <1>1, <2>3
    <3> QED BY <1>2, <3>1 DEF ToSet
  <2> QED BY <1>1, <2>1, <2>2, <2>3
<1>4. t \in ToSet(r)
  BY <1>1, <1>2 DEF ToSet
<1>5. ASSUME NEW j \in 1 .. Len(s) PROVE s[j] \in ToSet(r)
  <2>1. CASE j < i
    <3>1. j \in 1 .. Len(s) + 1 /\ r[j] = s[j]
      BY <1>1, <2>1
    <3> QED BY <1>2, <3>1 DEF ToSet
  <2>2. CASE ~(j < i)
    <3>1. j + 1 \in 1 .. Len(s) + 1 /\ r[j + 1] = s[j]
      BY <1>1, <2>2
    <3> QED BY <1>2, <3>1 DEF ToSet
  <2> QED BY <2>1, <2>2
<1>6. ToSet(s) \subseteq ToSet(r)
  BY <1>2, <1>5 DEF ToSet
<1>7. ASSUME Distinct(s), t \notin ToSet(s) PROVE Distinct(r)
  <2> SUFFICES ASSUME NEW p \in DOMAIN r, NEW q \in DOMAIN r, r[p] = r[q]
               PROVE p = q
    BY DEF Distinct
  <2>1. \A j \in 1 .. Len(s) : s[j] # t
    BY <1>2, <1>7 DEF ToSet
  <2>2. \A a, b \in 1 .. Len(s) : s[a] = s[b] => a = b
    BY <1>2, <1>7 DEF Distinct
  <2> DEFINE back(j) == IF j < i THEN j ELSE j - 1
  <2>3. p \in 1 .. Len(s) + 1 /\ q \in 1 .. Len(s) + 1
    BY <1>2
  <2>4. CASE p = i
    <3>1. q # i => back(q) \in 1 .. Len(s) /\ r[q] = s[back(q)]
      BY <1>1, <2>3
    <3>2. r[p] = t
      BY <1>1, <2>3, <2>4
    <3> QED BY <2>1, <2>4, <3>1, <3>2
  <2>5. CASE q = i
    <3>1. p # i => back(p) \in 1 .. Len(s) /\ r[p] = s[back(p)]
      BY <1>1, <2>3
    <3>2. r[q] = t
      BY <1>1, <2>3, <2>5
    <3> QED BY <2>1, <2>5, <3>1, <3>2
  <2>6. CASE p # i /\ q # i
    <3>1. back(p) \in 1 .. Len(s) /\ r[p] = s[back(p)]
      BY <1>1, <2>3, <2>6
    <3>2. back(q) \in 1 .. Len(s) /\ r[q] = s[back(q)]
      BY <1>1, <2>3, <2>6
    <3>3. back(p) = back(q)
      BY <2>2, <3>1, <3>2
    <3> QED BY <1>1, <2>3, <2>6, <3>3
  <2> QED BY <2>4, <2>5, <2>6
<1> QED BY <1>1, <1>3, <1>4, <1>6, <1>7 DEF r

\* Removing a thread from a list of distinct threads removes it and no other.
LEMMA WithoutSet ==
  ASSUME NEW s \in Seq(Thread), NEW t \in Thread, Distinct(s)
  PROVE  /\ Without(s, t) \in Seq(Thread)
         /\ ToSet(Without(s, t)) = ToSet(s) \ {t}
         /\ Distinct(Without(s, t))
<1>1. CASE t \notin ToSet(s)
  BY <1>1 DEF Without
<1>2. CASE t \in ToSet(s)
  <2> DEFINE i == CHOOSE i \in DOMAIN s : s[i] = t
             r == RemoveAt(s, i)
  <2>1. i \in DOMAIN s /\ s[i] = t
    BY <1>2 DEF ToSet
  <2>2. Without(s, t) = r
    BY <1>2 DEF Without
  <2>3. DOMAIN s = 1 .. Len(s) /\ Len(s) \in Nat
    OBVIOUS
  <2> HIDE DEF i
  <2>4. /\ r \in Seq(Thread) /\ Len(r) = Len(s) - 1
        /\ \A j \in 1 .. Len(s) - 1 : r[j] = IF j < i THEN s[j] ELSE s[j + 1]
    BY <2>1, <2>3, RemoveAtIndex
  <2> HIDE DEF r
  <2>5. DOMAIN r = 1 .. Len(s) - 1
    BY <2>3, <2>4
  <2> DEFINE from(j) == IF j < i THEN j ELSE j + 1
  <2>6. \A j \in 1 .. Len(s) - 1 : from(j) \in 1 .. Len(s) /\ from(j) # i /\ r[j] = s[from(j)]
    BY <2>1, <2>3, <2>4
  <2>7. \A a, b \in 1 .. Len(s) : s[a] = s[b] => a = b
    BY <2>3 DEF Distinct
  <2>8. ToSet(r) \subseteq ToSet(s) \ {t}
    BY <2>1, <2>3, <2>5, <2>6, <2>7 DEF ToSet
  <2>9. ASSUME NEW j \in 1 .. Len(s), j # i PROVE s[j] \in ToSet(r)
    <3>1. CASE j < i
      <4>1. j \in 1 .. Len(s) - 1 /\ r[j] = s[j]
        BY <2>1, <2>3, <2>4, <3>1
      <4> QED BY <2>5, <4>1 DEF ToSet
    <3>2. CASE ~(j < i)
      <4>1. j - 1 \in 1 .. Len(s) - 1 /\ r[j - 1] = s[j]
        BY <2>1, <2>3, <2>4, <2>9, <3>2
      <4> QED BY <2>5, <4>1 DEF ToSet
    <3> QED BY <3>1, <3>2
  <2>10. ToSet(s) \ {t} \subseteq ToSet(r)
    BY <2>1, <2>3, <2>9 DEF ToSet
  <2>11. Distinct(r)
    <3> SUFFICES ASSUME NEW p \in 1 .. Len(s) - 1, NEW q \in 1 .. Len(s) - 1, r[p] = r[q]
                 PROVE p = q
      BY <2>5 DEF Distinct
    <3>1. from(p) = from(q)
      BY <2>6, <2>7
    <3> QED BY <2>1, <2>3, <3>1
  <2> QED BY <2>2, <2>4, <2>8, <2>10, <2>11
<1> QED BY <1>1, <1>2

\* Taking the head of a list of distinct threads.
LEMMA TailSet ==
  ASSUME NEW s \in Seq(Thread), s # <<>>, Distinct(s)
  PROVE  /\ Tail(s) \in Seq(Thread)
         /\ Head(s) \in ToSet(s)
         /\ ToSet(Tail(s)) = ToSet(s) \ {Head(s)}
         /\ Distinct(Tail(s))
<1>1. /\ Len(s) \in Nat \ {0} /\ DOMAIN s = 1 .. Len(s) /\ Head(s) = s[1]
      /\ Tail(s) \in Seq(Thread) /\ Len(Tail(s)) = Len(s) - 1
      /\ DOMAIN Tail(s) = 1 .. Len(s) - 1
      /\ \A i \in 1 .. Len(s) - 1 : Tail(s)[i] = s[i + 1]
  BY HeadTailProperties, EmptySeq
<1>2. \A a, b \in 1 .. Len(s) : s[a] = s[b] => a = b
  BY <1>1 DEF Distinct
<1>3. Distinct(Tail(s))
  BY <1>1, <1>2 DEF Distinct
<1>4. ToSet(Tail(s)) \subseteq ToSet(s) \ {Head(s)}
  <2> SUFFICES ASSUME NEW i \in 1 .. Len(s) - 1
               PROVE s[i + 1] \in ToSet(s) /\ s[i + 1] # s[1]
    BY <1>1 DEF ToSet
  <2>1. i + 1 \in 1 .. Len(s) /\ i + 1 # 1 /\ 1 \in 1 .. Len(s)
    BY <1>1
  <2> QED BY <1>1, <1>2, <2>1 DEF ToSet
<1>5. ToSet(s) \ {Head(s)} \subseteq ToSet(Tail(s))
  <2> SUFFICES ASSUME NEW i \in 1 .. Len(s), s[i] # s[1] PROVE s[i] \in ToSet(Tail(s))
    BY <1>1 DEF ToSet
  <2>1. i - 1 \in 1 .. Len(s) - 1 /\ Tail(s)[i - 1] = s[i]
    BY <1>1
  <2> QED BY <1>1, <2>1 DEF ToSet
<1>6. Head(s) \in ToSet(s)
  BY <1>1 DEF ToSet
<1> QED BY <1>1, <1>3, <1>4, <1>5, <1>6

\* Appending a thread.
LEMMA AppendSet ==
  ASSUME NEW s \in Seq(Thread), NEW t \in Thread
  PROVE  /\ Append(s, t) \in Seq(Thread)
         /\ ToSet(Append(s, t)) = ToSet(s) \cup {t}
         /\ Distinct(s) /\ t \notin ToSet(s) => Distinct(Append(s, t))
<1>1. /\ Append(s, t) \in Seq(Thread) /\ Len(Append(s, t)) = Len(s) + 1 /\ Len(s) \in Nat
      /\ DOMAIN s = 1 .. Len(s) /\ DOMAIN Append(s, t) = 1 .. Len(s) + 1
      /\ \A i \in 1 .. Len(s) : Append(s, t)[i] = s[i]
      /\ Append(s, t)[Len(s) + 1] = t
  BY AppendProperties
<1>2. ToSet(Append(s, t)) \subseteq ToSet(s) \cup {t}
  <2> SUFFICES ASSUME NEW i \in 1 .. Len(s) + 1
               PROVE Append(s, t)[i] \in ToSet(s) \cup {t}
    BY <1>1 DEF ToSet
  <2>1. CASE i = Len(s) + 1
    BY <1>1, <2>1
  <2>2. CASE i # Len(s) + 1
    <3>1. i \in 1 .. Len(s)
      BY <1>1, <2>2
    <3> QED BY <1>1, <3>1 DEF ToSet
  <2> QED BY <2>1, <2>2
<1>3. ToSet(s) \cup {t} \subseteq ToSet(Append(s, t))
  <2>1. Len(s) + 1 \in 1 .. Len(s) + 1
    BY <1>1
  <2>2. \A i \in 1 .. Len(s) : i \in 1 .. Len(s) + 1
    BY <1>1
  <2> QED BY <1>1, <2>1, <2>2 DEF ToSet
<1>4. Distinct(s) /\ t \notin ToSet(s) => Distinct(Append(s, t))
  BY <1>1 DEF Distinct, ToSet
<1> QED BY <1>1, <1>2, <1>3, <1>4

---------------------------------------------------------------------------
\* Threads and their places

\* The type of the scheduler, without the fact that no delay is negative,
\* which rests on the order of the delay list.
Typed(k) ==
  k \in [state : [Thread -> ThreadState], priority : [Thread -> Nat],
         delay : [Thread -> Int \cup {Forever}],
         ready : Seq(Thread), delay_list : Seq(Thread), wait_list : Seq(Thread),
         curr : Thread, next : Thread, robin : Thread \cup {NoThread},
         kernel : {"Running", "Locked"}]

\* Within a handler a thread may be on its way between two lists: those of T
\* are in no list, and every other one is where its state says.  Only the
\* threads of the wait list have no timeout, among them those that join.
Placed(k, T) ==
  /\ Distinct(k.ready) /\ Distinct(k.delay_list) /\ Distinct(k.wait_list)
  /\ \A t \in Thread :
       /\ t \in ToSet(k.ready) <=> t \notin T /\ k.state[t] = "Ready"
       /\ t \in ToSet(k.delay_list) <=>
            t \notin T /\ k.state[t] \in BlockedStates /\ k.delay[t] # Forever
       /\ t \in ToSet(k.wait_list) <=>
            t \notin T /\ k.state[t] \in BlockedStates /\ k.delay[t] = Forever
       /\ t \notin T /\ k.state[t] = "Running" => t = k.next
       /\ k.delay[t] = Forever => t \in ToSet(k.wait_list)
       /\ t \notin T /\ k.state[t] = "WaitingJoin" => k.delay[t] = Forever

\* r has the processor as k has.
SameRun(k, r) == r.curr = k.curr /\ r.next = k.next /\ r.kernel = k.kernel

\* Outside S no thread changes its state except for the processor.
Frame(k, r, S) ==
  \A u \in Thread \ S :
    \/ r.state[u] = k.state[u]
    \/ {k.state[u], r.state[u]} \subseteq {"Ready", "Running"}

\* A thread in no list becomes ready at any index of the ready list.
LEMMA InsertReady ==
  ASSUME NEW k, NEW T, NEW t \in Thread, t \in T, Typed(k), Placed(k, T),
         NEW i \in 1 .. Len(k.ready) + 1
  PROVE  LET r == [k EXCEPT !.state[t] = "Ready", !.ready = InsertAt(@, i, t)]
         IN  /\ Typed(r) /\ Placed(r, T \ {t}) /\ SameRun(k, r)
             /\ r.state = [k.state EXCEPT ![t] = "Ready"]
             /\ ToSet(r.ready) = ToSet(k.ready) \cup {t}
<1> DEFINE r == [k EXCEPT !.state[t] = "Ready", !.ready = InsertAt(@, i, t)]
           l == InsertAt(k.ready, i, t)
<1>1. /\ k.ready \in Seq(Thread) /\ k.state \in [Thread -> ThreadState]
      /\ Distinct(k.ready) /\ t \notin ToSet(k.ready)
  BY DEF Typed, Placed
<1>2. l \in Seq(Thread) /\ ToSet(l) = ToSet(k.ready) \cup {t} /\ Distinct(l)
  BY <1>1, InsertSet
<1> HIDE DEF l
<1>3. /\ r.state = [k.state EXCEPT ![t] = "Ready"] /\ r.ready = l
      /\ r.delay_list = k.delay_list /\ r.wait_list = k.wait_list
      /\ r.delay = k.delay /\ r.next = k.next /\ r.curr = k.curr /\ r.kernel = k.kernel
  BY DEF Typed, l
<1>4. Typed(r)
  <2>1. "Ready" \in ThreadState
    BY DEF ThreadState
  <2> QED BY <1>1, <1>2, <2>1 DEF Typed, l
<1> HIDE DEF r
<1>5. Placed(r, T \ {t})
  <2>1. "Ready" \notin BlockedStates /\ "Ready" # "Running"
    BY DEF BlockedStates, WaitStates
  <2>2. \A u \in Thread : u # t => r.state[u] = k.state[u]
    BY <1>1, <1>3
  <2>3. r.state[t] = "Ready"
    BY <1>1, <1>3
  <2> QED BY <1>2, <1>3, <2>1, <2>2, <2>3 DEF Placed
<1>6. SameRun(k, r) /\ ToSet(r.ready) = ToSet(k.ready) \cup {t}
  BY <1>2, <1>3 DEF SameRun
<1> QED BY <1>3, <1>4, <1>5, <1>6 DEF r

LEMMA ReadyPutPlaced ==
  ASSUME NEW k, NEW T, NEW t \in Thread, t \in T, Typed(k), Placed(k, T)
  PROVE  LET r == ReadyPut(k, t)
         IN  /\ Typed(r) /\ Placed(r, T \ {t}) /\ SameRun(k, r)
             /\ r.state = [k.state EXCEPT ![t] = "Ready"]
             /\ ToSet(r.ready) = ToSet(k.ready) \cup {t}
<1> DEFINE i == PastPrefix(k.ready, {u \in Thread : k.priority[u] >= k.priority[t]})
<1>1. k.ready \in Seq(Thread)
  BY DEF Typed
<1>2. i \in 1 .. Len(k.ready) + 1
  BY <1>1, PastPrefixIndex
<1>3. ReadyPut(k, t) = [k EXCEPT !.state[t] = "Ready", !.ready = InsertAt(@, i, t)]
  BY DEF ReadyPut, ListPut
<1> HIDE DEF i
<1> DEFINE r == [k EXCEPT !.state[t] = "Ready", !.ready = InsertAt(@, i, t)]
<1>4. /\ Typed(r) /\ Placed(r, T \ {t}) /\ SameRun(k, r)
      /\ r.state = [k.state EXCEPT ![t] = "Ready"]
      /\ ToSet(r.ready) = ToSet(k.ready) \cup {t}
  BY <1>2, InsertReady
<1> QED BY <1>3, <1>4

LEMMA BlockPlaced ==
  ASSUME NEW k, NEW T, NEW t \in Thread, t \in T, Typed(k), Placed(k, T)
  PROVE  LET r == Block(k, t)
         IN  /\ Typed(r) /\ Placed(r, T \ {t}) /\ SameRun(k, r)
             /\ r.state = [k.state EXCEPT ![t] = "Ready"]
<1> DEFINE i == PastPrefix(k.ready, {u \in Thread : k.priority[u] > k.priority[t]})
<1>1. k.ready \in Seq(Thread)
  BY DEF Typed
<1>2. i \in 1 .. Len(k.ready) + 1
  BY <1>1, PastPrefixIndex
<1>3. Block(k, t) = [k EXCEPT !.state[t] = "Ready", !.ready = InsertAt(@, i, t)]
  BY DEF Block
<1> HIDE DEF i
<1> DEFINE r == [k EXCEPT !.state[t] = "Ready", !.ready = InsertAt(@, i, t)]
<1>4. /\ Typed(r) /\ Placed(r, T \ {t}) /\ SameRun(k, r)
      /\ r.state = [k.state EXCEPT ![t] = "Ready"]
      /\ ToSet(r.ready) = ToSet(k.ready) \cup {t}
  BY <1>2, InsertReady
<1> QED BY <1>3, <1>4

\* The ready thread at the head leaves its list.
LEMMA TakeHeadPlaced ==
  ASSUME NEW k, NEW T, Typed(k), Placed(k, T), k.ready # <<>>
  PROVE  LET r == [k EXCEPT !.ready = Tail(@)]
             h == Head(k.ready)
         IN  /\ h \in Thread /\ h \notin T /\ k.state[h] = "Ready"
             /\ Typed(r) /\ Placed(r, T \cup {h}) /\ SameRun(k, r)
             /\ r.state = k.state
<1> DEFINE r == [k EXCEPT !.ready = Tail(@)]
           h == Head(k.ready)
           l == Tail(k.ready)
<1>1. k.ready \in Seq(Thread) /\ Distinct(k.ready)
  BY DEF Typed, Placed
<1>2. /\ l \in Seq(Thread) /\ h \in ToSet(k.ready) /\ ToSet(l) = ToSet(k.ready) \ {h}
      /\ Distinct(l) /\ h \in Thread
  BY <1>1, TailSet
<1> HIDE DEF l, h
<1>3. h \notin T /\ k.state[h] = "Ready"
  BY <1>2 DEF Placed
<1>4. /\ r.state = k.state /\ r.ready = l
      /\ r.delay_list = k.delay_list /\ r.wait_list = k.wait_list
      /\ r.delay = k.delay /\ r.next = k.next /\ r.curr = k.curr /\ r.kernel = k.kernel
  BY DEF Typed, l
<1>5. Typed(r)
  BY <1>2 DEF Typed, l
<1> HIDE DEF r
<1>6. Placed(r, T \cup {h})
  <2>1. "Ready" \notin BlockedStates
    BY DEF BlockedStates, WaitStates
  <2> QED BY <1>2, <1>3, <1>4, <2>1 DEF Placed
<1> QED BY <1>2, <1>3, <1>4, <1>5, <1>6 DEF SameRun, r, h

\* A thread in no list is elected when the one elected before is on its way out.
LEMMA SwitchPlaced ==
  ASSUME NEW k, NEW T, NEW t \in Thread, t \in T, Typed(k), Placed(k, T),
         k.next \in T \/ k.state[k.next] # "Running"
  PROVE  LET r == Switch(k, t)
         IN  /\ Typed(r) /\ Placed(r, T \ {t})
             /\ r.curr = k.curr /\ r.kernel = k.kernel /\ r.next = t
             /\ r.state = [k.state EXCEPT ![t] = "Running"]
<1> DEFINE r == Switch(k, t)
<1>1. /\ r.state = [k.state EXCEPT ![t] = "Running"] /\ r.ready = k.ready
      /\ r.delay_list = k.delay_list /\ r.wait_list = k.wait_list
      /\ r.delay = k.delay /\ r.next = t /\ r.curr = k.curr /\ r.kernel = k.kernel
  BY DEF Typed, Switch
<1>2. Typed(r)
  <2>1. "Running" \in ThreadState
    BY DEF ThreadState
  <2> QED BY <2>1 DEF Typed, Switch
<1> HIDE DEF r
<1>3. Placed(r, T \ {t})
  <2>1. "Running" \notin BlockedStates
    BY DEF BlockedStates, WaitStates
  <2>2. \A u \in Thread : u # t => r.state[u] = k.state[u]
    BY <1>1 DEF Typed
  <2>3. r.state[t] = "Running"
    BY <1>1 DEF Typed
  <2>4. \A u \in Thread : u \notin T => k.state[u] # "Running"
    BY DEF Placed
  <2> QED BY <1>1, <2>1, <2>2, <2>3, <2>4 DEF Placed
<1> QED BY <1>1, <1>2, <1>3 DEF r

\* A thread that is in no list may be taken as on its way ...
LEMMA Lift ==
  ASSUME NEW k, NEW T, NEW t \in Thread, Placed(k, T),
         k.state[t] \notin BlockedStates \cup {"Ready"}
  PROVE  Placed(k, T \cup {t})
BY DEF Placed

\* ... may take any state on its way ...
LEMMA Recast ==
  ASSUME NEW k, NEW T, NEW t \in Thread, t \in T, Typed(k), Placed(k, T),
         NEW s \in ThreadState
  PROVE  LET r == [k EXCEPT !.state[t] = s]
         IN  /\ Typed(r) /\ Placed(r, T) /\ SameRun(k, r)
             /\ r.state = [k.state EXCEPT ![t] = s]
             /\ r.ready = k.ready
<1> DEFINE r == [k EXCEPT !.state[t] = s]
<1>1. /\ r.state = [k.state EXCEPT ![t] = s] /\ r.ready = k.ready
      /\ r.delay_list = k.delay_list /\ r.wait_list = k.wait_list
      /\ r.delay = k.delay /\ r.next = k.next /\ r.curr = k.curr /\ r.kernel = k.kernel
  BY DEF Typed
<1>2. Typed(r)
  BY DEF Typed
<1> HIDE DEF r
<1>3. \A u \in Thread : u \notin T => r.state[u] = k.state[u]
  BY <1>1 DEF Typed
<1>4. Placed(r, T)
  BY <1>1, <1>3 DEF Placed
<1> QED BY <1>1, <1>2, <1>4 DEF SameRun, r

\* ... and has arrived in a state that is not in any list.
LEMMA Land ==
  ASSUME NEW k, NEW T, NEW t \in Thread, Placed(k, T), t \in T,
         k.state[t] \notin BlockedStates \cup {"Ready", "Running"}
  PROVE  Placed(k, T \ {t})
BY DEF Placed, BlockedStates, WaitStates

\* A blocked thread in no list goes to the delay list or to the wait list.
LEMMA DelayInsertPlaced ==
  ASSUME NEW k, NEW T, NEW t \in Thread, t \in T, Typed(k), Placed(k, T),
         k.state[t] \in BlockedStates, NEW timeout \in Int \cup {Forever},
         k.state[t] = "WaitingJoin" => timeout = Forever
  PROVE  LET r == DelayInsert(k, t, timeout)
         IN  /\ Typed(r) /\ Placed(r, T \ {t}) /\ SameRun(k, r)
             /\ r.state = k.state /\ r.ready = k.ready
<1> DEFINE r == DelayInsert(k, t, timeout)
<1>1. /\ k.delay_list \in Seq(Thread) /\ k.wait_list \in Seq(Thread)
      /\ k.state \in [Thread -> ThreadState]
      /\ k.delay \in [Thread -> Int \cup {Forever}]
      /\ Distinct(k.delay_list) /\ t \notin ToSet(k.delay_list)
      /\ Distinct(k.wait_list) /\ t \notin ToSet(k.wait_list)
  BY DEF Typed, Placed
<1>2. k.state[t] # "Running" /\ k.state[t] # "Ready"
  BY DEF BlockedStates, WaitStates
<1>3. CASE timeout = Forever
  <2> DEFINE l == Append(k.wait_list, t)
             d == [k.delay EXCEPT ![t] = Forever]
  <2>1. l \in Seq(Thread) /\ ToSet(l) = ToSet(k.wait_list) \cup {t} /\ Distinct(l)
    BY <1>1, AppendSet
  <2> HIDE DEF l
  <2>2. r = [k EXCEPT !.delay = d, !.wait_list = l]
    BY <1>3 DEF DelayInsert, l, Typed
  <2>3. Typed(r)
    <3>1. d \in [Thread -> Int \cup {Forever}]
      BY <1>1
    <3> HIDE DEF d, r
    <3> QED BY <1>1, <2>1, <2>2, <3>1 DEF Typed
  <2>4. /\ r.state = k.state /\ r.ready = k.ready
        /\ r.delay_list = k.delay_list /\ r.wait_list = l
        /\ r.delay = [k.delay EXCEPT ![t] = Forever]
        /\ r.next = k.next /\ r.curr = k.curr /\ r.kernel = k.kernel
    BY <2>2 DEF Typed
  <2> HIDE DEF r
  <2>5. r.delay[t] = Forever /\ \A u \in Thread : u # t => r.delay[u] = k.delay[u]
    BY <1>1, <2>4
  <2>6. Placed(r, T \ {t})
    BY <1>2, <2>1, <2>4, <2>5 DEF Placed
  <2> QED BY <2>3, <2>4, <2>6 DEF SameRun, r
<1>4. CASE timeout # Forever
  <2> DEFINE earlier == {u \in ToSet(k.delay_list) : k.delay[u] <= timeout}
             i == PastPrefix(k.delay_list, earlier)
             l == InsertAt(k.delay_list, i, t)
             d == [k.delay EXCEPT ![t] = timeout]
  <2>1. i \in 1 .. Len(k.delay_list) + 1
    BY <1>1, PastPrefixIndex
  <2>2. l \in Seq(Thread) /\ ToSet(l) = ToSet(k.delay_list) \cup {t} /\ Distinct(l)
    <3> HIDE DEF i
    <3> QED BY <1>1, <2>1, InsertSet
  <2>3. r = [k EXCEPT !.delay = d, !.delay_list = l]
    BY <1>4 DEF DelayInsert, l, Typed
  <2> HIDE DEF l, i
  <2>4. Typed(r)
    <3>1. d \in [Thread -> Int \cup {Forever}]
      BY <1>1
    <3> HIDE DEF d, r
    <3> QED BY <1>1, <2>2, <2>3, <3>1 DEF Typed
  <2>5. /\ r.state = k.state /\ r.ready = k.ready
        /\ r.delay_list = l /\ r.wait_list = k.wait_list
        /\ r.delay = [k.delay EXCEPT ![t] = timeout]
        /\ r.next = k.next /\ r.curr = k.curr /\ r.kernel = k.kernel
    BY <2>3 DEF Typed
  <2> HIDE DEF r
  <2>6. r.delay[t] = timeout /\ \A u \in Thread : u # t => r.delay[u] = k.delay[u]
    BY <1>1, <2>5
  <2>7. Placed(r, T \ {t})
    BY <1>2, <1>4, <2>2, <2>5, <2>6 DEF Placed
  <2> QED BY <2>4, <2>5, <2>7 DEF SameRun, r
<1> QED BY <1>3, <1>4

\* A blocked thread leaves the list it is in.
LEMMA DelayRemovePlaced ==
  ASSUME NEW k, NEW T, NEW t \in Thread, t \notin T, Typed(k), Placed(k, T),
         k.state[t] \in BlockedStates
  PROVE  LET r == DelayRemove(k, t)
         IN  /\ Typed(r) /\ Placed(r, T \cup {t}) /\ SameRun(k, r)
             /\ r.state = k.state /\ r.ready = k.ready
<1> DEFINE r == DelayRemove(k, t)
<1>1. /\ k.delay_list \in Seq(Thread) /\ k.wait_list \in Seq(Thread)
      /\ k.state \in [Thread -> ThreadState]
      /\ k.delay \in [Thread -> Int \cup {Forever}]
      /\ Distinct(k.delay_list) /\ Distinct(k.wait_list)
  BY DEF Typed, Placed
<1>2. k.state[t] # "Running" /\ k.state[t] # "Ready"
  BY DEF BlockedStates, WaitStates
<1> DEFINE dl == Without(k.delay_list, t)
           wl == Without(k.wait_list, t)
           d  == [k.delay EXCEPT ![t] = 0]
<1>3. /\ dl \in Seq(Thread) /\ ToSet(dl) = ToSet(k.delay_list) \ {t} /\ Distinct(dl)
      /\ wl \in Seq(Thread) /\ ToSet(wl) = ToSet(k.wait_list) \ {t} /\ Distinct(wl)
  BY <1>1, WithoutSet
<1> HIDE DEF dl, wl
<1>4. CASE k.delay[t] = Forever
  <2>1. r = [k EXCEPT !.delay = d, !.wait_list = wl]
    BY <1>4 DEF DelayRemove, wl, Typed
  <2>2. Typed(r)
    <3>1. d \in [Thread -> Int \cup {Forever}]
      BY <1>1
    <3> HIDE DEF d, r
    <3> QED BY <1>1, <1>3, <2>1, <3>1 DEF Typed
  <2>3. /\ r.state = k.state /\ r.ready = k.ready
        /\ r.delay_list = k.delay_list /\ r.wait_list = wl
        /\ r.delay = [k.delay EXCEPT ![t] = 0]
        /\ r.next = k.next /\ r.curr = k.curr /\ r.kernel = k.kernel
    BY <2>1 DEF Typed
  <2> HIDE DEF r
  <2>4. \A u \in Thread : u # t => r.delay[u] = k.delay[u]
    BY <1>1, <2>3
  <2>5. r.delay[t] # Forever
    BY <1>1, <2>3, SchedulerAssumption
  <2>6. Placed(r, T \cup {t})
    BY <1>2, <1>3, <1>4, <2>3, <2>4, <2>5 DEF Placed
  <2> QED BY <2>2, <2>3, <2>6 DEF SameRun, r
<1>5. CASE k.delay[t] # Forever
  <2>1. r = [k EXCEPT !.delay = d, !.delay_list = dl]
    BY <1>5 DEF DelayRemove, dl, Typed
  <2>2. Typed(r)
    <3>1. d \in [Thread -> Int \cup {Forever}]
      BY <1>1
    <3> HIDE DEF d, r
    <3> QED BY <1>1, <1>3, <2>1, <3>1 DEF Typed
  <2>3. /\ r.state = k.state /\ r.ready = k.ready
        /\ r.delay_list = dl /\ r.wait_list = k.wait_list
        /\ r.delay = [k.delay EXCEPT ![t] = 0]
        /\ r.next = k.next /\ r.curr = k.curr /\ r.kernel = k.kernel
    BY <2>1 DEF Typed
  <2> HIDE DEF r
  <2>4. \A u \in Thread : u # t => r.delay[u] = k.delay[u]
    BY <1>1, <2>3
  <2>5. r.delay[t] # Forever
    BY <1>1, <2>3, SchedulerAssumption
  <2>6. Placed(r, T \cup {t})
    BY <1>2, <1>3, <1>5, <2>3, <2>4, <2>5 DEF Placed
  <2> QED BY <2>2, <2>3, <2>6 DEF SameRun, r
<1> QED BY <1>4, <1>5

---------------------------------------------------------------------------
\* What the handlers are composed of.  Runs(k, T): everything is in its place
\* except T, and the elected thread is Running.

Runs(k, T) ==
  /\ Typed(k) /\ Placed(k, T)
  /\ k.next \notin T /\ k.state[k.next] = "Running"

LEMMA SwitchToReadyRuns ==
  ASSUME NEW k, NEW T, Typed(k), Placed(k, T), k.ready # <<>>,
         k.next \in T \/ k.state[k.next] # "Running"
  PROVE  LET r == SwitchToReady(k)
         IN  Runs(r, T) /\ r.curr = k.curr /\ r.kernel = k.kernel /\ Frame(k, r, {})
<1> DEFINE m == [k EXCEPT !.ready = Tail(@)]
           h == Head(k.ready)
           r == SwitchToReady(k)
<1>1. /\ h \in Thread /\ h \notin T /\ k.state[h] = "Ready"
      /\ Typed(m) /\ Placed(m, T \cup {h}) /\ SameRun(k, m) /\ m.state = k.state
  BY TakeHeadPlaced
<1>2. r = Switch(m, h)
  BY DEF SwitchToReady
<1> HIDE DEF m, h, r
<1>3. /\ Typed(r) /\ Placed(r, (T \cup {h}) \ {h})
      /\ r.curr = m.curr /\ r.kernel = m.kernel /\ r.next = h
      /\ r.state = [m.state EXCEPT ![h] = "Running"]
  <2> DEFINE U == T \cup {h}
  <2>1. h \in Thread /\ Typed(m) /\ h \in U /\ Placed(m, U) /\ (m.next \in U \/ m.state[m.next] # "Running")
    BY <1>1 DEF SameRun
  <2> HIDE DEF U
  <2>2. /\ Typed(Switch(m, h)) /\ Placed(Switch(m, h), U \ {h})
        /\ Switch(m, h).curr = m.curr /\ Switch(m, h).kernel = m.kernel
        /\ Switch(m, h).next = h
        /\ Switch(m, h).state = [m.state EXCEPT ![h] = "Running"]
    BY <2>1, SwitchPlaced
  <2> QED BY <1>2, <2>2 DEF U
<1>4. (T \cup {h}) \ {h} = T
  BY <1>1
<1>5. k.state \in [Thread -> ThreadState]
  BY DEF Typed
<1> QED BY <1>1, <1>3, <1>4, <1>5, ZenonT(60) DEF Runs, Frame, SameRun, r

\* osRtxThreadDispatch(NULL): the head of the ready list preempts, or nothing.
LEMMA DispatchRuns ==
  ASSUME NEW k, NEW T, Runs(k, T), k.curr = k.next
  PROVE  LET r == Dispatch(k)
         IN  Runs(r, T) /\ r.curr = k.curr /\ r.kernel = k.kernel /\ Frame(k, r, {})
<1> DEFINE m == [k EXCEPT !.ready = Tail(@)]
           h == Head(k.ready)
           c == k.curr
           b == Block(m, c)
<1>1. CASE Dispatch(k) = k
  BY <1>1 DEF Runs, Frame
<1>2. CASE k.ready # <<>> /\ Dispatch(k) = Switch(b, h)
  <2> DEFINE r == Switch(b, h)
  <2>1. /\ h \in Thread /\ h \notin T /\ k.state[h] = "Ready"
        /\ Typed(m) /\ Placed(m, T \cup {h}) /\ SameRun(k, m) /\ m.state = k.state
    BY <1>2, TakeHeadPlaced DEF Runs
  <2> HIDE DEF m, h
  <2>2. c \in Thread /\ c \notin T /\ k.state[c] = "Running" /\ c # h
    BY <2>1 DEF Runs, Typed
  <2> HIDE DEF c
  <2>3. Placed(m, T \cup {h} \cup {c})
    BY <2>1, <2>2, Lift DEF BlockedStates, WaitStates
  <2>4. /\ Typed(b) /\ Placed(b, (T \cup {h} \cup {c}) \ {c}) /\ SameRun(m, b)
        /\ b.state = [m.state EXCEPT ![c] = "Ready"]
    BY <2>1, <2>2, <2>3, BlockPlaced
  <2>5. (T \cup {h} \cup {c}) \ {c} = T \cup {h}
    BY <2>2
  <2> HIDE DEF b
  <2>6. b.next = c /\ b.state[b.next] # "Running"
    BY <2>1, <2>2, <2>4 DEF SameRun, Typed, Runs, c
  <2>7. /\ Typed(r) /\ Placed(r, (T \cup {h}) \ {h})
        /\ r.curr = b.curr /\ r.kernel = b.kernel /\ r.next = h
        /\ r.state = [b.state EXCEPT ![h] = "Running"]
    <3> DEFINE U == T \cup {h}
    <3>1. h \in Thread /\ Typed(b) /\ h \in U /\ Placed(b, U) /\ (b.next \in U \/ b.state[b.next] # "Running")
      BY <2>1, <2>4, <2>5, <2>6
    <3> HIDE DEF U
    <3>2. /\ Typed(Switch(b, h)) /\ Placed(Switch(b, h), U \ {h})
          /\ Switch(b, h).curr = b.curr /\ Switch(b, h).kernel = b.kernel
          /\ Switch(b, h).next = h
          /\ Switch(b, h).state = [b.state EXCEPT ![h] = "Running"]
      BY <3>1, SwitchPlaced
    <3> QED BY <3>2 DEF U
  <2>8. (T \cup {h}) \ {h} = T
    BY <2>1
  <2> HIDE DEF r
  <2>9. k.state \in [Thread -> ThreadState]
    BY DEF Typed, Runs
  <2>10. Frame(k, r, {})
    BY <2>1, <2>2, <2>4, <2>7, <2>9 DEF Frame
  <2>11. r.state[h] = "Running"
    BY <2>1, <2>4, <2>7, <2>9
  <2> QED BY <1>2, <2>1, <2>4, <2>7, <2>8, <2>10, <2>11 DEF Runs, SameRun, r
<1> QED BY <1>1, <1>2 DEF Dispatch

\* osRtxThreadDispatch(t): t, in no list, is elected or made ready.
LEMMA DispatchThreadRuns ==
  ASSUME NEW k, NEW T, NEW t \in Thread, t \in T, Runs(k, T), k.curr = k.next
  PROVE  LET r == DispatchThread(k, t)
         IN  /\ Runs(r, T \ {t}) /\ r.curr = k.curr /\ r.kernel = k.kernel
             /\ Frame(k, r, {t}) /\ r.state[t] \in {"Ready", "Running"}
<1> DEFINE c == k.curr
           b == Block(k, c)
<1>0. k.state \in [Thread -> ThreadState]
  BY DEF Typed, Runs
<1>1. CASE DispatchThread(k, t) = ReadyPut(k, t)
  <2> DEFINE r == ReadyPut(k, t)
  <2>1. /\ Typed(r) /\ Placed(r, T \ {t}) /\ SameRun(k, r)
        /\ r.state = [k.state EXCEPT ![t] = "Ready"]
    BY ReadyPutPlaced DEF Runs
  <2> HIDE DEF r
  <2> QED BY <1>0, <1>1, <2>1 DEF Runs, Frame, SameRun, r
<1>2. CASE DispatchThread(k, t) = Switch(b, t)
  <2> DEFINE r == Switch(b, t)
  <2>1. c \in Thread /\ c \notin T /\ k.state[c] = "Running" /\ c # t
    BY DEF Runs, Typed
  <2> HIDE DEF c
  <2>2. Placed(k, T \cup {c})
    BY <2>1, Lift DEF BlockedStates, WaitStates, Runs
  <2>3. /\ Typed(b) /\ Placed(b, (T \cup {c}) \ {c}) /\ SameRun(k, b)
        /\ b.state = [k.state EXCEPT ![c] = "Ready"]
    BY <2>1, <2>2, BlockPlaced DEF Runs
  <2>4. (T \cup {c}) \ {c} = T
    BY <2>1
  <2> HIDE DEF b
  <2>5. b.next = c /\ b.state[b.next] # "Running"
    BY <1>0, <2>1, <2>3 DEF SameRun, Runs, c
  <2>6. /\ Typed(r) /\ Placed(r, T \ {t})
        /\ r.curr = b.curr /\ r.kernel = b.kernel /\ r.next = t
        /\ r.state = [b.state EXCEPT ![t] = "Running"]
    <3>1. Typed(b) /\ Placed(b, T) /\ (b.next \in T \/ b.state[b.next] # "Running")
      BY <2>3, <2>4, <2>5
    <3> HIDE DEF r
    <3>2. /\ Typed(Switch(b, t)) /\ Placed(Switch(b, t), T \ {t})
          /\ Switch(b, t).curr = b.curr /\ Switch(b, t).kernel = b.kernel
          /\ Switch(b, t).next = t
          /\ Switch(b, t).state = [b.state EXCEPT ![t] = "Running"]
      BY <3>1, SwitchPlaced
    <3> QED BY <3>2 DEF r
  <2> HIDE DEF r
  <2>7. Frame(k, r, {t}) /\ r.state[t] = "Running"
    BY <1>0, <2>1, <2>3, <2>6 DEF Frame
  <2> QED BY <1>2, <2>3, <2>6, <2>7 DEF Runs, SameRun, r
<1> QED BY <1>1, <1>2 DEF DispatchThread

\* osRtxThreadWaitExit without dispatch: a blocked thread becomes ready.
LEMMA WaitExitPlaced ==
  ASSUME NEW k, NEW T, NEW t \in Thread, t \notin T, Typed(k), Placed(k, T),
         k.state[t] \in BlockedStates
  PROVE  LET r == WaitExit(k, t)
         IN  /\ Typed(r) /\ Placed(r, T) /\ SameRun(k, r)
             /\ r.state = [k.state EXCEPT ![t] = "Ready"]
             /\ ToSet(r.ready) = ToSet(k.ready) \cup {t}
<1> DEFINE m == DelayRemove(k, t)
           r == ReadyPut(m, t)
<1>1. /\ Typed(m) /\ Placed(m, T \cup {t}) /\ SameRun(k, m) /\ m.state = k.state
      /\ m.ready = k.ready
  BY DelayRemovePlaced
<1> HIDE DEF m
<1>2. /\ Typed(r) /\ Placed(r, (T \cup {t}) \ {t}) /\ SameRun(m, r)
      /\ r.state = [m.state EXCEPT ![t] = "Ready"]
      /\ ToSet(r.ready) = ToSet(m.ready) \cup {t}
  BY <1>1, ReadyPutPlaced
<1>3. (T \cup {t}) \ {t} = T
  OBVIOUS
<1>4. WaitExit(k, t) = r
  BY DEF WaitExit, m
<1> HIDE DEF r
<1> QED BY <1>1, <1>2, <1>3, <1>4 DEF SameRun

\* osRtxThreadWaitExit with dispatch, and svcRtxThreadResume.
LEMMA ResumeRuns ==
  ASSUME NEW k, NEW t \in Thread, Runs(k, {}), k.curr = k.next,
         k.state[t] \in BlockedStates
  PROVE  LET r == Resume(k, t)
         IN  /\ Runs(r, {}) /\ Frame(k, r, {t})
             /\ r.state[t] \in {"Ready", "Running"}
             /\ WaitExitDispatch(k, t) = r
<1> DEFINE m == DelayRemove(k, t)
           r == DispatchThread(m, t)
<1>1. Typed(m) /\ Placed(m, {t}) /\ SameRun(k, m) /\ m.state = k.state
  BY DelayRemovePlaced DEF Runs
<1> HIDE DEF m
<1>2. Runs(m, {t}) /\ m.curr = m.next
  <2>1. k.state[t] # "Running"
    BY DEF BlockedStates, WaitStates
  <2> QED BY <1>1, <2>1 DEF Runs, SameRun
<1>3. Runs(r, {t} \ {t}) /\ Frame(m, r, {t}) /\ r.state[t] \in {"Ready", "Running"}
  BY <1>2, DispatchThreadRuns
<1>4. Resume(k, t) = r /\ WaitExitDispatch(k, t) = r
  BY DEF Resume, WaitExitDispatch, m
<1>5. {t} \ {t} = {}
  OBVIOUS
<1> HIDE DEF r
<1> QED BY <1>1, <1>3, <1>4, <1>5 DEF Frame

\* osRtxThreadWaitEnter: the running thread blocks, the head takes over.
LEMMA WaitEnterRuns ==
  ASSUME NEW k, Runs(k, {}), k.curr = k.next, k.ready # <<>>,
         NEW s \in BlockedStates, NEW timeout \in Int \cup {Forever},
         s = "WaitingJoin" => timeout = Forever
  PROVE  LET r == WaitEnter(k, s, timeout)
         IN  Runs(r, {}) /\ Frame(k, r, {k.curr}) /\ r.state[k.curr] = s
<1> DEFINE c == k.curr
           m == [k EXCEPT !.state[c] = s]
           n == DelayInsert(m, c, timeout)
           r == SwitchToReady(n)
<1>1. /\ c \in Thread /\ k.state[c] = "Running" /\ c = k.next
      /\ k.state \in [Thread -> ThreadState] /\ Typed(k) /\ Placed(k, {})
  BY DEF Runs, Typed
<1>2. s \in ThreadState /\ s # "Running" /\ s # "Ready"
  BY DEF ThreadState, BlockedStates, WaitStates
<1>3. WaitEnter(k, s, timeout) = r
  BY DEF WaitEnter
<1> HIDE DEF c
<1> DEFINE V == {c}
<1>4. Placed(k, V) /\ c \in V /\ V \ {c} = {}
  <2>1. Placed(k, {} \cup {c})
    BY <1>1, Lift DEF BlockedStates, WaitStates
  <2>2. {} \cup {c} = V /\ V \ {c} = {} /\ c \in V
    OBVIOUS
  <2> HIDE DEF V
  <2> QED BY <2>1, <2>2
<1> HIDE DEF V
<1>5. /\ Typed(m) /\ Placed(m, V) /\ SameRun(k, m)
      /\ m.state = [k.state EXCEPT ![c] = s] /\ m.ready = k.ready
  BY <1>1, <1>2, <1>4, Recast
<1> HIDE DEF m
<1>6. m.state[c] = s
  BY <1>1, <1>5
<1>7. /\ Typed(n) /\ Placed(n, V \ {c}) /\ SameRun(m, n)
      /\ n.state = m.state /\ n.ready = m.ready
  <2>1. /\ c \in Thread /\ c \in V /\ Typed(m) /\ Placed(m, V)
        /\ m.state[c] \in BlockedStates
        /\ m.state[c] = "WaitingJoin" => timeout = Forever
    BY <1>1, <1>4, <1>5, <1>6
  <2> HIDE DEF n
  <2>2. LET q == DelayInsert(m, c, timeout)
        IN  /\ Typed(q) /\ Placed(q, V \ {c}) /\ SameRun(m, q)
            /\ q.state = m.state /\ q.ready = m.ready
    BY <2>1, DelayInsertPlaced
  <2> QED BY <2>2 DEF n
<1> HIDE DEF n
<1>8. Placed(n, {})
  BY <1>4, <1>7
<1>9. n.next = c /\ n.state[n.next] # "Running" /\ n.ready # <<>>
  BY <1>1, <1>2, <1>5, <1>6, <1>7 DEF SameRun
<1>10. Runs(r, {}) /\ Frame(n, r, {})
  BY <1>7, <1>8, <1>9, SwitchToReadyRuns
<1> HIDE DEF r
<1> QED BY <1>1, <1>2, <1>3, <1>5, <1>6, <1>7, <1>10 DEF Frame, c

\* The slice of the elected thread is its own business.
NewSlice(k, d) == [k EXCEPT !.robin = k.next, !.delay[k.next] = d]

LEMMA SliceRuns ==
  ASSUME NEW k, Runs(k, {}), NEW d, d \in Int
  PROVE  LET r == NewSlice(k, d)
         IN  Runs(r, {}) /\ SameRun(k, r) /\ r.state = k.state /\ r.ready = k.ready
<1> DEFINE r == NewSlice(k, d)
           t == k.next
<1>1. /\ r.state = k.state /\ r.ready = k.ready
      /\ r.delay_list = k.delay_list /\ r.wait_list = k.wait_list
      /\ r.next = k.next /\ r.curr = k.curr /\ r.kernel = k.kernel
      /\ r.delay = [k.delay EXCEPT ![t] = d]
  BY DEF Runs, Typed, NewSlice
<1>2. Typed(r)
  BY DEF Runs, Typed, NewSlice
<1> HIDE DEF r
<1>3. /\ t \in Thread /\ k.state[t] = "Running" /\ k.state[t] \notin BlockedStates
      /\ Placed(k, {}) /\ d # Forever
  BY SchedulerAssumption DEF Runs, Typed, BlockedStates, WaitStates
<1>4. r.delay[t] # Forever /\ \A u \in Thread : u # t => r.delay[u] = k.delay[u]
  BY <1>1, <1>3 DEF Runs, Typed
<1> HIDE DEF t
<1>5. Placed(r, {})
  <2>1. "WaitingJoin" \in BlockedStates
    BY DEF BlockedStates, WaitStates
  <2>2. t \notin ToSet(k.wait_list) /\ t \notin ToSet(k.delay_list)
    BY <1>3 DEF Placed
  <2> QED BY <1>1, <1>3, <1>4, <2>1, <2>2 DEF Placed
<1> QED BY <1>1, <1>2, <1>5 DEF Runs, SameRun, r

\* The elected thread goes behind its equals and the head takes over.
LEMMA HandOverRuns ==
  ASSUME NEW k, NEW T, Runs(k, T), k.ready # <<>>
  PROVE  LET h == Head(k.ready)
             r == Switch(ReadyPut([k EXCEPT !.ready = Tail(@)], k.next), h)
         IN  /\ Runs(r, T) /\ r.curr = k.curr /\ r.kernel = k.kernel
             /\ Frame(k, r, {}) /\ r.next = h
<1> DEFINE m == [k EXCEPT !.ready = Tail(@)]
           h == Head(k.ready)
           c == k.next
           b == ReadyPut(m, c)
           r == Switch(b, h)
<1>0. k.state \in [Thread -> ThreadState]
  BY DEF Runs, Typed
<1>1. /\ h \in Thread /\ h \notin T /\ k.state[h] = "Ready"
      /\ Typed(m) /\ Placed(m, T \cup {h}) /\ SameRun(k, m) /\ m.state = k.state
  BY TakeHeadPlaced DEF Runs
<1> HIDE DEF m, h
<1>2. c \in Thread /\ c \notin T /\ k.state[c] = "Running" /\ c # h
  BY <1>1 DEF Runs, Typed
<1> HIDE DEF c
<1> DEFINE U == T \cup {h}
<1>3. Placed(m, U \cup {c})
  BY <1>1, <1>2, Lift DEF BlockedStates, WaitStates
<1>4. /\ Typed(b) /\ Placed(b, (U \cup {c}) \ {c}) /\ SameRun(m, b)
      /\ b.state = [m.state EXCEPT ![c] = "Ready"]
  <2>1. c \in U \cup {c}
    OBVIOUS
  <2> HIDE DEF U
  <2> QED BY <1>1, <1>2, <1>3, <2>1, ReadyPutPlaced
<1>5. (U \cup {c}) \ {c} = U /\ U \ {h} = T /\ h \in U
  BY <1>1, <1>2
<1> HIDE DEF b, U
<1>6. b.next = c /\ b.state[b.next] # "Running"
  BY <1>0, <1>1, <1>2, <1>4 DEF SameRun, c
<1>7. /\ Typed(r) /\ Placed(r, U \ {h})
      /\ r.curr = b.curr /\ r.kernel = b.kernel /\ r.next = h
      /\ r.state = [b.state EXCEPT ![h] = "Running"]
  <2>1. Typed(b) /\ Placed(b, U) /\ h \in Thread /\ h \in U
        /\ (b.next \in U \/ b.state[b.next] # "Running")
    BY <1>1, <1>4, <1>5, <1>6
  <2> QED BY <2>1, SwitchPlaced
<1> HIDE DEF r
<1>8. Frame(k, r, {}) /\ r.state[h] = "Running"
  BY <1>0, <1>1, <1>2, <1>4, <1>7 DEF Frame
<1> QED BY <1>1, <1>4, <1>5, <1>7, <1>8 DEF Runs, SameRun, r, b, m, h, c

LEMMA YieldRuns ==
  ASSUME NEW k, Runs(k, {}), k.curr = k.next
  PROVE  LET r == Yield(k) IN Runs(r, {}) /\ Frame(k, r, {})
<1>1. CASE Yield(k) = k
  BY <1>1 DEF Frame
<1>2. CASE k.ready # <<>> /\
           Yield(k) = Switch(ReadyPut([k EXCEPT !.ready = Tail(@)], k.next), Head(k.ready))
  BY <1>2, HandOverRuns
<1> QED BY <1>1, <1>2 DEF Yield, CanSwitch

\* A thread that is not running leaves its list.
LEMMA UnlistPlaced ==
  ASSUME NEW k, NEW t \in Thread, Runs(k, {}), t # k.next
  PROVE  LET r == Unlist(k, t)
         IN  Runs(r, {t}) /\ SameRun(k, r) /\ r.state = k.state
<1> DEFINE r == Unlist(k, t)
           V == {} \cup {t}
<1>0. V = {t} /\ t \in V /\ k.state[t] # "Running"
  BY DEF Runs, Placed
<1>1. CASE k.state[t] = "Ready"
  <2> DEFINE l == Without(k.ready, t)
  <2>1. k.ready \in Seq(Thread) /\ Distinct(k.ready)
    BY DEF Runs, Typed, Placed
  <2>2. l \in Seq(Thread) /\ ToSet(l) = ToSet(k.ready) \ {t} /\ Distinct(l)
    BY <2>1, WithoutSet
  <2>3. r = [k EXCEPT !.ready = l]
    BY <1>1 DEF Unlist, l, BlockedStates, WaitStates
  <2> HIDE DEF l
  <2>4. /\ r.state = k.state /\ r.ready = l
        /\ r.delay_list = k.delay_list /\ r.wait_list = k.wait_list
        /\ r.delay = k.delay /\ r.next = k.next /\ r.curr = k.curr /\ r.kernel = k.kernel
    BY <2>3 DEF Typed, Runs
  <2>5. Typed(r)
    <3> HIDE DEF r
    <3> QED BY <2>2, <2>3 DEF Typed, Runs
  <2> HIDE DEF r
  <2>6. Placed(r, {t})
    <3>1. "Ready" \notin BlockedStates
      BY DEF BlockedStates, WaitStates
    <3> QED BY <1>1, <2>2, <2>4, <3>1 DEF Placed, Runs
  <2> QED BY <1>0, <2>4, <2>5, <2>6 DEF Runs, SameRun, r
<1>2. CASE k.state[t] \in BlockedStates
  <2>1. r = DelayRemove(k, t)
    BY <1>2 DEF Unlist, BlockedStates, WaitStates
  <2>2. LET q == DelayRemove(k, t)
        IN  Typed(q) /\ Placed(q, V) /\ SameRun(k, q) /\ q.state = k.state
    BY <1>2, DelayRemovePlaced DEF Runs
  <2> HIDE DEF r, V
  <2> QED BY <1>0, <2>1, <2>2 DEF Runs, SameRun, r
<1>3. CASE k.state[t] \notin BlockedStates \cup {"Ready"}
  <2>1. r = k
    BY <1>3 DEF Unlist
  <2>2. Placed(k, V)
    <3>1. Placed(k, {}) /\ k.state[t] \notin BlockedStates \cup {"Ready"}
      BY <1>3 DEF Runs
    <3> QED BY <3>1, Lift
  <2> HIDE DEF V, r
  <2> QED BY <1>0, <2>1, <2>2 DEF Runs, SameRun, r
<1> QED BY <1>1, <1>2, <1>3

\* svcRtxThreadSuspend of the running thread or of another one.
LEMMA SuspendRuns ==
  ASSUME NEW k, NEW t \in Thread, Runs(k, {}), Stoppable(k, t)
  PROVE  LET r == Suspend(k, t)
         IN  Runs(r, {}) /\ Frame(k, r, {t}) /\ r.state[t] = "Blocked"
<1> DEFINE V == {} \cup {t}
           off == IF k.state[t] = "Running" THEN SwitchToReady(k) ELSE Unlist(k, t)
           m == [off EXCEPT !.state[t] = "Blocked"]
           r == DelayInsert(m, t, Forever)
<1>0. V = {t} /\ t \in V /\ V \ {t} = {} /\ k.state \in [Thread -> ThreadState]
  BY DEF Runs, Typed
<1>1. Runs(off, V) /\ Frame(k, off, {t})
  <2>1. CASE k.state[t] = "Running"
    <3>1. Placed(k, V) /\ Typed(k) /\ k.ready # <<>> /\ k.next = t
      BY <2>1, Lift DEF Runs, Stoppable, CanSwitch, Placed, BlockedStates, WaitStates
    <3>2. k.next \in V \/ k.state[k.next] # "Running"
      BY <3>1
    <3> HIDE DEF V
    <3>3. LET q == SwitchToReady(k) IN Runs(q, V) /\ Frame(k, q, {})
      BY <3>1, <3>2, SwitchToReadyRuns
    <3> QED BY <2>1, <3>3 DEF Frame
  <2>2. CASE k.state[t] # "Running"
    <3>1. t # k.next
      BY <2>2 DEF Runs
    <3>2. LET q == Unlist(k, t) IN Runs(q, {t}) /\ q.state = k.state
      BY <3>1, UnlistPlaced
    <3> QED BY <1>0, <2>2, <3>2 DEF Frame
  <2> QED BY <2>1, <2>2
<1>2. Suspend(k, t) = r
  BY DEF Suspend
<1> HIDE DEF off, V
<1>3. /\ Typed(m) /\ Placed(m, V) /\ SameRun(off, m)
      /\ m.state = [off.state EXCEPT ![t] = "Blocked"]
  <2>1. Typed(off) /\ Placed(off, V) /\ t \in V /\ "Blocked" \in ThreadState
    BY <1>0, <1>1 DEF Runs, ThreadState, BlockedStates
  <2> QED BY <2>1, Recast
<1> HIDE DEF m
<1>4. off.state \in [Thread -> ThreadState]
  BY <1>1 DEF Runs, Typed
<1>5. /\ Typed(r) /\ Placed(r, V \ {t}) /\ SameRun(m, r) /\ r.state = m.state
  <2>1. /\ Typed(m) /\ Placed(m, V) /\ t \in V /\ m.state[t] \in BlockedStates
        /\ m.state[t] # "WaitingJoin"
    BY <1>0, <1>3, <1>4 DEF BlockedStates
  <2> HIDE DEF r
  <2>2. LET q == DelayInsert(m, t, Forever)
        IN  Typed(q) /\ Placed(q, V \ {t}) /\ SameRun(m, q) /\ q.state = m.state
    BY <2>1, DelayInsertPlaced
  <2> QED BY <2>2 DEF r
<1> HIDE DEF r
<1>6. r.next = off.next /\ off.next # t
  BY <1>0, <1>1, <1>3, <1>5 DEF Runs, SameRun
<1>7. r.state[r.next] = "Running"
  BY <1>1, <1>3, <1>4, <1>5, <1>6 DEF Runs
<1>8. Frame(k, r, {t}) /\ r.state[t] = "Blocked"
  BY <1>1, <1>3, <1>4, <1>5 DEF Frame
<1> QED BY <1>0, <1>2, <1>5, <1>7, <1>8 DEF Runs

\* q with a new priority of t, which finds its place again if it is ready.
Reranked(q, t, p) ==
  LET raised == [q EXCEPT !.priority[t] = p]
  IN  [raised EXCEPT !.ready = ListSort(raised, @, t)]

LEMMA RerankedRuns ==
  ASSUME NEW k, NEW t \in Thread, NEW p \in Nat, Runs(k, {})
  PROVE  LET r == Reranked(k, t, p)
         IN  /\ Runs(r, {}) /\ SameRun(k, r) /\ r.state = k.state
             /\ ToSet(r.ready) = ToSet(k.ready)
<1> DEFINE raised == [k EXCEPT !.priority[t] = p]
           l == ListSort(raised, k.ready, t)
           m == [raised EXCEPT !.ready = l]
<1>1. /\ raised.ready = k.ready /\ raised.state = k.state
      /\ raised.delay_list = k.delay_list /\ raised.wait_list = k.wait_list
      /\ raised.delay = k.delay /\ raised.next = k.next /\ raised.curr = k.curr
      /\ raised.kernel = k.kernel /\ Typed(raised)
  BY DEF Runs, Typed
<1>2. Reranked(k, t, p) = m
  BY <1>1 DEF Reranked
<1> HIDE DEF raised
<1>3. k.ready \in Seq(Thread) /\ Distinct(k.ready)
  BY DEF Runs, Typed, Placed
<1>4. l \in Seq(Thread) /\ ToSet(l) = ToSet(k.ready) /\ Distinct(l)
  <2>1. CASE t \notin ToSet(k.ready)
    BY <1>3, <2>1 DEF ListSort
  <2>2. CASE t \in ToSet(k.ready)
    <3> DEFINE w == Without(k.ready, t)
               i == PastPrefix(w, {u \in Thread : raised.priority[u] >= raised.priority[t]})
    <3>1. w \in Seq(Thread) /\ ToSet(w) = ToSet(k.ready) \ {t} /\ Distinct(w)
      BY <1>3, WithoutSet
    <3>2. l = InsertAt(w, i, t)
      BY <2>2 DEF ListSort, ListPut
    <3> HIDE DEF w, l
    <3>3. i \in 1 .. Len(w) + 1
      BY <3>1, PastPrefixIndex
    <3> HIDE DEF i
    <3>4. t \notin ToSet(w) /\ ToSet(w) \cup {t} = ToSet(k.ready)
      BY <2>2, <3>1
    <3> QED BY <3>1, <3>2, <3>3, <3>4, InsertSet
  <2> QED BY <2>1, <2>2
<1> HIDE DEF l
<1>5. /\ m.ready = l /\ m.state = k.state
      /\ m.delay_list = k.delay_list /\ m.wait_list = k.wait_list
      /\ m.delay = k.delay /\ m.next = k.next /\ m.curr = k.curr
      /\ m.kernel = k.kernel /\ Typed(m)
  BY <1>1, <1>4 DEF Typed
<1> HIDE DEF m
<1>6. Runs(m, {}) /\ SameRun(k, m)
  BY <1>4, <1>5 DEF Runs, Placed, SameRun
<1> QED BY <1>2, <1>4, <1>5, <1>6

\* svcRtxThreadSetPriority: the thread is taken from the ready list and put
\* back, if it was there.
LEMMA SetPriorityRuns ==
  ASSUME NEW k, NEW t \in Thread, NEW p \in Nat, Runs(k, {}), k.curr = k.next
  PROVE  LET r == SetPriority(k, t, p) IN Runs(r, {}) /\ Frame(k, r, {})
<1> DEFINE m == Reranked(k, t, p)
           r == Dispatch(m)
<1>1. Runs(m, {}) /\ SameRun(k, m) /\ m.state = k.state
  BY RerankedRuns
<1>2. SetPriority(k, t, p) = r
  BY DEF SetPriority, Reranked
<1> HIDE DEF m
<1>3. m.curr = m.next
  BY <1>1 DEF SameRun
<1>4. Runs(r, {}) /\ Frame(m, r, {})
  BY <1>1, <1>3, DispatchRuns
<1> HIDE DEF r
<1> QED BY <1>1, <1>2, <1>4 DEF Frame

---------------------------------------------------------------------------
\* The tick

LEMMA CountDownRuns ==
  ASSUME NEW k, Runs(k, {})
  PROVE  LET r == CountDown(k) IN Runs(r, {}) /\ SameRun(k, r) /\ r.state = k.state
<1> DEFINE d == [t \in Thread |-> IF t \in ToSet(k.delay_list)
                                  THEN k.delay[t] - 1 ELSE k.delay[t]]
           r == [k EXCEPT !.delay = d]
<1>1. \A t \in Thread : t \in ToSet(k.delay_list) => k.delay[t] \in Int
  BY DEF Runs, Typed, Placed
<1>2. /\ d \in [Thread -> Int \cup {Forever}]
      /\ \A t \in Thread : d[t] = Forever <=> k.delay[t] = Forever
  BY <1>1, SchedulerAssumption DEF Runs, Typed
<1>3. CountDown(k) = r
  BY DEF CountDown
<1> HIDE DEF d
<1>4. /\ r.state = k.state /\ r.ready = k.ready
      /\ r.delay_list = k.delay_list /\ r.wait_list = k.wait_list
      /\ r.delay = d /\ r.next = k.next /\ r.curr = k.curr /\ r.kernel = k.kernel
  BY DEF Runs, Typed
<1>5. Typed(r)
  BY <1>2 DEF Runs, Typed
<1> HIDE DEF r
<1>6. Placed(r, {})
  BY <1>2, <1>4 DEF Runs, Placed
<1> QED BY <1>3, <1>4, <1>5, <1>6 DEF Runs, SameRun

LEMMA ReleaseHeadRuns ==
  ASSUME NEW k, Runs(k, {}), k.delay_list # <<>>
  PROVE  LET r == ReleaseHead(k)
             h == Head(k.delay_list)
         IN  /\ Runs(r, {}) /\ SameRun(k, r)
             /\ h \in Thread /\ k.state[h] \in BlockedStates \ {"WaitingJoin"}
             /\ r.state = [k.state EXCEPT ![h] = "Ready"]
<1> DEFINE h == Head(k.delay_list)
           l == Tail(k.delay_list)
           m == [k EXCEPT !.delay_list = l]
           r == ReadyPut(m, h)
           V == {h}
<1>1. k.delay_list \in Seq(Thread) /\ Distinct(k.delay_list)
  BY DEF Runs, Typed, Placed
<1>2. /\ l \in Seq(Thread) /\ h \in ToSet(k.delay_list)
      /\ ToSet(l) = ToSet(k.delay_list) \ {h} /\ Distinct(l) /\ h \in Thread
  BY <1>1, TailSet
<1>3. ReleaseHead(k) = r
  BY DEF ReleaseHead
<1> HIDE DEF h, l
<1>4. k.state[h] \in BlockedStates \ {"WaitingJoin"} /\ k.state[h] # "Running"
  BY <1>2 DEF Runs, Placed, BlockedStates, WaitStates
<1>5. /\ m.state = k.state /\ m.ready = k.ready
      /\ m.delay_list = l /\ m.wait_list = k.wait_list
      /\ m.delay = k.delay /\ m.next = k.next /\ m.curr = k.curr /\ m.kernel = k.kernel
  BY DEF Runs, Typed
<1>6. Typed(m)
  BY <1>2 DEF Runs, Typed
<1> HIDE DEF m
<1>7. Placed(m, V)
  <2>1. k.state[h] # "Ready"
    BY <1>4 DEF BlockedStates, WaitStates
  <2>2. h \notin ToSet(k.wait_list)
    BY <1>2 DEF Runs, Placed
  <2> QED BY <1>2, <1>4, <1>5, <2>1, <2>2 DEF Runs, Placed
<1>8. V \ {h} = {} /\ h \in V
  OBVIOUS
<1> HIDE DEF V
<1>9. /\ Typed(r) /\ Placed(r, V \ {h}) /\ SameRun(m, r)
      /\ r.state = [m.state EXCEPT ![h] = "Ready"]
  BY <1>2, <1>6, <1>7, <1>8, ReadyPutPlaced
<1> HIDE DEF r
<1>10. r.state[r.next] = "Running"
  BY <1>4, <1>5, <1>9 DEF Runs, SameRun, Typed
<1> QED BY <1>2, <1>3, <1>4, <1>5, <1>8, <1>9, <1>10 DEF Runs, SameRun, h

LEMMA RoundRobinRuns ==
  ASSUME NEW k, Runs(k, {})
  PROVE  LET r == RoundRobin(k) IN Runs(r, {}) /\ Frame(k, r, {})
<1> DEFINE h == Head(k.ready)
           d == SliceLeft(k)
           m == NewSlice(k, d)
           n == Switch(ReadyPut([m EXCEPT !.ready = Tail(@)], m.next), Head(m.ready))
           r == NewSlice(n, RobinTimeout)
<1>1. d \in Int
  <2>1. k.next \in Thread /\ k.state[k.next] \notin BlockedStates
    BY DEF Runs, Typed, BlockedStates, WaitStates
  <2>2. k.delay[k.next] \in Int
    BY <2>1 DEF Runs, Typed, Placed
  <2> QED BY <2>2, SchedulerAssumption DEF SliceLeft
<1> HIDE DEF d
<1>2. Runs(m, {}) /\ SameRun(k, m) /\ m.state = k.state /\ m.ready = k.ready
  BY <1>1, SliceRuns
<1>3. [k EXCEPT !.robin = k.next, !.delay[k.next] = d] = m
  BY DEF NewSlice
<1> HIDE DEF m
<1>4. CASE k.ready # <<>>
  <2>1. Runs(n, {}) /\ Frame(m, n, {}) /\ n.next = h
    BY <1>2, <1>4, HandOverRuns
  <2>2. r = [n EXCEPT !.robin = h, !.delay[h] = RobinTimeout]
    <3> HIDE DEF n, h
    <3> QED BY <2>1 DEF NewSlice
  <2>3. n = Switch(ReadyPut([m EXCEPT !.ready = Tail(@)], k.next), h)
    BY <1>2 DEF SameRun
  <2>4. RoundRobin(k) \in {k, m, r}
    <3> HIDE DEF n, h, r
    <3> QED BY <1>3, <2>2, <2>3 DEF RoundRobin, d, h
  <2> HIDE DEF n
  <2>5. Runs(r, {}) /\ r.state = n.state
    BY <2>1, SliceRuns, SchedulerAssumption
  <2> HIDE DEF r
  <2> QED BY <1>2, <2>1, <2>4, <2>5 DEF Frame
<1>5. CASE k.ready = <<>>
  <2>1. RoundRobin(k) \in {k, m}
    BY <1>3, <1>5 DEF RoundRobin, CanSwitch, d
  <2> QED BY <1>2, <2>1 DEF Frame
<1> QED BY <1>4, <1>5

---------------------------------------------------------------------------
\* Ordered lists

Ascends(list, rank) ==
  \A i, j \in DOMAIN list : i < j => rank[list[i]] <= rank[list[j]]

LEMMA InsertAscends ==
  ASSUME NEW list \in Seq(Thread), NEW rank \in [Thread -> Int], Ascends(list, rank),
         NEW t \in Thread, NEW i \in 1 .. Len(list) + 1,
         \A j \in 1 .. Len(list) : /\ j < i => rank[list[j]] <= rank[t]
                                   /\ j >= i => rank[t] <= rank[list[j]]
  PROVE  Ascends(InsertAt(list, i, t), rank)
<1> DEFINE r == InsertAt(list, i, t)
<1>1. /\ Len(list) \in Nat /\ DOMAIN list = 1 .. Len(list)
      /\ r \in Seq(Thread) /\ Len(r) = Len(list) + 1
      /\ \A j \in 1 .. Len(list) + 1 :
           r[j] = IF j < i THEN list[j] ELSE IF j = i THEN t ELSE list[j - 1]
  BY InsertAtIndex
<1> HIDE DEF r
<1>2. DOMAIN r = 1 .. Len(list) + 1
  BY <1>1
<1> SUFFICES ASSUME NEW a \in 1 .. Len(list) + 1, NEW b \in 1 .. Len(list) + 1, a < b
             PROVE  rank[r[a]] <= rank[r[b]]
  BY <1>2 DEF Ascends, r
<1>3. \A j \in 1 .. Len(list) : list[j] \in Thread /\ rank[list[j]] \in Int
  OBVIOUS
<1>4. \A x, y \in 1 .. Len(list) : x < y => rank[list[x]] <= rank[list[y]]
  BY <1>1 DEF Ascends
<1>5. Len(list) \in Nat /\ a \in 1 .. Len(list) + 1 /\ b \in 1 .. Len(list) + 1
      /\ i \in 1 .. Len(list) + 1 /\ a < b
  BY <1>1
<1>6. CASE b < i
  <2>1. a \in 1 .. Len(list) /\ b \in 1 .. Len(list) /\ r[a] = list[a] /\ r[b] = list[b]
    BY <1>1, <1>6
  <2> QED BY <1>1, <2>1 DEF Ascends
<1>7. CASE b = i
  <2>1. a \in 1 .. Len(list) /\ r[a] = list[a] /\ r[b] = t
    BY <1>1, <1>7
  <2> QED BY <1>7, <2>1
<1>8. CASE b > i
  <2>1. b - 1 \in 1 .. Len(list) /\ b - 1 >= i /\ r[b] = list[b - 1]
    BY <1>1, <1>8
  <2>2. CASE a < i
    <3>1. a \in 1 .. Len(list) /\ a < b - 1
      BY <1>8, <1>5, <2>2
    <3>2. rank[list[a]] <= rank[list[b - 1]]
      BY <1>4, <2>1, <3>1
    <3>3. r[a] = list[a]
      BY <1>1, <2>2
    <3> QED BY <2>1, <3>2, <3>3
  <2>3. CASE a = i
    <3>1. r[a] = t
      BY <1>1, <2>3
    <3> QED BY <2>1, <3>1
  <2>4. CASE a > i
    <3>1. a - 1 \in 1 .. Len(list) /\ a - 1 < b - 1
      BY <1>5, <2>4
    <3>2. rank[list[a - 1]] <= rank[list[b - 1]]
      BY <1>4, <2>1, <3>1
    <3>3. r[a] = list[a - 1]
      BY <1>1, <1>5, <2>4
    <3> QED BY <2>1, <3>2, <3>3
  <2> QED BY <2>2, <2>3, <2>4
<1> QED BY <1>6, <1>7, <1>8

\* The loops that look for the place of t stop in front of the first thread of
\* a higher rank.
LEMMA PlaceAscends ==
  ASSUME NEW list \in Seq(Thread), NEW rank \in [Thread -> Int], Ascends(list, rank),
         NEW t \in Thread, NEW S,
         \A u \in ToSet(list) : /\ u \in S => rank[u] <= rank[t]
                                /\ u \notin S => rank[t] <= rank[u]
  PROVE  LET r == InsertAt(list, PastPrefix(list, S), t)
         IN  /\ r \in Seq(Thread) /\ r # <<>> /\ ToSet(r) = ToSet(list) \cup {t}
             /\ Ascends(r, rank)
<1> DEFINE p == PastPrefix(list, S)
<1>1. /\ p \in 1 .. Len(list) + 1
      /\ \A j \in 1 .. p - 1 : list[j] \in S
      /\ p <= Len(list) => list[p] \notin S
  BY PastPrefixIndex
<1> HIDE DEF p
<1>2. /\ Len(list) \in Nat /\ DOMAIN list = 1 .. Len(list)
      /\ \A j \in 1 .. Len(list) : list[j] \in ToSet(list) /\ list[j] \in Thread
  BY DEF ToSet
<1>3. ASSUME NEW j \in 1 .. Len(list), j < p PROVE rank[list[j]] <= rank[t]
  <2>1. j \in 1 .. p - 1
    BY <1>1, <1>2, <1>3
  <2> QED BY <1>1, <1>2, <2>1
<1>4. ASSUME NEW j \in 1 .. Len(list), j >= p PROVE rank[t] <= rank[list[j]]
  <2>1. p \in 1 .. Len(list) /\ rank[t] <= rank[list[p]]
    BY <1>1, <1>2, <1>4
  <2>2. rank[list[p]] <= rank[list[j]]
    <3>1. CASE p = j
      BY <1>2, <3>1
    <3>2. CASE p < j
      BY <1>2, <2>1, <3>2 DEF Ascends
    <3> QED BY <1>1, <1>4, <3>1, <3>2
  <2>3. rank[t] \in Int /\ rank[list[p]] \in Int /\ rank[list[j]] \in Int
    BY <1>2, <2>1
  <2> QED BY <2>1, <2>2, <2>3
<1>5. Ascends(InsertAt(list, p, t), rank)
  BY <1>1, <1>3, <1>4, InsertAscends
<1>6. /\ InsertAt(list, p, t) \in Seq(Thread)
      /\ ToSet(InsertAt(list, p, t)) = ToSet(list) \cup {t}
  BY <1>1, InsertSet
<1>7. InsertAt(list, p, t) # <<>>
  <2>1. ToSet(<<>>) = {}
    BY DEF ToSet
  <2> QED BY <1>6, <2>1
<1> QED BY <1>5, <1>6, <1>7 DEF p

LEMMA WithoutAscends ==
  ASSUME NEW list \in Seq(Thread), NEW rank \in [Thread -> Int], Ascends(list, rank),
         NEW t \in Thread
  PROVE  Without(list, t) \in Seq(Thread) /\ Ascends(Without(list, t), rank)
<1>1. CASE t \notin ToSet(list)
  BY <1>1 DEF Without
<1>2. CASE t \in ToSet(list)
  <2> DEFINE i == CHOOSE i \in DOMAIN list : list[i] = t
             r == RemoveAt(list, i)
  <2>1. i \in DOMAIN list
    BY <1>2 DEF ToSet
  <2>2. Without(list, t) = r
    BY <1>2 DEF Without
  <2> HIDE DEF i
  <2>3. i \in 1 .. Len(list) /\ Len(list) \in Nat /\ DOMAIN list = 1 .. Len(list)
    BY <2>1
  <2>4. /\ r \in Seq(Thread) /\ Len(r) = Len(list) - 1
        /\ \A j \in 1 .. Len(list) - 1 : r[j] = IF j < i THEN list[j] ELSE list[j + 1]
    BY <2>3, RemoveAtIndex
  <2> HIDE DEF r
  <2>5. ASSUME NEW a \in 1 .. Len(list) - 1, NEW b \in 1 .. Len(list) - 1, a < b
        PROVE  rank[r[a]] <= rank[r[b]]
    <3> DEFINE x == IF a < i THEN a ELSE a + 1
               y == IF b < i THEN b ELSE b + 1
    <3>1. x \in 1 .. Len(list) /\ y \in 1 .. Len(list) /\ x < y
      BY <2>3, <2>5
    <3>2. r[a] = list[x] /\ r[b] = list[y]
      BY <2>4
    <3> HIDE DEF x, y
    <3>3. rank[list[x]] <= rank[list[y]]
      BY <2>3, <3>1 DEF Ascends
    <3> QED BY <3>2, <3>3
  <2>6. DOMAIN r = 1 .. Len(list) - 1
    BY <2>4
  <2> QED BY <2>2, <2>4, <2>5, <2>6 DEF Ascends
<1> QED BY <1>1, <1>2

LEMMA TailAscends ==
  ASSUME NEW list \in Seq(Thread), list # <<>>, NEW rank \in [Thread -> Int],
         Ascends(list, rank)
  PROVE  /\ Tail(list) \in Seq(Thread) /\ Head(list) \in Thread
         /\ Head(list) \in ToSet(list) /\ ToSet(Tail(list)) \subseteq ToSet(list)
         /\ Ascends(Tail(list), rank)
         /\ \A u \in ToSet(list) : rank[Head(list)] <= rank[u]
<1>1. /\ Len(list) \in Nat \ {0} /\ DOMAIN list = 1 .. Len(list) /\ Head(list) = list[1]
      /\ Tail(list) \in Seq(Thread) /\ Len(Tail(list)) = Len(list) - 1
      /\ DOMAIN Tail(list) = 1 .. Len(list) - 1
      /\ \A i \in 1 .. Len(list) - 1 : Tail(list)[i] = list[i + 1]
  BY HeadTailProperties
<1>2. ASSUME NEW a \in 1 .. Len(list) - 1, NEW b \in 1 .. Len(list) - 1, a < b
      PROVE  rank[Tail(list)[a]] <= rank[Tail(list)[b]]
  <2>1. a + 1 \in 1 .. Len(list) /\ b + 1 \in 1 .. Len(list) /\ a + 1 < b + 1
    BY <1>1, <1>2
  <2> QED BY <1>1, <2>1 DEF Ascends
<1>3. ASSUME NEW i \in 1 .. Len(list) PROVE rank[list[1]] <= rank[list[i]]
  <2>1. CASE i = 1
    BY <1>1, <2>1
  <2>2. CASE i > 1
    <3>1. 1 \in 1 .. Len(list)
      BY <1>1
    <3> QED BY <1>1, <2>2, <3>1 DEF Ascends
  <2> QED BY <1>1, <2>1, <2>2
<1>4. Ascends(Tail(list), rank)
  BY <1>1, <1>2 DEF Ascends
<1>5. ToSet(list) = {list[i] : i \in 1 .. Len(list)}
  BY <1>1 DEF ToSet
<1>6. Head(list) \in ToSet(list) /\ Head(list) \in Thread
  <2>1. 1 \in 1 .. Len(list)
    BY <1>1
  <2> QED BY <1>1, <1>5, <2>1
<1>7. ToSet(Tail(list)) \subseteq ToSet(list)
  <2>1. \A i \in 1 .. Len(list) - 1 : i + 1 \in 1 .. Len(list)
    BY <1>1
  <2>2. ToSet(Tail(list)) = {Tail(list)[i] : i \in 1 .. Len(list) - 1}
    BY <1>1 DEF ToSet
  <2> QED BY <1>1, <1>5, <2>1, <2>2
<1> QED BY <1>1, <1>3, <1>4, <1>5, <1>6, <1>7

\* Only the ranks of the threads in the list count.
LEMMA SameAscends ==
  ASSUME NEW list \in Seq(Thread), NEW rank, NEW other, Ascends(list, rank),
         \A u \in ToSet(list) : other[u] = rank[u]
  PROVE  Ascends(list, other)
BY DEF Ascends, ToSet

---------------------------------------------------------------------------
\* Ordered schedulers

Urgency(q) == [t \in Thread |-> 0 - q.priority[t]]
Due(q) == [t \in Thread |-> IF q.delay[t] = Forever THEN 0 ELSE q.delay[t]]

\* Both lists are ordered, and every thread of the delay list has at least low
\* ticks left: one, except in the middle of a tick.
Sorted(q, low) ==
  /\ Typed(q) /\ Distinct(q.delay_list)
  /\ Ascends(q.ready, Urgency(q))
  /\ Ascends(q.delay_list, Due(q))
  /\ \A t \in Thread : q.delay[t] \in Nat \cup {Forever}
  /\ \A t \in ToSet(q.delay_list) : q.delay[t] # Forever /\ q.delay[t] >= low

SameDelays(q, r) ==
  r.priority = q.priority /\ r.delay = q.delay /\ r.delay_list = q.delay_list

LEMMA RankTypes ==
  ASSUME NEW q, Typed(q)
  PROVE  /\ Urgency(q) \in [Thread -> Int] /\ Due(q) \in [Thread -> Int]
         /\ q.ready \in Seq(Thread) /\ q.delay_list \in Seq(Thread)
         /\ q.wait_list \in Seq(Thread)
         /\ q.curr \in Thread /\ q.next \in Thread
         /\ q.state \in [Thread -> ThreadState] /\ q.priority \in [Thread -> Nat]
         /\ q.delay \in [Thread -> Int \cup {Forever}]
BY DEF Typed, Urgency, Due

\* A step that leaves the delays alone.
LEMMA Relisted ==
  ASSUME NEW q, NEW low, Sorted(q, low), NEW r, Typed(r), SameDelays(q, r),
         Ascends(r.ready, Urgency(q))
  PROVE  Sorted(r, low)
<1>1. Urgency(r) = Urgency(q) /\ Due(r) = Due(q)
  BY DEF SameDelays, Urgency, Due
<1> QED BY <1>1 DEF Sorted, SameDelays

\* A ready thread is inserted behind those of a set that separates the list.
LEMMA InsertSorted ==
  ASSUME NEW q, NEW low, Sorted(q, low), NEW t \in Thread, NEW S,
         \A u \in Thread : /\ u \in S => q.priority[u] >= q.priority[t]
                           /\ u \notin S => q.priority[u] <= q.priority[t]
  PROVE  LET r == [q EXCEPT !.state[t] = "Ready",
                            !.ready = InsertAt(@, PastPrefix(q.ready, S), t)]
         IN  /\ Sorted(r, low) /\ SameDelays(q, r) /\ SameRun(q, r)
             /\ r.ready # <<>> /\ ToSet(r.ready) = ToSet(q.ready) \cup {t}
<1> DEFINE l == InsertAt(q.ready, PastPrefix(q.ready, S), t)
           st == [q.state EXCEPT ![t] = "Ready"]
           r == [q EXCEPT !.state[t] = "Ready",
                          !.ready = InsertAt(@, PastPrefix(q.ready, S), t)]
           rank == Urgency(q)
<1>1. /\ Typed(q) /\ q.ready \in Seq(Thread) /\ rank \in [Thread -> Int]
      /\ Ascends(q.ready, rank) /\ q.state \in [Thread -> ThreadState]
      /\ q.priority \in [Thread -> Nat]
  BY RankTypes DEF Sorted
<1>2. \A u \in ToSet(q.ready) : /\ u \in S => rank[u] <= rank[t]
                                /\ u \notin S => rank[t] <= rank[u]
  <2>1. \A u \in ToSet(q.ready) : u \in Thread
    BY <1>1 DEF ToSet
  <2>2. \A u \in Thread : rank[u] = 0 - q.priority[u] /\ q.priority[u] \in Nat
    BY <1>1 DEF Urgency
  <2> QED BY <2>1, <2>2
<1> HIDE DEF rank
<1>3. /\ l \in Seq(Thread) /\ l # <<>> /\ Ascends(l, rank)
      /\ ToSet(l) = ToSet(q.ready) \cup {t}
  BY <1>1, <1>2, PlaceAscends
<1>4. r = [q EXCEPT !.state = st, !.ready = l]
  BY <1>1 DEF Typed
<1>5. st \in [Thread -> ThreadState]
  BY <1>1 DEF ThreadState
<1> HIDE DEF l, st, r
<1>6. /\ Typed(r) /\ SameDelays(q, r) /\ r.ready = l /\ SameRun(q, r)
  BY <1>1, <1>3, <1>4, <1>5 DEF Typed, SameDelays, SameRun
<1>7. Sorted(r, low)
  BY <1>3, <1>6, Relisted DEF rank
<1> QED BY <1>3, <1>6, <1>7 DEF r

LEMMA ReadyPutSorted ==
  ASSUME NEW q, NEW low, Sorted(q, low), NEW t \in Thread
  PROVE  LET r == ReadyPut(q, t)
         IN  /\ Sorted(r, low) /\ SameDelays(q, r) /\ SameRun(q, r)
             /\ r.ready # <<>> /\ ToSet(r.ready) = ToSet(q.ready) \cup {t}
<1> DEFINE S == {u \in Thread : q.priority[u] >= q.priority[t]}
<1>1. \A u \in Thread : /\ u \in S => q.priority[u] >= q.priority[t]
                        /\ u \notin S => q.priority[u] <= q.priority[t]
  <2>1. \A u \in Thread : q.priority[u] \in Nat
    BY RankTypes DEF Sorted
  <2> QED BY <2>1
<1>2. ReadyPut(q, t) = [q EXCEPT !.state[t] = "Ready",
                                 !.ready = InsertAt(@, PastPrefix(q.ready, S), t)]
  BY DEF ReadyPut, ListPut
<1> HIDE DEF S
<1> DEFINE r == [q EXCEPT !.state[t] = "Ready",
                          !.ready = InsertAt(@, PastPrefix(q.ready, S), t)]
<1>3. /\ Sorted(r, low) /\ SameDelays(q, r) /\ SameRun(q, r)
      /\ r.ready # <<>> /\ ToSet(r.ready) = ToSet(q.ready) \cup {t}
  BY <1>1, InsertSorted
<1> QED BY <1>2, <1>3

LEMMA BlockSorted ==
  ASSUME NEW q, NEW low, Sorted(q, low), NEW t \in Thread
  PROVE  LET r == Block(q, t)
         IN  /\ Sorted(r, low) /\ SameDelays(q, r) /\ SameRun(q, r)
             /\ ToSet(r.ready) = ToSet(q.ready) \cup {t}
<1> DEFINE S == {u \in Thread : q.priority[u] > q.priority[t]}
<1>1. \A u \in Thread : /\ u \in S => q.priority[u] >= q.priority[t]
                        /\ u \notin S => q.priority[u] <= q.priority[t]
  <2>1. \A u \in Thread : q.priority[u] \in Nat
    BY RankTypes DEF Sorted
  <2> QED BY <2>1
<1>2. Block(q, t) = [q EXCEPT !.state[t] = "Ready",
                              !.ready = InsertAt(@, PastPrefix(q.ready, S), t)]
  BY DEF Block
<1> HIDE DEF S
<1> DEFINE r == [q EXCEPT !.state[t] = "Ready",
                          !.ready = InsertAt(@, PastPrefix(q.ready, S), t)]
<1>3. /\ Sorted(r, low) /\ SameDelays(q, r) /\ SameRun(q, r)
      /\ r.ready # <<>> /\ ToSet(r.ready) = ToSet(q.ready) \cup {t}
  BY <1>1, InsertSorted
<1> QED BY <1>2, <1>3

LEMMA TakeHeadSorted ==
  ASSUME NEW q, NEW low, Sorted(q, low), q.ready # <<>>
  PROVE  LET r == [q EXCEPT !.ready = Tail(@)]
         IN  /\ Sorted(r, low) /\ SameDelays(q, r) /\ SameRun(q, r)
             /\ Head(q.ready) \in Thread
<1> DEFINE l == Tail(q.ready)
           r == [q EXCEPT !.ready = Tail(@)]
           rank == Urgency(q)
<1>1. /\ Typed(q) /\ q.ready \in Seq(Thread) /\ rank \in [Thread -> Int]
      /\ Ascends(q.ready, rank)
  BY RankTypes DEF Sorted
<1> HIDE DEF rank
<1>2. l \in Seq(Thread) /\ Ascends(l, rank) /\ Head(q.ready) \in Thread
  BY <1>1, TailAscends
<1>3. r = [q EXCEPT !.ready = l]
  OBVIOUS
<1> HIDE DEF l, r
<1>4. Typed(r) /\ SameDelays(q, r) /\ r.ready = l /\ SameRun(q, r)
  BY <1>1, <1>2, <1>3 DEF Typed, SameDelays, SameRun
<1>5. Sorted(r, low)
  BY <1>2, <1>4, Relisted DEF rank
<1> QED BY <1>2, <1>4, <1>5 DEF r

LEMMA RestateSorted ==
  ASSUME NEW q, NEW low, Sorted(q, low), NEW t \in Thread, NEW s \in ThreadState
  PROVE  LET r == [q EXCEPT !.state[t] = s]
         IN  /\ Sorted(r, low) /\ SameDelays(q, r) /\ r.ready = q.ready
             /\ SameRun(q, r)
<1> DEFINE st == [q.state EXCEPT ![t] = s]
           r == [q EXCEPT !.state[t] = s]
<1>1. Typed(q) /\ q.state \in [Thread -> ThreadState] /\ Ascends(q.ready, Urgency(q))
  BY RankTypes DEF Sorted
<1>2. st \in [Thread -> ThreadState]
  BY <1>1
<1>3. r = [q EXCEPT !.state = st]
  BY <1>1 DEF Typed
<1> HIDE DEF st, r
<1>4. Typed(r) /\ SameDelays(q, r) /\ r.ready = q.ready /\ SameRun(q, r)
  BY <1>1, <1>2, <1>3 DEF Typed, SameDelays, SameRun
<1>5. Sorted(r, low)
  BY <1>1, <1>4, Relisted
<1> QED BY <1>4, <1>5 DEF r

LEMMA SwitchSorted ==
  ASSUME NEW q, NEW low, Sorted(q, low), NEW t \in Thread
  PROVE  LET r == Switch(q, t)
         IN  /\ Sorted(r, low) /\ SameDelays(q, r) /\ r.ready = q.ready
             /\ r.next = t
<1> DEFINE st == [q.state EXCEPT ![t] = "Running"]
           r == Switch(q, t)
<1>1. Typed(q) /\ q.state \in [Thread -> ThreadState] /\ Ascends(q.ready, Urgency(q))
  BY RankTypes DEF Sorted
<1>2. st \in [Thread -> ThreadState]
  BY <1>1 DEF ThreadState
<1>3. r = [q EXCEPT !.state = st, !.next = t]
  BY <1>1 DEF Typed, Switch
<1> HIDE DEF st, r
<1>4. Typed(r) /\ SameDelays(q, r) /\ r.ready = q.ready /\ r.next = t
  BY <1>1, <1>2, <1>3 DEF Typed, SameDelays
<1>5. Sorted(r, low)
  BY <1>1, <1>4, Relisted
<1> QED BY <1>4, <1>5 DEF r

---------------------------------------------------------------------------
\* Dispatching

LEMMA SwitchToReadySorted ==
  ASSUME NEW q, NEW low, Sorted(q, low), q.ready # <<>>
  PROVE  LET r == SwitchToReady(q) IN Sorted(r, low) /\ SameDelays(q, r)
<1> DEFINE m == [q EXCEPT !.ready = Tail(@)]
           h == Head(q.ready)
<1>1. Sorted(m, low) /\ SameDelays(q, m) /\ h \in Thread
  BY TakeHeadSorted
<1>2. SwitchToReady(q) = Switch(m, h)
  BY DEF SwitchToReady
<1> HIDE DEF m, h
<1>3. Sorted(Switch(m, h), low) /\ SameDelays(m, Switch(m, h))
  BY <1>1, SwitchSorted
<1> QED BY <1>1, <1>2, <1>3 DEF SameDelays

\* A thread takes the processor from the one at the head of the ready list.
LEMMA DispatchSorted ==
  ASSUME NEW q, NEW low, Sorted(q, low)
  PROVE  LET r == Dispatch(q) IN Sorted(r, low) /\ SameDelays(q, r)
<1> DEFINE m == [q EXCEPT !.ready = Tail(@)]
           h == Head(q.ready)
           b == Block(m, q.curr)
<1>1. CASE Dispatch(q) = q
  BY <1>1 DEF SameDelays
<1>2. CASE q.ready # <<>> /\ Dispatch(q) = Switch(b, h)
  <2>1. Sorted(m, low) /\ SameDelays(q, m) /\ h \in Thread /\ q.curr \in Thread
    BY <1>2, TakeHeadSorted, RankTypes DEF Sorted
  <2> HIDE DEF m, h
  <2>2. Sorted(b, low) /\ SameDelays(m, b)
    BY <2>1, BlockSorted
  <2> HIDE DEF b
  <2>3. Sorted(Switch(b, h), low) /\ SameDelays(b, Switch(b, h))
    BY <2>1, <2>2, SwitchSorted
  <2> QED BY <1>2, <2>1, <2>2, <2>3 DEF SameDelays
<1> QED BY <1>1, <1>2 DEF Dispatch

LEMMA DispatchThreadSorted ==
  ASSUME NEW q, NEW low, Sorted(q, low), NEW t \in Thread
  PROVE  LET r == DispatchThread(q, t) IN Sorted(r, low) /\ SameDelays(q, r)
<1> DEFINE b == Block(q, q.curr)
<1>1. CASE DispatchThread(q, t) = ReadyPut(q, t)
  BY <1>1, ReadyPutSorted
<1>2. CASE DispatchThread(q, t) = Switch(b, t)
  <2>1. q.curr \in Thread
    BY RankTypes DEF Sorted
  <2>2. Sorted(b, low) /\ SameDelays(q, b)
    BY <2>1, BlockSorted
  <2> HIDE DEF b
  <2>3. Sorted(Switch(b, t), low) /\ SameDelays(b, Switch(b, t))
    BY <2>2, SwitchSorted
  <2> QED BY <1>2, <2>2, <2>3 DEF SameDelays
<1> QED BY <1>1, <1>2 DEF DispatchThread

\* The elected thread goes behind its equals and the head takes over.
LEMMA HandOverSorted ==
  ASSUME NEW q, NEW low, Sorted(q, low), NEW c \in Thread, q.ready # <<>>
  PROVE  LET h == Head(q.ready)
             r == Switch(ReadyPut([q EXCEPT !.ready = Tail(@)], c), h)
         IN  Sorted(r, low) /\ SameDelays(q, r) /\ r.next = h /\ h \in Thread
<1> DEFINE m == [q EXCEPT !.ready = Tail(@)]
           h == Head(q.ready)
           b == ReadyPut(m, c)
<1>1. Sorted(m, low) /\ SameDelays(q, m) /\ h \in Thread
  BY TakeHeadSorted
<1> HIDE DEF m, h
<1>2. Sorted(b, low) /\ SameDelays(m, b)
  BY <1>1, ReadyPutSorted
<1> HIDE DEF b
<1>3. Sorted(Switch(b, h), low) /\ SameDelays(b, Switch(b, h)) /\ Switch(b, h).next = h
  BY <1>1, <1>2, SwitchSorted
<1> QED BY <1>1, <1>2, <1>3 DEF SameDelays, m, h, b

LEMMA YieldSorted ==
  ASSUME NEW q, NEW low, Sorted(q, low)
  PROVE  Sorted(Yield(q), low)
<1>1. q.curr \in Thread
  BY RankTypes DEF Sorted
<1> QED BY <1>1, HandOverSorted DEF Yield, CanSwitch

---------------------------------------------------------------------------
\* Delays

\* The rest of a delay counts only in the delay list.
LEMMA RedelaySorted ==
  ASSUME NEW q, NEW low, Sorted(q, low), NEW r, Typed(r),
         r.priority = q.priority, Ascends(r.ready, Urgency(q)),
         NEW t \in Thread, NEW d \in Nat \cup {Forever}, r.delay = [q.delay EXCEPT ![t] = d],
         r.delay_list = q.delay_list, t \notin ToSet(q.delay_list)
  PROVE  Sorted(r, low)
<1>1. /\ q.delay_list \in Seq(Thread) /\ q.delay \in [Thread -> Int \cup {Forever}]
      /\ Distinct(q.delay_list) /\ Ascends(q.delay_list, Due(q))
      /\ \A u \in Thread : q.delay[u] \in Nat \cup {Forever}
      /\ \A u \in ToSet(q.delay_list) : q.delay[u] # Forever /\ q.delay[u] >= low
  BY RankTypes DEF Sorted
<1>2. \A u \in Thread : r.delay[u] = IF u = t THEN d ELSE q.delay[u]
  BY <1>1
<1>3. \A u \in ToSet(q.delay_list) : u \in Thread /\ u # t
  BY <1>1 DEF ToSet
<1>4. \A u \in ToSet(q.delay_list) : Due(r)[u] = Due(q)[u]
  BY <1>2, <1>3 DEF Due
<1>5. Ascends(r.delay_list, Due(r))
  BY <1>1, <1>4, SameAscends
<1>6. Urgency(r) = Urgency(q)
  BY DEF Urgency
<1> QED BY <1>1, <1>2, <1>3, <1>5, <1>6 DEF Sorted

LEMMA DelayRemoveSorted ==
  ASSUME NEW q, NEW low, Sorted(q, low), NEW t \in Thread
  PROVE  LET r == DelayRemove(q, t)
         IN  /\ Sorted(r, low) /\ r.ready = q.ready /\ r.priority = q.priority
             /\ SameRun(q, r) /\ t \notin ToSet(r.delay_list)
<1> DEFINE r == DelayRemove(q, t)
           d == [q.delay EXCEPT ![t] = 0]
           dl == Without(q.delay_list, t)
           wl == Without(q.wait_list, t)
<1>1. /\ Typed(q) /\ q.delay_list \in Seq(Thread) /\ q.wait_list \in Seq(Thread)
      /\ q.delay \in [Thread -> Int \cup {Forever}]
      /\ Distinct(q.delay_list)
      /\ Ascends(q.ready, Urgency(q)) /\ Ascends(q.delay_list, Due(q))
      /\ Due(q) \in [Thread -> Int]
      /\ \A u \in ToSet(q.delay_list) : q.delay[u] # Forever /\ q.delay[u] >= low
      /\ \A u \in Thread : q.delay[u] \in Nat \cup {Forever}
  BY RankTypes DEF Sorted
<1>2. d \in [Thread -> Int \cup {Forever}]
  BY <1>1
<1>3. CASE q.delay[t] = Forever
  <2>1. wl \in Seq(Thread)
    <3> DEFINE flat == [u \in Thread |-> 0]
    <3>1. flat \in [Thread -> Int] /\ Ascends(q.wait_list, flat)
      BY <1>1 DEF Ascends
    <3> HIDE DEF flat
    <3> QED BY <1>1, <3>1, WithoutAscends
  <2>2. r = [q EXCEPT !.delay = d, !.wait_list = wl]
    BY <1>1, <1>3 DEF DelayRemove, Typed
  <2> HIDE DEF r, d, wl
  <2>3. /\ Typed(r) /\ r.ready = q.ready /\ r.priority = q.priority
        /\ r.delay = d /\ r.delay_list = q.delay_list /\ SameRun(q, r)
    BY <1>1, <1>2, <2>1, <2>2 DEF Typed, SameRun
  <2>4. t \notin ToSet(q.delay_list)
    BY <1>1, <1>3
  <2>5. Sorted(r, low)
    <3>1. r.delay = [q.delay EXCEPT ![t] = 0] /\ 0 \in Nat \cup {Forever}
      BY <2>3 DEF d
    <3> QED BY <1>1, <2>3, <2>4, <3>1, RedelaySorted
  <2> QED BY <2>3, <2>4, <2>5 DEF r
<1>4. CASE q.delay[t] # Forever
  <2>1. /\ dl \in Seq(Thread) /\ ToSet(dl) = ToSet(q.delay_list) \ {t} /\ Distinct(dl)
        /\ Ascends(dl, Due(q))
    BY <1>1, WithoutSet, WithoutAscends
  <2>2. r = [q EXCEPT !.delay = d, !.delay_list = dl]
    BY <1>1, <1>4 DEF DelayRemove, Typed
  <2>3. \A u \in Thread : d[u] = IF u = t THEN 0 ELSE q.delay[u]
    BY <1>1
  <2> HIDE DEF r, d, dl
  <2>4. /\ Typed(r) /\ r.ready = q.ready /\ r.priority = q.priority
        /\ r.delay = d /\ r.delay_list = dl /\ SameRun(q, r)
    BY <1>1, <1>2, <2>1, <2>2 DEF Typed, SameRun
  <2>5. \A u \in ToSet(dl) : u \in Thread /\ u # t /\ u \in ToSet(q.delay_list)
    <3>1. \A u \in ToSet(q.delay_list) : u \in Thread
      BY <1>1 DEF ToSet
    <3> QED BY <2>1, <3>1
  <2>6. Ascends(dl, Due(r))
    <3>1. \A u \in ToSet(dl) : Due(r)[u] = Due(q)[u]
      BY <2>3, <2>4, <2>5 DEF Due
    <3> QED BY <2>1, <3>1, SameAscends
  <2>7. Urgency(r) = Urgency(q)
    BY <2>4 DEF Urgency
  <2>8. /\ \A u \in Thread : r.delay[u] \in Nat \cup {Forever}
        /\ \A u \in ToSet(dl) : r.delay[u] # Forever /\ r.delay[u] >= low
    BY <1>1, <2>3, <2>4, <2>5
  <2>9. Sorted(r, low)
    BY <1>1, <2>1, <2>4, <2>6, <2>7, <2>8 DEF Sorted
  <2> QED BY <2>1, <2>4, <2>9 DEF r
<1> QED BY <1>3, <1>4

LEMMA DelayInsertSorted ==
  ASSUME NEW q, NEW low \in Nat, Sorted(q, low), NEW t \in Thread,
         t \notin ToSet(q.delay_list),
         NEW timeout \in Nat \cup {Forever}, timeout = Forever \/ timeout >= low
  PROVE  LET r == DelayInsert(q, t, timeout)
         IN  /\ Sorted(r, low) /\ r.ready = q.ready /\ r.priority = q.priority
             /\ SameRun(q, r)
<1> DEFINE r == DelayInsert(q, t, timeout)
           d == [q.delay EXCEPT ![t] = timeout]
<1>1. /\ Typed(q) /\ q.delay_list \in Seq(Thread) /\ q.wait_list \in Seq(Thread)
      /\ q.delay \in [Thread -> Int \cup {Forever}]
      /\ Distinct(q.delay_list)
      /\ Ascends(q.ready, Urgency(q)) /\ Ascends(q.delay_list, Due(q))
      /\ \A u \in ToSet(q.delay_list) : q.delay[u] # Forever /\ q.delay[u] >= low
      /\ \A u \in Thread : q.delay[u] \in Nat \cup {Forever}
  BY RankTypes DEF Sorted
<1>2. d \in [Thread -> Int \cup {Forever}]
  BY <1>1
<1>3. CASE timeout = Forever
  <2> DEFINE l == Append(q.wait_list, t)
  <2>1. l \in Seq(Thread)
    BY <1>1, AppendProperties
  <2>2. r = [q EXCEPT !.delay = d, !.wait_list = l]
    BY <1>1, <1>3 DEF DelayInsert, Typed
  <2> HIDE DEF r, d, l
  <2>3. /\ Typed(r) /\ r.ready = q.ready /\ r.priority = q.priority
        /\ r.delay = d /\ r.delay_list = q.delay_list /\ SameRun(q, r)
    BY <1>1, <1>2, <2>1, <2>2 DEF Typed, SameRun
  <2>4. Sorted(r, low)
    <3>1. r.delay = [q.delay EXCEPT ![t] = timeout]
      BY <2>3 DEF d
    <3> QED BY <1>1, <2>3, <3>1, RedelaySorted
  <2> QED BY <2>3, <2>4 DEF r
<1>4. CASE timeout # Forever
  <2> DEFINE earlier == {u \in ToSet(q.delay_list) : q.delay[u] <= timeout}
             l == InsertAt(q.delay_list, PastPrefix(q.delay_list, earlier), t)
             rank == [u \in Thread |-> IF d[u] = Forever THEN 0 ELSE d[u]]
  <2>0. timeout \in Nat /\ timeout >= low
    BY <1>4
  <2>1. \A u \in Thread : d[u] = IF u = t THEN timeout ELSE q.delay[u]
    BY <1>1
  <2>2. \A u \in ToSet(q.delay_list) :
          u \in Thread /\ u # t /\ q.delay[u] \in Nat /\ q.delay[u] # Forever
    <3>1. \A u \in ToSet(q.delay_list) : u \in Thread
      BY <1>1 DEF ToSet
    <3> QED BY <1>1, <3>1
  <2>3. r = [q EXCEPT !.delay = d, !.delay_list = l]
    BY <1>1, <1>4 DEF DelayInsert, Typed
  <2> HIDE DEF d, r
  <2>4. rank \in [Thread -> Int]
    BY <1>2
  <2>5. /\ rank[t] = timeout
        /\ \A u \in ToSet(q.delay_list) : rank[u] = q.delay[u] /\ rank[u] = Due(q)[u]
    BY <1>4, <2>1, <2>2 DEF Due
  <2>6. \A u \in ToSet(q.delay_list) : /\ u \in earlier => rank[u] <= rank[t]
                                       /\ u \notin earlier => rank[t] <= rank[u]
    BY <2>0, <2>2, <2>5
  <2> HIDE DEF earlier, rank
  <2>7. Ascends(q.delay_list, rank)
    BY <1>1, <2>5, SameAscends
  <2>8. l \in Seq(Thread) /\ ToSet(l) = ToSet(q.delay_list) \cup {t} /\ Ascends(l, rank)
    <3>1. q.delay_list \in Seq(Thread)
      BY <1>1
    <3> QED BY <2>4, <2>6, <2>7, <3>1, PlaceAscends
  <2>9. Distinct(l)
    <3> DEFINE i == PastPrefix(q.delay_list, earlier)
    <3>1. i \in 1 .. Len(q.delay_list) + 1
      BY <1>1, PastPrefixIndex
    <3> HIDE DEF i
    <3>2. Distinct(InsertAt(q.delay_list, i, t))
      BY <1>1, <3>1, InsertSet
    <3> QED BY <3>2 DEF i
  <2> HIDE DEF l
  <2>10. /\ Typed(r) /\ r.ready = q.ready /\ r.priority = q.priority
         /\ r.delay = d /\ r.delay_list = l /\ SameRun(q, r)
    BY <1>1, <1>2, <2>3, <2>8 DEF Typed, SameRun
  <2>11. Due(r) = rank /\ Urgency(r) = Urgency(q)
    BY <2>10 DEF Due, rank, Urgency
  <2>12. /\ \A u \in Thread : d[u] \in Nat \cup {Forever}
         /\ \A u \in ToSet(l) : d[u] # Forever /\ d[u] >= low
    BY <1>1, <1>4, <2>0, <2>1, <2>2, <2>8
  <2>13. Sorted(r, low)
    BY <1>1, <2>8, <2>9, <2>10, <2>11, <2>12 DEF Sorted
  <2> QED BY <2>10, <2>13 DEF r
<1> QED BY <1>3, <1>4

\* osRtxThreadWaitExit
LEMMA WaitExitSorted ==
  ASSUME NEW q, NEW low, Sorted(q, low), NEW t \in Thread
  PROVE  LET r == WaitExit(q, t)
         IN  Sorted(r, low) /\ r.ready # <<>> /\ SameRun(q, r)
<1> DEFINE m == DelayRemove(q, t)
<1>1. Sorted(m, low) /\ SameRun(q, m)
  BY DelayRemoveSorted
<1>2. WaitExit(q, t) = ReadyPut(m, t)
  BY DEF WaitExit
<1> HIDE DEF m
<1>3. LET r == ReadyPut(m, t)
      IN  Sorted(r, low) /\ r.ready # <<>> /\ SameRun(m, r)
  BY <1>1, ReadyPutSorted
<1> QED BY <1>1, <1>2, <1>3 DEF SameRun

LEMMA ResumeSorted ==
  ASSUME NEW q, NEW low, Sorted(q, low), NEW t \in Thread
  PROVE  Sorted(Resume(q, t), low) /\ WaitExitDispatch(q, t) = Resume(q, t)
<1> DEFINE m == DelayRemove(q, t)
<1>1. Sorted(m, low)
  BY DelayRemoveSorted
<1>2. Resume(q, t) = DispatchThread(m, t) /\ WaitExitDispatch(q, t) = DispatchThread(m, t)
  BY DEF Resume, WaitExitDispatch
<1> HIDE DEF m
<1> QED BY <1>1, <1>2, DispatchThreadSorted

\* osRtxThreadWaitEnter of a thread that runs, so is in no list.
LEMMA WaitEnterSorted ==
  ASSUME NEW q, NEW low \in Nat, Sorted(q, low), q.curr \notin ToSet(q.delay_list),
         q.ready # <<>>, NEW s \in ThreadState,
         NEW timeout \in Nat \cup {Forever}, timeout = Forever \/ timeout >= low
  PROVE  Sorted(WaitEnter(q, s, timeout), low)
<1> DEFINE c == q.curr
           m == [q EXCEPT !.state[c] = s]
           n == DelayInsert(m, c, timeout)
<1>1. c \in Thread
  BY RankTypes DEF Sorted
<1>2. WaitEnter(q, s, timeout) = SwitchToReady(n)
  BY DEF WaitEnter
<1>3. c \notin ToSet(q.delay_list)
  OBVIOUS
<1> HIDE DEF c
<1>4. Sorted(m, low) /\ SameDelays(q, m) /\ m.ready = q.ready
  BY <1>1, RestateSorted
<1> HIDE DEF m
<1>5. c \notin ToSet(m.delay_list)
  BY <1>3, <1>4 DEF SameDelays
<1>6. Sorted(n, low) /\ n.ready # <<>>
  BY <1>1, <1>4, <1>5, DelayInsertSorted
<1> HIDE DEF n
<1> QED BY <1>2, <1>6, SwitchToReadySorted

LEMMA UnlistSorted ==
  ASSUME NEW q, NEW low, Sorted(q, low), NEW t \in Thread,
         t \in ToSet(q.delay_list) => q.state[t] \in BlockedStates
  PROVE  LET r == Unlist(q, t)
         IN  Sorted(r, low) /\ SameRun(q, r) /\ t \notin ToSet(r.delay_list)
<1>1. CASE q.state[t] \in BlockedStates
  <2>1. Unlist(q, t) = DelayRemove(q, t)
    BY <1>1 DEF Unlist, BlockedStates, WaitStates
  <2> QED BY <2>1, DelayRemoveSorted
<1>2. CASE q.state[t] = "Ready"
  <2> DEFINE l == Without(q.ready, t)
             r == [q EXCEPT !.ready = l]
             rank == Urgency(q)
  <2>1. /\ Typed(q) /\ q.ready \in Seq(Thread) /\ rank \in [Thread -> Int]
        /\ Ascends(q.ready, rank)
    BY RankTypes DEF Sorted
  <2> HIDE DEF rank
  <2>2. l \in Seq(Thread) /\ Ascends(l, rank)
    BY <2>1, WithoutAscends
  <2>3. Unlist(q, t) = r
    BY <1>2 DEF Unlist, BlockedStates, WaitStates
  <2> HIDE DEF l
  <2>4. Typed(r) /\ SameDelays(q, r) /\ r.ready = l /\ SameRun(q, r)
    BY <2>1, <2>2 DEF Typed, SameDelays, SameRun
  <2> HIDE DEF r
  <2>5. Sorted(r, low)
    BY <2>2, <2>4, Relisted DEF rank
  <2>6. t \notin ToSet(r.delay_list)
    BY <1>2, <2>4 DEF SameDelays, BlockedStates, WaitStates
  <2> QED BY <2>3, <2>4, <2>5, <2>6
<1>3. CASE q.state[t] \notin BlockedStates \cup {"Ready"}
  <2>1. Unlist(q, t) = q
    BY <1>3 DEF Unlist
  <2> QED BY <1>3, <2>1 DEF SameRun
<1> QED BY <1>1, <1>2, <1>3

LEMMA SuspendSorted ==
  ASSUME NEW q, NEW low \in Nat, Sorted(q, low), NEW t \in Thread, Stoppable(q, t),
         t \in ToSet(q.delay_list) => q.state[t] \in BlockedStates
  PROVE  Sorted(Suspend(q, t), low)
<1> DEFINE off == IF q.state[t] = "Running" THEN SwitchToReady(q) ELSE Unlist(q, t)
           m == [off EXCEPT !.state[t] = "Blocked"]
<1>1. Sorted(off, low) /\ t \notin ToSet(off.delay_list)
  <2>1. CASE q.state[t] = "Running"
    <3>1. q.ready # <<>> /\ t \notin ToSet(q.delay_list)
      BY <2>1 DEF Stoppable, CanSwitch, BlockedStates, WaitStates
    <3> QED BY <2>1, <3>1, SwitchToReadySorted DEF SameDelays
  <2>2. CASE q.state[t] # "Running"
    BY <2>2, UnlistSorted
  <2> QED BY <2>1, <2>2
<1>2. Suspend(q, t) = DelayInsert(m, t, Forever)
  BY DEF Suspend
<1> HIDE DEF off
<1>3. Sorted(m, low) /\ t \notin ToSet(m.delay_list)
  <2>1. "Blocked" \in ThreadState
    BY DEF ThreadState, BlockedStates
  <2> QED BY <1>1, <2>1, RestateSorted DEF SameDelays
<1> HIDE DEF m
<1> QED BY <1>2, <1>3, DelayInsertSorted

\* A list in which a thread with a new priority finds its new place.
LEMMA ListSortAscends ==
  ASSUME NEW q, Typed(q), NEW t \in Thread, NEW p \in Nat, NEW list \in Seq(Thread),
         Distinct(list), Ascends(list, Urgency(q))
  PROVE  LET m == [q EXCEPT !.priority[t] = p]
             l == ListSort(m, list, t)
         IN  /\ Typed(m) /\ m.priority = [q.priority EXCEPT ![t] = p]
             /\ l \in Seq(Thread) /\ Len(l) = Len(list) /\ ToSet(l) = ToSet(list)
             /\ Distinct(l) /\ Ascends(l, Urgency(m))
<1> DEFINE m == [q EXCEPT !.priority[t] = p]
           l == ListSort(m, list, t)
           pr == [q.priority EXCEPT ![t] = p]
           rank == Urgency(m)
<1>1. q.priority \in [Thread -> Nat] /\ Urgency(q) \in [Thread -> Int]
  BY RankTypes
<1>2. pr \in [Thread -> Nat] /\ \A u \in Thread : u # t => pr[u] = q.priority[u]
  BY <1>1
<1>3. m = [q EXCEPT !.priority = pr]
  BY DEF Typed
<1> HIDE DEF pr, m
<1>4. Typed(m) /\ m.priority = pr
  BY <1>2, <1>3 DEF Typed
<1>5. rank \in [Thread -> Int] /\ \A u \in Thread : rank[u] = 0 - pr[u]
  BY <1>2, <1>4 DEF Urgency
<1>6. \A u \in Thread : u # t => rank[u] = Urgency(q)[u]
  BY <1>2, <1>5 DEF Urgency
<1> HIDE DEF rank
<1>7. CASE t \notin ToSet(list)
  <2>1. \A u \in ToSet(list) : u \in Thread /\ u # t
    BY <1>7 DEF ToSet
  <2>2. Ascends(list, rank)
    BY <1>6, <2>1, SameAscends
  <2>3. l = list
    BY <1>7 DEF ListSort
  <2> HIDE DEF l
  <2>4. l \in Seq(Thread) /\ Len(l) = Len(list) /\ ToSet(l) = ToSet(list)
        /\ Distinct(l) /\ Ascends(l, rank)
    BY <2>2, <2>3
  <2> QED BY <1>4, <2>4 DEF l, m, pr, rank
<1>8. CASE t \in ToSet(list)
  <2> DEFINE i == CHOOSE j \in DOMAIN list : list[j] = t
             w == Without(list, t)
             S == {u \in Thread : m.priority[u] >= m.priority[t]}
             e == PastPrefix(w, S)
  <2>1. w \in Seq(Thread) /\ ToSet(w) = ToSet(list) \ {t} /\ Ascends(w, Urgency(q))
        /\ Distinct(w)
    BY <1>1, WithoutSet, WithoutAscends
  <2>2. w = RemoveAt(list, i)
    BY <1>8 DEF Without
  <2>3. i \in 1 .. Len(list)
    BY <1>8 DEF ToSet
  <2>4. l = InsertAt(w, e, t)
    BY <1>8 DEF ListSort, ListPut
  <2> HIDE DEF i, w, l
  <2>5. Len(w) = Len(list) - 1
    BY <2>2, <2>3, RemoveAtIndex
  <2>6. \A u \in ToSet(w) : u \in Thread /\ u # t
    <3>1. \A u \in ToSet(list) : u \in Thread
      BY DEF ToSet
    <3> QED BY <2>1, <3>1
  <2>7. Ascends(w, rank)
    BY <1>6, <2>1, <2>6, SameAscends
  <2>8. \A u \in ToSet(w) : /\ u \in S => rank[u] <= rank[t]
                            /\ u \notin S => rank[t] <= rank[u]
    BY <1>2, <1>4, <1>5, <2>6
  <2> HIDE DEF S
  <2>9. l \in Seq(Thread) /\ ToSet(l) = ToSet(w) \cup {t} /\ Ascends(l, rank)
    BY <1>5, <2>1, <2>4, <2>7, <2>8, PlaceAscends, ZenonT(60)
  <2>10. e \in 1 .. Len(w) + 1
    BY <2>1, PastPrefixIndex
  <2> HIDE DEF e
  <2>11. Len(l) = Len(w) + 1
    BY <2>1, <2>4, <2>10, InsertAtIndex
  <2>12. Distinct(l)
    BY <2>1, <2>4, <2>6, <2>10, InsertSet
  <2>13. Len(l) = Len(list)
    BY <2>3, <2>5, <2>11
  <2>14. ToSet(l) = ToSet(list)
    BY <1>8, <2>1, <2>9
  <2> QED BY <1>4, <2>9, <2>12, <2>13, <2>14 DEF l, m, pr, rank
<1> QED BY <1>7, <1>8

\* A thread in the ready list that changes its priority finds its new place.
LEMMA RerankedSorted ==
  ASSUME NEW q, NEW low, Sorted(q, low), Distinct(q.ready),
         NEW t \in Thread, NEW p \in Nat
  PROVE  LET m == Reranked(q, t, p)
         IN  /\ SetPriority(q, t, p) = Dispatch(m) /\ Sorted(m, low)
             /\ SameRun(q, m) /\ m.priority = [q.priority EXCEPT ![t] = p]
<1> DEFINE raised == [q EXCEPT !.priority[t] = p]
           l == ListSort(raised, q.ready, t)
           m == [raised EXCEPT !.ready = l]
           pr == [q.priority EXCEPT ![t] = p]
<1>1. Typed(q) /\ q.ready \in Seq(Thread) /\ Ascends(q.ready, Urgency(q))
  BY RankTypes DEF Sorted
<1>2. SetPriority(q, t, p) = Dispatch(m) /\ Reranked(q, t, p) = m
  <2>1. raised.ready = q.ready
    BY <1>1 DEF Typed
  <2> QED BY <2>1 DEF SetPriority, Reranked
<1>3. raised = [q EXCEPT !.priority = pr]
  BY <1>1 DEF Typed
<1>4. Typed(raised) /\ raised.priority = pr /\ l \in Seq(Thread) /\ Ascends(l, Urgency(raised))
  BY <1>1, ListSortAscends
<1> HIDE DEF pr, raised, l
<1>5. Sorted(m, low) /\ SameRun(q, m) /\ m.priority = pr
  <2>1. /\ Typed(m) /\ m.ready = l /\ m.priority = raised.priority
        /\ m.delay = q.delay /\ m.delay_list = q.delay_list /\ SameRun(q, m)
    BY <1>1, <1>3, <1>4 DEF Typed, SameRun
  <2> HIDE DEF m
  <2>2. Urgency(m) = Urgency(raised) /\ Due(m) = Due(q)
    BY <2>1 DEF Urgency, Due
  <2> QED BY <1>4, <2>1, <2>2 DEF Sorted
<1> HIDE DEF m
<1> QED BY <1>2, <1>5 DEF pr

LEMMA RaiseSorted ==
  ASSUME NEW q, NEW low, Sorted(q, low), Distinct(q.ready),
         NEW t \in Thread, NEW p \in Nat
  PROVE  \E m : /\ SetPriority(q, t, p) = Dispatch(m) /\ Sorted(m, low)
                /\ SameRun(q, m) /\ m.priority = [q.priority EXCEPT ![t] = p]
<1> DEFINE m == Reranked(q, t, p)
<1>1. /\ SetPriority(q, t, p) = Dispatch(m) /\ Sorted(m, low)
      /\ SameRun(q, m) /\ m.priority = [q.priority EXCEPT ![t] = p]
  BY RerankedSorted
<1> QED BY <1>1

---------------------------------------------------------------------------
\* The tick

\* All the threads of the delay list lose a tick, so none overtakes another.
LEMMA CountDownSorted ==
  ASSUME NEW q, Sorted(q, 1)
  PROVE  Sorted(CountDown(q), 0)
<1> DEFINE d == [t \in Thread |-> IF t \in ToSet(q.delay_list)
                                  THEN q.delay[t] - 1 ELSE q.delay[t]]
           r == [q EXCEPT !.delay = d]
<1>1. /\ Typed(q) /\ q.delay_list \in Seq(Thread)
      /\ Ascends(q.ready, Urgency(q)) /\ Ascends(q.delay_list, Due(q))
      /\ Distinct(q.delay_list) /\ Due(q) \in [Thread -> Int]
      /\ \A u \in ToSet(q.delay_list) : q.delay[u] # Forever /\ q.delay[u] >= 1
      /\ \A u \in Thread : q.delay[u] \in Nat \cup {Forever}
  BY RankTypes DEF Sorted
<1>2. \A u \in ToSet(q.delay_list) : u \in Thread
  BY <1>1 DEF ToSet
<1>3. /\ \A u \in Thread : d[u] \in Nat \cup {Forever}
      /\ \A u \in ToSet(q.delay_list) :
           d[u] = q.delay[u] - 1 /\ d[u] # Forever /\ d[u] >= 0 /\ q.delay[u] \in Nat
  BY <1>1, <1>2, SchedulerAssumption
<1>4. d \in [Thread -> Int \cup {Forever}]
  BY <1>3
<1>5. CountDown(q) = r
  BY DEF CountDown
<1> HIDE DEF d
<1>6. Typed(r) /\ r.ready = q.ready /\ r.priority = q.priority
      /\ r.delay = d /\ r.delay_list = q.delay_list
  BY <1>1, <1>4 DEF Typed
<1> HIDE DEF r
<1>7. \A u \in ToSet(q.delay_list) : Due(r)[u] = Due(q)[u] - 1 /\ Due(q)[u] \in Int
  BY <1>1, <1>2, <1>3, <1>6 DEF Due
<1>8. Ascends(q.delay_list, Due(r))
  <2> SUFFICES ASSUME NEW i \in DOMAIN q.delay_list, NEW j \in DOMAIN q.delay_list, i < j
               PROVE  Due(r)[q.delay_list[i]] <= Due(r)[q.delay_list[j]]
    BY DEF Ascends
  <2>1. Due(q)[q.delay_list[i]] <= Due(q)[q.delay_list[j]]
    BY <1>1 DEF Ascends
  <2>2. q.delay_list[i] \in ToSet(q.delay_list) /\ q.delay_list[j] \in ToSet(q.delay_list)
    BY DEF ToSet
  <2> QED BY <1>7, <2>1, <2>2
<1>9. Urgency(r) = Urgency(q)
  BY <1>6 DEF Urgency
<1>10. Sorted(r, 0)
  BY <1>1, <1>3, <1>6, <1>8, <1>9 DEF Sorted
<1> QED BY <1>5, <1>10

LEMMA ReleaseHeadSorted ==
  ASSUME NEW q, NEW low, Sorted(q, low), q.delay_list # <<>>
  PROVE  Sorted(ReleaseHead(q), low)
<1> DEFINE h == Head(q.delay_list)
           l == Tail(q.delay_list)
           m == [q EXCEPT !.delay_list = l]
           rank == Due(q)
<1>1. /\ Typed(q) /\ q.delay_list \in Seq(Thread) /\ rank \in [Thread -> Int]
      /\ Ascends(q.delay_list, rank) /\ Distinct(q.delay_list)
  BY RankTypes DEF Sorted
<1> HIDE DEF rank
<1>2. /\ l \in Seq(Thread) /\ h \in Thread /\ Ascends(l, rank)
      /\ Distinct(l) /\ ToSet(l) \subseteq ToSet(q.delay_list)
  BY <1>1, TailAscends, TailSet
<1>3. ReleaseHead(q) = ReadyPut(m, h)
  BY DEF ReleaseHead
<1> HIDE DEF l, h
<1>4. /\ Typed(m) /\ m.ready = q.ready /\ m.priority = q.priority
      /\ m.delay = q.delay /\ m.delay_list = l
  BY <1>1, <1>2 DEF Typed
<1> HIDE DEF m
<1>5. Due(m) = rank /\ Urgency(m) = Urgency(q)
  BY <1>4 DEF Due, Urgency, rank
<1>6. Sorted(m, low)
  BY <1>2, <1>4, <1>5 DEF Sorted
<1> QED BY <1>2, <1>3, <1>6, ReadyPutSorted

\* After the last release every thread of the delay list has ticks left.
LEMMA NoneExpired ==
  ASSUME NEW q, Sorted(q, 0), ~Expired(q)
  PROVE  Sorted(q, 1)
<1>1. /\ q.delay_list \in Seq(Thread) /\ Due(q) \in [Thread -> Int]
      /\ Ascends(q.delay_list, Due(q))
      /\ \A u \in ToSet(q.delay_list) : q.delay[u] # Forever /\ q.delay[u] >= 0
      /\ \A u \in Thread : q.delay[u] \in Nat \cup {Forever}
  BY RankTypes DEF Sorted
<1>2. CASE q.delay_list = <<>>
  <2>1. ToSet(q.delay_list) = {}
    BY <1>2 DEF ToSet
  <2> QED BY <2>1 DEF Sorted
<1>3. CASE q.delay_list # <<>>
  <2> DEFINE h == Head(q.delay_list)
  <2>1. h \in Thread /\ h \in ToSet(q.delay_list)
        /\ \A u \in ToSet(q.delay_list) : Due(q)[h] <= Due(q)[u]
    BY <1>1, <1>3, TailAscends
  <2>2. q.delay[h] # 0
    BY <1>3 DEF Expired
  <2> HIDE DEF h
  <2>3. \A u \in ToSet(q.delay_list) :
          u \in Thread /\ Due(q)[u] = q.delay[u] /\ q.delay[u] \in Nat
    <3>1. \A u \in ToSet(q.delay_list) : u \in Thread
      BY <1>1 DEF ToSet
    <3> QED BY <1>1, <3>1 DEF Due
  <2>4. \A u \in ToSet(q.delay_list) : q.delay[u] >= 1
    BY <2>1, <2>2, <2>3
  <2> QED BY <2>4 DEF Sorted
<1> QED BY <1>2, <1>3

LEMMA NewSliceSorted ==
  ASSUME NEW q, NEW low, Sorted(q, low), q.next \notin ToSet(q.delay_list),
         NEW d, d \in Nat
  PROVE  LET r == NewSlice(q, d)
         IN  /\ Sorted(r, low) /\ r.ready = q.ready /\ r.next = q.next
             /\ r.delay_list = q.delay_list
<1> DEFINE n == q.next
           r == NewSlice(q, d)
           dl == [q.delay EXCEPT ![n] = d]
<1>1. /\ Typed(q) /\ n \in Thread /\ q.delay \in [Thread -> Int \cup {Forever}]
      /\ Ascends(q.ready, Urgency(q))
  BY RankTypes DEF Sorted
<1>2. dl \in [Thread -> Int \cup {Forever}]
  BY <1>1
<1>3. r = [q EXCEPT !.robin = n, !.delay = dl]
  BY <1>1 DEF NewSlice, Typed
<1>4. n \notin ToSet(q.delay_list) /\ n = q.next
  OBVIOUS
<1> HIDE DEF n, r, dl
<1>5. /\ Typed(r) /\ r.ready = q.ready /\ r.next = n /\ r.priority = q.priority
      /\ r.delay = dl /\ r.delay_list = q.delay_list
  BY <1>1, <1>2, <1>3, <1>4 DEF Typed
<1>6. Sorted(r, low)
  <2>1. r.delay = [q.delay EXCEPT ![n] = d] /\ d \in Nat \cup {Forever}
    BY <1>5 DEF dl
  <2> QED BY <1>1, <1>4, <1>5, <2>1, RedelaySorted
<1> QED BY <1>4, <1>5, <1>6 DEF r

LEMMA RoundRobinSorted ==
  ASSUME NEW q, NEW low, Sorted(q, low), Runs(q, {})
  PROVE  Sorted(RoundRobin(q), low)
<1> DEFINE h == Head(q.ready)
           d == SliceLeft(q)
           m == NewSlice(q, d)
           n == Switch(ReadyPut([m EXCEPT !.ready = Tail(@)], q.next), Head(m.ready))
           r == NewSlice(n, RobinTimeout)
<1>1. /\ q.next \in Thread /\ q.next \notin ToSet(q.delay_list)
      /\ q.delay[q.next] \in Nat
  <2>1. q.next \in Thread /\ q.state[q.next] \notin BlockedStates
    BY DEF Runs, Typed, BlockedStates, WaitStates
  <2>2. q.delay[q.next] # Forever /\ q.next \notin ToSet(q.delay_list)
    BY <2>1 DEF Runs, Placed
  <2> QED BY <2>1, <2>2 DEF Sorted
<1>2. d \in Nat
  BY <1>1, SchedulerAssumption DEF SliceLeft
<1> HIDE DEF d
<1>3. Sorted(m, low) /\ m.ready = q.ready /\ m.delay_list = q.delay_list
  BY <1>1, <1>2, NewSliceSorted
<1>4. [q EXCEPT !.robin = q.next, !.delay[q.next] = d] = m
  BY DEF NewSlice
<1> HIDE DEF m
<1>5. CASE q.ready # <<>>
  <2>1. h \in Thread /\ h \notin ToSet(q.delay_list)
    <3>1. h \in Thread /\ h \in ToSet(q.ready)
      BY <1>5, TailSet DEF Runs, Placed, Typed
    <3>2. q.state[h] = "Ready" /\ q.state[h] \notin BlockedStates
      BY <3>1 DEF Runs, Placed, BlockedStates, WaitStates
    <3> QED BY <3>1, <3>2 DEF Runs, Placed
  <2>2. Sorted(n, low) /\ SameDelays(m, n) /\ n.next = h
    BY <1>1, <1>3, <1>5, HandOverSorted
  <2>3. n = Switch(ReadyPut([m EXCEPT !.ready = Tail(@)], q.next), h)
    BY <1>3
  <2> HIDE DEF n, h
  <2>4. r = [n EXCEPT !.robin = h, !.delay[h] = RobinTimeout]
    BY <2>2 DEF NewSlice
  <2> HIDE DEF r
  <2>5. RoundRobin(q) \in {q, m, r}
    BY <1>4, <2>3, <2>4 DEF RoundRobin, d, h
  <2>6. Sorted(r, low)
    BY <1>3, <2>1, <2>2, NewSliceSorted, SchedulerAssumption DEF SameDelays, r
  <2> QED BY <1>3, <2>5, <2>6
<1>6. CASE q.ready = <<>>
  <2>1. RoundRobin(q) \in {q, m}
    BY <1>4, <1>6 DEF RoundRobin, CanSwitch, d
  <2> QED BY <1>3, <2>1
<1> QED BY <1>5, <1>6

---------------------------------------------------------------------------
\* The elected thread

\* No ready thread outranks t.
Outranked(q, t) == \A u \in ToSet(q.ready) : q.priority[u] <= q.priority[t]

\* No ready thread outranks the elected one.
Tops(q) == Outranked(q, q.next)

LEMMA FewerOutranked ==
  ASSUME NEW q, NEW r, NEW t, Outranked(q, t), r.priority = q.priority,
         ToSet(r.ready) \subseteq ToSet(q.ready)
  PROVE  Outranked(r, t)
BY DEF Outranked

\* The head of the ready list outranks the others.
LEMMA HeadOutranks ==
  ASSUME NEW q, NEW low, Sorted(q, low), q.ready # <<>>
  PROVE  /\ Head(q.ready) \in Thread /\ Outranked(q, Head(q.ready))
         /\ ToSet(Tail(q.ready)) \subseteq ToSet(q.ready)
<1> DEFINE h == Head(q.ready)
<1>1. /\ q.ready \in Seq(Thread) /\ Urgency(q) \in [Thread -> Int]
      /\ Ascends(q.ready, Urgency(q)) /\ q.priority \in [Thread -> Nat]
  BY RankTypes DEF Sorted
<1>2. /\ h \in Thread /\ ToSet(Tail(q.ready)) \subseteq ToSet(q.ready)
      /\ \A u \in ToSet(q.ready) : Urgency(q)[h] <= Urgency(q)[u]
  BY <1>1, TailAscends
<1>3. \A u \in ToSet(q.ready) : u \in Thread
  BY <1>1 DEF ToSet
<1>4. \A u \in Thread : Urgency(q)[u] = 0 - q.priority[u] /\ q.priority[u] \in Nat
  BY <1>1 DEF Urgency
<1> HIDE DEF h
<1>5. \A u \in ToSet(q.ready) : q.priority[u] <= q.priority[h]
  BY <1>2, <1>3, <1>4
<1> QED BY <1>2, <1>5 DEF Outranked, h

LEMMA SwitchTops ==
  ASSUME NEW q, NEW low, Sorted(q, low), NEW t \in Thread, Outranked(q, t)
  PROVE  Tops(Switch(q, t))
<1> DEFINE r == Switch(q, t)
<1>1. SameDelays(q, r) /\ r.ready = q.ready /\ r.next = t
  BY SwitchSorted
<1> HIDE DEF r
<1>2. Outranked(r, t)
  BY <1>1, FewerOutranked DEF SameDelays
<1> QED BY <1>1, <1>2 DEF Tops, r

LEMMA SwitchToReadyTops ==
  ASSUME NEW q, NEW low, Sorted(q, low), q.ready # <<>>
  PROVE  Tops(SwitchToReady(q))
<1> DEFINE m == [q EXCEPT !.ready = Tail(@)]
           h == Head(q.ready)
<1>1. Sorted(m, low) /\ SameDelays(q, m) /\ m.ready = Tail(q.ready)
  BY TakeHeadSorted DEF Sorted, Typed
<1>2. SwitchToReady(q) = Switch(m, h)
  BY DEF SwitchToReady
<1>3. /\ h \in Thread /\ Outranked(q, h)
      /\ ToSet(Tail(q.ready)) \subseteq ToSet(q.ready)
  BY HeadOutranks
<1> HIDE DEF m, h
<1>4. Outranked(m, h)
  BY <1>1, <1>3, FewerOutranked DEF SameDelays
<1> QED BY <1>1, <1>2, <1>3, <1>4, SwitchTops

\* A thread that is not outranked takes the place of one that becomes ready.
LEMMA ReplaceTops ==
  ASSUME NEW q, NEW low, Sorted(q, low), NEW r, Sorted(r, low), r.priority = q.priority,
         NEW c, ToSet(r.ready) = ToSet(q.ready) \cup {c},
         NEW t \in Thread, Outranked(q, t), q.priority[c] <= q.priority[t]
  PROVE  Tops(Switch(r, t))
<1>1. Outranked(r, t)
  BY DEF Outranked
<1> QED BY <1>1, SwitchTops

\* The head of the ready list takes the place of c.
LEMMA HandOverTops ==
  ASSUME NEW q, NEW low, Sorted(q, low), NEW c \in Thread, q.ready # <<>>,
         q.priority[c] <= q.priority[Head(q.ready)]
  PROVE  LET m == [q EXCEPT !.ready = Tail(@)]
             h == Head(q.ready)
         IN  Tops(Switch(ReadyPut(m, c), h)) /\ Tops(Switch(Block(m, c), h))
<1> DEFINE m == [q EXCEPT !.ready = Tail(@)]
           h == Head(q.ready)
           b == Block(m, c)
           d == ReadyPut(m, c)
<1>1. Sorted(m, low) /\ SameDelays(q, m) /\ m.ready = Tail(q.ready)
  BY TakeHeadSorted DEF Sorted, Typed
<1>2. /\ h \in Thread /\ Outranked(q, h)
      /\ ToSet(Tail(q.ready)) \subseteq ToSet(q.ready)
      /\ q.priority[c] <= q.priority[h]
  BY HeadOutranks
<1> HIDE DEF m, h
<1>3. Outranked(m, h) /\ m.priority[c] <= m.priority[h]
  BY <1>1, <1>2, FewerOutranked DEF SameDelays
<1>4. /\ Sorted(b, low) /\ SameDelays(m, b) /\ ToSet(b.ready) = ToSet(m.ready) \cup {c}
      /\ Sorted(d, low) /\ SameDelays(m, d) /\ ToSet(d.ready) = ToSet(m.ready) \cup {c}
  BY <1>1, BlockSorted, ReadyPutSorted
<1> HIDE DEF b, d
<1>5. Tops(Switch(b, h)) /\ Tops(Switch(d, h))
  BY <1>1, <1>2, <1>3, <1>4, ReplaceTops DEF SameDelays
<1> QED BY <1>5 DEF b, d, m, h

---------------------------------------------------------------------------
\* Dispatching

\* The dispatcher repairs whatever the list holds.
LEMMA DispatchTops ==
  ASSUME NEW q, NEW low, Sorted(q, low), q.kernel = "Running", q.curr = q.next
  PROVE  Tops(Dispatch(q))
<1> DEFINE h == Head(q.ready)
<1>1. q.curr \in Thread /\ q.priority \in [Thread -> Nat]
  BY RankTypes DEF Sorted
<1>2. CASE q.ready = <<>>
  <2>1. Dispatch(q) = q /\ ToSet(q.ready) = {}
    BY <1>2 DEF Dispatch, ToSet
  <2> QED BY <2>1 DEF Tops, Outranked
<1>3. CASE q.ready # <<>> /\ ~(q.priority[h] > q.priority[q.curr])
  <2>1. Dispatch(q) = q
    BY <1>3 DEF Dispatch
  <2>2. h \in Thread /\ Outranked(q, h)
    BY <1>3, HeadOutranks
  <2>3. q.priority[h] <= q.priority[q.next]
    BY <1>1, <1>3, <2>2
  <2>4. \A u \in ToSet(q.ready) : u \in Thread
    BY RankTypes DEF Sorted, ToSet
  <2> HIDE DEF h
  <2>5. \A u \in ToSet(q.ready) : q.priority[u] <= q.priority[q.next]
    BY <1>1, <2>2, <2>3, <2>4 DEF Outranked
  <2> QED BY <2>1, <2>5 DEF Tops, Outranked
<1>4. CASE q.ready # <<>> /\ q.priority[h] > q.priority[q.curr]
  <2>1. Dispatch(q) = Switch(Block([q EXCEPT !.ready = Tail(@)], q.curr), h)
    BY <1>4 DEF Dispatch
  <2>2. h \in Thread
    BY <1>4, HeadOutranks
  <2>3. q.priority[q.curr] <= q.priority[h]
    BY <1>1, <1>4, <2>2
  <2> QED BY <1>1, <1>4, <2>1, <2>3, HandOverTops
<1> QED BY <1>2, <1>3, <1>4

\* A thread that becomes ready runs at once or does not outrank the running one.
LEMMA DispatchThreadTops ==
  ASSUME NEW q, NEW low, Sorted(q, low), q.kernel = "Running", q.curr = q.next,
         Tops(q), NEW t \in Thread
  PROVE  Tops(DispatchThread(q, t))
<1> DEFINE c == q.curr
           b == Block(q, c)
           r == ReadyPut(q, t)
<1>1. c \in Thread /\ c = q.next /\ q.priority \in [Thread -> Nat]
  BY RankTypes DEF Sorted
<1>2. \A u \in ToSet(q.ready) : u \in Thread
  BY RankTypes DEF Sorted, ToSet
<1>3. CASE q.priority[t] > q.priority[c]
  <2>1. DispatchThread(q, t) = Switch(b, t)
    BY <1>3 DEF DispatchThread
  <2> HIDE DEF c
  <2>2. Sorted(b, low) /\ SameDelays(q, b) /\ ToSet(b.ready) = ToSet(q.ready) \cup {c}
    BY <1>1, BlockSorted
  <2> HIDE DEF b
  <2>3. Outranked(q, t) /\ q.priority[c] <= q.priority[t]
    BY <1>1, <1>2, <1>3 DEF Tops, Outranked
  <2> QED BY <2>1, <2>2, <2>3, ReplaceTops DEF SameDelays
<1>4. CASE ~(q.priority[t] > q.priority[c])
  <2>1. DispatchThread(q, t) = r
    BY <1>4 DEF DispatchThread
  <2>2. /\ SameDelays(q, r) /\ SameRun(q, r) /\ ToSet(r.ready) = ToSet(q.ready) \cup {t}
    BY ReadyPutSorted
  <2> HIDE DEF c, r
  <2>3. q.priority[t] <= q.priority[c]
    BY <1>1, <1>4
  <2>4. r.priority = q.priority /\ r.next = c
    BY <1>1, <2>2 DEF SameDelays, SameRun
  <2>5. \A u \in ToSet(r.ready) : r.priority[u] <= r.priority[c]
    BY <1>1, <2>2, <2>3, <2>4 DEF Tops, Outranked
  <2> QED BY <2>1, <2>4, <2>5 DEF Tops, Outranked
<1> QED BY <1>3, <1>4

LEMMA YieldTops ==
  ASSUME NEW q, NEW low, Sorted(q, low), Tops(q)
  PROVE  Tops(Yield(q))
<1>1. q.curr \in Thread /\ q.priority \in [Thread -> Nat]
  BY RankTypes DEF Sorted
<1>2. CASE CanSwitch(q) /\ q.priority[Head(q.ready)] = q.priority[q.curr]
  <2>1. Yield(q) = Switch(ReadyPut([q EXCEPT !.ready = Tail(@)], q.curr), Head(q.ready))
    BY <1>2 DEF Yield
  <2>2. q.ready # <<>> /\ q.priority[q.curr] <= q.priority[Head(q.ready)]
    BY <1>1, <1>2 DEF CanSwitch
  <2> QED BY <1>1, <2>1, <2>2, HandOverTops
<1>3. CASE ~(CanSwitch(q) /\ q.priority[Head(q.ready)] = q.priority[q.curr])
  <2>1. Yield(q) = q
    BY <1>3 DEF Yield
  <2> QED BY <2>1
<1> QED BY <1>2, <1>3

---------------------------------------------------------------------------
\* Services on one thread

LEMMA RestateTops ==
  ASSUME NEW q, NEW low, Sorted(q, low), Tops(q), NEW t \in Thread, NEW s \in ThreadState
  PROVE  Tops([q EXCEPT !.state[t] = s])
<1> DEFINE r == [q EXCEPT !.state[t] = s]
<1>1. SameDelays(q, r) /\ r.ready = q.ready /\ SameRun(q, r)
  BY RestateSorted
<1> HIDE DEF r
<1>2. Outranked(r, r.next)
  BY <1>1, FewerOutranked DEF Tops, SameDelays, SameRun
<1> QED BY <1>2 DEF Tops, r

LEMMA ResumeTops ==
  ASSUME NEW q, NEW low, Sorted(q, low), q.kernel = "Running", q.curr = q.next,
         Tops(q), NEW t \in Thread
  PROVE  Tops(Resume(q, t))
<1> DEFINE m == DelayRemove(q, t)
<1>1. Sorted(m, low) /\ m.ready = q.ready /\ m.priority = q.priority /\ SameRun(q, m)
  BY DelayRemoveSorted
<1>2. Resume(q, t) = DispatchThread(m, t)
  BY DEF Resume
<1> HIDE DEF m
<1>3. Tops(m) /\ m.kernel = "Running" /\ m.curr = m.next
  BY <1>1, FewerOutranked DEF Tops, SameRun
<1> QED BY <1>1, <1>2, <1>3, DispatchThreadTops

LEMMA WaitEnterTops ==
  ASSUME NEW q, NEW low \in Nat, Sorted(q, low), q.curr \notin ToSet(q.delay_list),
         q.ready # <<>>, NEW s \in ThreadState,
         NEW timeout \in Nat \cup {Forever}, timeout = Forever \/ timeout >= low
  PROVE  Tops(WaitEnter(q, s, timeout))
<1> DEFINE c == q.curr
           m == [q EXCEPT !.state[c] = s]
           n == DelayInsert(m, c, timeout)
<1>1. c \in Thread /\ c \notin ToSet(q.delay_list)
  BY RankTypes DEF Sorted
<1>2. WaitEnter(q, s, timeout) = SwitchToReady(n)
  BY DEF WaitEnter
<1> HIDE DEF c
<1>3. Sorted(m, low) /\ SameDelays(q, m) /\ m.ready = q.ready
  BY <1>1, RestateSorted
<1> HIDE DEF m
<1>4. c \notin ToSet(m.delay_list)
  BY <1>1, <1>3 DEF SameDelays
<1>5. Sorted(n, low) /\ n.ready # <<>>
  BY <1>1, <1>3, <1>4, DelayInsertSorted
<1> HIDE DEF n
<1> QED BY <1>2, <1>5, SwitchToReadyTops

\* Taking a thread that does not run out of its lists outranks nobody.
LEMMA UnlistTops ==
  ASSUME NEW q, NEW low, Sorted(q, low), Distinct(q.ready), Tops(q), NEW t \in Thread
  PROVE  Tops(Unlist(q, t))
<1> DEFINE r == Unlist(q, t)
<1>1. Typed(q) /\ q.ready \in Seq(Thread)
  BY RankTypes DEF Sorted
<1>2. /\ r.priority = q.priority /\ r.next = q.next
      /\ ToSet(r.ready) \subseteq ToSet(q.ready)
  <2>1. CASE q.state[t] \in BlockedStates
    <3>1. r = DelayRemove(q, t)
      BY <2>1 DEF Unlist, BlockedStates, WaitStates
    <3> HIDE DEF r
    <3> QED BY <3>1, DelayRemoveSorted DEF SameRun
  <2>2. CASE q.state[t] = "Ready"
    <3> DEFINE l == Without(q.ready, t)
    <3>1. r = [q EXCEPT !.ready = l]
      BY <2>2 DEF Unlist, BlockedStates, WaitStates
    <3>2. ToSet(l) \subseteq ToSet(q.ready)
      BY <1>1, WithoutSet
    <3> HIDE DEF l, r
    <3>3. r.ready = l /\ r.priority = q.priority /\ r.next = q.next
      BY <1>1, <3>1 DEF Typed
    <3> QED BY <3>2, <3>3
  <2>3. CASE q.state[t] \notin BlockedStates \cup {"Ready"}
    <3>1. r = q
      BY <2>3 DEF Unlist
    <3> QED BY <3>1
  <2> QED BY <2>1, <2>2, <2>3
<1> HIDE DEF r
<1>3. Outranked(r, r.next)
  BY <1>2, FewerOutranked DEF Tops
<1> QED BY <1>3 DEF Tops, r

LEMMA SuspendTops ==
  ASSUME NEW q, NEW low \in Nat, Sorted(q, low), Distinct(q.ready), Tops(q),
         NEW t \in Thread, Stoppable(q, t),
         t \in ToSet(q.delay_list) => q.state[t] \in BlockedStates
  PROVE  Tops(Suspend(q, t))
<1> DEFINE off == IF q.state[t] = "Running" THEN SwitchToReady(q) ELSE Unlist(q, t)
           m == [off EXCEPT !.state[t] = "Blocked"]
           r == DelayInsert(m, t, Forever)
<1>1. Sorted(off, low) /\ Tops(off) /\ t \notin ToSet(off.delay_list)
  <2>1. CASE q.state[t] = "Running"
    <3>1. q.ready # <<>> /\ t \notin ToSet(q.delay_list)
      BY <2>1 DEF Stoppable, CanSwitch, BlockedStates, WaitStates
    <3> QED BY <2>1, <3>1, SwitchToReadySorted, SwitchToReadyTops DEF SameDelays
  <2>2. CASE q.state[t] # "Running"
    BY <2>2, UnlistSorted, UnlistTops
  <2> QED BY <2>1, <2>2
<1>2. Suspend(q, t) = r
  BY DEF Suspend
<1> HIDE DEF off
<1>3. Sorted(m, low) /\ Tops(m) /\ t \notin ToSet(m.delay_list)
  <2>1. "Blocked" \in ThreadState
    BY DEF ThreadState, BlockedStates
  <2> QED BY <1>1, <2>1, RestateSorted, RestateTops DEF SameDelays
<1> HIDE DEF m
<1>4. r.ready = m.ready /\ r.priority = m.priority /\ SameRun(m, r)
  BY <1>3, DelayInsertSorted
<1> HIDE DEF r
<1>5. Outranked(r, r.next)
  BY <1>3, <1>4, FewerOutranked DEF Tops, SameRun
<1> QED BY <1>2, <1>5 DEF Tops

LEMMA NewSliceTops ==
  ASSUME NEW q, Typed(q), Tops(q), NEW d
  PROVE  LET r == NewSlice(q, d)
         IN  r.ready = q.ready /\ r.priority = q.priority /\ r.next = q.next /\ Tops(r)
<1> DEFINE r == NewSlice(q, d)
<1>1. r.ready = q.ready /\ r.priority = q.priority /\ r.next = q.next
  BY DEF NewSlice, Typed
<1> HIDE DEF r
<1>2. Outranked(r, r.next)
  BY <1>1, FewerOutranked DEF Tops
<1> QED BY <1>1, <1>2 DEF Tops, r

\* Round robin hands over to a thread of the same priority.
LEMMA RoundRobinTops ==
  ASSUME NEW q, NEW low, Sorted(q, low), Runs(q, {}), Tops(q)
  PROVE  Tops(RoundRobin(q))
<1> DEFINE h == Head(q.ready)
           d == SliceLeft(q)
           m == NewSlice(q, d)
           n == Switch(ReadyPut([m EXCEPT !.ready = Tail(@)], q.next), Head(m.ready))
           r == NewSlice(n, RobinTimeout)
<1>1. /\ q.next \in Thread /\ q.next \notin ToSet(q.delay_list)
      /\ q.delay[q.next] \in Nat /\ q.priority \in [Thread -> Nat]
  <2>1. q.next \in Thread /\ q.state[q.next] \notin BlockedStates
    BY DEF Runs, Typed, BlockedStates, WaitStates
  <2>2. q.delay[q.next] # Forever /\ q.next \notin ToSet(q.delay_list)
    BY <2>1 DEF Runs, Placed
  <2> QED BY <2>1, <2>2, RankTypes DEF Sorted
<1>2. d \in Nat
  BY <1>1, SchedulerAssumption DEF SliceLeft
<1> HIDE DEF d
<1>3. /\ Sorted(m, low) /\ m.ready = q.ready /\ m.delay_list = q.delay_list
      /\ m.priority = q.priority /\ Tops(m)
  BY <1>1, <1>2, NewSliceSorted, NewSliceTops DEF Sorted
<1>4. [q EXCEPT !.robin = q.next, !.delay[q.next] = d] = m
  BY DEF NewSlice
<1> HIDE DEF m
<1>5. CASE CanSwitch(q) /\ q.priority[h] = q.priority[q.next]
  <2>1. m.ready # <<>> /\ m.priority[q.next] <= m.priority[Head(m.ready)]
    BY <1>1, <1>3, <1>5 DEF CanSwitch
  <2>2. Sorted(n, low) /\ n.next = Head(m.ready) /\ Tops(n)
    BY <1>1, <1>3, <2>1, HandOverSorted, HandOverTops
  <2>3. n = Switch(ReadyPut([m EXCEPT !.ready = Tail(@)], q.next), h)
    BY <1>3
  <2>4. n.next = h
    BY <1>3, <2>2
  <2> HIDE DEF n, h
  <2>5. r = [n EXCEPT !.robin = h, !.delay[h] = RobinTimeout]
    BY <2>4 DEF NewSlice
  <2>6. Tops(r)
    BY <2>2, NewSliceTops DEF Sorted
  <2> HIDE DEF r
  <2>7. RoundRobin(q) \in {q, m, r}
    BY <1>4, <2>3, <2>5 DEF RoundRobin, d, h
  <2> QED BY <1>3, <2>6, <2>7
<1>6. CASE ~(CanSwitch(q) /\ q.priority[h] = q.priority[q.next])
  <2>1. RoundRobin(q) \in {q, m}
    BY <1>4, <1>6 DEF RoundRobin, d
  <2> QED BY <1>3, <2>1
<1> QED BY <1>5, <1>6

---------------------------------------------------------------------------
\* The end of a service

LEMMA ReturnRuns ==
  ASSUME NEW q, Runs(q, {})
  PROVE  LET r == Return(q)
         IN  /\ Runs(r, {}) /\ r.curr = r.next /\ r.next = q.next
             /\ r.state = q.state /\ r.priority = q.priority
<1> DEFINE r == Return(q)
<1>1. /\ r.state = q.state /\ r.ready = q.ready /\ r.priority = q.priority
      /\ r.delay_list = q.delay_list /\ r.wait_list = q.wait_list
      /\ r.delay = q.delay /\ r.next = q.next /\ r.curr = q.next
      /\ q.next \in Thread
  BY DEF Return, Runs, Typed
<1>2. Typed(r)
  BY <1>1 DEF Return, Runs, Typed
<1> HIDE DEF r
<1>3. Runs(r, {})
  BY <1>1, <1>2 DEF Runs, Placed
<1> QED BY <1>1, <1>3 DEF r

LEMMA Lower ==
  ASSUME NEW s, Sorted(s, 1)
  PROVE  Sorted(s, 0)
<1>1. \A t \in ToSet(s.delay_list) : t \in Thread
  BY RankTypes DEF Sorted, ToSet
<1>2. \A t \in ToSet(s.delay_list) : s.delay[t] >= 0
  BY <1>1 DEF Sorted
<1> QED BY <1>2 DEF Sorted

LEMMA ReturnSorted ==
  ASSUME NEW s, NEW low, Sorted(s, low)
  PROVE  Sorted(Return(s), low)
<1> DEFINE r == Return(s)
<1>1. Typed(s) /\ s.next \in Thread /\ Ascends(s.ready, Urgency(s))
  BY RankTypes DEF Sorted
<1>2. Typed(r) /\ SameDelays(s, r) /\ r.ready = s.ready
  BY <1>1 DEF Return, Typed, SameDelays
<1> HIDE DEF r
<1>3. Sorted(r, low)
  BY <1>1, <1>2, Relisted
<1> QED BY <1>3 DEF r

---------------------------------------------------------------------------
\* Threads that begin and end

\* A control block that becomes a thread.
Begun(q, t, p) == [q EXCEPT !.state[t] = "Ready", !.priority[t] = p, !.delay[t] = 0]

LEMMA NewThreadRuns ==
  ASSUME NEW k, Runs(k, {}), k.curr = k.next, NEW t \in Thread, k.state[t] = "Inactive",
         NEW p \in Nat
  PROVE  LET r == DispatchThread(Begun(k, t, p), t)
         IN  Runs(r, {}) /\ Frame(k, r, {t}) /\ r.state[t] \in {"Ready", "Running"}
<1> DEFINE m == [k EXCEPT !.state[t] = "Ready", !.priority[t] = p, !.delay[t] = 0]
           r == DispatchThread(m, t)
           V == {t}
<1>1. /\ Typed(k) /\ Placed(k, {}) /\ k.state \in [Thread -> ThreadState]
      /\ k.delay \in [Thread -> Int \cup {Forever}] /\ k.state[t] = "Inactive"
      /\ k.next # t /\ k.state[k.next] = "Running" /\ k.next \in Thread
      /\ k.curr = k.next /\ p \in Nat /\ 0 # Forever
  BY SchedulerAssumption DEF Runs, Typed
<1>2. /\ m.ready = k.ready /\ m.delay_list = k.delay_list /\ m.wait_list = k.wait_list
      /\ m.next = k.next /\ m.curr = k.curr
      /\ m.state = [k.state EXCEPT ![t] = "Ready"]
      /\ m.delay = [k.delay EXCEPT ![t] = 0]
  BY <1>1 DEF Typed
<1>3. Typed(m)
  <2> DEFINE ms == [k.state EXCEPT ![t] = "Ready"]
             mp == [k.priority EXCEPT ![t] = p]
             md == [k.delay EXCEPT ![t] = 0]
  <2>1. "Ready" \in ThreadState /\ k.priority \in [Thread -> Nat]
    BY <1>1 DEF ThreadState, Typed
  <2>2. /\ ms \in [Thread -> ThreadState] /\ mp \in [Thread -> Nat]
        /\ md \in [Thread -> Int \cup {Forever}]
    BY <1>1, <2>1
  <2>3. m = [k EXCEPT !.state = ms, !.priority = mp, !.delay = md]
    BY <1>1 DEF Typed
  <2> HIDE DEF m, ms, mp, md
  <2> QED BY <1>1, <2>2, <2>3 DEF Typed
<1> HIDE DEF m
<1>4. Placed(m, V)
  <2>1. m.delay[t] # Forever /\ \A u \in Thread : u # t =>
          m.state[u] = k.state[u] /\ m.delay[u] = k.delay[u]
    BY <1>1, <1>2
  <2>2. /\ t \notin ToSet(k.ready) /\ t \notin ToSet(k.delay_list)
        /\ t \notin ToSet(k.wait_list)
    BY <1>1 DEF Placed, BlockedStates, WaitStates
  <2> QED BY <1>1, <1>2, <2>1, <2>2 DEF Placed
<1>5. V \ {t} = {} /\ t \in V /\ k.next \notin V
  BY <1>1
<1> HIDE DEF V
<1>6. Runs(m, V) /\ m.curr = m.next
  BY <1>1, <1>2, <1>3, <1>4, <1>5 DEF Runs
<1>7. Runs(r, V \ {t}) /\ Frame(m, r, {t}) /\ r.state[t] \in {"Ready", "Running"}
  BY <1>5, <1>6, DispatchThreadRuns
<1> HIDE DEF r
<1>8. Frame(k, r, {t})
  BY <1>1, <1>2, <1>7 DEF Frame
<1> QED BY <1>5, <1>7, <1>8 DEF m, r, Begun

\* A new thread is in no list yet.
LEMMA NewThreadSorted ==
  ASSUME NEW s, Sorted(s, 1), Runs(s, {}), NEW t \in Thread, s.state[t] = "Inactive",
         NEW p \in Nat
  PROVE  LET m == Begun(s, t, p)
         IN  /\ Sorted(m, 1) /\ SameRun(s, m) /\ m.ready = s.ready
             /\ \A u \in Thread : u # t => m.priority[u] = s.priority[u]
<1> DEFINE m == [s EXCEPT !.state[t] = "Ready", !.priority[t] = p, !.delay[t] = 0]
           st == [s.state EXCEPT ![t] = "Ready"]
           pr == [s.priority EXCEPT ![t] = p]
           de == [s.delay EXCEPT ![t] = 0]
<1>1. s.state[t] = "Inactive"
  OBVIOUS
<1>2. Sorted(s, 1) /\ Runs(s, {})
  OBVIOUS
<1>3. /\ Typed(s) /\ s.state \in [Thread -> ThreadState] /\ s.priority \in [Thread -> Nat]
      /\ s.delay \in [Thread -> Int \cup {Forever}] /\ s.ready \in Seq(Thread)
      /\ Ascends(s.ready, Urgency(s))
  BY <1>2, RankTypes DEF Sorted
<1>4. /\ st \in [Thread -> ThreadState] /\ pr \in [Thread -> Nat]
      /\ de \in [Thread -> Int \cup {Forever}]
      /\ \A u \in Thread : u # t => pr[u] = s.priority[u] /\ de[u] = s.delay[u]
      /\ de[t] = 0
  <2>1. "Ready" \in ThreadState
    BY DEF ThreadState
  <2> QED BY <1>3, <2>1
<1>5. m = [s EXCEPT !.state = st, !.priority = pr, !.delay = de]
  BY <1>3 DEF Typed
<1>6. t \notin ToSet(s.ready) /\ t \notin ToSet(s.delay_list)
  BY <1>1, <1>2 DEF Runs, Placed, BlockedStates, WaitStates
<1> HIDE DEF m, st, pr, de
<1>7. /\ Typed(m) /\ m.priority = pr /\ m.delay = de
      /\ m.ready = s.ready /\ m.delay_list = s.delay_list /\ SameRun(s, m)
  BY <1>3, <1>4, <1>5 DEF Typed, SameRun
<1>8. /\ \A u \in ToSet(s.ready) : u \in Thread /\ u # t
      /\ \A u \in ToSet(s.delay_list) : u \in Thread /\ u # t
  BY <1>2, <1>6, RankTypes DEF Sorted, ToSet
<1>9. Ascends(m.ready, Urgency(m))
  <2>1. \A u \in ToSet(s.ready) : Urgency(m)[u] = Urgency(s)[u]
    BY <1>4, <1>7, <1>8 DEF Urgency
  <2> QED BY <1>3, <1>7, <2>1, SameAscends
<1>10. Ascends(m.delay_list, Due(m))
  <2>1. \A u \in ToSet(s.delay_list) : Due(m)[u] = Due(s)[u]
    BY <1>4, <1>7, <1>8 DEF Due
  <2>2. s.delay_list \in Seq(Thread) /\ Ascends(s.delay_list, Due(s))
    BY <1>2, RankTypes DEF Sorted
  <2> QED BY <1>7, <2>1, <2>2, SameAscends
<1>11. Sorted(m, 1)
  <2>1. \A u \in Thread : m.delay[u] \in Nat \cup {Forever}
    BY <1>2, <1>4, <1>7 DEF Sorted
  <2>2. \A u \in ToSet(m.delay_list) : m.delay[u] # Forever /\ m.delay[u] >= 1
    BY <1>2, <1>4, <1>7, <1>8 DEF Sorted
  <2>3. Distinct(m.delay_list)
    BY <1>2, <1>7 DEF Sorted
  <2> QED BY <1>7, <1>9, <1>10, <2>1, <2>2, <2>3 DEF Sorted
<1> QED BY <1>4, <1>7, <1>11 DEF m, Begun

\* A thread in no list, and not the next to run, ends.
LEMMA EndRuns ==
  ASSUME NEW q, NEW t \in Thread, NEW V, V = {t}, Runs(q, V)
  PROVE  LET r == [q EXCEPT !.state[t] = "Inactive"]
         IN  Runs(r, {}) /\ Frame(q, r, {t}) /\ r.state[t] = "Inactive"
<1> DEFINE r == [q EXCEPT !.state[t] = "Inactive"]
<1>1. /\ t \in V /\ V \ {t} = {} /\ q.state \in [Thread -> ThreadState] /\ q.next # t
      /\ Typed(q) /\ Placed(q, V) /\ "Inactive" \in ThreadState
  BY DEF Runs, Typed, ThreadState
<1>2. /\ Typed(r) /\ Placed(r, V) /\ SameRun(q, r)
      /\ r.state = [q.state EXCEPT ![t] = "Inactive"]
  BY <1>1, Recast
<1> HIDE DEF r
<1>3. r.state[t] = "Inactive" /\ \A u \in Thread : u # t => r.state[u] = q.state[u]
  BY <1>1, <1>2
<1>4. Placed(r, V \ {t})
  <2>1. r.state[t] \notin BlockedStates \cup {"Ready", "Running"}
    BY <1>3 DEF BlockedStates, WaitStates
  <2> QED BY <1>1, <1>2, <2>1, Land
<1>5. r.next \in Thread /\ r.state[r.next] = "Running"
  BY <1>1, <1>2, <1>3 DEF Runs, SameRun, Typed
<1>6. Runs(r, {}) /\ Frame(q, r, {t})
  BY <1>1, <1>2, <1>3, <1>4, <1>5 DEF Runs, Frame
<1> QED BY <1>3, <1>6 DEF r

LEMMA ExitRuns ==
  ASSUME NEW q, Runs(q, {}), q.curr = q.next, q.ready # <<>>
  PROVE  LET r == [SwitchToReady(q) EXCEPT !.state[q.curr] = "Inactive"]
         IN  Runs(r, {}) /\ Frame(q, r, {q.curr}) /\ r.state[q.curr] = "Inactive"
<1> DEFINE c == q.curr
           V == {} \cup {c}
           off == SwitchToReady(q)
           r == [off EXCEPT !.state[c] = "Inactive"]
<1>1. c \in Thread /\ q.state[c] = "Running" /\ c = q.next /\ Typed(q) /\ Placed(q, {})
  BY DEF Runs, Typed
<1> HIDE DEF c
<1>2. Placed(q, V) /\ V = {c} /\ q.next \in V
  BY <1>1, Lift DEF BlockedStates, WaitStates
<1> HIDE DEF V
<1>3. Runs(off, V) /\ Frame(q, off, {})
  BY <1>1, <1>2, SwitchToReadyRuns
<1> HIDE DEF off
<1>4. Runs(r, {}) /\ Frame(off, r, {c}) /\ r.state[c] = "Inactive"
  BY <1>1, <1>2, <1>3, EndRuns
<1> HIDE DEF r
<1>5. Frame(q, r, {c})
  BY <1>3, <1>4 DEF Frame
<1> QED BY <1>4, <1>5 DEF c, off, r

LEMMA TerminateRuns ==
  ASSUME NEW q, Runs(q, {}), q.curr = q.next, NEW t \in Thread, t # q.curr
  PROVE  LET r == [Dispatch(Unlist(q, t)) EXCEPT !.state[t] = "Inactive"]
         IN  Runs(r, {}) /\ Frame(q, r, {t}) /\ r.state[t] = "Inactive"
<1> DEFINE u == Unlist(q, t)
           V == {t}
           d == Dispatch(u)
           r == [d EXCEPT !.state[t] = "Inactive"]
<1>1. Runs(u, V) /\ SameRun(q, u) /\ u.state = q.state
  BY UnlistPlaced
<1> HIDE DEF u, V
<1>2. Runs(d, V) /\ Frame(u, d, {})
  BY <1>1, DispatchRuns DEF SameRun
<1> HIDE DEF d
<1>3. Runs(r, {}) /\ Frame(d, r, {t}) /\ r.state[t] = "Inactive"
  BY <1>2, EndRuns DEF V
<1> HIDE DEF r
<1>4. Frame(q, r, {t})
  BY <1>1, <1>2, <1>3 DEF Frame
<1> QED BY <1>3, <1>4 DEF u, d, r

---------------------------------------------------------------------------
\* What the scheduler leaves alone

\* r has the priorities of q.
Prioritised(q, r) == "priority" \in DOMAIN r /\ r.priority = q.priority

LEMMA BasicPriorities ==
  ASSUME NEW q, "priority" \in DOMAIN q, NEW t, NEW d, NEW s
  PROVE  /\ Prioritised(q, ReadyPut(q, t)) /\ Prioritised(q, Block(q, t))
         /\ Prioritised(q, Switch(q, t)) /\ Prioritised(q, [q EXCEPT !.ready = Tail(@)])
         /\ Prioritised(q, [q EXCEPT !.delay_list = Tail(@)])
         /\ Prioritised(q, DelayInsert(q, t, d)) /\ Prioritised(q, DelayRemove(q, t))
         /\ Prioritised(q, [q EXCEPT !.state[t] = s]) /\ Prioritised(q, Unlist(q, t))
         /\ Prioritised(q, [q EXCEPT !.kernel = s]) /\ Prioritised(q, Return(q))
         /\ Prioritised(q, CountDown(q)) /\ Prioritised(q, NewSlice(q, d))
<1>1. /\ Prioritised(q, ReadyPut(q, t)) /\ Prioritised(q, Block(q, t))
      /\ Prioritised(q, Switch(q, t)) /\ Prioritised(q, [q EXCEPT !.ready = Tail(@)])
      /\ Prioritised(q, [q EXCEPT !.delay_list = Tail(@)])
      /\ Prioritised(q, [q EXCEPT !.state[t] = s])
      /\ Prioritised(q, [q EXCEPT !.kernel = s]) /\ Prioritised(q, Return(q))
  BY DEF Prioritised, ReadyPut, Block, Switch, Return
<1>2. /\ Prioritised(q, DelayInsert(q, t, d)) /\ Prioritised(q, DelayRemove(q, t))
      /\ Prioritised(q, Unlist(q, t))
      /\ Prioritised(q, CountDown(q)) /\ Prioritised(q, NewSlice(q, d))
  BY DEF Prioritised, DelayInsert, DelayRemove, Unlist, CountDown, NewSlice
<1> QED
  BY <1>1, <1>2

LEMMA Chained ==
  ASSUME NEW q, NEW r, NEW s, Prioritised(q, r), Prioritised(r, s)
  PROVE  Prioritised(q, s) /\ "priority" \in DOMAIN r
BY DEF Prioritised

LEMMA DispatchPriorities ==
  ASSUME NEW q, "priority" \in DOMAIN q, NEW t
  PROVE  /\ Prioritised(q, SwitchToReady(q)) /\ Prioritised(q, Dispatch(q))
         /\ Prioritised(q, DispatchThread(q, t))
<1> DEFINE m == [q EXCEPT !.ready = Tail(@)]
<1>1. Prioritised(q, m) /\ Prioritised(q, q) /\ "priority" \in DOMAIN m
  BY BasicPriorities DEF Prioritised
<1>2. Prioritised(q, SwitchToReady(q))
  <2> HIDE DEF m
  <2>1. Prioritised(m, Switch(m, Head(q.ready)))
    BY <1>1, BasicPriorities
  <2>2. Prioritised(q, Switch(m, Head(q.ready)))
    BY <1>1, <2>1, Chained
  <2> QED
    BY <2>2 DEF SwitchToReady, m
<1>3. Prioritised(q, Dispatch(q))
  <2> DEFINE b == Block(m, q.curr)
  <2> HIDE DEF m
  <2>1. Prioritised(m, b) /\ "priority" \in DOMAIN b
    BY <1>1, BasicPriorities DEF Prioritised
  <2>2. Prioritised(b, Switch(b, Head(q.ready)))
    BY <2>1, BasicPriorities
  <2>3. Prioritised(q, Switch(b, Head(q.ready)))
    BY <1>1, <2>1, <2>2, Chained
  <2> QED
    BY <1>1, <2>3 DEF Dispatch, m
<1>4. Prioritised(q, DispatchThread(q, t))
  <2> DEFINE b == Block(q, q.curr)
  <2>1. Prioritised(q, b) /\ "priority" \in DOMAIN b
    BY BasicPriorities DEF Prioritised
  <2> HIDE DEF b
  <2>2. Prioritised(q, Switch(b, t)) /\ Prioritised(q, ReadyPut(q, t))
    BY <2>1, BasicPriorities, Chained
  <2> QED
    BY <2>2 DEF DispatchThread, b
<1> QED
  BY <1>2, <1>3, <1>4

LEMMA WaitPriorities ==
  ASSUME NEW q, "priority" \in DOMAIN q, NEW t, NEW d, NEW s
  PROVE  /\ Prioritised(q, WaitExit(q, t)) /\ Prioritised(q, Resume(q, t))
         /\ Prioritised(q, WaitExitDispatch(q, t))
         /\ Prioritised(q, WaitEnter(q, s, d)) /\ Prioritised(q, Suspend(q, t))
         /\ Prioritised(q, ReleaseHead(q))
<1>1. /\ Prioritised(q, WaitExit(q, t)) /\ Prioritised(q, Resume(q, t))
      /\ Prioritised(q, WaitExitDispatch(q, t))
  <2> DEFINE m == DelayRemove(q, t)
  <2>1. Prioritised(q, m) /\ "priority" \in DOMAIN m
    BY BasicPriorities DEF Prioritised
  <2> HIDE DEF m
  <2>2. Prioritised(m, ReadyPut(m, t)) /\ Prioritised(m, DispatchThread(m, t))
    BY <2>1, BasicPriorities, DispatchPriorities
  <2> QED
    BY <2>1, <2>2, Chained DEF WaitExit, Resume, WaitExitDispatch, m
<1>2. Prioritised(q, WaitEnter(q, s, d))
  <2> DEFINE m == [q EXCEPT !.state[q.curr] = s]
             n == DelayInsert(m, q.curr, d)
  <2>1. Prioritised(q, m) /\ "priority" \in DOMAIN m
    BY BasicPriorities DEF Prioritised
  <2> HIDE DEF m
  <2>2. Prioritised(m, n) /\ "priority" \in DOMAIN n
    BY <2>1, BasicPriorities DEF Prioritised
  <2> HIDE DEF n
  <2>3. Prioritised(n, SwitchToReady(n))
    BY <2>2, DispatchPriorities
  <2>4. Prioritised(q, SwitchToReady(n))
    BY <2>1, <2>2, <2>3, Chained
  <2> QED
    BY <2>4 DEF WaitEnter, n, m
<1>3. Prioritised(q, Suspend(q, t))
  <2> DEFINE off == IF q.state[t] = "Running" THEN SwitchToReady(q) ELSE Unlist(q, t)
             m == [off EXCEPT !.state[t] = "Blocked"]
             n == DelayInsert(m, t, Forever)
  <2>1. Prioritised(q, off) /\ "priority" \in DOMAIN off
    BY BasicPriorities, DispatchPriorities DEF Prioritised
  <2> HIDE DEF off
  <2>2. Prioritised(off, m) /\ "priority" \in DOMAIN m
    BY <2>1, BasicPriorities DEF Prioritised
  <2> HIDE DEF m
  <2>3. Prioritised(m, n)
    BY <2>2, BasicPriorities
  <2>4. Prioritised(q, n)
    BY <2>1, <2>2, <2>3, Chained
  <2> QED
    BY <2>4 DEF Suspend, n, m, off
<1>4. Prioritised(q, ReleaseHead(q))
  <2> DEFINE m == [q EXCEPT !.delay_list = Tail(@)]
  <2>1. Prioritised(q, m) /\ "priority" \in DOMAIN m
    BY BasicPriorities DEF Prioritised
  <2> HIDE DEF m
  <2>2. Prioritised(m, ReadyPut(m, Head(q.delay_list)))
    BY <2>1, BasicPriorities
  <2>3. Prioritised(q, ReadyPut(m, Head(q.delay_list)))
    BY <2>1, <2>2, Chained
  <2> QED
    BY <2>3 DEF ReleaseHead, m
<1> QED
  BY <1>1, <1>2, <1>3, <1>4

LEMMA RoundRobinPriorities ==
  ASSUME NEW q, "priority" \in DOMAIN q
  PROVE  Prioritised(q, RoundRobin(q))
<1> DEFINE ticked == [q EXCEPT !.robin = q.next, !.delay[q.next] = SliceLeft(q)]
           m == [ticked EXCEPT !.ready = Tail(@)]
           n == ReadyPut(m, q.next)
           s == Switch(n, Head(q.ready))
           r == [s EXCEPT !.robin = Head(q.ready), !.delay[Head(q.ready)] = RobinTimeout]
<1>1. Prioritised(q, q) /\ Prioritised(q, ticked) /\ "priority" \in DOMAIN ticked
  BY DEF Prioritised
<1> HIDE DEF ticked
<1>2. Prioritised(ticked, m) /\ "priority" \in DOMAIN m
  BY <1>1, BasicPriorities DEF Prioritised
<1> HIDE DEF m
<1>3. Prioritised(m, n) /\ "priority" \in DOMAIN n
  BY <1>2, BasicPriorities DEF Prioritised
<1> HIDE DEF n
<1>4. Prioritised(n, s) /\ "priority" \in DOMAIN s
  BY <1>3, BasicPriorities DEF Prioritised
<1> HIDE DEF s
<1>5. Prioritised(s, r)
  BY <1>4 DEF Prioritised
<1> HIDE DEF r
<1>6. Prioritised(q, r)
  BY <1>1, <1>2, <1>3, <1>4, <1>5, Chained
<1> QED
  BY <1>1, <1>6 DEF RoundRobin, ticked, m, n, s, r

\* The services do not touch the lock of the kernel.
LEMMA KernelStays ==
  ASSUME NEW q, Typed(q), NEW t, NEW d, NEW s
  PROVE  /\ Resume(q, t).kernel = q.kernel /\ DispatchThread(q, t).kernel = q.kernel
         /\ WaitEnter(q, s, d).kernel = q.kernel /\ Suspend(q, t).kernel = q.kernel
         /\ SetPriority(q, t, s).kernel = q.kernel /\ RoundRobin(q).kernel = q.kernel
         /\ SwitchToReady(q).kernel = q.kernel
<1>1. \A m : "kernel" \in DOMAIN m =>
        SwitchToReady(m).kernel = m.kernel /\ Dispatch(m).kernel = m.kernel
  BY DEF SwitchToReady, Dispatch, Switch, Block
<1>2. \A m : "kernel" \in DOMAIN m => DispatchThread(m, t).kernel = m.kernel
  BY DEF DispatchThread, ReadyPut, Switch, Block
<1>3. \A m : "kernel" \in DOMAIN m =>
        /\ DelayRemove(m, t).kernel = m.kernel /\ "kernel" \in DOMAIN DelayRemove(m, t)
        /\ Unlist(m, t).kernel = m.kernel /\ "kernel" \in DOMAIN Unlist(m, t)
  BY DEF DelayRemove, Unlist
<1>4. \A m, c, e : "kernel" \in DOMAIN m =>
        DelayInsert(m, c, e).kernel = m.kernel /\ "kernel" \in DOMAIN DelayInsert(m, c, e)
  BY DEF DelayInsert
<1>5. "kernel" \in DOMAIN q
  BY DEF Typed
<1>6. Resume(q, t).kernel = q.kernel
  BY <1>2, <1>3, <1>5 DEF Resume
<1>7. WaitEnter(q, s, d).kernel = q.kernel
  BY <1>1, <1>4, <1>5 DEF WaitEnter
<1>8. Suspend(q, t).kernel = q.kernel
  <2> DEFINE off == IF q.state[t] = "Running" THEN SwitchToReady(q) ELSE Unlist(q, t)
             m   == [off EXCEPT !.state[t] = "Blocked"]
  <2>1. "kernel" \in DOMAIN off /\ off.kernel = q.kernel
    <3>1. "kernel" \in DOMAIN SwitchToReady(q)
      BY <1>5 DEF SwitchToReady, Switch
    <3> QED
      BY <1>1, <1>3, <1>5, <3>1
  <2> HIDE DEF off
  <2>2. "kernel" \in DOMAIN m /\ m.kernel = q.kernel
    BY <2>1
  <2> HIDE DEF m
  <2> QED
    BY <1>4, <2>2 DEF Suspend, m, off
<1>9. SetPriority(q, t, s).kernel = q.kernel
  <2> DEFINE m == Reranked(q, t, s)
  <2>1. "kernel" \in DOMAIN m /\ m.kernel = q.kernel /\ SetPriority(q, t, s) = Dispatch(m)
    BY <1>5 DEF Reranked, SetPriority
  <2> HIDE DEF m
  <2> QED
    BY <1>1, <2>1
<1>10. RoundRobin(q).kernel = q.kernel
  BY <1>5 DEF RoundRobin, Switch, ReadyPut
<1> QED
  BY <1>1, <1>2, <1>5, <1>6, <1>7, <1>8, <1>9, <1>10

LEMMA WithoutShorter ==
  ASSUME NEW l \in Seq(Thread), NEW t \in Thread
  PROVE  Len(Without(l, t)) <= Len(l) /\ (Without(l, t) # <<>> => l # <<>>)
<1>1. CASE t \notin ToSet(l)
  BY <1>1 DEF Without
<1>2. CASE t \in ToSet(l)
  <2> DEFINE i == CHOOSE j \in DOMAIN l : l[j] = t
  <2>1. i \in 1 .. Len(l)
    BY <1>2 DEF ToSet
  <2> HIDE DEF i
  <2>2. Len(RemoveAt(l, i)) = Len(l) - 1
    BY <2>1, RemoveAtIndex
  <2>3. Without(l, t) = RemoveAt(l, i)
    BY <1>2 DEF Without, i
  <2>4. Len(l) \in Nat /\ l # <<>>
    BY <2>1
  <2> QED
    BY <2>2, <2>3, <2>4
<1> QED
  BY <1>1, <1>2

---------------------------------------------------------------------------
\* The waiting threads

\* With the scheduler q, the lists w of the objects O and v, which of them threads
\* may wait for: a thread in one of the states W is in the list of exactly one
\* object, one of v; each list is ordered by priority.
Waiting(O, W, q, w, v) ==
  /\ W \subseteq WaitStates
  /\ w \in [O -> Seq(Thread)]
  /\ \A o \in O : /\ Distinct(w[o])
                  /\ w[o] # <<>> => v[o]
                  /\ Ascends(w[o], Urgency(q))
  /\ \A t \in Thread : q.state[t] \in W <=> \E o \in O : t \in ToSet(w[o])
  /\ \A o, p \in O : o # p => ToSet(w[o]) \cap ToSet(w[p]) = {}

\* The lists x have nobody that the lists w do not have.
Fewer(O, x, w) ==
  \A o \in O : Len(x[o]) <= Len(w[o]) /\ ToSet(x[o]) \subseteq ToSet(w[o])

LEMMA Waiter ==
  ASSUME NEW O, NEW W, NEW q, NEW w, NEW v, Waiting(O, W, q, w, v), NEW o \in O,
         NEW t \in ToSet(w[o])
  PROVE  /\ t \in Thread /\ w[o] \in Seq(Thread)
         /\ q.state[t] \in W /\ q.state[t] \in BlockedStates
         /\ \A p \in O : t \in ToSet(w[p]) => p = o
<1>1. w[o] \in Seq(Thread) /\ t \in Thread
  BY DEF Waiting, ToSet
<1>2. q.state[t] \in W /\ \A p \in O : t \in ToSet(w[p]) => p = o
  BY <1>1 DEF Waiting
<1> QED
  BY <1>1, <1>2 DEF Waiting, BlockedStates

LEMMA EmptyWaits ==
  ToSet(<<>>) = {} /\ Distinct(<<>>) /\ \A rank : Ascends(<<>>, rank)
BY DEF ToSet, Distinct, Ascends

\* Threads change that wait for no object, before and after.
LEMMA WaitsStand ==
  ASSUME NEW O, NEW W, NEW q, NEW w, NEW v, Waiting(O, W, q, w, v), NEW r, NEW S,
         Frame(q, r, S),
         \A t \in Thread : t \notin S => r.priority[t] = q.priority[t],
         \A t \in Thread : t \in S => /\ q.state[t] \notin W
                                      /\ r.state[t] \notin W
  PROVE  Waiting(O, W, r, w, v)
<1>1. ASSUME NEW t \in Thread
      PROVE  r.state[t] \in W <=> q.state[t] \in W
  <2>1. W \subseteq WaitStates
    BY DEF Waiting
  <2> QED
    BY <2>1 DEF Frame, WaitStates
<1>2. ASSUME NEW o \in O  PROVE Ascends(w[o], Urgency(r))
  <2>1. Ascends(w[o], Urgency(q)) /\ w[o] \in Seq(Thread)
    BY DEF Waiting
  <2>2. ASSUME NEW t \in ToSet(w[o])  PROVE Urgency(r)[t] = Urgency(q)[t]
    <3>1. t \in Thread /\ q.state[t] \in W
      BY Waiter
    <3>2. r.priority[t] = q.priority[t]
      BY <3>1
    <3> QED
      BY <3>1, <3>2 DEF Urgency
  <2>3. \A t \in ToSet(w[o]) : Urgency(r)[t] = Urgency(q)[t]
    BY <2>2
  <2> QED
    BY <2>1, <2>3, SameAscends
<1> QED
  BY <1>1, <1>2 DEF Waiting

\* A thread stops waiting, whatever it waited for, as osRtxThreadListRemove does.
LEMMA WaitsLeave ==
  ASSUME NEW O, NEW W, NEW q, NEW w, NEW v, Waiting(O, W, q, w, v), Typed(q), NEW r,
         NEW t \in Thread,
         Frame(q, r, {t}), r.priority = q.priority, r.state[t] \notin W
  PROVE  LET x == [o \in O |-> Without(w[o], t)]
         IN  Waiting(O, W, r, x, v) /\ Fewer(O, x, w)
<1> DEFINE x == [o \in O |-> Without(w[o], t)]
<1>1. ASSUME NEW o \in O
      PROVE  /\ w[o] \in Seq(Thread) /\ x[o] \in Seq(Thread) /\ ToSet(x[o]) = ToSet(w[o]) \ {t}
             /\ Distinct(x[o]) /\ Len(x[o]) <= Len(w[o]) /\ (x[o] # <<>> => v[o])
             /\ Ascends(x[o], Urgency(r))
  <2>1. /\ w[o] \in Seq(Thread) /\ Distinct(w[o]) /\ (w[o] # <<>> => v[o])
        /\ Ascends(w[o], Urgency(q))
    BY DEF Waiting
  <2>2. Urgency(r) = Urgency(q) /\ Urgency(q) \in [Thread -> Int]
    BY RankTypes DEF Urgency
  <2>3. x[o] = Without(w[o], t)
    OBVIOUS
  <2> HIDE DEF x
  <2>4. x[o] \in Seq(Thread) /\ ToSet(x[o]) = ToSet(w[o]) \ {t} /\ Distinct(x[o])
    BY <2>1, <2>3, WithoutSet
  <2>5. Ascends(x[o], Urgency(r))
    BY <2>1, <2>2, <2>3, WithoutAscends
  <2>6. Len(x[o]) <= Len(w[o]) /\ (x[o] # <<>> => w[o] # <<>>)
    BY <2>1, <2>3, WithoutShorter
  <2> QED
    BY <2>1, <2>4, <2>5, <2>6
<1>2. x \in [O -> Seq(Thread)]
  BY <1>1
<1> HIDE DEF x
<1>3. ASSUME NEW u \in Thread
      PROVE  r.state[u] \in W <=> \E o \in O : u \in ToSet(x[o])
  <2>1. CASE u = t
    BY <1>1, <2>1
  <2>2. CASE u # t
    <3>1. r.state[u] \in W <=> q.state[u] \in W
      <4>1. W \subseteq WaitStates
        BY DEF Waiting
      <4> QED
        BY <2>2, <4>1 DEF Frame, WaitStates
    <3>2. \A o \in O : u \in ToSet(x[o]) <=> u \in ToSet(w[o])
      BY <1>1, <2>2
    <3> QED
      BY <3>1, <3>2 DEF Waiting
  <2> QED
    BY <2>1, <2>2
<1>4. \A o, p \in O : o # p => ToSet(x[o]) \cap ToSet(x[p]) = {}
  BY <1>1 DEF Waiting
<1>5. Waiting(O, W, r, x, v)
  BY <1>1, <1>2, <1>3, <1>4 DEF Waiting
<1>6. Fewer(O, x, w)
  BY <1>1 DEF Fewer
<1> QED
  BY <1>5, <1>6 DEF x

\* Some thread enters the list of an object and waits.
LEMMA WaitsJoin ==
  ASSUME NEW O, NEW W, NEW q, NEW w, NEW v, Waiting(O, W, q, w, v), Typed(q), NEW r,
         NEW t \in Thread,
         q.state[t] \notin W, Frame(q, r, {t}), r.priority = q.priority,
         r.state[t] \in W, NEW o \in O, v[o]
  PROVE  LET x == [w EXCEPT ![o] = ListPut(q, @, t)]
         IN  Waiting(O, W, r, x, v)
<1> DEFINE S == {u \in Thread : q.priority[u] >= q.priority[t]}
           l == ListPut(q, w[o], t)
           x == [w EXCEPT ![o] = l]
<1>1. /\ w \in [O -> Seq(Thread)] /\ w[o] \in Seq(Thread) /\ Distinct(w[o])
      /\ Ascends(w[o], Urgency(q)) /\ t \notin ToSet(w[o])
  BY DEF Waiting
<1>2. Urgency(r) = Urgency(q) /\ Urgency(q) \in [Thread -> Int]
  BY RankTypes DEF Urgency
<1>3. \A u \in ToSet(w[o]) : /\ u \in S => Urgency(q)[u] <= Urgency(q)[t]
                             /\ u \notin S => Urgency(q)[t] <= Urgency(q)[u]
  <2>1. q.priority \in [Thread -> Nat] /\ \A u \in ToSet(w[o]) : u \in Thread
    BY <1>1, RankTypes DEF ToSet
  <2> QED
    BY <2>1 DEF Urgency
<1>4. l = InsertAt(w[o], PastPrefix(w[o], S), t)
  BY DEF ListPut
<1> HIDE DEF l, S
<1>5. l \in Seq(Thread) /\ ToSet(l) = ToSet(w[o]) \cup {t} /\ Ascends(l, Urgency(r))
  BY <1>1, <1>2, <1>3, <1>4, PlaceAscends
<1>6. Distinct(l)
  <2>1. PastPrefix(w[o], S) \in 1 .. Len(w[o]) + 1
    BY <1>1, PastPrefixIndex
  <2> QED
    BY <1>1, <1>4, <2>1, InsertSet
<1>7. x \in [O -> Seq(Thread)] /\ x[o] = l /\ \A p \in O : p # o => x[p] = w[p]
  BY <1>1, <1>5
<1> HIDE DEF x
<1>8. ASSUME NEW p \in O
      PROVE  Distinct(x[p]) /\ (x[p] # <<>> => v[p]) /\ Ascends(x[p], Urgency(r))
  BY <1>2, <1>5, <1>6, <1>7 DEF Waiting
<1>9. ASSUME NEW u \in Thread
      PROVE  r.state[u] \in W <=> \E p \in O : u \in ToSet(x[p])
  <2>1. CASE u = t
    BY <1>5, <1>7, <2>1
  <2>2. CASE u # t
    <3>1. r.state[u] \in W <=> q.state[u] \in W
      <4>1. W \subseteq WaitStates
        BY DEF Waiting
      <4> QED
        BY <2>2, <4>1 DEF Frame, WaitStates
    <3>2. \A p \in O : u \in ToSet(x[p]) <=> u \in ToSet(w[p])
      BY <1>5, <1>7, <2>2
    <3> QED
      BY <3>1, <3>2 DEF Waiting
  <2> QED
    BY <2>1, <2>2
<1>10. ASSUME NEW p \in O, NEW s \in O, p # s
       PROVE  ToSet(x[p]) \cap ToSet(x[s]) = {}
  <2>1. t \notin ToSet(w[p]) /\ t \notin ToSet(w[s])
    BY DEF Waiting
  <2>2. ToSet(w[p]) \cap ToSet(w[s]) = {}
    BY <1>10 DEF Waiting
  <2>3. /\ ToSet(x[p]) = IF p = o THEN ToSet(w[p]) \cup {t} ELSE ToSet(w[p])
        /\ ToSet(x[s]) = IF s = o THEN ToSet(w[s]) \cup {t} ELSE ToSet(w[s])
    BY <1>5, <1>7
  <2> QED
    BY <1>10, <2>1, <2>2, <2>3
<1>11. Waiting(O, W, r, x, v)
  BY <1>7, <1>8, <1>9, <1>10 DEF Waiting
<1> QED
  BY <1>11 DEF x, l

\* The first thread of a list stops waiting, as osRtxThreadListGet does.
LEMMA WaitsPop ==
  ASSUME NEW O, NEW W, NEW q, NEW w, NEW v, Waiting(O, W, q, w, v), Typed(q),
         NEW o \in O, w[o] # <<>>,
         NEW r, Frame(q, r, {Head(w[o])}), r.priority = q.priority,
         r.state[Head(w[o])] \notin W
  PROVE  LET x == [w EXCEPT ![o] = Tail(@)]
         IN  Waiting(O, W, r, x, v)
<1> DEFINE h == Head(w[o])
           l == Tail(w[o])
           x == [w EXCEPT ![o] = l]
<1>1. /\ w \in [O -> Seq(Thread)] /\ w[o] \in Seq(Thread) /\ Distinct(w[o]) /\ v[o]
      /\ Ascends(w[o], Urgency(q))
  BY DEF Waiting
<1>2. Urgency(r) = Urgency(q) /\ Urgency(q) \in [Thread -> Int]
  BY RankTypes DEF Urgency
<1>3. /\ l \in Seq(Thread) /\ h \in ToSet(w[o]) /\ ToSet(l) = ToSet(w[o]) \ {h}
      /\ Distinct(l)
  BY <1>1, TailSet
<1>4. Ascends(l, Urgency(r))
  BY <1>1, <1>2, TailAscends
<1>5. \A p \in O : h \in ToSet(w[p]) => p = o
  BY <1>3, Waiter
<1>6. Frame(q, r, {h}) /\ r.state[h] \notin W
  OBVIOUS
<1> HIDE DEF l, h
<1>7. x \in [O -> Seq(Thread)] /\ x[o] = l /\ \A p \in O : p # o => x[p] = w[p]
  BY <1>1, <1>3
<1> HIDE DEF x
<1>8. ASSUME NEW p \in O
      PROVE  Distinct(x[p]) /\ (x[p] # <<>> => v[p]) /\ Ascends(x[p], Urgency(r))
  BY <1>1, <1>2, <1>3, <1>4, <1>7 DEF Waiting
<1>9. ASSUME NEW p \in O  PROVE ToSet(x[p]) = ToSet(w[p]) \ {h}
  BY <1>3, <1>5, <1>7
<1>10. ASSUME NEW u \in Thread
       PROVE  r.state[u] \in W <=> \E p \in O : u \in ToSet(x[p])
  <2>1. CASE u = h
    BY <1>6, <1>9, <2>1
  <2>2. CASE u # h
    <3>1. r.state[u] \in W <=> q.state[u] \in W
      <4>1. W \subseteq WaitStates
        BY DEF Waiting
      <4> QED
        BY <1>6, <2>2, <4>1 DEF Frame, WaitStates
    <3>2. \A p \in O : u \in ToSet(x[p]) <=> u \in ToSet(w[p])
      BY <1>9, <2>2
    <3> QED
      BY <3>1, <3>2 DEF Waiting
  <2> QED
    BY <2>1, <2>2
<1>11. \A p, s \in O : p # s => ToSet(x[p]) \cap ToSet(x[s]) = {}
  BY <1>9 DEF Waiting
<1>12. Waiting(O, W, r, x, v)
  BY <1>7, <1>8, <1>10, <1>11 DEF Waiting
<1> QED
  BY <1>12 DEF x, l

\* The same states and priorities, whatever else changes.
LEMMA WaitsSame ==
  ASSUME NEW O, NEW W, NEW q, NEW w, NEW v, Waiting(O, W, q, w, v), NEW r,
         r.state = q.state,
         r.priority = q.priority
  PROVE  Waiting(O, W, r, w, v)
BY DEF Waiting, Urgency

\* A thread changes its priority, and its place if it waits.
LEMMA WaitsSort ==
  ASSUME NEW O, NEW W, NEW q, NEW w, NEW v, Waiting(O, W, q, w, v), Typed(q),
         NEW t \in Thread, NEW p \in Nat,
         NEW r, Frame(q, r, {}), r.priority = [q.priority EXCEPT ![t] = p]
  PROVE  LET m == [q EXCEPT !.priority[t] = p]
             x == [o \in O |-> ListSort(m, w[o], t)]
         IN  Waiting(O, W, r, x, v) /\ Fewer(O, x, w)
<1> DEFINE m == [q EXCEPT !.priority[t] = p]
           x == [o \in O |-> ListSort(m, w[o], t)]
<1>1. ASSUME NEW o \in O
      PROVE  /\ x[o] \in Seq(Thread) /\ ToSet(x[o]) = ToSet(w[o]) /\ Len(x[o]) = Len(w[o])
             /\ Len(w[o]) \in Nat
             /\ Distinct(x[o]) /\ (x[o] # <<>> => v[o]) /\ Ascends(x[o], Urgency(r))
  <2>1. /\ w[o] \in Seq(Thread) /\ Distinct(w[o]) /\ (w[o] # <<>> => v[o])
        /\ Ascends(w[o], Urgency(q))
    BY DEF Waiting
  <2>2. x[o] = ListSort(m, w[o], t)
    OBVIOUS
  <2>3. m.priority = r.priority
    BY <2>1, ListSortAscends
  <2>4. Urgency(m) = Urgency(r)
    BY <2>3 DEF Urgency
  <2> HIDE DEF x
  <2>5. /\ x[o] \in Seq(Thread) /\ Len(x[o]) = Len(w[o]) /\ ToSet(x[o]) = ToSet(w[o])
        /\ Distinct(x[o]) /\ Ascends(x[o], Urgency(r))
    BY <2>1, <2>2, <2>4, ListSortAscends
  <2>6. x[o] # <<>> => w[o] # <<>>
    BY <2>1, <2>5
  <2> QED
    BY <2>1, <2>5, <2>6
<1>2. x \in [O -> Seq(Thread)]
  BY <1>1
<1> HIDE DEF x
<1>3. ASSUME NEW u \in Thread
      PROVE  r.state[u] \in W <=> \E o \in O : u \in ToSet(x[o])
  <2>1. r.state[u] \in W <=> q.state[u] \in W
    <3>1. W \subseteq WaitStates
      BY DEF Waiting
    <3> QED
      BY <3>1 DEF Frame, WaitStates
  <2> QED
    BY <1>1, <2>1 DEF Waiting
<1>4. \A o, s \in O : o # s => ToSet(x[o]) \cap ToSet(x[s]) = {}
  BY <1>1 DEF Waiting
<1>5. Waiting(O, W, r, x, v)
  BY <1>1, <1>2, <1>3, <1>4 DEF Waiting
<1>6. Fewer(O, x, w)
  BY <1>1 DEF Fewer
<1> QED
  BY <1>5, <1>6 DEF x

\* A new object has no threads waiting.
LEMMA WaitsNew ==
  ASSUME NEW O, NEW W, NEW q, NEW w, NEW v \in [O -> BOOLEAN], Waiting(O, W, q, w, v),
         NEW o \in O, ~v[o]
  PROVE  LET x == [w EXCEPT ![o] = <<>>]
         IN  x = w /\ Waiting(O, W, q, x, [v EXCEPT ![o] = TRUE])
<1>1. w \in [O -> Seq(Thread)] /\ w[o] = <<>>
  BY DEF Waiting
<1>2. [w EXCEPT ![o] = <<>>] = w
  BY <1>1
<1>3. ASSUME NEW p \in O, v[p]  PROVE [v EXCEPT ![o] = TRUE][p]
  BY <1>3
<1>4. Waiting(O, W, q, w, [v EXCEPT ![o] = TRUE])
  BY <1>3 DEF Waiting
<1> QED
  BY <1>2, <1>4

\* The threads of a list stop waiting, all of them, and the object is deleted.
LEMMA WaitsEmpty ==
  ASSUME NEW O, NEW W, NEW q, NEW w, NEW v \in [O -> BOOLEAN], Waiting(O, W, q, w, v),
         NEW o \in O,
         NEW r, Frame(q, r, ToSet(w[o])), r.priority = q.priority,
         \A t \in ToSet(w[o]) : r.state[t] \notin W
  PROVE  Waiting(O, W, r, [w EXCEPT ![o] = <<>>], [v EXCEPT ![o] = FALSE])
<1> DEFINE x == [w EXCEPT ![o] = <<>>]
           y == [v EXCEPT ![o] = FALSE]
<1>1. w \in [O -> Seq(Thread)]
  BY DEF Waiting
<1>2. /\ x \in [O -> Seq(Thread)] /\ x[o] = <<>>
      /\ \A p \in O : p # o => x[p] = w[p] /\ y[p] = v[p]
  BY <1>1
<1> HIDE DEF x, y
<1>3. ASSUME NEW p \in O
      PROVE  /\ Distinct(x[p]) /\ Ascends(x[p], Urgency(r)) /\ (x[p] # <<>> => y[p])
  <2>1. CASE p = o
    BY <1>2, <2>1, EmptyWaits
  <2>2. CASE p # o
    <3>1. Urgency(r) = Urgency(q)
      BY DEF Urgency
    <3> QED
      BY <1>2, <2>2, <3>1 DEF Waiting
  <2> QED
    BY <2>1, <2>2
<1>4. ToSet(x[o]) = {} /\ \A p \in O : p # o => ToSet(x[p]) = ToSet(w[p])
  BY <1>2, EmptyWaits
<1>5. \A p, s \in O : p # s => ToSet(x[p]) \cap ToSet(x[s]) = {}
  BY <1>4 DEF Waiting
<1>6. ASSUME NEW u \in Thread
      PROVE  r.state[u] \in W <=> \E p \in O : u \in ToSet(x[p])
  <2>1. q.state[u] \in W <=> \E p \in O : u \in ToSet(w[p])
    BY DEF Waiting
  <2>2. CASE u \in ToSet(w[o])
    <3>1. \A p \in O : u \in ToSet(w[p]) => p = o
      BY <2>2, Waiter
    <3> QED
      BY <1>4, <2>2, <3>1
  <2>3. CASE u \notin ToSet(w[o])
    <3>1. r.state[u] \in W <=> q.state[u] \in W
      <4>1. W \subseteq WaitStates
        BY DEF Waiting
      <4> QED
        BY <2>3, <4>1 DEF Frame, WaitStates
    <3>2. (\E p \in O : u \in ToSet(x[p])) <=> \E p \in O : u \in ToSet(w[p])
      BY <1>4, <2>3
    <3> QED
      BY <2>1, <3>1, <3>2
  <2> QED
    BY <2>2, <2>3
<1>7. Waiting(O, W, r, x, y)
  BY <1>2, <1>3, <1>5, <1>6 DEF Waiting
<1> QED
  BY <1>7 DEF x, y

---------------------------------------------------------------------------
\* Deletion

\* Of list the first n threads are awake that waited in k, the others wait.
Wakes(k, list, n, q) ==
  /\ Runs(q, {}) /\ Sorted(q, 1) /\ SameRun(k, q) /\ q.priority = k.priority
  /\ Frame(k, q, {list[i] : i \in 1 .. n})
  /\ \A i \in 1 .. n : q.state[list[i]] = "Ready"
  /\ \A i \in n + 1 .. Len(list) : q.state[list[i]] \in BlockedStates

LEMMA WakesNext ==
  ASSUME NEW k, NEW list \in Seq(Thread), Distinct(list), NEW n \in Nat, n + 1 <= Len(list),
         NEW q, Wakes(k, list, n, q)
  PROVE  Wakes(k, list, n + 1, WaitExit(q, list[n + 1])) /\ Typed(WaitExit(q, list[n + 1]))
<1> DEFINE t == list[n + 1]
           r == WaitExit(q, t)
<1>1. /\ n + 1 \in DOMAIN list /\ t \in Thread /\ q.state[t] \in BlockedStates
      /\ Len(list) \in Nat
  BY DEF Wakes
<1>2. \A i \in DOMAIN list : i # n + 1 => list[i] # t
  BY <1>1 DEF Distinct
<1> HIDE DEF t
<1>3. Typed(q) /\ Placed(q, {}) /\ q.state[q.next] = "Running" /\ q.state \in [Thread -> ThreadState]
  BY RankTypes DEF Wakes, Runs
<1>4. /\ Typed(r) /\ Placed(r, {}) /\ SameRun(q, r)
      /\ r.state = [q.state EXCEPT ![t] = "Ready"]
  BY <1>1, <1>3, WaitExitPlaced
<1>5. Sorted(r, 1)
  BY <1>1, WaitExitSorted DEF Wakes
<1>6. r.priority = k.priority
  <2>1. "priority" \in DOMAIN q
    BY <1>3 DEF Typed
  <2>2. Prioritised(q, r)
    BY <2>1, WaitPriorities
  <2> QED
    BY <2>2 DEF Prioritised, Wakes
<1> HIDE DEF r
<1>7. q.next # t /\ q.next \in Thread
  BY <1>1, <1>3, RankTypes DEF BlockedStates, WaitStates
<1>8. Runs(r, {}) /\ SameRun(k, r)
  BY <1>1, <1>3, <1>4, <1>7 DEF Runs, SameRun, Wakes
<1>9. Frame(k, r, {list[i] : i \in 1 .. n + 1})
  <2> DEFINE A == {list[i] : i \in 1 .. n}
             B == {list[i] : i \in 1 .. n + 1}
  <2>1. A \subseteq B /\ t \in B
    BY DEF t
  <2>2. Frame(k, q, A)
    BY DEF Wakes
  <2> HIDE DEF A, B
  <2>3. \A u \in Thread \ B : r.state[u] = q.state[u]
    BY <1>3, <1>4, <2>1
  <2>4. Frame(k, r, B)
    BY <2>1, <2>2, <2>3 DEF Frame
  <2> QED
    BY <2>4 DEF B
<1>10. ASSUME NEW i \in 1 .. n + 1  PROVE r.state[list[i]] = "Ready"
  <2>1. CASE i = n + 1
    BY <1>1, <1>3, <1>4, <2>1 DEF t
  <2>2. CASE i # n + 1
    <3>1. i \in 1 .. n /\ i \in DOMAIN list
      BY <1>1, <2>2
    <3>2. q.state[list[i]] = "Ready" /\ list[i] # t /\ list[i] \in Thread
      BY <1>2, <2>2, <3>1 DEF Wakes
    <3> QED
      BY <1>3, <1>4, <3>2
  <2> QED
    BY <2>1, <2>2
<1>11. ASSUME NEW i \in (n + 1) + 1 .. Len(list)  PROVE r.state[list[i]] \in BlockedStates
  <2>1. i \in n + 1 .. Len(list) /\ i \in DOMAIN list /\ i # n + 1
    BY <1>1
  <2>2. q.state[list[i]] \in BlockedStates /\ list[i] # t /\ list[i] \in Thread
    BY <1>2, <2>1 DEF Wakes
  <2> QED
    BY <1>3, <1>4, <2>2
<1>12. Wakes(k, list, n + 1, r)
  BY <1>5, <1>6, <1>8, <1>9, <1>10, <1>11 DEF Wakes
<1> QED
  BY <1>4, <1>12 DEF r, t

\* Deletion wakes the threads of the list, all of them, and no other.
LEMMA WokenWakes ==
  ASSUME NEW k, Runs(k, {}), Sorted(k, 1), NEW list \in Seq(Thread), Distinct(list),
         \A t \in ToSet(list) : k.state[t] \in BlockedStates
  PROVE  Wakes(k, list, Len(list), Woken(k, list))
<1> DEFINE N == Len(list)
           S == [state : [Thread -> ThreadState], priority : [Thread -> Nat],
                 delay : [Thread -> Int \cup {Forever}],
                 ready : Seq(Thread), delay_list : Seq(Thread), wait_list : Seq(Thread),
                 curr : Thread, next : Thread, robin : Thread \cup {NoThread},
                 kernel : {"Running", "Locked"}]
           Awake(q, n) == IF Typed(WaitExit(q, list[n])) THEN WaitExit(q, list[n]) ELSE k
           step == [n \in Nat |-> [q \in S |-> Awake(q, n)]]
           Goes(g) == g = [n \in 0 .. N |-> IF n = 0 THEN k ELSE WaitExit(g[n - 1], list[n])]
           w == CHOOSE g : Goes(g)
<1>1. N \in Nat /\ \A n \in 1 .. N : n \in DOMAIN list /\ list[n] \in ToSet(list)
  BY DEF ToSet
<1>2. k \in S /\ \A q : Typed(q) <=> q \in S
  BY DEF Typed, Runs
<1>3. Wakes(k, list, 0, k)
  <2>1. \A i \in 0 + 1 .. Len(list) : k.state[list[i]] \in BlockedStates
    BY <1>1
  <2>2. {list[i] : i \in 1 .. 0} = {} /\ Frame(k, k, {}) /\ SameRun(k, k)
    BY DEF Frame, SameRun
  <2> QED
    BY <2>1, <2>2 DEF Wakes
<1>4. ASSUME NEW n \in Nat, n + 1 <= N, NEW q, Wakes(k, list, n, q)
      PROVE  Wakes(k, list, n + 1, WaitExit(q, list[n + 1])) /\ Typed(WaitExit(q, list[n + 1]))
  BY <1>4, WakesNext
<1> HIDE DEF N, S
<1>5. \E g : Goes(g)
  <2>1. step \in [Nat -> [S -> S]]
    BY <1>2
  <2>2. PICK f \in [Nat -> S] : Recurs(f, k, step)
    <3> HIDE DEF step
    <3> QED
      BY <1>2, <2>1, Recursion
  <2> HIDE DEF Awake
  <2>3. f[0] = k /\ \A n \in Nat : f[n + 1] = Awake(f[n], n + 1)
    <3>1. ASSUME NEW n \in Nat  PROVE f[n + 1] = Awake(f[n], n + 1)
      <4>1. f[n + 1] = step[n + 1][f[n]] /\ n + 1 \in Nat /\ f[n] \in S
        <5> HIDE DEF step
        <5>1. f[n + 1] = step[n + 1][f[n]]
          BY <2>2 DEF Recurs
        <5>2. n + 1 \in Nat /\ f[n] \in S
          OBVIOUS
        <5> QED
          BY <5>1, <5>2
      <4>2. step[n + 1][f[n]] = Awake(f[n], n + 1)
        BY <4>1
      <4> QED
        BY <4>1, <4>2
    <3> QED
      BY <2>2, <3>1 DEF Recurs
  <2> DEFINE P == {n \in Nat : n <= N => Wakes(k, list, n, f[n])}
  <2>4. ASSUME NEW n \in Nat, n + 1 <= N, Wakes(k, list, n, f[n])
        PROVE  /\ f[n + 1] = WaitExit(f[n], list[n + 1])
               /\ Wakes(k, list, n + 1, f[n + 1])
    <3>1. Wakes(k, list, n + 1, WaitExit(f[n], list[n + 1])) /\ Typed(WaitExit(f[n], list[n + 1]))
      BY <1>4, <2>4
    <3>2. f[n + 1] = Awake(f[n], n + 1)
      BY <2>3
    <3> QED
      BY <3>1, <3>2 DEF Awake
  <2>5. Nat \subseteq P
    <3>1. 0 \in P
      BY <1>3, <2>3
    <3>2. ASSUME NEW n \in Nat, n \in P  PROVE n + 1 \in P
      <4>1. n + 1 <= N => n <= N
        BY <1>1
      <4> QED
        BY <2>4, <3>2, <4>1
    <3> HIDE DEF P
    <3> QED
      BY <3>1, <3>2, SetInduction
  <2> DEFINE g == [n \in 0 .. N |-> f[n]]
  <2>6. ASSUME NEW n \in 0 .. N
        PROVE  g[n] = IF n = 0 THEN k ELSE WaitExit(g[n - 1], list[n])
    <3>1. CASE n = 0
      BY <2>3, <3>1, <1>1
    <3>2. CASE n # 0
      <4> DEFINE m == n - 1
      <4>1. m \in Nat /\ m + 1 = n /\ m \in 0 .. N /\ m + 1 <= N /\ m <= N
        BY <3>2, <1>1
      <4> HIDE DEF m
      <4>2. Wakes(k, list, m, f[m])
        BY <2>5, <4>1
      <4>3. f[m + 1] = WaitExit(f[m], list[m + 1])
        BY <2>4, <4>1, <4>2
      <4>4. g[m] = f[m] /\ g[n] = f[m + 1]
        BY <4>1
      <4> QED
        BY <3>2, <4>1, <4>3, <4>4 DEF m
    <3> QED
      BY <3>1, <3>2
  <2> HIDE DEF g
  <2>7. Goes(g)
    <3>1. g = [n \in 0 .. N |-> g[n]]
      BY DEF g
    <3> QED
      BY <2>6, <3>1
  <2> QED
    BY <2>7
<1>6. Goes(w)
  <2> HIDE DEF Goes
  <2> QED
    BY <1>5
<1>7. Woken(k, list) = w[N]
  BY DEF Woken, N
<1> HIDE DEF w
<1>8. w[0] = k /\ \A n \in 1 .. N : w[n] = WaitExit(w[n - 1], list[n])
  BY <1>1, <1>6
<1> HIDE DEF Goes
<1> DEFINE P == {n \in Nat : n <= N => Wakes(k, list, n, w[n])}
<1>9. Nat \subseteq P
  <2>1. 0 \in P
    BY <1>3, <1>8
  <2>2. ASSUME NEW n \in Nat, n \in P  PROVE n + 1 \in P
    <3>1. n + 1 <= N => n <= N /\ n + 1 \in 1 .. N /\ (n + 1) - 1 = n
      BY <1>1
    <3>2. ASSUME n + 1 <= N  PROVE Wakes(k, list, n + 1, w[n + 1])
      <4>1. w[n + 1] = WaitExit(w[n], list[n + 1])
        BY <1>8, <3>1, <3>2
      <4> QED
        BY <1>4, <2>2, <3>1, <3>2, <4>1
    <3> QED
      BY <3>2
  <2> HIDE DEF P
  <2> QED
    BY <2>1, <2>2, SetInduction
<1> QED
  BY <1>1, <1>7, <1>9 DEF N
===========================================================================
