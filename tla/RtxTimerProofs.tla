--------------------------- MODULE RtxTimerProofs ---------------------------
(***************************************************************************)
(* Proofs about RtxTimer, for any finite set of timers: each expires after *)
(* exactly its ticks, whatever the timers before it in the list do.        *)
(***************************************************************************)
EXTENDS RtxTimer, ListFacts

Lists == [list : Seq(Timer), tick : [Timer -> Nat], load : [Timer -> Nat],
          state : [Timer -> {"Inactive", "Stopped", "Running"}],
          type : [Timer -> {"Once", "Periodic"}]]

\* Whether a timer is in the list once at most.
Apart(l) == \A i, j \in DOMAIN l.list : l.list[i] = l.list[j] => i = j

---------------------------------------------------------------------------
\* The time left of the n-th timer: the sum of the ticks up to it.

LEMMA LeftAt ==
  ASSUME NEW l \in Lists
  PROVE  /\ Left(l) \in [1 .. Len(l.list) -> Nat]
         /\ l.list # <<>> => Left(l)[1] = l.tick[Head(l.list)]
         /\ \A i \in 1 .. Len(l.list) - 1 : Left(l)[i + 1] = Left(l)[i] + l.tick[l.list[i + 1]]
<1> DEFINE N == Len(l.list)
           own(n) == IF n \in 1 .. N THEN l.tick[l.list[n]] ELSE 0
           step == [n \in Nat |-> [x \in Nat |-> x + own(n)]]
           Sum(f) == f = [n \in 0 .. N |-> IF n = 0 THEN 0 ELSE f[n - 1] + l.tick[l.list[n]]]
           sum == CHOOSE f : Sum(f)
<1>1. N \in Nat /\ \A n \in 1 .. N : l.list[n] \in Timer /\ l.tick[l.list[n]] \in Nat
  BY DEF Lists
<1> HIDE DEF N
<1>2. \E f : Sum(f)
  <2>1. step \in [Nat -> [Nat -> Nat]]
    BY <1>1
  <2>2. PICK f \in [Nat -> Nat] : Recurs(f, 0, step)
    <3> HIDE DEF step
    <3> QED BY <2>1, Recursion
  <2> DEFINE g == [n \in 0 .. N |-> f[n]]
  <2>3. ASSUME NEW n \in 0 .. N
        PROVE  g[n] = IF n = 0 THEN 0 ELSE g[n - 1] + l.tick[l.list[n]]
    <3>1. CASE n = 0
      BY <2>2, <3>1, <1>1 DEF Recurs
    <3>2. CASE n # 0
      <4>1. n - 1 \in Nat /\ (n - 1) + 1 = n /\ n - 1 \in 0 .. N /\ n \in 1 .. N
        BY <3>2, <1>1
      <4>2. f[n] = step[n][f[n - 1]]
        BY <2>2, <4>1 DEF Recurs
      <4>3. f[n] = f[n - 1] + own(n)
        BY <4>1, <4>2, <2>2
      <4> QED BY <4>1, <4>3, <3>2
    <3> QED BY <3>1, <3>2
  <2> HIDE DEF g
  <2>4. Sum(g)
    <3>1. g = [n \in 0 .. N |-> g[n]]
      BY DEF g
    <3> QED BY <2>3, <3>1
  <2> QED BY <2>4
<1> HIDE DEF step
<1>3. Sum(sum)
  <2> HIDE DEF Sum
  <2> QED BY <1>2
<1>4. Left(l) = [n \in 1 .. N |-> sum[n]]
  BY DEF Left, N
<1> HIDE DEF sum
<1>5. /\ sum[0] = 0
      /\ \A n \in 1 .. N : sum[n] = sum[n - 1] + l.tick[l.list[n]]
  BY <1>1, <1>3
<1> HIDE DEF Sum
<1> DEFINE P == {n \in Nat : n <= N => sum[n] \in Nat}
<1>6. Nat \subseteq P
  <2>1. 0 \in P
    BY <1>5
  <2>2. ASSUME NEW n \in Nat, n \in P  PROVE n + 1 \in P
    <3>1. n + 1 <= N => n + 1 \in 1 .. N /\ (n + 1) - 1 = n
      BY <1>1
    <3> QED BY <1>1, <1>5, <2>2, <3>1
  <2> HIDE DEF P
  <2> QED BY <2>1, <2>2, SetInduction
<1>7. \A n \in 0 .. N : sum[n] \in Nat
  BY <1>6
<1>8. Left(l) \in [1 .. N -> Nat]
  BY <1>4, <1>7
<1>9. ASSUME l.list # <<>>  PROVE Left(l)[1] = l.tick[Head(l.list)]
  <2>1. 1 \in 1 .. N /\ l.list[1] = Head(l.list)
    BY <1>9 DEF N, Lists
  <2>2. sum[1] = sum[1 - 1] + l.tick[l.list[1]]
    BY <1>5, <2>1
  <2> QED BY <1>1, <1>4, <1>5, <2>1, <2>2
<1>10. ASSUME NEW i \in 1 .. N - 1
       PROVE  Left(l)[i + 1] = Left(l)[i] + l.tick[l.list[i + 1]]
  <2>1. i + 1 \in 1 .. N /\ (i + 1) - 1 = i /\ i \in 1 .. N
    BY <1>1
  <2> QED BY <1>4, <1>5, <2>1
<1> QED BY <1>8, <1>9, <1>10 DEF N

\* Nothing else adds up like it.
LEMMA LeftUnique ==
  ASSUME NEW l \in Lists, NEW f \in [1 .. Len(l.list) -> Int],
         l.list # <<>> => f[1] = l.tick[Head(l.list)],
         \A i \in 1 .. Len(l.list) - 1 : f[i + 1] = f[i] + l.tick[l.list[i + 1]]
  PROVE  Left(l) = f
<1> DEFINE N == Len(l.list)
           P == {n \in Nat : n \in 1 .. N => Left(l)[n] = f[n]}
<1>1. N \in Nat /\ (N > 0 => l.list # <<>>)
  BY DEF Lists
<1>2. /\ Left(l) \in [1 .. N -> Nat]
      /\ l.list # <<>> => Left(l)[1] = l.tick[Head(l.list)]
      /\ \A i \in 1 .. N - 1 : Left(l)[i + 1] = Left(l)[i] + l.tick[l.list[i + 1]]
  BY LeftAt
<1>3. /\ f \in [1 .. N -> Int]
      /\ \A i \in 1 .. N - 1 : f[i + 1] = f[i] + l.tick[l.list[i + 1]]
  OBVIOUS
<1> HIDE DEF N
<1>4. 0 \in P
  OBVIOUS
<1>5. ASSUME NEW n \in Nat, n \in P  PROVE n + 1 \in P
  <2>1. CASE n = 0
    BY <1>1, <1>2, <2>1
  <2>2. CASE n # 0 /\ n + 1 \in 1 .. N
    <3>1. n \in 1 .. N - 1 /\ n \in 1 .. N
      BY <1>1, <2>2
    <3> QED BY <1>2, <1>3, <1>5, <3>1
  <2> QED BY <2>1, <2>2
<1> HIDE DEF P
<1>6. Nat \subseteq P
  BY <1>4, <1>5, SetInduction
<1>7. \A n \in 1 .. N : Left(l)[n] = f[n]
  BY <1>6 DEF P
<1>8. Left(l) = [n \in 1 .. N |-> Left(l)[n]] /\ f = [n \in 1 .. N |-> f[n]]
  BY <1>2, <1>3
<1> QED BY <1>7, <1>8

\* It grows along the list.
LEMMA LeftRises ==
  ASSUME NEW l \in Lists, NEW i \in 1 .. Len(l.list), NEW j \in 1 .. Len(l.list), i <= j
  PROVE  Left(l)[i] <= Left(l)[j]
<1> DEFINE N == Len(l.list)
           P == {n \in Nat : i <= n /\ n <= N => Left(l)[i] <= Left(l)[n]}
<1>1. N \in Nat /\ \A n \in 1 .. N : l.tick[l.list[n]] \in Nat
  BY DEF Lists
<1>2. /\ Left(l) \in [1 .. N -> Nat]
      /\ \A n \in 1 .. N - 1 : Left(l)[n + 1] = Left(l)[n] + l.tick[l.list[n + 1]]
  BY LeftAt
<1>3. i \in 1 .. N /\ j \in 1 .. N
  OBVIOUS
<1> HIDE DEF N
<1>4. 0 \in P
  OBVIOUS
<1>5. ASSUME NEW n \in Nat, n \in P  PROVE n + 1 \in P
  <2>1. CASE i <= n /\ n + 1 <= N
    <3>1. n \in 1 .. N - 1 /\ n \in 1 .. N /\ n + 1 \in 1 .. N
      BY <1>1, <2>1
    <3>2. Left(l)[n] \in Nat /\ l.tick[l.list[n + 1]] \in Nat /\ Left(l)[i] \in Nat
      BY <1>1, <1>2, <1>3, <3>1
    <3>3. Left(l)[i] <= Left(l)[n] /\ Left(l)[n + 1] = Left(l)[n] + l.tick[l.list[n + 1]]
      BY <1>1, <1>2, <1>5, <2>1, <3>1
    <3> QED BY <3>2, <3>3
  <2>2. CASE ~(i <= n) /\ i <= n + 1
    <3>1. i = n + 1
      BY <2>2
    <3> QED BY <1>2, <1>3, <3>1
  <2> QED BY <2>1, <2>2
<1> HIDE DEF P
<1>6. Nat \subseteq P
  BY <1>4, <1>5, SetInduction
<1> QED BY <1>1, <1>3, <1>6 DEF P, N

---------------------------------------------------------------------------
\* The time left of each timer, by timer.

Till(l) ==
  [t \in Timer |-> IF t \in ToSet(l.list)
                   THEN Left(l)[CHOOSE i \in DOMAIN l.list : l.list[i] = t] ELSE NoTimer]

LEMMA ListTypes ==
  ASSUME NEW l \in Lists
  PROVE  /\ l.list \in Seq(Timer) /\ Len(l.list) \in Nat /\ DOMAIN l.list = 1 .. Len(l.list)
         /\ \A i \in 1 .. Len(l.list) : l.list[i] \in Timer
         /\ ToSet(l.list) = {l.list[i] : i \in 1 .. Len(l.list)}
         /\ l.tick \in [Timer -> Nat] /\ l.load \in [Timer -> Nat]
         /\ l.state \in [Timer -> {"Inactive", "Stopped", "Running"}]
         /\ l.type \in [Timer -> {"Once", "Periodic"}]
  BY DEF Lists, ToSet

LEMMA ListsTimers ==
  ASSUME NEW l \in Lists
  PROVE  ToSet(l.list) \subseteq Timer
<1>1. /\ ToSet(l.list) = {l.list[i] : i \in 1 .. Len(l.list)}
      /\ \A i \in 1 .. Len(l.list) : l.list[i] \in Timer
  BY ListTypes
<1> QED BY <1>1

LEMMA TillAt ==
  ASSUME NEW l \in Lists, Apart(l)
  PROVE  /\ Till(l) \in [Timer -> Nat \cup {NoTimer}]
         /\ \A i \in 1 .. Len(l.list) : Till(l)[l.list[i]] = Left(l)[i]
         /\ \A t \in Timer \ ToSet(l.list) : Till(l)[t] = NoTimer
<1>1. /\ DOMAIN l.list = 1 .. Len(l.list) /\ \A i \in 1 .. Len(l.list) : l.list[i] \in Timer
      /\ ToSet(l.list) = {l.list[i] : i \in 1 .. Len(l.list)}
  BY ListTypes
<1>2. Left(l) \in [1 .. Len(l.list) -> Nat]
  BY LeftAt
<1> DEFINE at(t) == CHOOSE i \in 1 .. Len(l.list) : l.list[i] = t
<1>3. \A i \in 1 .. Len(l.list) : at(l.list[i]) = i
  BY <1>1 DEF Apart
<1>4. Till(l) = [t \in Timer |-> IF t \in ToSet(l.list) THEN Left(l)[at(t)] ELSE NoTimer]
  BY <1>1 DEF Till
<1> HIDE DEF at
<1>5. ASSUME NEW i \in 1 .. Len(l.list)  PROVE Till(l)[l.list[i]] = Left(l)[i]
  BY <1>1, <1>3, <1>4
<1>6. ASSUME NEW t \in Timer  PROVE Till(l)[t] \in Nat \cup {NoTimer}
  <2>1. CASE t \in ToSet(l.list)
    <3>1. PICK i \in 1 .. Len(l.list) : t = l.list[i]
      BY <1>1, <2>1
    <3> QED BY <1>2, <1>5, <3>1
  <2> QED BY <1>4, <2>1
<1> QED BY <1>4, <1>5, <1>6

\* Who comes first has the least time left, which is his own ticks.
LEMMA TillHead ==
  ASSUME NEW l \in Lists, Apart(l), l.list # <<>>
  PROVE  /\ Head(l.list) \in ToSet(l.list)
         /\ Till(l)[Head(l.list)] = l.tick[Head(l.list)]
         /\ \A t \in ToSet(l.list) : Till(l)[t] \in Nat /\ Till(l)[t] >= l.tick[Head(l.list)]
<1>0. l.list \in Seq(Timer) /\ ToSet(l.list) = {l.list[i] : i \in 1 .. Len(l.list)}
  BY ListTypes
<1>1. 1 \in 1 .. Len(l.list) /\ Head(l.list) = l.list[1] /\ Len(l.list) \in Nat
  BY <1>0
<1>2. /\ \A i \in 1 .. Len(l.list) : Till(l)[l.list[i]] = Left(l)[i]
      /\ Left(l)[1] = l.tick[Head(l.list)] /\ Left(l) \in [1 .. Len(l.list) -> Nat]
  BY TillAt, LeftAt
<1>3. ASSUME NEW t \in ToSet(l.list)
      PROVE  Till(l)[t] \in Nat /\ Till(l)[t] >= l.tick[Head(l.list)]
  <2>1. PICK i \in 1 .. Len(l.list) : t = l.list[i]
    BY <1>0
  <2>2. Left(l)[1] <= Left(l)[i]
    BY <1>1, LeftRises
  <2> QED BY <1>2, <2>1, <2>2
<1>4. Head(l.list) \in ToSet(l.list)
  BY <1>0, <1>1
<1> QED BY <1>1, <1>2, <1>3, <1>4

\* A list whose timers have the time given is described by that time.
LEMMA TillIs ==
  ASSUME NEW l \in Lists, Apart(l), NEW f,
         f = [t \in Timer |-> f[t]],
         \A i \in 1 .. Len(l.list) : f[l.list[i]] = Left(l)[i],
         \A t \in Timer \ ToSet(l.list) : f[t] = NoTimer
  PROVE  Till(l) = f
<1>1. /\ Till(l) \in [Timer -> Nat \cup {NoTimer}]
      /\ \A i \in 1 .. Len(l.list) : Till(l)[l.list[i]] = Left(l)[i]
      /\ \A t \in Timer \ ToSet(l.list) : Till(l)[t] = NoTimer
  BY TillAt
<1>2. ToSet(l.list) = {l.list[i] : i \in 1 .. Len(l.list)}
  BY ListTypes
<1>3. \A t \in Timer : Till(l)[t] = f[t]
  BY <1>1, <1>2
<1> QED BY <1>1, <1>3

---------------------------------------------------------------------------
\* The list and the clock: what each operator does to the time left.

Kept(l, r) == r.load = l.load /\ r.state = l.state /\ r.type = l.type

\* TimerInsert stops behind the timers that expire before the new one or with it.
LEMMA BehindEarlier ==
  ASSUME NEW l \in Lists, NEW ticks \in Nat
  PROVE  LET n == Cardinality({i \in DOMAIN l.list : Left(l)[i] <= ticks})
         IN  /\ n \in 0 .. Len(l.list)
             /\ \A i \in 1 .. Len(l.list) : Left(l)[i] <= ticks <=> i <= n
<1> DEFINE N == Len(l.list)
           S == {i \in DOMAIN l.list : Left(l)[i] <= ticks}
           T == {m \in 0 .. N : m < N => Left(l)[m + 1] > ticks}
<1>1. N \in Nat /\ DOMAIN l.list = 1 .. N
  BY ListTypes
<1>2. Left(l) \in [1 .. N -> Nat]
  BY LeftAt
<1>3. \A i, j \in 1 .. N : i <= j => Left(l)[i] <= Left(l)[j]
  BY LeftRises
<1> HIDE DEF N
<1>4. T \subseteq Nat /\ T # {}
  <2>1. N \in T
    BY <1>1
  <2>2. T \subseteq 0 .. N /\ 0 .. N \subseteq Nat
    BY <1>1
  <2> HIDE DEF T
  <2> QED BY <2>1, <2>2
<1>5. PICK m \in T : \A y \in T : m <= y
  <2> HIDE DEF T
  <2> QED BY <1>4, LeastNumber
<1>6. m \in 0 .. N /\ (m < N => Left(l)[m + 1] > ticks)
  OBVIOUS
<1>7. ASSUME NEW i \in 1 .. N  PROVE Left(l)[i] <= ticks <=> i <= m
  <2>1. CASE i <= m
    <3>1. i - 1 \in 0 .. N /\ i - 1 \notin T /\ (i - 1) + 1 = i /\ i - 1 < N
      BY <1>1, <1>5, <1>6, <2>1
    <3> QED BY <1>2, <2>1, <3>1
  <2>2. CASE ~(i <= m)
    <3>1. m + 1 \in 1 .. N /\ m + 1 <= i /\ m < N
      BY <1>1, <1>6, <2>2
    <3>2. Left(l)[m + 1] <= Left(l)[i]
      BY <1>3, <3>1
    <3> QED BY <1>2, <1>6, <2>2, <3>1, <3>2
  <2> QED BY <2>1, <2>2
<1>8. S = 1 .. m
  BY <1>1, <1>6, <1>7
<1>9. Cardinality(1 .. m) = m
  <2>1. m \in Nat /\ 1 \in Int /\ m \in Int
    BY <1>6
  <2>2. Cardinality(1 .. m) = IF 1 > m THEN 0 ELSE m - 1 + 1
    BY <2>1, FS_Interval
  <2> QED BY <2>1, <2>2
<1> QED BY <1>6, <1>7, <1>8, <1>9 DEF N

\* InsertAtIndex and RemoveAtIndex for lists of timers.
\* What r is that comes of s with x put at i.
InsertedAt(r, s, i, x) ==
  /\ r \in Seq(Timer) /\ Len(r) = Len(s) + 1
  /\ \A j \in 1 .. Len(s) + 1 : r[j] = IF j < i THEN s[j] ELSE IF j = i THEN x ELSE s[j - 1]

LEMMA TimerAt ==
  ASSUME NEW s \in Seq(Timer), NEW x \in Timer, NEW i \in 1 .. Len(s) + 1
  PROVE  InsertedAt(InsertAt(s, i, x), s, i, x)
  BY InsertAtIndex DEF InsertedAt

LEMMA TimerNotAt ==
  ASSUME NEW s \in Seq(Timer), NEW i \in 1 .. Len(s)
  PROVE  /\ RemoveAt(s, i) \in Seq(Timer)
         /\ Len(RemoveAt(s, i)) = Len(s) - 1
         /\ \A j \in 1 .. Len(s) - 1 :
              RemoveAt(s, i)[j] = IF j < i THEN s[j] ELSE s[j + 1]
  BY RemoveAtIndex

LEMMA TillInsert ==
  ASSUME NEW l \in Lists, Apart(l), NEW t \in Timer, t \notin ToSet(l.list), NEW ticks \in Nat
  PROVE  LET r == TimerInsert(l, t, ticks)
         IN  /\ r \in Lists /\ Apart(r) /\ Kept(l, r)
             /\ ToSet(r.list) = ToSet(l.list) \cup {t}
             /\ Till(r) = [Till(l) EXCEPT ![t] = ticks]
<1> DEFINE N    == Len(l.list)
           n    == Cardinality({i \in DOMAIN l.list : Left(l)[i] <= ticks})
           rest == IF n = 0 THEN ticks ELSE ticks - Left(l)[n]
           next == IF n < N THEN {l.list[n + 1]} ELSE {}
           tick == [u \in Timer |-> IF u = t THEN rest
                                    ELSE IF u \in next THEN l.tick[u] - rest ELSE l.tick[u]]
           list == InsertAt(l.list, n + 1, t)
           r    == [l EXCEPT !.list = list, !.tick = tick]
<1>0. /\ l.list \in Seq(Timer) /\ N \in Nat /\ DOMAIN l.list = 1 .. N
      /\ \A i \in 1 .. N : l.list[i] \in Timer
      /\ ToSet(l.list) = {l.list[i] : i \in 1 .. N} /\ l.tick \in [Timer -> Nat]
  BY ListTypes
<1>1. /\ l.list \in Seq(Timer) /\ N \in Nat /\ DOMAIN l.list = 1 .. N
      /\ \A i \in 1 .. N : l.list[i] \in Timer /\ l.list[i] # t
      /\ ToSet(l.list) = {l.list[i] : i \in 1 .. N} /\ l.tick \in [Timer -> Nat]
  BY <1>0
<1>2. n \in 0 .. N /\ \A i \in 1 .. N : Left(l)[i] <= ticks <=> i <= n
  BY BehindEarlier
<1>3. TimerInsert(l, t, ticks) = r
  BY DEF TimerInsert
<1>4. /\ Left(l) \in [1 .. N -> Nat]
      /\ N > 0 => Left(l)[1] = l.tick[l.list[1]]
      /\ \A i \in 1 .. N - 1 : Left(l)[i + 1] = Left(l)[i] + l.tick[l.list[i + 1]]
  BY <1>1, LeftAt
<1>5. \A i, j \in 1 .. N : l.list[i] = l.list[j] => i = j
  BY <1>1 DEF Apart
<1> HIDE DEF N, n
<1>6. /\ list \in Seq(Timer) /\ Len(list) = N + 1
      /\ \A j \in 1 .. N + 1 :
           list[j] = IF j < n + 1 THEN l.list[j] ELSE IF j = n + 1 THEN t ELSE l.list[j - 1]
  <2>1. n + 1 \in 1 .. Len(l.list) + 1
    BY <1>1, <1>2 DEF N
  <2>2. l.list \in Seq(Timer)
    BY <1>1
  <2> HIDE DEF rest, next, tick, r, list
  <2>3. PICK p \in 1 .. Len(l.list) + 1 : p = n + 1
    BY <2>1
  <2>4. PICK q \in Seq(Timer) : q = l.list
    BY <2>2
  <2>5. p \in 1 .. Len(q) + 1
    BY <2>4
  <2>6. InsertedAt(InsertAt(q, p, t), q, p, t)
    BY <2>5, TimerAt
  <2> QED BY <2>3, <2>4, <2>6 DEF N, list, InsertedAt
<1>7. rest \in Nat /\ (n > 0 => Left(l)[n] + rest = ticks) /\ (n = 0 => rest = ticks)
  BY <1>1, <1>2, <1>4
<1>8. ASSUME n < N
      PROVE  /\ l.tick[l.list[n + 1]] - rest \in Nat
             /\ ticks + (l.tick[l.list[n + 1]] - rest) = Left(l)[n + 1]
  <2>1. n + 1 \in 1 .. N /\ Left(l)[n + 1] > ticks /\ Left(l)[n + 1] \in Nat
    BY <1>1, <1>2, <1>4, <1>8
  <2>2. l.tick[l.list[n + 1]] \in Nat
    BY <1>1, <2>1
  <2>3. CASE n = 0
    <3>1. n + 1 = 1 /\ N > 0 /\ rest = ticks
      BY <1>1, <1>7, <1>8, <2>3
    <3>2. Left(l)[n + 1] = l.tick[l.list[n + 1]]
      BY <1>4, <3>1
    <3> QED BY <2>1, <2>2, <3>1, <3>2
  <2>4. CASE n # 0
    <3>1. n \in 1 .. N - 1 /\ n \in 1 .. N
      BY <1>1, <1>2, <1>8, <2>4
    <3>2. Left(l)[n + 1] = Left(l)[n] + l.tick[l.list[n + 1]] /\ Left(l)[n] \in Nat
      BY <1>4, <3>1
    <3> QED BY <1>7, <2>1, <2>2, <2>4, <3>2
  <2> QED BY <2>3, <2>4
<1> HIDE DEF rest
<1>9. ASSUME NEW u \in Timer  PROVE tick[u] \in Nat
  BY <1>1, <1>7, <1>8
<1>10. /\ tick[t] = rest
       /\ n < N => tick[l.list[n + 1]] = l.tick[l.list[n + 1]] - rest
       /\ \A i \in 1 .. N : i # n + 1 => tick[l.list[i]] = l.tick[l.list[i]]
  <2>1. n < N => n + 1 \in 1 .. N
    BY <1>1, <1>2
  <2> QED BY <1>1, <1>5, <2>1
<1>11. tick \in [Timer -> Nat]
  BY <1>9
<1> HIDE DEF tick, list
<1>12. /\ r \in Lists /\ Kept(l, r) /\ r.list = list /\ r.tick = tick
  BY <1>6, <1>11 DEF Lists, Kept
<1> HIDE DEF r
<1> DEFINE back(j) == IF j < n + 1 THEN j ELSE j - 1
<1>13. ASSUME NEW j \in 1 .. N + 1, j # n + 1
       PROVE  back(j) \in 1 .. N /\ list[j] = l.list[back(j)]
  <2>1. CASE j < n + 1
    BY <1>1, <1>2, <1>6, <2>1
  <2>2. CASE j > n + 1
    BY <1>1, <1>2, <1>6, <2>2
  <2> QED BY <1>1, <1>2, <1>13, <2>1, <2>2
<1>14. list[n + 1] = t /\ n + 1 \in 1 .. N + 1
  BY <1>1, <1>2, <1>6
<1>15. DOMAIN list = 1 .. N + 1
  BY <1>1, <1>6
<1>16. Apart(r)
  <2> SUFFICES ASSUME NEW i \in 1 .. N + 1, NEW j \in 1 .. N + 1, list[i] = list[j]
               PROVE  i = j
    BY <1>12, <1>15 DEF Apart
  <2>1. i = n + 1 <=> j = n + 1
    BY <1>1, <1>13, <1>14
  <2>2. CASE i # n + 1
    <3>1. back(i) = back(j)
      BY <1>5, <1>13, <2>1, <2>2
    <3> QED BY <1>1, <1>2, <2>1, <2>2, <3>1
  <2> QED BY <2>1, <2>2
<1> DEFINE on(i) == IF i < n + 1 THEN i ELSE i + 1
<1>17. \A i \in 1 .. N : on(i) \in 1 .. N + 1 /\ list[on(i)] = l.list[i]
  BY <1>1, <1>2, <1>6, SMTT(30)
<1>18. ToSet(list) = ToSet(l.list) \cup {t}
  <2>1. ToSet(list) = {list[i] : i \in 1 .. N + 1}
    BY <1>15 DEF ToSet
  <2>2. ToSet(list) \subseteq ToSet(l.list) \cup {t}
    BY <1>1, <1>13, <1>14, <2>1
  <2>3. ToSet(l.list) \subseteq ToSet(list)
    BY <1>1, <1>17, <2>1
  <2> QED BY <1>14, <2>1, <2>2, <2>3
<1> DEFINE left == [j \in 1 .. N + 1 |-> IF j < n + 1 THEN Left(l)[j]
                                         ELSE IF j = n + 1 THEN ticks ELSE Left(l)[j - 1]]
<1>19. \A j \in 1 .. N + 1 : left[j] \in Int
  BY <1>1, <1>2, <1>4
<1>20. left[1] = tick[list[1]]
  <2>1. CASE n = 0
    BY <1>1, <1>7, <1>10, <1>14, <2>1
  <2>2. CASE n # 0
    <3>1. 1 \in 1 .. N /\ 1 < n + 1 /\ 1 # n + 1 /\ 1 \in 1 .. N + 1
      BY <1>1, <1>2, <2>2
    <3> QED BY <1>1, <1>4, <1>6, <1>10, <3>1
  <2> QED BY <2>1, <2>2
<1>21. ASSUME NEW j \in 1 .. N
       PROVE  left[j + 1] = left[j] + tick[list[j + 1]]
  <2>0. j \in 1 .. N + 1 /\ j + 1 \in 1 .. N + 1
    BY <1>1
  <2>1. CASE j + 1 < n + 1
    <3>1. j \in 1 .. N - 1 /\ j + 1 \in 1 .. N /\ j < n + 1
      BY <1>1, <1>2, <2>1
    <3>2. list[j + 1] = l.list[j + 1] /\ tick[l.list[j + 1]] = l.tick[l.list[j + 1]]
      BY <1>6, <1>10, <2>0, <2>1, <3>1
    <3> QED BY <1>4, <2>0, <2>1, <3>1, <3>2
  <2>2. CASE j + 1 = n + 1
    <3>1. j = n /\ n > 0
      BY <1>2, <2>2
    <3> QED BY <1>4, <1>7, <1>10, <1>14, <2>0, <3>1
  <2>3. CASE j = n + 1
    <3>1. n < N /\ list[j + 1] = l.list[n + 1]
      <4>1. n < N /\ ~(j + 1 < n + 1) /\ j + 1 # n + 1 /\ (j + 1) - 1 = n + 1
        BY <1>1, <1>2, <2>3
      <4> QED BY <1>6, <2>0, <4>1
    <3>2. left[j + 1] = Left(l)[n + 1] /\ left[j] = ticks
      BY <1>2, <2>0, <2>3
    <3> QED BY <1>8, <1>10, <3>1, <3>2
  <2>4. CASE j > n + 1
    <3>0. /\ j - 1 \in 1 .. N - 1 /\ (j - 1) + 1 = j
          /\ ~(j < n + 1) /\ j # n + 1 /\ ~(j + 1 < n + 1) /\ j + 1 # n + 1 /\ (j + 1) - 1 = j
      BY <1>1, <1>2, <2>4
    <3>1. list[j + 1] = l.list[j]
      BY <1>6, <2>0, <3>0
    <3>2. tick[l.list[j]] = l.tick[l.list[j]]
      BY <1>10, <3>0
    <3>3. left[j + 1] = Left(l)[j] /\ left[j] = Left(l)[j - 1]
      BY <2>0, <3>0
    <3> QED BY <1>4, <3>0, <3>1, <3>2, <3>3
  <2> QED BY <1>1, <1>2, <2>1, <2>2, <2>3, <2>4
<1>22. left \in [1 .. N + 1 -> Int]
  BY <1>19
<1>23. \A i \in 1 .. N : left[on(i)] = Left(l)[i]
  BY <1>1, <1>2
<1>24. left[n + 1] = ticks
  BY <1>14
<1> HIDE DEF left
<1>25. Left(r) = left
  <2>1. Len(r.list) = N + 1 /\ Head(r.list) = r.list[1] /\ (N + 1) - 1 = N
    BY <1>1, <1>6, <1>12
  <2> QED BY <1>12, <1>20, <1>21, <1>22, <2>1, LeftUnique
<1> DEFINE f == [Till(l) EXCEPT ![t] = ticks]
<1>26. /\ Till(l) \in [Timer -> Nat \cup {NoTimer}]
       /\ \A i \in 1 .. N : Till(l)[l.list[i]] = Left(l)[i]
       /\ \A u \in Timer \ ToSet(l.list) : Till(l)[u] = NoTimer
  BY TillAt DEF N
<1>27. f = [u \in Timer |-> f[u]] /\ f[t] = ticks /\ \A u \in Timer : u # t => f[u] = Till(l)[u]
  BY <1>26
<1> HIDE DEF f
<1>28. ASSUME NEW j \in 1 .. N + 1  PROVE f[list[j]] = left[j]
  <2>1. CASE j = n + 1
    BY <1>14, <1>24, <1>27, <2>1
  <2>2. CASE j # n + 1
    <3>1. back(j) \in 1 .. N /\ list[j] = l.list[back(j)] /\ on(back(j)) = j
      BY <1>1, <1>2, <1>13, <2>2
    <3> HIDE DEF back, on
    <3> QED BY <1>1, <1>23, <1>26, <1>27, <3>1
  <2> QED BY <2>1, <2>2
<1>29. \A u \in Timer \ ToSet(list) : f[u] = NoTimer
  BY <1>18, <1>26, <1>27
<1>30. Till(r) = f
  <2>1. Len(r.list) = N + 1
    BY <1>6, <1>12
  <2>2. \A i \in 1 .. Len(r.list) : f[r.list[i]] = Left(r)[i]
    BY <1>12, <1>25, <1>28, <2>1
  <2>3. \A u \in Timer \ ToSet(r.list) : f[u] = NoTimer
    BY <1>12, <1>29
  <2>4. r \in Lists
    BY <1>12
  <2> QED BY <1>16, <1>27, <2>2, <2>3, <2>4, TillIs
<1> QED BY <1>3, <1>12, <1>16, <1>18, <1>30 DEF f, r

LEMMA TillRemove ==
  ASSUME NEW l \in Lists, Apart(l), NEW t \in ToSet(l.list)
  PROVE  LET r == TimerRemove(l, t)
         IN  /\ r \in Lists /\ Apart(r) /\ Kept(l, r)
             /\ ToSet(r.list) = ToSet(l.list) \ {t}
             /\ Till(r) = [Till(l) EXCEPT ![t] = NoTimer]
<1> DEFINE N    == Len(l.list)
           n    == CHOOSE i \in DOMAIN l.list : l.list[i] = t
           next == IF n < N THEN {l.list[n + 1]} ELSE {}
           tick == [u \in Timer |-> IF u \in next THEN l.tick[u] + l.tick[t] ELSE l.tick[u]]
           list == RemoveAt(l.list, n)
           r    == [l EXCEPT !.list = list, !.tick = tick]
<1>1. /\ l.list \in Seq(Timer) /\ N \in Nat /\ DOMAIN l.list = 1 .. N
      /\ \A i \in 1 .. N : l.list[i] \in Timer
      /\ ToSet(l.list) = {l.list[i] : i \in 1 .. N} /\ l.tick \in [Timer -> Nat]
  BY ListTypes
<1>2. n \in 1 .. N /\ l.list[n] = t /\ t \in Timer
  BY <1>1
<1>3. TimerRemove(l, t) = r
  BY DEF TimerRemove
<1>4. /\ Left(l) \in [1 .. N -> Nat]
      /\ Left(l)[1] = l.tick[l.list[1]]
      /\ \A i \in 1 .. N - 1 : Left(l)[i + 1] = Left(l)[i] + l.tick[l.list[i + 1]]
  BY <1>1, <1>2, LeftAt
<1>5. \A i, j \in 1 .. N : l.list[i] = l.list[j] => i = j
  BY <1>1 DEF Apart
<1> HIDE DEF N, n
<1>6. /\ list \in Seq(Timer) /\ Len(list) = N - 1
      /\ \A j \in 1 .. N - 1 : list[j] = IF j < n THEN l.list[j] ELSE l.list[j + 1]
  <2>1. n \in 1 .. Len(l.list)
    BY <1>2 DEF N
  <2> HIDE DEF tick, next, r, list
  <2>2. /\ RemoveAt(l.list, n) \in Seq(Timer)
        /\ Len(RemoveAt(l.list, n)) = Len(l.list) - 1
        /\ \A j \in 1 .. Len(l.list) - 1 :
             RemoveAt(l.list, n)[j] = IF j < n THEN l.list[j] ELSE l.list[j + 1]
    BY <1>1, <2>1, TimerNotAt
  <2> QED BY <2>2 DEF N, list
<1>7. ASSUME NEW u \in Timer  PROVE tick[u] \in Nat
  BY <1>1, <1>2
<1>8. /\ n < N => tick[l.list[n + 1]] = l.tick[l.list[n + 1]] + l.tick[t]
      /\ \A i \in 1 .. N : i # n + 1 => tick[l.list[i]] = l.tick[l.list[i]]
  <2>1. n < N => n + 1 \in 1 .. N
    BY <1>1, <1>2
  <2> QED BY <1>1, <1>5, <2>1
<1>9. tick \in [Timer -> Nat]
  BY <1>7
<1> HIDE DEF tick, list
<1>10. /\ r \in Lists /\ Kept(l, r) /\ r.list = list /\ r.tick = tick
  BY <1>6, <1>9 DEF Lists, Kept
<1> HIDE DEF r
<1> DEFINE from(j) == IF j < n THEN j ELSE j + 1
<1>11. \A j \in 1 .. N - 1 : from(j) \in 1 .. N /\ from(j) # n /\ list[j] = l.list[from(j)]
  BY <1>1, <1>2, <1>6, SMTT(30)
<1>12. DOMAIN list = 1 .. N - 1
  BY <1>1, <1>2, <1>6
<1>13. Apart(r)
  <2> SUFFICES ASSUME NEW i \in 1 .. N - 1, NEW j \in 1 .. N - 1, list[i] = list[j]
               PROVE  i = j
    BY <1>10, <1>12 DEF Apart
  <2>1. from(i) = from(j)
    BY <1>5, <1>11
  <2> QED BY <1>1, <1>2, <2>1
<1> DEFINE to(i) == IF i < n THEN i ELSE i - 1
<1>14. \A i \in 1 .. N : i # n => to(i) \in 1 .. N - 1 /\ from(to(i)) = i
  BY <1>1, <1>2
<1>15. ToSet(list) = ToSet(l.list) \ {t}
  <2>1. ToSet(list) = {list[i] : i \in 1 .. N - 1}
    BY <1>12 DEF ToSet
  <2> HIDE DEF from, to
  <2>2. \A j \in 1 .. N - 1 : list[j] \in ToSet(l.list) /\ list[j] # t
    BY <1>1, <1>2, <1>5, <1>11
  <2>3. \A i \in 1 .. N : l.list[i] # t => l.list[i] \in ToSet(list)
    BY <1>2, <1>11, <1>14, <2>1
  <2> QED BY <1>1, <2>1, <2>2, <2>3
<1> DEFINE left == [j \in 1 .. N - 1 |-> IF j < n THEN Left(l)[j] ELSE Left(l)[j + 1]]
<1>16. \A j \in 1 .. N - 1 : left[j] \in Int
  BY <1>1, <1>2, <1>4
<1>17. ASSUME N - 1 > 0  PROVE left[1] = tick[list[1]]
  <2>0. 1 \in 1 .. N - 1 /\ 1 \in 1 .. N /\ 1 # n + 1
    BY <1>1, <1>2, <1>17
  <2>1. CASE n = 1
    <3>1. 2 \in 1 .. N /\ n < N /\ n + 1 = 2 /\ 1 + 1 = 2
      BY <1>1, <1>17, <2>1
    <3>2. list[1] = l.list[2] /\ left[1] = Left(l)[2]
      BY <1>6, <2>0, <2>1, <3>1
    <3>3. Left(l)[2] = Left(l)[1] + l.tick[l.list[2]]
      BY <1>4, <2>0, <3>1
    <3>4. tick[list[1]] = l.tick[l.list[2]] + l.tick[t] /\ Left(l)[1] = l.tick[t]
      BY <1>2, <1>4, <1>8, <2>1, <3>1, <3>2
    <3>5. l.tick[l.list[2]] \in Nat /\ l.tick[t] \in Nat
      BY <1>1, <1>2, <3>1
    <3> QED BY <3>2, <3>3, <3>4, <3>5
  <2>2. CASE n # 1
    <3>1. 1 < n
      BY <1>2, <2>2
    <3> QED BY <1>4, <1>6, <1>8, <2>0, <3>1
  <2> QED BY <2>1, <2>2
<1>18. ASSUME NEW j \in 1 .. N - 2
       PROVE  left[j + 1] = left[j] + tick[list[j + 1]]
  <2>0. j \in 1 .. N - 1 /\ j + 1 \in 1 .. N - 1 /\ j + 1 \in 1 .. N
    BY <1>1
  <2>1. CASE j + 1 < n
    <3>1. list[j + 1] = l.list[j + 1] /\ tick[l.list[j + 1]] = l.tick[l.list[j + 1]]
      BY <1>2, <1>6, <1>8, <2>0, <2>1
    <3> QED BY <1>2, <1>4, <2>0, <2>1, <3>1
  <2>2. CASE j + 1 = n
    <3>1. n + 1 \in 1 .. N /\ n \in 1 .. N - 1 /\ n < N /\ n - 1 \in 1 .. N - 1
          /\ (n - 1) + 1 = n /\ j = n - 1 /\ n - 1 \in 1 .. N
      BY <1>1, <1>2, <2>0, <2>2
    <3>2. list[j + 1] = l.list[n + 1] /\ left[j + 1] = Left(l)[n + 1] /\ left[j] = Left(l)[n - 1]
      BY <1>6, <2>0, <2>2, <3>1
    <3>3. /\ Left(l)[n + 1] = Left(l)[n] + l.tick[l.list[n + 1]]
          /\ Left(l)[n] = Left(l)[n - 1] + l.tick[t]
      BY <1>2, <1>4, <3>1
    <3>4. l.tick[l.list[n + 1]] \in Nat /\ l.tick[t] \in Nat /\ Left(l)[n - 1] \in Nat
      BY <1>1, <1>2, <1>4, <3>1
    <3> QED BY <1>8, <3>1, <3>2, <3>3, <3>4
  <2>3. CASE ~(j + 1 < n) /\ j + 1 # n
    <3>0. n \in Nat /\ j \in Nat /\ N \in Nat
      BY <1>1, <1>2
    <3>1. j + 1 \in 1 .. N - 1 /\ (j + 1) + 1 \in 1 .. N /\ ~(j < n) /\ (j + 1) + 1 # n + 1
      BY <2>0, <2>3, <3>0
    <3>2. list[j + 1] = l.list[(j + 1) + 1] /\ left[j + 1] = Left(l)[(j + 1) + 1]
          /\ left[j] = Left(l)[j + 1]
      BY <1>6, <2>0, <2>3, <3>1
    <3>3. Left(l)[(j + 1) + 1] = Left(l)[j + 1] + l.tick[l.list[(j + 1) + 1]]
      BY <1>4, <3>1
    <3>4. tick[l.list[(j + 1) + 1]] = l.tick[l.list[(j + 1) + 1]]
      BY <1>8, <3>1
    <3> QED BY <3>2, <3>3, <3>4
  <2> QED BY <2>1, <2>2, <2>3
<1>19. left \in [1 .. N - 1 -> Int]
  BY <1>16
<1>20. \A j \in 1 .. N - 1 : left[j] = Left(l)[from(j)]
  BY <1>1, <1>2
<1> HIDE DEF left
<1>21. Left(r) = left
  <2>1. Len(r.list) = N - 1 /\ (N - 1) - 1 = N - 2
    BY <1>1, <1>6, <1>10
  <2>2. r.list # <<>> => N - 1 > 0 /\ Head(r.list) = r.list[1]
    BY <1>6, <1>10
  <2> QED BY <1>10, <1>17, <1>18, <1>19, <2>1, <2>2, LeftUnique
<1> DEFINE f == [Till(l) EXCEPT ![t] = NoTimer]
<1>22. /\ Till(l) \in [Timer -> Nat \cup {NoTimer}]
       /\ \A i \in 1 .. N : Till(l)[l.list[i]] = Left(l)[i]
       /\ \A u \in Timer \ ToSet(l.list) : Till(l)[u] = NoTimer
  BY TillAt DEF N
<1>23. /\ f = [u \in Timer |-> f[u]] /\ f[t] = NoTimer
       /\ \A u \in Timer : u # t => f[u] = Till(l)[u]
  BY <1>2, <1>22
<1> HIDE DEF f, from
<1>24. Till(r) = f
  <2>1. Len(r.list) = N - 1
    BY <1>6, <1>10
  <2>2. ASSUME NEW j \in 1 .. Len(r.list)  PROVE f[r.list[j]] = Left(r)[j]
    <3>1. j \in 1 .. N - 1 /\ r.list[j] = list[j] /\ Left(r)[j] = left[j]
      BY <1>10, <1>21, <2>1
    <3>2. /\ from(j) \in 1 .. N /\ list[j] = l.list[from(j)] /\ list[j] # t
          /\ left[j] = Left(l)[from(j)]
      BY <1>2, <1>5, <1>11, <1>20, <3>1
    <3> QED BY <1>1, <1>22, <1>23, <3>1, <3>2
  <2>3. \A u \in Timer \ ToSet(r.list) : f[u] = NoTimer
    BY <1>10, <1>15, <1>22, <1>23
  <2>4. r \in Lists
    BY <1>10
  <2> QED BY <1>13, <1>23, <2>2, <2>3, <2>4, TillIs
<1> QED BY <1>3, <1>10, <1>13, <1>15, <1>24 DEF f, r

\* The loop of the tick takes the head, whose time has come.
LEMMA TillTail ==
  ASSUME NEW l \in Lists, Apart(l), l.list # <<>>, l.tick[Head(l.list)] = 0
  PROVE  LET r == [l EXCEPT !.list = Tail(@)]
             t == Head(l.list)
         IN  /\ r \in Lists /\ Apart(r) /\ Kept(l, r)
             /\ ToSet(r.list) = ToSet(l.list) \ {t}
             /\ Till(r) = [Till(l) EXCEPT ![t] = NoTimer]
<1> DEFINE N    == Len(l.list)
           t    == Head(l.list)
           list == Tail(l.list)
           r    == [l EXCEPT !.list = list]
<1>1. /\ l.list \in Seq(Timer) /\ N \in Nat /\ DOMAIN l.list = 1 .. N
      /\ \A i \in 1 .. N : l.list[i] \in Timer
      /\ ToSet(l.list) = {l.list[i] : i \in 1 .. N} /\ l.tick \in [Timer -> Nat]
  BY ListTypes
<1>2. /\ 1 \in 1 .. N /\ l.list[1] = t /\ t \in Timer /\ list \in Seq(Timer)
      /\ Len(list) = N - 1
  BY <1>1
<1>3. \A j \in 1 .. N - 1 : list[j] = l.list[j + 1]
  BY <1>1
<1>4. /\ Left(l) \in [1 .. N -> Nat]
      /\ Left(l)[1] = l.tick[l.list[1]]
      /\ \A i \in 1 .. N - 1 : Left(l)[i + 1] = Left(l)[i] + l.tick[l.list[i + 1]]
  BY <1>1, <1>2, LeftAt
<1>5. \A i, j \in 1 .. N : l.list[i] = l.list[j] => i = j
  BY <1>1 DEF Apart
<1>6. r \in Lists /\ Kept(l, r) /\ r.list = list /\ r.tick = l.tick
  BY <1>2 DEF Lists, Kept
<1>7. DOMAIN list = 1 .. N - 1
  BY <1>1, <1>2
<1>0. l.tick[t] = 0
  OBVIOUS
<1> HIDE DEF N, t, list, r
<1>8. Apart(r)
  <2> SUFFICES ASSUME NEW i \in 1 .. N - 1, NEW j \in 1 .. N - 1, list[i] = list[j]
               PROVE  i = j
    BY <1>6, <1>7 DEF Apart
  <2>1. i + 1 \in 1 .. N /\ j + 1 \in 1 .. N
    BY <1>1
  <2>2. i + 1 = j + 1
    BY <1>3, <1>5, <2>1
  <2> QED BY <2>2
<1>9. ToSet(list) = ToSet(l.list) \ {t}
  <2>1. ToSet(list) = {list[i] : i \in 1 .. N - 1}
    BY <1>7 DEF ToSet
  <2>2. ASSUME NEW j \in 1 .. N - 1  PROVE list[j] \in ToSet(l.list) /\ list[j] # t
    <3>1. j + 1 \in 1 .. N /\ j + 1 # 1
      BY <1>1
    <3>2. list[j] = l.list[j + 1] /\ l.list[j + 1] # l.list[1]
      BY <1>2, <1>3, <1>5, <3>1
    <3> QED BY <1>1, <1>2, <3>1, <3>2
  <2>3. ASSUME NEW i \in 1 .. N, l.list[i] # t  PROVE l.list[i] \in ToSet(list)
    <3>1. i - 1 \in 1 .. N - 1 /\ (i - 1) + 1 = i
      BY <1>1, <1>2, <2>3
    <3> QED BY <1>3, <2>1, <3>1
  <2> QED BY <1>1, <2>1, <2>2, <2>3
<1> DEFINE left == [j \in 1 .. N - 1 |-> Left(l)[j + 1]]
<1>10. ASSUME NEW j \in 1 .. N - 1  PROVE left[j] \in Int
  <2>1. j + 1 \in 1 .. N
    BY <1>1
  <2> QED BY <1>4, <2>1
<1>11. ASSUME N - 1 > 0  PROVE left[1] = l.tick[list[1]]
  <2>1. 1 \in 1 .. N - 1 /\ 1 + 1 = 2 /\ 2 \in 1 .. N
    BY <1>1, <1>11
  <2>2. Left(l)[2] = Left(l)[1] + l.tick[l.list[2]] /\ l.tick[l.list[2]] \in Nat
    BY <1>1, <1>4, <2>1
  <2> QED BY <1>0, <1>2, <1>3, <1>4, <2>1, <2>2
<1>12. ASSUME NEW j \in 1 .. N - 2
       PROVE  left[j + 1] = left[j] + l.tick[list[j + 1]]
  <2>1. j \in 1 .. N - 1 /\ j + 1 \in 1 .. N - 1
    BY <1>1
  <2> QED BY <1>3, <1>4, <2>1
<1>13. left \in [1 .. N - 1 -> Int]
  BY <1>10
<1>14. \A j \in 1 .. N - 1 : left[j] = Left(l)[j + 1]
  OBVIOUS
<1> HIDE DEF left
<1>15. Left(r) = left
  <2>1. Len(r.list) = N - 1 /\ (N - 1) - 1 = N - 2
    BY <1>1, <1>2, <1>6
  <2>2. r.list # <<>> => N - 1 > 0 /\ Head(r.list) = r.list[1]
    BY <1>2, <1>6
  <2>3. r.list # <<>> => left[1] = r.tick[Head(r.list)]
    BY <1>6, <1>11, <2>2
  <2>4. \A j \in 1 .. Len(r.list) - 1 : left[j + 1] = left[j] + r.tick[r.list[j + 1]]
    BY <1>6, <1>12, <2>1
  <2>5. r \in Lists /\ left \in [1 .. Len(r.list) -> Int]
    BY <1>6, <1>13, <2>1
  <2> QED BY <2>3, <2>4, <2>5, LeftUnique
<1> DEFINE f == [Till(l) EXCEPT ![t] = NoTimer]
<1>16. /\ Till(l) \in [Timer -> Nat \cup {NoTimer}]
       /\ \A i \in 1 .. N : Till(l)[l.list[i]] = Left(l)[i]
       /\ \A u \in Timer \ ToSet(l.list) : Till(l)[u] = NoTimer
  BY TillAt DEF N
<1>17. /\ f = [u \in Timer |-> f[u]] /\ f[t] = NoTimer
       /\ \A u \in Timer : u # t => f[u] = Till(l)[u]
  BY <1>2, <1>16
<1> HIDE DEF f
<1>18. Till(r) = f
  <2>1. Len(r.list) = N - 1
    BY <1>2, <1>6
  <2>2. ASSUME NEW j \in 1 .. Len(r.list)  PROVE f[r.list[j]] = Left(r)[j]
    <3>1. j \in 1 .. N - 1 /\ r.list[j] = l.list[j + 1] /\ Left(r)[j] = Left(l)[j + 1]
          /\ j + 1 \in 1 .. N
      BY <1>1, <1>3, <1>6, <1>14, <1>15, <2>1
    <3>2. l.list[j + 1] # t
      BY <1>2, <1>5, <3>1
    <3> QED BY <1>1, <1>16, <1>17, <3>1, <3>2
  <2>3. \A u \in Timer \ ToSet(r.list) : f[u] = NoTimer
    BY <1>6, <1>9, <1>16, <1>17
  <2>4. r \in Lists
    BY <1>6
  <2> QED BY <1>8, <1>17, <2>2, <2>3, <2>4, TillIs
<1> QED BY <1>6, <1>8, <1>9, <1>18 DEF f, r, t, list

\* The tick counts the head down, and with it every timer.
Counted(l) ==
  [l EXCEPT !.tick = [t \in Timer |-> IF l.list # <<>> /\ t = Head(l.list)
                                      THEN @[t] - 1 ELSE @[t]]]

LEMMA TillCount ==
  ASSUME NEW l \in Lists, Apart(l), l.list # <<>> => l.tick[Head(l.list)] > 0
  PROVE  LET r == Counted(l)
         IN  /\ r \in Lists /\ Apart(r) /\ Kept(l, r) /\ r.list = l.list
             /\ Till(r) = [t \in Timer |-> IF t \in ToSet(l.list) THEN Till(l)[t] - 1
                                           ELSE NoTimer]
<1> DEFINE N    == Len(l.list)
           tick == [t \in Timer |-> IF l.list # <<>> /\ t = Head(l.list)
                                    THEN l.tick[t] - 1 ELSE l.tick[t]]
           r    == [l EXCEPT !.tick = tick]
<1>1. /\ l.list \in Seq(Timer) /\ N \in Nat /\ DOMAIN l.list = 1 .. N
      /\ \A i \in 1 .. N : l.list[i] \in Timer
      /\ ToSet(l.list) = {l.list[i] : i \in 1 .. N} /\ l.tick \in [Timer -> Nat]
  BY ListTypes
<1>2. Counted(l) = r
  BY DEF Counted
<1>3. tick \in [Timer -> Nat]
  <2>1. ASSUME NEW t \in Timer  PROVE tick[t] \in Nat
    BY <1>1
  <2> QED BY <2>1
<1>4. /\ Left(l) \in [1 .. N -> Nat]
      /\ l.list # <<>> => Left(l)[1] = l.tick[Head(l.list)]
      /\ \A i \in 1 .. N - 1 : Left(l)[i + 1] = Left(l)[i] + l.tick[l.list[i + 1]]
  BY LeftAt
<1>5. \A i, j \in 1 .. N : l.list[i] = l.list[j] => i = j
  BY <1>1 DEF Apart
<1>6. N > 0 => l.list # <<>> /\ Head(l.list) = l.list[1]
  BY <1>1
<1>7. /\ \A i \in 1 .. N : i # 1 => tick[l.list[i]] = l.tick[l.list[i]]
      /\ N > 0 => tick[l.list[1]] = l.tick[l.list[1]] - 1
  <2>1. N > 0 => 1 \in 1 .. N
    BY <1>1
  <2> QED BY <1>1, <1>5, <1>6, <2>1
<1>8. l.list # <<>> => N > 0
  BY <1>1
<1> HIDE DEF tick
<1>9. r \in Lists /\ Kept(l, r) /\ r.list = l.list /\ r.tick = tick
  BY <1>3 DEF Lists, Kept
<1>10. Apart(r)
  BY <1>9 DEF Apart
<1> HIDE DEF r, N
<1> DEFINE left == [i \in 1 .. N |-> Left(l)[i] - 1]
<1>11. left \in [1 .. N -> Int]
  <2>1. ASSUME NEW i \in 1 .. N  PROVE left[i] \in Int
    BY <1>4
  <2> QED BY <2>1
<1>12. Left(r) = left
  <2>1. Len(r.list) = N
    BY <1>9 DEF N
  <2>2. ASSUME r.list # <<>>  PROVE left[1] = r.tick[Head(r.list)]
    <3>1. 1 \in 1 .. N /\ N > 0
      BY <1>1, <1>8, <1>9, <2>2
    <3> QED BY <1>4, <1>6, <1>7, <1>9, <3>1
  <2>3. ASSUME NEW i \in 1 .. N - 1  PROVE left[i + 1] = left[i] + r.tick[r.list[i + 1]]
    <3>1. i \in 1 .. N /\ i + 1 \in 1 .. N /\ i + 1 # 1
      BY <1>1
    <3>2. Left(l)[i + 1] = Left(l)[i] + l.tick[l.list[i + 1]] /\ l.tick[l.list[i + 1]] \in Nat
          /\ Left(l)[i] \in Nat
      BY <1>1, <1>4, <3>1
    <3> QED BY <1>7, <1>9, <3>1, <3>2
  <2> HIDE DEF left
  <2>4. r \in Lists
    BY <1>9
  <2> QED BY <1>11, <2>1, <2>2, <2>3, <2>4, LeftUnique
<1> DEFINE f == [t \in Timer |-> IF t \in ToSet(l.list) THEN Till(l)[t] - 1 ELSE NoTimer]
<1>13. /\ \A i \in 1 .. N : Till(l)[l.list[i]] = Left(l)[i]
  BY TillAt DEF N
<1>14. Till(r) = f
  <2>1. f = [t \in Timer |-> f[t]]
    OBVIOUS
  <2>2. ASSUME NEW i \in 1 .. Len(r.list)  PROVE f[r.list[i]] = Left(r)[i]
    <3>1. i \in 1 .. N /\ r.list[i] = l.list[i] /\ l.list[i] \in ToSet(l.list) /\ l.list[i] \in Timer
      BY <1>1, <1>9 DEF N
    <3>2. Left(r)[i] = Left(l)[i] - 1
      BY <1>12, <3>1
    <3> QED BY <1>13, <3>1, <3>2
  <2>3. \A t \in Timer \ ToSet(r.list) : f[t] = NoTimer
    BY <1>9
  <2>4. r \in Lists
    BY <1>9
  <2> HIDE DEF f
  <2> QED BY <1>10, <2>1, <2>2, <2>3, <2>4, TillIs
<1> QED BY <1>2, <1>9, <1>10, <1>14

---------------------------------------------------------------------------
\* The loop of osRtxTimerTick

\* A list as the loop meets it: timers in it have a time to start again with.
Loaded == {l \in Lists : Apart(l) /\ \A t \in ToSet(l.list) : l.load[t] > 0}

Periodic(l, t) == l.type[t] = "Periodic"

\* What one round does to the timer at the head.
LEMMA ExpireHead ==
  ASSUME NEW l \in Loaded, Due(l)
  PROVE  LET t == Head(l.list)
             r == Expire(l)
         IN  /\ t \in ToSet(l.list) /\ Till(l)[t] = 0 /\ t \in Timer
             /\ r \in Loaded /\ r.load = l.load /\ r.type = l.type
             /\ r.state = [l.state EXCEPT ![t] = IF Periodic(l, t) THEN @ ELSE "Stopped"]
             /\ ToSet(r.list) = {u \in ToSet(l.list) : u = t => Periodic(l, t)}
             /\ Till(r) = [Till(l) EXCEPT ![t] = IF Periodic(l, t) THEN l.load[t] ELSE NoTimer]
<1> DEFINE t == Head(l.list)
           u == [l EXCEPT !.list = Tail(@)]
           s == [u EXCEPT !.state[t] = "Stopped"]
           r == Expire(l)
<1>1. l \in Lists /\ Apart(l) /\ l.list # <<>> /\ l.tick[t] = 0
      /\ \A v \in ToSet(l.list) : l.load[v] > 0
  BY DEF Loaded, Due
<1>2. t \in ToSet(l.list) /\ Till(l)[t] = 0
  BY <1>1, TillHead
<1>3. t \in Timer
  BY <1>1, <1>2, ListTypes
<1>4. /\ u \in Lists /\ Apart(u) /\ Kept(l, u) /\ ToSet(u.list) = ToSet(l.list) \ {t}
      /\ Till(u) = [Till(l) EXCEPT ![t] = NoTimer]
  <2> HIDE DEF s, r
  <2> QED BY <1>1, TillTail
<1>5. l.load[t] \in Nat \ {0} /\ u.load[t] = l.load[t]
  <2> HIDE DEF u, t, s, r
  <2>1. l.load \in [Timer -> Nat]
    BY <1>1, ListTypes
  <2>2. u.load = l.load
    BY <1>4 DEF Kept
  <2>3. l.load[t] > 0
    BY <1>1, <1>2
  <2> QED BY <1>3, <2>1, <2>2, <2>3
<1>6. r = IF Periodic(l, t) THEN TimerInsert(u, t, l.load[t]) ELSE s
  BY DEF Expire, Periodic
<1>7. Till(l) \in [Timer -> Nat \cup {NoTimer}]
  BY <1>1, TillAt
<1> HIDE DEF t, r
<1>8. l.state \in [Timer -> {"Inactive", "Stopped", "Running"}]
  BY <1>1, ListTypes
<1>9. CASE Periodic(l, t)
  <2>0. t \notin ToSet(u.list)
    BY <1>4
  <2> HIDE DEF u, s
  <2>1. /\ r \in Lists /\ Apart(r) /\ Kept(u, r) /\ ToSet(r.list) = ToSet(u.list) \cup {t}
        /\ Till(r) = [Till(u) EXCEPT ![t] = l.load[t]]
    BY <1>3, <1>4, <1>5, <1>6, <1>9, <2>0, TillInsert, ZenonT(60)
  <2>2. r.load = l.load /\ r.type = l.type /\ r.state = l.state
    BY <1>4, <2>1 DEF Kept
  <2>3. ToSet(r.list) = ToSet(l.list)
    BY <1>2, <1>4, <2>1
  <2>4. Till(r) = [Till(l) EXCEPT ![t] = l.load[t]]
    BY <1>3, <1>4, <1>7, <2>1
  <2>5. r \in Loaded
    BY <1>1, <2>1, <2>2, <2>3 DEF Loaded
  <2> QED BY <1>2, <1>3, <1>8, <1>9, <2>2, <2>3, <2>4, <2>5 DEF r, t
<1>10. CASE ~Periodic(l, t)
  <2>1. r = s /\ s \in Lists
    BY <1>3, <1>4, <1>6, <1>10 DEF Lists
  <2>2. s.list = u.list /\ s.load = l.load /\ s.type = l.type
        /\ s.state = [l.state EXCEPT ![t] = "Stopped"] /\ s.tick = u.tick
    BY <1>4 DEF Lists, Kept
  <2> HIDE DEF u, s
  <2>3. Apart(s) /\ Left(s) = Left(u)
    BY <1>4, <2>2 DEF Apart, Left
  <2>4. Till(s) = Till(u)
    BY <2>2, <2>3 DEF Till
  <2>5. ToSet(s.list) = ToSet(l.list) \ {t}
    BY <1>4, <2>2
  <2>6. s \in Loaded
    BY <1>1, <2>1, <2>2, <2>3, <2>5 DEF Loaded
  <2> QED BY <1>2, <1>3, <1>4, <1>10, <2>1, <2>2, <2>4, <2>5, <2>6 DEF r, t
<1> QED BY <1>9, <1>10

\* One round of the loop, and a round that finds nothing due.
Round(b) ==
  IF Due(b.l) THEN [l |-> Expire(b.l), q |-> Append(b.q, Head(b.l.list))] ELSE b

Rounds == [l : Loaded, q : Seq(Timer)]

LEMMA RoundTypes ==
  ASSUME NEW b \in Rounds
  PROVE  Round(b) \in Rounds
<1>1. b.l \in Loaded /\ b.q \in Seq(Timer)
  BY DEF Rounds
<1>2. CASE Due(b.l)
  <2>1. Expire(b.l) \in Loaded /\ Head(b.l.list) \in Timer
    BY <1>1, <1>2, ExpireHead
  <2>2. Append(b.q, Head(b.l.list)) \in Seq(Timer)
    BY <1>1, <2>1
  <2> QED BY <1>2, <2>1, <2>2 DEF Round, Rounds
<1> QED BY <1>2 DEF Round

\* Expired repeats it once for each timer.
LEMMA ExpiredRounds ==
  ASSUME NEW l \in Loaded, NEW q \in Seq(Timer)
  PROVE  \E round : /\ round[0] = [l |-> l, q |-> q]
                    /\ \A n \in Nat : round[n] \in Rounds /\ round[n + 1] = Round(round[n])
                    /\ Expired(l, q) = round[Cardinality(Timer)]
<1> DEFINE start == [l |-> l, q |-> q]
           step == [n \in Nat |-> [b \in Rounds |-> Round(b)]]
           Goes(f) == f = [n \in Nat |->
             IF n = 0 THEN start
             ELSE LET before == f[n - 1]
                  IN  IF Due(before.l)
                      THEN [l |-> Expire(before.l), q |-> Append(before.q, Head(before.l.list))]
                      ELSE before]
           round == CHOOSE f : Goes(f)
<1>1. start \in Rounds
  BY DEF Rounds
<1> HIDE DEF start
<1>2. step \in [Nat -> [Rounds -> Rounds]]
  BY RoundTypes
<1>3. \E f : Goes(f)
  <2>1. PICK f \in [Nat -> Rounds] : Recurs(f, start, step)
    <3> HIDE DEF step
    <3> QED BY <1>1, <1>2, Recursion
  <2>2. ASSUME NEW n \in Nat
        PROVE  f[n] = IF n = 0 THEN start ELSE Round(f[n - 1])
    <3>1. CASE n = 0
      BY <2>1, <3>1 DEF Recurs
    <3>2. CASE n # 0
      <4>1. n - 1 \in Nat /\ (n - 1) + 1 = n
        BY <3>2
      <4>2. f[n] = step[n][f[n - 1]]
        BY <2>1, <4>1 DEF Recurs
      <4> QED BY <2>1, <3>2, <4>1, <4>2
    <3> QED BY <3>1, <3>2
  <2>3. f = [n \in Nat |-> IF n = 0 THEN start ELSE Round(f[n - 1])]
    <3>1. f = [n \in Nat |-> f[n]]
      BY <2>1
    <3> QED BY <2>2, <3>1
  <2>4. Goes(f)
    BY <2>3 DEF Round
  <2> QED BY <2>4
<1> HIDE DEF step
<1>4. Goes(round)
  <2> HIDE DEF Goes
  <2> QED BY <1>3
<1>5. Expired(l, q) = round[Cardinality(Timer)]
  BY DEF Expired, start
<1> HIDE DEF round
<1>6. round = [n \in Nat |-> IF n = 0 THEN start ELSE Round(round[n - 1])]
  BY <1>4 DEF Round
<1> HIDE DEF Goes
<1>7. round[0] = start
  BY <1>6
<1>8. ASSUME NEW n \in Nat  PROVE round[n + 1] = Round(round[n])
  <2>1. n + 1 \in Nat /\ n + 1 # 0 /\ (n + 1) - 1 = n
    OBVIOUS
  <2> QED BY <1>6, <2>1
<1> DEFINE P == {n \in Nat : round[n] \in Rounds}
<1>9. Nat \subseteq P
  <2>1. 0 \in P
    BY <1>1, <1>7
  <2>2. ASSUME NEW n \in Nat, n \in P  PROVE n + 1 \in P
    <3>1. round[n] \in Rounds
      BY <2>2
    <3>2. Round(round[n]) \in Rounds
      BY <3>1, RoundTypes
    <3>3. n + 1 \in Nat /\ round[n + 1] = Round(round[n])
      BY <1>8
    <3>4. round[n + 1] \in Rounds
      BY <3>2, <3>3
    <3> QED BY <3>3, <3>4
  <2> HIDE DEF P
  <2> QED BY <2>1, <2>2, SetInduction
<1> QED BY <1>5, <1>7, <1>8, <1>9 DEF start

\* Where the loop is when the timers of E have expired.
After(c, q, E, b) ==
  /\ b \in Rounds
  /\ b.l.load = c.load /\ b.l.type = c.type
  /\ b.l.state = [t \in Timer |-> IF t \in E /\ ~Periodic(c, t) THEN "Stopped" ELSE c.state[t]]
  /\ ToSet(b.l.list) = {t \in ToSet(c.list) : t \in E => Periodic(c, t)}
  /\ Till(b.l) = [t \in Timer |-> IF t \in E THEN IF Periodic(c, t) THEN c.load[t] ELSE NoTimer
                                  ELSE Till(c)[t]]
  /\ \A t \in Timer : Times(b.q, t) = IF t \in E THEN Times(q, t) + 1 ELSE Times(q, t)

Expiring(c) == {t \in ToSet(c.list) : Till(c)[t] = 0}

LEMMA AfterRound ==
  ASSUME NEW c \in Loaded, NEW q \in Seq(Timer), NEW E \in SUBSET Expiring(c),
         NEW b, After(c, q, E, b), Due(b.l)
  PROVE  /\ Head(b.l.list) \in Expiring(c) /\ Head(b.l.list) \notin E
         /\ After(c, q, E \cup {Head(b.l.list)}, Round(b))
<1> DEFINE h == Head(b.l.list)
           r == Expire(b.l)
           F == E \cup {h}
<1>1. b.l \in Loaded /\ b.q \in Seq(Timer)
  BY DEF After, Rounds
<1>2. /\ h \in ToSet(b.l.list) /\ Till(b.l)[h] = 0 /\ h \in Timer
      /\ r \in Loaded /\ r.load = b.l.load /\ r.type = b.l.type
      /\ r.state = [b.l.state EXCEPT ![h] = IF Periodic(b.l, h) THEN @ ELSE "Stopped"]
      /\ ToSet(r.list) = {u \in ToSet(b.l.list) : u = h => Periodic(b.l, h)}
      /\ Till(r) = [Till(b.l) EXCEPT ![h] = IF Periodic(b.l, h) THEN b.l.load[h] ELSE NoTimer]
  BY <1>1, ExpireHead
<1>3. /\ b.l.load = c.load /\ b.l.type = c.type
      /\ b.l.state = [t \in Timer |-> IF t \in E /\ ~Periodic(c, t) THEN "Stopped"
                                      ELSE c.state[t]]
      /\ ToSet(b.l.list) = {t \in ToSet(c.list) : t \in E => Periodic(c, t)}
      /\ Till(b.l) = [t \in Timer |-> IF t \in E THEN IF Periodic(c, t) THEN c.load[t]
                                                      ELSE NoTimer
                                      ELSE Till(c)[t]]
      /\ \A t \in Timer : Times(b.q, t) = IF t \in E THEN Times(q, t) + 1 ELSE Times(q, t)
  BY DEF After
<1>4. Round(b) = [l |-> r, q |-> Append(b.q, h)]
  BY DEF Round
<1>5. \A t \in Timer : Periodic(b.l, t) <=> Periodic(c, t)
  BY <1>3 DEF Periodic
<1> HIDE DEF h, r
<1>6. c \in Lists /\ \A t \in ToSet(c.list) : c.load[t] > 0
  BY DEF Loaded
<1>7. c.load \in [Timer -> Nat] /\ E \subseteq ToSet(c.list)
  BY <1>6, ListTypes DEF Expiring
<1>8. h \notin E
  <2> SUFFICES ASSUME h \in E  PROVE FALSE
    OBVIOUS
  <2>1. Periodic(c, h) /\ h \in ToSet(c.list)
    BY <1>2, <1>3
  <2>2. Till(b.l)[h] = c.load[h]
    BY <1>2, <1>3, <2>1
  <2> QED BY <1>2, <1>6, <1>7, <2>1, <2>2
<1>9. h \in Expiring(c)
  BY <1>2, <1>3, <1>8 DEF Expiring
<1>10. Append(b.q, h) \in Seq(Timer)
  BY <1>1, <1>2
<1>11. Round(b) \in Rounds
  BY <1>2, <1>4, <1>10 DEF Rounds
<1>12. r.load = c.load /\ r.type = c.type
  BY <1>2, <1>3
<1>13. r.state = [t \in Timer |-> IF t \in F /\ ~Periodic(c, t) THEN "Stopped" ELSE c.state[t]]
  <2>1. DOMAIN b.l.state = Timer
    BY <1>3
  <2>2. \A t \in Timer : b.l.state[t] = IF t \in E /\ ~Periodic(c, t) THEN "Stopped"
                                        ELSE c.state[t]
    BY <1>3
  <2>3. r.state = [t \in Timer |-> IF t = h THEN IF Periodic(c, h) THEN b.l.state[h] ELSE "Stopped"
                                   ELSE b.l.state[t]]
    BY <1>2, <1>5, <2>1
  <2> QED BY <2>2, <2>3, <1>2, <1>8
<1>14. ToSet(r.list) = {t \in ToSet(c.list) : t \in F => Periodic(c, t)}
  BY <1>2, <1>3, <1>5
<1>15. Till(r) = [t \in Timer |-> IF t \in F THEN IF Periodic(c, t) THEN c.load[t] ELSE NoTimer
                                  ELSE Till(c)[t]]
  <2>1. DOMAIN Till(b.l) = Timer
    BY <1>3
  <2>2. \A t \in Timer : Till(b.l)[t] = IF t \in E THEN IF Periodic(c, t) THEN c.load[t]
                                                        ELSE NoTimer
                                        ELSE Till(c)[t]
    BY <1>3
  <2>3. Till(r) = [t \in Timer |-> IF t = h THEN IF Periodic(c, h) THEN c.load[h] ELSE NoTimer
                                   ELSE Till(b.l)[t]]
    BY <1>2, <1>3, <1>5, <2>1
  <2> QED BY <2>2, <2>3
<1>16. ASSUME NEW t \in Timer
       PROVE  Times(Append(b.q, h), t) = IF t \in F THEN Times(q, t) + 1 ELSE Times(q, t)
  <2>1. Times(Append(b.q, h), t) = IF t = h THEN Times(b.q, t) + 1 ELSE Times(b.q, t)
    BY <1>1, <1>2, TimesAppend
  <2> QED BY <1>3, <1>8, <2>1
<1> HIDE DEF F
<1>17. After(c, q, F, Round(b))
  BY <1>4, <1>11, <1>12, <1>13, <1>14, <1>15, <1>16 DEF After
<1> QED BY <1>8, <1>9, <1>17 DEF F, h

LEMMA AfterAll ==
  ASSUME NEW c \in Loaded, NEW q \in Seq(Timer), NEW E \in SUBSET Expiring(c),
         NEW b, After(c, q, E, b), ~Due(b.l)
  PROVE  E = Expiring(c)
<1> SUFFICES ASSUME NEW t \in Expiring(c), t \notin E  PROVE FALSE
  OBVIOUS
<1>1. b.l \in Lists /\ Apart(b.l)
  BY DEF After, Rounds, Loaded
<1>2. t \in ToSet(c.list) /\ Till(c)[t] = 0
  BY DEF Expiring
<1>3. t \in Timer
  <2>1. c \in Lists
    BY DEF Loaded
  <2>2. ToSet(c.list) \subseteq Timer
    BY <2>1, ListsTimers
  <2> QED BY <1>2, <2>2
<1>4. t \in ToSet(b.l.list) /\ Till(b.l)[t] = 0
  BY <1>2, <1>3 DEF After
<1>5. /\ b.l.list # <<>> /\ b.l.list \in Seq(Timer) /\ b.l.tick \in [Timer -> Nat]
      /\ \A i \in 1 .. Len(b.l.list) : b.l.list[i] \in Timer
  <2>1. ToSet(b.l.list) = {b.l.list[i] : i \in 1 .. Len(b.l.list)}
    BY <1>1, ListTypes
  <2>2. b.l.list # <<>>
    BY <1>4, <2>1
  <2> QED BY <1>1, <2>2, ListTypes
<1>6. Head(b.l.list) \in ToSet(b.l.list) /\ Till(b.l)[t] >= b.l.tick[Head(b.l.list)]
  BY <1>1, <1>4, <1>5, TillHead
<1>7. b.l.tick[Head(b.l.list)] \in Nat
  BY <1>5
<1> QED BY <1>4, <1>5, <1>6, <1>7 DEF Due

\* After the loop, all the timers whose time is over have expired, once each.
LEMMA ExpiredIs ==
  ASSUME NEW c \in Loaded, NEW q \in Seq(Timer)
  PROVE  After(c, q, Expiring(c), Expired(c, q))
<1>1. PICK round : /\ round[0] = [l |-> c, q |-> q]
                   /\ \A n \in Nat : round[n] \in Rounds /\ round[n + 1] = Round(round[n])
                   /\ Expired(c, q) = round[Cardinality(Timer)]
  BY ExpiredRounds
<1> DEFINE D == Expiring(c)
           Reached(n, E) == After(c, q, E, round[n]) /\ (Due(round[n].l) => Cardinality(E) = n)
           P == {n \in Nat : \E E \in SUBSET D : Reached(n, E)}
<1>2. /\ D \subseteq Timer /\ IsFiniteSet(Timer) /\ Cardinality(Timer) \in Nat
      /\ \A E \in SUBSET Timer : IsFiniteSet(E) /\ Cardinality(E) \in Nat
                                 /\ Cardinality(E) <= Cardinality(Timer)
  <2>1. c \in Lists
    BY DEF Loaded
  <2>2. D \subseteq Timer
    BY <2>1, ListsTimers DEF Expiring
  <2> HIDE DEF D
  <2>3. IsFiniteSet(Timer) /\ Cardinality(Timer) \in Nat
    BY TimerAssumption, FS_CardinalityType
  <2>4. ASSUME NEW E \in SUBSET Timer
        PROVE  IsFiniteSet(E) /\ Cardinality(E) \in Nat /\ Cardinality(E) <= Cardinality(Timer)
    <3>1. IsFiniteSet(E) /\ Cardinality(E) <= Cardinality(Timer)
      BY <2>3, FS_Subset
    <3> QED BY <3>1, FS_CardinalityType
  <2> QED BY <2>2, <2>3, <2>4
<1>3. 0 \in P
  <2>1. c \in Lists /\ Apart(c)
    BY DEF Loaded
  <2>2. c.state \in [Timer -> {"Inactive", "Stopped", "Running"}]
        /\ Till(c) \in [Timer -> Nat \cup {NoTimer}]
    BY <2>1, ListTypes, TillAt
  <2>3. round[0] \in Rounds /\ round[0].l = c /\ round[0].q = q
    BY <1>1
  <2>4. After(c, q, {}, round[0])
    BY <2>2, <2>3 DEF After
  <2>5. Cardinality({}) = 0
    BY FS_EmptySet
  <2>6. {} \in SUBSET D
    OBVIOUS
  <2> QED BY <2>4, <2>5, <2>6
<1>4. ASSUME NEW n \in Nat, NEW E \in SUBSET D, Reached(n, E), Due(round[n].l)
      PROVE  \E x \in D \ E : Reached(n + 1, E \cup {x}) /\ Cardinality(E \cup {x}) = n + 1
  <2> DEFINE h == Head(round[n].l.list)
  <2>1. h \in D /\ h \notin E /\ After(c, q, E \cup {h}, Round(round[n]))
    BY <1>4, AfterRound
  <2> HIDE DEF h
  <2>2. Cardinality(E \cup {h}) = n + 1
    BY <1>2, <1>4, <2>1, FS_AddElement
  <2>3. round[n + 1] = Round(round[n])
    BY <1>1
  <2> QED BY <2>1, <2>2, <2>3
<1>5. ASSUME NEW n \in Nat, n \in P  PROVE n + 1 \in P
  <2>1. PICK E \in SUBSET D : Reached(n, E)
    BY <1>5
  <2>2. CASE Due(round[n].l)
    <3> HIDE DEF Reached, D
    <3>1. PICK x \in D \ E : Reached(n + 1, E \cup {x})
      BY <1>4, <2>1, <2>2
    <3>2. E \cup {x} \in SUBSET D /\ n + 1 \in Nat
      BY <3>1
    <3> QED BY <3>1, <3>2
  <2>3. CASE ~Due(round[n].l)
    <3>1. round[n + 1] = round[n]
      BY <1>1, <2>3 DEF Round
    <3> QED BY <2>1, <2>3, <3>1
  <2> QED BY <2>2, <2>3
<1>6. Cardinality(Timer) \in P
  <2> HIDE DEF P
  <2>1. Nat \subseteq P
    BY <1>3, <1>5, SetInduction
  <2> QED BY <1>2, <2>1
<1> DEFINE N == Cardinality(Timer)
<1>7. PICK E \in SUBSET D : Reached(N, E)
  BY <1>6
<1>8. ~Due(round[N].l)
  <2> SUFFICES ASSUME Due(round[N].l)  PROVE FALSE
    OBVIOUS
  <2>1. N \in Nat
    BY <1>2
  <2> HIDE DEF Reached, D, N
  <2>2. PICK x \in D \ E : Cardinality(E \cup {x}) = N + 1
    BY <1>4, <1>7, <2>1
  <2>3. E \cup {x} \in SUBSET Timer
    BY <1>2, <2>2
  <2>4. Cardinality(E \cup {x}) <= N
    BY <1>2, <2>3 DEF N
  <2> QED BY <2>1, <2>2, <2>4
<1>9. E = D
  BY <1>7, <1>8, AfterAll
<1> QED BY <1>1, <1>7, <1>9

---------------------------------------------------------------------------
\* The invariant: the timers in the list are those that run, each has a time to
\* start again with, and none is due between two ticks.

Good(l) ==
  /\ l \in Loaded
  /\ ToSet(l.list) = {t \in Timer : l.state[t] = "Running"}
  /\ \A t \in ToSet(l.list) : Till(l)[t] > 0

\* What TimerService sees of a list and a queue.
Period(l) == [t \in Timer |-> IF l.state[t] = "Running" /\ Periodic(l, t) THEN l.load[t] ELSE 0]

View(l, q) == [left |-> Till(l), period |-> Period(l), owed |-> [t \in Timer |-> Times(q, t)]]

LEMMA GoodTypes ==
  ASSUME NEW l, Good(l)
  PROVE  /\ l \in Lists /\ Apart(l) /\ ToSet(l.list) \subseteq Timer
         /\ l.load \in [Timer -> Nat] /\ l.type \in [Timer -> {"Once", "Periodic"}]
         /\ l.state \in [Timer -> {"Inactive", "Stopped", "Running"}]
         /\ Till(l) \in [Timer -> Nat \cup {NoTimer}]
         /\ \A t \in Timer : t \in ToSet(l.list) <=> l.state[t] = "Running"
         /\ \A t \in ToSet(l.list) : l.load[t] > 0 /\ Till(l)[t] > 0 /\ Till(l)[t] \in Nat
         /\ \A t \in Timer : l.state[t] # "Running" => Till(l)[t] = NoTimer
<1>1. l \in Lists /\ Apart(l) /\ \A t \in ToSet(l.list) : l.load[t] > 0
  BY DEF Good, Loaded
<1>2. ToSet(l.list) = {t \in Timer : l.state[t] = "Running"}
  BY DEF Good
<1>3. /\ Till(l) \in [Timer -> Nat \cup {NoTimer}]
      /\ \A t \in Timer \ ToSet(l.list) : Till(l)[t] = NoTimer
  BY <1>1, TillAt
<1>4. ASSUME NEW t \in ToSet(l.list)  PROVE Till(l)[t] \in Nat
  <2>1. ToSet(l.list) = {l.list[i] : i \in 1 .. Len(l.list)} /\ l.list \in Seq(Timer)
    BY <1>1, ListTypes
  <2>2. l.list # <<>>
    BY <2>1
  <2> QED BY <1>1, <2>2, TillHead
<1>5. \A t \in ToSet(l.list) : Till(l)[t] > 0
  BY DEF Good
<1>6. /\ l.load \in [Timer -> Nat] /\ l.type \in [Timer -> {"Once", "Periodic"}]
      /\ l.state \in [Timer -> {"Inactive", "Stopped", "Running"}]
  BY <1>1, ListTypes
<1> QED BY <1>1, <1>2, <1>3, <1>4, <1>5, <1>6

\* The time left depends on the list and on the ticks of the timers in it.
LEMMA SameLeft ==
  ASSUME NEW l \in Lists, Apart(l), NEW r \in Lists, r.list = l.list,
         \A t \in ToSet(l.list) : r.tick[t] = l.tick[t]
  PROVE  Apart(r) /\ Till(r) = Till(l)
<1> DEFINE N == Len(l.list)
<1>1. /\ l.list \in Seq(Timer) /\ N \in Nat
      /\ ToSet(l.list) = {l.list[i] : i \in 1 .. N}
  BY ListTypes
<1>2. /\ Left(l) \in [1 .. N -> Nat]
      /\ l.list # <<>> => Left(l)[1] = l.tick[Head(l.list)]
      /\ \A i \in 1 .. N - 1 : Left(l)[i + 1] = Left(l)[i] + l.tick[l.list[i + 1]]
  BY LeftAt
<1>3. Left(l) \in [1 .. N -> Int]
  BY <1>2
<1>4. l.list # <<>> => r.tick[Head(l.list)] = l.tick[Head(l.list)]
  <2> SUFFICES ASSUME l.list # <<>>  PROVE Head(l.list) \in ToSet(l.list)
    OBVIOUS
  <2>1. 1 \in 1 .. N /\ Head(l.list) = l.list[1]
    BY <1>1
  <2> QED BY <1>1, <2>1
<1>5. \A i \in 1 .. N - 1 : r.tick[l.list[i + 1]] = l.tick[l.list[i + 1]]
  <2> SUFFICES ASSUME NEW i \in 1 .. N - 1  PROVE l.list[i + 1] \in ToSet(l.list)
    OBVIOUS
  <2>1. i + 1 \in 1 .. N
    BY <1>1
  <2> QED BY <1>1, <2>1
<1> HIDE DEF N
<1>6. Left(r) = Left(l)
  <2>1. r.list = l.list /\ Len(r.list) = N
    BY DEF N
  <2>2. r.list # <<>> => Left(l)[1] = r.tick[Head(r.list)]
    BY <1>2, <1>4, <2>1
  <2>3. \A i \in 1 .. Len(r.list) - 1 : Left(l)[i + 1] = Left(l)[i] + r.tick[r.list[i + 1]]
    BY <1>2, <1>5, <2>1
  <2>4. Left(l) \in [1 .. Len(r.list) -> Int]
    BY <1>3, <2>1
  <2> QED BY <2>2, <2>3, <2>4, LeftUnique
<1> QED BY <1>6 DEF Apart, Till

---------------------------------------------------------------------------
\* The services

\* What a service takes off the list before it goes on.
Off(l, t) == IF l.state[t] = "Running" THEN TimerRemove(l, t) ELSE l

LEMMA OffIs ==
  ASSUME NEW l, Good(l), NEW t \in Timer
  PROVE  LET o == Off(l, t)
         IN  /\ o \in Lists /\ Apart(o) /\ Kept(l, o)
             /\ ToSet(o.list) = ToSet(l.list) \ {t}
             /\ Till(o) = [Till(l) EXCEPT ![t] = NoTimer]
<1>1. /\ l \in Lists /\ Apart(l) /\ Till(l) \in [Timer -> Nat \cup {NoTimer}]
      /\ t \in ToSet(l.list) <=> l.state[t] = "Running"
      /\ l.state[t] # "Running" => Till(l)[t] = NoTimer
  BY GoodTypes
<1>2. CASE l.state[t] = "Running"
  <2>1. t \in ToSet(l.list) /\ Off(l, t) = TimerRemove(l, t)
    BY <1>1, <1>2 DEF Off
  <2> QED BY <1>1, <2>1, TillRemove
<1>3. CASE l.state[t] # "Running"
  <2>1. Off(l, t) = l
    BY <1>3 DEF Off
  <2>2. Kept(l, l)
    BY DEF Kept
  <2>3. Till(l) = [Till(l) EXCEPT ![t] = NoTimer]
    BY <1>1, <1>3
  <2> QED BY <1>1, <1>3, <2>1, <2>2, <2>3
<1> QED BY <1>2, <1>3

LEMMA StartIs ==
  ASSUME NEW l, Good(l), NEW t \in Timer, NEW ticks \in Nat \ {0}
  PROVE  LET r == TimerInsert([Off(l, t) EXCEPT !.state[t] = "Running", !.load[t] = ticks],
                              t, ticks)
         IN  /\ Good(r)
             /\ Till(r) = [Till(l) EXCEPT ![t] = ticks]
             /\ Period(r) = [Period(l) EXCEPT ![t] = IF Periodic(l, t) THEN ticks ELSE 0]
<1> DEFINE o == Off(l, t)
           d == [o EXCEPT !.state[t] = "Running", !.load[t] = ticks]
           r == TimerInsert(d, t, ticks)
<1>1. /\ l \in Lists /\ l.load \in [Timer -> Nat]
      /\ l.type \in [Timer -> {"Once", "Periodic"}]
      /\ l.state \in [Timer -> {"Inactive", "Stopped", "Running"}]
      /\ Till(l) \in [Timer -> Nat \cup {NoTimer}]
      /\ \A u \in Timer : u \in ToSet(l.list) <=> l.state[u] = "Running"
      /\ \A u \in ToSet(l.list) : l.load[u] > 0 /\ Till(l)[u] > 0
      /\ ToSet(l.list) \subseteq Timer
  BY GoodTypes
<1>2. /\ o \in Lists /\ Apart(o) /\ Kept(l, o) /\ ToSet(o.list) = ToSet(l.list) \ {t}
      /\ Till(o) = [Till(l) EXCEPT ![t] = NoTimer]
  BY OffIs
<1>3. o.load = l.load /\ o.state = l.state /\ o.type = l.type
  BY <1>2 DEF Kept
<1> HIDE DEF o, r
<1>4. /\ d \in Lists /\ d.list = o.list /\ d.tick = o.tick /\ d.type = l.type
      /\ d.state = [l.state EXCEPT ![t] = "Running"]
      /\ d.load = [l.load EXCEPT ![t] = ticks]
  BY <1>2, <1>3 DEF Lists
<1> HIDE DEF d
<1>5. Apart(d) /\ Till(d) = [Till(l) EXCEPT ![t] = NoTimer]
  BY <1>2, <1>4, SameLeft
<1>6. ToSet(d.list) = ToSet(l.list) \ {t} /\ t \notin ToSet(d.list)
  BY <1>2, <1>4
<1>7. /\ r \in Lists /\ Apart(r) /\ Kept(d, r)
      /\ ToSet(r.list) = ToSet(d.list) \cup {t}
      /\ Till(r) = [Till(d) EXCEPT ![t] = ticks]
  <2>1. ticks \in Nat
    OBVIOUS
  <2>2. d \in Lists /\ Apart(d) /\ t \notin ToSet(d.list)
    BY <1>4, <1>5, <1>6
  <2>3. LET s == TimerInsert(d, t, ticks)
        IN  /\ s \in Lists /\ Apart(s) /\ Kept(d, s)
            /\ ToSet(s.list) = ToSet(d.list) \cup {t}
            /\ Till(s) = [Till(d) EXCEPT ![t] = ticks]
    BY <2>1, <2>2, TillInsert
  <2> QED BY <2>3 DEF r
<1>8. /\ r.load = [l.load EXCEPT ![t] = ticks] /\ r.type = l.type
      /\ r.state = [l.state EXCEPT ![t] = "Running"]
  BY <1>4, <1>7 DEF Kept
<1>9. ToSet(r.list) = ToSet(l.list) \cup {t}
  BY <1>6, <1>7
<1>10. Till(r) = [Till(l) EXCEPT ![t] = ticks]
  BY <1>1, <1>5, <1>7
<1>11. ASSUME NEW u \in ToSet(r.list)  PROVE r.load[u] > 0 /\ Till(r)[u] > 0
  <2>1. u \in Timer /\ (u # t => u \in ToSet(l.list))
    BY <1>1, <1>9
  <2>2. CASE u = t
    BY <1>1, <1>8, <1>10, <2>2
  <2>3. CASE u # t
    BY <1>1, <1>8, <1>10, <2>1, <2>3
  <2> QED BY <2>2, <2>3
<1>12. ToSet(r.list) = {u \in Timer : r.state[u] = "Running"}
  BY <1>1, <1>8, <1>9
<1>13. Good(r)
  BY <1>7, <1>11, <1>12 DEF Good, Loaded
<1>14. Period(r) = [Period(l) EXCEPT ![t] = IF Periodic(l, t) THEN ticks ELSE 0]
  BY <1>1, <1>8 DEF Period, Periodic
<1> QED BY <1>10, <1>13, <1>14 DEF r, d, o

\* TimerStop, and TimerDelete, of any timer.
LEMMA StopIs ==
  ASSUME NEW l, Good(l), NEW t \in Timer, NEW x \in {"Inactive", "Stopped"}
  PROVE  LET r == [Off(l, t) EXCEPT !.state[t] = x]
         IN  /\ Good(r)
             /\ Till(r) = [Till(l) EXCEPT ![t] = NoTimer]
             /\ Period(r) = [Period(l) EXCEPT ![t] = 0]
<1> DEFINE o == Off(l, t)
           r == [o EXCEPT !.state[t] = x]
<1>1. /\ l \in Lists /\ l.load \in [Timer -> Nat]
      /\ l.state \in [Timer -> {"Inactive", "Stopped", "Running"}]
      /\ Till(l) \in [Timer -> Nat \cup {NoTimer}]
      /\ \A u \in Timer : u \in ToSet(l.list) <=> l.state[u] = "Running"
      /\ \A u \in ToSet(l.list) : l.load[u] > 0 /\ Till(l)[u] > 0
      /\ ToSet(l.list) \subseteq Timer
  BY GoodTypes
<1>2. /\ o \in Lists /\ Apart(o) /\ Kept(l, o) /\ ToSet(o.list) = ToSet(l.list) \ {t}
      /\ Till(o) = [Till(l) EXCEPT ![t] = NoTimer]
  BY OffIs
<1>3. o.load = l.load /\ o.state = l.state /\ o.type = l.type
  BY <1>2 DEF Kept
<1> HIDE DEF o
<1>4. /\ r \in Lists /\ r.list = o.list /\ r.tick = o.tick /\ r.type = l.type
      /\ r.state = [l.state EXCEPT ![t] = x] /\ r.load = l.load
  BY <1>2, <1>3 DEF Lists
<1> HIDE DEF r
<1>5. Apart(r) /\ Till(r) = [Till(l) EXCEPT ![t] = NoTimer]
  BY <1>2, <1>4, SameLeft
<1>6. ToSet(r.list) = ToSet(l.list) \ {t}
  BY <1>2, <1>4
<1>7. ASSUME NEW u \in ToSet(r.list)  PROVE r.load[u] > 0 /\ Till(r)[u] > 0
  <2>1. u \in Timer /\ u # t /\ u \in ToSet(l.list)
    BY <1>1, <1>6
  <2> QED BY <1>1, <1>4, <1>5, <2>1
<1>8. ToSet(r.list) = {u \in Timer : r.state[u] = "Running"}
  BY <1>1, <1>4, <1>6
<1>9. Good(r)
  BY <1>4, <1>5, <1>7, <1>8 DEF Good, Loaded
<1>10. Period(r) = [Period(l) EXCEPT ![t] = 0]
  BY <1>1, <1>4 DEF Period, Periodic
<1> QED BY <1>5, <1>9, <1>10 DEF r, o

LEMMA NewIs ==
  ASSUME NEW l, Good(l), NEW t \in Timer, l.state[t] = "Inactive",
         NEW type \in {"Once", "Periodic"}
  PROVE  LET r == [l EXCEPT !.state[t] = "Stopped", !.type[t] = type,
                            !.tick[t] = 0, !.load[t] = 0]
         IN  Good(r) /\ Till(r) = Till(l) /\ Period(r) = Period(l)
<1> DEFINE r == [l EXCEPT !.state[t] = "Stopped", !.type[t] = type,
                          !.tick[t] = 0, !.load[t] = 0]
<1>1. /\ l \in Lists /\ Apart(l) /\ l.load \in [Timer -> Nat]
      /\ l.type \in [Timer -> {"Once", "Periodic"}]
      /\ l.state \in [Timer -> {"Inactive", "Stopped", "Running"}]
      /\ \A u \in Timer : u \in ToSet(l.list) <=> l.state[u] = "Running"
      /\ \A u \in ToSet(l.list) : l.load[u] > 0 /\ Till(l)[u] > 0
      /\ ToSet(l.list) \subseteq Timer
  BY GoodTypes
<1>2. l.tick \in [Timer -> Nat]
  BY <1>1, ListTypes
<1>3. /\ r \in Lists /\ r.list = l.list /\ r.tick = [l.tick EXCEPT ![t] = 0]
      /\ r.type = [l.type EXCEPT ![t] = type]
      /\ r.state = [l.state EXCEPT ![t] = "Stopped"] /\ r.load = [l.load EXCEPT ![t] = 0]
  BY <1>1, <1>2 DEF Lists
<1> HIDE DEF r
<1>4. t \notin ToSet(l.list)
  BY <1>1
<1>5. \A u \in ToSet(l.list) : r.tick[u] = l.tick[u]
  BY <1>1, <1>2, <1>3, <1>4
<1>6. Apart(r) /\ Till(r) = Till(l)
  BY <1>1, <1>3, <1>5, SameLeft
<1>7. ASSUME NEW u \in ToSet(r.list)  PROVE r.load[u] > 0 /\ Till(r)[u] > 0
  <2>1. u \in Timer /\ u # t /\ u \in ToSet(l.list)
    BY <1>1, <1>3, <1>4
  <2> QED BY <1>1, <1>3, <1>6, <2>1
<1>8. ToSet(r.list) = {u \in Timer : r.state[u] = "Running"}
  BY <1>1, <1>3
<1>9. Good(r)
  BY <1>3, <1>6, <1>7, <1>8 DEF Good, Loaded
<1>10. Period(r) = Period(l)
  BY <1>1, <1>3 DEF Period, Periodic
<1> QED BY <1>6, <1>9, <1>10 DEF r

---------------------------------------------------------------------------
\* The tick

LEMMA TickIs ==
  ASSUME NEW l, Good(l), NEW q \in Seq(Timer)
  PROVE  LET r == Expired(Counted(l), q)
         IN  /\ Good(r.l) /\ r.q \in Seq(Timer)
             /\ Period(r.l) = Period(l)
             /\ Till(r.l) = [t \in Timer |-> CASE Till(l)[t] = NoTimer -> NoTimer
                                               [] Till(l)[t] = 1 -> IF Period(l)[t] = 0 THEN NoTimer
                                                                    ELSE Period(l)[t]
                                               [] OTHER -> Till(l)[t] - 1]
             /\ \A t \in Timer : Times(r.q, t) = IF Till(l)[t] = 1 THEN Times(q, t) + 1
                                                ELSE Times(q, t)
<1> DEFINE c == Counted(l)
           r == Expired(c, q)
           E == Expiring(c)
<1>1. /\ l \in Lists /\ Apart(l) /\ ToSet(l.list) \subseteq Timer
      /\ l.load \in [Timer -> Nat]
      /\ l.state \in [Timer -> {"Inactive", "Stopped", "Running"}]
      /\ Till(l) \in [Timer -> Nat \cup {NoTimer}]
      /\ \A t \in Timer : t \in ToSet(l.list) <=> l.state[t] = "Running"
      /\ \A t \in ToSet(l.list) : l.load[t] > 0 /\ Till(l)[t] > 0 /\ Till(l)[t] \in Nat
      /\ \A t \in Timer : l.state[t] # "Running" => Till(l)[t] = NoTimer
  BY GoodTypes
<1>2. l.list # <<>> => l.tick[Head(l.list)] > 0
  <2> SUFFICES ASSUME l.list # <<>>  PROVE l.tick[Head(l.list)] > 0
    OBVIOUS
  <2>1. Head(l.list) \in ToSet(l.list) /\ Till(l)[Head(l.list)] = l.tick[Head(l.list)]
    BY <1>1, TillHead
  <2> QED BY <1>1, <2>1
<1>3. /\ c \in Lists /\ Apart(c) /\ Kept(l, c) /\ c.list = l.list
      /\ Till(c) = [t \in Timer |-> IF t \in ToSet(l.list) THEN Till(l)[t] - 1 ELSE NoTimer]
  BY <1>1, <1>2, TillCount
<1> HIDE DEF c
<1>4. c.load = l.load /\ c.state = l.state /\ c.type = l.type
  BY <1>3 DEF Kept
<1>5. c \in Loaded
  BY <1>1, <1>3, <1>4 DEF Loaded
<1>6. After(c, q, E, r)
  BY <1>5, ExpiredIs
<1> HIDE DEF r
<1>7. \A t \in Timer : t \in E <=> t \in ToSet(l.list) /\ Till(l)[t] = 1
  BY <1>1, <1>3 DEF Expiring
<1> HIDE DEF E
<1>8. /\ r.l \in Loaded /\ r.q \in Seq(Timer) /\ r.l.load = l.load /\ r.l.type = l.type
      /\ r.l.state = [t \in Timer |-> IF t \in E /\ ~Periodic(c, t) THEN "Stopped"
                                      ELSE l.state[t]]
      /\ ToSet(r.l.list) = {t \in ToSet(l.list) : t \in E => Periodic(c, t)}
      /\ Till(r.l) = [t \in Timer |-> IF t \in E THEN IF Periodic(c, t) THEN l.load[t]
                                                      ELSE NoTimer
                                      ELSE Till(c)[t]]
      /\ \A t \in Timer : Times(r.q, t) = IF t \in E THEN Times(q, t) + 1 ELSE Times(q, t)
  BY <1>3, <1>4, <1>6 DEF After, Rounds
<1>9. \A t \in Timer : Periodic(c, t) <=> Periodic(l, t)
  BY <1>4 DEF Periodic
<1>10. \A t \in Timer : Till(c)[t] = IF t \in ToSet(l.list) THEN Till(l)[t] - 1 ELSE NoTimer
  BY <1>3
<1>11. \A t \in Timer : Till(r.l)[t] = IF t \in E THEN IF Periodic(l, t) THEN l.load[t]
                                                      ELSE NoTimer
                                      ELSE Till(c)[t]
  BY <1>8, <1>9
<1>12. ToSet(r.l.list) = {t \in Timer : r.l.state[t] = "Running"}
  <2>1. \A t \in Timer : r.l.state[t] = IF t \in E /\ ~Periodic(c, t) THEN "Stopped"
                                        ELSE l.state[t]
    BY <1>8
  <2> QED BY <1>1, <1>8, <2>1
<1>13. ASSUME NEW t \in ToSet(r.l.list)  PROVE Till(r.l)[t] > 0
  <2>1. t \in Timer /\ t \in ToSet(l.list) /\ (t \in E => Periodic(l, t))
    BY <1>1, <1>8, <1>9
  <2>2. CASE t \in E
    BY <1>1, <1>11, <2>1, <2>2
  <2>3. CASE t \notin E
    <3>1. Till(l)[t] # 1 /\ Till(l)[t] > 0 /\ Till(l)[t] \in Nat
      BY <1>1, <1>7, <2>1, <2>3
    <3>2. Till(r.l)[t] = Till(l)[t] - 1
      BY <1>10, <1>11, <2>1, <2>3
    <3> QED BY <3>1, <3>2
  <2> QED BY <2>2, <2>3
<1>14. Good(r.l)
  BY <1>8, <1>12, <1>13 DEF Good
<1>15. Period(r.l) = Period(l)
  <2> SUFFICES ASSUME NEW t \in Timer
               PROVE  (r.l.state[t] = "Running" /\ Periodic(r.l, t))
                        <=> (l.state[t] = "Running" /\ Periodic(l, t))
    BY <1>8 DEF Period
  <2>1. Periodic(r.l, t) <=> Periodic(l, t)
    BY <1>8 DEF Periodic
  <2>2. r.l.state[t] = IF t \in E /\ ~Periodic(c, t) THEN "Stopped" ELSE l.state[t]
    BY <1>8
  <2> QED BY <1>9, <2>1, <2>2
<1>16. \A t \in Timer : Period(l)[t] = IF l.state[t] = "Running" /\ Periodic(l, t)
                                        THEN l.load[t] ELSE 0
  BY DEF Period
<1>17. NoTimer \notin Nat
  BY TimerAssumption
<1>18. \A t \in Timer : Till(l)[t] = 1 <=> t \in E
  BY <1>1, <1>7, <1>17
<1>19. ASSUME NEW t \in Timer
       PROVE  Till(r.l)[t] = CASE Till(l)[t] = NoTimer -> NoTimer
                               [] Till(l)[t] = 1 -> IF Period(l)[t] = 0 THEN NoTimer
                                                    ELSE Period(l)[t]
                               [] OTHER -> Till(l)[t] - 1
  <2>1. CASE t \in E
    <3>1. t \in ToSet(l.list) /\ Till(l)[t] = 1 /\ l.state[t] = "Running"
      BY <1>1, <1>7, <2>1
    <3>2. l.load[t] > 0 /\ l.load[t] \in Nat /\ NoTimer # 1
      BY <1>1, <1>17, <3>1
    <3>3. Period(l)[t] = IF Periodic(l, t) THEN l.load[t] ELSE 0
      BY <1>16, <3>1
    <3>4. Till(r.l)[t] = IF Periodic(l, t) THEN l.load[t] ELSE NoTimer
      BY <1>11, <2>1
    <3>5. Till(r.l)[t] = IF Period(l)[t] = 0 THEN NoTimer ELSE Period(l)[t]
      BY <3>2, <3>3, <3>4
    <3> QED BY <3>1, <3>2, <3>5
  <2>2. CASE t \notin E /\ t \in ToSet(l.list)
    <3>1. Till(l)[t] # 1 /\ Till(l)[t] # NoTimer
      BY <1>1, <1>17, <1>18, <2>2
    <3>2. Till(r.l)[t] = Till(l)[t] - 1
      BY <1>10, <1>11, <2>2
    <3> QED BY <3>1, <3>2
  <2>3. CASE t \notin E /\ t \notin ToSet(l.list)
    <3>1. Till(l)[t] = NoTimer
      BY <1>1, <2>3
    <3>2. Till(r.l)[t] = NoTimer
      BY <1>10, <1>11, <2>3
    <3>3. NoTimer # 1
      BY <1>17
    <3> QED BY <3>1, <3>2, <3>3
  <2> QED BY <2>1, <2>2, <2>3
<1>20. Till(r.l) = [t \in Timer |-> Till(r.l)[t]]
  BY <1>8
<1>21. \A t \in Timer : Times(r.q, t) = IF Till(l)[t] = 1 THEN Times(q, t) + 1 ELSE Times(q, t)
  BY <1>8, <1>18
<1> QED BY <1>8, <1>14, <1>15, <1>19, <1>20, <1>21 DEF r, c

---------------------------------------------------------------------------
\* The invariant holds, and each step is one of TimerService or none.

IInv == TypeOK /\ Good(timers)

\* The state of TimerService is the view of the list and the queue.
LEMMA ViewIs ==
  ASSUME NEW l, Good(l), NEW q
  PROVE  [left   |-> [t \in Timer |-> IF l.state[t] = "Running"
                                      THEN Left(l)[CHOOSE i \in DOMAIN l.list : l.list[i] = t]
                                      ELSE NoTimer],
          period |-> [t \in Timer |-> IF l.state[t] = "Running" /\ l.type[t] = "Periodic"
                                      THEN l.load[t] ELSE 0],
          owed   |-> [t \in Timer |-> Cardinality({i \in DOMAIN q : q[i] = t})]] = View(l, q)
<1>1. \A t \in Timer : t \in ToSet(l.list) <=> l.state[t] = "Running"
  BY GoodTypes
<1>2. [t \in Timer |-> IF l.state[t] = "Running"
                       THEN Left(l)[CHOOSE i \in DOMAIN l.list : l.list[i] = t]
                       ELSE NoTimer] = Till(l)
  BY <1>1 DEF Till
<1>3. Period(l) = [t \in Timer |-> IF l.state[t] = "Running" /\ l.type[t] = "Periodic"
                                   THEN l.load[t] ELSE 0]
  BY DEF Period, Periodic
<1> QED BY <1>2, <1>3 DEF View, Times

LEMMA ViewNow ==
  ASSUME Good(timers)
  PROVE  Abstract!State = View(timers, queue)
  BY ViewIs DEF Abstract!State, TimeLeft, Runs

LEMMA ViewNext ==
  ASSUME Good(timers')
  PROVE  Abstract!State' = View(timers', queue')
  BY ViewIs DEF Abstract!State, TimeLeft, Runs

LEMMA InitGood ==
  ASSUME Init
  PROVE  IInv /\ Abstract!Init
<1>1. timers \in Lists /\ queue \in Seq(Timer) /\ queue = <<>> /\ timers.list = <<>>
  BY DEF Init, Lists
<1>2. TypeOK
  <2>1. Len(queue) = 0 /\ 0 <= QueueSize
    BY <1>1, TimerAssumption
  <2> QED BY <1>1, <2>1 DEF Init, TypeOK, Lists
<1>3. ToSet(timers.list) = {}
  BY <1>1 DEF ToSet
<1>4. Apart(timers)
  BY <1>1 DEF Apart
<1>5. \A t \in Timer : timers.state[t] = "Inactive"
  BY DEF Init
<1>6. Good(timers)
  BY <1>1, <1>3, <1>4, <1>5 DEF Good, Loaded
<1>7. ASSUME NEW t \in Timer  PROVE Cardinality({i \in DOMAIN queue : queue[i] = t}) = 0
  <2>1. {i \in DOMAIN queue : queue[i] = t} = {}
    BY <1>1
  <2> QED BY <2>1, FS_EmptySet
<1>8. Abstract!Init
  BY <1>5, <1>7 DEF Abstract!Init, TimeLeft, Runs
<1> QED BY <1>2, <1>6, <1>8 DEF IInv

\* What is left to show of a step: where it leaves the list and the queue, and
\* what TimerService sees of it.
LEMMA StepIs ==
  ASSUME IInv, Good(timers'), queue' \in Seq(Timer), Len(queue') <= QueueSize,
         calling' \in Timer \cup {NoTimer}, failed' \in BOOLEAN,
         \/ Abstract!Step(View(timers, queue), View(timers', queue'))
         \/ View(timers', queue') = View(timers, queue)
  PROVE  IInv' /\ [Abstract!Next]_Abstract!vars
<1>1. timers' \in Lists
  BY DEF Good, Loaded
<1>2. IInv'
  BY <1>1 DEF IInv, TypeOK, Lists
<1>3. Abstract!State = View(timers, queue)
  BY ViewNow DEF IInv
<1>4. Abstract!State' = View(timers', queue')
  BY ViewNext
<1>5. CASE Abstract!Step(View(timers, queue), View(timers', queue'))
  BY <1>2, <1>3, <1>4, <1>5 DEF Abstract!Next
<1>6. CASE View(timers', queue') = View(timers, queue)
  <2>1. Abstract!State' = Abstract!State
    BY <1>3, <1>4, <1>6
  <2>2. UNCHANGED Abstract!vars
    BY <2>1 DEF Abstract!State, Abstract!vars
  <2> QED BY <1>2, <2>2
<1> QED BY <1>5, <1>6

LEMMA NewStep ==
  ASSUME IInv, NEW t \in Timer, NEW type \in {"Once", "Periodic"}, TimerNew(t, type),
         UNCHANGED <<queue, calling, failed>>
  PROVE  IInv' /\ [Abstract!Next]_Abstract!vars
<1>1. Good(timers) /\ timers.state[t] = "Inactive"
  BY DEF IInv, TimerNew
<1>2. timers' = [timers EXCEPT !.state[t] = "Stopped", !.type[t] = type,
                               !.tick[t] = 0, !.load[t] = 0]
  BY DEF TimerNew
<1>3. Good(timers') /\ Till(timers') = Till(timers) /\ Period(timers') = Period(timers)
  BY <1>1, <1>2, NewIs
<1>4. View(timers', queue') = View(timers, queue)
  BY <1>3 DEF View
<1> QED BY <1>3, <1>4, StepIs DEF IInv, TypeOK

LEMMA StartStep ==
  ASSUME IInv, NEW t \in Timer, NEW ticks \in Ticks, TimerStart(t, ticks),
         UNCHANGED <<queue, calling, failed>>
  PROVE  IInv' /\ [Abstract!Next]_Abstract!vars
<1> DEFINE now  == View(timers, queue)
           next == View(timers', queue')
<1>1. Good(timers) /\ ticks \in Nat \ {0}
  BY TimerAssumption DEF IInv
<1>2. timers' = TimerInsert([Off(timers, t) EXCEPT !.state[t] = "Running", !.load[t] = ticks],
                            t, ticks)
  BY DEF TimerStart, Off
<1>3. /\ Good(timers')
      /\ Till(timers') = [Till(timers) EXCEPT ![t] = ticks]
      /\ Period(timers') = [Period(timers) EXCEPT ![t] = IF Periodic(timers, t) THEN ticks ELSE 0]
  <2> DEFINE r == TimerInsert([Off(timers, t) EXCEPT !.state[t] = "Running", !.load[t] = ticks],
                              t, ticks)
  <2>1. /\ Good(r)
        /\ Till(r) = [Till(timers) EXCEPT ![t] = ticks]
        /\ Period(r) = [Period(timers) EXCEPT ![t] = IF Periodic(timers, t) THEN ticks ELSE 0]
    BY <1>1, StartIs
  <2>2. timers' = r
    BY <1>2
  <2> HIDE DEF r
  <2> QED BY <2>1, <2>2
<1>4. DOMAIN Till(timers) = Timer /\ DOMAIN Period(timers) = Timer
  BY DEF Till, Period
<1>5. next.left[t] = ticks /\ next.period[t] \in {0, ticks}
  BY <1>3, <1>4 DEF View
<1>6. next = [now EXCEPT !.left[t] = next.left[t], !.period[t] = next.period[t]]
  <2> DEFINE y == IF Periodic(timers, t) THEN ticks ELSE 0
             owed == [u \in Timer |-> Times(queue, u)]
  <2>1. /\ next.left[t] = ticks /\ next.period[t] = y
        /\ now = [left |-> Till(timers), period |-> Period(timers), owed |-> owed]
    BY <1>3, <1>4 DEF View
  <2>2. next = [left |-> Till(timers'), period |-> Period(timers'), owed |-> owed]
    BY DEF View
  <2>3. Period(timers') = [Period(timers) EXCEPT ![t] = y]
    BY <1>3
  <2> HIDE DEF y, owed, now, next
  <2>4. [now EXCEPT !.left[t] = ticks, !.period[t] = y]
          = [left |-> [Till(timers) EXCEPT ![t] = ticks],
             period |-> [Period(timers) EXCEPT ![t] = y], owed |-> owed]
    <3> DEFINE w == [now EXCEPT !.left[t] = ticks]
    <3>1. w = [left |-> [Till(timers) EXCEPT ![t] = ticks],
               period |-> Period(timers), owed |-> owed]
      BY <2>1
    <3>2. [now EXCEPT !.left[t] = ticks, !.period[t] = y] = [w EXCEPT !.period[t] = y]
      OBVIOUS
    <3> HIDE DEF w
    <3>3. [w EXCEPT !.period[t] = y]
            = [left |-> [Till(timers) EXCEPT ![t] = ticks],
               period |-> [Period(timers) EXCEPT ![t] = y], owed |-> owed]
      BY <3>1
    <3> QED BY <3>2, <3>3
  <2> QED BY <1>3, <2>1, <2>2, <2>3, <2>4
<1> HIDE DEF now, next
<1>7. Abstract!Starts(now, next)
  BY <1>1, <1>5, <1>6 DEF Abstract!Starts
<1>8. Abstract!Step(View(timers, queue), View(timers', queue'))
  BY <1>7 DEF Abstract!Step, now, next
<1> QED BY <1>3, <1>8, StepIs DEF IInv, TypeOK

\* TimerStop, and TimerDelete.
LEMMA StopStep ==
  ASSUME IInv, NEW t \in Timer, NEW x \in {"Inactive", "Stopped"},
         timers' = [Off(timers, t) EXCEPT !.state[t] = x],
         UNCHANGED <<queue, calling, failed>>
  PROVE  IInv' /\ [Abstract!Next]_Abstract!vars
<1> DEFINE now  == View(timers, queue)
           next == View(timers', queue')
<1>1. Good(timers)
  BY DEF IInv
<1>2. /\ Good(timers')
      /\ Till(timers') = [Till(timers) EXCEPT ![t] = NoTimer]
      /\ Period(timers') = [Period(timers) EXCEPT ![t] = 0]
  BY <1>1, StopIs
<1>3. next = [now EXCEPT !.left[t] = NoTimer, !.period[t] = 0]
  <2> DEFINE owed == [u \in Timer |-> Times(queue, u)]
  <2>1. now = [left |-> Till(timers), period |-> Period(timers), owed |-> owed]
    BY DEF View
  <2>2. next = [left |-> Till(timers'), period |-> Period(timers'), owed |-> owed]
    BY DEF View
  <2> HIDE DEF owed, now, next
  <2>3. [now EXCEPT !.left[t] = NoTimer, !.period[t] = 0]
          = [left |-> [Till(timers) EXCEPT ![t] = NoTimer],
             period |-> [Period(timers) EXCEPT ![t] = 0], owed |-> owed]
    <3> DEFINE w == [now EXCEPT !.left[t] = NoTimer]
    <3>1. w = [left |-> [Till(timers) EXCEPT ![t] = NoTimer],
               period |-> Period(timers), owed |-> owed]
      BY <2>1
    <3>2. [now EXCEPT !.left[t] = NoTimer, !.period[t] = 0] = [w EXCEPT !.period[t] = 0]
      OBVIOUS
    <3> HIDE DEF w
    <3>3. [w EXCEPT !.period[t] = 0]
            = [left |-> [Till(timers) EXCEPT ![t] = NoTimer],
               period |-> [Period(timers) EXCEPT ![t] = 0], owed |-> owed]
      BY <3>1
    <3> QED BY <3>2, <3>3
  <2> QED BY <1>2, <2>2, <2>3
<1>4. now.left = Till(timers) /\ now.period = Period(timers)
  BY DEF View
<1>5. CASE Till(timers)[t] # NoTimer
  <2> HIDE DEF now, next
  <2>1. Abstract!Stops(now, next)
    BY <1>3, <1>4, <1>5 DEF Abstract!Stops
  <2>2. Abstract!Step(View(timers, queue), View(timers', queue'))
    BY <2>1 DEF Abstract!Step, now, next
  <2> QED BY <1>2, <2>2, StepIs DEF IInv, TypeOK
<1>6. CASE Till(timers)[t] = NoTimer
  <2>1. timers.state[t] # "Running"
    <3>1. NoTimer \notin Nat
      BY TimerAssumption
    <3>2. timers.state[t] = "Running" => Till(timers)[t] \in Nat
      BY <1>1, GoodTypes
    <3> QED BY <1>6, <3>1, <3>2
  <2>2. Period(timers)[t] = 0
    BY <2>1 DEF Period
  <2>3. Till(timers') = Till(timers) /\ Period(timers') = Period(timers)
    <3>1. Till(timers) = [u \in Timer |-> Till(timers)[u]]
      BY DEF Till
    <3>2. Period(timers) = [u \in Timer |-> Period(timers)[u]]
      BY DEF Period
    <3> QED BY <1>2, <1>6, <2>2, <3>1, <3>2
  <2>4. View(timers', queue') = View(timers, queue)
    BY <2>3 DEF View
  <2> QED BY <1>2, <2>4, StepIs DEF IInv, TypeOK
<1> QED BY <1>5, <1>6

LEMMA TickStep ==
  ASSUME IInv, TimerTick
  PROVE  IInv' /\ [Abstract!Next]_Abstract!vars
<1> DEFINE after == Expired(Counted(timers), queue)
           now  == View(timers, queue)
           next == View(after.l, after.q)
<1>1. Good(timers) /\ queue \in Seq(Timer) /\ calling \in Timer \cup {NoTimer}
      /\ Len(queue) <= QueueSize
  BY DEF IInv, TypeOK
<1>2. IF Len(after.q) > QueueSize
      THEN failed' = TRUE /\ UNCHANGED <<timers, queue>>
      ELSE timers' = after.l /\ queue' = after.q /\ failed' = FALSE
  BY DEF TimerTick, Counted
<1>3. calling' = calling
  BY DEF TimerTick
<1>4. /\ Good(after.l) /\ after.q \in Seq(Timer)
      /\ Period(after.l) = Period(timers)
      /\ Till(after.l) = [t \in Timer |->
           CASE Till(timers)[t] = NoTimer -> NoTimer
             [] Till(timers)[t] = 1 -> IF Period(timers)[t] = 0 THEN NoTimer
                                       ELSE Period(timers)[t]
             [] OTHER -> Till(timers)[t] - 1]
      /\ \A t \in Timer : Times(after.q, t) = IF Till(timers)[t] = 1 THEN Times(queue, t) + 1
                                             ELSE Times(queue, t)
  BY <1>1, TickIs
<1> HIDE DEF after
<1>5. CASE Len(after.q) > QueueSize
  <2>1. timers' = timers /\ queue' = queue /\ failed' \in BOOLEAN
    BY <1>2, <1>5
  <2>2. View(timers', queue') = View(timers, queue)
    BY <2>1
  <2> QED BY <1>1, <1>3, <2>1, <2>2, StepIs
<1>6. CASE ~(Len(after.q) > QueueSize)
  <2>1. timers' = after.l /\ queue' = after.q /\ failed' \in BOOLEAN
    BY <1>2, <1>6
  <2>2. Len(queue') <= QueueSize
    <3>1. Len(after.q) \in Nat /\ QueueSize \in Nat
      BY <1>4, TimerAssumption
    <3> QED BY <1>6, <2>1, <3>1
  <2>3. /\ now.left = Till(timers) /\ now.period = Period(timers)
        /\ \A t \in Timer : now.owed[t] = Times(queue, t)
    BY DEF View
  <2>4. [t \in Timer |-> Times(after.q, t)]
          = [t \in Timer |-> IF now.left[t] = 1 THEN now.owed[t] + 1 ELSE now.owed[t]]
    BY <1>4, <2>3
  <2>5. next = [left |-> Till(after.l), period |-> Period(after.l),
                owed |-> [t \in Timer |-> Times(after.q, t)]]
    BY DEF View
  <2> HIDE DEF now, next
  <2>6. next = Abstract!Ticked(now)
    BY <1>4, <2>3, <2>4, <2>5 DEF Abstract!Ticked
  <2>7. Abstract!Step(now, next)
    BY <2>6 DEF Abstract!Step
  <2>8. Abstract!Step(View(timers, queue), View(timers', queue'))
    BY <2>1, <2>7 DEF now, next
  <2> QED BY <1>1, <1>3, <1>4, <2>1, <2>2, <2>8, StepIs
<1> QED BY <1>5, <1>6

LEMMA GetStep ==
  ASSUME IInv, TimerThreadGet
  PROVE  IInv' /\ [Abstract!Next]_Abstract!vars
<1> DEFINE now  == View(timers, queue)
           next == View(timers', queue')
           h    == Head(queue)
<1>1. /\ Good(timers) /\ queue \in Seq(Timer) /\ queue # <<>> /\ Len(queue) <= QueueSize
      /\ failed \in BOOLEAN /\ timers' = timers /\ queue' = Tail(queue)
      /\ calling' = h /\ failed' = failed
  BY DEF IInv, TypeOK, TimerThreadGet
<1>2. h \in Timer /\ Tail(queue) \in Seq(Timer) /\ Len(Tail(queue)) <= QueueSize
  <2>1. Len(Tail(queue)) = Len(queue) - 1 /\ Len(queue) \in Nat
    BY <1>1
  <2>2. QueueSize \in Nat
    BY TimerAssumption
  <2>3. h \in Timer /\ Tail(queue) \in Seq(Timer)
    BY <1>1
  <2> QED BY <1>1, <2>1, <2>2, <2>3
<1> HIDE DEF h
<1>3. \A t \in Timer : Times(Tail(queue), t) = IF t = h THEN Times(queue, t) - 1 ELSE Times(queue, t)
  BY <1>1, TimesTail DEF h
<1>4. Times(queue, h) > 0
  BY <1>1, <1>2, TimesTail DEF h
<1>5. now.owed[h] > 0 /\ DOMAIN now.owed = Timer
  BY <1>2, <1>4 DEF View
<1>6. [t \in Timer |-> Times(Tail(queue), t)] = [now.owed EXCEPT ![h] = @ - 1]
  BY <1>2, <1>3 DEF View
<1>7. next = [now EXCEPT !.owed[h] = @ - 1]
  <2> DEFINE owed == [t \in Timer |-> Times(queue, t)]
             less == now.owed[h] - 1
  <2>1. now = [left |-> Till(timers), period |-> Period(timers), owed |-> owed]
        /\ now.owed = owed
    BY DEF View
  <2>2. next = [left |-> Till(timers), period |-> Period(timers),
                owed |-> [t \in Timer |-> Times(Tail(queue), t)]]
    BY <1>1 DEF View
  <2>3. [t \in Timer |-> Times(Tail(queue), t)] = [owed EXCEPT ![h] = less]
    BY <1>6, <2>1
  <2> HIDE DEF owed, now, next, less
  <2>4. [now EXCEPT !.owed[h] = less]
          = [left |-> Till(timers), period |-> Period(timers), owed |-> [owed EXCEPT ![h] = less]]
    BY <2>1
  <2> QED BY <2>2, <2>3, <2>4 DEF less
<1> HIDE DEF now, next
<1>8. Abstract!Calls(now, next)
  BY <1>2, <1>5, <1>7 DEF Abstract!Calls
<1>9. Abstract!Step(View(timers, queue), View(timers', queue'))
  BY <1>8 DEF Abstract!Step, now, next
<1> QED BY <1>1, <1>2, <1>9, StepIs

LEMMA NextStep ==
  ASSUME IInv, [Next]_vars
  PROVE  IInv' /\ [Abstract!Next]_Abstract!vars
<1>1. ASSUME NEW t \in Timer, Service(t)
      PROVE  IInv' /\ [Abstract!Next]_Abstract!vars
  <2>1. UNCHANGED <<queue, calling, failed>>
    BY <1>1 DEF Service
  <2>2. CASE TimerStop(t)
    <3>1. timers' = [Off(timers, t) EXCEPT !.state[t] = "Stopped"]
      BY <2>2 DEF TimerStop, Off
    <3> QED BY <2>1, <3>1, StopStep
  <2>3. CASE TimerDelete(t)
    <3>1. timers' = [Off(timers, t) EXCEPT !.state[t] = "Inactive"]
      BY <2>3 DEF TimerDelete, Off
    <3> QED BY <2>1, <3>1, StopStep
  <2>4. CASE \E type \in {"Once", "Periodic"} : TimerNew(t, type)
    BY <2>1, <2>4, NewStep
  <2>5. CASE \E ticks \in Ticks : TimerStart(t, ticks)
    BY <2>1, <2>5, StartStep
  <2> QED BY <1>1, <2>2, <2>3, <2>4, <2>5 DEF Service
<1>2. CASE TimerThreadReturns
  <2>1. timers' = timers /\ queue' = queue /\ calling' = NoTimer /\ failed' = failed
    BY <1>2 DEF TimerThreadReturns
  <2>2. View(timers', queue') = View(timers, queue)
    BY <2>1
  <2> QED BY <2>1, <2>2, StepIs DEF IInv, TypeOK
<1>3. CASE UNCHANGED vars
  <2>1. timers' = timers /\ queue' = queue /\ calling' = calling /\ failed' = failed
    BY <1>3 DEF vars
  <2>2. View(timers', queue') = View(timers, queue)
    BY <2>1
  <2> QED BY <2>1, <2>2, StepIs DEF IInv, TypeOK
<1> QED BY <1>1, <1>2, <1>3, TickStep, GetStep DEF Next

LEMMA IInvImplies ==
  ASSUME IInv
  PROVE  TypeOK /\ RunningListed
<1>1. Apart(timers) /\ ToSet(timers.list) = {t \in Timer : timers.state[t] = "Running"}
  BY DEF IInv, Good, Loaded
<1> QED BY <1>1 DEF IInv, Apart, RunningListed

\* Whatever is started, stopped and deleted, and however many timers expire in one
\* tick: the list holds the timers that run, once each, and every timer expires after
\* exactly its ticks and is queued once each time, as TimerService has it.
THEOREM TimersKeepTime == Spec => KeepsTime
<1>1. Init => IInv /\ Abstract!Init
  BY InitGood
<1>2. IInv /\ [Next]_vars => IInv' /\ [Abstract!Next]_Abstract!vars
  BY NextStep
<1>3. IInv => TypeOK /\ RunningListed
  BY IInvImplies
<1> QED BY <1>1, <1>2, <1>3, PTL DEF Spec, KeepsTime, ImplementsTimers, Abstract!Spec
====
