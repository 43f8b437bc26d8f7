----------------------------- MODULE ListFacts -----------------------------
(***************************************************************************)
(* Facts about lists and numbers that the proofs about the components      *)
(* share: inserting and removing at an index, counting, induction on the   *)
(* natural numbers, and definition by recursion.  The last two are stated  *)
(* with sets and functions where the library has operators as parameters,  *)
(* so that they can be used on the recursive functions of a model.         *)
(***************************************************************************)
EXTENDS Integers, Sequences, SequencesExt, SequenceTheorems,
        FiniteSetTheorems, WellFoundedInduction, TLAPS

---------------------------------------------------------------------------
\* Insertion and removal

\* What an insertion at index i puts at each index.
LEMMA InsertAtIndex ==
  ASSUME NEW S, NEW s \in Seq(S), NEW x \in S, NEW i \in 1 .. Len(s) + 1
  PROVE  /\ InsertAt(s, i, x) \in Seq(S)
         /\ Len(InsertAt(s, i, x)) = Len(s) + 1
         /\ \A j \in 1 .. Len(s) + 1 :
              InsertAt(s, i, x)[j] = IF j < i THEN s[j] ELSE IF j = i THEN x ELSE s[j - 1]
<1> DEFINE front == SubSeq(s, 1, i - 1)
           back  == SubSeq(s, i, Len(s))
<1>0. Len(s) \in Nat /\ i \in Int /\ \A j \in 1 .. Len(s) : s[j] \in S
  OBVIOUS
<1>1. /\ front \in Seq(S) /\ Len(front) = i - 1
      /\ \A j \in 1 .. i - 1 : front[j] = s[j]
  <2>1. \A j \in 1 .. i - 1 : s[j] \in S
    BY <1>0
  <2>2. Len(front) = IF 1 <= i - 1 THEN i - 1 - 1 + 1 ELSE 0
    BY <1>0, <2>1, SubSeqProperties
  <2>3. \A j \in 1 .. i - 1 - 1 + 1 : front[j] = s[1 + j - 1]
    BY <1>0, <2>1, SubSeqProperties
  <2>4. front \in Seq(S)
    BY <1>0, <2>1, SubSeqProperties
  <2> HIDE DEF front
  <2>5. ASSUME NEW j \in 1 .. i - 1 PROVE front[j] = s[j]
    <3>1. j \in 1 .. i - 1 - 1 + 1 /\ 1 + j - 1 = j
      BY <1>0
    <3> QED BY <2>3, <3>1
  <2>6. Len(front) = i - 1
    BY <1>0, <2>2
  <2> QED BY <2>4, <2>5, <2>6
<1>2. /\ back \in Seq(S) /\ Len(back) = Len(s) - i + 1
      /\ \A j \in 1 .. Len(s) - i + 1 : back[j] = s[i + j - 1]
  <2>1. \A j \in i .. Len(s) : s[j] \in S
    BY <1>0
  <2>2. Len(back) = IF i <= Len(s) THEN Len(s) - i + 1 ELSE 0
    BY <1>0, <2>1, SubSeqProperties
  <2>3. \A j \in 1 .. Len(s) - i + 1 : back[j] = s[i + j - 1]
    BY <1>0, <2>1, SubSeqProperties
  <2>4. back \in Seq(S)
    BY <1>0, <2>1, SubSeqProperties
  <2> HIDE DEF back
  <2> QED BY <1>0, <2>2, <2>3, <2>4
<1> DEFINE left == front \o <<x>>
<1> HIDE DEF front, back
<1>3. /\ left \in Seq(S) /\ Len(left) = i
      /\ \A j \in 1 .. i : left[j] = IF j < i THEN s[j] ELSE x
  <2>1. <<x>> \in Seq(S) /\ Len(<<x>>) = 1 /\ <<x>>[1] = x
    OBVIOUS
  <2>2. /\ left \in Seq(S) /\ Len(left) = Len(front) + 1
        /\ \A j \in 1 .. Len(front) + 1 :
             left[j] = IF j <= Len(front) THEN front[j] ELSE <<x>>[j - Len(front)]
    BY <1>1, <2>1, ConcatProperties
  <2> QED BY <1>0, <1>1, <2>1, <2>2
<1> HIDE DEF left
<1>4. /\ left \o back \in Seq(S) /\ Len(left \o back) = Len(left) + Len(back)
      /\ \A j \in 1 .. Len(left) + Len(back) :
           (left \o back)[j] = IF j <= Len(left) THEN left[j] ELSE back[j - Len(left)]
  BY <1>2, <1>3, ConcatProperties
<1>5. InsertAt(s, i, x) = left \o back
  BY DEF InsertAt, left, front, back
<1>6. ASSUME NEW j \in 1 .. Len(s) + 1
      PROVE  (left \o back)[j] = IF j < i THEN s[j] ELSE IF j = i THEN x ELSE s[j - 1]
  <2>1. j \in 1 .. Len(left) + Len(back)
    BY <1>0, <1>2, <1>3
  <2>2. CASE j <= i
    BY <1>0, <1>3, <1>4, <2>1, <2>2
  <2>3. CASE ~(j <= i)
    <3>1. j - Len(left) \in 1 .. Len(s) - i + 1 /\ i + (j - Len(left)) - 1 = j - 1
          /\ ~(j <= Len(left)) /\ ~(j < i) /\ j # i
      BY <1>0, <1>3, <2>3
    <3> QED BY <1>2, <1>4, <2>1, <3>1
  <2> QED BY <2>2, <2>3
<1>7. Len(left \o back) = Len(s) + 1
  BY <1>0, <1>2, <1>3, <1>4
<1> QED BY <1>4, <1>5, <1>6, <1>7

\* What a removal at index i leaves at each index.
LEMMA RemoveAtIndex ==
  ASSUME NEW S, NEW s \in Seq(S), NEW i \in 1 .. Len(s)
  PROVE  /\ RemoveAt(s, i) \in Seq(S)
         /\ Len(RemoveAt(s, i)) = Len(s) - 1
         /\ \A j \in 1 .. Len(s) - 1 :
              RemoveAt(s, i)[j] = IF j < i THEN s[j] ELSE s[j + 1]
<1> DEFINE front == SubSeq(s, 1, i - 1)
           back  == SubSeq(s, i + 1, Len(s))
<1>0. Len(s) \in Nat /\ i \in Int /\ \A j \in 1 .. Len(s) : s[j] \in S
  OBVIOUS
<1>1. /\ front \in Seq(S) /\ Len(front) = i - 1
      /\ \A j \in 1 .. i - 1 : front[j] = s[j]
  <2>1. \A j \in 1 .. i - 1 : s[j] \in S
    BY <1>0
  <2>2. Len(front) = IF 1 <= i - 1 THEN i - 1 - 1 + 1 ELSE 0
    BY <1>0, <2>1, SubSeqProperties
  <2>3. \A j \in 1 .. i - 1 - 1 + 1 : front[j] = s[1 + j - 1]
    BY <1>0, <2>1, SubSeqProperties
  <2>4. front \in Seq(S)
    BY <1>0, <2>1, SubSeqProperties
  <2> HIDE DEF front
  <2>5. ASSUME NEW j \in 1 .. i - 1 PROVE front[j] = s[j]
    <3>1. j \in 1 .. i - 1 - 1 + 1 /\ 1 + j - 1 = j
      BY <1>0
    <3> QED BY <2>3, <3>1
  <2>6. Len(front) = i - 1
    BY <1>0, <2>2
  <2> QED BY <2>4, <2>5, <2>6
<1>2. /\ back \in Seq(S) /\ Len(back) = Len(s) - i
      /\ \A j \in 1 .. Len(s) - i : back[j] = s[i + j]
  <2>1. \A j \in i + 1 .. Len(s) : s[j] \in S
    BY <1>0
  <2>2. Len(back) = IF i + 1 <= Len(s) THEN Len(s) - (i + 1) + 1 ELSE 0
    BY <1>0, <2>1, SubSeqProperties
  <2>3. \A j \in 1 .. Len(s) - (i + 1) + 1 : back[j] = s[i + 1 + j - 1]
    BY <1>0, <2>1, SubSeqProperties
  <2>4. back \in Seq(S)
    BY <1>0, <2>1, SubSeqProperties
  <2> HIDE DEF back
  <2>5. ASSUME NEW j \in 1 .. Len(s) - i PROVE back[j] = s[i + j]
    <3>1. j \in 1 .. Len(s) - (i + 1) + 1 /\ i + 1 + j - 1 = i + j
      BY <1>0
    <3> QED BY <2>3, <3>1
  <2>6. Len(back) = Len(s) - i
    BY <1>0, <2>2
  <2> QED BY <2>4, <2>5, <2>6
<1> HIDE DEF front, back
<1>3. /\ front \o back \in Seq(S) /\ Len(front \o back) = Len(front) + Len(back)
      /\ \A j \in 1 .. Len(front) + Len(back) :
           (front \o back)[j] = IF j <= Len(front) THEN front[j] ELSE back[j - Len(front)]
  BY <1>1, <1>2, ConcatProperties
<1>4. RemoveAt(s, i) = front \o back
  BY DEF RemoveAt, front, back
<1>5. ASSUME NEW j \in 1 .. Len(s) - 1
      PROVE  (front \o back)[j] = IF j < i THEN s[j] ELSE s[j + 1]
  <2>1. j \in 1 .. Len(front) + Len(back)
    BY <1>0, <1>1, <1>2
  <2>2. CASE j < i
    BY <1>0, <1>1, <1>3, <2>1, <2>2
  <2>3. CASE ~(j < i)
    <3>1. j - Len(front) \in 1 .. Len(s) - i /\ i + (j - Len(front)) = j + 1 /\ ~(j <= Len(front))
      BY <1>0, <1>1, <2>3
    <3> QED BY <1>2, <1>3, <2>1, <2>3, <3>1
  <2> QED BY <2>2, <2>3
<1>6. Len(front \o back) = Len(s) - 1
  BY <1>0, <1>1, <1>2, <1>3
<1> QED BY <1>3, <1>4, <1>5, <1>6

---------------------------------------------------------------------------
\* Counting: how many times an element is in a list.

Times(q, t) == Cardinality({i \in DOMAIN q : q[i] = t})

LEMMA TimesAppend ==
  ASSUME NEW A, NEW q \in Seq(A), NEW x \in A, NEW t \in A
  PROVE  /\ Times(q, t) \in Nat
         /\ Times(Append(q, x), t) = IF t = x THEN Times(q, t) + 1 ELSE Times(q, t)
<1> DEFINE N == Len(q)
           S == {i \in 1 .. N : q[i] = t}
           T == {i \in 1 .. N + 1 : Append(q, x)[i] = t}
           last == {N + 1}
<1>1. N \in Nat /\ DOMAIN q = 1 .. N /\ DOMAIN Append(q, x) = 1 .. N + 1
  BY AppendProperties
<1>2. Append(q, x)[N + 1] = x /\ \A i \in 1 .. N : Append(q, x)[i] = q[i]
  OBVIOUS
<1>3. Times(q, t) = Cardinality(S) /\ Times(Append(q, x), t) = Cardinality(T)
  BY <1>1 DEF Times
<1> HIDE DEF N
<1>4. IsFiniteSet(S) /\ Cardinality(S) \in Nat
  <2>1. IsFiniteSet(1 .. N) /\ S \in SUBSET (1 .. N)
    BY <1>1, FS_Interval
  <2> HIDE DEF S
  <2> QED BY <2>1, FS_Subset, FS_CardinalityType
<1>5. T = IF t = x THEN S \cup last ELSE S
  BY <1>1, <1>2
<1>6. N + 1 \notin S
  BY <1>1
<1> HIDE DEF S, T
<1>7. Cardinality(S \cup last) = Cardinality(S) + 1
  BY <1>4, <1>6, FS_AddElement
<1> HIDE DEF last
<1> QED BY <1>3, <1>4, <1>5, <1>7

LEMMA TimesTail ==
  ASSUME NEW A, NEW q \in Seq(A), q # <<>>, NEW t \in A
  PROVE  /\ Times(q, t) \in Nat
         /\ t = Head(q) => Times(q, t) > 0
         /\ Times(Tail(q), t) = IF t = Head(q) THEN Times(q, t) - 1 ELSE Times(q, t)
<1> DEFINE N == Len(q)
           S == {i \in 1 .. N : q[i] = t}
           T == {i \in 1 .. N - 1 : Tail(q)[i] = t}
           U == {i \in 2 .. N : q[i] = t}
           first == {1}
           f == [i \in T |-> i + 1]
<1>1. /\ N \in Nat /\ N > 0 /\ DOMAIN q = 1 .. N /\ DOMAIN Tail(q) = 1 .. N - 1
      /\ Head(q) = q[1] /\ \A i \in 1 .. N - 1 : Tail(q)[i] = q[i + 1]
  OBVIOUS
<1>2. Times(q, t) = Cardinality(S) /\ Times(Tail(q), t) = Cardinality(T)
  BY <1>1 DEF Times
<1> HIDE DEF N
<1>3. IsFiniteSet(U) /\ Cardinality(U) \in Nat
  <2>1. IsFiniteSet(1 .. N) /\ U \in SUBSET (1 .. N)
    BY <1>1, FS_Interval
  <2> HIDE DEF U
  <2> QED BY <2>1, FS_Subset, FS_CardinalityType
<1>4. IsFiniteSet(T)
  <2>1. IsFiniteSet(1 .. N) /\ T \in SUBSET (1 .. N)
    BY <1>1, FS_Interval
  <2> HIDE DEF T
  <2> QED BY <2>1, FS_Subset
<1>5. Cardinality(T) = Cardinality(U)
  <2>1. ASSUME NEW i \in T  PROVE i + 1 \in U
    <3>1. i \in 1 .. N - 1 /\ i + 1 \in 2 .. N /\ q[i + 1] = t
      BY <1>1
    <3> QED BY <3>1
  <2>2. f \in [T -> U]
    BY <2>1
  <2>3. \A a, b \in T : f[a] = f[b] => a = b
    BY <1>1
  <2>4. ASSUME NEW u \in U  PROVE \E a \in T : f[a] = u
    <3>1. u - 1 \in 1 .. N - 1 /\ (u - 1) + 1 = u
      BY <1>1
    <3>2. u - 1 \in T
      BY <1>1, <3>1
    <3> QED BY <3>1, <3>2
  <2> HIDE DEF T, U, f
  <2>5. f \in Bijection(T, U)
    BY <2>2, <2>3, <2>4 DEF Bijection, Injection, Surjection, IsInjective
  <2>6. ExistsBijection(T, U)
    BY <2>5 DEF ExistsBijection
  <2> QED BY <1>4, <2>6, FS_Bijection
<1>6. S = IF t = Head(q) THEN U \cup first ELSE U
  BY <1>1
<1>7. 1 \notin U
  OBVIOUS
<1> HIDE DEF S, T, U
<1>8. Cardinality(U \cup first) = Cardinality(U) + 1
  BY <1>3, <1>7, FS_AddElement
<1> HIDE DEF first
<1> QED BY <1>2, <1>3, <1>5, <1>6, <1>8

---------------------------------------------------------------------------
\* Induction and recursion

Less == {ss \in Nat \X Nat : ss[1] < ss[2]}

LEMMA LessWellFounded == IsWellFoundedOn(Less, Nat)
  BY NatLessThanWellFounded DEF OpToRel, Less

\* A set of numbers that is not empty has a least element.
LEMMA LeastNumber ==
  ASSUME NEW T, T \subseteq Nat, T # {}
  PROVE  \E x \in T : \A y \in T : x <= y
<1>1. PICK x \in T : \A y \in T : ~(<<y, x>> \in Less)
  BY LessWellFounded, WFMin
<1>2. ASSUME NEW y \in T  PROVE x <= y
  <2>1. <<y, x>> \in Nat \X Nat /\ <<y, x>>[1] = y /\ <<y, x>>[2] = x
    OBVIOUS
  <2>2. ~(y < x)
    BY <1>1, <2>1 DEF Less
  <2> QED
    BY <2>1, <2>2
<1> QED
  BY <1>2

\* Induction: a set that has 0, and the successor of every number it has, has
\* all numbers.
THEOREM SetInduction ==
  ASSUME NEW P, 0 \in P, \A n \in Nat : n \in P => n + 1 \in P
  PROVE  Nat \subseteq P
<1> SUFFICES ASSUME Nat \ P # {}  PROVE FALSE
  OBVIOUS
<1>1. PICK x \in Nat \ P : \A y \in Nat \ P : x <= y
  BY LeastNumber
<1>2. x # 0 /\ x - 1 \in Nat
  BY <1>1
<1> QED
  BY <1>1, <1>2

---------------------------------------------------------------------------
\* Definition by recursion: first[1 .. n] of the function that starts with a and
\* goes on with step.
Started(S, a, step, n) ==
  {f \in [0 .. n -> S] : f[0] = a /\ \A i \in 1 .. n : f[i] = step[i][f[i - 1]]}

LEMMA StartedUnique ==
  ASSUME NEW S, NEW a \in S, NEW step \in [Nat -> [S -> S]],
         NEW m \in Nat, NEW n \in Nat, NEW f \in Started(S, a, step, m),
         NEW g \in Started(S, a, step, n)
  PROVE  \A i \in Nat : i <= m /\ i <= n => f[i] = g[i]
<1> DEFINE P == {i \in Nat : i <= m /\ i <= n => f[i] = g[i]}
<1>1. 0 \in P
  BY DEF Started
<1>2. ASSUME NEW i \in Nat, i \in P  PROVE i + 1 \in P
  <2> SUFFICES ASSUME i + 1 <= m, i + 1 <= n  PROVE f[i + 1] = g[i + 1]
    OBVIOUS
  <2>1. f[i] = g[i]
    BY <1>2
  <2>2. i + 1 \in 1 .. m /\ i + 1 \in 1 .. n /\ (i + 1) - 1 = i
    OBVIOUS
  <2>3. f[i + 1] = step[i + 1][f[(i + 1) - 1]] /\ g[i + 1] = step[i + 1][g[(i + 1) - 1]]
    BY <2>2 DEF Started
  <2> QED
    BY <2>1, <2>2, <2>3
<1> HIDE DEF P
<1>3. Nat \subseteq P
  BY <1>1, <1>2, SetInduction
<1> QED
  BY <1>3 DEF P

LEMMA StartedExists ==
  ASSUME NEW S, NEW a \in S, NEW step \in [Nat -> [S -> S]]
  PROVE  \A n \in Nat : \E f : f \in Started(S, a, step, n)
<1> DEFINE P == {n \in Nat : \E f : f \in Started(S, a, step, n)}
<1>1. 0 \in P
  <2> DEFINE f == [i \in 0 .. 0 |-> a]
  <2>1. f \in Started(S, a, step, 0)
    BY DEF Started
  <2> QED
    BY <2>1
<1>2. ASSUME NEW n \in Nat, n \in P  PROVE n + 1 \in P
  <2>1. PICK f : f \in Started(S, a, step, n)
    BY <1>2
  <2>2. f \in [0 .. n -> S] /\ f[0] = a /\ \A i \in 1 .. n : f[i] = step[i][f[i - 1]]
    BY <2>1 DEF Started
  <2> DEFINE g == [i \in 0 .. n + 1 |-> IF i = n + 1 THEN step[n + 1][f[n]] ELSE f[i]]
  <2>3. step[n + 1][f[n]] \in S
    BY <2>2
  <2>4. g \in [0 .. n + 1 -> S]
    BY <2>2, <2>3
  <2>5. g[0] = a
    BY <2>2
  <2>6. ASSUME NEW i \in 1 .. n + 1  PROVE g[i] = step[i][g[i - 1]]
    <3>1. i - 1 \in 0 .. n /\ g[i - 1] = f[i - 1]
      OBVIOUS
    <3>2. CASE i = n + 1
      BY <3>1, <3>2
    <3>3. CASE i # n + 1
      <4>1. i \in 1 .. n /\ g[i] = f[i]
        BY <3>3
      <4> QED
        BY <4>1, <3>1, <2>2
    <3> QED
      BY <3>2, <3>3
  <2> HIDE DEF g
  <2>7. g \in Started(S, a, step, n + 1)
    BY <2>4, <2>5, <2>6 DEF Started
  <2> QED
    BY <2>7
<1> HIDE DEF P
<1>3. Nat \subseteq P
  BY <1>1, <1>2, SetInduction
<1> QED
  BY <1>3 DEF P

Recurs(f, a, step) == f[0] = a /\ \A n \in Nat : f[n + 1] = step[n + 1][f[n]]

\* There is a function that starts with a and goes on with step.
THEOREM Recursion ==
  ASSUME NEW S, NEW a \in S, NEW step \in [Nat -> [S -> S]]
  PROVE  \E f \in [Nat -> S] : Recurs(f, a, step)
<1> DEFINE start(n) == CHOOSE f : f \in Started(S, a, step, n)
           F == [n \in Nat |-> start(n)[n]]
<1>1. ASSUME NEW n \in Nat  PROVE start(n) \in Started(S, a, step, n)
  BY StartedExists
<1>2. ASSUME NEW n \in Nat
      PROVE  /\ start(n) \in [0 .. n -> S] /\ start(n)[0] = a
             /\ \A i \in 1 .. n : start(n)[i] = step[i][start(n)[i - 1]]
  BY <1>1 DEF Started
<1> HIDE DEF start
<1>3. F \in [Nat -> S]
  <2>1. ASSUME NEW n \in Nat  PROVE start(n)[n] \in S
    BY <1>2
  <2> QED
    BY <2>1
<1>4. F[0] = a
  BY <1>2
<1>5. ASSUME NEW n \in Nat  PROVE F[n + 1] = step[n + 1][F[n]]
  <2>1. start(n + 1)[n] = start(n)[n]
    BY <1>1, StartedUnique
  <2>2. n + 1 \in 1 .. n + 1 /\ (n + 1) - 1 = n
    OBVIOUS
  <2>3. start(n + 1)[n + 1] = step[n + 1][start(n + 1)[n]]
    BY <1>2, <2>2
  <2> QED
    BY <2>1, <2>3
<1> HIDE DEF F
<1> QED
  BY <1>3, <1>4, <1>5 DEF Recurs
---------------------------------------------------------------------------
\* The greatest number of a set

\* Every number of a finite list is below some number.
LEMMA Bounded ==
  \A n \in Nat : \A f \in [1 .. n -> Nat] : \E b \in Nat : \A i \in 1 .. n : f[i] <= b
<1> DEFINE P == {n \in Nat : \A f \in [1 .. n -> Nat] :
                               \E b \in Nat : \A i \in 1 .. n : f[i] <= b}
<1>1. 0 \in P
  BY 0 \in Nat /\ \A i \in 1 .. 0 : FALSE
<1>2. ASSUME NEW n \in Nat, n \in P, NEW f \in [1 .. n + 1 -> Nat]
      PROVE  \E b \in Nat : \A i \in 1 .. n + 1 : f[i] <= b
  <2> DEFINE g == [i \in 1 .. n |-> f[i]]
  <2>1. g \in [1 .. n -> Nat]
    OBVIOUS
  <2>2. PICK b \in Nat : \A i \in 1 .. n : g[i] <= b
    BY <1>2, <2>1
  <2>3. \A i \in 1 .. n : f[i] <= b
    BY <2>2
  <2> HIDE DEF g
  <2>4. PICK c \in Nat : b <= c /\ f[n + 1] <= c
    <3>1. f[n + 1] \in Nat
      OBVIOUS
    <3> QED
      BY <3>1
  <2>5. ASSUME NEW i \in 1 .. n + 1  PROVE f[i] <= c
    <3>1. f[i] \in Nat
      OBVIOUS
    <3>2. i \in 1 .. n \/ i = n + 1
      OBVIOUS
    <3> QED
      BY <2>3, <2>4, <3>1, <3>2
  <2> QED
    BY <2>5
<1>3. ASSUME NEW n \in Nat, n \in P  PROVE n + 1 \in P
  <2>1. n + 1 \in Nat
    OBVIOUS
  <2> QED
    BY <1>2, <1>3, <2>1
<1> HIDE DEF P
<1>4. Nat \subseteq P
  BY <1>1, <1>3, SetInduction
<1> QED
  BY <1>4 DEF P

LEMMA Maximum ==
  ASSUME NEW S, IsFiniteSet(S), S \subseteq Nat, S # {}
  PROVE  Max(S) \in S /\ \A y \in S : y <= Max(S)
<1> DEFINE B == {b \in Nat : \A y \in S : y <= b}
<1>1. B # {}
  <2>1. PICK n \in Nat : ExistsSurjection(1 .. n, S)
    BY FS_NatSurjection
  <2>2. PICK f \in [1 .. n -> S] : \A y \in S : \E i \in 1 .. n : f[i] = y
    BY <2>1 DEF ExistsSurjection, Surjection
  <2>3. f \in [1 .. n -> Nat]
    OBVIOUS
  <2>4. PICK b \in Nat : \A i \in 1 .. n : f[i] <= b
    BY <2>3, Bounded
  <2> QED
    BY <2>2, <2>4
<1>2. PICK b \in B : \A c \in B : b <= c
  BY <1>1, LeastNumber
<1>3. b \in Nat /\ \A y \in S : y <= b
  OBVIOUS
<1>4. b \in S
  <2> SUFFICES ASSUME b \notin S PROVE FALSE
    OBVIOUS
  <2>1. PICK z \in S : TRUE
    OBVIOUS
  <2>2. \A y \in S : y < b
    BY <1>3
  <2>3. b - 1 \in Nat /\ \A y \in S : y <= b - 1
    BY <1>3, <2>1, <2>2
  <2>4. b - 1 \in B
    BY <2>3
  <2> QED
    BY <1>2, <1>3, <2>4
<1> HIDE DEF B
<1>5. \E x \in S : \A y \in S : x >= y
  BY <1>3, <1>4
<1>6. Max(S) \in S /\ \A y \in S : Max(S) >= y
  BY <1>5 DEF Max
<1> QED
  BY <1>6

===========================================================================
