---------------------------- MODULE Student_proofs ----------------------------
(***************************************************************************)
(* Proofs about a student's own time and classes: the schedule, the        *)
(* imported calendar and the class catalogue.  Their operators read a list *)
(* entry by entry, so what is proved of them is an invariant of the        *)
(* reading: it holds before the first entry, each entry keeps it, and      *)
(* after the last it says what the answer promises.                        *)
(***************************************************************************)
EXTENDS OwnTime, Classes, Tools_proofs, FunctionTheorems

(* Reading a list.  What holds at 0 and is kept by every step up to n      *)
(* holds up to n.                                                          *)
LEMMA Reached ==
    ASSUME NEW n \in Nat, NEW S, 0 \in S, \A k \in 0..n : k < n /\ k \in S => k + 1 \in S
    PROVE  \A k \in 0..n : k \in S
<1> DEFINE T == {k \in 0..n : k \notin S}
<1> SUFFICES ASSUME T # {} PROVE FALSE
  OBVIOUS
<1>1. T \subseteq Nat
  OBVIOUS
<1>2. PICK m \in T : \A j \in T : m <= j
  <2> HIDE DEF T
  <2> QED
    BY <1>1, ForemostOf
<1>3. m # 0 /\ m \in 0..n /\ m - 1 \in 0..n /\ m - 1 < n
  OBVIOUS
<1>4. m - 1 \in S
  BY <1>2, <1>3
<1>5. (m - 1) + 1 \in S
  BY <1>3, <1>4
<1> QED
  BY <1>3, <1>5

\* f lists what has been read after each of n entries, where entry i turns x into G[i][x].
Reading(f, n, X, base, G) == f \in [0..n -> X] /\ f[0] = base /\ \A i \in 1..n : f[i] = G[i][f[i - 1]]

LEMMA Readings ==
    ASSUME NEW n \in Nat, NEW X, NEW base \in X, NEW G \in [1..n -> [X -> X]]
    PROVE  \E f : Reading(f, n, X, base, G)
<1> DEFINE S == {k \in 0..n : \E f : Reading(f, k, X, base, G)}
<1>1. 0 \in S
  <2>1. Reading([i \in 0..0 |-> base], 0, X, base, G)
    BY DEF Reading
  <2> QED
    BY <2>1
<1>2. ASSUME NEW k \in 0..n, k < n, k \in S PROVE k + 1 \in S
  <2>1. PICK f : Reading(f, k, X, base, G)
    BY <1>2
  <2> DEFINE g == [i \in 0..(k + 1) |-> IF i <= k THEN f[i] ELSE G[k + 1][f[k]]]
  <2>2. k + 1 \in 1..n /\ f[k] \in X
    BY <1>2, <2>1 DEF Reading
  <2>3. G[k + 1][f[k]] \in X
    BY <2>2
  <2>4. g \in [0..(k + 1) -> X]
    BY <2>1, <2>3 DEF Reading
  <2>5. g[0] = base
    BY <2>1 DEF Reading
  <2>6. ASSUME NEW i \in 1..(k + 1) PROVE g[i] = G[i][g[i - 1]]
    <3>1. CASE i <= k
      BY <2>1, <3>1 DEF Reading
    <3>2. CASE i = k + 1
      BY <2>1, <3>2 DEF Reading
    <3> QED
      BY <3>1, <3>2
  <2> HIDE DEF g
  <2>7. Reading(g, k + 1, X, base, G)
    BY <2>4, <2>5, <2>6 DEF Reading
  <2> QED
    BY <2>2, <2>7
<1>3. n \in 0..n
  OBVIOUS
<1>4. n \in S
  <2> HIDE DEF S
  <2> QED
    BY <1>1, <1>2, <1>3, Reached
<1> QED
  BY <1>4

\* What every entry keeps of what is read, the whole list keeps.
LEMMA Kept ==
    ASSUME NEW n \in Nat, NEW f, NEW A, f[0] \in A, \A i \in 0..n : i < n /\ f[i] \in A => f[i + 1] \in A
    PROVE  f[n] \in A
<1> DEFINE S == {i \in 0..n : f[i] \in A}
<1>1. 0 \in S /\ n \in 0..n
  OBVIOUS
<1>2. \A i \in 0..n : i < n /\ i \in S => i + 1 \in S
  OBVIOUS
<1> HIDE DEF S
<1>3. n \in S
  BY <1>1, <1>2, Reached
<1> QED
  BY <1>3 DEF S

(* Weeks.  A day is so many weeks and so many days.                        *)
LEMMA WeeksOf ==
    ASSUME NEW d \in Int, NEW w \in Nat \ {0}
    PROVE  d \div w \in Int /\ d % w \in 0..(w - 1) /\ d = w * (d \div w) + (d % w)
<1>1. w \in Int /\ w > 0
  OBVIOUS
<1>2. d \div w \in Int /\ d % w \in 0..(w - 1)
  OBVIOUS
<1>3. d = w * (d \div w) + (d % w)
  BY <1>1
<1> QED
  BY <1>2, <1>3

LEMMA WeeksAre ==
    ASSUME NEW w \in Nat \ {0}, NEW n \in Int, NEW r \in 0..(w - 1)
    PROVE  (w * n + r) % w = r /\ (w * n + r) \div w = n
<1>1. (n * w + r) % w = r /\ (n * w + r) \div w = n
  OBVIOUS
<1>2. n * w = w * n
  OBVIOUS
<1> QED
  BY <1>1, <1>2

(* Sorting.  The members of a finite set, sorted by a strict total order:  *)
(* every one of them is there, each after those that come before it.       *)
LEMMA InOrderOf ==
    ASSUME NEW S, IsFiniteSet(S), NEW R, StrictOrder(S, R), NEW s, s = InOrder(S, R)
    PROVE  /\ s \in [1..Cardinality(S) -> S] /\ s \in Seq(S) /\ Len(s) = Cardinality(S) /\ Cardinality(S) \in Nat
           /\ \A i, j \in 1..Cardinality(S) : i < j => <<s[i], s[j]>> \in R
           /\ \A i, j \in 1..Cardinality(S) : s[i] = s[j] => i = j
           /\ \A x \in S : \E i \in 1..Cardinality(S) : s[i] = x
<1> DEFINE n == Cardinality(S)
           rank(x) == Cardinality({y \in S : <<y, x>> \in R})
<1>1. n \in Nat /\ \A x \in S : rank(x) \in Nat /\ IsFiniteSet({y \in S : <<y, x>> \in R})
  BY RankGrows, FS_CardinalityType DEF Below
<1>2. \A x, y \in S : <<y, x>> \in R => rank(y) < rank(x)
  BY RankGrows DEF Below
<1>3. \A x \in S : rank(x) \in 0..n - 1
  <2> TAKE x \in S
  <2> DEFINE B == {y \in S : <<y, x>> \in R}
  <2>1. B \subseteq S /\ x \notin B
    BY DEF StrictOrder
  <2> HIDE DEF B
  <2>2. Cardinality(B) <= Cardinality(S) /\ (Cardinality(S) = Cardinality(B) => S = B)
    BY <2>1, FS_Subset
  <2>3. Cardinality(B) < n
    BY <2>1, <2>2, <1>1 DEF B
  <2> QED
    BY <2>3, <1>1 DEF B
<1> DEFINE f == [x \in S |-> rank(x)]
<1> HIDE DEF rank
<1>4. f \in Injection(S, 0..n - 1)
  <2>1. f \in [S -> 0..n - 1]
    BY <1>3
  <2>2. ASSUME NEW x \in S, NEW y \in S, f[x] = f[y] PROVE x = y
    <3>1. rank(x) = rank(y) /\ rank(x) \in Nat /\ rank(y) \in Nat
      BY <2>2, <1>1 DEF rank
    <3>2. ~(rank(x) < rank(y)) /\ ~(rank(y) < rank(x))
      BY <3>1
    <3> QED
      BY <3>2, <1>2 DEF StrictOrder
  <2> HIDE DEF f
  <2> QED
    BY <2>1, <2>2 DEF Injection, IsInjective
<1>5. IsFiniteSet(0..n - 1) /\ Cardinality(0..n - 1) = n
  <2>1. n - 1 \in Int /\ 0 \in Int
    BY <1>1
  <2>2. IsFiniteSet(0..n - 1) /\ Cardinality(0..n - 1) = IF 0 > n - 1 THEN 0 ELSE (n - 1) - 0 + 1
    BY <2>1, FS_Interval
  <2> HIDE DEF n
  <2> QED
    BY <1>1, <2>2
<1>6. f \in Surjection(S, 0..n - 1)
  <2> HIDE DEF f
  <2> QED
    BY <1>4, <1>5, FS_Injection
<1>7. \A k \in 0..n - 1 : \E x \in S : rank(x) = k
  <2>1. \A k \in 0..n - 1 : \E x \in S : f[x] = k
    <3> HIDE DEF f
    <3> QED
      BY <1>6 DEF Surjection
  <2> QED
    BY <2>1
<1>8. \A i \in 1..n : s[i] \in S /\ rank(s[i]) = i - 1
  <2> TAKE i \in 1..n
  <2>1. s[i] = CHOOSE x \in S : rank(x) = i - 1
    BY DEF InOrder, rank
  <2>2. i - 1 \in 0..n - 1
    BY <1>1
  <2> QED
    BY <2>1, <2>2, <1>7
<1>9. s \in [1..n -> S] /\ Len(s) = n /\ s \in Seq(S)
  <2> DEFINE e(i) == CHOOSE x \in S : rank(x) = i - 1
  <2>0. s = [i \in 1..n |-> e(i)]
    BY DEF InOrder, rank
  <2>1. s = [i \in 1..n |-> s[i]]
    <3> HIDE DEF e, n
    <3> QED
      BY <2>0
  <2>2. s \in [1..n -> S]
    BY <2>1, <1>8
  <2> HIDE DEF n
  <2> QED
    BY <2>2, <1>1, SeqDef, LenProperties
<1>10. ASSUME NEW i \in 1..n, NEW j \in 1..n, i < j PROVE <<s[i], s[j]>> \in R
  <2>1. rank(s[i]) < rank(s[j]) /\ s[i] \in S /\ s[j] \in S /\ rank(s[i]) \in Nat /\ rank(s[j]) \in Nat
    BY <1>1, <1>8, <1>10
  <2>2. ~(rank(s[j]) < rank(s[i])) /\ s[i] # s[j]
    BY <2>1
  <2> QED
    BY <2>1, <2>2, <1>2 DEF StrictOrder
<1>11. ASSUME NEW i \in 1..n, NEW j \in 1..n, s[i] = s[j] PROVE i = j
  BY <1>1, <1>8, <1>11
<1>12. ASSUME NEW x \in S PROVE \E i \in 1..n : s[i] = x
  <2>1. rank(x) \in 0..n - 1 /\ rank(x) + 1 \in 1..n
    BY <1>1, <1>3 DEF rank
  <2> DEFINE i == rank(x) + 1
  <2>2. s[i] \in S /\ rank(s[i]) = rank(x)
    BY <2>1, <1>8, <1>1
  <2>3. s[i] = x
    <3>1. rank(x) \in Nat /\ rank(s[i]) = rank(x)
      BY <2>1, <2>2
    <3>2. ~(rank(x) < rank(s[i])) /\ ~(rank(s[i]) < rank(x))
      BY <3>1
    <3> QED
      BY <2>2, <3>2, <1>2 DEF StrictOrder
  <2> QED
    BY <2>1, <2>3
<1> QED
  BY <1>1, <1>9, <1>10, <1>11, <1>12

-----------------------------------------------------------------------------
(* The schedule.  The tick t is in one of the stretches of the list; the   *)
(* stretches lie in the meal's window; there is time between any two.      *)
Taken(list, t) == \E i \in 1..Len(list) : list[i][1] <= t /\ t < list[i][2]

Stretch(b) == b \in Int \X Int /\ MealFrom <= b[1] /\ b[1] < b[2] /\ b[2] <= MealTo
Stretches(list) == list \in Seq(Int \X Int) /\ \A i \in 1..Len(list) : Stretch(list[i])
Separate(list) == \A i, j \in 1..Len(list) : i < j => list[i][2] < list[j][1]

\* A stretch that starts no earlier than those merged so far.
LEMMA AbsorbIs ==
    ASSUME NEW merged, Stretches(merged), Separate(merged),
           NEW b, Stretch(b), \A i \in 1..Len(merged) : merged[i][1] <= b[1],
           NEW more, more = Absorb(merged, b)
    PROVE  /\ Stretches(more) /\ Separate(more) /\ \A i \in 1..Len(more) : more[i][1] <= b[1]
           /\ \A t \in Int : Taken(more, t) <=> Taken(merged, t) \/ (b[1] <= t /\ t < b[2])
<1> DEFINE n == Len(merged)
<1>1. merged \in Seq(Int \X Int) /\ n \in Nat /\ DOMAIN merged = 1..n /\ \A i \in 1..n : Stretch(merged[i])
  BY DEF Stretches
<1>2. MealFrom \in Int /\ MealTo \in Int
  BY ScheduleAssumption
<1>3. CASE merged # <<>> /\ b[1] <= merged[n][2]
  <2> DEFINE last == <<merged[n][1], Later(merged[n][2], b[2])>>
  <2>1. more = [merged EXCEPT ![n] = last]
    BY <1>3 DEF Absorb
  <2>2. n \in 1..n /\ Stretch(merged[n])
    <3>1. n # 0
      BY <1>3
    <3>2. n \in 1..n
      <4>1. n \in Nat
        BY <1>1
      <4> HIDE DEF n
      <4> QED
        BY <3>1, <4>1
    <3>3. \A i \in 1..n : Stretch(merged[i])
      BY <1>1
    <3> HIDE DEF n
    <3> QED
      BY <3>2, <3>3
  <2>3. /\ last \in Int \X Int /\ last[1] = merged[n][1] /\ last[2] >= merged[n][2] /\ last[2] >= b[2]
        /\ last[2] = merged[n][2] \/ last[2] = b[2]
    BY <2>2, <1>2 DEF Later, Stretch
  <2>4. Stretch(last)
    BY <2>2, <2>3, <1>2 DEF Stretch
  <2> HIDE DEF last
  <2>5. /\ more \in Seq(Int \X Int) /\ Len(more) = n /\ more[n] = last
        /\ \A i \in 1..n : i # n => more[i] = merged[i]
    <3> DEFINE X == Int \X Int
    <3>1. merged \in Seq(X) /\ n \in 1..Len(merged) /\ last \in X
      BY <1>1, <2>2, <2>3
    <3> HIDE DEF X, n
    <3>2. /\ more \in Seq(X) /\ Len(more) = Len(merged)
          /\ \A j \in 1..Len(merged) : more[j] = IF j = n THEN last ELSE merged[j]
      BY <3>1, <2>1, ExceptSeq
    <3> QED
      BY <3>1, <3>2 DEF X, n
  <2>6. Stretches(more)
    BY <1>1, <2>4, <2>5 DEF Stretches
  <2>7. Separate(more)
    <3> SUFFICES ASSUME NEW i \in 1..n, NEW j \in 1..n, i < j PROVE more[i][2] < more[j][1]
      BY <2>5 DEF Separate
    <3>1. i # n
      <4>1. n \in Nat
        BY <1>1
      <4> HIDE DEF n
      <4> QED
        BY <4>1
    <3>2. more[i] = merged[i] /\ more[j][1] = merged[j][1]
      <4> HIDE DEF n
      <4> QED
        BY <3>1, <2>3, <2>5
    <3> QED
      BY <3>2 DEF Separate
  <2>8. \A i \in 1..Len(more) : more[i][1] <= b[1]
    BY <2>3, <2>5, <2>2
  <2>9. ASSUME NEW t \in Int PROVE Taken(more, t) <=> Taken(merged, t) \/ (b[1] <= t /\ t < b[2])
    <3>1. (last[1] <= t /\ t < last[2]) <=> (merged[n][1] <= t /\ t < merged[n][2]) \/ (b[1] <= t /\ t < b[2])
      <4>1. merged[n][1] <= b[1] /\ merged[n][1] < merged[n][2] /\ b[1] < b[2] /\ b \in Int \X Int /\ merged[n] \in Int \X Int
        BY <2>2 DEF Stretch
      <4> QED
        BY <4>1, <2>3, <1>3
    <3>2. ASSUME Taken(more, t) PROVE Taken(merged, t) \/ (b[1] <= t /\ t < b[2])
      <4>1. PICK i \in 1..n : more[i][1] <= t /\ t < more[i][2]
        BY <3>2, <2>5 DEF Taken
      <4> QED
        BY <4>1, <3>1, <2>5, <2>2 DEF Taken
    <3>3. ASSUME Taken(merged, t) PROVE Taken(more, t)
      <4>1. PICK i \in 1..n : merged[i][1] <= t /\ t < merged[i][2]
        BY <3>3 DEF Taken
      <4>2. more[i][1] <= t /\ t < more[i][2]
        BY <4>1, <3>1, <2>5
      <4> QED
        BY <4>2, <2>5 DEF Taken
    <3>4. ASSUME b[1] <= t, t < b[2] PROVE Taken(more, t)
      BY <3>1, <3>4, <2>5, <2>2 DEF Taken
    <3> QED
      BY <3>2, <3>3, <3>4
  <2> QED
    BY <2>6, <2>7, <2>8, <2>9
<1>4. CASE ~(merged # <<>> /\ b[1] <= merged[n][2])
  <2>1. more = Append(merged, b)
    BY <1>4 DEF Absorb
  <2>2. b \in Int \X Int
    BY DEF Stretch
  <2>3. /\ more \in Seq(Int \X Int) /\ Len(more) = n + 1 /\ more[n + 1] = b
        /\ \A i \in 1..n : more[i] = merged[i]
    BY <1>1, <2>1, <2>2, AppendProperties
  <2>3a. \A i \in 1..(n + 1) : i \in 1..n \/ i = n + 1
    BY <1>1
  <2>4. Stretches(more)
    <3> HIDE DEF n
    <3> QED
      BY <1>1, <2>3, <2>3a DEF Stretches
  <2>5. \A i \in 1..n : merged[i][2] < b[1]
    <3> TAKE i \in 1..n
    <3>1. merged # <<>> /\ n \in 1..n /\ Stretch(merged[n]) /\ Stretch(merged[i])
      BY <1>1
    <3>2. merged[n][2] < b[1] /\ b[1] \in Int /\ merged[n] \in Int \X Int /\ merged[i] \in Int \X Int
      BY <1>4, <3>1, <2>2 DEF Stretch
    <3>3. i = n \/ merged[i][2] < merged[n][1]
      <4>1. i = n \/ i < n
        <5>1. n \in Nat /\ i \in 1..n
          BY <1>1
        <5> HIDE DEF n
        <5> QED
          BY <5>1
      <4> QED
        BY <3>1, <4>1 DEF Separate
    <3>4. merged[n][1] < merged[n][2]
      BY <3>1 DEF Stretch
    <3> QED
      BY <3>2, <3>3, <3>4
  <2>6. Separate(more)
    <3> SUFFICES ASSUME NEW i \in 1..(n + 1), NEW j \in 1..(n + 1), i < j PROVE more[i][2] < more[j][1]
      BY <2>3 DEF Separate
    <3>1. i \in 1..n /\ (j \in 1..n \/ j = n + 1)
      <4>1. n \in Nat
        BY <1>1
      <4> HIDE DEF n
      <4> QED
        BY <4>1
    <3>2. more[i] = merged[i]
      BY <3>1, <2>3
    <3>3. CASE j = n + 1
      <4> HIDE DEF n
      <4> QED
        BY <3>1, <3>2, <3>3, <2>3, <2>5
    <3>4. CASE j \in 1..n
      <4>1. more[j] = merged[j]
        BY <3>4, <2>3
      <4> QED
        BY <3>1, <3>2, <3>4, <4>1 DEF Separate
    <3> QED
      BY <3>1, <3>3, <3>4
  <2>7. \A i \in 1..Len(more) : more[i][1] <= b[1]
    <3>1. (\A i \in 1..n : merged[i][1] <= b[1]) /\ b[1] <= b[1]
      BY <2>2
    <3> HIDE DEF n
    <3> QED
      BY <2>3, <2>3a, <3>1
  <2>8. \A t \in Int : Taken(more, t) <=> Taken(merged, t) \/ (b[1] <= t /\ t < b[2])
    <3> TAKE t \in Int
    <3>1. n + 1 \in 1..(n + 1) /\ \A i \in 1..n : i \in 1..(n + 1)
      BY <1>1
    <3> QED
      BY <3>1, <2>3a, <2>3 DEF Taken
  <2> QED
    BY <2>4, <2>6, <2>7, <2>8
<1> QED
  BY <1>3, <1>4

\* Merging keeps what is covered and leaves time between any two.
LEMMA MergeIs ==
    ASSUME NEW busy, Stretches(busy), \A i, j \in 1..Len(busy) : i < j => busy[i][1] <= busy[j][1],
           NEW merged, merged = Merge(busy)
    PROVE  Stretches(merged) /\ Separate(merged) /\ \A t \in Int : Taken(merged, t) <=> Taken(busy, t)
<1> DEFINE n == Len(busy)
           X == Seq(Int \X Int)
           R(f) == f = [k \in 0..Len(busy) |-> IF k = 0 THEN <<>> ELSE Absorb(f[k - 1], busy[k])]
           G == [i \in 1..n |-> [m \in X |-> Absorb(m, busy[i])]]
<1>1. n \in Nat /\ busy \in Seq(Int \X Int) /\ DOMAIN busy = 1..n /\ \A i \in 1..n : Stretch(busy[i]) /\ busy[i] \in Int \X Int
  BY DEF Stretches, Stretch
<1>2. G \in [1..n -> [X -> X]]
  <2> SUFFICES ASSUME NEW m \in X, NEW k \in 1..n PROVE Absorb(m, busy[k]) \in X
    OBVIOUS
  <2>1. busy[k] \in Int \X Int /\ DOMAIN m = 1..Len(m) /\ Len(m) \in Nat
    BY <1>1
  <2>2. Append(m, busy[k]) \in X
    BY <2>1
  <2>3. ASSUME m # <<>> PROVE [m EXCEPT ![Len(m)] = <<@[1], Later(@[2], busy[k][2])>>] \in X
    <3>1. Len(m) \in 1..Len(m) /\ m[Len(m)] \in Int \X Int
      BY <2>1, <2>3
    <3>2. <<m[Len(m)][1], Later(m[Len(m)][2], busy[k][2])>> \in Int \X Int
      BY <2>1, <3>1 DEF Later
    <3> QED
      BY <3>1, <3>2, ExceptSeq
  <2> QED
    BY <2>2, <2>3 DEF Absorb
<1>3. \E f : R(f)
  <2>1. <<>> \in X
    OBVIOUS
  <2>2. PICK f : Reading(f, n, X, <<>>, G)
    <3>1. n \in Nat
      BY <1>1
    <3> HIDE DEF G, X, n
    <3> QED
      BY <3>1, <2>1, <1>2, Readings
  <2>3. ASSUME NEW i \in 1..n PROVE f[i] = Absorb(f[i - 1], busy[i])
    <3>1. i - 1 \in 0..n
      BY <1>1
    <3>2. f[i - 1] \in X /\ f[i] = G[i][f[i - 1]]
      <4> HIDE DEF X, n, G
      <4> QED
        BY <3>1, <2>2 DEF Reading
    <3>3. G[i][f[i - 1]] = Absorb(f[i - 1], busy[i])
      <4> HIDE DEF X, n
      <4> QED
        BY <3>2
    <3> QED
      BY <3>2, <3>3
  <2>4. /\ f = [i \in 0..n |-> f[i]] /\ f[0] = <<>>
        /\ \A i \in 0..n : i # 0 => i \in 1..n
    <3> HIDE DEF X, G
    <3> QED
      BY <2>2, <1>1 DEF Reading
  <2> HIDE DEF n
  <2>5. \A i \in 0..n : f[i] = IF i = 0 THEN <<>> ELSE Absorb(f[i - 1], busy[i])
    BY <2>3, <2>4
  <2> QED
    BY <2>4, <2>5 DEF n
<1> DEFINE read == CHOOSE f : R(f)
<1>4. R(read)
  BY <1>3
<1>5. merged = read[n]
  BY DEF Merge
<1> HIDE DEF read
<1>6. read[0] = <<>> /\ \A k \in 0..n : k < n => read[k + 1] = Absorb(read[k], busy[k + 1])
  BY <1>4, <1>1
<1> HIDE DEF R, G, X
<1> DEFINE ok(k) == /\ Stretches(read[k]) /\ Separate(read[k])
                    /\ k > 0 => \A i \in 1..Len(read[k]) : read[k][i][1] <= busy[k][1]
                    /\ k = 0 => read[k] = <<>>
                    /\ \A t \in Int : Taken(read[k], t) <=> \E i \in 1..k : busy[i][1] <= t /\ t < busy[i][2]
           S == {k \in 0..n : ok(k)}
<1>7. 0 \in S
  <2>1. read[0] = <<>> /\ Len(<<>>) = 0 /\ <<>> \in Seq(Int \X Int)
    BY <1>6
  <2>2. ok(0)
    <3> HIDE DEF n
    <3> QED
      BY <2>1 DEF Stretches, Separate, Taken
  <2> QED
    BY <2>2, <1>1
<1>8. ASSUME NEW k \in 0..n, k < n, k \in S PROVE k + 1 \in S
  <2>0. k + 1 \in 1..n /\ ok(k)
    <3>1. n \in Nat
      BY <1>1
    <3> HIDE DEF n, ok
    <3> QED
      BY <3>1, <1>8
  <2>1. ok(k) /\ k + 1 \in 1..n /\ Stretch(busy[k + 1]) /\ read[k + 1] = Absorb(read[k], busy[k + 1])
    <3> HIDE DEF n, ok
    <3> QED
      BY <2>0, <1>1, <1>6, <1>8
  <2>2. \A i \in 1..Len(read[k]) : read[k][i][1] <= busy[k + 1][1]
    <3>1. CASE k = 0
      BY <2>1, <3>1
    <3>2. CASE k > 0
      <4>1. k \in 1..n /\ busy[k][1] <= busy[k + 1][1] /\ busy[k][1] \in Int /\ busy[k + 1][1] \in Int
        BY <1>1, <1>8, <3>2
      <4>2. \A i \in 1..Len(read[k]) : read[k][i] \in Int \X Int /\ read[k][i][1] <= busy[k][1]
        BY <2>1, <3>2 DEF Stretches, Stretch
      <4> QED
        <5> SUFFICES ASSUME NEW i \in 1..Len(read[k]) PROVE read[k][i][1] <= busy[k + 1][1]
          OBVIOUS
        <5>1. read[k][i][1] \in Int /\ read[k][i][1] <= busy[k][1]
          BY <4>2
        <5>2. busy[k][1] \in Int /\ busy[k + 1][1] \in Int /\ busy[k][1] <= busy[k + 1][1]
          BY <4>1
        <5>3. \A a, b, c \in Int : a <= b /\ b <= c => a <= c
          OBVIOUS
        <5> HIDE DEF ok, S, n
        <5> QED
          BY <5>1, <5>2, <5>3
    <3>3. k = 0 \/ k > 0
      BY <1>8
    <3> QED
      BY <3>1, <3>2, <3>3
  <2>3. /\ Stretches(read[k + 1]) /\ Separate(read[k + 1]) /\ \A i \in 1..Len(read[k + 1]) : read[k + 1][i][1] <= busy[k + 1][1]
        /\ \A t \in Int : Taken(read[k + 1], t) <=> Taken(read[k], t) \/ (busy[k + 1][1] <= t /\ t < busy[k + 1][2])
    BY <2>1, <2>2, AbsorbIs
  <2>4. \A t \in Int : Taken(read[k + 1], t) <=> \E i \in 1..(k + 1) : busy[i][1] <= t /\ t < busy[i][2]
    <3> TAKE t \in Int
    <3>1. \A i \in 1..(k + 1) : i \in 1..k \/ i = k + 1
      BY <1>8
    <3>2. k + 1 \in 1..(k + 1) /\ \A i \in 1..k : i \in 1..(k + 1)
      BY <1>8
    <3> QED
      BY <3>1, <3>2, <2>1, <2>3
  <2>5. ok(k + 1)
    BY <2>3, <2>4, <1>8
  <2>6. k + 1 \in 0..n
    BY <1>1, <1>8
  <2> HIDE DEF ok, n
  <2> QED
    BY <2>5, <2>6
<1>9. n \in S
  <2>1. n \in Nat /\ n \in 0..n
    BY <1>1
  <2> HIDE DEF S, n
  <2> QED
    BY <2>1, <1>7, <1>8, Reached
<1>10. ok(n)
  BY <1>9
<1> QED
  BY <1>5, <1>10 DEF Taken

\* The time before and after the stretches of the list, and between them.
EndOf(list, k) == IF k = 0 THEN MealFrom ELSE list[k][2]
StartOf(list, k) == IF k = Len(list) + 1 THEN MealTo ELSE list[k][1]
Gap(from, to, minimum) == IF to - from >= minimum THEN {<<from, to>>} ELSE {}

LEMMA AvailableIs ==
    ASSUME NEW entries, NEW day, NEW minimum \in Nat \ {0},
           NEW merged, merged = Merge(Busy(entries, day)), Stretches(merged), Separate(merged)
    PROVE  Available(entries, day, minimum) = UNION {Gap(EndOf(merged, k), StartOf(merged, k + 1), minimum) : k \in 0..Len(merged)}
<1> DEFINE n == Len(merged)
           X == [cursor : Int, free : SUBSET (Int \X Int)]
           base == [cursor |-> MealFrom, free |-> {}]
           visit(x, i) == [cursor |-> Later(x.cursor, merged[i][2]), free |-> x.free \cup Gap(x.cursor, merged[i][1], minimum)]
           R(f) == f = [i \in 0..n |-> IF i = 0 THEN base ELSE visit(f[i - 1], i)]
           G == [i \in 1..n |-> [x \in X |-> visit(x, i)]]
<1>1. n \in Nat /\ merged \in Seq(Int \X Int) /\ \A i \in 1..n : Stretch(merged[i]) /\ merged[i] \in Int \X Int
  BY DEF Stretches, Stretch
<1>2. MealFrom \in Int /\ MealTo \in Int /\ MealFrom < MealTo /\ minimum \in Int
  BY ScheduleAssumption
<1>3. base \in X /\ \A i \in 1..n, x \in X : visit(x, i) \in X
  <2>1. base \in X
    BY <1>2
  <2>2. ASSUME NEW i \in 1..n, NEW x \in X PROVE visit(x, i) \in X
    <3>1. merged[i][1] \in Int /\ merged[i][2] \in Int /\ x.cursor \in Int /\ x.free \subseteq Int \X Int
      BY <1>1
    <3>2. Later(x.cursor, merged[i][2]) \in Int
      BY <3>1 DEF Later
    <3>3. Gap(x.cursor, merged[i][1], minimum) \subseteq Int \X Int
      BY <3>1 DEF Gap
    <3> QED
      BY <3>1, <3>2, <3>3
  <2> QED
    BY <2>1, <2>2
<1> HIDE DEF X
<1>4. \E f : R(f)
  <2>1. G \in [1..n -> [X -> X]]
    <3> HIDE DEF visit, n
    <3> QED
      BY <1>3
  <2>2. PICK f : Reading(f, n, X, base, G)
    <3>1. n \in Nat
      BY <1>1
    <3> HIDE DEF G, n, base
    <3> QED
      BY <3>1, <2>1, <1>3, Readings
  <2>3. ASSUME NEW i \in 1..n PROVE f[i] = visit(f[i - 1], i)
    <3>1. i - 1 \in 0..n
      BY <1>1
    <3> HIDE DEF visit, n, base
    <3>2. f[i - 1] \in X /\ f[i] = G[i][f[i - 1]]
      <4> HIDE DEF G
      <4> QED
        BY <3>1, <2>2 DEF Reading
    <3> QED
      BY <3>2
  <2> HIDE DEF visit, base
  <2>4. /\ f = [i \in 0..n |-> f[i]] /\ f[0] = base
        /\ \A i \in 0..n : i # 0 => i \in 1..n
    <3> HIDE DEF G
    <3> QED
      BY <2>2, <1>1 DEF Reading
  <2> HIDE DEF n
  <2>5. \A i \in 0..n : f[i] = IF i = 0 THEN base ELSE visit(f[i - 1], i)
    BY <2>3, <2>4
  <2> QED
    BY <2>4, <2>5
<1> DEFINE walk == CHOOSE f : R(f)
<1>5. R(walk)
  <2> HIDE DEF R
  <2> QED
    BY <1>4
<1>6. Available(entries, day, minimum) = walk[n].free \cup Gap(walk[n].cursor, MealTo, minimum)
  BY DEF Available, Gap
<1>7. walk[0] = base /\ \A i \in 0..n : i < n => walk[i + 1] = visit(walk[i], i + 1)
  <2>1. 0 \in 0..n /\ \A i \in 0..n : i < n => i + 1 \in 0..n /\ (i + 1) - 1 = i /\ i + 1 # 0
    BY <1>1
  <2> HIDE DEF walk, visit, base, n
  <2> QED
    BY <1>5, <2>1
<1> HIDE DEF walk, R, G
<1> DEFINE between(i) == Gap(EndOf(merged, i), StartOf(merged, i + 1), minimum)
           ok(i) == walk[i].cursor = EndOf(merged, i) /\ walk[i].free = UNION {between(k) : k \in 0..(i - 1)}
           S == {i \in 0..n : ok(i)}
<1>8. 0 \in S
  <2>1. walk[0].cursor = EndOf(merged, 0) /\ walk[0].free = {}
    BY <1>7 DEF EndOf
  <2>2. \A k \in 0..(0 - 1) : FALSE
    OBVIOUS
  <2> HIDE DEF between
  <2> QED
    BY <2>1, <2>2, <1>1
<1>9. ASSUME NEW i \in 0..n, i < n, i \in S PROVE i + 1 \in S
  <2>0. i + 1 \in 1..n /\ i + 1 # n + 1 /\ i + 1 # 0
    BY <1>1, <1>9
  <2>1. walk[i + 1] = visit(walk[i], i + 1) /\ ok(i) /\ i + 1 \in 1..n /\ i + 1 # n + 1 /\ i + 1 # 0
    <3> HIDE DEF n, visit, ok
    <3> QED
      BY <2>0, <1>7, <1>9
  <2>2. EndOf(merged, i) <= merged[i + 1][1] /\ merged[i + 1][1] < merged[i + 1][2] /\ merged[i + 1] \in Int \X Int /\ EndOf(merged, i) \in Int
    <3>1. Stretch(merged[i + 1])
      BY <2>1, <1>1
    <3>2. CASE i = 0
      BY <3>1, <3>2, <1>2 DEF EndOf, Stretch
    <3>3. CASE i # 0
      <4>1. i \in 1..n /\ i < i + 1
        BY <3>3, <1>9
      <4>2. merged[i][2] < merged[i + 1][1] /\ merged[i] \in Int \X Int
        BY <4>1, <2>1, <1>1 DEF Separate
      <4> QED
        BY <3>1, <3>3, <4>2 DEF EndOf, Stretch
    <3> QED
      BY <3>2, <3>3
  <2>3. walk[i + 1].cursor = EndOf(merged, i + 1)
    <3>1. walk[i + 1].cursor = Later(EndOf(merged, i), merged[i + 1][2])
      BY <2>1
    <3>2. EndOf(merged, i + 1) = merged[i + 1][2]
      BY <2>1 DEF EndOf
    <3> HIDE DEF n
    <3> QED
      BY <3>1, <3>2, <2>2 DEF Later
  <2>4. StartOf(merged, i + 1) = merged[i + 1][1]
    BY <2>1 DEF StartOf
  <2>5. walk[i + 1].free = walk[i].free \cup between(i)
    BY <2>1, <2>4
  <2>6. (i + 1) - 1 = i /\ \A k \in 0..i : k \in 0..(i - 1) \/ k = i
    BY <1>9
  <2>7. i \in 0..i /\ \A k \in 0..(i - 1) : k \in 0..i
    BY <1>9
  <2>8. UNION {between(k) : k \in 0..i} = (UNION {between(k) : k \in 0..(i - 1)}) \cup between(i)
    <3> HIDE DEF between
    <3>1. ASSUME NEW x PROVE x \in UNION {between(k) : k \in 0..i} <=> x \in (UNION {between(k) : k \in 0..(i - 1)}) \cup between(i)
      <4>1. x \in UNION {between(k) : k \in 0..i} <=> \E k \in 0..i : x \in between(k)
        OBVIOUS
      <4>2. x \in UNION {between(k) : k \in 0..(i - 1)} <=> \E k \in 0..(i - 1) : x \in between(k)
        OBVIOUS
      <4>3. (\E k \in 0..i : x \in between(k)) <=> (\E k \in 0..(i - 1) : x \in between(k)) \/ x \in between(i)
        BY <2>6, <2>7
      <4> QED
        BY <4>1, <4>2, <4>3
    <3> QED
      BY <3>1
  <2> HIDE DEF between
  <2>9. ok(i + 1)
    BY <2>1, <2>3, <2>5, <2>6, <2>8
  <2> QED
    BY <2>1, <2>9
<1>10. n \in S
  <2>1. n \in Nat /\ n \in 0..n
    BY <1>1
  <2> HIDE DEF S, n
  <2> QED
    BY <2>1, <1>8, <1>9, Reached
<1>11. walk[n].free \cup between(n) = UNION {between(k) : k \in 0..n}
  <2>1. n \in 0..n /\ (\A k \in 0..(n - 1) : k \in 0..n) /\ \A k \in 0..n : k \in 0..(n - 1) \/ k = n
    <3>1. n \in Nat
      BY <1>1
    <3> HIDE DEF n
    <3> QED
      BY <3>1
  <2> HIDE DEF between, n
  <2> QED
    BY <1>10, <2>1
<1>12. Gap(walk[n].cursor, MealTo, minimum) = between(n)
  <2>1. walk[n].cursor = EndOf(merged, n) /\ StartOf(merged, n + 1) = MealTo
    BY <1>10 DEF StartOf
  <2> QED
    BY <2>1
<1> QED
  BY <1>6, <1>11, <1>12

\* The ticks that are not free, and the longest stretches of the window without one.
NotFree(list) == {t \in Int : ~(t \in MealFrom..(MealTo - 1) /\ ~Taken(list, t))}

Longest(busy, minimum) ==
    {w \in (MealFrom..MealTo) \X (MealFrom..MealTo) :
         /\ w[2] - w[1] >= minimum /\ w[1] < w[2]
         /\ \A t \in w[1]..(w[2] - 1) : t \notin busy
         /\ w[1] - 1 \in busy /\ w[2] \in busy}

\* The gaps are those longest stretches.
LEMMA GapsAreFree ==
    ASSUME NEW merged, Stretches(merged), Separate(merged), NEW minimum \in Nat \ {0}
    PROVE  UNION {Gap(EndOf(merged, k), StartOf(merged, k + 1), minimum) : k \in 0..Len(merged)} = Longest(NotFree(merged), minimum)
<1> DEFINE n == Len(merged)
           busy == NotFree(merged)
           free(w) == /\ w[2] - w[1] >= minimum /\ w[1] < w[2]
                      /\ \A t \in w[1]..(w[2] - 1) : t \notin busy
                      /\ w[1] - 1 \in busy /\ w[2] \in busy
           window == MealFrom..MealTo
<1>1. n \in Nat /\ \A i \in 1..n : merged[i] \in Int \X Int /\ Stretch(merged[i]) /\ merged[i][1] \in Int /\ merged[i][2] \in Int
  BY DEF Stretches, Stretch
<1>2. MealFrom \in Int /\ MealTo \in Int /\ MealFrom < MealTo /\ minimum \in Int /\ minimum >= 1
  BY ScheduleAssumption
<1>3. \A i \in 1..n : MealFrom <= merged[i][1] /\ merged[i][1] < merged[i][2] /\ merged[i][2] <= MealTo
  BY <1>1 DEF Stretch
<1>4. \A i, j \in 1..n : i < j => merged[i][2] < merged[j][1]
  BY DEF Separate
<1>5. \A t \in Int : t \in busy <=> t < MealFrom \/ t >= MealTo \/ \E i \in 1..n : merged[i][1] <= t /\ t < merged[i][2]
  BY <1>2 DEF Taken, NotFree
<1> HIDE DEF busy
<1>6. \A k \in 0..n : /\ EndOf(merged, k) \in Int /\ MealFrom <= EndOf(merged, k) /\ EndOf(merged, k) <= MealTo
                      /\ k = 0 => EndOf(merged, k) = MealFrom
                      /\ k # 0 => k \in 1..n /\ EndOf(merged, k) = merged[k][2]
  <2> TAKE k \in 0..n
  <2>1. k = 0 \/ k \in 1..n
    BY <1>1
  <2> HIDE DEF n
  <2> QED
    BY <2>1, <1>1, <1>2, <1>3 DEF EndOf
<1>7. \A k \in 0..n : /\ StartOf(merged, k + 1) \in Int /\ MealFrom <= StartOf(merged, k + 1) /\ StartOf(merged, k + 1) <= MealTo
                      /\ k = n => StartOf(merged, k + 1) = MealTo
                      /\ k # n => k + 1 \in 1..n /\ StartOf(merged, k + 1) = merged[k + 1][1]
  <2> TAKE k \in 0..n
  <2>1. (k = n /\ k + 1 = n + 1) \/ (k # n /\ k + 1 # n + 1 /\ k + 1 \in 1..n)
    BY <1>1
  <2>2. StartOf(merged, k + 1) = IF k + 1 = n + 1 THEN MealTo ELSE merged[k + 1][1]
    BY DEF StartOf
  <2> HIDE DEF n
  <2>3. CASE k = n
    BY <2>1, <2>2, <2>3, <1>2
  <2>4. CASE k # n
    <3>1. k + 1 \in 1..n /\ StartOf(merged, k + 1) = merged[k + 1][1]
      BY <2>1, <2>2, <2>4
    <3>2. MealFrom <= merged[k + 1][1] /\ merged[k + 1][1] < merged[k + 1][2] /\ merged[k + 1][2] <= MealTo
          /\ merged[k + 1][1] \in Int /\ merged[k + 1][2] \in Int
      BY <3>1, <1>1, <1>3
    <3> QED
      BY <2>4, <3>1, <3>2, <1>2
  <2> QED
    BY <2>3, <2>4
<1> HIDE DEF n
<1>8. ASSUME NEW k \in 0..n, NEW w, w = <<EndOf(merged, k), StartOf(merged, k + 1)>>, w[2] - w[1] >= minimum
      PROVE  w \in window \X window /\ free(w)
  <2> DEFINE from == EndOf(merged, k)
             to == StartOf(merged, k + 1)
  <2>1. from \in window /\ to \in window /\ from \in Int /\ to \in Int /\ from < to /\ w[1] = from /\ w[2] = to
    BY <1>2, <1>6, <1>7, <1>8
  <2>2. ASSUME NEW t \in from..(to - 1) PROVE t \notin busy
    <3>1. t \in Int /\ from <= t /\ t < to /\ MealFrom <= t /\ t < MealTo
      BY <2>1, <1>2
    <3>2. ASSUME NEW i \in 1..n, merged[i][1] <= t, t < merged[i][2] PROVE FALSE
      <4>1. CASE i <= k
        <5>1. k # 0 /\ k \in 1..n /\ from = merged[k][2]
          BY <1>1, <1>6, <4>1
        <5>2. i = k \/ merged[i][2] < merged[k][1]
          BY <1>1, <1>4, <5>1, <4>1
        <5>3. merged[i][2] <= merged[k][2] /\ merged[i][2] \in Int /\ merged[k][2] \in Int
          BY <5>1, <5>2, <1>1, <1>3
        <5> QED
          BY <5>1, <5>3, <3>1, <3>2
      <4>2. CASE i > k
        <5>1. k # n /\ k + 1 \in 1..n /\ to = merged[k + 1][1]
          BY <1>1, <1>7, <4>2
        <5>2. i = k + 1 \/ merged[k + 1][2] < merged[i][1]
          BY <1>1, <1>4, <5>1, <4>2
        <5>3. merged[k + 1][1] <= merged[i][1] /\ merged[i][1] \in Int /\ merged[k + 1][1] \in Int
          BY <5>1, <5>2, <1>1, <1>3
        <5> QED
          BY <5>1, <5>3, <3>1, <3>2
      <4> QED
        BY <4>1, <4>2, <1>1
    <3> QED
      BY <3>1, <3>2, <1>5, <1>2
  <2>3. from - 1 \in busy
    <3>1. CASE k = 0
      BY <3>1, <2>1, <1>2, <1>5, <1>6
    <3>2. CASE k # 0
      <4>1. k \in 1..n /\ from = merged[k][2] /\ merged[k][1] \in Int /\ merged[k][1] < merged[k][2]
        BY <3>2, <1>1, <1>3, <1>6
      <4>2. from - 1 \in Int /\ merged[k][1] <= from - 1 /\ from - 1 < merged[k][2]
        BY <4>1, <2>1
      <4> QED
        BY <4>1, <4>2, <1>5
    <3> QED
      BY <3>1, <3>2
  <2>4. to \in busy
    <3>1. CASE k = n
      BY <3>1, <2>1, <1>2, <1>5, <1>7
    <3>2. CASE k # n
      <4>1. k + 1 \in 1..n /\ to = merged[k + 1][1] /\ merged[k + 1][1] < merged[k + 1][2]
        BY <3>2, <1>3, <1>7
      <4>2. merged[k + 1][1] <= to /\ to < merged[k + 1][2]
        BY <4>1, <2>1
      <4> QED
        BY <4>1, <4>2, <2>1, <1>5
    <3> QED
      BY <3>1, <3>2
  <2> HIDE DEF from, to, window
  <2>5. w \in window \X window
    BY <2>1, <1>8 DEF from, to
  <2> QED
    BY <2>1, <2>2, <2>3, <2>4, <2>5, <1>8
<1>9. ASSUME NEW w \in window \X window, free(w)
      PROVE  \E k \in 0..n : w = <<EndOf(merged, k), StartOf(merged, k + 1)>>
  <2> DEFINE from == w[1]
             to == w[2]
  <2>1. from \in Int /\ to \in Int /\ MealFrom <= from /\ from < to /\ to <= MealTo /\ w = <<from, to>>
    BY <1>2, <1>9
  <2>2. \A t \in Int : from <= t /\ t < to => t \notin busy
    BY <2>1, <1>9
  <2> HIDE DEF from, to
  <2>3. PICK k \in 0..n : from = EndOf(merged, k)
    <3>1. CASE from - 1 < MealFrom
      <4>1. 0 \in 0..n /\ from = MealFrom
        BY <3>1, <2>1, <1>1, <1>2
      <4> QED
        BY <4>1, <1>6
    <3>2. CASE from - 1 >= MealFrom
      <4>1. from - 1 \in busy /\ from - 1 \in Int /\ from - 1 < MealTo
        BY <2>1, <1>2, <1>9 DEF from
      <4>2. PICK i \in 1..n : merged[i][1] <= from - 1 /\ from - 1 < merged[i][2]
        BY <3>2, <4>1, <1>2, <1>5
      <4>3. from \notin busy
        BY <2>1, <2>2
      <4>4. ~(merged[i][1] <= from /\ from < merged[i][2])
        BY <4>3, <2>1, <1>5
      <4>5. from = merged[i][2]
        BY <4>2, <4>4, <2>1, <1>1
      <4>6. i \in 0..n /\ i # 0
        BY <1>1
      <4> QED
        BY <4>5, <4>6, <1>6
    <3> QED
      BY <3>1, <3>2, <2>1, <1>2
  <2>4. PICK j \in 0..n : to = StartOf(merged, j + 1)
    <3>1. CASE to >= MealTo
      <4>1. n \in 0..n /\ to = MealTo
        BY <3>1, <2>1, <1>1, <1>2
      <4> QED
        BY <4>1, <1>7
    <3>2. CASE to < MealTo
      <4>1. to \in busy /\ ~(to < MealFrom) /\ ~(to >= MealTo)
        BY <3>2, <2>1, <1>2, <1>9 DEF to
      <4>2. PICK i \in 1..n : merged[i][1] <= to /\ to < merged[i][2]
        BY <4>1, <2>1, <1>5
      <4>3. to - 1 \notin busy /\ to - 1 \in Int
        BY <2>1, <2>2
      <4>4. ~(merged[i][1] <= to - 1 /\ to - 1 < merged[i][2])
        BY <4>3, <1>5
      <4>5. to = merged[i][1]
        BY <4>2, <4>4, <2>1, <1>1
      <4>6. i - 1 \in 0..n /\ (i - 1) + 1 = i /\ i - 1 # n
        BY <1>1
      <4> QED
        BY <4>5, <4>6, <1>7
    <3> QED
      BY <3>1, <3>2, <2>1, <1>2
  <2>5. ~(j < k)
    <3> SUFFICES ASSUME j < k PROVE FALSE
      OBVIOUS
    <3>1. k # 0 /\ k \in 1..n /\ from = merged[k][2] /\ j # n /\ j + 1 \in 1..n /\ to = merged[j + 1][1]
      BY <2>3, <2>4, <1>1, <1>6, <1>7
    <3>2. j + 1 = k \/ merged[j + 1][2] < merged[k][1]
      BY <3>1, <1>1, <1>4
    <3>3. merged[j + 1][1] < merged[k][2]
      BY <3>1, <3>2, <1>1, <1>3
    <3> QED
      BY <3>1, <3>3, <2>1
  <2>6. ~(k < j)
    <3> SUFFICES ASSUME k < j PROVE FALSE
      OBVIOUS
    <3>1. k # n /\ k + 1 \in 1..n
      BY <1>1, <1>7
    <3> DEFINE t == merged[k + 1][1]
    <3>2. t \in Int /\ t \in busy /\ t < merged[k + 1][2] /\ merged[k + 1][2] \in Int /\ MealFrom <= t /\ t < MealTo
      <4>1. t \in Int /\ MealFrom <= t /\ t < merged[k + 1][2] /\ merged[k + 1][2] <= MealTo /\ merged[k + 1][2] \in Int
        BY <3>1, <1>1, <1>3
      <4>2. t <= t /\ t < MealTo
        BY <4>1, <1>2
      <4>3. t \in busy
        BY <3>1, <4>1, <4>2, <1>5
      <4> QED
        BY <4>1, <4>2, <4>3
    <3>3. from <= t
      <4>1. CASE k = 0
        BY <4>1, <3>2, <2>3, <1>6
      <4>2. CASE k # 0
        <5>1. k \in 1..n /\ from = merged[k][2] /\ k < k + 1
          BY <4>2, <2>3, <1>1, <1>6
        <5>2. merged[k][2] < merged[k + 1][1]
          BY <5>1, <3>1, <1>4
        <5> QED
          BY <5>1, <5>2, <3>2, <2>1
      <4> QED
        BY <4>1, <4>2
    <3>4. t < to
      <4>1. CASE j = n
        BY <4>1, <3>2, <2>4, <1>7
      <4>2. CASE j # n
        <5>1. j + 1 \in 1..n /\ to = merged[j + 1][1] /\ k + 1 < j + 1
          BY <4>2, <2>4, <1>1, <1>7
        <5>2. merged[k + 1][2] < merged[j + 1][1]
          BY <5>1, <3>1, <1>4
        <5> QED
          BY <5>1, <5>2, <3>2, <2>1
      <4> QED
        BY <4>1, <4>2
    <3> QED
      BY <3>2, <3>3, <3>4, <2>2
  <2>7. j = k
    BY <2>5, <2>6, <1>1
  <2> QED
    BY <2>1, <2>3, <2>4, <2>7
<1>10. ASSUME NEW w PROVE w \in UNION {Gap(EndOf(merged, k), StartOf(merged, k + 1), minimum) : k \in 0..n} <=> w \in window \X window /\ free(w)
  <2>1. w \in UNION {Gap(EndOf(merged, k), StartOf(merged, k + 1), minimum) : k \in 0..n}
            <=> \E k \in 0..n : w \in Gap(EndOf(merged, k), StartOf(merged, k + 1), minimum)
    OBVIOUS
  <2>2. ASSUME NEW k \in 0..n PROVE w \in Gap(EndOf(merged, k), StartOf(merged, k + 1), minimum)
            <=> w = <<EndOf(merged, k), StartOf(merged, k + 1)>> /\ StartOf(merged, k + 1) - EndOf(merged, k) >= minimum
    BY DEF Gap
  <2> DEFINE gap(k) == w = <<EndOf(merged, k), StartOf(merged, k + 1)>>
  <2>3. \A k \in 0..n : gap(k) => w[1] = EndOf(merged, k) /\ w[2] = StartOf(merged, k + 1)
    OBVIOUS
  <2>4. (\E k \in 0..n : gap(k) /\ StartOf(merged, k + 1) - EndOf(merged, k) >= minimum) => w \in window \X window /\ free(w)
    <3> HIDE DEF window, free
    <3> QED
      BY <2>3, <1>8
  <2>5. w \in window \X window /\ free(w) => \E k \in 0..n : gap(k) /\ StartOf(merged, k + 1) - EndOf(merged, k) >= minimum
    <3> SUFFICES ASSUME w \in window \X window, free(w) PROVE \E k \in 0..n : gap(k) /\ StartOf(merged, k + 1) - EndOf(merged, k) >= minimum
      OBVIOUS
    <3>1. PICK k \in 0..n : gap(k)
      <4> HIDE DEF window, free
      <4> QED
        BY <1>9
    <3>2. w[2] - w[1] >= minimum
      OBVIOUS
    <3> QED
      BY <2>3, <3>1, <3>2
  <2> HIDE DEF window, free
  <2> QED
    BY <2>1, <2>2, <2>4, <2>5
<1> QED
  BY <1>10 DEF n, busy, Longest

\* An entry is under way while it lasts on the days it occurs.
LEMMA UnderWayIs ==
    ASSUME NEW e, EntryOK(e), NEW day \in Int, NEW t \in Int
    PROVE  UnderWay(e, day, t) <=> Occurs(e, day) /\ e.start <= t /\ t < e.start + e.len
<1>1. e.day \in Nat /\ e.start \in Int /\ e.len \in Int /\ e.until \in Int /\ Week \in Nat \ {0} /\ Week \in Int /\ Week > 0
  BY ScheduleAssumption DEF EntryOK
<1>2. t \in e.start..(e.start + e.len - 1) <=> e.start <= t /\ t < e.start + e.len
  BY <1>1
<1>3. (\E n \in 0..(day \div Week) : e.day + n * Week = day /\ day <= e.until)
          <=> e.day <= day /\ (day - e.day) % Week = 0 /\ day <= e.until
  <2>1. ASSUME NEW n \in 0..(day \div Week), e.day + n * Week = day, day <= e.until
        PROVE  e.day <= day /\ (day - e.day) % Week = 0
    <3>1. n \in Int /\ n >= 0 /\ n * Week = day - e.day /\ 0 \in 0..(Week - 1)
      BY <1>1, <2>1, WeeksOf
    <3>2. n * Week >= 0 /\ n * Week = Week * n + 0
      BY <1>1, <3>1
    <3>3. (Week * n + 0) % Week = 0
      BY <1>1, <3>1, WeeksAre
    <3> QED
      BY <1>1, <3>1, <3>2, <3>3
  <2>2. ASSUME e.day <= day, (day - e.day) % Week = 0, day <= e.until
        PROVE  \E n \in 0..(day \div Week) : e.day + n * Week = day /\ day <= e.until
    <3> DEFINE d == day - e.day
               n == d \div Week
               m == day \div Week
    <3>1. d \in Int /\ d >= 0 /\ d <= day
      BY <1>1, <2>2
    <3>2. n \in Int /\ d = Week * n
      <4>1. d % Week = 0
        BY <2>2
      <4> HIDE DEF d
      <4>2. n \in Int /\ d = Week * n + (d % Week)
        BY <1>1, <3>1, WeeksOf
      <4> HIDE DEF n
      <4>3. Week * n \in Int
        BY <1>1, <4>2
      <4> DEFINE q == Week * n
      <4> HIDE DEF q
      <4>4. d = q + (d % Week) /\ q \in Int
        BY <4>2, <4>3 DEF q
      <4>5. d = q
        BY <4>1, <4>4
      <4> QED
        BY <4>2, <4>5 DEF q
    <3>3. m \in Int /\ day = Week * m + (day % Week) /\ day % Week \in Int /\ day % Week < Week
      <4>1. m \in Int /\ day = Week * m + (day % Week) /\ day % Week \in 0..(Week - 1)
        BY <1>1, WeeksOf
      <4> QED
        BY <4>1, <1>1
    <3> HIDE DEF d, n, m
    <3>4. n >= 0
      <4>1. Week * n >= 0
        BY <3>1, <3>2
      <4> QED
        BY <4>1, <3>2, <1>1
    <3>5. n <= m
      <4>1. Week * n <= Week * m + (Week - 1)
        BY <1>1, <3>1, <3>2, <3>3
      <4>2. ~(n >= m + 1)
        <5> SUFFICES ASSUME n >= m + 1 PROVE FALSE
          OBVIOUS
        <5>1. Week * n >= Week * (m + 1)
          BY <1>1, <3>2, <3>3
        <5>2. Week * (m + 1) = Week * m + Week
          BY <1>1, <3>3
        <5> QED
          BY <5>1, <5>2, <4>1, <1>1, <3>2, <3>3
      <4> QED
        BY <4>2, <3>2, <3>3
    <3>6. n * Week = d
      BY <1>1, <3>1, <3>2
    <3>7. e.day + n * Week = day
      BY <3>6, <1>1 DEF d
    <3>8. n \in 0..(day \div Week)
      BY <3>2, <3>3, <3>4, <3>5 DEF m
    <3> QED
      BY <3>7, <3>8, <2>2
  <2> QED
    BY <2>1, <2>2
<1> QED
  BY <1>2, <1>3 DEF UnderWay, Occurs, WellFormed

\* What is busy of the meal's window is what the entries of the day take of it.
LEMMA BusyIs ==
    ASSUME NEW entries, IsFiniteSet(entries), \A e \in entries : EntryOK(e), NEW day \in Int,
           NEW busy, busy = Busy(entries, day)
    PROVE  /\ Stretches(busy) /\ \A i, j \in 1..Len(busy) : i < j => busy[i][1] <= busy[j][1]
           /\ \A t \in MealFrom..(MealTo - 1) : Taken(busy, t) <=> \E e \in entries : UnderWay(e, day, t)
<1> DEFINE on == {x \in entries : Occurs(x, day) /\ x.start + x.len > MealFrom /\ x.start < MealTo}
           part(e) == <<Later(e.start, MealFrom), IF e.start + e.len < MealTo THEN e.start + e.len ELSE MealTo>>
           cut == {part(e) : e \in on}
           R == {p \in cut \X cut : p[1][1] < p[2][1] \/ (p[1][1] = p[2][1] /\ p[1][2] < p[2][2])}
<1>1. MealFrom \in Int /\ MealTo \in Int /\ MealFrom < MealTo
  BY ScheduleAssumption
<1>2. \A e \in on : /\ e.start \in Int /\ e.len \in Int /\ e.len > 0 /\ e.start + e.len > MealFrom /\ e.start < MealTo
                    /\ e \in entries /\ Occurs(e, day)
  BY DEF EntryOK, Occurs, WellFormed
<1>3. \A e \in on : Stretch(part(e))
  BY <1>1, <1>2 DEF Stretch, Later
<1>4. \A x \in cut : Stretch(x) /\ x \in Int \X Int
  <2> HIDE DEF part, on
  <2> QED
    BY <1>3 DEF Stretch
<1>5. IsFiniteSet(cut)
  <2> DEFINE f == [e \in on |-> part(e)]
  <2>1. IsFiniteSet(on)
    <3>1. on \subseteq entries
      OBVIOUS
    <3> HIDE DEF on
    <3> QED
      BY <3>1, FS_Subset
  <2> HIDE DEF part, on
  <2>2. IsFiniteSet({f[e] : e \in on})
    <3> HIDE DEF f
    <3> QED
      BY <2>1, ImageFinite
  <2>3. cut = {f[e] : e \in on}
    OBVIOUS
  <2> HIDE DEF cut
  <2> QED
    BY <2>2, <2>3
<1>6. busy = InOrder(cut, R)
  BY DEF Busy
<1> HIDE DEF cut
<1>7. \A x, y \in cut : <<x, y>> \in R <=> x[1] < y[1] \/ (x[1] = y[1] /\ x[2] < y[2])
  OBVIOUS
<1>8. StrictOrder(cut, R)
  <2> HIDE DEF R
  <2>1. \A x \in cut : x[1] \in Int /\ x[2] \in Int /\ x = <<x[1], x[2]>>
    BY <1>4
  <2>2. \A x \in cut : <<x, x>> \notin R
    BY <1>7, <2>1
  <2>3. \A x, y, z \in cut : <<x, y>> \in R /\ <<y, z>> \in R => <<x, z>> \in R
    BY <1>7, <2>1
  <2>4. \A x, y \in cut : x # y => <<x, y>> \in R \/ <<y, x>> \in R
    <3> TAKE x, y \in cut
    <3>1. x # y => x[1] # y[1] \/ x[2] # y[2]
      BY <2>1
    <3>2. x[1] \in Int /\ x[2] \in Int /\ y[1] \in Int /\ y[2] \in Int
      BY <2>1
    <3> QED
      BY <3>1, <3>2, <1>7
  <2> QED
    BY <2>2, <2>3, <2>4 DEF StrictOrder
<1> HIDE DEF R
<1> DEFINE n == Cardinality(cut)
<1>9. /\ busy \in [1..n -> cut] /\ busy \in Seq(cut) /\ Len(busy) = n /\ n \in Nat
      /\ \A i, j \in 1..n : i < j => <<busy[i], busy[j]>> \in R
      /\ \A x \in cut : \E i \in 1..n : busy[i] = x
  BY <1>5, <1>6, <1>8, InOrderOf
<1> HIDE DEF n
<1>10. Stretches(busy)
  <2>1. cut \subseteq Int \X Int
    BY <1>4
  <2>2. busy \in Seq(Int \X Int)
    <3> DEFINE X == Int \X Int
    <3> HIDE DEF X
    <3>1. cut \subseteq X
      BY <2>1 DEF X
    <3>2. busy \in Seq(X)
      BY <3>1, <1>9, SeqDef
    <3> QED
      BY <3>2 DEF X
  <2> QED
    BY <2>2, <1>4, <1>9 DEF Stretches
<1>11. \A i, j \in 1..Len(busy) : i < j => busy[i][1] <= busy[j][1]
  <2> SUFFICES ASSUME NEW i \in 1..n, NEW j \in 1..n, i < j PROVE busy[i][1] <= busy[j][1]
    BY <1>9
  <2>1. busy[i] \in cut /\ busy[j] \in cut
    BY <1>9
  <2>2. busy[i] \in Int \X Int /\ busy[j] \in Int \X Int
    BY <2>1, <1>4
  <2>3. busy[i][1] < busy[j][1] \/ busy[i][1] = busy[j][1]
    <3>1. <<busy[i], busy[j]>> \in R
      BY <1>9
    <3> QED
      BY <2>1, <3>1, <1>7
  <2> QED
    BY <2>2, <2>3
<1>12. ASSUME NEW t \in MealFrom..(MealTo - 1) PROVE Taken(busy, t) <=> \E e \in entries : UnderWay(e, day, t)
  <2>0. t \in Int /\ MealFrom <= t /\ t < MealTo
    BY <1>1
  <2>1. ASSUME NEW e \in on PROVE part(e)[1] <= t /\ t < part(e)[2] <=> e.start <= t /\ t < e.start + e.len
    BY <1>1, <1>2, <2>0 DEF Later
  <2>2. \A e \in entries : UnderWay(e, day, t) <=> Occurs(e, day) /\ e.start <= t /\ t < e.start + e.len
    BY <2>0, UnderWayIs
  <2>3. ASSUME Taken(busy, t) PROVE \E e \in entries : UnderWay(e, day, t)
    <3>1. PICK i \in 1..n : busy[i][1] <= t /\ t < busy[i][2]
      BY <2>3, <1>9 DEF Taken
    <3>2. busy[i] \in cut
      BY <1>9
    <3>3. PICK e \in on : busy[i] = part(e)
      <4> HIDE DEF part, on
      <4> QED
        BY <3>2 DEF cut
    <3>4. e.start <= t /\ t < e.start + e.len /\ e \in entries /\ Occurs(e, day)
      <4> HIDE DEF part, on
      <4> QED
        BY <3>1, <3>3, <2>1, <1>2
    <3> QED
      BY <3>4, <2>2
  <2>4. ASSUME NEW e \in entries, UnderWay(e, day, t) PROVE Taken(busy, t)
    <3>1. Occurs(e, day) /\ e.start <= t /\ t < e.start + e.len /\ e.start \in Int /\ e.len \in Int
      BY <2>2, <2>4 DEF EntryOK
    <3>2. e \in on
      BY <3>1, <2>0, <1>1
    <3>3. part(e) \in cut
      <4> HIDE DEF part, on
      <4> QED
        BY <3>2 DEF cut
    <3>4. part(e)[1] <= t /\ t < part(e)[2]
      BY <3>1, <3>2, <2>1
    <3> HIDE DEF part, on
    <3>5. PICK i \in 1..n : busy[i] = part(e)
      BY <3>3, <1>9
    <3> QED
      BY <3>4, <3>5, <1>9 DEF Taken
  <2> QED
    BY <2>3, <2>4
<1> QED
  BY <1>10, <1>11, <1>12

(* The free windows of the answer are the longest stretches of the meal's  *)
(* window with nothing under way: by MergeIs what is merged takes the      *)
(* ticks the entries take, by AvailableIs the gaps between are told, and   *)
(* by GapsAreFree those are the longest free stretches.                    *)
LEMMA AvailableIsFree ==
    ASSUME NEW entries, IsFiniteSet(entries), \A e \in entries : EntryOK(e), NEW day \in Int, NEW minimum \in Nat \ {0}
    PROVE  LET free(t) == t \in MealFrom..(MealTo - 1) /\ \A e \in entries : ~UnderWay(e, day, t)
           IN  Available(entries, day, minimum) =
                   {w \in (MealFrom..MealTo) \X (MealFrom..MealTo) :
                        /\ w[2] - w[1] >= minimum /\ w[1] < w[2]
                        /\ \A t \in w[1]..(w[2] - 1) : free(t)
                        /\ ~free(w[1] - 1) /\ ~free(w[2])}
<1> DEFINE free(t) == t \in MealFrom..(MealTo - 1) /\ \A e \in entries : ~UnderWay(e, day, t)
           merged == Merge(Busy(entries, day))
           taken == NotFree(merged)
           window == (MealFrom..MealTo) \X (MealFrom..MealTo)
<1>1. MealFrom \in Int /\ MealTo \in Int
  BY ScheduleAssumption
<1>2. Stretches(merged) /\ Separate(merged) /\ \A t \in Int : Taken(merged, t) <=> Taken(Busy(entries, day), t)
  BY BusyIs, MergeIs
<1>3. \A t \in Int : t \in taken <=> ~free(t)
  <2>1. \A t \in MealFrom..(MealTo - 1) : Taken(Busy(entries, day), t) <=> \E e \in entries : UnderWay(e, day, t)
    BY BusyIs
  <2> HIDE DEF merged
  <2>2. ASSUME NEW t \in Int PROVE t \in taken <=> ~free(t)
    <3>1. CASE t \in MealFrom..(MealTo - 1)
      BY <1>2, <2>1, <3>1 DEF NotFree
    <3>2. CASE t \notin MealFrom..(MealTo - 1)
      BY <3>2 DEF NotFree
    <3> QED
      BY <3>1, <3>2
  <2> QED
    BY <2>2
<1>4. Available(entries, day, minimum) = Longest(taken, minimum)
  <2>1. Available(entries, day, minimum) = UNION {Gap(EndOf(merged, k), StartOf(merged, k + 1), minimum) : k \in 0..Len(merged)}
    BY <1>2, AvailableIs
  <2> HIDE DEF merged
  <2>2. UNION {Gap(EndOf(merged, k), StartOf(merged, k + 1), minimum) : k \in 0..Len(merged)} = Longest(NotFree(merged), minimum)
    BY <1>2, GapsAreFree
  <2> QED
    BY <2>1, <2>2
<1> HIDE DEF taken, free, merged
<1>5. \A w \in window : w[1] \in Int /\ w[2] \in Int /\ w[1] - 1 \in Int /\ \A t \in w[1]..(w[2] - 1) : t \in Int
  BY <1>1
<1> HIDE DEF window
<1>6. Longest(taken, minimum) = {w \in window : /\ w[2] - w[1] >= minimum /\ w[1] < w[2]
                                                /\ \A t \in w[1]..(w[2] - 1) : free(t)
                                                /\ ~free(w[1] - 1) /\ ~free(w[2])}
  <2>1. Longest(taken, minimum) = {w \in window : /\ w[2] - w[1] >= minimum /\ w[1] < w[2]
                                                  /\ \A t \in w[1]..(w[2] - 1) : t \notin taken
                                                  /\ w[1] - 1 \in taken /\ w[2] \in taken}
    BY DEF Longest, window
  <2> QED
    BY <2>1, <1>3, <1>5
<1> QED
  BY <1>4, <1>6 DEF free, window

\* An entry of another day that is under way on the day began on the day before.
LEMMA OnlyTheNightBefore ==
    ASSUME NEW e, EntryOK(e), NEW day \in Int, NEW d \in 0..day, NEW t \in Nat, ~UnderWay(e, day, t),
           UnderWay(e, d, t + (day - d) * ScheduleDay)
    PROVE  d = day - 1
<1>1. ScheduleDay \in Nat /\ d \in Int /\ day - d \in Nat /\ e.start \in 0..(ScheduleDay - 1) /\ e.len \in Int
  BY ScheduleAssumption DEF EntryOK
<1>2. day # d
  BY <1>1
<1>3. ASSUME day - d >= 2 PROVE FALSE
  <2>1. PICK k \in Nat : day - d = k + 2
    <3>1. day - d - 2 \in Nat /\ day - d = (day - d - 2) + 2
      BY <1>1, <1>3
    <3> QED
      BY <3>1
  <2>2. k * ScheduleDay \in Nat /\ (k + 2) * ScheduleDay = k * ScheduleDay + 2 * ScheduleDay
    BY <1>1, <2>1
  <2>3. t + (day - d) * ScheduleDay >= 2 * ScheduleDay
    BY <1>1, <2>1, <2>2
  <2>4. e.len <= ScheduleDay /\ t + (day - d) * ScheduleDay <= e.start + e.len - 1
    BY DEF UnderWay
  <2> QED
    BY <1>1, <2>3, <2>4
<1> QED
  BY <1>1, <1>2, <1>3

LEMMA LookTellsFreeTime ==
    ASSUME ScheduleAsked, FreeTimeIsFree, Look
    PROVE  ScheduleAsked' /\ FreeTimeIsFree'
<1> DEFINE day == ResolveDay(ask.day, ask.today)
<1>1. /\ ask.of = "schedule" /\ ask' = ask
      /\ answer' = [day |-> day, entries |-> {e \in ask.entries : Occurs(e, day)},
                    free |-> Available(ask.entries, day, ask.minimum)]
  BY DEF Look, Reply
<1>2. ScheduleAsked' 
  BY <1>1 DEF ScheduleAsked
<1>3. /\ IsFiniteSet(ask.entries) /\ (\A e \in ask.entries : EntryOK(e)) /\ ask.minimum \in Nat \ {0}
      /\ ask.today \in Int /\ ask.day.value \in Int
  BY <1>1 DEF ScheduleAsked
<1>4. day \in Int
  <2>1. Week \in Nat \ {0}
    BY ScheduleAssumption
  <2>2. ask.today % Week \in 0..(Week - 1)
    BY <1>3, <2>1, WeeksOf
  <2>3. ask.day.value - (ask.today % Week) \in Int
    BY <1>3, <2>2
  <2>4. (ask.day.value - (ask.today % Week)) % Week \in 0..(Week - 1)
    BY <2>1, <2>3, WeeksOf
  <2> QED
    BY <1>3, <2>4 DEF ResolveDay
<1>5. answer'.day = day /\ answer'.free = Available(ask.entries, day, ask.minimum)
  BY <1>1
<1> HIDE DEF day
<1> DEFINE free(t) == t \in MealFrom..(MealTo - 1) /\ \A e \in ask.entries : ~UnderWay(e, day, t)
<1>6. answer'.free = {w \in (MealFrom..MealTo) \X (MealFrom..MealTo) :
                         /\ w[2] - w[1] >= ask.minimum /\ w[1] < w[2]
                         /\ \A t \in w[1]..(w[2] - 1) : free(t)
                         /\ ~free(w[1] - 1) /\ ~free(w[2])}
  BY <1>3, <1>4, <1>5, AvailableIsFree
<1>7. ASSUME NEW w \in answer'.free, NEW t \in w[1]..(w[2] - 1), NEW e \in ask.entries, NEW d \in 0..day,
             UnderWay(e, d, t + (day - d) * ScheduleDay)
      PROVE  d = day - 1
  <2>1. free(t)
    BY <1>6, <1>7
  <2>2. t \in Nat /\ ~UnderWay(e, day, t)
    BY <2>1, ScheduleAssumption
  <2> QED
    BY <1>3, <1>4, <1>7, <2>2, OnlyTheNightBefore
<1> HIDE DEF free
<1>8. FreeTimeIsFree'
  BY <1>1, <1>5, <1>6, <1>7 DEF FreeTimeIsFree, free
<1> QED
  BY <1>2, <1>8

(* What the tool calls free is free of what the student entered for the    *)
(* day, and of all but an entry that ran into it over midnight, for any    *)
(* entries (agent_tools.py:199-275).                                       *)
THEOREM FreeTime == ScheduleSpec => []FreeTimeIsFree
<1>1. answer = NoAnswer /\ ScheduleAsked => ScheduleAsked /\ FreeTimeIsFree
  BY DEF FreeTimeIsFree, Told
<1>2. ScheduleAsked /\ FreeTimeIsFree /\ [Look]_lookupVars => (ScheduleAsked /\ FreeTimeIsFree)'
  <2> SUFFICES ASSUME ScheduleAsked, FreeTimeIsFree, [Look]_lookupVars PROVE (ScheduleAsked /\ FreeTimeIsFree)'
    OBVIOUS
  <2>1. CASE Look
    BY <2>1, LookTellsFreeTime
  <2>2. CASE UNCHANGED lookupVars
    BY <2>2 DEF lookupVars, ScheduleAsked, FreeTimeIsFree, Told
  <2> QED
    BY <2>1, <2>2
<1> QED
  BY <1>1, <1>2, PTL DEF ScheduleSpec

-----------------------------------------------------------------------------
(* The calendar file.  The lines of one kind from line m to line n.        *)
Lines(text, kind, m, n) == Cardinality({x \in m..n : text[x] = kind})

LEMMA NextLine ==
    ASSUME NEW text, NEW kind, NEW m \in Int, NEW n \in Int, m <= n + 1
    PROVE  /\ Lines(text, kind, m, n) \in Nat
           /\ Lines(text, kind, m, n + 1) = Lines(text, kind, m, n) + (IF text[n + 1] = kind THEN 1 ELSE 0)
           /\ m = n + 1 => Lines(text, kind, m, n) = 0
<1> DEFINE S == {x \in m..n : text[x] = kind}
           T == {x \in m..(n + 1) : text[x] = kind}
<1>1. IsFiniteSet(S) /\ Cardinality(S) \in Nat
  <2>1. IsFiniteSet(m..n) /\ S \subseteq m..n
    BY FS_Interval
  <2> HIDE DEF S
  <2> QED
    BY <2>1, FS_Subset, FS_CardinalityType
<1>2. n + 1 \notin S /\ (m = n + 1 => S = {})
  OBVIOUS
<1>3. T = IF text[n + 1] = kind THEN S \cup {n + 1} ELSE S
  OBVIOUS
<1> HIDE DEF S, T
<1>4. Cardinality(T) = Cardinality(S) + (IF text[n + 1] = kind THEN 1 ELSE 0)
  <2>1. Cardinality(S \cup {n + 1}) = Cardinality(S) + 1
    BY <1>1, <1>2, FS_AddElement
  <2> QED
    BY <1>1, <1>3, <2>1
<1>5. m = n + 1 => Cardinality(S) = 0
  BY <1>2, FS_EmptySet
<1> QED
  BY <1>1, <1>4, <1>5 DEF Lines, S, T

\* The sub-components still open after line k are those some line m after line i began:
\* from m on more were opened than closed, and from no line on were more left open.
LeftOpen(text, m, n) == Lines(text, "BEGIN", m, n) - Lines(text, "END", m, n)
SubIs(text, i, k, sub) ==
    /\ \A m \in (i + 1)..k : LeftOpen(text, m, k) <= sub
    /\ sub > 0 => \E m \in (i + 1)..k : LeftOpen(text, m, k) = sub /\ \A n \in m..k : LeftOpen(text, m, n) > 0

LEMMA NextLeft ==
    ASSUME NEW text, NEW m \in Int, NEW n \in Int, m <= n + 1
    PROVE  /\ LeftOpen(text, m, n) \in Int /\ (m = n + 1 => LeftOpen(text, m, n) = 0)
           /\ text[n + 1] = "BEGIN" => LeftOpen(text, m, n + 1) = LeftOpen(text, m, n) + 1
           /\ text[n + 1] = "END" => LeftOpen(text, m, n + 1) = LeftOpen(text, m, n) - 1
           /\ text[n + 1] \notin {"BEGIN", "END"} => LeftOpen(text, m, n + 1) = LeftOpen(text, m, n)
<1>1. /\ Lines(text, "BEGIN", m, n) \in Nat /\ (m = n + 1 => Lines(text, "BEGIN", m, n) = 0)
      /\ Lines(text, "BEGIN", m, n + 1) = Lines(text, "BEGIN", m, n) + (IF text[n + 1] = "BEGIN" THEN 1 ELSE 0)
  BY NextLine
<1>2. /\ Lines(text, "END", m, n) \in Nat /\ (m = n + 1 => Lines(text, "END", m, n) = 0)
      /\ Lines(text, "END", m, n + 1) = Lines(text, "END", m, n) + (IF text[n + 1] = "END" THEN 1 ELSE 0)
  BY NextLine
<1> QED
  BY <1>1, <1>2 DEF LeftOpen

LEMMA SubOpenIs ==
    ASSUME NEW text, NEW i \in Nat, NEW k \in Nat, NEW sub \in Nat, SubIs(text, i, k, sub)
    PROVE  SubOpen(text, i, k + 1) <=> sub > 0
<1>1. (k + 1) - 1 = k
  OBVIOUS
<1>2. \A m \in (i + 1)..k : \A n \in m..k : Lines(text, "BEGIN", m, n) \in Nat /\ Lines(text, "END", m, n) \in Nat
  BY NextLine
<1>3. SubOpen(text, i, k + 1) <=> \E m \in (i + 1)..k : \A n \in m..k : Lines(text, "BEGIN", m, n) > Lines(text, "END", m, n)
  BY <1>1 DEF SubOpen, Lines
<1>4. SubOpen(text, i, k + 1) <=> \E m \in (i + 1)..k : \A n \in m..k : LeftOpen(text, m, n) > 0
  <2>1. \A m \in (i + 1)..k : \A n \in m..k : Lines(text, "BEGIN", m, n) > Lines(text, "END", m, n) <=> LeftOpen(text, m, n) > 0
    BY <1>2 DEF LeftOpen
  <2> QED
    BY <1>3, <2>1
<1>5. ASSUME NEW m \in (i + 1)..k, \A n \in m..k : LeftOpen(text, m, n) > 0 PROVE sub > 0
  <2>1. LeftOpen(text, m, k) > 0 /\ LeftOpen(text, m, k) <= sub /\ LeftOpen(text, m, k) \in Int
    BY <1>5, NextLeft DEF SubIs
  <2> QED
    BY <2>1
<1> QED
  BY <1>4, <1>5 DEF SubIs

LEMMA NextSub ==
    ASSUME NEW text, NEW i \in Nat, NEW k \in Nat, i <= k, NEW sub \in Nat, SubIs(text, i, k, sub)
    PROVE  /\ text[k + 1] = "BEGIN" => SubIs(text, i, k + 1, sub + 1)
           /\ text[k + 1] = "END" => SubIs(text, i, k + 1, IF sub > 0 THEN sub - 1 ELSE 0)
           /\ text[k + 1] \notin {"BEGIN", "END"} => SubIs(text, i, k + 1, sub)
<1>1. /\ \A m \in (i + 1)..(k + 1) : m \in Int /\ m <= k + 1 /\ (m \in (i + 1)..k \/ m = k + 1)
      /\ k + 1 \in (i + 1)..(k + 1) /\ \A m \in (i + 1)..k : m \in (i + 1)..(k + 1)
      /\ \A m \in (i + 1)..k : \A n \in m..(k + 1) : n \in m..k \/ n = k + 1
  OBVIOUS
<1>2. \A m \in (i + 1)..(k + 1) : LeftOpen(text, m, k) \in Int /\ (m = k + 1 => LeftOpen(text, m, k) = 0)
  BY <1>1, NextLeft
<1>3. CASE text[k + 1] = "BEGIN"
  <2>1. \A m \in (i + 1)..(k + 1) : LeftOpen(text, m, k + 1) = LeftOpen(text, m, k) + 1
    BY <1>1, <1>3, NextLeft
  <2>2. \A m \in (i + 1)..(k + 1) : LeftOpen(text, m, k + 1) <= sub + 1
    BY <2>1, <1>1, <1>2 DEF SubIs
  <2>3. \E m \in (i + 1)..(k + 1) : LeftOpen(text, m, k + 1) = sub + 1 /\ \A n \in m..(k + 1) : LeftOpen(text, m, n) > 0
    <3>1. CASE sub > 0
      <4>1. PICK m \in (i + 1)..k : LeftOpen(text, m, k) = sub /\ \A n \in m..k : LeftOpen(text, m, n) > 0
        BY <3>1 DEF SubIs
      <4>2. LeftOpen(text, m, k + 1) = sub + 1 /\ m \in (i + 1)..(k + 1)
        BY <4>1, <2>1, <1>1
      <4>3. \A n \in m..(k + 1) : LeftOpen(text, m, n) > 0
        BY <4>1, <4>2, <1>1
      <4> QED
        BY <4>2, <4>3
    <3>2. CASE sub = 0
      <4>1. LeftOpen(text, k + 1, k + 1) = 1
        BY <1>1, <1>2, <2>1
      <4>2. \A n \in (k + 1)..(k + 1) : n = k + 1
        OBVIOUS
      <4> QED
        BY <4>1, <4>2, <1>1, <3>2
    <3> QED
      BY <3>1, <3>2
  <2>4. SubIs(text, i, k + 1, sub + 1)
    BY <2>2, <2>3 DEF SubIs
  <2> QED
    BY <2>4, <1>3
<1>4. CASE text[k + 1] = "END"
  <2> DEFINE less == IF sub > 0 THEN sub - 1 ELSE 0
  <2>1. \A m \in (i + 1)..(k + 1) : LeftOpen(text, m, k + 1) = LeftOpen(text, m, k) - 1
    BY <1>1, <1>4, NextLeft
  <2>2. ASSUME NEW m \in (i + 1)..(k + 1) PROVE LeftOpen(text, m, k + 1) <= less
    <3>1. LeftOpen(text, m, k + 1) = LeftOpen(text, m, k) - 1 /\ LeftOpen(text, m, k) \in Int /\ (m = k + 1 => LeftOpen(text, m, k) = 0)
      BY <2>1, <1>2
    <3>2. m # k + 1 => LeftOpen(text, m, k) <= sub
      BY <1>1 DEF SubIs
    <3> QED
      BY <3>1, <3>2
  <2>3. ASSUME less > 0
        PROVE  \E m \in (i + 1)..(k + 1) : LeftOpen(text, m, k + 1) = less /\ \A n \in m..(k + 1) : LeftOpen(text, m, n) > 0
    <3>1. sub > 0 /\ less = sub - 1
      BY <2>3
    <3>2. PICK m \in (i + 1)..k : LeftOpen(text, m, k) = sub /\ \A n \in m..k : LeftOpen(text, m, n) > 0
      BY <3>1 DEF SubIs
    <3>3. LeftOpen(text, m, k + 1) = less /\ m \in (i + 1)..(k + 1)
      BY <3>1, <3>2, <2>1, <1>1
    <3>4. \A n \in m..(k + 1) : LeftOpen(text, m, n) > 0
      BY <3>2, <3>3, <2>3, <1>1
    <3> QED
      BY <3>3, <3>4
  <2> HIDE DEF less
  <2>4. SubIs(text, i, k + 1, less)
    BY <2>2, <2>3 DEF SubIs
  <2> QED
    BY <2>4, <1>4 DEF less
<1>5. CASE text[k + 1] \notin {"BEGIN", "END"}
  <2>1. \A m \in (i + 1)..(k + 1) : LeftOpen(text, m, k + 1) = LeftOpen(text, m, k)
    BY <1>1, <1>5, NextLeft
  <2>2. \A m \in (i + 1)..(k + 1) : LeftOpen(text, m, k + 1) <= sub
    BY <2>1, <1>1, <1>2 DEF SubIs
  <2>3. ASSUME sub > 0
        PROVE  \E m \in (i + 1)..(k + 1) : LeftOpen(text, m, k + 1) = sub /\ \A n \in m..(k + 1) : LeftOpen(text, m, n) > 0
    <3>1. PICK m \in (i + 1)..k : LeftOpen(text, m, k) = sub /\ \A n \in m..k : LeftOpen(text, m, n) > 0
      BY <2>3 DEF SubIs
    <3>2. LeftOpen(text, m, k + 1) = sub /\ m \in (i + 1)..(k + 1)
      BY <3>1, <2>1, <1>1
    <3>3. \A n \in m..(k + 1) : LeftOpen(text, m, n) > 0
      BY <3>1, <3>2, <2>3, <1>1
    <3> QED
      BY <3>2, <3>3
  <2>4. SubIs(text, i, k + 1, sub)
    BY <2>2, <2>3 DEF SubIs
  <2> QED
    BY <2>4, <1>5
<1> QED
  BY <1>3, <1>4, <1>5

\* What is known once k lines have been read.
LineState == [in : BOOLEAN, discard : BOOLEAN, depth : Nat, sub : Nat, at : Nat, props : SUBSET LineKinds,
              events : SUBSET Nat, errors : BOOLEAN]

\* The event begun at line i is still nothing but its own lines.
OpenEvent(text, i, k, p) ==
    /\ p.depth = 1 /\ \A x \in (i + 1)..k : text[x] \notin {"BEGIN:VEVENT", "END:VEVENT"}
    /\ SubIs(text, i, k, p.sub)
    /\ "facts" \in p.props => \E x \in (i + 1)..k : text[x] = "facts" /\ ~SubOpen(text, i, x)
    /\ \A x \in (i + 1)..k : text[x] = "exdate" => SubOpen(text, i, x) \/ "exdate" \in p.props

\* Without an error, what has begun has been read or is being read.
Whole(text, k, p) ==
    /\ p.events \cup (IF p.in THEN {p.at} ELSE {}) = {x \in 1..k : text[x] = "BEGIN:VEVENT"}
    /\ Lines(text, "BEGIN:VEVENT", 1, k) = Lines(text, "END:VEVENT", 1, k) + (IF p.in THEN 1 ELSE 0)

LinesRead(text, k, p) ==
    /\ p \in LineState /\ (~p.in => p.sub = 0) /\ (p.discard => p.errors)
    /\ \A i \in p.events : \E j \in (i + 1)..k : CleanEvent(text, i, j)
    /\ p.in => p.at \in 1..k
    /\ p.in /\ ~p.discard => OpenEvent(text, p.at, k, p)
    /\ ~p.errors => Whole(text, k, p)

LEMMA StateParts ==
    ASSUME NEW p \in LineState
    PROVE  /\ p = [in |-> p.in, discard |-> p.discard, depth |-> p.depth, sub |-> p.sub, at |-> p.at, props |-> p.props,
                   events |-> p.events, errors |-> p.errors]
           /\ p.in \in BOOLEAN /\ p.discard \in BOOLEAN /\ p.errors \in BOOLEAN /\ p.depth \in Nat /\ p.sub \in Nat
           /\ p.at \in Nat /\ p.props \in SUBSET LineKinds /\ p.events \in SUBSET Nat
<1> HIDE DEF LineKinds
<1> QED
  BY DEF LineState

LEMMA EventEnds ==
    ASSUME NEW text, NEW k \in Nat, NEW p, LinesRead(text, k, p), text[k + 1] = "END:VEVENT",
           p.in, ~p.discard, p.sub = 0, "facts" \in p.props, "exdate" \notin p.props
    PROVE  CleanEvent(text, p.at, k + 1)
<1> DEFINE i == p.at
<1>1. i \in 1..k /\ OpenEvent(text, i, k, p) /\ p.sub \in Nat
  BY DEF LinesRead, LineState
<1> HIDE DEF i
<1>2. (k + 1) - 1 = k
  OBVIOUS
<1>3. ~SubOpen(text, i, k + 1)
  BY <1>1, SubOpenIs DEF OpenEvent
<1>4. /\ \A x \in (i + 1)..k : text[x] \notin {"BEGIN:VEVENT", "END:VEVENT"}
      /\ \E x \in (i + 1)..k : text[x] = "facts" /\ ~SubOpen(text, i, x)
      /\ \A x \in (i + 1)..k : text[x] = "exdate" => SubOpen(text, i, x)
  BY <1>1 DEF OpenEvent
<1>5. CleanEvent(text, i, k + 1)
  BY <1>2, <1>3, <1>4 DEF CleanEvent
<1> QED
  BY <1>5 DEF i

\* The counts of the events' own lines.
LEMMA NextWhole ==
    ASSUME NEW text, NEW k \in Nat
    PROVE  /\ text[k + 1] = "BEGIN:VEVENT" =>
                  /\ {x \in 1..(k + 1) : text[x] = "BEGIN:VEVENT"} = {x \in 1..k : text[x] = "BEGIN:VEVENT"} \cup {k + 1}
                  /\ Lines(text, "BEGIN:VEVENT", 1, k + 1) = Lines(text, "BEGIN:VEVENT", 1, k) + 1
           /\ text[k + 1] # "BEGIN:VEVENT" =>
                  /\ {x \in 1..(k + 1) : text[x] = "BEGIN:VEVENT"} = {x \in 1..k : text[x] = "BEGIN:VEVENT"}
                  /\ Lines(text, "BEGIN:VEVENT", 1, k + 1) = Lines(text, "BEGIN:VEVENT", 1, k)
           /\ Lines(text, "END:VEVENT", 1, k + 1) = Lines(text, "END:VEVENT", 1, k) + (IF text[k + 1] = "END:VEVENT" THEN 1 ELSE 0)
           /\ Lines(text, "BEGIN:VEVENT", 1, k) \in Nat /\ Lines(text, "END:VEVENT", 1, k) \in Nat
<1>1. \A x \in 1..(k + 1) : x \in 1..k \/ x = k + 1
  OBVIOUS
<1>2. k + 1 \in 1..(k + 1) /\ \A x \in 1..k : x \in 1..(k + 1)
  OBVIOUS
<1>3. 1 \in Int /\ k \in Int /\ 1 <= k + 1
  OBVIOUS
<1>4. /\ Lines(text, "BEGIN:VEVENT", 1, k + 1) = Lines(text, "BEGIN:VEVENT", 1, k) + (IF text[k + 1] = "BEGIN:VEVENT" THEN 1 ELSE 0)
      /\ Lines(text, "BEGIN:VEVENT", 1, k) \in Nat
  BY <1>3, NextLine
<1>5. /\ Lines(text, "END:VEVENT", 1, k + 1) = Lines(text, "END:VEVENT", 1, k) + (IF text[k + 1] = "END:VEVENT" THEN 1 ELSE 0)
      /\ Lines(text, "END:VEVENT", 1, k) \in Nat
  BY <1>3, NextLine
<1> QED
  BY <1>1, <1>2, <1>4, <1>5

\* The events read stay read; after an error there is little more to keep.
LEMMA EventsStand ==
    ASSUME NEW text, NEW k \in Nat, NEW p, LinesRead(text, k, p)
    PROVE  \A i \in p.events : \E j \in (i + 1)..(k + 1) : CleanEvent(text, i, j)
<1> TAKE i \in p.events
<1>1. PICK j \in (i + 1)..k : CleanEvent(text, i, j)
  BY DEF LinesRead
<1>2. i \in Nat
  BY StateParts DEF LinesRead
<1>3. j \in (i + 1)..(k + 1)
  BY <1>2
<1> QED
  BY <1>1, <1>3

LEMMA GaveUp ==
    ASSUME NEW text, NEW k \in Nat, NEW p, LinesRead(text, k, p),
           NEW q \in LineState, q.errors, q.events = p.events,
           (~q.in /\ q.sub = 0) \/ (q.in /\ p.in /\ q.discard /\ q.at = p.at)
    PROVE  LinesRead(text, k + 1, q)
<1>1. \A i \in p.events : \E j \in (i + 1)..(k + 1) : CleanEvent(text, i, j)
  BY EventsStand
<1>2. p.in => p.at \in 1..(k + 1)
  BY DEF LinesRead
<1> QED
  BY <1>1, <1>2 DEF LinesRead

\* Each line keeps it so: the first of an event.
LEMMA BeginKeeps ==
    ASSUME NEW text, NEW k \in Nat, NEW p, LinesRead(text, k, p), text[k + 1] = "BEGIN:VEVENT"
    PROVE  LinesRead(text, k + 1, BeginEvent(p, k + 1))
<1> DEFINE q == BeginEvent(p, k + 1)
<1>1. p \in LineState
  BY DEF LinesRead
<1>2. p = [in |-> p.in, discard |-> p.discard, depth |-> p.depth, sub |-> p.sub, at |-> p.at, props |-> p.props,
           events |-> p.events, errors |-> p.errors]
  BY <1>1, StateParts
<1>3. /\ p.in \in BOOLEAN /\ p.discard \in BOOLEAN /\ p.errors \in BOOLEAN /\ p.depth \in Nat /\ p.sub \in Nat
      /\ p.at \in Nat /\ p.props \in SUBSET LineKinds /\ p.events \in SUBSET Nat
  BY <1>1, StateParts
<1>4. CASE p.in
  <2>1. q = [p EXCEPT !.errors = TRUE, !.discard = TRUE, !.depth = @ + 1]
    BY <1>4 DEF BeginEvent
  <2>2. q = [in |-> p.in, discard |-> TRUE, depth |-> p.depth + 1, sub |-> p.sub, at |-> p.at, props |-> p.props,
             events |-> p.events, errors |-> TRUE]
    BY <2>1, <1>2
  <2> HIDE DEF q
  <2>3. q \in LineState /\ q.in /\ q.discard /\ q.errors /\ q.at = p.at /\ q.events = p.events
    <3>1. p.depth + 1 \in Nat
      BY <1>3
    <3> QED
      BY <2>2, <1>3, <1>4, <3>1 DEF LineState
  <2>4. LinesRead(text, k + 1, q)
    BY <2>3, <1>4, GaveUp
  <2> QED
    BY <2>4 DEF q
<1>5. CASE ~p.in
  <2>1. q = [p EXCEPT !.in = TRUE, !.depth = 1, !.at = k + 1, !.props = {}]
    BY <1>5 DEF BeginEvent
  <2>2. q = [in |-> TRUE, discard |-> p.discard, depth |-> 1, sub |-> p.sub, at |-> k + 1, props |-> {},
             events |-> p.events, errors |-> p.errors]
    BY <2>1, <1>2
  <2> HIDE DEF q
  <2>3. /\ q \in LineState /\ q.in /\ q.depth = 1 /\ q.at = k + 1 /\ q.props = {} /\ q.sub = p.sub
        /\ q.discard = p.discard /\ q.errors = p.errors /\ q.events = p.events
    <3>1. 1 \in Nat /\ k + 1 \in Nat /\ {} \in SUBSET LineKinds
      OBVIOUS
    <3> QED
      BY <2>2, <1>3, <3>1 DEF LineState
  <2>4. p.sub = 0 /\ (p.discard => p.errors)
    BY <1>5 DEF LinesRead
  <2>5. OpenEvent(text, q.at, k + 1, q)
    <3>1. \A x \in (q.at + 1)..(k + 1) : FALSE
      BY <2>3
    <3>2. SubIs(text, q.at, k + 1, q.sub)
      BY <3>1, <2>3, <2>4 DEF SubIs
    <3> QED
      BY <3>1, <3>2, <2>3 DEF OpenEvent
  <2>6. ASSUME ~q.errors PROVE Whole(text, k + 1, q)
    <3>1. Whole(text, k, p)
      BY <2>3, <2>6 DEF LinesRead
    <3>2. /\ p.events = {x \in 1..k : text[x] = "BEGIN:VEVENT"}
          /\ Lines(text, "BEGIN:VEVENT", 1, k) = Lines(text, "END:VEVENT", 1, k)
      BY <3>1, <1>5, NextWhole DEF Whole
    <3>3. /\ {x \in 1..(k + 1) : text[x] = "BEGIN:VEVENT"} = p.events \cup {k + 1}
          /\ Lines(text, "BEGIN:VEVENT", 1, k + 1) = Lines(text, "END:VEVENT", 1, k + 1) + 1
      BY <3>2, NextWhole
    <3> QED
      BY <3>3, <2>3 DEF Whole
  <2>7. q.at \in 1..(k + 1)
    BY <2>3
  <2>8. \A i \in q.events : \E j \in (i + 1)..(k + 1) : CleanEvent(text, i, j)
    BY <2>3, EventsStand
  <2>9. LinesRead(text, k + 1, q)
    BY <2>3, <2>4, <2>5, <2>6, <2>7, <2>8 DEF LinesRead
  <2> QED
    BY <2>9 DEF q
<1> QED
  BY <1>4, <1>5

\* The last line of an event.
LEMMA EndKeeps ==
    ASSUME NEW text, NEW k \in Nat, NEW p, LinesRead(text, k, p), text[k + 1] = "END:VEVENT"
    PROVE  LinesRead(text, k + 1, EndEvent(p))
<1>1. p \in LineState
  BY DEF LinesRead
<1>2. p = [in |-> p.in, discard |-> p.discard, depth |-> p.depth, sub |-> p.sub, at |-> p.at, props |-> p.props,
           events |-> p.events, errors |-> p.errors]
  BY <1>1, StateParts
<1>3. /\ p.in \in BOOLEAN /\ p.discard \in BOOLEAN /\ p.errors \in BOOLEAN /\ p.depth \in Nat /\ p.sub \in Nat
      /\ p.at \in Nat /\ p.props \in SUBSET LineKinds /\ p.events \in SUBSET Nat
  BY <1>1, StateParts
\* What closing and failing leave.
<1>4. /\ Close(p) = [in |-> FALSE, discard |-> FALSE, depth |-> 0, sub |-> 0, at |-> p.at, props |-> p.props,
                     events |-> p.events, errors |-> p.errors]
      /\ Fail(p) = [in |-> FALSE, discard |-> FALSE, depth |-> 0, sub |-> 0, at |-> p.at, props |-> p.props,
                    events |-> p.events, errors |-> TRUE]
  <2> DEFINE c == Close(p)
             f == Fail(p)
  <2>1. c = [p EXCEPT !.in = FALSE, !.discard = FALSE, !.depth = 0, !.sub = 0] /\ f = [c EXCEPT !.errors = TRUE]
    BY DEF Close, Fail
  <2> HIDE DEF c, f
  <2>2. c = [in |-> FALSE, discard |-> FALSE, depth |-> 0, sub |-> 0, at |-> p.at, props |-> p.props,
             events |-> p.events, errors |-> p.errors]
    BY <2>1, <1>2
  <2>3. f = [in |-> FALSE, discard |-> FALSE, depth |-> 0, sub |-> 0, at |-> p.at, props |-> p.props,
             events |-> p.events, errors |-> TRUE]
    BY <2>1, <2>2
  <2> QED
    BY <2>2, <2>3 DEF c, f
<1>5. LinesRead(text, k + 1, Fail(p)) /\ (p.errors => LinesRead(text, k + 1, Close(p)))
  <2>1. Fail(p) \in LineState /\ Fail(p).errors /\ Fail(p).events = p.events /\ ~Fail(p).in /\ Fail(p).sub = 0
    BY <1>3, <1>4 DEF LineState
  <2>2. Close(p) \in LineState /\ Close(p).errors = p.errors /\ Close(p).events = p.events /\ ~Close(p).in /\ Close(p).sub = 0
    BY <1>3, <1>4 DEF LineState
  <2> QED
    BY <2>1, <2>2, GaveUp
<1>6. CASE ~p.in
  <2> DEFINE q == EndEvent(p)
  <2>1. q = [p EXCEPT !.errors = TRUE]
    BY <1>6 DEF EndEvent
  <2> HIDE DEF q
  <2>2. q = [in |-> p.in, discard |-> p.discard, depth |-> p.depth, sub |-> p.sub, at |-> p.at, props |-> p.props,
             events |-> p.events, errors |-> TRUE]
    BY <2>1, <1>2
  <2>3. q \in LineState /\ q.errors /\ q.events = p.events /\ ~q.in /\ q.sub = p.sub
    BY <2>2, <1>3, <1>6 DEF LineState
  <2>4. p.sub = 0
    BY <1>6 DEF LinesRead
  <2>5. LinesRead(text, k + 1, q)
    BY <2>3, <2>4, GaveUp
  <2> QED
    BY <2>5 DEF q
<1>7. CASE p.in /\ p.depth > 1
  <2> DEFINE q == EndEvent(p)
  <2>1. q = [p EXCEPT !.depth = @ - 1]
    <3>1. ~(p.depth <= 1)
      BY <1>3, <1>7
    <3> QED
      BY <3>1, <1>7 DEF EndEvent
  <2> HIDE DEF q
  <2>2. q = [in |-> p.in, discard |-> p.discard, depth |-> p.depth - 1, sub |-> p.sub, at |-> p.at, props |-> p.props,
             events |-> p.events, errors |-> p.errors]
    BY <2>1, <1>2
  <2>3. p.discard /\ p.errors
    BY <1>3, <1>7 DEF LinesRead, OpenEvent
  <2>4. q \in LineState /\ q.errors = p.errors /\ q.events = p.events /\ q.in = p.in /\ q.discard = p.discard /\ q.at = p.at
    <3>1. p.depth - 1 \in Nat
      BY <1>3, <1>7
    <3> QED
      BY <2>2, <1>3, <3>1 DEF LineState
  <2>5. LinesRead(text, k + 1, q)
    BY <2>3, <2>4, <1>7, GaveUp
  <2> QED
    BY <2>5 DEF q
<1>8. CASE p.in /\ p.depth <= 1 /\ p.sub > 0
  <2>1. EndEvent(p) = Fail(p)
    <3>1. ~(p.depth > 1)
      BY <1>3, <1>8
    <3> QED
      BY <3>1, <1>8 DEF EndEvent
  <2> QED
    BY <2>1, <1>5
<1>9. CASE p.in /\ p.depth <= 1 /\ p.sub = 0
  <2>1. EndEvent(p) = IF p.discard THEN Close(p) ELSE BuildEvent(p)
    <3>1. ~(p.depth > 1) /\ ~(p.sub > 0)
      BY <1>3, <1>9
    <3> QED
      BY <3>1, <1>9 DEF EndEvent
  <2>2. CASE p.discard
    <3>1. p.errors
      BY <2>2 DEF LinesRead
    <3> QED
      BY <2>1, <2>2, <3>1, <1>5
  <2>3. CASE ~p.discard /\ BuildEvent(p) = Fail(p)
    BY <2>1, <2>3, <1>5
  <2>4. CASE ~p.discard /\ BuildEvent(p) # Fail(p)
    <3> DEFINE q == EndEvent(p)
               c == Close(p)
    <3>2. q = [c EXCEPT !.events = @ \cup {p.at}] /\ "facts" \in p.props /\ "exdate" \notin p.props
      BY <2>1, <2>4 DEF BuildEvent
    <3>0. c = [in |-> FALSE, discard |-> FALSE, depth |-> 0, sub |-> 0, at |-> p.at, props |-> p.props,
               events |-> p.events, errors |-> p.errors]
      BY <1>4
    <3> HIDE DEF q, c
    <3>1. q = [in |-> FALSE, discard |-> FALSE, depth |-> 0, sub |-> 0, at |-> p.at, props |-> p.props,
               events |-> p.events \cup {p.at}, errors |-> p.errors]
      BY <3>0, <3>2
    <3>3. /\ q \in LineState /\ ~q.in /\ ~q.discard /\ q.sub = 0 /\ q.events = p.events \cup {p.at} /\ q.errors = p.errors
      <4>1. p.events \cup {p.at} \in SUBSET Nat
        BY <1>3
      <4> QED
        BY <3>1, <1>3, <4>1 DEF LineState
    <3>4. CleanEvent(text, p.at, k + 1) /\ p.at \in 1..k
      BY <1>9, <2>4, <3>2, EventEnds DEF LinesRead
    <3>5. \A i \in q.events : \E j \in (i + 1)..(k + 1) : CleanEvent(text, i, j)
      <4>1. k + 1 \in (p.at + 1)..(k + 1)
        BY <3>4
      <4>2. \A i \in p.events : \E j \in (i + 1)..(k + 1) : CleanEvent(text, i, j)
        BY EventsStand
      <4> QED
        BY <3>3, <3>4, <4>1, <4>2
    <3>6. ASSUME ~q.errors PROVE Whole(text, k + 1, q)
      <4>1. Whole(text, k, p)
        BY <3>3, <3>6 DEF LinesRead
      <4>2. /\ q.events = {x \in 1..k : text[x] = "BEGIN:VEVENT"}
            /\ Lines(text, "BEGIN:VEVENT", 1, k) = Lines(text, "END:VEVENT", 1, k) + 1
        BY <4>1, <3>3, <1>9 DEF Whole
      <4>3. /\ q.events = {x \in 1..(k + 1) : text[x] = "BEGIN:VEVENT"}
            /\ Lines(text, "BEGIN:VEVENT", 1, k + 1) = Lines(text, "END:VEVENT", 1, k + 1)
            /\ Lines(text, "END:VEVENT", 1, k + 1) \in Nat
        BY <4>2, NextWhole
      <4> QED
        BY <4>3, <3>3 DEF Whole
    <3>7. LinesRead(text, k + 1, q)
      BY <3>3, <3>5, <3>6 DEF LinesRead
    <3> QED
      BY <3>7 DEF q
  <2> QED
    BY <2>2, <2>3, <2>4
<1> QED
  BY <1>3, <1>6, <1>7, <1>8, <1>9

\* A line that neither begins nor ends an event.
LEMMA OtherKeeps ==
    ASSUME NEW text, NEW k \in Nat, NEW p, LinesRead(text, k, p),
           text[k + 1] \in LineKinds \ {"BEGIN:VEVENT", "END:VEVENT"},
           NEW q, q = IF p.in THEN InnerLine(p, text[k + 1]) ELSE p
    PROVE  LinesRead(text, k + 1, q)
<1>1. p \in LineState
  BY DEF LinesRead
<1>2. p = [in |-> p.in, discard |-> p.discard, depth |-> p.depth, sub |-> p.sub, at |-> p.at, props |-> p.props,
           events |-> p.events, errors |-> p.errors]
  BY <1>1, StateParts
<1>3. /\ p.in \in BOOLEAN /\ p.discard \in BOOLEAN /\ p.errors \in BOOLEAN /\ p.depth \in Nat /\ p.sub \in Nat
      /\ p.at \in Nat /\ p.props \in SUBSET LineKinds /\ p.events \in SUBSET Nat
  BY <1>1, StateParts
<1> DEFINE line == text[k + 1]
           sub == IF ~p.in THEN p.sub ELSE IF line = "BEGIN" THEN p.sub + 1
                  ELSE IF line = "END" THEN (IF p.sub > 0 THEN p.sub - 1 ELSE 0) ELSE p.sub
           props == IF ~p.in \/ line \in {"BEGIN", "END"} \/ p.sub > 0 THEN p.props ELSE p.props \cup {line}
<1>4. q = [in |-> p.in, discard |-> p.discard, depth |-> p.depth, sub |-> sub, at |-> p.at, props |-> props,
           events |-> p.events, errors |-> p.errors]
  BY <1>2, <1>3 DEF InnerLine
<1>5. sub \in Nat /\ props \in SUBSET LineKinds
  BY <1>3
<1>6. (~p.in => sub = p.sub) /\ (p.in => (line = "BEGIN" => sub = p.sub + 1)
            /\ (line = "END" => sub = IF p.sub > 0 THEN p.sub - 1 ELSE 0) /\ (line \notin {"BEGIN", "END"} => sub = p.sub))
  OBVIOUS
<1>7. /\ p.props \subseteq props /\ \A x \in props : x \in p.props \/ (x = line /\ p.sub = 0)
      /\ p.in /\ line = "exdate" /\ p.sub = 0 => line \in props
  BY <1>3
<1> HIDE DEF sub, props
<1>8. /\ q \in LineState /\ q.in = p.in /\ q.discard = p.discard /\ q.depth = p.depth /\ q.sub = sub /\ q.at = p.at
      /\ q.props = props /\ q.events = p.events /\ q.errors = p.errors
  BY <1>3, <1>4, <1>5 DEF LineState
<1>9. ASSUME p.in, ~p.discard PROVE OpenEvent(text, q.at, k + 1, q)
  <2> DEFINE i == p.at
  <2>1. i \in 1..k /\ OpenEvent(text, i, k, p)
    BY <1>9 DEF LinesRead
  <2> HIDE DEF i
  <2>2. i \in Nat /\ i <= k /\ k + 1 \in (i + 1)..(k + 1)
        /\ \A x \in (i + 1)..(k + 1) : x \in (i + 1)..k \/ x = k + 1
    BY <2>1
  <2>3. \A x \in (i + 1)..k : x \in (i + 1)..(k + 1)
    BY <2>1
  <2>4. SubIs(text, i, k + 1, sub)
    BY <2>1, <2>2, <1>3, <1>6, <1>9, NextSub DEF OpenEvent
  <2>5. SubOpen(text, i, k + 1) <=> p.sub > 0
    BY <2>1, <2>2, <1>3, SubOpenIs DEF OpenEvent
  <2>6. \A x \in (i + 1)..(k + 1) : text[x] \notin {"BEGIN:VEVENT", "END:VEVENT"}
    BY <2>1, <2>2 DEF OpenEvent
  <2>7. "facts" \in props => \E x \in (i + 1)..(k + 1) : text[x] = "facts" /\ ~SubOpen(text, i, x)
    <3>1. CASE "facts" \in p.props
      BY <3>1, <2>1, <2>3 DEF OpenEvent
    <3>2. CASE "facts" \in props /\ "facts" \notin p.props
      <4>1. line = "facts" /\ ~SubOpen(text, i, k + 1)
        BY <3>2, <1>3, <1>7, <2>5
      <4> QED
        BY <4>1, <2>2
    <3> QED
      BY <3>1, <3>2
  <2>8. ASSUME NEW x \in (i + 1)..(k + 1), text[x] = "exdate" PROVE SubOpen(text, i, x) \/ "exdate" \in props
    <3>1. CASE x \in (i + 1)..k
      BY <3>1, <2>1, <2>8, <1>7 DEF OpenEvent
    <3>2. CASE x = k + 1
      BY <3>2, <2>5, <2>8, <1>3, <1>7, <1>9
    <3> QED
      BY <3>1, <3>2, <2>2
  <2>9. OpenEvent(text, i, k + 1, q)
    BY <2>1, <2>4, <2>6, <2>7, <2>8, <1>8 DEF OpenEvent
  <2> QED
    BY <2>9, <1>8 DEF i
<1>10. ASSUME ~q.errors PROVE Whole(text, k + 1, q)
  <2>1. Whole(text, k, p)
    BY <1>8, <1>10 DEF LinesRead
  <2>2. /\ {x \in 1..(k + 1) : text[x] = "BEGIN:VEVENT"} = {x \in 1..k : text[x] = "BEGIN:VEVENT"}
        /\ Lines(text, "BEGIN:VEVENT", 1, k + 1) = Lines(text, "BEGIN:VEVENT", 1, k)
        /\ Lines(text, "END:VEVENT", 1, k + 1) = Lines(text, "END:VEVENT", 1, k)
    BY NextWhole
  <2> QED
    BY <2>1, <2>2, <1>8 DEF Whole
<1>11. \A i \in q.events : \E j \in (i + 1)..(k + 1) : CleanEvent(text, i, j)
  BY <1>8, EventsStand
<1>12. q.in => q.at \in 1..(k + 1)
  BY <1>8 DEF LinesRead
<1> QED
  BY <1>6, <1>8, <1>9, <1>10, <1>11, <1>12 DEF LinesRead

\* Every line of the file is one of these.
LEMMA LineKeeps ==
    ASSUME NEW text, NEW k \in Nat, NEW p, LinesRead(text, k, p), text[k + 1] \in LineKinds
    PROVE  LinesRead(text, k + 1, ReadLine(text, p, k + 1))
<1>1. CASE text[k + 1] = "BEGIN:VEVENT"
  BY <1>1, BeginKeeps DEF ReadLine
<1>2. CASE text[k + 1] = "END:VEVENT"
  <2>1. ReadLine(text, p, k + 1) = EndEvent(p)
    BY <1>2 DEF ReadLine
  <2> QED
    BY <1>2, <2>1, EndKeeps
<1>3. CASE text[k + 1] \in LineKinds \ {"BEGIN:VEVENT", "END:VEVENT"}
  <2>1. ReadLine(text, p, k + 1) = IF p.in THEN InnerLine(p, text[k + 1]) ELSE p
    BY <1>3 DEF ReadLine
  <2> QED
    BY <1>3, <2>1, OtherKeeps
<1> QED
  BY <1>1, <1>2, <1>3

LEMMA ReadIs ==
    ASSUME NEW text \in Seq(LineKinds),
           NEW read, read = CHOOSE f : f = [i \in 0..Len(text) |-> IF i = 0 THEN Outside ELSE ReadLine(text, f[i - 1], i)]
    PROVE  LinesRead(text, Len(text), read[Len(text)])
<1> DEFINE n == Len(text)
           X == LineState
           base == Outside
           R(f) == f = [i \in 0..Len(text) |-> IF i = 0 THEN Outside ELSE ReadLine(text, f[i - 1], i)]
           G == [i \in 1..n |-> [x \in X |-> IF ReadLine(text, x, i) \in X THEN ReadLine(text, x, i) ELSE x]]
<1>1. n \in Nat /\ \A i \in 1..n : text[i] \in LineKinds
  BY DEF LineKinds
<1>2. LinesRead(text, 0, base)
  <2>1. \A x \in 1..0 : FALSE
    OBVIOUS
  <2>2. /\ base \in LineState /\ ~base.in /\ base.sub = 0 /\ ~base.discard /\ base.events = {} /\ ~base.errors
    BY DEF Outside, LineState
  <2> HIDE DEF base
  <2>3. Lines(text, "BEGIN:VEVENT", 1, 0) = 0 /\ Lines(text, "END:VEVENT", 1, 0) = 0
    <3>1. 1 \in Int /\ 0 \in Int /\ 1 <= 0 + 1 /\ 1 = 0 + 1
      OBVIOUS
    <3> QED
      BY <3>1, NextLine
  <2>4. Whole(text, 0, base)
    BY <2>1, <2>2, <2>3 DEF Whole
  <2> QED
    BY <2>2, <2>4 DEF LinesRead
<1>3. \A k \in 0..n : k < n => /\ k \in Nat /\ k + 1 \in 1..n /\ k + 1 \in 0..n /\ (k + 1) - 1 = k /\ k + 1 # 0
  BY <1>1
<1>4. ASSUME NEW k \in 0..n, k < n, NEW p, LinesRead(text, k, p) PROVE LinesRead(text, k + 1, ReadLine(text, p, k + 1))
  BY <1>1, <1>3, <1>4, LineKeeps
<1> HIDE DEF n, base
<1>5. \E f : R(f)
  <2>1. G \in [1..n -> [X -> X]]
    <3> HIDE DEF X
    <3> QED
      OBVIOUS
  <2>2. base \in X
    BY <1>2 DEF LinesRead
  <2>3. PICK f : Reading(f, n, X, base, G)
    <3> HIDE DEF G, X
    <3> QED
      BY <1>1, <2>1, <2>2, Readings
  <2>4. /\ f = [i \in 0..n |-> f[i]] /\ f[0] = base
        /\ \A i \in 0..n : f[i] \in X
        /\ \A i \in 0..n : i # 0 => i \in 1..n /\ i - 1 \in 0..n /\ i - 1 < n /\ (i - 1) + 1 = i
    <3> HIDE DEF G, X
    <3> QED
      BY <2>3, <1>1 DEF Reading
  <2>5. \A i \in 1..n : f[i] = IF ReadLine(text, f[i - 1], i) \in X THEN ReadLine(text, f[i - 1], i) ELSE f[i - 1]
    <3> TAKE i \in 1..n
    <3>1. f[i] = G[i][f[i - 1]] /\ i - 1 \in 0..n
      <4> HIDE DEF G, X
      <4> QED
        BY <2>3, <1>1 DEF Reading
    <3>2. f[i - 1] \in X
      BY <2>4, <3>1
    <3> HIDE DEF X
    <3> QED
      BY <3>1, <3>2
  <2> DEFINE S == {k \in 0..n : LinesRead(text, k, f[k])}
  <2>6. ASSUME NEW k \in 0..n, k < n, LinesRead(text, k, f[k])
        PROVE  f[k + 1] = ReadLine(text, f[k], k + 1) /\ LinesRead(text, k + 1, f[k + 1])
    <3>1. LinesRead(text, k + 1, ReadLine(text, f[k], k + 1))
      BY <2>6, <1>4
    <3>2. ReadLine(text, f[k], k + 1) \in X
      BY <3>1 DEF LinesRead
    <3>3. f[k + 1] = ReadLine(text, f[k], k + 1)
      <4> HIDE DEF X
      <4> QED
        BY <2>5, <2>6, <3>2, <1>3
    <3> QED
      BY <3>1, <3>3
  <2>7. \A k \in 0..n : k \in S
    <3>1. 0 \in S
      BY <1>1, <1>2, <2>4
    <3>2. \A k \in 0..n : k < n /\ k \in S => k + 1 \in S
      BY <2>6, <1>3
    <3> HIDE DEF S
    <3> QED
      BY <1>1, <3>1, <3>2, Reached
  <2>8. \A i \in 0..n : f[i] = IF i = 0 THEN base ELSE ReadLine(text, f[i - 1], i)
    <3> TAKE i \in 0..n
    <3>1. CASE i = 0
      BY <2>4, <3>1
    <3>2. CASE i # 0
      <4>1. i - 1 \in 0..n /\ i - 1 < n /\ (i - 1) + 1 = i /\ LinesRead(text, i - 1, f[i - 1])
        BY <2>4, <2>7, <3>2
      <4>2. f[(i - 1) + 1] = ReadLine(text, f[i - 1], (i - 1) + 1)
        BY <2>6, <4>1
      <4> QED
        BY <4>1, <4>2, <3>2
    <3> QED
      BY <3>1, <3>2
  <2> QED
    BY <2>4, <2>8 DEF n, base
<1>6. R(read)
  <2>1. read = CHOOSE f : R(f)
    OBVIOUS
  <2> HIDE DEF R
  <2> QED
    BY <1>5, <2>1
<1>7. read[0] = base /\ \A k \in 0..n : k < n => read[k + 1] = ReadLine(text, read[k], k + 1)
  <2>1. 0 \in 0..n
    BY <1>1
  <2> QED
    BY <1>6, <1>3, <2>1 DEF n, base
<1> HIDE DEF R, G, X
<1> DEFINE S == {k \in 0..n : LinesRead(text, k, read[k])}
<1>8. 0 \in S
  BY <1>1, <1>2, <1>7
<1>9. \A k \in 0..n : k < n /\ k \in S => k + 1 \in S
  <2> TAKE k \in 0..n
  <2> HAVE k < n /\ k \in S
  <2>1. LinesRead(text, k + 1, ReadLine(text, read[k], k + 1))
    BY <1>4
  <2> QED
    BY <2>1, <1>3, <1>7
<1>10. n \in S
  <2>1. n \in 0..n
    BY <1>1
  <2> HIDE DEF S
  <2> QED
    BY <1>1, <1>8, <1>9, <2>1, Reached
<1> QED
  BY <1>10 DEF n

(* What is answered is what the code computes.                             *)
IcsInv ==
    /\ IcsAsked
    /\ Told("ics") => answer = ParseIcs(ask)
    /\ Told("meetings") => answer = ExpandIcs(ask)

\* A calendar without an error is all of its events; each is one event's lines.
LEMMA CalendarReply == IcsInv => ValidIsWhole
<1> SUFFICES ASSUME IcsInv, Told("ics") PROVE ValidIsWhole
  <2>1. ~Told("ics") => ValidIsWhole
    BY DEF ValidIsWhole
  <2> QED
    BY <2>1
<1> DEFINE text == ask.text
           n == Len(text)
           read == CHOOSE f : f = [i \in 0..Len(text) |-> IF i = 0 THEN Outside ELSE ReadLine(text, f[i - 1], i)]
           p == read[n]
           begins == {i \in DOMAIN text : text[i] = "BEGIN:VEVENT"}
           ends == {i \in DOMAIN text : text[i] = "END:VEVENT"}
<1>1. text \in Seq(LineKinds) /\ answer = ParseIcs(ask)
  BY DEF IcsInv, IcsAsked, Told
<1>2. \/ answer.events = {} /\ answer.valid = FALSE
      \/ answer.events = p.events /\ (answer.valid => ~p.errors /\ ~p.in)
  BY <1>1 DEF ParseIcs
<1>3. n \in Nat /\ DOMAIN text = 1..n
  BY <1>1, LenProperties
<1>4. LinesRead(text, n, p)
  <2> HIDE DEF text
  <2> QED
    BY <1>1, ReadIs
<1>5. begins = {x \in 1..n : text[x] = "BEGIN:VEVENT"} /\ ends = {x \in 1..n : text[x] = "END:VEVENT"}
  BY <1>3
<1> HIDE DEF read, p, n
<1>6. ASSUME NEW i \in answer.events PROVE \E j \in (i + 1)..Len(text) : CleanEvent(text, i, j)
  BY <1>2, <1>4, <1>6 DEF LinesRead, n
<1>7. ASSUME answer.valid PROVE answer.events = begins /\ Cardinality(begins) = Cardinality(ends)
  <2>1. answer.events = p.events /\ ~p.errors /\ ~p.in
    BY <1>2, <1>7
  <2>2. Whole(text, n, p)
    BY <2>1, <1>4 DEF LinesRead
  <2> HIDE DEF text, begins, ends
  <2>3. p.events = begins /\ Lines(text, "BEGIN:VEVENT", 1, n) = Lines(text, "END:VEVENT", 1, n) + 0
    BY <2>1, <2>2, <1>5 DEF Whole
  <2>4. Lines(text, "BEGIN:VEVENT", 1, n) = Cardinality(begins) /\ Lines(text, "END:VEVENT", 1, n) = Cardinality(ends)
    BY <1>5 DEF Lines
  <2>5. Lines(text, "END:VEVENT", 1, n) \in Nat
    <3>1. 1 \in Int /\ n \in Int /\ 1 <= n + 1
      BY <1>3
    <3> QED
      BY <3>1, NextLine
  <2> QED
    BY <2>1, <2>3, <2>4, <2>5
<1> QED
  BY <1>6, <1>7 DEF ValidIsWhole

-----------------------------------------------------------------------------
(* The meetings of a weekly event.  The days the walk visits, and what it  *)
(* asks of each.                                                           *)
Weeks(e, w) == {k \in 0..(w.to + IcsWeek) : Monday(e.first) + k * IcsWeek * e.interval - (IcsWeek - 1) <= w.to}
Days(e, w) == {Monday(e.first) + k * IcsWeek * e.interval + d : k \in Weeks(e, w), d \in e.days}

LEMMA DaysAre ==
    ASSUME NEW e, EventAsked(e), NEW w, w.to \in Nat
    PROVE  /\ Days(e, w) \subseteq Int
           /\ \A d \in e.first..w.to : d \in Days(e, w) <=>
                 d % IcsWeek \in e.days /\ ((Monday(d) - Monday(e.first)) \div IcsWeek) % e.interval = 0
<1> DEFINE W == IcsWeek
           F == e.first
           I == e.interval
           q == F \div W
           f == F % W
<1>1. W \in Nat \ {0} /\ F \in Nat /\ I \in Nat \ {0} /\ e.days \subseteq 0..(W - 1)
  BY IcsAssumption DEF EventAsked
<1>2. q \in Int /\ f \in 0..(W - 1) /\ F = W * q + f /\ Monday(F) = F - f
  <2> HIDE DEF W, F
  <2>1. F \in Int
    BY <1>1
  <2>2. F \div W \in Int /\ F % W \in 0..(W - 1) /\ F = W * (F \div W) + (F % W)
    BY <1>1, <2>1, WeeksOf
  <2> QED
    BY <2>2 DEF Monday, W
<1> HIDE DEF q, f, I
<1>3. Monday(F) = W * q
  <2> HIDE DEF W, F
  <2>1. W * q \in Int
    BY <1>1, <1>2
  <2> QED
    BY <1>1, <1>2, <2>1
<1> HIDE DEF W, F
\* Day r of the week k times the interval after the first.
<1>4. \A d : d \in Days(e, w) <=> \E k \in Weeks(e, w) : \E r \in e.days : d = Monday(F) + k * W * I + r
  BY DEF Days, W, F, I
<1>5. \A k : k \in Weeks(e, w) <=> k \in 0..(w.to + W) /\ Monday(F) + k * W * I - (W - 1) <= w.to
  BY DEF Weeks, W, F, I
<1>6. ASSUME NEW k \in Int, NEW r \in Int PROVE Monday(F) + k * W * I + r = W * (q + k * I) + r
  <2>1. W \in Int /\ I \in Int /\ q \in Int
    BY <1>1, <1>2
  <2>2. k * W * I = W * (k * I)
    BY <2>1
  <2>3. W * q + W * (k * I) = W * (q + k * I)
    <3>1. k * I \in Int
      BY <2>1
    <3> HIDE DEF W
    <3> QED
      BY <2>1, <3>1
  <2>4. k * W * I \in Int /\ W * q \in Int /\ k * I \in Int
    BY <2>1
  <2> QED
    BY <2>2, <2>3, <2>4, <1>3
<1>7. ASSUME NEW d \in Days(e, w) PROVE d \in Int
  <2>1. PICK k \in Weeks(e, w) : \E r \in e.days : d = Monday(F) + k * W * I + r
    BY <1>4
  <2>2. PICK r \in e.days : d = Monday(F) + k * W * I + r
    BY <2>1
  <2>3. k \in Int /\ r \in Int
    BY <1>1, <1>5
  <2>4. d = W * (q + k * I) + r
    BY <1>6, <2>2, <2>3
  <2>5. q + k * I \in Int
    BY <1>1, <1>2, <2>3
  <2>6. W * (q + k * I) \in Int
    BY <1>1, <2>5
  <2> QED
    BY <2>3, <2>4, <2>6
<1>8. ASSUME NEW d \in F..w.to
      PROVE  d \in Days(e, w) <=> d % W \in e.days /\ ((Monday(d) - Monday(F)) \div W) % I = 0
  <2> DEFINE p == d \div W
             s == d % W
  <2>1. d \in Nat /\ d <= w.to /\ F <= d
    BY <1>1
  <2>2. p \in Int /\ s \in 0..(W - 1) /\ d = W * p + s
    BY <2>1, <1>1, WeeksOf
  <2>3. Monday(d) = W * p
    <3>1. Monday(d) = d - s
      BY DEF Monday, W
    <3>2. W * p \in Int
      BY <1>1, <2>2
    <3> HIDE DEF p, s
    <3> QED
      BY <3>1, <3>2, <2>2
  <2>4. (Monday(d) - Monday(F)) \div W = p - q
    <3> HIDE DEF p, s
    <3>1. W * p - W * q = W * (p - q) + 0
      BY <1>1, <1>2, <2>2
    <3>2. 0 \in 0..(W - 1) /\ p - q \in Int
      BY <1>1, <1>2, <2>2
    <3>3. (W * (p - q) + 0) \div W = p - q
      BY <3>2, <1>1, WeeksAre
    <3> QED
      BY <3>1, <3>3, <1>3, <2>3
  <2>5. ASSUME d \in Days(e, w) PROVE s \in e.days /\ (p - q) % I = 0
    <3>1. PICK k \in Weeks(e, w) : \E r \in e.days : d = Monday(F) + k * W * I + r
      BY <1>4, <2>5
    <3>2. PICK r \in e.days : d = Monday(F) + k * W * I + r
      BY <3>1
    <3>3. k \in Int /\ r \in 0..(W - 1) /\ r \in Int
      BY <1>1, <1>5
    <3>4. d = W * (q + k * I) + r
      BY <1>6, <3>2, <3>3
    <3>5. q + k * I \in Int
      BY <1>1, <1>2, <3>3
    <3>6. s = r /\ p = q + k * I
      BY <3>3, <3>4, <3>5, <1>1, WeeksAre
    <3>7. p - q = I * k + 0
      <4>1. k * I = I * k /\ k * I \in Int
        BY <1>1, <3>3
      <4> HIDE DEF p
      <4> QED
        BY <4>1, <3>6, <1>2
    <3>8. (I * k + 0) % I = 0
      <4>1. 0 \in 0..(I - 1)
        BY <1>1
      <4> QED
        BY <4>1, <3>3, <1>1, WeeksAre
    <3> HIDE DEF p, s
    <3> QED
      BY <3>6, <3>7, <3>8
  <2>6. ASSUME s \in e.days, (p - q) % I = 0 PROVE d \in Days(e, w)
    <3> HIDE DEF p, s
    <3> DEFINE k == (p - q) \div I
    <3>1. k \in Int /\ p - q = I * k
      <4>1. p - q \in Int
        BY <1>2, <2>2
      <4>2. k \in Int /\ p - q = I * k + ((p - q) % I)
        BY <4>1, <1>1, WeeksOf
      <4>3. I * k \in Int
        BY <4>2, <1>1
      <4> QED
        BY <4>2, <4>3, <2>6
    <3> HIDE DEF k
    <3>2. p - q >= 0
      <4>1. W * p + s >= W * q + f /\ s < W /\ f >= 0 /\ W > 0
        BY <1>1, <1>2, <2>1, <2>2
      <4>2. W * (p - q) > 0 - W
        <5>1. W * p \in Int /\ W * q \in Int /\ W * (p - q) = W * p - W * q
          BY <1>1, <1>2, <2>2
        <5> QED
          BY <4>1, <5>1, <1>1, <1>2, <2>2
      <4>3. ASSUME p - q < 0 PROVE FALSE
        <5>1. W * (p - q) <= W * (0 - 1)
          BY <4>3, <1>1, <1>2, <2>2
        <5> QED
          BY <5>1, <4>2, <1>1, <1>2, <2>2
      <4> QED
        BY <4>3, <1>2, <2>2
    <3>3. k >= 0
      <4>1. ASSUME k < 0 PROVE FALSE
        <5>1. I * k <= I * (0 - 1)
          BY <4>1, <1>1, <3>1
        <5> QED
          BY <5>1, <3>1, <3>2, <1>1
      <4> QED
        BY <4>1, <3>1
    <3>4. k <= p - q
      <4>1. 1 * k <= I * k
        BY <3>1, <3>3, <1>1
      <4> QED
        BY <4>1, <3>1
    <3>5. q >= 0
      <4>1. ASSUME q < 0 PROVE FALSE
        <5>1. W * q <= W * (0 - 1)
          BY <4>1, <1>1, <1>2
        <5> QED
          BY <5>1, <1>1, <1>2
      <4> QED
        BY <4>1, <1>2
    <3>6. p <= W * p /\ W * p <= d
      <4>1. p >= 0
        BY <3>2, <3>5, <1>2, <2>2
      <4>2. 1 * p <= W * p
        BY <4>1, <1>1, <2>2
      <4>3. W * p \in Int
        BY <1>1, <2>2
      <4> QED
        BY <4>2, <4>3, <2>2
    <3>7. k \in 0..(w.to + W)
      <4>1. W * p \in Int
        BY <1>1, <2>2
      <4> QED
        BY <4>1, <3>1, <3>3, <3>4, <3>5, <3>6, <2>1, <2>2, <1>1, <1>2
    <3>8. Monday(F) + k * W * I + s = d
      <4>1. k * I = I * k /\ I * k \in Int
        BY <1>1, <3>1
      <4>2. q + k * I = p
        BY <4>1, <3>1, <1>2, <2>2
      <4>3. Monday(F) + k * W * I + s = W * (q + k * I) + s
        BY <1>6, <3>1, <2>2
      <4> QED
        BY <4>2, <4>3, <2>2
    <3>9. k \in Weeks(e, w)
      <4> DEFINE m == Monday(F)
                 x == k * W * I
      <4>1. m \in Int /\ x \in Int
        <5>1. W * q \in Int /\ k * W \in Int
          BY <1>1, <1>2, <3>1
        <5>2. (k * W) * I \in Int
          BY <5>1, <1>1
        <5> QED
          BY <5>1, <5>2, <1>3
      <4>2. m + x + s = d
        BY <3>8
      <4> HIDE DEF m, x
      <4>3. m + x - (W - 1) <= w.to
        BY <4>1, <4>2, <2>1, <2>2, <1>1
      <4> QED
        BY <4>3, <3>7, <1>5 DEF m, x
    <3> QED
      BY <3>8, <3>9, <2>6, <1>4
  <2> QED
    BY <2>4, <2>5, <2>6
<1> QED
  BY <1>7, <1>8 DEF W, F, I

\* The window the walk keeps.
LEMMA WindowIs ==
    ASSUME NEW e, EventAsked(e), NEW w, w = WindowOf(e)
    PROVE  w.from \in Nat /\ w.to \in Nat /\ e.first <= w.from
<1> DEFINE from == IF e.from = NoLimit \/ e.from < e.first THEN e.first ELSE e.from
           until == IF e.until = NoLimit THEN NoLimit ELSE e.until.day
           to == IF e.to = NoLimit /\ e.until = NoLimit THEN e.first + MaxIcsWindow ELSE Least(e.to, until)
<1>1. w = [from |-> from, to |-> Least(to, from + MaxIcsWindow)]
  BY DEF WindowOf
<1>2. /\ e.first \in Nat /\ MaxIcsWindow \in Nat /\ NoLimit \notin Int
      /\ (e.from = NoLimit \/ e.from \in Nat) /\ (e.to = NoLimit \/ e.to \in Nat)
      /\ (e.until = NoLimit \/ e.until.day \in Nat)
  BY IcsAssumption DEF EventAsked
<1>3. from \in Nat /\ e.first <= from
  BY <1>2
<1>4. to \in Nat
  BY <1>2 DEF Least
<1> HIDE DEF from, to
<1>5. from + MaxIcsWindow \in Nat /\ to # NoLimit
  BY <1>2, <1>3, <1>4
<1>6. Least(to, from + MaxIcsWindow) \in Nat
  BY <1>4, <1>5 DEF Least
<1> QED
  BY <1>1, <1>3, <1>6

\* The days up to day d that COUNT counts.
Upto(e, w, d) == {x \in Days(e, w) : e.first <= x /\ x <= d}

LEMMA UptoIs ==
    ASSUME NEW e, EventAsked(e), NEW w, w.to \in Nat, NEW d \in Int
    PROVE  /\ IsFiniteSet(Upto(e, w, d)) /\ Cardinality(Upto(e, w, d)) \in Nat
           /\ d \in Days(e, w) /\ e.first <= d => Cardinality(Upto(e, w, d)) = Cardinality(Upto(e, w, d - 1)) + 1
           /\ ~(d \in Days(e, w) /\ e.first <= d) => Upto(e, w, d) = Upto(e, w, d - 1)
           /\ \A x \in Int : d <= x => Cardinality(Upto(e, w, d)) <= Cardinality(Upto(e, w, x))
<1>1. Days(e, w) \subseteq Int /\ e.first \in Int
  BY DaysAre DEF EventAsked
<1>2. \A x \in Int : IsFiniteSet(Upto(e, w, x)) /\ Cardinality(Upto(e, w, x)) \in Nat
  <2> TAKE x \in Int
  <2>1. IsFiniteSet(e.first..x)
    BY <1>1, FS_Interval
  <2>2. Upto(e, w, x) \subseteq e.first..x
    BY <1>1 DEF Upto
  <2> QED
    BY <2>1, <2>2, FS_Subset, FS_CardinalityType
<1>3. d - 1 \in Int
  OBVIOUS
<1>4. ASSUME d \in Days(e, w), e.first <= d
      PROVE  Cardinality(Upto(e, w, d)) = Cardinality(Upto(e, w, d - 1)) + 1
  <2>1. Upto(e, w, d) = Upto(e, w, d - 1) \cup {d} /\ d \notin Upto(e, w, d - 1)
    BY <1>1, <1>4 DEF Upto
  <2>2. IsFiniteSet(Upto(e, w, d - 1))
    BY <1>2, <1>3
  <2> QED
    BY <2>1, <2>2, FS_AddElement
<1>5. ASSUME ~(d \in Days(e, w) /\ e.first <= d) PROVE Upto(e, w, d) = Upto(e, w, d - 1)
  BY <1>1, <1>5 DEF Upto
<1>6. ASSUME NEW x \in Int, d <= x PROVE Cardinality(Upto(e, w, d)) <= Cardinality(Upto(e, w, x))
  <2>1. Upto(e, w, d) \subseteq Upto(e, w, x)
    BY <1>1, <1>6 DEF Upto
  <2> QED
    BY <2>1, <1>2, FS_Subset
<1> QED
  BY <1>2, <1>4, <1>5, <1>6

\* The days that are meetings, if there are not too many.
Late(e, d) == e.until # NoLimit /\ (d > e.until.day \/ (d = e.until.day /\ e.tick > e.until.tick))
Dated(e, w, d) ==
    /\ d \in Days(e, w) /\ e.first <= d /\ w.from <= d /\ d <= w.to
    /\ e.count # NoLimit => Cardinality(Upto(e, w, d)) <= e.count
    /\ ~Late(e, d)

\* What is known once the walk has come to day n.
WalkState == [n : Nat, days : SUBSET Int, done : BOOLEAN]
WalkedTo(e, w, n, acc) ==
    /\ acc \in WalkState /\ IsFiniteSet(acc.days) /\ \A d \in acc.days : Dated(e, w, d) /\ d < n
    /\ ~acc.done => /\ acc.n = Cardinality(Upto(e, w, n - 1)) /\ Cardinality(acc.days) < MaxIcsOccurrences
                    /\ \A d : Dated(e, w, d) /\ d < n => d \in acc.days
    /\ acc.done => \/ \A d : Dated(e, w, d) => d \in acc.days
                   \/ /\ Cardinality(acc.days) = MaxIcsOccurrences
                      /\ \E m \in 0..n : \A d : Dated(e, w, d) => (d \in acc.days <=> d < m)

LEMMA SkipKeeps ==
    ASSUME NEW e, EventAsked(e), NEW w, w.to \in Nat, NEW n \in Nat, NEW acc, WalkedTo(e, w, n, acc),
           ~(n \in Days(e, w) /\ e.first <= n) \/ acc.done
    PROVE  WalkedTo(e, w, n + 1, acc)
<1>1. \A d \in acc.days : Dated(e, w, d) /\ d < n + 1
  BY DEF WalkedTo, WalkState
<1>2. \A d : Dated(e, w, d) => d \in Int
  BY DaysAre DEF Dated
<1>3. ASSUME ~acc.done
      PROVE  /\ acc.n = Cardinality(Upto(e, w, (n + 1) - 1)) /\ Cardinality(acc.days) < MaxIcsOccurrences
             /\ \A d : Dated(e, w, d) /\ d < n + 1 => d \in acc.days
  <2>1. n \in Int /\ (n + 1) - 1 = n /\ ~(n \in Days(e, w) /\ e.first <= n)
    BY <1>3
  <2>2. Upto(e, w, n) = Upto(e, w, n - 1)
    BY <2>1, UptoIs
  <2>3. ~Dated(e, w, n)
    BY <2>1 DEF Dated
  <2>4. \A d : Dated(e, w, d) /\ d < n + 1 => d < n
    BY <1>2, <2>3
  <2> QED
    BY <1>3, <2>1, <2>2, <2>4 DEF WalkedTo
<1>4. ASSUME acc.done
      PROVE  \/ \A d : Dated(e, w, d) => d \in acc.days
             \/ /\ Cardinality(acc.days) = MaxIcsOccurrences
                /\ \E m \in 0..(n + 1) : \A d : Dated(e, w, d) => (d \in acc.days <=> d < m)
  <2>1. \A m \in 0..n : m \in 0..(n + 1)
    OBVIOUS
  <2> QED
    BY <2>1, <1>4 DEF WalkedTo
<1> QED
  BY <1>1, <1>3, <1>4 DEF WalkedTo

LEMMA VisitKeeps ==
    ASSUME NEW e, EventAsked(e), NEW w, w.to \in Nat, w.from \in Nat, NEW n \in Nat, NEW acc, WalkedTo(e, w, n, acc),
           n \in Days(e, w)
    PROVE  WalkedTo(e, w, n + 1, VisitDay(e, w, acc, n))
<1> DEFINE q == VisitDay(e, w, acc, n)
           more == acc.n + 1
<1>1. acc.n \in Nat /\ acc.days \in SUBSET Int /\ acc.done \in BOOLEAN /\ IsFiniteSet(acc.days) /\ Cardinality(acc.days) \in Nat
  BY FS_CardinalityType DEF WalkedTo, WalkState
<1>2. acc = [n |-> acc.n, days |-> acc.days, done |-> acc.done]
  BY DEF WalkedTo, WalkState
<1>3. CASE acc.done \/ n < e.first
  <2>1. q = acc
    BY <1>3 DEF VisitDay
  <2>2. acc.done \/ ~(e.first <= n)
    BY <1>3 DEF EventAsked
  <2>3. WalkedTo(e, w, n + 1, acc)
    BY <2>2, SkipKeeps
  <2> QED
    BY <2>1, <2>3
<1>4. CASE ~acc.done /\ ~(n < e.first)
  <2>1. /\ e.first <= n /\ more = Cardinality(Upto(e, w, n)) /\ more \in Nat /\ n \in Int /\ (n + 1) - 1 = n
        /\ Cardinality(acc.days) < MaxIcsOccurrences /\ MaxIcsOccurrences \in Nat
    <3>1. e.first <= n /\ n \in Int
      BY <1>4 DEF EventAsked
    <3>2. Cardinality(Upto(e, w, n)) = Cardinality(Upto(e, w, n - 1)) + 1
      BY <3>1, UptoIs
    <3>3. (n + 1) - 1 = n
      OBVIOUS
    <3> QED
      BY <3>1, <3>2, <3>3, <1>1, <1>4, IcsAssumption DEF WalkedTo
  <2>2. /\ \A d \in acc.days : Dated(e, w, d) /\ d < n
        /\ \A d : Dated(e, w, d) /\ d < n => d \in acc.days
        /\ \A d : Dated(e, w, d) => d \in Int
    BY <1>4, DaysAre DEF WalkedTo, Dated
  <2>3. \A d \in acc.days : d \in Int /\ d < n + 1
    BY <1>1, <2>2
  <2> HIDE DEF more
\* From here on no day is a meeting.
  <2>4. CASE (e.count # NoLimit /\ more > e.count) \/ (~(n < w.from \/ n > w.to) /\ Late(e, n))
    <3>1. q = [acc EXCEPT !.done = TRUE] \/ q = [acc EXCEPT !.n = more]
      BY <1>4, <2>4 DEF VisitDay, Late, more
    <3>2. \A d \in Int : n <= d => ~Dated(e, w, d)
      <4>1. CASE e.count # NoLimit /\ more > e.count
        <5>1. e.count \in Nat
          BY <4>1 DEF EventAsked
        <5>2. \A d \in Int : n <= d => Cardinality(Upto(e, w, d)) \in Nat /\ more <= Cardinality(Upto(e, w, d))
          BY <2>1, UptoIs
        <5>3. \A d \in Int : n <= d => ~(Cardinality(Upto(e, w, d)) <= e.count)
          BY <5>1, <5>2, <4>1, <2>1
        <5> QED
          BY <5>3, <4>1 DEF Dated
      <4>2. CASE Late(e, n)
        <5>1. e.until.day \in Nat
          BY <4>2 DEF EventAsked, Late
        <5>2. \A d \in Int : n <= d => Late(e, d)
          BY <4>2, <5>1 DEF Late
        <5> QED
          BY <5>2 DEF Dated
      <4> QED
        BY <2>4, <4>1, <4>2
    <3>3. \A d : Dated(e, w, d) => d \in acc.days
      BY <2>2, <3>2
    <3>4. q = [acc EXCEPT !.done = TRUE]
      BY <1>4, <2>4 DEF VisitDay, Late, more
    <3> HIDE DEF q
    <3>5. q = [n |-> acc.n, days |-> acc.days, done |-> TRUE]
      BY <3>4, <1>2
    <3>6. q \in WalkState /\ q.days = acc.days /\ q.done
      BY <3>5, <1>1 DEF WalkState
    <3>7. WalkedTo(e, w, n + 1, q)
      BY <1>1, <2>2, <2>3, <3>3, <3>6 DEF WalkedTo
    <3> QED
      BY <3>7 DEF q
\* A day that is counted but outside the window.
  <2>5. CASE ~(e.count # NoLimit /\ more > e.count) /\ (n < w.from \/ n > w.to)
    <3>1. q = [acc EXCEPT !.n = more]
      BY <1>4, <2>5 DEF VisitDay, more
    <3> HIDE DEF q
    <3>2. q = [n |-> more, days |-> acc.days, done |-> acc.done]
      BY <3>1, <1>2
    <3>3. q \in WalkState /\ q.days = acc.days /\ ~q.done /\ q.n = more
      BY <3>2, <1>1, <1>4, <2>1 DEF WalkState
    <3>4. ~Dated(e, w, n)
      BY <2>5 DEF Dated
    <3>5. \A d : Dated(e, w, d) /\ d < n + 1 => d \in acc.days
      BY <2>2, <3>4
    <3>6. WalkedTo(e, w, n + 1, q)
      BY <1>1, <2>1, <2>2, <2>3, <3>3, <3>5 DEF WalkedTo
    <3> QED
      BY <3>6 DEF q
\* A meeting.
  <2>6. CASE ~(e.count # NoLimit /\ more > e.count) /\ ~(n < w.from \/ n > w.to) /\ ~Late(e, n)
    <3> DEFINE full == Cardinality(acc.days) + 1 >= MaxIcsOccurrences
    <3>1. q = [n |-> more, days |-> acc.days \cup {n}, done |-> full]
      BY <1>4, <2>6 DEF VisitDay, Late, more
    <3>2. full \in BOOLEAN /\ (full => Cardinality(acc.days) + 1 = MaxIcsOccurrences)
          /\ (~full => Cardinality(acc.days) + 1 < MaxIcsOccurrences)
      BY <1>1, <2>1
    <3> HIDE DEF full, q
    <3>3. q \in WalkState /\ q.days = acc.days \cup {n} /\ q.n = more /\ q.done = full
      BY <3>1, <3>2, <1>1, <2>1 DEF WalkState
    <3>4. Dated(e, w, n)
      <4>1. e.count # NoLimit => more <= e.count
        BY <2>1, <2>6 DEF EventAsked
      <4> QED
        BY <4>1, <2>1, <2>6 DEF Dated
    <3>5. \A d : Dated(e, w, d) => (d < n + 1 <=> d \in q.days)
      BY <2>2, <3>3, <3>4
    <3>6. IsFiniteSet(q.days) /\ Cardinality(q.days) = Cardinality(acc.days) + 1
      <4>1. n \notin acc.days
        BY <2>2
      <4> QED
        BY <4>1, <1>1, <3>3, FS_AddElement
    <3>7. \A d \in q.days : Dated(e, w, d) /\ d < n + 1
      BY <2>2, <2>3, <3>3, <3>4
    <3>8. n + 1 \in 0..(n + 1)
      OBVIOUS
    <3>9. WalkedTo(e, w, n + 1, q)
      BY <2>1, <3>2, <3>3, <3>5, <3>6, <3>7, <3>8 DEF WalkedTo
    <3> QED
      BY <3>9 DEF q
  <2> QED
    BY <2>4, <2>5, <2>6
<1> QED
  BY <1>1, <1>3, <1>4

\* The whole walk.
Walk(e, w) == CHOOSE f : f = [n \in 0..(w.to + 2 * IcsWeek) |->
                                 IF n = 0 THEN [n |-> 0, days |-> {}, done |-> FALSE]
                                 ELSE IF n - 1 \in Days(e, w) THEN VisitDay(e, w, f[n - 1], n - 1) ELSE f[n - 1]]

LEMMA WalkIs ==
    ASSUME NEW e, EventAsked(e), NEW w, w = WindowOf(e), NEW walk, walk = Walk(e, w)
    PROVE  WalkedTo(e, w, w.to + 2 * IcsWeek, walk[w.to + 2 * IcsWeek])
<1> DEFINE N == w.to + 2 * IcsWeek
           X == WalkState
           base == [n |-> 0, days |-> {}, done |-> FALSE]
           Next1(i, x) == IF i - 1 \in Days(e, w) THEN VisitDay(e, w, x, i - 1) ELSE x
           R(f) == f = [i \in 0..N |-> IF i = 0 THEN base ELSE Next1(i, f[i - 1])]
           G == [i \in 1..N |-> [x \in X |-> IF Next1(i, x) \in X THEN Next1(i, x) ELSE x]]
<1>1. N \in Nat /\ w.to \in Nat /\ w.from \in Nat /\ e.first \in Nat
  <2>1. w.to \in Nat /\ w.from \in Nat
    BY WindowIs
  <2>2. IcsWeek \in Nat /\ e.first \in Nat
    BY IcsAssumption DEF EventAsked
  <2> QED
    BY <2>1, <2>2
<1>2. WalkedTo(e, w, 0, base)
  <2>1. base.n = 0 /\ base.days = {} /\ ~base.done
    OBVIOUS
  <2>2. base \in WalkState
    BY DEF WalkState
  <2> HIDE DEF base
  <2>3. Upto(e, w, 0 - 1) = {}
    BY <1>1, DaysAre DEF Upto
  <2>4. MaxIcsOccurrences > 0 /\ Cardinality({}) = 0 /\ IsFiniteSet({})
    BY IcsAssumption, FS_EmptySet
  <2>5. \A d : Dated(e, w, d) => d \in Int /\ e.first <= d
    BY <1>1, DaysAre DEF Dated
  <2>6. \A d : Dated(e, w, d) => ~(d < 0)
    BY <2>5, <1>1
  <2> QED
    BY <2>1, <2>2, <2>3, <2>4, <2>6 DEF WalkedTo
<1>3. \A k \in 0..N : k < N => /\ k \in Nat /\ k + 1 \in 1..N /\ k + 1 \in 0..N /\ (k + 1) - 1 = k /\ k + 1 # 0
  BY <1>1
<1>4. ASSUME NEW k \in 0..N, k < N, NEW x, WalkedTo(e, w, k, x) PROVE WalkedTo(e, w, k + 1, Next1(k + 1, x))
  <2>1. k \in Nat /\ (k + 1) - 1 = k
    BY <1>3, <1>4
  <2>2. CASE k \in Days(e, w)
    <3>1. WalkedTo(e, w, k + 1, VisitDay(e, w, x, k))
      BY <1>1, <1>4, <2>1, <2>2, VisitKeeps
    <3> QED
      BY <3>1, <2>1, <2>2
  <2>3. CASE k \notin Days(e, w)
    <3>1. WalkedTo(e, w, k + 1, x)
      BY <1>1, <1>4, <2>1, <2>3, SkipKeeps
    <3> QED
      BY <3>1, <2>1, <2>3
  <2> QED
    BY <2>2, <2>3
<1>5. walk = CHOOSE f : R(f)
  BY DEF Walk
<1> HIDE DEF N, base, Next1
<1>6. \E f : R(f)
  <2>1. G \in [1..N -> [X -> X]]
    <3> HIDE DEF X
    <3> QED
      OBVIOUS
  <2>2. base \in X
    BY <1>2 DEF WalkedTo
  <2>3. PICK f : Reading(f, N, X, base, G)
    <3> HIDE DEF G, X
    <3> QED
      BY <1>1, <2>1, <2>2, Readings
  <2>4. /\ f = [i \in 0..N |-> f[i]] /\ f[0] = base
        /\ \A i \in 0..N : f[i] \in X
        /\ \A i \in 0..N : i # 0 => i \in 1..N /\ i - 1 \in 0..N /\ i - 1 < N /\ (i - 1) + 1 = i
    <3> HIDE DEF G, X
    <3> QED
      BY <2>3, <1>1 DEF Reading
  <2>5. \A i \in 1..N : f[i] = IF Next1(i, f[i - 1]) \in X THEN Next1(i, f[i - 1]) ELSE f[i - 1]
    <3> TAKE i \in 1..N
    <3>1. f[i] = G[i][f[i - 1]] /\ i - 1 \in 0..N
      <4> HIDE DEF G, X
      <4> QED
        BY <2>3, <1>1 DEF Reading
    <3>2. f[i - 1] \in X
      BY <2>4, <3>1
    <3> HIDE DEF X
    <3> QED
      BY <3>1, <3>2
  <2> DEFINE S == {k \in 0..N : WalkedTo(e, w, k, f[k])}
  <2>6. ASSUME NEW k \in 0..N, k < N, WalkedTo(e, w, k, f[k])
        PROVE  f[k + 1] = Next1(k + 1, f[k]) /\ WalkedTo(e, w, k + 1, f[k + 1])
    <3>1. WalkedTo(e, w, k + 1, Next1(k + 1, f[k]))
      BY <2>6, <1>4
    <3>2. Next1(k + 1, f[k]) \in X
      BY <3>1 DEF WalkedTo
    <3>3. f[k + 1] = Next1(k + 1, f[k])
      <4> HIDE DEF X
      <4> QED
        BY <2>5, <2>6, <3>2, <1>3
    <3> QED
      BY <3>1, <3>3
  <2>7. \A k \in 0..N : k \in S
    <3>1. 0 \in S
      BY <1>1, <1>2, <2>4
    <3>2. \A k \in 0..N : k < N /\ k \in S => k + 1 \in S
      BY <2>6, <1>3
    <3> HIDE DEF S
    <3> QED
      BY <1>1, <3>1, <3>2, Reached
  <2>8. \A i \in 0..N : f[i] = IF i = 0 THEN base ELSE Next1(i, f[i - 1])
    <3> TAKE i \in 0..N
    <3>1. CASE i = 0
      BY <2>4, <3>1
    <3>2. CASE i # 0
      <4>1. i - 1 \in 0..N /\ i - 1 < N /\ (i - 1) + 1 = i /\ WalkedTo(e, w, i - 1, f[i - 1])
        BY <2>4, <2>7, <3>2
      <4>2. f[(i - 1) + 1] = Next1((i - 1) + 1, f[i - 1])
        BY <2>6, <4>1
      <4> QED
        BY <4>1, <4>2, <3>2
    <3> QED
      BY <3>1, <3>2
  <2> QED
    BY <2>4, <2>8
<1>7. R(walk)
  <2> HIDE DEF R
  <2> QED
    BY <1>5, <1>6
<1>8. walk[0] = base /\ \A k \in 0..N : k < N => walk[k + 1] = Next1(k + 1, walk[k])
  <2>1. 0 \in 0..N
    BY <1>1
  <2> QED
    BY <1>7, <1>3, <2>1
<1> HIDE DEF R, G, X
<1> DEFINE S == {k \in 0..N : WalkedTo(e, w, k, walk[k])}
<1>9. 0 \in S
  BY <1>1, <1>2, <1>8
<1>10. ASSUME NEW k \in 0..N, k < N, k \in S PROVE k + 1 \in S
  <2>1. WalkedTo(e, w, k + 1, Next1(k + 1, walk[k]))
    BY <1>4, <1>10
  <2> QED
    BY <2>1, <1>3, <1>8, <1>10
<1>11. N \in S
  <2>1. N \in 0..N
    BY <1>1
  <2> HIDE DEF S
  <2> QED
    BY <1>1, <1>9, <1>10, <2>1, Reached
<1> QED
  BY <1>11 DEF N

\* One day's tick is before another's if the day is, or if the tick is on the same day.
LEMMA TicksAre ==
    ASSUME NEW L \in Nat \ {0}, NEW d \in Nat, NEW u \in Nat, NEW t \in 0..(L - 1), NEW s \in 0..(L - 1)
    PROVE  d * L + t <= u * L + s <=> ~(d > u \/ (d = u /\ t > s))
<1>1. d * L \in Int /\ u * L \in Int
  OBVIOUS
<1>2. CASE d = u
  BY <1>1, <1>2
<1>3. ASSUME NEW a \in Nat, NEW b \in Nat, a < b PROVE a * L + L <= b * L /\ a * L \in Int /\ b * L \in Int
  <2>1. (a + 1) * L <= b * L
    <3>1. a + 1 <= b
      BY <1>3
    <3> QED
      BY <3>1
  <2>2. (a + 1) * L = a * L + L
    OBVIOUS
  <2> QED
    BY <2>1, <2>2
<1>4. CASE d < u
  <2>1. d * L + L <= u * L
    BY <1>3, <1>4
  <2> QED
    BY <2>1, <1>1, <1>4
<1>5. CASE u < d
  <2>1. u * L + L <= d * L
    BY <1>3, <1>5
  <2> QED
    BY <2>1, <1>1, <1>5
<1> QED
  BY <1>2, <1>4, <1>5

\* What the walk has at the end are the days of the pattern, the first ones if there are too many.
LEMMA PatternReply == IcsInv => MeetingsAreThePattern
<1> SUFFICES ASSUME IcsInv, Told("meetings"), ask.recurring PROVE MeetingsAreThePattern
  <2>1. ~(Told("meetings") /\ ask.recurring) => MeetingsAreThePattern
    BY DEF MeetingsAreThePattern
  <2> QED
    BY <2>1
<1> DEFINE e == ask
           w == WindowOf(e)
           walk == Walk(e, w)
           N == w.to + 2 * IcsWeek
           pattern == {d \in e.first..w.to : d % IcsWeek \in e.days
                          /\ ((Monday(d) - Monday(e.first)) \div IcsWeek) % e.interval = 0}
           upto(d) == {x \in pattern : x <= d}
           inTime(d) == e.until # NoLimit => d * IcsDay + e.tick <= e.until.day * IcsDay + e.until.tick
           dated == {d \in pattern : d >= w.from
                        /\ (e.count # NoLimit => Cardinality(upto(d)) <= e.count) /\ inTime(d)}
<1>1. EventAsked(e) /\ answer = ExpandIcs(e)
  BY DEF IcsInv, IcsAsked, Told
<1>2. answer = walk[N].days
  BY <1>1 DEF ExpandIcs, Weeks, Days, Walk
<1>4. w.from \in Nat /\ w.to \in Nat /\ e.first <= w.from /\ e.first \in Nat
  <2>1. e.first \in Nat
    BY <1>1 DEF EventAsked
  <2> HIDE DEF e
  <2> QED
    BY <1>1, <2>1, WindowIs
<1>5. WalkedTo(e, w, N, walk[N])
  <2>1. w = WindowOf(e) /\ walk = Walk(e, w)
    OBVIOUS
  <2> HIDE DEF e, w, walk
  <2> QED
    BY <1>1, <2>1, WalkIs
<1> HIDE DEF walk, e, w
<1>6. N \in Nat /\ w.to < N
  <2>1. IcsWeek \in Nat \ {0}
    BY IcsAssumption
  <2> QED
    BY <2>1, <1>4
<1>7. \A d : d \in pattern <=> d \in Days(e, w) /\ e.first <= d /\ d <= w.to
  <2>1. Days(e, w) \subseteq Int
    BY <1>1, <1>4, DaysAre
  <2>2. \A d \in e.first..w.to : d \in Days(e, w) <=>
           d % IcsWeek \in e.days /\ ((Monday(d) - Monday(e.first)) \div IcsWeek) % e.interval = 0
    BY <1>1, <1>4, DaysAre
  <2>3. \A d : d \in Days(e, w) /\ e.first <= d /\ d <= w.to => d \in e.first..w.to
    BY <2>1, <1>4
  <2>4. \A d \in e.first..w.to : e.first <= d /\ d <= w.to
    BY <1>4
  <2> QED
    BY <2>2, <2>3, <2>4
<1> HIDE DEF pattern
<1>8. \A d : d \in pattern => d \in Nat
  BY <1>4, <1>7, DaysAre, <1>1
<1>9. ASSUME NEW d \in pattern PROVE d \in dated <=> Dated(e, w, d)
  <2>1. d \in Nat /\ d \in Days(e, w) /\ e.first <= d /\ d <= w.to
    BY <1>7, <1>8
  <2>2. upto(d) = Upto(e, w, d)
    <3>1. \A x \in Days(e, w) : x \in Int
      BY <1>1, <1>4, DaysAre
    <3>2. ASSUME NEW x PROVE x \in upto(d) <=> x \in Upto(e, w, d)
      <4>1. x \in Days(e, w) /\ x <= d => x <= w.to
        BY <3>1, <2>1, <1>4
      <4> QED
        BY <4>1, <1>7 DEF Upto
    <3> HIDE DEF upto
    <3> QED
      BY <3>2
  <2>3. inTime(d) <=> ~Late(e, d)
    <3>1. CASE e.until = NoLimit
      BY <3>1 DEF Late
    <3>2. CASE e.until # NoLimit
      <4> DEFINE u == e.until.day
                 t == e.tick
                 s == e.until.tick
                 L == IcsDay
      <4>1. u \in Nat /\ t \in 0..(L - 1) /\ s \in 0..(L - 1) /\ L \in Nat \ {0} /\ d \in Nat
        BY <1>1, <2>1, <3>2, IcsAssumption DEF EventAsked
      <4> HIDE DEF u, t, s, L
      <4>2. d * L + t <= u * L + s <=> ~(d > u \/ (d = u /\ t > s))
        BY <4>1, TicksAre
      <4> QED
        BY <4>2, <3>2 DEF Late, u, t, s, L
    <3> QED
      BY <3>1, <3>2
  <2>4. d >= w.from <=> w.from <= d
    BY <2>1, <1>4
  <2> HIDE DEF upto, inTime
  <2> QED
    BY <2>1, <2>2, <2>3, <2>4 DEF Dated
<1>10. \A d : d \in dated <=> Dated(e, w, d)
  <2>1. \A d : Dated(e, w, d) => d \in pattern
    BY <1>7 DEF Dated
  <2>2. \A d : d \in dated => d \in pattern
    OBVIOUS
  <2> HIDE DEF dated
  <2> QED
    BY <2>1, <2>2, <1>9
<1> HIDE DEF dated
<1>11. \A d \in answer : Dated(e, w, d) /\ d < N
  BY <1>2, <1>5 DEF WalkedTo
<1>12. \/ \A d : Dated(e, w, d) => d \in answer
       \/ /\ Cardinality(answer) = MaxIcsOccurrences
          /\ \E m \in 0..N : \A d : Dated(e, w, d) => (d \in answer <=> d < m)
  <2>1. \A d : Dated(e, w, d) => d < N
    <3>1. \A d : Dated(e, w, d) => d \in Int /\ d <= w.to
      BY <1>1, <1>4, DaysAre DEF Dated
    <3> HIDE DEF N
    <3> QED
      BY <3>1, <1>4, <1>6
  <2>2. walk[N].done \in BOOLEAN
    BY <1>5 DEF WalkedTo, WalkState
  <2> QED
    BY <2>1, <2>2, <1>2, <1>5 DEF WalkedTo
<1> HIDE DEF N
<1>13. answer \subseteq dated
  BY <1>10, <1>11
<1>14. ASSUME answer # dated
       PROVE  Cardinality(answer) = MaxIcsOccurrences /\ \A d \in answer, x \in dated \ answer : d < x
  <2>1. ~ \A d : Dated(e, w, d) => d \in answer
    BY <1>10, <1>13, <1>14
  <2>2. Cardinality(answer) = MaxIcsOccurrences
    BY <1>12, <2>1
  <2>3. PICK m \in 0..N : \A d : Dated(e, w, d) => (d \in answer <=> d < m)
    BY <1>12, <2>1
  <2>4. \A d : Dated(e, w, d) => d \in Int
    BY <1>1, <1>4, DaysAre DEF Dated
  <2>5. ASSUME NEW d \in answer, NEW x \in dated \ answer PROVE d < x
    <3>1. d < m /\ ~(x < m) /\ d \in Int /\ x \in Int /\ m \in Int
      BY <2>3, <2>4, <1>10, <1>11
    <3> QED
      BY <3>1
  <2> QED
    BY <2>2, <2>5
<1> QED
  BY <1>13, <1>14, Zenon DEF MeetingsAreThePattern, e, w, dated, pattern, upto, inTime

LEMMA IcsStep == IcsInv /\ [IcsNext]_lookupVars => IcsInv'
<1> SUFFICES ASSUME IcsInv, [IcsNext]_lookupVars PROVE IcsInv'
  OBVIOUS
<1>1. CASE UNCHANGED lookupVars
  BY <1>1 DEF IcsInv, IcsAsked, Told, lookupVars
<1>2. CASE IcsNext
  <2>1. ask' = ask
    BY <1>2 DEF IcsNext, ReadCalendar, ExpandEvent, Reply
  <2>2. IcsAsked'
    BY <2>1 DEF IcsInv, IcsAsked
  <2>3. (Told("ics")' => answer' = ParseIcs(ask')) /\ (Told("meetings")' => answer' = ExpandIcs(ask'))
    BY <1>2, <2>1 DEF IcsNext, ReadCalendar, ExpandEvent, Reply, Told
  <2> QED
    BY <2>2, <2>3 DEF IcsInv
<1> QED
  BY <1>1, <1>2

LEMMA CalendarKept == IcsInv => CalendarIsKept
  BY CalendarReply, PatternReply DEF CalendarIsKept

(* A file is read whole or said to be faulty, and its weekly events are    *)
(* the days their rules say, whatever the file (classes.py:2022-2313).     *)
THEOREM Calendar == IcsSpec => []CalendarIsKept
<1>1. answer = NoAnswer /\ IcsAsked => IcsInv
  BY DEF IcsInv, Told
<1> QED
  BY <1>1, CalendarKept, IcsStep, PTL DEF IcsSpec

(* A student's own time is told as it is, by whichever tool is asked       *)
(* (agent_tools.py:199-275, classes.py:2022-2313).                         *)
THEOREM StudentTime == OwnTimeSpec => []OwnTimeIsKept
<1> DEFINE Inv == ScheduleAsked /\ FreeTimeIsFree /\ IcsInv
<1>1. answer = NoAnswer /\ ScheduleAsked /\ IcsAsked => Inv
  BY DEF IcsInv, FreeTimeIsFree, Told
<1>2. Inv /\ [OwnTimeNext]_lookupVars => Inv'
  <2> SUFFICES ASSUME Inv, [OwnTimeNext]_lookupVars PROVE Inv'
    OBVIOUS
  <2>1. CASE Look
    <3>1. ScheduleAsked' /\ FreeTimeIsFree'
      BY <2>1, LookTellsFreeTime
    <3>2. IcsInv'
      BY <2>1 DEF Look, Reply, IcsInv, IcsAsked, Told
    <3> QED
      BY <3>1, <3>2
  <2>2. CASE IcsNext
    <3>1. IcsInv'
      BY <2>2, IcsStep
    <3>2. ScheduleAsked' /\ FreeTimeIsFree'
      BY <2>2 DEF IcsNext, ReadCalendar, ExpandEvent, Reply, ScheduleAsked, FreeTimeIsFree, Told
    <3> QED
      BY <3>1, <3>2
  <2>3. CASE UNCHANGED lookupVars
    <3>1. IcsInv'
      BY <2>3, IcsStep
    <3>2. ScheduleAsked' /\ FreeTimeIsFree'
      BY <2>3 DEF lookupVars, ScheduleAsked, FreeTimeIsFree, Told
    <3> QED
      BY <3>1, <3>2
  <2> QED
    BY <2>1, <2>2, <2>3 DEF OwnTimeNext
<1>3. Inv => OwnTimeIsKept
  <2> SUFFICES ASSUME Inv PROVE OwnTimeIsKept
    OBVIOUS
  <2>1. CalendarIsKept
    BY CalendarKept
  <2> QED
    BY <2>1 DEF OwnTimeIsKept
<1> QED
  BY <1>1, <1>2, <1>3, PTL DEF OwnTimeSpec

-----------------------------------------------------------------------------
(* The class catalogue.  What is answered is what the code computes.       *)
ClassesInv ==
    /\ ClassesAsked
    /\ Told("table") => answer = ParseTable(ask.rows)
    /\ Told("classes") => answer = SearchCaptures(ask)
    /\ Told("add") => answer = Addition(ask)
    /\ Told("remove") => answer = Removal(ask)
    /\ Told("preview") => answer = Preview(ask)
    /\ Told("next class") => answer = NextClass(ask)

\* Each row that is a section's is in the section that its CRN's first row began.
LEMMA TableReply == ClassesInv => SectionIsItsRows
<1> SUFFICES ASSUME ClassesInv, Told("table") PROVE SectionIsItsRows
  BY DEF SectionIsItsRows
<1> DEFINE rows == ask.rows
           used == {i \in DOMAIN rows : rows[i].lead = "crn" /\ ~rows[i].short}
           firsts == {i \in used : \A j \in used : j < i => rows[j].crn # rows[i].crn}
           Meetings(c) == [i \in {j \in used : rows[j].crn = c} |-> rows[i]]
           Section(c) == [crn |-> c, meetings |-> Meetings(c),
                          hasTba   |-> \E m \in Range(Meetings(c)) : ~m.timed \/ m.place = "tba",
                          unknown  |-> \E m \in Range(Meetings(c)) : m.place = "unlisted",
                          isOnline |-> \A m \in Range(Meetings(c)) : m.place = "online"]
<1>1. answer.sections = [i \in firsts |-> Section(rows[i].crn)]
  <2>1. answer = ParseTable(ask.rows)
    BY DEF ClassesInv
  <2> QED
    BY <2>1 DEF ParseTable
<1>2. DOMAIN rows \subseteq Nat
  BY DEF ClassesInv, ClassesAsked, Told
<1>3. \A c : Section(c).crn = c /\ Section(c).meetings = Meetings(c)
             /\ (Section(c).hasTba <=> \E m \in Range(Meetings(c)) : ~m.timed \/ m.place = "tba")
  OBVIOUS
<1>4. \A c : DOMAIN Meetings(c) = {j \in used : rows[j].crn = c} /\ \A i \in DOMAIN Meetings(c) : Meetings(c)[i] = rows[i] /\ rows[i].crn = c
  OBVIOUS
<1> HIDE DEF Section, Meetings
<1>5. \A s \in Range(answer.sections) : \E i \in firsts : s = Section(rows[i].crn)
  BY <1>1 DEF Range
<1>6. \A i \in firsts : Section(rows[i].crn) \in Range(answer.sections)
  BY <1>1 DEF Range
<1>7. ASSUME NEW s \in Range(answer.sections)
      PROVE  /\ ~s.hasTba => \A m \in Range(s.meetings) : m.timed
             /\ \A i \in DOMAIN s.meetings : s.meetings[i] = ask.rows[i] /\ ask.rows[i].crn = s.crn
             /\ \A t \in Range(answer.sections) : t.crn = s.crn => t = s
  <2>1. s = Section(s.crn)
    BY <1>3, <1>5
  <2>2. ASSUME NEW t \in Range(answer.sections), t.crn = s.crn PROVE t = s
    <3>1. t = Section(t.crn)
      BY <1>3, <1>5
    <3> QED
      BY <3>1, <2>1, <2>2
  <2>3. ~s.hasTba => \A m \in Range(s.meetings) : m.timed
    BY <2>1, <1>3
  <2>4. \A i \in DOMAIN s.meetings : s.meetings[i] = ask.rows[i] /\ ask.rows[i].crn = s.crn
    BY <2>1, <1>3, <1>4
  <2> QED
    BY <2>2, <2>3, <2>4
<1>8. ASSUME NEW i \in DOMAIN ask.rows, ask.rows[i].lead = "crn", ~ask.rows[i].short
      PROVE  \E s \in Range(answer.sections) : i \in DOMAIN s.meetings
  <2> DEFINE c == rows[i].crn
             same == {j \in used : rows[j].crn = c}
  <2>1. i \in used /\ i \in same
    BY <1>8
  <2>2. same \subseteq Nat /\ same # {}
    BY <1>2, <2>1
  <2>3. Foremost(same) \in same /\ \A j \in same : Foremost(same) <= j
    <3> HIDE DEF same
    <3> QED
      BY <2>2, ForemostOf
  <2> DEFINE j == Foremost(same)
  <2> HIDE DEF j
  <2>4. j \in used /\ rows[j].crn = c /\ \A k \in same : j <= k
    BY <2>3 DEF j
  <2>5. j \in firsts
    <3>1. ASSUME NEW k \in used, k < j, rows[k].crn = c PROVE FALSE
      <4>1. k \in same /\ k \in Nat /\ j \in Nat
        BY <3>1, <2>4, <1>2
      <4> QED
        BY <4>1, <3>1, <2>4
    <3> QED
      BY <2>4, <3>1
  <2>6. i \in DOMAIN Section(c).meetings
    BY <2>1, <1>3, <1>4
  <2> QED
    BY <2>4, <2>5, <2>6, <1>6
<1> QED
  BY <1>7, <1>8 DEF SectionIsItsRows

\* Nothing is left out of what a scheduled class was chosen from.
LEMMA NextClassReply == ClassesInv => NextIsNext
<1> SUFFICES ASSUME ClassesInv, Told("next class") PROVE NextIsNext
  BY DEF NextIsNext
<1> DEFINE later == {m \in ask.calendar \cup ask.banner : m.start >= ask.at /\ ~(ask.skipOnline /\ m.online)}
           excluded == ask.timed /\ ~ask.consent
           open  == {m \in ask.calendar \cup (IF ask.consent THEN ask.banner ELSE {}) : m.start >= ask.at /\ ~(ask.skipOnline /\ m.online)}
           first == {m \in open : \A n \in open : m.start <= n.start}
<1>1. answer = NextClass(ask) /\ (ask.banner # {} => ask.timed)
  BY DEF ClassesInv, ClassesAsked, Told
<1>2. ~excluded => open = later
  BY <1>1
<1>3. CASE open = {}
  <2>1. answer.status # "scheduled" /\ answer.assumption = excluded
    BY <1>1, <1>3 DEF NextClass
  <2> QED
    BY <1>2, <1>3, <2>1 DEF NextIsNext
<1>4. CASE open # {}
  <2>1. /\ answer.status = IF excluded THEN "recurrence_unavailable" ELSE "scheduled"
        /\ answer.next = first /\ answer.assumption = excluded
    BY <1>1, <1>4 DEF NextClass
  <2> QED
    BY <1>2, <2>1 DEF NextIsNext
<1> QED
  BY <1>3, <1>4

\* Finitely many meetings have a conflict exactly when two of them overlap.
Meeting(m) == m = [id |-> m.id, start |-> m.start, end |-> m.end] /\ m.id \in Int /\ m.start \in Int /\ m.end \in Int

LEMMA ConflictsAre ==
    ASSUME NEW meetings, IsFiniteSet(meetings), \A m \in meetings : Meeting(m)
    PROVE  /\ IsFiniteSet(FindConflicts(meetings))
           /\ FindConflicts(meetings) # {} <=> \E m, n \in meetings : Overlap(m, n)
<1> DEFINE before(a, b) == a.start < b.start \/ (a.start = b.start /\ (a.end < b.end \/ (a.end = b.end /\ a.id < b.id)))
           R == {p \in meetings \X meetings : before(p[1], p[2])}
           s == InOrder(meetings, R)
           N == Cardinality(meetings)
           reached(i, j) == \A k \in i + 1..j : s[k].start < s[i].end
           end(i, j) == IF s[i].end < s[j].end THEN s[i].end ELSE s[j].end
           pairs == {x \in (DOMAIN s) \X (DOMAIN s) :
                        x[1] < x[2] /\ reached(x[1], x[2]) /\ s[x[1]].id # s[x[2]].id /\ end(x[1], x[2]) > s[x[2]].start}
<1>1. FindConflicts(meetings) = {{s[p[1]], s[p[2]]} : p \in pairs}
  BY DEF FindConflicts
<1>2. \A x, y \in meetings : <<x, y>> \in R <=> before(x, y)
  OBVIOUS
<1>3. StrictOrder(meetings, R)
  <2> HIDE DEF R
  <2>1. \A x \in meetings : x.start \in Int /\ x.end \in Int /\ x.id \in Int
    BY DEF Meeting
  <2>2. \A x \in meetings : <<x, x>> \notin R
    BY <1>2, <2>1
  <2>3. \A x, y, z \in meetings : <<x, y>> \in R /\ <<y, z>> \in R => <<x, z>> \in R
    BY <1>2, <2>1
  <2>4. \A x, y \in meetings : x # y => <<x, y>> \in R \/ <<y, x>> \in R
    <3> TAKE x, y \in meetings
    <3>1. x # y => x.start # y.start \/ x.end # y.end \/ x.id # y.id
      BY DEF Meeting
    <3>2. x # y => before(x, y) \/ before(y, x)
      <4>1. x.start \in Int /\ x.end \in Int /\ x.id \in Int /\ y.start \in Int /\ y.end \in Int /\ y.id \in Int
        BY <2>1
      <4> QED
        BY <3>1, <4>1
    <3> HIDE DEF before
    <3> QED
      BY <3>2, <1>2
  <2> QED
    BY <2>2, <2>3, <2>4 DEF StrictOrder
<1> HIDE DEF R
<1>4. /\ s \in [1..N -> meetings] /\ N \in Nat /\ \A i, j \in 1..N : i < j => <<s[i], s[j]>> \in R
      /\ \A x \in meetings : \E i \in 1..N : s[i] = x
  BY <1>3, InOrderOf
<1> HIDE DEF s, N
<1>5. DOMAIN s = 1..N /\ \A i \in 1..N : s[i] \in meetings /\ s[i].start \in Int /\ s[i].end \in Int
  BY <1>4 DEF Meeting
<1>6. \A i, j \in 1..N : i < j => s[i].start <= s[j].start
  <2> TAKE i, j \in 1..N
  <2> SUFFICES ASSUME i < j PROVE s[i].start <= s[j].start
    OBVIOUS
  <2>1. before(s[i], s[j])
    <3>1. <<s[i], s[j]>> \in R
      BY <1>4
    <3> HIDE DEF before
    <3> QED
      BY <1>2, <1>5, <3>1
  <2> QED
    BY <1>5, <2>1
<1>7. \A p \in pairs : p[1] \in 1..N /\ p[2] \in 1..N /\ p[1] < p[2] /\ reached(p[1], p[2]) /\ s[p[1]].id # s[p[2]].id
                       /\ end(p[1], p[2]) > s[p[2]].start
  BY <1>5
<1>8. \A i, j \in 1..N : i < j /\ reached(i, j) /\ s[i].id # s[j].id /\ end(i, j) > s[j].start => <<i, j>> \in pairs
  BY <1>5
<1>9. IsFiniteSet(FindConflicts(meetings))
  <2>1. IsFiniteSet((1..N) \X (1..N))
    <3>1. N \in Int /\ 1 \in Int
      BY <1>4
    <3>2. IsFiniteSet(1..N)
      BY <3>1, FS_Interval
    <3> QED
      BY <3>2, FS_Product
  <2>2. pairs \subseteq (1..N) \X (1..N)
    BY <1>5
  <2>3. IsFiniteSet(pairs)
    <3> HIDE DEF pairs
    <3> QED
      BY <2>1, <2>2, FS_Subset
  <2> DEFINE f == [p \in pairs |-> {s[p[1]], s[p[2]]}]
  <2> HIDE DEF pairs
  <2>4. FindConflicts(meetings) = {f[p] : p \in pairs}
    BY <1>1
  <2> HIDE DEF f
  <2> QED
    BY <2>3, <2>4, ImageFinite
<1>10. ASSUME FindConflicts(meetings) # {} PROVE \E m, n \in meetings : Overlap(m, n)
  <2>1. PICK p \in pairs : TRUE
    <3> HIDE DEF pairs
    <3> QED
      BY <1>1, <1>10
  <2> DEFINE i == p[1]
             j == p[2]
  <2>2. i \in 1..N /\ j \in 1..N /\ i < j /\ reached(i, j) /\ s[i].id # s[j].id /\ end(i, j) > s[j].start
    <3> HIDE DEF pairs, reached, end
    <3> QED
      BY <1>7
  <2> HIDE DEF i, j
  <2>3. s[i].start <= s[j].start /\ s[i].start \in Int /\ s[i].end \in Int /\ s[j].start \in Int /\ s[j].end \in Int
        /\ s[i] \in meetings /\ s[j] \in meetings
    BY <2>2, <1>5, <1>6
  <2>4. s[j].start < s[i].end /\ s[j].start < s[j].end
    BY <2>2, <2>3
  <2>5. Overlap(s[i], s[j])
    BY <2>2, <2>3, <2>4 DEF Overlap
  <2> QED
    BY <2>3, <2>5
<1>11. ASSUME NEW m \in meetings, NEW n \in meetings, Overlap(m, n) PROVE FindConflicts(meetings) # {}
  <2>1. PICK i \in 1..N : s[i] = m
    BY <1>4
  <2>2. PICK j \in 1..N : s[j] = n
    BY <1>4
  <2>3. ASSUME NEW a \in 1..N, NEW b \in 1..N, a < b, Overlap(s[a], s[b]) PROVE FindConflicts(meetings) # {}
    <3>1. /\ s[a].start \in Int /\ s[a].end \in Int /\ s[b].start \in Int /\ s[b].end \in Int
          /\ s[b].start < s[a].end /\ s[b].start < s[b].end /\ s[a].id # s[b].id
      BY <2>3, <1>5 DEF Overlap
    <3>2. reached(a, b)
      <4> SUFFICES ASSUME NEW k \in a + 1..b PROVE s[k].start < s[a].end
        OBVIOUS
      <4>1. k \in 1..N /\ (k = b \/ k < b)
        BY <1>4
      <4>2. s[k].start <= s[b].start /\ s[k].start \in Int
        BY <4>1, <1>5, <1>6
      <4> QED
        BY <4>2, <3>1
    <3>3. end(a, b) > s[b].start
      BY <3>1
    <3>4. <<a, b>> \in pairs
      <4> HIDE DEF pairs, reached, end
      <4> QED
        BY <2>3, <3>1, <3>2, <3>3, <1>8
    <3> HIDE DEF pairs
    <3> QED
      BY <3>4, <1>1
  <2>4. i # j
    BY <2>1, <2>2, <1>11 DEF Overlap
  <2>5. Overlap(s[i], s[j]) /\ Overlap(s[j], s[i])
    BY <2>1, <2>2, <1>11 DEF Overlap
  <2>6. i < j \/ j < i
    BY <2>4, <1>4
  <2> QED
    BY <2>3, <2>5, <2>6
<1> QED
  BY <1>9, <1>10, <1>11

\* The rows of a preview are those the conflicts were looked for in.
LEMMA PreviewReply == ClassesInv => PreviewIsHonest
<1> SUFFICES ASSUME ClassesInv, Told("preview"), answer.rows # {} PROVE PreviewIsHonest
  BY DEF PreviewIsHonest
<1> DEFINE events == ask.events
           all == MeetingsOf(events, DOMAIN events)
           conflicts == FindConflicts(MeetingsOf(events, LastOf(events)))
           state == PreviewState(ask, conflicts)
<1>1. answer = Preview(ask) /\ events \in Seq(Range(events)) /\ \A e \in Range(events) : MeetingsOK(e)
  BY DEF ClassesInv, ClassesAsked, Told
<1>2. /\ answer.state = state /\ answer.rows = all /\ state # "bounds_exceeded"
      /\ ~ask.ics => ask.consent /\ ~ask.tba
  <2> HIDE DEF state, all
  <2>1. Preview(ask) = CASE ask.ics /\ ~ask.valid -> [state |-> "malformed_ics", rows |-> {}]
          [] ~ask.ics /\ (ask.events = <<>> \/ ~ask.expandable \/ (ask.consent /\ ask.tba)) -> [state |-> "error", rows |-> {}]
          [] ~ask.ics /\ ask.events # <<>> /\ ask.expandable /\ ~ask.consent -> [state |-> "recurrence_unavailable", rows |-> {}]
          [] OTHER -> IF state = "bounds_exceeded" THEN [state |-> state, rows |-> {}]
                      ELSE IF Cardinality(all) > MaxPreviewRows THEN [state |-> "error", rows |-> {}]
                      ELSE [state |-> state, rows |-> all]
    BY DEF Preview, state, all
  <2>2. CASE ask.ics /\ ~ask.valid
    BY <1>1, <2>1, <2>2
  <2>3. CASE ~ask.ics /\ (ask.events = <<>> \/ ~ask.expandable \/ (ask.consent /\ ask.tba))
    BY <1>1, <2>1, <2>3
  <2>4. CASE ~ask.ics /\ ask.events # <<>> /\ ask.expandable /\ ~ask.consent
    <3>1. ~(ask.ics /\ ~ask.valid)
      BY <2>4
    <3> QED
      BY <1>1, <2>1, <2>3, <2>4, <3>1
  <2>5. CASE /\ ~(ask.ics /\ ~ask.valid)
             /\ ~(~ask.ics /\ (ask.events = <<>> \/ ~ask.expandable \/ (ask.consent /\ ask.tba)))
             /\ ~(~ask.ics /\ ask.events # <<>> /\ ask.expandable /\ ~ask.consent)
    <3>1. answer = IF state = "bounds_exceeded" THEN [state |-> state, rows |-> {}]
                   ELSE IF Cardinality(all) > MaxPreviewRows THEN [state |-> "error", rows |-> {}]
                   ELSE [state |-> state, rows |-> all]
      BY <1>1, <2>1, <2>5
    <3>2. answer = [state |-> state, rows |-> all] /\ state # "bounds_exceeded"
      BY <3>1
    <3> QED
      BY <3>2, <2>5
  <2> QED
    BY <2>2, <2>3, <2>4, <2>5
<1>3. ASSUME LastOf(events) = DOMAIN events PROVE answer.state = "conflict" <=> \E m, n \in answer.rows : Overlap(m, n)
  <2> DEFINE of(i) == {[id |-> events[i].id, start |-> m[1], end |-> m[2]] : m \in events[i].meetings}
  <2>1. all = UNION {of(i) : i \in DOMAIN events}
    BY DEF MeetingsOf
  <2>2. \A i \in DOMAIN events : events[i] \in Range(events) /\ MeetingsOK(events[i])
    BY <1>1 DEF Range
  <2>3. \A i \in DOMAIN events : \A r \in of(i) : Meeting(r)
    BY <2>2 DEF Meeting, MeetingsOK
  <2>4. \A i \in DOMAIN events : IsFiniteSet(of(i))
    <3> TAKE i \in DOMAIN events
    <3> DEFINE f == [m \in events[i].meetings |-> [id |-> events[i].id, start |-> m[1], end |-> m[2]]]
    <3>1. of(i) = {f[m] : m \in events[i].meetings}
      OBVIOUS
    <3>2. IsFiniteSet(events[i].meetings)
      BY <2>2 DEF MeetingsOK
    <3> HIDE DEF f, of
    <3> QED
      BY <3>1, <3>2, ImageFinite
  <2> HIDE DEF of
  <2>5. IsFiniteSet(all)
    <3> DEFINE f == [i \in DOMAIN events |-> of(i)]
    <3>1. IsFiniteSet(DOMAIN events)
      <4>1. Len(events) \in Nat /\ DOMAIN events = 1..Len(events)
        BY <1>1
      <4> QED
        BY <4>1, FS_Interval
    <3>2. {of(i) : i \in DOMAIN events} = {f[i] : i \in DOMAIN events}
      OBVIOUS
    <3> HIDE DEF f
    <3>3. IsFiniteSet({of(i) : i \in DOMAIN events})
      BY <3>1, <3>2, ImageFinite
    <3>4. IsFiniteSet(UNION {of(i) : i \in DOMAIN events})
      <4> DEFINE T == {of(i) : i \in DOMAIN events}
      <4>1. \A t \in T : IsFiniteSet(t)
        BY <2>4
      <4> HIDE DEF T
      <4>2. IsFiniteSet(T)
        BY <3>3 DEF T
      <4>3. IsFiniteSet(UNION T)
        BY <4>1, <4>2, FS_UNION
      <4> QED
        BY <4>3 DEF T
    <3> QED
      BY <2>1, <3>4
  <2>6. \A r \in all : Meeting(r)
    BY <2>1, <2>3
  <2> HIDE DEF all
  <2>7. conflicts = FindConflicts(all)
    BY <1>3 DEF all
  <2> HIDE DEF conflicts
  <2>8. IsFiniteSet(conflicts) /\ (conflicts # {} <=> \E m, n \in all : Overlap(m, n))
    BY <2>5, <2>6, <2>7, ConflictsAre
  <2>9. Cardinality(conflicts) \in Nat /\ MaxConflicts \in Nat
    BY <2>8, FS_CardinalityType, ClassesAssumption
  <2>10. ~(Cardinality(conflicts) > MaxConflicts)
    <3> SUFFICES ASSUME Cardinality(conflicts) > MaxConflicts PROVE FALSE
      OBVIOUS
    <3>1. ~(Cardinality(conflicts) <= MaxConflicts)
      BY <2>9
    <3>2. PreviewState(ask, conflicts) = "bounds_exceeded"
      BY <3>1 DEF PreviewState
    <3> QED
      BY <1>2, <3>2
  <2>11. state = "conflict" <=> conflicts # {}
    <3>1. Cardinality(conflicts) <= MaxConflicts
      BY <2>9, <2>10
    <3> QED
      BY <2>10, <3>1 DEF PreviewState
  <2> QED
    BY <1>2, <2>8, <2>11
<1> QED
  BY <1>2, <1>3 DEF PreviewIsHonest

\* A finite set with no more than one element has no two.
LEMMA AtMostOne ==
    ASSUME NEW S, IsFiniteSet(S), ~(Cardinality(S) > 1), NEW x \in S, NEW y \in S
    PROVE  x = y
<1> SUFFICES ASSUME x # y PROVE FALSE
  OBVIOUS
<1> DEFINE T == {x} \cup {y}
<1>1. IsFiniteSet({x}) /\ Cardinality({x}) = 1
  BY FS_Singleton
<1>2. y \notin {x}
  OBVIOUS
<1>3. Cardinality(T) = 1 + 1
  BY <1>1, <1>2, FS_AddElement
<1>4. T \subseteq S
  OBVIOUS
<1> HIDE DEF T
<1>5. Cardinality(T) <= Cardinality(S) /\ Cardinality(S) \in Nat
  BY <1>4, FS_Subset, FS_CardinalityType
<1> QED
  BY <1>3, <1>5

LEMMA RangeFinite ==
    ASSUME NEW X, NEW s \in Seq(X)
    PROVE  IsFiniteSet(Range(s)) /\ Range(s) \subseteq X
<1>1. Len(s) \in Nat /\ DOMAIN s = 1..Len(s) /\ \A i \in DOMAIN s : s[i] \in X
  OBVIOUS
<1>2. IsFiniteSet(DOMAIN s)
  BY <1>1, FS_Interval
<1>3. IsFiniteSet({s[i] : i \in DOMAIN s})
  BY <1>2, ImageFinite
<1> QED
  BY <1>1, <1>3 DEF Range

LEMMA TermsFinite ==
    ASSUME NEW records, IsFiniteSet(records), NEW crn
    PROVE  IsFiniteSet(Terms(records, crn))
<1> DEFINE of == {x \in records : x.kind = "crn" /\ x.id = crn}
           f == [r \in of |-> r.term]
<1>1. IsFiniteSet(of)
  <2>1. of \subseteq records
    OBVIOUS
  <2> HIDE DEF of
  <2> QED
    BY <2>1, FS_Subset
<1>2. Terms(records, crn) = {f[r] : r \in of}
  BY DEF Terms
<1> HIDE DEF f, of
<1> QED
  BY <1>1, <1>2, ImageFinite

\* What a removal takes away is named by it, and its term is not in doubt.
LEMMA RemoveReply ==
    ASSUME ClassesInv, Told("remove")
    PROVE  LET gone == Range(ask.schedule) \ Range(answer.schedule) IN
           /\ \A r \in gone : r.id \in Range(IF r.kind = "crn" THEN ask.crns ELSE ask.uids)
           /\ \A r, s \in gone : r.kind = "crn" /\ s.kind = "crn" /\ r.id = s.id => r = s
           /\ \A c \in Range(ask.crns) : (\E r \in gone : r.id = c) \/ c \in answer.ambiguous \cup answer.missing
<1> DEFINE held == Range(ask.schedule)
           left == Range(answer.schedule)
           named(r) == r.kind = "crn" /\ r.id \in Range(ask.crns)
           unclear(r) == ask.term = NoTerm /\ Cardinality(Terms(held, r.id)) > 1
           out(r) == \/ r.kind = "ics" /\ r.id \in Range(ask.uids)
                     \/ named(r) /\ ~unclear(r) /\ (ask.term = NoTerm \/ r.term = ask.term)
<1>1. /\ answer.schedule = [i \in {j \in DOMAIN ask.schedule : ~out(ask.schedule[j])} |-> ask.schedule[i]]
      /\ answer.ambiguous = {r.id : r \in {x \in held : named(x) /\ unclear(x)}}
      /\ answer.missing = {c \in Range(ask.crns) : \A r \in held : r.id = c => ~out(r) /\ ~(named(r) /\ unclear(r))}
  <2>1. answer = Removal(ask)
    BY DEF ClassesInv
  <2> QED
    BY <2>1 DEF Removal
<1>2. ask.schedule \in Seq(held) /\ RecordsOK(held)
  BY DEF ClassesInv, ClassesAsked, Told
<1>3. IsFiniteSet(held)
  BY <1>2, RangeFinite
<1>4. \A r \in held : r \in left <=> ~out(r)
  <2> TAKE r \in held
  <2>1. PICK i \in DOMAIN ask.schedule : ask.schedule[i] = r
    BY DEF Range
  <2> HIDE DEF out
  <2>2. ASSUME ~out(r) PROVE r \in left
    <3>1. i \in DOMAIN answer.schedule /\ answer.schedule[i] = r
      BY <1>1, <2>1, <2>2
    <3> QED
      BY <3>1 DEF Range
  <2>3. ASSUME r \in left PROVE ~out(r)
    <3>1. PICK j \in DOMAIN answer.schedule : answer.schedule[j] = r
      BY <2>3 DEF Range
    <3>2. j \in DOMAIN ask.schedule /\ ~out(ask.schedule[j]) /\ answer.schedule[j] = ask.schedule[j]
      BY <1>1, <3>1
    <3> QED
      BY <3>1, <3>2
  <2> QED
    BY <2>2, <2>3
<1> DEFINE gone == held \ left
<1>5. \A r : r \in gone <=> r \in held /\ out(r)
  <2> HIDE DEF out, held, left
  <2> QED
    BY <1>4
<1> HIDE DEF gone, left
<1>6. ASSUME NEW r \in gone PROVE r.id \in Range(IF r.kind = "crn" THEN ask.crns ELSE ask.uids)
  <2>1. out(r)
    <3> HIDE DEF out
    <3> QED
      BY <1>5
  <2> QED
    BY <2>1
<1>7. ASSUME NEW r \in gone, NEW s \in gone, r.kind = "crn", s.kind = "crn", r.id = s.id PROVE r = s
  <2>1. r \in held /\ s \in held /\ out(r) /\ out(s)
    <3> HIDE DEF out, held
    <3> QED
      BY <1>5
  <2>2. r.term = s.term
    <3>1. CASE ask.term = NoTerm
      <4>1. ~(Cardinality(Terms(held, r.id)) > 1)
        BY <2>1, <3>1, <1>7
      <4>2. r.term \in Terms(held, r.id) /\ s.term \in Terms(held, r.id)
        BY <2>1, <1>7 DEF Terms
      <4>3. IsFiniteSet(Terms(held, r.id))
        BY <1>3, TermsFinite
      <4> HIDE DEF held
      <4> QED
        BY <4>1, <4>2, <4>3, AtMostOne
    <3>2. CASE ask.term # NoTerm
      BY <2>1, <3>2, <1>7
    <3> QED
      BY <3>1, <3>2
  <2>3. r = [kind |-> r.kind, term |-> r.term, id |-> r.id] /\ s = [kind |-> s.kind, term |-> s.term, id |-> s.id]
    BY <1>2, <2>1 DEF RecordsOK
  <2> QED
    BY <2>2, <2>3, <1>7
<1>8. ASSUME NEW c \in Range(ask.crns), c \notin answer.ambiguous, c \notin answer.missing PROVE \E r \in gone : r.id = c
  <2>1. PICK r \in held : r.id = c /\ (out(r) \/ (named(r) /\ unclear(r)))
    <3> HIDE DEF out, named, unclear, held
    <3> QED
      BY <1>1, <1>8
  <2>2. ~(named(r) /\ unclear(r))
    <3> HIDE DEF out, named, unclear, held
    <3> QED
      BY <1>1, <1>8, <2>1
  <2>3. out(r) /\ r \in held
    BY <2>1, <2>2
  <2>4. r \in gone
    <3> HIDE DEF out, held
    <3> QED
      BY <2>3, <1>5
  <2> QED
    BY <2>1, <2>4
<1> QED
  BY <1>6, <1>7, <1>8 DEF gone, left

\* A list longer than another, the same as far as that one goes.
Extends(longer, s) == Len(s) <= Len(longer) /\ \A i \in 1..Len(s) : longer[i] = s[i]

LEMMA ExtendsIsPrefix ==
    ASSUME NEW X, NEW s \in Seq(X), NEW t \in Seq(X), Extends(t, s)
    PROVE  IsPrefix(s, t)
<1> DEFINE n == Len(s)
           u == SubSeq(s, 1, n)
           v == SubSeq(t, 1, n)
<1>1. n \in Nat /\ Len(t) \in Nat /\ n <= Len(t)
  BY DEF Extends
<1>2. \A i \in 1..n : s[i] \in X /\ t[i] \in X /\ t[i] = s[i]
  BY <1>1 DEF Extends
<1>3. u = [i \in 1..n |-> s[i]] /\ v = [i \in 1..n |-> t[i]]
  BY <1>1
<1>4. u = v
  BY <1>2, <1>3
<1> QED
  BY <1>1, <1>4 DEF IsPrefix

\* A list of X that goes on from another and holds nothing twice.
GoesOn(X, s, base) == s \in Seq(X) /\ Extends(s, base) /\ IsInjective(s)

\* Appending what it does not hold.
LEMMA GoesOnWith ==
    ASSUME NEW X, NEW base \in Seq(X), NEW s, GoesOn(X, s, base), NEW r \in X, r \notin Range(s)
    PROVE  GoesOn(X, Append(s, r), base) /\ Range(Append(s, r)) = Range(s) \cup {r}
<1> DEFINE n == Len(s)
           t == Append(s, r)
<1>0. s \in Seq(X) /\ Extends(s, base) /\ IsInjective(s)
  BY DEF GoesOn
<1>1. /\ t \in Seq(X) /\ Len(t) = n + 1 /\ t[n + 1] = r /\ \A i \in 1..n : t[i] = s[i]
      /\ n \in Nat /\ DOMAIN s = 1..n /\ DOMAIN t = 1..(n + 1)
  BY <1>0, AppendProperties, LenProperties
<1> HIDE DEF t
<1>2. /\ \A i \in 1..(n + 1) : i \in 1..n \/ i = n + 1
      /\ n + 1 \in 1..(n + 1) /\ (\A i \in 1..n : i \in 1..(n + 1) /\ i # n + 1)
      /\ Len(base) <= n /\ Len(base) \in Nat
  BY <1>0, <1>1 DEF Extends
<1>3. Extends(t, base)
  BY <1>0, <1>1, <1>2 DEF Extends
<1> HIDE DEF n
<1>4. \A i \in 1..n : t[i] # r
  BY <1>1 DEF Range
<1>5. IsInjective(t)
  <2> SUFFICES ASSUME NEW i \in 1..(n + 1), NEW j \in 1..(n + 1), t[i] = t[j] PROVE i = j
    BY <1>1 DEF IsInjective
  <2>1. CASE i \in 1..n /\ j \in 1..n
    BY <1>0, <1>1, <2>1 DEF IsInjective
  <2>2. CASE i = n + 1 \/ j = n + 1
    BY <1>1, <1>2, <1>4, <2>2
  <2> QED
    BY <1>2, <2>1, <2>2
<1>6. Range(t) = Range(s) \cup {r}
  <2>1. \A x : x \in Range(t) <=> \E i \in 1..(n + 1) : t[i] = x
    BY <1>1 DEF Range
  <2>2. \A x : x \in Range(s) <=> \E i \in 1..n : s[i] = x
    BY <1>1 DEF Range
  <2> QED
    BY <1>1, <1>2, <2>1, <2>2
<1> QED
  BY <1>1, <1>3, <1>5, <1>6 DEF GoesOn, t

\* What a CRN and a term offer, the record they make, and what one more CRN does to a schedule.
Offers(q, c) == {t \in Terms(q.sections, c) : q.term = NoTerm \/ t = q.term}
CrnRecord(t, c) == [kind |-> "crn", term |-> t, id |-> c]
UidRecord(u) == [kind |-> "ics", term |-> NoTerm, id |-> u]

WithCrn(q, schedule, c) ==
    LET new == {CrnRecord(t, c) : t \in Offers(q, c)}
    IN  IF Cardinality(new) = 1 /\ new \cap Range(schedule) = {}
        THEN Append(schedule, CHOOSE r \in new : TRUE) ELSE schedule
WithUid(schedule, u) == IF UidRecord(u) \in Range(schedule) THEN schedule ELSE Append(schedule, UidRecord(u))

\* A schedule the edit may have made of the one asked about.
Edited(q, X, schedule) ==
    /\ GoesOn(X, schedule, q.schedule)
    /\ \A r \in Range(schedule) \ Range(q.schedule) : r.kind = "crn" => Cardinality(Offers(q, r.id)) = 1

LEMMA WithCrnIs ==
    ASSUME NEW q, IsFiniteSet(q.sections), NEW X, q.schedule \in Seq(X), NEW schedule, Edited(q, X, schedule),
           NEW c, \A t \in Offers(q, c) : CrnRecord(t, c) \in X
    PROVE  Edited(q, X, WithCrn(q, schedule, c))
<1> DEFINE offers == Offers(q, c)
           new == {CrnRecord(t, c) : t \in offers}
<1>1. IsFiniteSet(offers)
  <2>1. IsFiniteSet(Terms(q.sections, c)) /\ offers \subseteq Terms(q.sections, c)
    BY TermsFinite DEF Offers
  <2> HIDE DEF offers
  <2> QED
    BY <2>1, FS_Subset
<1> HIDE DEF offers
<1>2. CASE Cardinality(new) = 1 /\ new \cap Range(schedule) = {}
  <2> DEFINE r == CHOOSE x \in new : TRUE
  <2>1. IsFiniteSet(new)
    <3> DEFINE f == [t \in offers |-> CrnRecord(t, c)]
    <3>1. new = {f[t] : t \in offers}
      OBVIOUS
    <3> HIDE DEF f, new
    <3> QED
      BY <1>1, <3>1, ImageFinite
  <2>2. PICK x : new = {x}
    <3> HIDE DEF new
    <3> QED
      BY <1>2, <2>1, FS_Singleton
  <2>3. r = x /\ x \in new
    <3> HIDE DEF new
    <3> QED
      BY <2>2
  <2>4. PICK t \in offers : x = CrnRecord(t, c)
    BY <2>3
  <2>5. offers = {t}
    <3>1. ASSUME NEW u \in offers PROVE u = t
      <4>1. CrnRecord(u, c) \in new
        BY <3>1
      <4>2. CrnRecord(u, c) = CrnRecord(t, c)
        <5> HIDE DEF new
        <5> QED
          BY <2>2, <2>4, <4>1
      <4>3. CrnRecord(u, c).term = u /\ CrnRecord(t, c).term = t
        BY DEF CrnRecord
      <4> QED
        BY <4>2, <4>3
    <3> QED
      BY <3>1, <2>4
  <2>6. Cardinality(Offers(q, c)) = 1
    <3>1. Offers(q, c) = {t}
      BY <2>5 DEF offers
    <3> QED
      BY <3>1, FS_Singleton
  <2>7. r \in X /\ r \notin Range(schedule) /\ r.id = c
    <3>1. r = CrnRecord(t, c)
      BY <2>3, <2>4
    <3>2. r \in new
      BY <2>3
    <3>3. r \notin Range(schedule)
      <4> HIDE DEF new, r
      <4> QED
        BY <3>2, <1>2
    <3>4. t \in Offers(q, c)
      BY <2>4 DEF offers
    <3> HIDE DEF r, new
    <3> QED
      BY <3>1, <3>3, <3>4 DEF CrnRecord
  <2>8. WithCrn(q, schedule, c) = Append(schedule, r)
    BY <1>2 DEF WithCrn, offers
  <2> HIDE DEF r, new
  <2> DEFINE after == WithCrn(q, schedule, c)
  <2> HIDE DEF after
  <2>9. GoesOn(X, after, q.schedule) /\ Range(after) = Range(schedule) \cup {r}
    <3>1. after = Append(schedule, r)
      BY <2>8 DEF after
    <3>2. GoesOn(X, schedule, q.schedule)
      BY DEF Edited
    <3>3. GoesOn(X, Append(schedule, r), q.schedule) /\ Range(Append(schedule, r)) = Range(schedule) \cup {r}
      BY <2>7, <3>2, GoesOnWith
    <3> QED
      BY <3>1, <3>3
  <2>10. \A s \in Range(after) \ Range(q.schedule) : s.kind = "crn" => Cardinality(Offers(q, s.id)) = 1
    BY <2>6, <2>7, <2>9 DEF Edited
  <2>11. Edited(q, X, after)
    BY <2>9, <2>10 DEF Edited
  <2> QED
    BY <2>11 DEF after
<1>3. CASE ~(Cardinality(new) = 1 /\ new \cap Range(schedule) = {})
  <2>1. WithCrn(q, schedule, c) = schedule
    BY <1>3 DEF WithCrn, offers
  <2> QED
    BY <2>1
<1> QED
  BY <1>2, <1>3

LEMMA WithUidIs ==
    ASSUME NEW q, NEW X, q.schedule \in Seq(X), NEW schedule, Edited(q, X, schedule), NEW u, UidRecord(u) \in X
    PROVE  Edited(q, X, WithUid(schedule, u))
<1>1. CASE UidRecord(u) \in Range(schedule)
  BY <1>1 DEF WithUid
<1>2. CASE UidRecord(u) \notin Range(schedule)
  <2> DEFINE r == UidRecord(u)
             after == Append(schedule, r)
  <2>1. WithUid(schedule, u) = after
    BY <1>2 DEF WithUid
  <2>2. r.kind # "crn" /\ r \in X /\ r \notin Range(schedule)
    BY <1>2 DEF UidRecord
  <2> HIDE DEF r
  <2>3. GoesOn(X, after, q.schedule) /\ Range(after) = Range(schedule) \cup {r}
    <3>1. GoesOn(X, schedule, q.schedule)
      BY DEF Edited
    <3>2. GoesOn(X, Append(schedule, r), q.schedule) /\ Range(Append(schedule, r)) = Range(schedule) \cup {r}
      BY <2>2, <3>1, GoesOnWith
    <3> QED
      BY <3>2
  <2> HIDE DEF after
  <2>4. \A s \in Range(after) \ Range(q.schedule) : s.kind = "crn" => Cardinality(Offers(q, s.id)) = 1
    BY <2>2, <2>3 DEF Edited
  <2> QED
    BY <2>1, <2>3, <2>4 DEF Edited
<1> QED
  BY <1>1, <1>2

\* An addition makes a schedule that keeps the one it was asked about.
LEMMA AdditionIs ==
    ASSUME NEW q, IsFiniteSet(q.sections), IsInjective(q.schedule), NEW Y, q.schedule \in Seq(Y),
           NEW Z, q.crns \in Seq(Z), q.uids \in Seq(Z),
           NEW X, X = Y \cup (UNION {{CrnRecord(t, c) : t \in Offers(q, c)} : c \in Z}) \cup {UidRecord(u) : u \in Z}
    PROVE  Edited(q, X, Addition(q).schedule)
<1> DEFINE n == Len(q.crns)
           k == Len(q.uids)
           A == {s \in Seq(X) : Edited(q, X, s)}
           G == [i \in 1..n |-> [s \in A |-> WithCrn(q, s, q.crns[i])]]
           H == [i \in 1..k |-> [s \in A |-> WithUid(s, q.uids[i])]]
           P(f) == f = [i \in 0..Len(q.crns) |-> IF i = 0 THEN q.schedule ELSE WithCrn(q, f[i - 1], q.crns[i])]
<1>1. /\ n \in Nat /\ \A i \in 1..n : q.crns[i] \in Z
      /\ k \in Nat /\ \A i \in 1..k : q.uids[i] \in Z
  OBVIOUS
<1>2. /\ Y \subseteq X /\ q.schedule \in Seq(X)
      /\ \A c \in Z : \A t \in Offers(q, c) : CrnRecord(t, c) \in X
      /\ \A u \in Z : UidRecord(u) \in X
  <2>1. Y \subseteq X
    OBVIOUS
  <2>2. q.schedule \in Seq(X)
    <3> HIDE DEF A
    <3> QED
      BY <2>1, SeqDef
  <2>3. \A c \in Z : \A t \in Offers(q, c) : CrnRecord(t, c) \in X
    OBVIOUS
  <2>4. \A u \in Z : UidRecord(u) \in X
    OBVIOUS
  <2> QED
    BY <2>1, <2>2, <2>3, <2>4
<1>3. q.schedule \in A
  <2>1. Extends(q.schedule, q.schedule)
    BY <1>2 DEF Extends
  <2> QED
    BY <1>2, <2>1 DEF Edited, GoesOn
<1>4. /\ \A i \in 1..n, s \in A : WithCrn(q, s, q.crns[i]) \in A
      /\ \A i \in 1..k, s \in A : WithUid(s, q.uids[i]) \in A
  <2>1. ASSUME NEW i \in 1..n, NEW s \in A PROVE WithCrn(q, s, q.crns[i]) \in A
    <3>1. Edited(q, X, s) /\ q.crns[i] \in Z
      BY <1>1
    <3>2. Edited(q, X, WithCrn(q, s, q.crns[i]))
      BY <3>1, <1>2, WithCrnIs
    <3> QED
      BY <3>2 DEF Edited, GoesOn
  <2>2. ASSUME NEW i \in 1..k, NEW s \in A PROVE WithUid(s, q.uids[i]) \in A
    <3>1. Edited(q, X, s) /\ q.uids[i] \in Z
      BY <1>1
    <3>2. Edited(q, X, WithUid(s, q.uids[i]))
      BY <3>1, <1>2, WithUidIs
    <3> QED
      BY <3>2 DEF Edited, GoesOn
  <2> QED
    BY <2>1, <2>2
<1> HIDE DEF A, n, k
<1>5. G \in [1..n -> [A -> A]] /\ H \in [1..k -> [A -> A]]
  BY <1>4
<1>6. \E f : P(f)
  <2>1. PICK f : Reading(f, n, A, q.schedule, G)
    <3> HIDE DEF G, P
    <3> QED
      BY <1>1, <1>3, <1>5, Readings
  <2>2. /\ f = [i \in 0..n |-> f[i]] /\ f[0] = q.schedule
        /\ \A i \in 0..n : i # 0 => i \in 1..n
    <3> HIDE DEF G
    <3> QED
      BY <2>1, <1>1 DEF Reading
  <2>3. ASSUME NEW i \in 1..n PROVE f[i] = WithCrn(q, f[i - 1], q.crns[i])
    <3>1. i - 1 \in 0..n
      BY <1>1
    <3>2. f[i - 1] \in A /\ f[i] = G[i][f[i - 1]]
      <4> HIDE DEF G
      <4> QED
        BY <3>1, <2>1 DEF Reading
    <3> QED
      BY <3>2
  <2>4. \A i \in 0..n : f[i] = IF i = 0 THEN q.schedule ELSE WithCrn(q, f[i - 1], q.crns[i])
    BY <2>2, <2>3
  <2> QED
    BY <2>2, <2>4 DEF n
<1> DEFINE crns == CHOOSE f : P(f)
<1>7. crns[n] \in A
  <2>1. P(crns)
    <3> HIDE DEF P
    <3> QED
      BY <1>6
  <2>2. \A i \in 0..n : i < n => i + 1 \in 1..n /\ i + 1 \in 0..n /\ (i + 1) - 1 = i /\ i + 1 # 0
    BY <1>1
  <2>3. 0 \in 0..n
    BY <1>1
  <2> HIDE DEF crns
  <2>4. crns[0] = q.schedule /\ \A i \in 0..n : i < n => crns[i + 1] = WithCrn(q, crns[i], q.crns[i + 1])
    BY <2>1, <2>2, <2>3 DEF n
  <2>5. crns[0] \in A /\ \A i \in 0..n : i < n /\ crns[i] \in A => crns[i + 1] \in A
    BY <2>2, <2>4, <1>3, <1>4
  <2> QED
    BY <2>5, <1>1, Kept
<1> DEFINE Q(f) == f = [i \in 0..Len(q.uids) |-> IF i = 0 THEN crns[Len(q.crns)] ELSE WithUid(f[i - 1], q.uids[i])]
           uids == CHOOSE f : Q(f)
<1>8. Addition(q).schedule = uids[Len(q.uids)]
  BY DEF Addition, WithCrn, WithUid, Offers, CrnRecord, UidRecord
<1> HIDE DEF crns, P
<1>9. \E f : Q(f)
  <2>1. PICK f : Reading(f, k, A, crns[n], H)
    <3> HIDE DEF H, Q
    <3> QED
      BY <1>1, <1>7, <1>5, Readings
  <2>2. /\ f = [i \in 0..k |-> f[i]] /\ f[0] = crns[n]
        /\ \A i \in 0..k : i # 0 => i \in 1..k
    <3> HIDE DEF H
    <3> QED
      BY <2>1, <1>1 DEF Reading
  <2>3. ASSUME NEW i \in 1..k PROVE f[i] = WithUid(f[i - 1], q.uids[i])
    <3>1. i - 1 \in 0..k
      BY <1>1
    <3>2. f[i - 1] \in A /\ f[i] = H[i][f[i - 1]]
      <4> HIDE DEF H
      <4> QED
        BY <3>1, <2>1 DEF Reading
    <3> QED
      BY <3>2
  <2>4. \A i \in 0..k : f[i] = IF i = 0 THEN crns[n] ELSE WithUid(f[i - 1], q.uids[i])
    BY <2>2, <2>3
  <2> QED
    BY <2>2, <2>4 DEF n, k
<1>10. uids[k] \in A
  <2>1. Q(uids)
    <3> HIDE DEF Q
    <3> QED
      BY <1>9
  <2>2. \A i \in 0..k : i < k => i + 1 \in 1..k /\ i + 1 \in 0..k /\ (i + 1) - 1 = i /\ i + 1 # 0
    BY <1>1
  <2>3. 0 \in 0..k
    BY <1>1
  <2> HIDE DEF uids
  <2>4. uids[0] = crns[n] /\ \A i \in 0..k : i < k => uids[i + 1] = WithUid(uids[i], q.uids[i + 1])
    BY <2>1, <2>2, <2>3 DEF n, k
  <2>5. uids[0] \in A /\ \A i \in 0..k : i < k /\ uids[i] \in A => uids[i + 1] \in A
    BY <2>2, <2>4, <1>7, <1>4
  <2> QED
    BY <2>5, <1>1, Kept
<1> HIDE DEF uids
<1> QED
  BY <1>8, <1>10 DEF A, k

\* An addition keeps what is there and adds what is not in doubt.
LEMMA AddReply ==
    ASSUME ClassesInv, Told("add")
    PROVE  /\ IsPrefix(ask.schedule, answer.schedule) /\ IsInjective(answer.schedule)
           /\ \A r \in Range(answer.schedule) \ Range(ask.schedule) : r.kind = "crn" =>
                  (ask.term = NoTerm => Cardinality(Terms(ask.sections, r.id)) = 1) /\ r.id \notin answer.ambiguous \cup answer.missing
<1> DEFINE Y == Range(ask.schedule)
           Z == Range(ask.crns) \cup Range(ask.uids)
           X == Y \cup (UNION {{CrnRecord(t, c) : t \in Offers(ask, c)} : c \in Z}) \cup {UidRecord(u) : u \in Z}
<1>1. /\ answer = Addition(ask) /\ IsInjective(ask.schedule) /\ IsFiniteSet(ask.sections)
      /\ ask.schedule \in Seq(Y) /\ ask.crns \in Seq(Z) /\ ask.uids \in Seq(Z)
  BY DEF ClassesInv, ClassesAsked, Told
<1>2. /\ answer.ambiguous = {c \in Range(ask.crns) : Cardinality(Offers(ask, c)) > 1}
      /\ answer.missing = {c \in Range(ask.crns) : Offers(ask, c) = {}}
  BY <1>1 DEF Addition, Offers
<1> HIDE DEF Y, Z
<1>3. Edited(ask, X, answer.schedule)
  BY <1>1, AdditionIs
<1>4. ask.schedule \in Seq(X)
  <2>1. Y \subseteq X
    OBVIOUS
  <2> HIDE DEF X
  <2> QED
    BY <1>1, <2>1, SeqDef
<1> HIDE DEF X
<1>5. IsPrefix(ask.schedule, answer.schedule) /\ IsInjective(answer.schedule)
  BY <1>3, <1>4, ExtendsIsPrefix DEF Edited, GoesOn
<1>6. ASSUME NEW r \in Range(answer.schedule) \ Range(ask.schedule), r.kind = "crn"
      PROVE  (ask.term = NoTerm => Cardinality(Terms(ask.sections, r.id)) = 1) /\ r.id \notin answer.ambiguous \cup answer.missing
  <2>1. Cardinality(Offers(ask, r.id)) = 1
    BY <1>3, <1>6 DEF Edited
  <2>2. Offers(ask, r.id) # {}
    BY <2>1, FS_EmptySet
  <2>3. ask.term = NoTerm => Offers(ask, r.id) = Terms(ask.sections, r.id)
    BY DEF Offers
  <2> QED
    BY <2>1, <2>2, <2>3, <1>2
<1> QED
  BY <1>5, <1>6

LEMMA EditReply == ClassesInv => ScheduleIsSafe
  BY AddReply, RemoveReply DEF ScheduleIsSafe

\* The captures as the search reads them, newest first.
NewestFirst(captures) == InOrder(captures, {p \in captures \X captures : p[1].at > p[2].at})

\* The row of the section at place p of capture c, and the rows it first shows.
RowAt(c, p) == [crn |-> c.sections[p].crn, at |-> c.at, place |-> p]
Shown(c, seen) == {p \in DOMAIN c.sections : c.sections[p].hit /\ c.sections[p].crn \notin seen}

\* Row r is of a capture no newer capture has the CRN of.
NewestRow(captures, r) ==
    \E c \in captures :
        /\ \E p \in DOMAIN c.sections : c.sections[p].hit /\ r = RowAt(c, p)
        /\ \A d \in captures : r.crn \in Crns(d) => d.at <= c.at

LEMMA OrderOf ==
    ASSUME NEW captures, CapturesOK(captures), NEW order, order = NewestFirst(captures), NEW n, n = Len(order)
    PROVE  /\ n \in Nat /\ order \in [1..n -> captures] /\ order \in Seq(captures)
           /\ \A i, j \in 1..n : i < j => order[i].at > order[j].at
           /\ \A c \in captures : \E i \in 1..n : order[i] = c
           /\ order = <<>> <=> captures = {}
<1> DEFINE R == {p \in captures \X captures : p[1].at > p[2].at}
<1>1. IsFiniteSet(captures) /\ (\A c, d \in captures : c.at = d.at => c = d) /\ \A c \in captures : c.at \in Int
  BY DEF CapturesOK
<1>2. \A c, d \in captures : <<c, d>> \in R <=> c.at > d.at
  OBVIOUS
<1>3. order = InOrder(captures, R)
  BY DEF NewestFirst
<1> HIDE DEF R
<1>4. StrictOrder(captures, R)
  <2>1. \A c \in captures : <<c, c>> \notin R
    BY <1>1, <1>2
  <2>2. \A b, c, d \in captures : <<b, c>> \in R /\ <<c, d>> \in R => <<b, d>> \in R
    <3> TAKE b, c, d \in captures
    <3>1. b.at \in Int /\ c.at \in Int /\ d.at \in Int
      BY <1>1
    <3>2. b.at > c.at /\ c.at > d.at => b.at > d.at
      BY <3>1
    <3> QED
      BY <3>2, <1>2
  <2>3. \A c, d \in captures : c # d => <<c, d>> \in R \/ <<d, c>> \in R
    <3> TAKE c, d \in captures
    <3>1. c.at \in Int /\ d.at \in Int /\ (c # d => c.at # d.at)
      BY <1>1
    <3>2. c # d => c.at > d.at \/ d.at > c.at
      BY <3>1
    <3> QED
      BY <3>2, <1>2
  <2> QED
    BY <2>1, <2>2, <2>3 DEF StrictOrder
<1> DEFINE N == Cardinality(captures)
<1>5. /\ order \in [1..N -> captures] /\ order \in Seq(captures) /\ Len(order) = N /\ N \in Nat
      /\ \A i, j \in 1..N : i < j => <<order[i], order[j]>> \in R
      /\ \A x \in captures : \E i \in 1..N : order[i] = x
  BY <1>1, <1>3, <1>4, InOrderOf
<1> HIDE DEF N
<1>6. \A i, j \in 1..N : i < j => order[i].at > order[j].at
  BY <1>2, <1>5
<1>7. order = <<>> <=> captures = {}
  <2>1. order = <<>> <=> N = 0
    BY <1>5, EmptySeq
  <2>2. N = 0 <=> captures = {}
    BY <1>1, FS_EmptySet DEF N
  <2> QED
    BY <2>1, <2>2
<1> QED
  BY <1>5, <1>6, <1>7

\* What one more capture adds.
LEMMA TakeNewIs ==
    ASSUME NEW c, NEW acc, IsFiniteSet(DOMAIN c.sections), IsFiniteSet(acc.rows)
    PROVE  /\ TakeNew(acc, c).seen = acc.seen \cup Crns(c) /\ IsFiniteSet(TakeNew(acc, c).rows)
           /\ TakeNew(acc, c).rows = acc.rows \cup {RowAt(c, p) : p \in Shown(c, acc.seen)}
<1> DEFINE shown == Shown(c, acc.seen)
           f == [p \in shown |-> RowAt(c, p)]
<1>1. /\ TakeNew(acc, c).seen = acc.seen \cup Crns(c)
      /\ TakeNew(acc, c).rows = acc.rows \cup {RowAt(c, p) : p \in shown}
  BY DEF TakeNew, Shown, RowAt
<1>2. IsFiniteSet(shown)
  <2>1. shown \subseteq DOMAIN c.sections
    BY DEF Shown
  <2> HIDE DEF shown
  <2> QED
    BY <2>1, FS_Subset
<1> HIDE DEF shown
<1>3. {RowAt(c, p) : p \in shown} = {f[p] : p \in shown}
  OBVIOUS
<1> HIDE DEF f
<1>4. IsFiniteSet({RowAt(c, p) : p \in shown})
  BY <1>2, <1>3, ImageFinite
<1>5. IsFiniteSet(acc.rows \cup {RowAt(c, p) : p \in shown})
  BY <1>4, FS_Union
<1> QED
  BY <1>1, <1>5 DEF shown

\* All of them together: every section that matches, of the newest capture that has it.
LEMMA HitsAre ==
    ASSUME NEW captures, CapturesOK(captures), NEW order, order = NewestFirst(captures),
           NEW read, read = CHOOSE f : f = [n \in 0..Len(order) |-> IF n = 0 THEN [seen |-> {}, rows |-> {}]
                                                                    ELSE TakeNew(f[n - 1], order[n])],
           NEW hits, hits = read[Len(order)].rows
    PROVE  IsFiniteSet(hits) /\ \A r : r \in hits <=> NewestRow(captures, r)
<1> DEFINE n == Len(order)
           base == [seen |-> {}, rows |-> {}]
           crnsOf == UNION {Crns(c) : c \in captures}
           rowsOf == UNION {{RowAt(c, p) : p \in DOMAIN c.sections} : c \in captures}
           X == [seen : SUBSET crnsOf, rows : {T \in SUBSET rowsOf : IsFiniteSet(T)}]
           R(f) == f = [i \in 0..Len(order) |-> IF i = 0 THEN [seen |-> {}, rows |-> {}] ELSE TakeNew(f[i - 1], order[i])]
           G == [i \in 1..n |-> [x \in X |-> TakeNew(x, order[i])]]
<1>1. /\ n \in Nat /\ order \in [1..n -> captures]
      /\ \A i, j \in 1..n : i < j => order[i].at > order[j].at
      /\ \A c \in captures : \E i \in 1..n : order[i] = c
  <2>1. n = Len(order)
    OBVIOUS
  <2> HIDE DEF n
  <2> QED
    BY <2>1, OrderOf
<1>2. \A c \in captures : c.at \in Int /\ IsFiniteSet(DOMAIN c.sections)
  BY DEF CapturesOK
<1>3. base \in X
  BY FS_EmptySet
<1>4. \A i \in 1..n, x \in X : TakeNew(x, order[i]) \in X
  <2> SUFFICES ASSUME NEW c \in captures, NEW x \in X PROVE TakeNew(x, c) \in X
    BY <1>1
  <2>1. TakeNew(x, c) = [seen |-> TakeNew(x, c).seen, rows |-> TakeNew(x, c).rows]
    BY DEF TakeNew
  <2>2. x.seen \subseteq crnsOf /\ x.rows \subseteq rowsOf /\ IsFiniteSet(x.rows)
    OBVIOUS
  <2>3. /\ TakeNew(x, c).seen = x.seen \cup Crns(c) /\ IsFiniteSet(TakeNew(x, c).rows)
        /\ TakeNew(x, c).rows = x.rows \cup {RowAt(c, p) : p \in Shown(c, x.seen)}
    BY <1>2, <2>2, TakeNewIs
  <2>4. Crns(c) \subseteq crnsOf /\ {RowAt(c, p) : p \in Shown(c, x.seen)} \subseteq rowsOf
    <3>1. Crns(c) \subseteq crnsOf
      OBVIOUS
    <3>2. {RowAt(c, p) : p \in Shown(c, x.seen)} \subseteq {RowAt(c, p) : p \in DOMAIN c.sections}
      BY DEF Shown
    <3> QED
      BY <3>1, <3>2
  <2> HIDE DEF crnsOf, rowsOf
  <2> QED
    BY <2>1, <2>2, <2>3, <2>4
<1> HIDE DEF X, n
<1>5. \E f : R(f)
  <2>1. G \in [1..n -> [X -> X]]
    BY <1>4
  <2>2. PICK f : Reading(f, n, X, base, G)
    <3> HIDE DEF G, base
    <3> QED
      BY <1>1, <2>1, <1>3, Readings
  <2>3. /\ f = [i \in 0..n |-> f[i]] /\ f[0] = base
        /\ \A i \in 0..n : i # 0 => i \in 1..n
    <3> HIDE DEF G, base
    <3> QED
      BY <2>2, <1>1 DEF Reading
  <2>4. ASSUME NEW i \in 1..n PROVE f[i] = TakeNew(f[i - 1], order[i])
    <3>1. i - 1 \in 0..n
      BY <1>1
    <3>2. f[i - 1] \in X /\ f[i] = G[i][f[i - 1]]
      <4> HIDE DEF G, base
      <4> QED
        BY <3>1, <2>2 DEF Reading
    <3> QED
      BY <3>2
  <2>5. \A i \in 0..n : f[i] = IF i = 0 THEN base ELSE TakeNew(f[i - 1], order[i])
    BY <2>3, <2>4
  <2> QED
    BY <2>3, <2>5 DEF n
<1>6. R(read)
  <2>1. read = CHOOSE f : R(f)
    OBVIOUS
  <2> HIDE DEF R
  <2> QED
    BY <1>5, <2>1
<1>7. \A i \in 0..n : i < n => i + 1 \in 1..n /\ i + 1 \in 0..n /\ (i + 1) - 1 = i /\ i + 1 # 0
  BY <1>1
<1>8. read[0] = base /\ \A i \in 0..n : i < n => read[i + 1] = TakeNew(read[i], order[i + 1])
  <2>1. 0 \in 0..n
    BY <1>1
  <2> HIDE DEF base
  <2> QED
    BY <1>6, <1>7, <2>1 DEF n, base
<1> HIDE DEF R, G
\* Row r is one the capture at place i was the first to have.
<1> DEFINE newAt(i, r) == /\ \E p \in DOMAIN order[i].sections : order[i].sections[p].hit /\ r = RowAt(order[i], p)
                          /\ \A j \in 1..(i - 1) : r.crn \notin Crns(order[j])
           ok(k) == /\ IsFiniteSet(read[k].rows)
                    /\ \A crn : crn \in read[k].seen <=> \E i \in 1..k : crn \in Crns(order[i])
                    /\ \A r : r \in read[k].rows <=> \E i \in 1..k : newAt(i, r)
           S == {k \in 0..n : ok(k)}
<1>9. 0 \in S
  <2>1. base.rows = {} /\ base.seen = {}
    OBVIOUS
  <2>2. 0 \in 0..n /\ \A i \in 1..0 : FALSE
    BY <1>1
  <2> HIDE DEF newAt, base
  <2>3. read[0].rows = {} /\ read[0].seen = {} /\ IsFiniteSet(read[0].rows)
    BY <1>8, <2>1, FS_EmptySet
  <2>4. ok(0)
    BY <2>2, <2>3
  <2> HIDE DEF ok
  <2> QED
    BY <2>2, <2>4
<1>10. ASSUME NEW k \in 0..n, k < n, k \in S PROVE k + 1 \in S
  <2> DEFINE c == order[k + 1]
  <2>1. ok(k) /\ c \in captures /\ IsFiniteSet(DOMAIN c.sections) /\ read[k + 1] = TakeNew(read[k], c) /\ k + 1 \in 1..n
    <3>1. k + 1 \in 1..n /\ ok(k)
      BY <1>7, <1>10
    <3> HIDE DEF ok
    <3> QED
      BY <3>1, <1>1, <1>2, <1>8, <1>10
  <2>2. /\ read[k + 1].seen = read[k].seen \cup Crns(c) /\ IsFiniteSet(read[k + 1].rows)
        /\ read[k + 1].rows = read[k].rows \cup {RowAt(c, p) : p \in Shown(c, read[k].seen)}
    <3> DEFINE acc == read[k]
    <3>1. IsFiniteSet(acc.rows) /\ IsFiniteSet(DOMAIN c.sections) /\ read[k + 1] = TakeNew(acc, c)
      BY <2>1
    <3> HIDE DEF c, acc
    <3>2. /\ read[k + 1].seen = acc.seen \cup Crns(c) /\ IsFiniteSet(read[k + 1].rows)
          /\ read[k + 1].rows = acc.rows \cup {RowAt(c, p) : p \in Shown(c, acc.seen)}
      BY <3>1, TakeNewIs
    <3> QED
      BY <3>2 DEF acc
  <2>3. /\ \A i \in 1..(k + 1) : i \in 1..k \/ i = k + 1
        /\ k + 1 \in 1..(k + 1) /\ (\A i \in 1..k : i \in 1..(k + 1)) /\ (k + 1) - 1 = k
    BY <1>7, <1>10
  <2>4. \A crn : crn \in read[k + 1].seen <=> \E i \in 1..(k + 1) : crn \in Crns(order[i])
    BY <2>1, <2>2, <2>3
  <2>5. ASSUME NEW r PROVE newAt(k + 1, r) <=> r \in {RowAt(c, p) : p \in Shown(c, read[k].seen)}
    <3>1. newAt(k + 1, r) <=> /\ \E p \in DOMAIN c.sections : c.sections[p].hit /\ r = RowAt(c, p)
                              /\ r.crn \notin read[k].seen
      BY <2>1, <2>3
    <3> HIDE DEF newAt, c, ok
    <3>2. \A p : RowAt(c, p).crn = c.sections[p].crn
      BY DEF RowAt
    <3> QED
      BY <3>1, <3>2 DEF Shown
  <2>6. \A r : r \in read[k + 1].rows <=> \E i \in 1..(k + 1) : newAt(i, r)
    <3> HIDE DEF newAt, c
    <3> TAKE r
    <3>1. r \in read[k].rows <=> \E i \in 1..k : newAt(i, r)
      BY <2>1
    <3>2. r \in read[k + 1].rows <=> r \in read[k].rows \/ newAt(k + 1, r)
      BY <2>2, <2>5
    <3> QED
      BY <3>1, <3>2, <2>3
  <2> HIDE DEF newAt
  <2>7. ok(k + 1)
    BY <2>2, <2>4, <2>6
  <2> QED
    BY <2>7, <1>7, <1>10
<1>11. ok(n)
  <2>1. n \in 0..n
    BY <1>1
  <2> HIDE DEF S
  <2>2. n \in S
    BY <2>1, <1>1, <1>9, <1>10, Reached
  <2> QED
    BY <2>2 DEF S
<1>12. ASSUME NEW r PROVE (\E i \in 1..n : newAt(i, r)) <=> NewestRow(captures, r)
  <2>1. ASSUME NEW i \in 1..n, newAt(i, r) PROVE NewestRow(captures, r)
    <3> DEFINE c == order[i]
    <3>1. c \in captures
      BY <1>1
    <3>2. ASSUME NEW d \in captures, r.crn \in Crns(d) PROVE d.at <= c.at
      <4>1. PICK j \in 1..n : order[j] = d
        BY <1>1
      <4>2. ~(j \in 1..(i - 1))
        BY <2>1, <3>2, <4>1
      <4>3. i = j \/ i < j
        BY <4>2, <1>1
      <4>4. i = j \/ c.at > d.at
        BY <4>1, <4>3, <1>1
      <4>5. c.at \in Int /\ d.at \in Int
        BY <3>1, <1>2
      <4> QED
        BY <4>1, <4>4, <4>5
    <3>3. \E p \in DOMAIN c.sections : c.sections[p].hit /\ r = RowAt(c, p)
      BY <2>1
    <3> HIDE DEF c
    <3> QED
      BY <3>1, <3>2, <3>3 DEF NewestRow
  <2>2. ASSUME NewestRow(captures, r) PROVE \E i \in 1..n : newAt(i, r)
    <3>1. PICK c \in captures : /\ \E p \in DOMAIN c.sections : c.sections[p].hit /\ r = RowAt(c, p)
                                /\ \A d \in captures : r.crn \in Crns(d) => d.at <= c.at
      BY <2>2 DEF NewestRow
    <3>2. PICK i \in 1..n : order[i] = c
      BY <1>1
    <3>3. ASSUME NEW j \in 1..(i - 1), r.crn \in Crns(order[j]) PROVE FALSE
      <4>1. j \in 1..n /\ j < i
        BY <1>1
      <4>2. order[j].at > c.at /\ order[j] \in captures
        BY <4>1, <3>2, <1>1
      <4>3. order[j].at <= c.at /\ order[j].at \in Int /\ c.at \in Int
        BY <4>2, <3>1, <3>3, <1>2
      <4> QED
        BY <4>2, <4>3
    <3>4. newAt(i, r)
      BY <3>1, <3>2, <3>3
    <3> HIDE DEF newAt
    <3> QED
      BY <3>4
  <2> HIDE DEF newAt
  <2> QED
    BY <2>1, <2>2
<1> HIDE DEF newAt
<1> QED
  BY <1>11, <1>12 DEF n

\* Rows of the newest copies: one for each CRN, every one of them if there are not too many.
LEMMA NewestCopyReply == ClassesInv => NewestCopyCounts
<1> SUFFICES ASSUME ClassesInv, Told("classes") PROVE NewestCopyCounts
  <2>1. ~Told("classes") => NewestCopyCounts
    BY DEF NewestCopyCounts
  <2> QED
    BY <2>1
<1> DEFINE captures == Captures(ask)
           order == NewestFirst(captures)
           read == CHOOSE f : f = [n \in 0..Len(order) |-> IF n = 0 THEN [seen |-> {}, rows |-> {}]
                                                           ELSE TakeNew(f[n - 1], order[n])]
           hits == read[Len(order)].rows
           before(r) == {x \in hits : Precedes(x, r)}
<1>1. CapturesOK(captures) /\ answer = SearchCaptures(ask)
  BY DEF ClassesInv, ClassesAsked, Told
<1>2. /\ order = <<>> => answer.rows = {} /\ answer.state = "unavailable"
      /\ order # <<>> => /\ answer.rows = {r \in hits : Cardinality(before(r)) < SearchLimit}
                         /\ answer.truncated <=> Cardinality(hits) > SearchLimit
                         /\ answer.state # "unavailable"
  BY <1>1 DEF SearchCaptures, NewestFirst
<1>3. IsFiniteSet(hits) /\ (\A r : r \in hits <=> NewestRow(captures, r)) /\ (order = <<>> <=> captures = {})
  <2> HIDE DEF captures
  <2>1. order = <<>> <=> captures = {}
    <3>1. order = NewestFirst(captures) /\ Len(order) = Len(order)
      OBVIOUS
    <3> HIDE DEF order
    <3> QED
      BY <1>1, <3>1, OrderOf
  <2>2. IsFiniteSet(hits) /\ \A r : r \in hits <=> NewestRow(captures, r)
    BY <1>1, HitsAre
  <2> QED
    BY <2>1, <2>2
<1>4. \A c \in captures : /\ c.at \in Int /\ DOMAIN c.sections \subseteq Nat
                          /\ \A i, j \in DOMAIN c.sections : c.sections[i].crn = c.sections[j].crn => i = j
                          /\ \A d \in captures : c.at = d.at => c = d
  BY <1>1 DEF CapturesOK
<1> DEFINE having(s)    == {d \in captures : s.crn \in Crns(d)}
           newest(c, s) == \A d \in having(s) : d.term = c.term => d.at <= c.at
           hidden(c, s) == ask.term = NoTerm /\ \E d \in having(s) : d.term # c.term /\ d.at > c.at
           shows(c) == {s \in Range(c.sections) : s.hit /\ newest(c, s) /\ ~hidden(c, s)}
           right == UNION {{[crn |-> s.crn, at |-> c.at] : s \in shows(c)} : c \in captures}
           listed == {[crn |-> r.crn, at |-> r.at] : r \in answer.rows}
\* Of a search that names a term all captures are of the term.
<1>14. ask.term # NoTerm => \A c, d \in captures : c.term = d.term
  BY DEF Captures
<1> HIDE DEF captures, order, read, hits, before
<1>15. ASSUME NEW c \in captures, NEW s \in Range(c.sections)
       PROVE  s \in shows(c) <=> s.hit /\ \A d \in captures : s.crn \in Crns(d) => d.at <= c.at
  <2>1. \A d \in captures : d.at \in Int /\ c.at \in Int
    BY <1>4
  <2> QED
    BY <2>1, <1>14
<1>5. \A m : m \in right <=> \E c \in captures : \E s \in shows(c) : m = [crn |-> s.crn, at |-> c.at]
  <2> HIDE DEF shows
  <2> QED
    OBVIOUS
<1> HIDE DEF shows, right
\* What a row is of.
<1>6. ASSUME NEW r \in hits
      PROVE  \E c \in captures : /\ r.at = c.at /\ r.crn \in Crns(c) /\ \A d \in captures : r.crn \in Crns(d) => d.at <= c.at
                                 /\ \E p \in DOMAIN c.sections : c.sections[p].hit /\ r = RowAt(c, p) /\ r.crn = c.sections[p].crn
  <2>1. PICK c \in captures : /\ \E p \in DOMAIN c.sections : c.sections[p].hit /\ r = RowAt(c, p)
                              /\ \A d \in captures : r.crn \in Crns(d) => d.at <= c.at
    BY <1>3 DEF NewestRow
  <2>2. PICK p \in DOMAIN c.sections : c.sections[p].hit /\ r = RowAt(c, p)
    BY <2>1
  <2>3. r.crn = c.sections[p].crn /\ r.at = c.at
    BY <2>2 DEF RowAt
  <2>4. r.crn \in Crns(c)
    BY <2>3 DEF Crns, Range
  <2> QED
    BY <2>1, <2>2, <2>3, <2>4
<1>7. ASSUME NEW r \in hits, NEW s \in hits, r.crn = s.crn PROVE r = s
  <2>1. PICK c \in captures : /\ r.crn \in Crns(c) /\ \A d \in captures : r.crn \in Crns(d) => d.at <= c.at
                              /\ \E p \in DOMAIN c.sections : r = RowAt(c, p) /\ r.crn = c.sections[p].crn
    BY <1>6
  <2>2. PICK d \in captures : /\ s.crn \in Crns(d) /\ \A e \in captures : s.crn \in Crns(e) => e.at <= d.at
                              /\ \E p \in DOMAIN d.sections : s = RowAt(d, p) /\ s.crn = d.sections[p].crn
    BY <1>6
  <2>3. c = d
    <3>1. d.at <= c.at /\ c.at <= d.at
      BY <2>1, <2>2, <1>7
    <3> QED
      BY <3>1, <1>4
  <2>4. PICK p \in DOMAIN c.sections : r = RowAt(c, p) /\ r.crn = c.sections[p].crn
    BY <2>1
  <2>5. PICK q \in DOMAIN c.sections : s = RowAt(c, q) /\ s.crn = c.sections[q].crn
    BY <2>2, <2>3
  <2>6. p = q
    BY <2>4, <2>5, <1>4, <1>7
  <2> QED
    BY <2>4, <2>5, <2>6
<1>8. ASSUME NEW r \in hits PROVE [crn |-> r.crn, at |-> r.at] \in right
  <2>1. PICK c \in captures : /\ r.at = c.at /\ \A d \in captures : r.crn \in Crns(d) => d.at <= c.at
                              /\ \E p \in DOMAIN c.sections : c.sections[p].hit /\ r.crn = c.sections[p].crn
    BY <1>6
  <2>2. PICK p \in DOMAIN c.sections : c.sections[p].hit /\ r.crn = c.sections[p].crn
    BY <2>1
  <2>3. c.sections[p] \in shows(c)
    <3>1. c.sections[p] \in Range(c.sections)
      BY DEF Range
    <3> QED
      BY <2>1, <2>2, <3>1, <1>15
  <2>4. \E s \in shows(c) : s.crn = r.crn /\ c.at = r.at
    BY <2>1, <2>2, <2>3
  <2> QED
    BY <2>4, <1>5
<1>9. ASSUME NEW m \in right PROVE \E r \in hits : m = [crn |-> r.crn, at |-> r.at]
  <2>1. PICK c \in captures : \E s \in shows(c) : m = [crn |-> s.crn, at |-> c.at]
    BY <1>5
  <2>2. PICK s \in shows(c) : m = [crn |-> s.crn, at |-> c.at]
    BY <2>1
  <2>7. s \in Range(c.sections)
    BY DEF shows
  <2>3. PICK p \in DOMAIN c.sections : c.sections[p] = s
    BY <2>7 DEF Range
  <2> DEFINE r == RowAt(c, p)
  <2>4. r.crn = s.crn /\ r.at = c.at
    BY <2>3 DEF RowAt
  <2> HIDE DEF r
  <2>5. c.sections[p].hit /\ \A d \in captures : r.crn \in Crns(d) => d.at <= c.at
    BY <2>3, <2>4, <2>7, <1>15
  <2>6. r \in hits
    BY <2>5, <1>3 DEF NewestRow, r
  <2> QED
    BY <2>2, <2>4, <2>6
\* Every row has fewer before it than there are.
<1>10. ASSUME Cardinality(hits) <= SearchLimit, NEW r \in hits PROVE Cardinality(before(r)) < SearchLimit
  <2>1. r.at \in Int /\ r.place \in Int
    <3>1. PICK c \in captures : \E p \in DOMAIN c.sections : r = RowAt(c, p)
      BY <1>6
    <3> QED
      BY <3>1, <1>4 DEF RowAt
  <2>2. r \notin before(r) /\ before(r) \subseteq hits
    BY <2>1 DEF before, Precedes
  <2>3. /\ IsFiniteSet(before(r)) /\ Cardinality(before(r)) <= Cardinality(hits)
        /\ Cardinality(before(r)) = Cardinality(hits) => before(r) = hits
    BY <1>3, <2>2, FS_Subset
  <2>4. Cardinality(before(r)) \in Nat /\ Cardinality(hits) \in Nat /\ SearchLimit \in Nat
    BY <1>3, <2>3, FS_CardinalityType, ClassesAssumption
  <2> QED
    BY <2>2, <2>3, <2>4, <1>10
<1>11. listed \subseteq right /\ \A r, s \in answer.rows : r.crn = s.crn => r = s
  <2>1. answer.rows \subseteq hits
    BY <1>2
  <2> QED
    BY <2>1, <1>7, <1>8
<1>12. answer.truncated \/ listed = right
  <2>1. CASE order = <<>>
    <3>1. right = {}
      BY <1>3, <1>5, <2>1
    <3> QED
      BY <3>1, <1>11
  <2>2. CASE order # <<>> /\ ~answer.truncated
    <3>1. Cardinality(hits) <= SearchLimit
      <4>1. Cardinality(hits) \in Nat /\ SearchLimit \in Nat
        BY <1>3, FS_CardinalityType, ClassesAssumption
      <4> QED
        BY <4>1, <1>2, <2>2
    <3>2. answer.rows = hits
      BY <1>2, <1>10, <2>2, <3>1
    <3> QED
      BY <3>2, <1>9, <1>11
  <2> QED
    BY <2>1, <2>2
<1>13. answer.state = "unavailable" <=> captures = {}
  BY <1>2, <1>3
<1> QED
  BY <1>11, <1>12, <1>13 DEF NewestCopyCounts, captures, right, shows, newest, hidden, having

LEMMA ClassesStep == ClassesInv /\ [ClassesNext]_lookupVars => ClassesInv'
<1> SUFFICES ASSUME ClassesInv, [ClassesNext]_lookupVars PROVE ClassesInv'
  OBVIOUS
<1>1. CASE UNCHANGED lookupVars
  BY <1>1 DEF ClassesInv, ClassesAsked, Told, lookupVars
<1>2. CASE ClassesNext
  <2>1. ask' = ask
    BY <1>2 DEF ClassesNext, ReadTable, FindClasses, AddToSchedule, RemoveFromSchedule, PreviewImport, AskNextClass, Reply
  <2>2. ClassesAsked'
    BY <2>1 DEF ClassesInv, ClassesAsked
  <2>3. /\ Told("table")' => answer' = ParseTable(ask'.rows)
        /\ Told("classes")' => answer' = SearchCaptures(ask')
        /\ Told("add")' => answer' = Addition(ask')
        /\ Told("remove")' => answer' = Removal(ask')
        /\ Told("preview")' => answer' = Preview(ask')
        /\ Told("next class")' => answer' = NextClass(ask')
    BY <1>2, <2>1 DEF ClassesNext, ReadTable, FindClasses, AddToSchedule, RemoveFromSchedule, PreviewImport, AskNextClass, Reply, Told
  <2> QED
    BY <2>2, <2>3 DEF ClassesInv
<1> QED
  BY <1>1, <1>2

(* What is said of a student's classes is so, whatever the timetable, the  *)
(* captures and the calendars hold (classes.py:757-1561, 2577-2632).       *)
THEOREM Catalogue == ClassesSpec => []ClassesKeepTheirWord
<1>1. answer = NoAnswer /\ ClassesAsked => ClassesInv
  BY DEF ClassesInv, Told
<1>2. ClassesInv => ClassesKeepTheirWord
  <2> SUFFICES ASSUME ClassesInv PROVE ClassesKeepTheirWord
    OBVIOUS
  <2>1. NewestCopyCounts
    BY NewestCopyReply
  <2>2. ScheduleIsSafe
    BY EditReply
  <2>3. PreviewIsHonest
    BY PreviewReply
  <2>4. NextIsNext
    BY NextClassReply
  <2>5. SectionIsItsRows
    BY TableReply
  <2> QED
    BY <2>1, <2>2, <2>3, <2>4, <2>5 DEF ClassesKeepTheirWord
<1> QED
  BY <1>1, <1>2, ClassesStep, PTL DEF ClassesSpec
=============================================================================
