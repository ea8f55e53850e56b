---------------------------- MODULE SignIn_proofs ----------------------------
(***************************************************************************)
(* Theorems of the two ways in, for any students, windows, hosts, flows,   *)
(* sessions and times.  RateLimit: the sign-in throttle.  LocalAccounts:   *)
(* the register its transactions implement.  GoogleSignIn: the flow comes      *)
(* back; its invariant ties the three places a flow is known in, the       *)
(* cookie of the host it left from, the flow itself and the history.       *)
(***************************************************************************)
EXTENDS LocalAccounts, GoogleSignIn, RateLimit, FiniteSetTheorems, NaturalsInduction, WellFoundedInduction, TLAPS

-----------------------------------------------------------------------------
(* RateLimit.                                                              *)
\* A thread that waits for the lock read the clock at most Lag ago.
ReadingsAreLate ==
    /\ clock \in Nat
    /\ \A t \in DOMAIN reading : reading[t] \in Nat /\ reading[t] <= clock /\ clock <= reading[t] + Lag

\* The queue of a client is the end of all it tried, and what the queue no
\* longer holds is too old to count, by any clock.
QueueIsTheRecent(c) ==
    /\ tried[c] \in Seq(Nat) /\ attempts[c] \in Seq(Nat)
    /\ Len(attempts[c]) <= Len(tried[c]) /\ Len(attempts[c]) <= MaxAttempts
    /\ \A i \in 1..Len(tried[c]) : tried[c][i] <= clock
    /\ \A i \in 1..(Len(tried[c]) - Len(attempts[c])) : tried[c][i] < clock - AttemptSpan
    /\ \A i \in 1..Len(attempts[c]) : attempts[c][i] = tried[c][Len(tried[c]) - Len(attempts[c]) + i]

ThrottleInv ==
    /\ DOMAIN attempts = Clients /\ DOMAIN tried = Clients
    /\ ReadingsAreLate
    /\ \A c \in Clients : QueueIsTheRecent(c)
    /\ ThrottleHolds
-----------------------------------------------------------------------------
\* Which stamps of any history lie between two instants; and those from an
\* instant on, which lie in the queue when what has left it is older.
Between(made, start, end) == {i \in DOMAIN made : start <= made[i] /\ made[i] <= end}

LEMMA BetweenFinite ==
    ASSUME NEW made \in Seq(Nat), NEW start \in Int, NEW end \in Int
    PROVE  IsFiniteSet(Between(made, start, end)) /\ Cardinality(Between(made, start, end)) \in Nat
<1>1. DOMAIN made = 1..Len(made) /\ Len(made) \in Nat
  OBVIOUS
<1>2. IsFiniteSet(1..Len(made))
  BY <1>1, FS_Interval
<1>3. IsFiniteSet(Between(made, start, end))
  BY <1>1, <1>2, FS_Subset DEF Between
<1> QED
  BY <1>3, FS_CardinalityType

LEMMA BetweenInQueue ==
    ASSUME NEW made \in Seq(Nat), NEW start \in Int, NEW end \in Int, NEW k \in Nat, k <= Len(made),
           \A i \in 1..(Len(made) - k) : made[i] < start
    PROVE  Cardinality(Between(made, start, end)) <= k
<1> DEFINE n == Len(made)
<1>1. n \in Nat /\ DOMAIN made = 1..n
  OBVIOUS
<1>2. Between(made, start, end) \subseteq (n - k + 1)..n
  <2> SUFFICES ASSUME NEW i \in 1..n, start <= made[i] PROVE i \in (n - k + 1)..n
    BY <1>1 DEF Between
  <2>1. i \notin 1..(n - k) /\ made[i] \in Nat
    BY <1>1
  <2> QED
    BY <1>1, <2>1
<1>3. IsFiniteSet((n - k + 1)..n) /\ Cardinality((n - k + 1)..n) = k
  <2>1. n - k + 1 \in Int /\ n \in Int
    BY <1>1
  <2>2. /\ IsFiniteSet((n - k + 1)..n)
        /\ Cardinality((n - k + 1)..n) = IF n - k + 1 > n THEN 0 ELSE n - (n - k + 1) + 1
    BY ONLY <2>1, FS_Interval
  <2> QED
    BY <1>1, <2>2
<1> QED
  BY <1>2, <1>3, FS_Subset

LEMMA StretchIsBetween ==
    ASSUME NEW c \in Clients, NEW end
    PROVE  Stretch(c, end) = Between(tried[c], end - (AttemptSpan - Lag), end)
  BY DEF Stretch, Between

LEMMA SmallestOf ==
    ASSUME NEW S, S \subseteq Nat, S # {}
    PROVE  \E x \in S : \A y \in S : x <= y
<1>1. PICK x \in S : \A y \in S : <<y, x>> \notin OpToRel(<, Nat)
  BY NatLessThanWellFounded, WFMin
<1>2. \A y \in S : ~(y < x)
  BY <1>1 DEF OpToRel
<1> QED
  BY <1>2

\* What the popleft loop leaves of a queue: its end, without expired stamps only.
LEMMA PrunedLeaves ==
    ASSUME NEW queue \in Seq(Nat), NEW now \in Nat
    PROVE  \E n \in 0..Len(queue) : /\ Pruned(queue, now) = SubSeq(queue, n + 1, Len(queue))
                                    /\ \A i \in 1..n : queue[i] < now - AttemptSpan
<1> DEFINE gone == {n \in 0..Len(queue) : \A i \in 1..n : Expired(queue[i], now)}
           n == CHOOSE n \in gone : \A m \in gone : m <= n
<1>1. 0 \in gone /\ gone \subseteq 0..Len(queue) /\ Len(queue) \in Nat
  OBVIOUS
<1>2. \E x \in gone : \A m \in gone : m <= x
  <2> DEFINE left == {d \in Nat : Len(queue) - d \in gone}
  <2>1. Len(queue) \in left /\ left \subseteq Nat
    BY <1>1
  <2>2. PICK least \in left : \A d \in left : least <= d
    BY <2>1, SmallestOf
  <2>3. ASSUME NEW m \in gone PROVE m <= Len(queue) - least
    <3>1. Len(queue) - m \in left /\ m \in Nat
      BY <1>1
    <3>2. least <= Len(queue) - m /\ least \in Nat
      BY <2>2, <3>1
    <3> QED
      BY <1>1, <3>1, <3>2
  <2> QED
    BY <2>2, <2>3
<1>3. n \in gone
  BY <1>2
<1> HIDE DEF n
<1>4. Pruned(queue, now) = SubSeq(queue, n + 1, Len(queue))
  BY DEF Pruned, n
<1> QED
  BY <1>3, <1>4 DEF Expired

\* Pruning any queue, with a reading that may be old, keeps the invariant of it.
LEMMA PrunedIsTheRecent ==
    ASSUME NEW made \in Seq(Nat), NEW queue \in Seq(Nat), Len(queue) <= Len(made),
           NEW now \in Nat, NEW present \in Nat, now <= present,
           \A i \in 1..(Len(made) - Len(queue)) : made[i] < present - AttemptSpan,
           \A i \in 1..Len(queue) : queue[i] = made[Len(made) - Len(queue) + i]
    PROVE  LET kept == Pruned(queue, now)
           IN  /\ kept \in Seq(Nat) /\ Len(kept) <= Len(queue)
               /\ \A i \in 1..(Len(made) - Len(kept)) : made[i] < present - AttemptSpan
               /\ \A i \in 1..Len(kept) : kept[i] = made[Len(made) - Len(kept) + i]
<1>1. PICK n \in 0..Len(queue) : /\ Pruned(queue, now) = SubSeq(queue, n + 1, Len(queue))
                                 /\ \A i \in 1..n : queue[i] < now - AttemptSpan
  BY PrunedLeaves
<1>7. \A i \in 1..Len(made) : made[i] \in Nat
  OBVIOUS
<1> DEFINE kept == Pruned(queue, now)
<1>2. /\ kept \in Seq(Nat) /\ Len(kept) = Len(queue) - n
      /\ \A i \in 1..Len(kept) : kept[i] = queue[n + i]
  <2> DEFINE rest == SubSeq(queue, n + 1, Len(queue))
  <2>1. rest \in Seq(Nat) /\ Len(rest) = Len(queue) - n /\ \A i \in 1..Len(rest) : rest[i] = queue[n + i]
    OBVIOUS
  <2> QED
    BY <1>1, <2>1, Zenon
<1>3. Len(queue) \in Nat /\ Len(made) \in Nat /\ AttemptSpan \in Nat /\ n \in Nat
  BY ThrottleAssumption
<1> HIDE DEF kept
<1>4. ASSUME NEW i \in 1..Len(kept) PROVE kept[i] = made[Len(made) - Len(kept) + i]
  <2>1. n + i \in 1..Len(queue)
    BY <1>2, <1>3
  <2>2. queue[n + i] = made[Len(made) - Len(queue) + (n + i)]
    BY <2>1
  <2>3. Len(made) - Len(queue) + (n + i) = Len(made) - Len(kept) + i
    BY <1>2, <1>3
  <2> QED
    BY <1>2, <2>2, <2>3
<1>5. ASSUME NEW i \in 1..(Len(made) - Len(kept)) PROVE made[i] < present - AttemptSpan
  <2>1. CASE i <= Len(made) - Len(queue)
    BY <1>3, <2>1
  <2>2. CASE ~(i <= Len(made) - Len(queue))
    <3> DEFINE j == i - (Len(made) - Len(queue))
    <3>1. j \in 1..n /\ j \in 1..Len(queue) /\ Len(made) - Len(queue) + j = i /\ i \in 1..Len(made)
      BY <1>2, <1>3, <2>2
    <3>2. queue[j] = made[i]
      <4>1. queue[j] = made[Len(made) - Len(queue) + j]
        BY <3>1
      <4> QED
        BY <3>1, <4>1
    <3>3. queue[j] < now - AttemptSpan
      BY <1>1, <3>1
    <3> HIDE DEF j
    <3>4. made[i] \in Nat
      BY <1>7, <3>1, Zenon
    <3>5. made[i] < now - AttemptSpan
      BY <3>2, <3>3, Zenon
    <3> QED
      BY <1>3, <3>4, <3>5
  <2> QED
    BY <2>1, <2>2
<1>6. Len(kept) <= Len(queue)
  BY <1>2, <1>3
<1> QED
  BY <1>2, <1>4, <1>5, <1>6 DEF kept
-----------------------------------------------------------------------------
LEMMA ThrottleStart == ThrottleInit => ThrottleInv
<1> SUFFICES ASSUME ThrottleInit PROVE ThrottleInv
  OBVIOUS
<1>1. DOMAIN attempts = Clients /\ DOMAIN tried = Clients /\ clock = 0 /\ DOMAIN reading = {}
  BY DEF ThrottleInit
<1>2. ReadingsAreLate
  BY <1>1 DEF ReadingsAreLate
<1>3. ASSUME NEW c \in Clients PROVE QueueIsTheRecent(c)
  BY <1>1, ThrottleAssumption DEF ThrottleInit, QueueIsTheRecent
<1>4. ASSUME NEW c \in Clients, NEW end PROVE Stretch(c, end) = {}
  BY DEF ThrottleInit, Stretch
<1>5. Cardinality({}) = 0
  BY FS_EmptySet
<1> QED
  BY <1>1, <1>2, <1>3, <1>4, <1>5, ThrottleAssumption DEF ThrottleInv, ThrottleHolds

LEMMA TimeThrottled == ASSUME ThrottleInv, TimePasses PROVE ThrottleInv'
<1>1. /\ clock' = clock + 1 /\ UNCHANGED <<attempts, tried, reading>> /\ clock \in Nat
      /\ \A t \in DOMAIN reading : clock < reading[t] + Lag
      /\ AttemptSpan \in Nat /\ MaxAttempts \in Nat /\ Lag \in Nat
  BY ThrottleAssumption DEF TimePasses, ThrottleInv, ReadingsAreLate
<1>2. ReadingsAreLate'
  BY <1>1 DEF ThrottleInv, ReadingsAreLate
<1>3. ASSUME NEW c \in Clients PROVE QueueIsTheRecent(c)'
  <2>1. /\ tried[c] \in Seq(Nat) /\ attempts[c] \in Seq(Nat)
        /\ Len(attempts[c]) \in Nat /\ Len(tried[c]) \in Nat /\ Len(attempts[c]) <= Len(tried[c])
        /\ Len(attempts[c]) <= MaxAttempts
    BY DEF ThrottleInv, QueueIsTheRecent
  <2>2. \A i \in 1..Len(tried[c]) : tried[c][i] \in Nat /\ tried[c][i] <= clock
    BY <2>1 DEF ThrottleInv, QueueIsTheRecent
  <2>3. \A i \in 1..(Len(tried[c]) - Len(attempts[c])) : i \in 1..Len(tried[c]) /\ tried[c][i] < clock - AttemptSpan
    BY <2>1 DEF ThrottleInv, QueueIsTheRecent
  <2>4. ASSUME NEW i \in 1..(Len(tried[c]) - Len(attempts[c])) PROVE tried[c][i] < (clock + 1) - AttemptSpan
    <3>1. tried[c][i] < clock - AttemptSpan /\ tried[c][i] \in Nat
      BY <2>2, <2>3
    <3> QED
      BY <1>1, <3>1
  <2>5. \A i \in 1..Len(tried[c]) : tried[c][i] <= clock + 1
    BY <1>1, <2>2
  <2> QED
    BY <1>1, <2>1, <2>4, <2>5 DEF ThrottleInv, QueueIsTheRecent
<1>4. ASSUME NEW c \in Clients, NEW end \in 0..(clock + 1) PROVE Cardinality(Stretch(c, end)) <= MaxAttempts
  <2>1. CASE end \in 0..clock
    BY <2>1 DEF ThrottleInv, ThrottleHolds
  <2>2. CASE end = clock + 1
    <3>1. tried[c] \in Seq(Nat) /\ \A i \in 1..Len(tried[c]) : tried[c][i] \in Nat /\ tried[c][i] <= clock
      BY DEF ThrottleInv, QueueIsTheRecent
    <3>2. Stretch(c, end) \subseteq Stretch(c, clock)
      <4>1. DOMAIN tried[c] = 1..Len(tried[c])
        BY <3>1
      <4>2. ASSUME NEW i \in Stretch(c, end) PROVE i \in Stretch(c, clock)
        <5>1. /\ i \in DOMAIN tried[c] /\ tried[c][i] \in Nat /\ tried[c][i] <= clock
              /\ end - (AttemptSpan - Lag) <= tried[c][i]
          BY <3>1, <4>1, <4>2 DEF Stretch
        <5>2. clock - (AttemptSpan - Lag) <= tried[c][i]
          BY <1>1, <2>2, <5>1
        <5> QED
          BY <5>1, <5>2 DEF Stretch
      <4> QED
        BY <4>2
    <3>3. Stretch(c, clock) = Between(tried[c], clock - (AttemptSpan - Lag), clock)
      BY StretchIsBetween
    <3>4. clock - (AttemptSpan - Lag) \in Int /\ clock \in Int
      BY <1>1
    <3>5. IsFiniteSet(Stretch(c, clock))
      BY <3>1, <3>3, <3>4, BetweenFinite
    <3>6. /\ Cardinality(Stretch(c, end)) <= Cardinality(Stretch(c, clock))
          /\ Cardinality(Stretch(c, end)) \in Nat /\ Cardinality(Stretch(c, clock)) \in Nat
      BY <3>2, <3>5, FS_Subset, FS_CardinalityType
    <3>7. clock \in 0..clock
      BY <1>1
    <3>8. Cardinality(Stretch(c, clock)) <= MaxAttempts
      BY <3>7 DEF ThrottleInv, ThrottleHolds
    <3> QED
      BY <1>1, <3>6, <3>8
  <2> QED
    BY <1>1, <2>1, <2>2
<1>5. ThrottleHolds'
  BY <1>1, <1>4 DEF ThrottleHolds, Stretch
<1> QED
  BY <1>1, <1>2, <1>3, <1>5 DEF ThrottleInv

LEMMA ReadThrottled == ASSUME ThrottleInv, NEW t \in Threads, ReadClock(t) PROVE ThrottleInv'
<1>1. /\ reading' = [u \in DOMAIN reading \cup {t} |-> IF u = t THEN clock ELSE reading[u]]
      /\ UNCHANGED <<clock, attempts, tried>> /\ clock \in Nat /\ Lag \in Nat
  BY ThrottleAssumption DEF ReadClock, ThrottleInv, ReadingsAreLate
<1>2. ReadingsAreLate'
  BY <1>1 DEF ThrottleInv, ReadingsAreLate
<1> QED
  BY <1>1, <1>2 DEF ThrottleInv, QueueIsTheRecent, ThrottleHolds, Stretch

LEMMA AttemptThrottled == ASSUME ThrottleInv, NEW t \in Threads, NEW c \in Clients, Attempt(t, c) PROVE ThrottleInv'
<1> DEFINE now == reading[t]
           kept == [d \in Clients |-> Pruned(attempts[d], now)]
<1>1. /\ clock' = clock /\ reading' = [u \in DOMAIN reading \ {t} |-> reading[u]]
      /\ clock \in Nat /\ now \in Nat /\ now <= clock /\ clock <= now + Lag
      /\ AttemptSpan \in Nat /\ MaxAttempts \in Nat \ {0} /\ Lag \in Nat
  BY ThrottleAssumption DEF Attempt, ThrottleInv, ReadingsAreLate
<1>2. \/ /\ attempts' = kept /\ tried' = tried
      \/ /\ ~(Len(kept[c]) >= MaxAttempts)
         /\ attempts' = [kept EXCEPT ![c] = Append(@, now)]
         /\ tried' = [tried EXCEPT ![c] = Append(@, now)]
  BY DEF Attempt
<1>3. ReadingsAreLate'
  BY <1>1 DEF ThrottleInv, ReadingsAreLate
<1>4. ASSUME NEW d \in Clients
      PROVE  /\ tried[d] \in Seq(Nat) /\ Len(tried[d]) \in Nat
             /\ \A i \in 1..Len(tried[d]) : tried[d][i] \in Nat /\ tried[d][i] <= clock
             /\ kept[d] \in Seq(Nat) /\ Len(kept[d]) \in Nat
             /\ Len(kept[d]) <= Len(tried[d]) /\ Len(kept[d]) <= MaxAttempts
             /\ \A i \in 1..(Len(tried[d]) - Len(kept[d])) : tried[d][i] < clock - AttemptSpan
             /\ \A i \in 1..Len(kept[d]) : kept[d][i] = tried[d][Len(tried[d]) - Len(kept[d]) + i]
  <2>1. QueueIsTheRecent(d)
    BY DEF ThrottleInv
  <2>2. /\ tried[d] \in Seq(Nat) /\ attempts[d] \in Seq(Nat)
        /\ Len(attempts[d]) <= Len(tried[d]) /\ Len(attempts[d]) <= MaxAttempts
        /\ \A i \in 1..Len(tried[d]) : tried[d][i] <= clock
        /\ \A i \in 1..(Len(tried[d]) - Len(attempts[d])) : tried[d][i] < clock - AttemptSpan
        /\ \A i \in 1..Len(attempts[d]) : attempts[d][i] = tried[d][Len(tried[d]) - Len(attempts[d]) + i]
    BY <2>1 DEF QueueIsTheRecent
  <2>3. LET k == Pruned(attempts[d], now)
        IN  /\ k \in Seq(Nat) /\ Len(k) <= Len(attempts[d])
            /\ \A i \in 1..(Len(tried[d]) - Len(k)) : tried[d][i] < clock - AttemptSpan
            /\ \A i \in 1..Len(k) : k[i] = tried[d][Len(tried[d]) - Len(k) + i]
    BY <1>1, <2>2, PrunedIsTheRecent
  <2>4. kept[d] = Pruned(attempts[d], now)
    OBVIOUS
  <2> HIDE DEF kept
  <2>5. /\ kept[d] \in Seq(Nat) /\ Len(kept[d]) <= Len(attempts[d])
        /\ \A i \in 1..(Len(tried[d]) - Len(kept[d])) : tried[d][i] < clock - AttemptSpan
        /\ \A i \in 1..Len(kept[d]) : kept[d][i] = tried[d][Len(tried[d]) - Len(kept[d]) + i]
    BY <2>3, <2>4
  <2>6. Len(kept[d]) \in Nat /\ Len(attempts[d]) \in Nat /\ Len(tried[d]) \in Nat
    BY <2>2, <2>5
  <2>7. Len(kept[d]) <= Len(tried[d]) /\ Len(kept[d]) <= MaxAttempts
    BY <1>1, <2>2, <2>5, <2>6
  <2>8. \A i \in 1..Len(tried[d]) : tried[d][i] \in Nat
    BY <2>2
  <2> QED
    BY <2>2, <2>5, <2>6, <2>7, <2>8, Zenon
<1>5. kept = [d \in Clients |-> kept[d]] /\ DOMAIN kept = Clients /\ DOMAIN tried = Clients
  BY DEF ThrottleInv
<1> HIDE DEF kept
<1>6. CASE attempts' = kept /\ tried' = tried
  <2>1. \A d \in Clients : QueueIsTheRecent(d)'
    BY <1>1, <1>4, <1>6 DEF QueueIsTheRecent
  <2>2. ThrottleHolds'
    BY <1>1, <1>6 DEF ThrottleInv, ThrottleHolds, Stretch
  <2>3. DOMAIN attempts' = Clients /\ DOMAIN tried' = Clients
    BY <1>5, <1>6 DEF ThrottleInv
  <2> QED
    BY <1>3, <2>1, <2>2, <2>3 DEF ThrottleInv
<1>7. CASE /\ ~(Len(kept[c]) >= MaxAttempts)
           /\ attempts' = [kept EXCEPT ![c] = Append(@, now)]
           /\ tried' = [tried EXCEPT ![c] = Append(@, now)]
  <2> DEFINE queue == kept[c]
             made == tried[c]
  <2>1. attempts'[c] = Append(queue, now) /\ tried'[c] = Append(made, now)
        /\ (\A d \in Clients : d # c => attempts'[d] = kept[d] /\ tried'[d] = tried[d])
        /\ DOMAIN attempts' = Clients /\ DOMAIN tried' = Clients
    BY <1>5, <1>7
  <2>2. /\ made \in Seq(Nat) /\ Len(made) \in Nat
        /\ \A i \in 1..Len(made) : made[i] \in Nat /\ made[i] <= clock
        /\ queue \in Seq(Nat) /\ Len(queue) \in Nat /\ Len(queue) <= Len(made) /\ Len(queue) + 1 <= MaxAttempts
        /\ \A i \in 1..(Len(made) - Len(queue)) : made[i] < clock - AttemptSpan
        /\ \A i \in 1..Len(queue) : queue[i] = made[Len(made) - Len(queue) + i]
    <3>1. /\ made \in Seq(Nat) /\ Len(made) \in Nat
          /\ \A i \in 1..Len(made) : made[i] \in Nat /\ made[i] <= clock
          /\ queue \in Seq(Nat) /\ Len(queue) \in Nat /\ Len(queue) <= Len(made)
          /\ \A i \in 1..(Len(made) - Len(queue)) : made[i] < clock - AttemptSpan
          /\ \A i \in 1..Len(queue) : queue[i] = made[Len(made) - Len(queue) + i]
      BY <1>4
    <3>2. Len(queue) + 1 <= MaxAttempts
      BY <1>1, <1>7, <3>1
    <3> QED
      BY <3>1, <3>2
  <2> HIDE DEF queue, made
  <2> DEFINE queueNow == Append(queue, now)
             madeNow == Append(made, now)
  <2>3. /\ queueNow \in Seq(Nat) /\ Len(queueNow) = Len(queue) + 1
        /\ \A i \in 1..Len(queue) : queueNow[i] = queue[i]
        /\ queueNow[Len(queue) + 1] = now
        /\ madeNow \in Seq(Nat) /\ Len(madeNow) = Len(made) + 1
        /\ \A i \in 1..Len(made) : madeNow[i] = made[i]
        /\ madeNow[Len(made) + 1] = now
    BY <1>1, <2>2
  <2> HIDE DEF queueNow, madeNow
  <2>4. \A i \in 1..Len(madeNow) : madeNow[i] \in Nat /\ madeNow[i] <= clock
    <3> SUFFICES ASSUME NEW i \in 1..Len(madeNow) PROVE madeNow[i] \in Nat /\ madeNow[i] <= clock
      OBVIOUS
    <3>1. i \in 1..Len(made) \/ i = Len(made) + 1
      BY <2>2, <2>3
    <3> QED
      BY <1>1, <2>2, <2>3, <3>1
  <2>5. ASSUME NEW i \in 1..Len(queueNow) PROVE queueNow[i] = madeNow[Len(madeNow) - Len(queueNow) + i]
    <3>1. CASE i \in 1..Len(queue)
      <4>1. Len(made) - Len(queue) + i \in 1..Len(made)
        BY <2>2, <3>1
      <4>2. Len(madeNow) - Len(queueNow) + i = Len(made) - Len(queue) + i
        BY <2>2, <2>3
      <4> QED
        BY <2>2, <2>3, <3>1, <4>1, <4>2
    <3>2. CASE i = Len(queue) + 1
      <4>1. Len(madeNow) - Len(queueNow) + i = Len(made) + 1
        BY <2>2, <2>3, <3>2
      <4> QED
        BY <2>3, <3>2, <4>1
    <3> QED
      BY <2>2, <2>3, <3>1, <3>2
  <2>6. \A i \in 1..(Len(madeNow) - Len(queueNow)) : madeNow[i] < clock - AttemptSpan
    <3> SUFFICES ASSUME NEW i \in 1..(Len(madeNow) - Len(queueNow)) PROVE madeNow[i] < clock - AttemptSpan
      OBVIOUS
    <3>1. i \in 1..(Len(made) - Len(queue)) /\ i \in 1..Len(made)
      BY <2>2, <2>3
    <3> QED
      BY <2>2, <2>3, <3>1
  <2>7. Len(queueNow) <= Len(madeNow) /\ Len(queueNow) <= MaxAttempts /\ Len(queueNow) \in Nat
    BY <1>1, <2>2, <2>3
  <2>8. QueueIsTheRecent(c)'
    <3>1. attempts'[c] = queueNow /\ tried'[c] = madeNow
      BY <2>1 DEF queueNow, madeNow
    <3> QED
      BY <1>1, <2>3, <2>4, <2>5, <2>6, <2>7, <3>1 DEF QueueIsTheRecent
  <2>9. ASSUME NEW d \in Clients, d # c PROVE QueueIsTheRecent(d)'
    BY <1>1, <1>4, <2>1, <2>9 DEF QueueIsTheRecent
  <2>10. ASSUME NEW end \in 0..clock
         PROVE  Cardinality(Between(madeNow, end - (AttemptSpan - Lag), end)) <= MaxAttempts
    <3> DEFINE start == end - (AttemptSpan - Lag)
    <3>0. start \in Int /\ end \in Int
      BY <1>1
    <3>1. CASE start <= now /\ now <= end
      <4>1. clock - AttemptSpan <= start
        BY <1>1, <3>1
      <4>2. \A i \in 1..(Len(madeNow) - Len(queueNow)) : madeNow[i] < start
        <5> SUFFICES ASSUME NEW i \in 1..(Len(madeNow) - Len(queueNow)) PROVE madeNow[i] < start
          OBVIOUS
        <5>1. madeNow[i] < clock - AttemptSpan /\ i \in 1..Len(madeNow)
          BY <2>3, <2>2, <2>6
        <5>2. madeNow[i] \in Nat
          BY <2>4, <5>1
        <5> QED
          BY <1>1, <3>0, <4>1, <5>1, <5>2
      <4> HIDE DEF start
      <4>3. Cardinality(Between(madeNow, start, end)) <= Len(queueNow)
        BY <2>3, <2>7, <3>0, <4>2, BetweenInQueue
      <4>4. Cardinality(Between(madeNow, start, end)) \in Nat
        BY <2>3, <3>0, BetweenFinite
      <4> QED
        BY <1>1, <2>7, <4>3, <4>4 DEF start
    <3>2. CASE ~(start <= now /\ now <= end)
      <4>1. DOMAIN madeNow = 1..(Len(made) + 1) /\ DOMAIN made = 1..Len(made)
        BY <2>2, <2>3
      <4>2. \A i \in DOMAIN madeNow : i \in DOMAIN made \/ i = Len(made) + 1
        BY <2>2, <4>1
      <4>3. \A i \in DOMAIN made : i \in DOMAIN madeNow /\ madeNow[i] = made[i]
        BY <2>2, <2>3, <4>1
      <4>4. Between(madeNow, start, end) = Between(made, start, end)
        BY <2>3, <3>2, <4>2, <4>3 DEF Between
      <4>5. Cardinality(Stretch(c, end)) <= MaxAttempts
        BY <2>10 DEF ThrottleInv, ThrottleHolds
      <4> QED
        BY <4>4, <4>5, StretchIsBetween DEF made
    <3> QED
      BY <3>1, <3>2
  <2>11. ThrottleHolds'
    <3> SUFFICES ASSUME NEW d \in Clients, NEW end \in 0..clock
                 PROVE  Cardinality({i \in DOMAIN tried'[d] : end - (AttemptSpan - Lag) <= tried'[d][i]
                                                              /\ tried'[d][i] <= end}) <= MaxAttempts
      BY <1>1 DEF ThrottleHolds, Stretch
    <3>1. CASE d = c
      BY <2>1, <2>10, <3>1 DEF Between, madeNow
    <3>2. CASE d # c
      BY <2>1, <3>2 DEF ThrottleInv, ThrottleHolds, Stretch
    <3> QED
      BY <3>1, <3>2
  <2> QED
    BY <1>3, <2>1, <2>8, <2>9, <2>11 DEF ThrottleInv
<1> QED
  BY <1>2, <1>6, <1>7

LEMMA ThrottleStep == ThrottleInv /\ [ThrottleNext]_throttleVars => ThrottleInv'
<1> SUFFICES ASSUME ThrottleInv, [ThrottleNext]_throttleVars PROVE ThrottleInv'
  OBVIOUS
<1>1. CASE UNCHANGED throttleVars
  BY <1>1 DEF throttleVars, ThrottleInv, ReadingsAreLate, QueueIsTheRecent, ThrottleHolds, Stretch
<1> QED
  BY <1>1, TimeThrottled, ReadThrottled, AttemptThrottled DEF ThrottleNext

\* However many threads and clients there are, whatever the limit and the span,
\* and whatever reading each thread empties the queues with, no stretch of the
\* span less the longest wait for the lock holds more attempts of a client than
\* the limit (serve.py:85-98).
THEOREM SignInsAreThrottled == ThrottleSpec => []ThrottleHolds
<1>1. ThrottleInv => ThrottleHolds
  BY DEF ThrottleInv
<1> QED
  BY <1>1, ThrottleStart, ThrottleStep, PTL DEF ThrottleSpec

-----------------------------------------------------------------------------
(* LocalAccounts.                                                          *)
Pcs == {"idle", "session", "leave", "welcome", "update", "reread", "conflict", "crashed"}

Replies == {"none", "too many", "taken", "log in", "welcome", "bye", "saved", "conflict", "crashed"}
RequestStates == [pc : Pcs, owner : Owners \cup {NoOwner}, token : Nat, presented : Nat, version : Nat,
                  reply : Replies]

\* A window's request is at one step of its handler, and a save is of the student
\* whose session it came with, on top of a row that counts what was stored.
RequestsAreOwned ==
    /\ request \in [Windows -> RequestStates]
    /\ \A t \in Windows : request[t].pc \in {"session", "update", "reread"} => request[t].owner \in Owners
    /\ jar \in Nat /\ tokens \in Nat
    /\ \A k \in DOMAIN sessions : sessions[k].owner \in Owners

RowsCountWhatIsStored ==
    /\ userData \in [Owners -> [data : Windows \cup {NoOwner}, version : Nat]]
    /\ stored \in [Owners -> Seq(Windows)]
    /\ \A o \in Owners : Len(stored[o]) = userData[o].version

LocalInv == RequestsAreOwned /\ RowsCountWhatIsStored

LEMMA LocalInvInit == LocalInit => LocalInv
<1> SUFFICES ASSUME LocalInit PROVE LocalInv
  OBVIOUS
<1>1. NoRequest \in RequestStates /\ NoRequest.pc = "idle"
  BY DEF NoRequest, RequestStates, Pcs, Replies
<1>2. RequestsAreOwned
  BY <1>1 DEF LocalInit, RequestsAreOwned
<1>3. RowsCountWhatIsStored
  BY DEF LocalInit, RowsCountWhatIsStored
<1> QED
  BY <1>2, <1>3 DEF LocalInv

\* A step of one window that leaves the rows alone.
LEMMA RequestStep ==
    ASSUME LocalInv, NEW t \in Windows, NEW r \in RequestStates, request' = [request EXCEPT ![t] = r],
           r.pc \in {"session", "update", "reread"} => r.owner \in Owners,
           jar' \in Nat, tokens' \in Nat, \A x \in DOMAIN sessions' : sessions'[x].owner \in Owners,
           UNCHANGED <<userData, stored>>
    PROVE  LocalInv'
<1>1. request'[t] = r /\ \A x \in Windows : x # t => request'[x] = request[x]
  BY DEF LocalInv, RequestsAreOwned
<1>2. request' \in [Windows -> RequestStates]
  BY DEF LocalInv, RequestsAreOwned
<1>3. \A x \in Windows : request'[x].pc \in {"session", "update", "reread"} => request'[x].owner \in Owners
  BY <1>1 DEF LocalInv, RequestsAreOwned
<1>4. RequestsAreOwned'
  BY <1>2, <1>3 DEF RequestsAreOwned
<1> QED
  BY <1>4 DEF LocalInv, RowsCountWhatIsStored

\* The same, for a step that ends the request.
LEMMA EndStep ==
    ASSUME LocalInv, NEW t \in Windows, NEW s \in Replies, Ended(t, s),
           jar' \in Nat, tokens' \in Nat, \A x \in DOMAIN sessions' : sessions'[x].owner \in Owners,
           UNCHANGED <<userData, stored>>
    PROVE  LocalInv'
<1> DEFINE r == [NoRequest EXCEPT !.reply = s]
<1>1. r \in RequestStates /\ r.pc = "idle" /\ request' = [request EXCEPT ![t] = r]
  BY DEF Ended, NoRequest, RequestStates, Pcs, Replies
<1> HIDE DEF r
<1> QED
  BY <1>1, RequestStep

\* The same, for a step that only moves the request on.
LEMMA MoveStep ==
    ASSUME LocalInv, NEW t \in Windows, NEW pc \in Pcs, request' = [request EXCEPT ![t] = [@ EXCEPT !.pc = pc]],
           pc \in {"session", "update", "reread"} => request[t].owner \in Owners,
           jar' \in Nat, tokens' \in Nat, \A x \in DOMAIN sessions' : sessions'[x].owner \in Owners,
           UNCHANGED <<userData, stored>>
    PROVE  LocalInv'
<1> DEFINE r == [request[t] EXCEPT !.pc = pc]
<1>1. r \in RequestStates /\ r.pc = pc /\ r.owner = request[t].owner /\ request' = [request EXCEPT ![t] = r]
  BY DEF LocalInv, RequestsAreOwned, RequestStates
<1> HIDE DEF r
<1> QED
  BY <1>1, RequestStep

LEMMA OwnerTyped ==
    ASSUME LocalInv, OwnerOf(jar) # NoOwner
    PROVE  OwnerOf(jar) \in Owners
  BY DEF OwnerOf, LocalInv, RequestsAreOwned

LEMMA UpdateInv == ASSUME LocalInv, NEW t \in Windows, UpdateRow(t) PROVE LocalInv'
<1> DEFINE o == request[t].owner
<1>1. /\ request[t].pc = "update" /\ o \in Owners /\ UNCHANGED <<sessions, tokens, jar>>
      /\ jar \in Nat /\ tokens \in Nat /\ \A x \in DOMAIN sessions : sessions[x].owner \in Owners
  BY DEF UpdateRow, LocalInv, RequestsAreOwned
<1>2. CASE Matches(t)
  <2>1. /\ userData' = [userData EXCEPT ![o] = [data |-> t, version |-> @.version + 1]]
        /\ stored' = [stored EXCEPT ![o] = Append(@, t)]
        /\ request' = [request EXCEPT ![t].pc = "reread"]
    BY <1>2 DEF UpdateRow
  <2>2. RowsCountWhatIsStored'
    <3>1. [data |-> t, version |-> userData[o].version + 1] \in [data : Windows \cup {NoOwner}, version : Nat]
      BY <1>1 DEF LocalInv, RowsCountWhatIsStored
    <3>2. Append(stored[o], t) \in Seq(Windows) /\ Len(Append(stored[o], t)) = userData[o].version + 1
      BY <1>1 DEF LocalInv, RowsCountWhatIsStored
    <3> QED
      BY <1>1, <2>1, <3>1, <3>2 DEF LocalInv, RowsCountWhatIsStored
  <2>3. RequestsAreOwned'
    <3> DEFINE r == [request[t] EXCEPT !.pc = "reread"]
    <3>1. r \in RequestStates /\ r.owner = o /\ request' = [request EXCEPT ![t] = r]
      BY <2>1 DEF LocalInv, RequestsAreOwned, RequestStates, Pcs, Replies
    <3> HIDE DEF r
    <3> QED
      BY <1>1, <3>1 DEF LocalInv, RequestsAreOwned
  <2> QED
    BY <2>2, <2>3 DEF LocalInv
<1>3. CASE ~Matches(t)
  <2>1. request' = [request EXCEPT ![t] = [@ EXCEPT !.pc = "conflict"]] /\ UNCHANGED <<userData, stored>>
    BY <1>3 DEF UpdateRow
  <2> QED
    BY <1>1, <2>1, MoveStep DEF Pcs
<1> QED
  BY <1>2, <1>3

LEMMA LocalInvStep == LocalInv /\ [LocalNext]_localVars => LocalInv'
<1> SUFFICES ASSUME LocalInv, [LocalNext]_localVars PROVE LocalInv'
  OBVIOUS
<1>1. jar \in Nat /\ tokens \in Nat /\ \A x \in DOMAIN sessions : sessions[x].owner \in Owners
  BY DEF LocalInv, RequestsAreOwned
<1>2. ASSUME NEW k PROVE \A x \in DOMAIN Without(k) : Without(k)[x].owner \in Owners
  BY <1>1 DEF Without
<1>3. ASSUME NEW t \in Windows, NEW o \in Owners, StartSignIn(t, o) PROVE LocalInv'
  <2>1. UNCHANGED <<jar, tokens, sessions, userData, stored>>
    BY <1>3 DEF StartSignIn
  <2> DEFINE r == [NoRequest EXCEPT !.pc = "session", !.owner = o, !.presented = jar]
  <2>2. Ended(t, "too many") \/ Ended(t, "taken") \/ request' = [request EXCEPT ![t] = r]
    BY <1>3 DEF StartSignIn
  <2>3. r \in RequestStates /\ r.owner = o
    BY <1>1 DEF NoRequest, RequestStates, Pcs, Replies
  <2> HIDE DEF r
  <2>4. CASE request' = [request EXCEPT ![t] = r]
    BY <1>1, <2>1, <2>3, <2>4, RequestStep
  <2>5. CASE Ended(t, "too many") \/ Ended(t, "taken")
    BY <1>1, <2>1, <2>5, EndStep DEF Replies
  <2> QED
    BY <2>2, <2>4, <2>5
<1>4. ASSUME NEW t \in Windows, CreateSession(t) PROVE LocalInv'
  <2> DEFINE new == tokens + 1
             o == request[t].owner
  <2>1. o \in Owners /\ new \in Nat /\ tokens' = new /\ UNCHANGED <<jar, userData, stored>>
    BY <1>1, <1>4 DEF CreateSession, LocalInv, RequestsAreOwned
  <2>2. ASSUME NEW x \in DOMAIN sessions' PROVE sessions'[x].owner \in Owners
    <3>1. x = new \/ x \in DOMAIN sessions
      BY <1>4 DEF CreateSession
    <3>2. sessions'[x] = IF x = new THEN [owner |-> o, expires |-> day + SessionLife] ELSE sessions[x]
      BY <1>4, <2>2 DEF CreateSession
    <3> QED
      BY <1>1, <2>1, <3>1, <3>2
  <2> DEFINE r == [request[t] EXCEPT !.pc = "leave", !.token = new]
  <2>3. r \in RequestStates /\ r.pc = "leave" /\ request' = [request EXCEPT ![t] = r]
    BY <1>4, <2>1 DEF CreateSession, LocalInv, RequestsAreOwned, RequestStates, Pcs, Replies
  <2> HIDE DEF r
  <2> QED
    BY <1>1, <2>1, <2>2, <2>3, RequestStep
<1>5. ASSUME NEW t \in Windows, LeaveOld(t) PROVE LocalInv'
  <2>1. /\ request' = [request EXCEPT ![t] = [@ EXCEPT !.pc = "welcome"]]
        /\ sessions' = Without(request[t].presented) /\ UNCHANGED <<jar, tokens, userData, stored>>
    BY <1>5 DEF LeaveOld
  <2> QED
    BY <1>1, <1>2, <2>1, MoveStep DEF Pcs
<1>6. ASSUME NEW t \in Windows, Welcome(t) PROVE LocalInv'
  <2>1. request[t].token \in Nat
    BY DEF LocalInv, RequestsAreOwned, RequestStates
  <2>2. jar' \in Nat /\ (Ended(t, "welcome") \/ Ended(t, "log in")) /\ UNCHANGED <<sessions, tokens, userData, stored>>
    BY <1>1, <1>6, <2>1 DEF Welcome
  <2> QED
    BY <1>1, <2>2, EndStep DEF Replies
<1>7. ASSUME NEW t \in Windows, LeaveAccount(t) PROVE LocalInv'
  <2>1. jar' = 0 /\ sessions' = Without(jar) /\ Ended(t, "bye") /\ UNCHANGED <<tokens, userData, stored>>
    BY <1>7 DEF LeaveAccount
  <2> QED
    BY <1>1, <1>2, <2>1, EndStep DEF Replies
<1>8. ASSUME NEW t \in Windows, NEW v \in 0..(MaxSaves - 1), OwnerOf(jar) # NoOwner, StartSave(t, v) PROVE LocalInv'
  <2> DEFINE r == [NoRequest EXCEPT !.pc = "update", !.owner = OwnerOf(jar), !.token = jar, !.version = v]
  <2>1. request' = [request EXCEPT ![t] = r] /\ UNCHANGED <<sessions, jar, tokens, userData, stored>>
    BY <1>8 DEF StartSave
  <2>2. v \in Nat /\ OwnerOf(jar) \in Owners
    BY <1>8, OwnerTyped
  <2>3. r \in RequestStates /\ r.owner \in Owners
    BY <1>1, <2>2 DEF NoRequest, RequestStates, Pcs, Replies
  <2> HIDE DEF r
  <2> QED
    BY <1>1, <2>1, <2>3, RequestStep
<1>9. ASSUME NEW t \in Windows, RejectSave(t) \/ Reread(t) PROVE LocalInv'
  <2>1. (Ended(t, "log in") \/ Ended(t, "saved")) /\ UNCHANGED <<sessions, jar, tokens, userData, stored>>
    BY <1>9 DEF RejectSave, Reread
  <2> QED
    BY <1>1, <2>1, EndStep DEF Replies
<1>10. ASSUME NEW t \in Windows, Lost(t) PROVE LocalInv'
  <2>1. \/ request' = [request EXCEPT ![t] = [@ EXCEPT !.pc = "crashed"]]
        \/ Ended(t, "none")
    BY <1>10 DEF Lost
  <2>2. UNCHANGED <<sessions, jar, tokens, userData, stored>>
    BY <1>10 DEF Lost
  <2> QED
    BY <1>1, <2>1, <2>2, EndStep, MoveStep DEF Pcs, Replies
<1>11. ASSUME NEW t \in Windows, Report(t) PROVE LocalInv'
  <2>1. Ended(t, request[t].pc) /\ request[t].pc \in {"conflict", "crashed"} /\ UNCHANGED <<sessions, jar, tokens, userData, stored>>
    BY <1>11 DEF Report
  <2> QED
    BY <1>1, <2>1, EndStep DEF Replies
<1>12. CASE DayPasses \/ UNCHANGED localVars
  BY <1>12 DEF DayPasses, localVars, LocalInv, RequestsAreOwned, RowsCountWhatIsStored
<1> QED
  BY <1>3, <1>4, <1>5, <1>6, <1>7, <1>8, <1>9, <1>10, <1>11, <1>12, UpdateInv DEF LocalNext

(* What the rows, the jars and the attempts of the local accounts hold at    *)
(* every step of a request (accounts.py, serve.py).                          *)
THEOREM LocalInvariant == LocalSpec => []LocalInv
  BY LocalInvInit, LocalInvStep, PTL DEF LocalSpec
-----------------------------------------------------------------------------
\* OpOfTab, of the request a window has before or after a step.
OpAt(t, r) ==
    CASE r.pc = "update" -> [phase |-> "pending", user |-> r.owner, data |-> t, version |-> r.version]
      [] r.pc = "reread" -> [phase |-> "saved", user |-> r.owner, data |-> t, version |-> r.version + 1]
      [] r.pc \in {"conflict", "crashed"} -> [phase |-> "failed"]
      [] OTHER -> [phase |-> "idle"]

ops == [t \in Windows |-> OpOfTab(t)]

LEMMA OpsAre == ops = [t \in Windows |-> OpAt(t, request[t])] /\ ops' = [t \in Windows |-> OpAt(t, request'[t])]
  BY DEF ops, OpOfTab, OpAt

LEMMA OneOp ==
    ASSUME LocalInv, NEW t \in Windows, NEW r, request' = [request EXCEPT ![t] = r]
    PROVE  ops' = [ops EXCEPT ![t] = OpAt(t, r)] /\ ops[t] = OpAt(t, request[t])
<1>1. request'[t] = r /\ \A x \in Windows : x # t => request'[x] = request[x]
  BY DEF LocalInv, RequestsAreOwned
<1> QED
  BY <1>1, OpsAre

LEMMA EndedOp ==
    ASSUME LocalInv, NEW t \in Windows, NEW s, Ended(t, s)
    PROVE  ops' = [ops EXCEPT ![t] = LocalRegister!Idle]
<1>1. OpAt(t, [NoRequest EXCEPT !.reply = s]) = LocalRegister!Idle
  BY DEF OpAt, NoRequest, LocalRegister!Idle
<1> QED
  BY <1>1, OneOp DEF Ended

LEMMA LocalRegisterStep == LocalInv /\ [LocalNext]_localVars => [LocalRegister!RegisterNext]_<<stored, ops>>
<1> SUFFICES ASSUME LocalInv, [LocalNext]_localVars PROVE [LocalRegister!RegisterNext]_<<stored, ops>>
  OBVIOUS
<1> DEFINE Same == UNCHANGED <<stored, ops>>
<1>1. UNCHANGED <<stored, request>> => Same
  BY OpsAre
<1>2. ASSUME NEW t \in Windows, NEW r, request' = [request EXCEPT ![t] = r], UNCHANGED stored,
             OpAt(t, r) = LocalRegister!Idle, request[t].pc \notin {"update", "reread", "conflict", "crashed"}
      PROVE  Same
  <2>1. ops[t] = LocalRegister!Idle /\ ops' = [ops EXCEPT ![t] = LocalRegister!Idle]
    BY <1>2, OneOp DEF OpAt, LocalRegister!Idle
  <2>2. ops = [x \in Windows |-> ops[x]]
    BY OpsAre
  <2> QED
    BY <1>2, <2>1, <2>2
<1>3. ASSUME NEW t \in Windows, NEW s, Ended(t, s), UNCHANGED stored, request[t].pc \in {"idle", "session", "leave", "welcome"}
      PROVE  Same
  <2>1. OpAt(t, [NoRequest EXCEPT !.reply = s]) = LocalRegister!Idle
    BY DEF OpAt, NoRequest, LocalRegister!Idle
  <2> QED
    BY <1>2, <1>3, <2>1 DEF Ended
<1>4. ASSUME NEW t \in Windows, NEW s, Ended(t, s), UNCHANGED stored, request[t].pc \in {"reread", "conflict", "crashed"}
      PROVE  LocalRegister!Answer(t)
  <2>1. ops' = [ops EXCEPT ![t] = LocalRegister!Idle]
    BY <1>4, EndedOp
  <2>2. ops[t].phase \in {"saved", "failed"}
    BY <1>4, OpsAre DEF OpAt
  <2> QED
    BY <1>4, <2>1, <2>2 DEF ops, LocalRegister!Answer
<1>5. ASSUME NEW t \in Windows, NEW p \in {"conflict", "crashed"}, request[t].pc = "update", UNCHANGED stored,
             request' = [request EXCEPT ![t].pc = p]
      PROVE  LocalRegister!Refuse(t)
  <2>1. request[t] \in RequestStates
    BY DEF LocalInv, RequestsAreOwned
  <2>2. OpAt(t, [request[t] EXCEPT !.pc = p]) = LocalRegister!Failed
    BY <2>1 DEF OpAt, RequestStates, LocalRegister!Failed
  <2>3. ops' = [ops EXCEPT ![t] = LocalRegister!Failed] /\ ops[t] = OpAt(t, request[t])
    BY <1>5, <2>2, OneOp
  <2>4. ops[t].phase = "pending"
    BY <1>5, <2>3 DEF OpAt
  <2> QED
    BY <1>5, <2>3, <2>4 DEF ops, LocalRegister!Refuse
<1>6. ASSUME NEW t \in Windows, NEW o \in Owners, StartSignIn(t, o) PROVE Same
  <2>1. /\ request[t].pc = "idle" /\ UNCHANGED stored
        /\ \/ Ended(t, "too many") \/ Ended(t, "taken")
           \/ request' = [request EXCEPT ![t] = [NoRequest EXCEPT !.pc = "session", !.owner = o, !.presented = jar]]
    BY <1>6 DEF StartSignIn
  <2>2. OpAt(t, [NoRequest EXCEPT !.pc = "session", !.owner = o, !.presented = jar]) = LocalRegister!Idle
    BY DEF OpAt, NoRequest, LocalRegister!Idle
  <2> QED
    BY <1>2, <1>3, <2>1, <2>2
<1>7. ASSUME NEW t \in Windows, CreateSession(t) PROVE Same
  <2>1. request' = [request EXCEPT ![t] = [@ EXCEPT !.pc = "leave", !.token = tokens + 1]]
        /\ request[t].pc = "session" /\ UNCHANGED stored
    BY <1>7 DEF CreateSession
  <2>2. [request[t] EXCEPT !.pc = "leave", !.token = tokens + 1].pc = "leave"
    BY DEF LocalInv, RequestsAreOwned, RequestStates
  <2>3. OpAt(t, [request[t] EXCEPT !.pc = "leave", !.token = tokens + 1]) = LocalRegister!Idle
    BY <2>2 DEF OpAt, LocalRegister!Idle
  <2> QED
    BY <1>2, <2>1, <2>3
<1>8. ASSUME NEW t \in Windows, LeaveOld(t) PROVE Same
  <2>1. request' = [request EXCEPT ![t] = [@ EXCEPT !.pc = "welcome"]] /\ request[t].pc = "leave" /\ UNCHANGED stored
    BY <1>8 DEF LeaveOld
  <2>2. [request[t] EXCEPT !.pc = "welcome"].pc = "welcome"
    BY DEF LocalInv, RequestsAreOwned, RequestStates
  <2>3. OpAt(t, [request[t] EXCEPT !.pc = "welcome"]) = LocalRegister!Idle
    BY <2>2 DEF OpAt, LocalRegister!Idle
  <2> QED
    BY <1>2, <2>1, <2>3
<1>9. ASSUME NEW t \in Windows, Welcome(t) \/ LeaveAccount(t) \/ RejectSave(t) PROVE Same
  BY <1>3, <1>9 DEF Welcome, LeaveAccount, RejectSave
<1>10. ASSUME NEW t \in Windows, NEW v \in 0..(MaxSaves - 1), StartSave(t, v) PROVE LocalRegister!Submit(t)
  <2> DEFINE r == [NoRequest EXCEPT !.pc = "update", !.owner = OwnerOf(jar), !.token = jar, !.version = v]
  <2>1. request' = [request EXCEPT ![t] = r] /\ request[t].pc = "idle" /\ UNCHANGED stored
    BY <1>10 DEF StartSave
  <2>2. OpAt(t, r) = LocalRegister!Pending(OwnerOf(jar), t, v) /\ OpAt(t, request[t]) = LocalRegister!Idle
    BY <2>1 DEF OpAt, NoRequest, LocalRegister!Pending, LocalRegister!Idle
  <2> HIDE DEF r
  <2>3. ops' = [ops EXCEPT ![t] = LocalRegister!Pending(OwnerOf(jar), t, v)] /\ ops[t] = LocalRegister!Idle
    BY <2>1, <2>2, OneOp
  <2>4. ops'[t] = LocalRegister!Pending(OwnerOf(jar), t, v)
    BY <2>3, OpsAre
  <2>5. /\ ops[t] = LocalRegister!Idle /\ ops'[t].phase = "pending"
        /\ ops' = [ops EXCEPT ![t] = LocalRegister!Pending(ops'[t].user, ops'[t].data, ops'[t].version)]
        /\ UNCHANGED stored
    <3> DEFINE new == LocalRegister!Pending(OwnerOf(jar), t, v)
    <3>1. new.phase = "pending" /\ new = LocalRegister!Pending(new.user, new.data, new.version)
      BY DEF LocalRegister!Pending
    <3>2. ops'[t] = new /\ ops' = [ops EXCEPT ![t] = new]
      BY <2>3, <2>4
    <3>3. UNCHANGED stored
      BY <2>1
    <3> HIDE DEF new
    <3> QED
      BY <2>3, <3>1, <3>2, <3>3
  <2> QED
    BY <2>5, Zenon DEF ops, LocalRegister!Submit
<1>11. ASSUME NEW t \in Windows, UpdateRow(t) PROVE LocalRegister!Commit(t) \/ LocalRegister!Refuse(t)
  <2> DEFINE o == request[t].owner
             v == request[t].version
  <2>1. request[t].pc = "update" /\ o \in Owners
    BY <1>11 DEF UpdateRow, LocalInv, RequestsAreOwned
  <2>2. CASE Matches(t)
    <3>1. stored' = [stored EXCEPT ![o] = Append(@, t)] /\ request' = [request EXCEPT ![t] = [@ EXCEPT !.pc = "reread"]]
      BY <1>11, <2>2 DEF UpdateRow
    <3>2. request[t] \in RequestStates
      BY DEF LocalInv, RequestsAreOwned
    <3>3. OpAt(t, [request[t] EXCEPT !.pc = "reread"]) = LocalRegister!Saved(o, t, v + 1)
      BY <3>2 DEF OpAt, RequestStates, LocalRegister!Saved
    <3> DEFINE r == [request[t] EXCEPT !.pc = "reread"]
    <3>0. request' = [request EXCEPT ![t] = r] /\ OpAt(t, r) = LocalRegister!Saved(o, t, v + 1)
      BY <3>1, <3>3
    <3> HIDE DEF r
    <3>4. ops' = [ops EXCEPT ![t] = LocalRegister!Saved(o, t, v + 1)] /\ ops[t] = OpAt(t, request[t])
      BY <3>0, OneOp
    <3>5. ops[t] = [phase |-> "pending", user |-> o, data |-> t, version |-> v]
      BY <2>1, <3>4 DEF OpAt
    <3>6. v = Len(stored[o])
      BY <2>1, <2>2 DEF Matches, LocalInv, RowsCountWhatIsStored
    <3>7. /\ ops[t].phase = "pending" /\ ops[t].user \in Owners /\ ops[t].version = Len(stored[ops[t].user])
          /\ stored' = [stored EXCEPT ![ops[t].user] = Append(@, ops[t].data)]
          /\ ops' \in {[ops EXCEPT ![t] = LocalRegister!Saved(ops[t].user, ops[t].data, ops[t].version + 1)],
                       [ops EXCEPT ![t] = LocalRegister!Failed]}
      BY <2>1, <3>1, <3>4, <3>5, <3>6
    <3> QED
      BY <3>7, Zenon DEF ops, LocalRegister!Commit
  <2>3. CASE ~Matches(t)
    BY <1>5, <1>11, <2>1, <2>3 DEF UpdateRow
  <2> QED
    BY <2>2, <2>3
<1>12. ASSUME NEW t \in Windows, Reread(t) \/ Report(t) PROVE LocalRegister!Answer(t)
  BY <1>4, <1>12 DEF Reread, Report
<1>13. ASSUME NEW t \in Windows, Lost(t) PROVE Same \/ LocalRegister!Refuse(t) \/ LocalRegister!Answer(t)
  <2>1. request[t].pc \in {"session", "leave", "welcome", "update", "reread"} /\ UNCHANGED stored
    BY <1>13 DEF Lost, LocalInv, RequestsAreOwned, RequestStates, Pcs, Replies
  <2>2. CASE request[t].pc = "update"
    BY <1>5, <1>13, <2>1, <2>2 DEF Lost
  <2>3. CASE request[t].pc # "update"
    BY <1>3, <1>4, <1>13, <2>1, <2>3 DEF Lost
  <2> QED
    BY <2>2, <2>3
<1>14. ASSUME DayPasses \/ UNCHANGED localVars PROVE Same
  BY <1>1, <1>14 DEF DayPasses, localVars
<1> QED
  BY <1>6, <1>7, <1>8, <1>9, <1>10, <1>11, <1>12, <1>13, <1>14 DEF LocalNext, LocalRegister!RegisterNext

\* save()'s three transactions are one compare-and-swap register per student,
\* like the hosted table, whatever happens between them.
THEOREM LocalStoreImplementsRegister == LocalSpec => ImplementsLocalRegister
<1>1. LocalInit => LocalRegister!RegisterInit
  BY DEF LocalInit, LocalRegister!RegisterInit, LocalRegister!Idle, OpOfTab, NoRequest
<1>2. LocalInv /\ [LocalNext]_localVars => [LocalRegister!RegisterNext]_<<stored, [t \in Windows |-> OpOfTab(t)]>>
  BY LocalRegisterStep DEF ops
<1> QED
  BY <1>1, <1>2, LocalInvariant, PTL DEF LocalSpec, ImplementsLocalRegister, LocalRegister!RegisterSpec
-----------------------------------------------------------------------------
(* GoogleSignIn.                                                           *)
Flows == 1..Len(flow)
Results == {"away", "refused", "no state", "wrong verifier", "signed in"}

FlowStates == [from : Hosts, route : {"GET", "POST"}, to : Hosts, code : BOOLEAN, result : Results]

GoogleTypeOK ==
    /\ stateCookie \in [Hosts -> Nat \cup {NoState}]
    /\ flow \in Seq(FlowStates)
    /\ undisturbed \subseteq Flows

\* A cookie holds the state of a flow that left from its host and was not
\* disturbed, and that is still away if it is to come back there.
CookieIsOfItsHost ==
    \A h \in Hosts : stateCookie[h] # NoState =>
        /\ stateCookie[h] \in undisturbed
        /\ flow[stateCookie[h]].from = h
        /\ flow[stateCookie[h]].to = h => flow[stateCookie[h]].result = "away"

\* A flow comes back to the host it left from or not at all; what was not disturbed is
\* in the cookie until it is back, and signed in after that.
FlowComesBack ==
    \A f \in Flows :
        /\ ComesHome(f) <=> flow[f].to = flow[f].from
        /\ flow[f].result = "away" /\ f \in undisturbed => stateCookie[flow[f].from] = f
        /\ flow[f].result = "signed in" => f \in undisturbed /\ flow[f].to = flow[f].from

GoogleInv == GoogleTypeOK /\ CookieIsOfItsHost /\ FlowComesBack /\ SignInComesBack
-----------------------------------------------------------------------------
LEMMA InvInit == GoogleInit => GoogleInv
  BY GoogleAssumption DEF GoogleInit, GoogleInv, GoogleTypeOK, Flows, CookieIsOfItsHost, FlowComesBack, SignInComesBack

LEMMA FlowTyped == ASSUME GoogleTypeOK
                   PROVE  DOMAIN flow = Flows /\ Len(flow) \in Nat /\ Flows \subseteq Nat
                          /\ \A f \in Flows : flow[f] \in FlowStates
  BY DEF GoogleTypeOK, Flows

LEMMA CookieIsAFlow == ASSUME GoogleInv, NEW h \in Hosts, stateCookie[h] # NoState
                       PROVE  /\ stateCookie[h] \in Flows /\ stateCookie[h] \in undisturbed
                              /\ flow[stateCookie[h]].from = h
                              /\ flow[stateCookie[h]].to = h => flow[stateCookie[h]].result = "away"
  BY DEF GoogleInv, GoogleTypeOK, CookieIsOfItsHost

LEMMA OneFlow == ASSUME GoogleInv, NEW f \in Flows
                 PROVE  /\ ComesHome(f) <=> flow[f].to = flow[f].from
                        /\ flow[f].result = "away" /\ f \in undisturbed => stateCookie[flow[f].from] = f
                        /\ flow[f].result = "signed in" => f \in undisturbed /\ flow[f].to = flow[f].from
                        /\ flow[f].result \notin {"away", "refused"} /\ f \in undisturbed
                              => (flow[f].result = "signed in" <=> ComesHome(f))
  BY FlowTyped DEF GoogleInv, FlowComesBack, SignInComesBack

USE DEF ComesHome

LEMMA SeqDomain == ASSUME NEW S, NEW s \in Seq(S) PROVE DOMAIN s = 1..Len(s)
  OBVIOUS

LEMMA SignedInIsNotHeld == ASSUME GoogleInv, NEW f \in Flows, NEW h \in Hosts, flow[f].result = "signed in"
                           PROVE  stateCookie[h] # f
<1> SUFFICES ASSUME stateCookie[h] = f PROVE FALSE
  OBVIOUS
<1>1. f # NoState
  BY FlowTyped, GoogleAssumption DEF GoogleInv
<1>2. flow[f].from = h /\ (flow[f].to = h => flow[f].result = "away")
  BY <1>1, CookieIsAFlow
<1>3. flow[f].to = flow[f].from
  BY OneFlow
<1> QED
  BY <1>2, <1>3

\* The last two conjuncts of the invariant, flow by flow.
LEMMA FlowByFlow ==
    ASSUME GoogleTypeOK',
           \A f \in Flows' :
               /\ ComesHome(f)' <=> flow'[f].to = flow'[f].from
               /\ flow'[f].result = "away" /\ f \in undisturbed' => stateCookie'[flow'[f].from] = f
               /\ flow'[f].result = "signed in" => f \in undisturbed' /\ flow'[f].to = flow'[f].from
               /\ flow'[f].result \notin {"away", "refused"} /\ f \in undisturbed'
                     => (flow'[f].result = "signed in" <=> ComesHome(f)')
    PROVE  FlowComesBack' /\ SignInComesBack'
<1>1. DOMAIN flow' = Flows'
  <2>1. flow' \in Seq(FlowStates)
    BY DEF GoogleTypeOK, FlowStates, Results
  <2> QED
    BY <2>1, SeqDomain DEF Flows
<1> QED
  BY <1>1 DEF FlowComesBack, SignInComesBack
-----------------------------------------------------------------------------
LEMMA StartInv == ASSUME GoogleInv, NEW h \in Hosts, NEW route \in {"GET", "POST"}, StartFlow(h, route) PROVE GoogleInv'
<1> DEFINE n == Len(flow) + 1
           new == [from |-> h, route |-> route, to |-> CallbackHost(h, route), code |-> TRUE, result |-> "away"]
<1>1. /\ CallbackHost(h, route) \in Hosts
      /\ (h = AppHost \/ (route = "GET" /\ h \in AuthHosts)) <=> CallbackHost(h, route) = h
  BY GoogleAssumption DEF CallbackHost, RedirectHost
<1>2. new \in FlowStates
  BY <1>1 DEF FlowStates, Results
<1>3. /\ flow' = Append(flow, new) /\ Len(flow') = n /\ flow'[n] = new /\ flow' \in Seq(FlowStates)
      /\ \A f \in Flows : flow'[f] = flow[f]
  BY <1>2 DEF StartFlow, GoogleInv, GoogleTypeOK, Flows
<1>4. Flows' = Flows \cup {n} /\ n \notin Flows /\ n \in Nat
  BY <1>3 DEF GoogleInv, GoogleTypeOK, Flows
<1>5. /\ stateCookie' = [stateCookie EXCEPT ![h] = n]
      /\ undisturbed' = (undisturbed \ {stateCookie[h]}) \cup {n}
  BY <1>3 DEF StartFlow
<1>6. GoogleTypeOK'
  BY <1>3, <1>4, <1>5 DEF GoogleInv, GoogleTypeOK
<1>7. stateCookie'[h] = n /\ \A g \in Hosts : g # h => stateCookie'[g] = stateCookie[g]
  BY <1>5 DEF GoogleInv, GoogleTypeOK
<1>8. CookieIsOfItsHost'
  <2> SUFFICES ASSUME NEW g \in Hosts, stateCookie'[g] # NoState
               PROVE  /\ stateCookie'[g] \in undisturbed'
                      /\ flow'[stateCookie'[g]].from = g
                      /\ flow'[stateCookie'[g]].to = g => flow'[stateCookie'[g]].result = "away"
    BY DEF CookieIsOfItsHost
  <2>1. CASE g = h
    BY <1>3, <1>5, <1>7, <2>1
  <2>2. CASE g # h
    <3>1. stateCookie[g] = stateCookie[h] => stateCookie[h] = NoState
      BY <2>2, CookieIsAFlow
    <3>2. /\ stateCookie'[g] = stateCookie[g] /\ stateCookie[g] # NoState
          /\ flow'[stateCookie[g]] = flow[stateCookie[g]]
      BY <1>3, <1>7, <2>2, CookieIsAFlow
    <3> QED
      BY <1>5, <3>1, <3>2, CookieIsAFlow
  <2> QED
    BY <2>1, <2>2
<1>9. FlowComesBack' /\ SignInComesBack'
  <2> SUFFICES ASSUME NEW f \in Flows'
               PROVE  /\ ComesHome(f)' <=> flow'[f].to = flow'[f].from
                      /\ flow'[f].result = "away" /\ f \in undisturbed' => stateCookie'[flow'[f].from] = f
                      /\ flow'[f].result = "signed in" => f \in undisturbed' /\ flow'[f].to = flow'[f].from
                      /\ flow'[f].result \notin {"away", "refused"} /\ f \in undisturbed'
                            => (flow'[f].result = "signed in" <=> ComesHome(f)')
    BY <1>6, FlowByFlow
  <2>1. CASE f = n
    <3>1. flow'[f].from = h /\ flow'[f].route = route /\ flow'[f].to = CallbackHost(h, route) /\ flow'[f].result = "away" /\ f \in undisturbed'
      BY <1>3, <1>5, <2>1
    <3> QED
      BY <1>1, <1>7, <2>1, <3>1
  <2>2. CASE f \in Flows
    <3>1. flow'[f] = flow[f] /\ f # n /\ flow[f] \in FlowStates
      BY <1>3, <1>4, <2>2, FlowTyped DEF GoogleInv
    <3>2. flow[f].result = "signed in" => f # stateCookie[h]
      BY <2>2, SignedInIsNotHeld
    <3>3. f # NoState
      BY <2>2, GoogleAssumption, FlowTyped DEF GoogleInv
    <3>4. flow[f].from \in Hosts
      BY <3>1 DEF FlowStates
    <3> QED
      BY <1>5, <1>7, <2>2, <3>1, <3>2, <3>3, <3>4, OneFlow
  <2> QED
    BY <1>4, <2>1, <2>2
<1> QED
  BY <1>6, <1>8, <1>9 DEF GoogleInv

LEMMA CallbackInv == ASSUME GoogleInv, NEW f \in DOMAIN flow, Callback(f) PROVE GoogleInv'
<1> DEFINE back == flow[f].to
           held == stateCookie[back]
<1>1. f \in Flows /\ flow[f].result = "away" /\ flow[f] \in FlowStates /\ back \in Hosts /\ f # NoState
  BY FlowTyped, GoogleAssumption DEF Callback, GoogleInv, FlowStates
<1>2. CallbackResult(f) \in Results \ {"away"}
  BY DEF CallbackResult, Results
<1>3. [flow[f] EXCEPT !.result = CallbackResult(f)] \in FlowStates
  BY <1>1, <1>2 DEF FlowStates
<1>4. /\ flow' \in Seq(FlowStates) /\ Flows' = Flows
      /\ \A g \in Flows : g # f => flow'[g] = flow[g]
      /\ flow'[f] = [flow[f] EXCEPT !.result = CallbackResult(f)]
  BY <1>1, <1>3 DEF Callback, GoogleInv, GoogleTypeOK, Flows
<1>5. /\ flow'[f].result = CallbackResult(f) /\ flow'[f].to = back
      /\ flow'[f].from = flow[f].from /\ flow'[f].route = flow[f].route
  BY <1>1, <1>4 DEF FlowStates
<1>6. stateCookie' = [stateCookie EXCEPT ![back] = NoState] /\ undisturbed' = undisturbed \ ({held} \ {f})
  BY DEF Callback
<1>7. stateCookie'[back] = NoState /\ \A g \in Hosts : g # back => stateCookie'[g] = stateCookie[g]
  BY <1>1, <1>6 DEF GoogleInv, GoogleTypeOK
<1>8. GoogleTypeOK'
  BY <1>4, <1>6 DEF GoogleInv, GoogleTypeOK
<1>9. CookieIsOfItsHost'
  <2> SUFFICES ASSUME NEW g \in Hosts, stateCookie'[g] # NoState
               PROVE  /\ stateCookie'[g] \in undisturbed'
                      /\ flow'[stateCookie'[g]].from = g
                      /\ flow'[stateCookie'[g]].to = g => flow'[stateCookie'[g]].result = "away"
    BY DEF CookieIsOfItsHost
  <2>1. g # back /\ stateCookie'[g] = stateCookie[g] /\ stateCookie[g] # NoState
    BY <1>7
  <2>2. /\ stateCookie[g] \in Flows /\ stateCookie[g] \in undisturbed /\ flow[stateCookie[g]].from = g
        /\ flow[stateCookie[g]].to = g => flow[stateCookie[g]].result = "away"
    BY <2>1, CookieIsAFlow
  <2>3. held = stateCookie[g] => held = NoState
    BY <1>1, <2>1, <2>2, CookieIsAFlow
  <2>4. CASE stateCookie[g] = f
    BY <1>5, <1>6, <2>1, <2>2, <2>4
  <2>5. CASE stateCookie[g] # f
    BY <1>4, <1>6, <2>1, <2>2, <2>3, <2>5
  <2> QED
    BY <2>4, <2>5
<1>10. CallbackResult(f) = "signed in" => held = f /\ f \in undisturbed /\ flow[f].from = back
  BY <1>1, CookieIsAFlow DEF CallbackResult
<1>11. ASSUME f \in undisturbed, CallbackResult(f) # "refused"
       PROVE  CallbackResult(f) = "signed in" <=> ComesHome(f)
  <2>1. ComesHome(f) <=> back = flow[f].from
    BY <1>1, OneFlow
  <2>2. CASE back = flow[f].from
    <3>1. stateCookie[flow[f].from] = f
      BY <1>1, <1>11, OneFlow, Zenon
    <3>2. held = f /\ f # NoState
      BY <1>1, <2>2, <3>1, Zenon
    <3> QED
      BY <1>1, <1>11, <2>1, <2>2, <3>2 DEF CallbackResult
  <2>3. CASE back # flow[f].from
    BY <1>10, <2>1, <2>3
  <2> QED
    BY <2>2, <2>3
<1>12. FlowComesBack' /\ SignInComesBack'
  <2> SUFFICES ASSUME NEW g \in Flows'
               PROVE  /\ ComesHome(g)' <=> flow'[g].to = flow'[g].from
                      /\ flow'[g].result = "away" /\ g \in undisturbed' => stateCookie'[flow'[g].from] = g
                      /\ flow'[g].result = "signed in" => g \in undisturbed' /\ flow'[g].to = flow'[g].from
                      /\ flow'[g].result \notin {"away", "refused"} /\ g \in undisturbed'
                            => (flow'[g].result = "signed in" <=> ComesHome(g)')
    BY <1>8, FlowByFlow
  <2>1. CASE g = f
    BY <1>1, <1>2, <1>5, <1>6, <1>10, <1>11, <2>1, OneFlow
  <2>2. CASE g # f
    <3>1. flow'[g] = flow[g] /\ g \in Flows /\ g # NoState /\ flow[g].from \in Hosts
      BY <1>4, <2>2, FlowTyped, GoogleAssumption DEF GoogleInv, FlowStates
    <3>2. flow[g].result = "signed in" => g # held
      BY <1>1, <3>1, SignedInIsNotHeld
    <3>3. flow[g].result = "away" /\ g \in undisturbed' => flow[g].from # back
      BY <1>6, <2>2, <3>1, OneFlow
    <3> QED
      BY <1>6, <1>7, <3>1, <3>2, <3>3, OneFlow
  <2> QED
    BY <2>1, <2>2
<1> QED
  BY <1>8, <1>9, <1>12 DEF GoogleInv

LEMMA DeclinedInv == ASSUME GoogleInv, NEW f \in DOMAIN flow, Declined(f) PROVE GoogleInv'
<1>1. f \in Flows /\ flow[f] \in FlowStates /\ UNCHANGED <<stateCookie, undisturbed>>
  BY FlowTyped DEF Declined, GoogleInv
<1>2. [flow[f] EXCEPT !.code = FALSE] \in FlowStates
  BY <1>1 DEF FlowStates
<1>3. /\ flow' \in Seq(FlowStates) /\ Flows' = Flows
      /\ \A g \in Flows : flow'[g] = IF g = f THEN [flow[f] EXCEPT !.code = FALSE] ELSE flow[g]
  BY <1>1, <1>2 DEF Declined, GoogleInv, GoogleTypeOK, Flows
<1>4. \A g \in Flows : /\ flow'[g].from = flow[g].from
                       /\ flow'[g].route = flow[g].route
                       /\ flow'[g].to = flow[g].to
                       /\ flow'[g].result = flow[g].result
  BY <1>1, <1>3 DEF FlowStates
<1>5. GoogleTypeOK'
  BY <1>1, <1>3 DEF GoogleInv, GoogleTypeOK
<1>6. CookieIsOfItsHost'
  BY <1>1, <1>4, CookieIsAFlow DEF CookieIsOfItsHost
<1>7. FlowComesBack' /\ SignInComesBack'
  <2>1. ASSUME NEW g \in Flows
        PROVE  /\ ComesHome(g)' <=> flow'[g].to = flow'[g].from
               /\ flow'[g].result = "away" /\ g \in undisturbed' => stateCookie'[flow'[g].from] = g
               /\ flow'[g].result = "signed in" => g \in undisturbed' /\ flow'[g].to = flow'[g].from
               /\ flow'[g].result \notin {"away", "refused"} /\ g \in undisturbed'
                     => (flow'[g].result = "signed in" <=> ComesHome(g)')
    BY <1>1, <1>4, OneFlow
  <2> QED
    BY <1>3, <1>5, <2>1, FlowByFlow
<1> QED
  BY <1>5, <1>6, <1>7 DEF GoogleInv

LEMMA ExpiresInv == ASSUME GoogleInv, NEW h \in Hosts, StateExpires(h) PROVE GoogleInv'
<1>1. /\ stateCookie' = [stateCookie EXCEPT ![h] = NoState]
      /\ undisturbed' = undisturbed \ {stateCookie[h]}
      /\ flow' = flow /\ Flows' = Flows /\ stateCookie[h] # NoState
  BY DEF StateExpires, Flows
<1>2. stateCookie'[h] = NoState /\ \A g \in Hosts : g # h => stateCookie'[g] = stateCookie[g]
  BY <1>1 DEF GoogleInv, GoogleTypeOK
<1>3. GoogleTypeOK'
  BY <1>1 DEF GoogleInv, GoogleTypeOK
<1>4. CookieIsOfItsHost'
  BY <1>1, <1>2, CookieIsAFlow DEF CookieIsOfItsHost
<1>5. FlowComesBack' /\ SignInComesBack'
  <2> SUFFICES ASSUME NEW f \in Flows
               PROVE  /\ ComesHome(f) <=> flow[f].to = flow[f].from
                      /\ flow[f].result = "away" /\ f \in undisturbed' => stateCookie'[flow[f].from] = f
                      /\ flow[f].result = "signed in" => f \in undisturbed' /\ flow[f].to = flow[f].from
                      /\ flow[f].result \notin {"away", "refused"} /\ f \in undisturbed'
                            => (flow[f].result = "signed in" <=> ComesHome(f))
    BY <1>1, <1>3, FlowByFlow
  <2>1. flow[f].from \in Hosts
    BY FlowTyped DEF GoogleInv, FlowStates
  <2>2. flow[f].result = "signed in" => f # stateCookie[h]
    BY SignedInIsNotHeld
  <2> QED
    BY <1>1, <1>2, <2>1, <2>2, OneFlow
<1> QED
  BY <1>3, <1>4, <1>5 DEF GoogleInv

LEMMA InvStep == GoogleInv /\ [GoogleNext]_googleVars => GoogleInv'
<1> SUFFICES ASSUME GoogleInv, [GoogleNext]_googleVars PROVE GoogleInv'
  OBVIOUS
<1>1. CASE UNCHANGED googleVars
  BY <1>1 DEF googleVars, GoogleInv, GoogleTypeOK, Flows, CookieIsOfItsHost, FlowComesBack, SignInComesBack
<1> QED
  BY <1>1, StartInv, CallbackInv, DeclinedInv, ExpiresInv DEF GoogleNext

\* Where the state of every flow is.
THEOREM GoogleInvariant == GoogleSpec => []GoogleInv
  BY InvInit, InvStep, PTL DEF GoogleSpec

\* A flow nobody disturbed gets its student in, and nobody gets in with the
\* state of another flow.
THEOREM SignInsComeBack == GoogleSpec => []SignInComesBack
  BY GoogleInvariant, PTL DEF GoogleInv
=============================================================================
