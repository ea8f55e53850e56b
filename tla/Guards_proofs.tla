---------------------------- MODULE Guards_proofs ----------------------------
(***************************************************************************)
(* Theorems of what stands between the program and the outside services,   *)
(* for any number of threads, searches, questions, students and clocks:    *)
(* ClassSearch (slots, captures and what a live answer may be), Gemini-    *)
(* Budget (the ledger and the limits) and HostedSession (whose token a     *)
(* call is made with, and who is sent away).                               *)
(***************************************************************************)
EXTENDS ClassSearch, GeminiBudget, HostedSession, FiniteSetTheorems, TLAPS

-----------------------------------------------------------------------------
(* ClassSearch: the live course search.                                    *)
\* What a thread holds, and what the file it is about to read holds, by where it
\* is, and what the memo holds of a capture.
CaptureByPc ==
    \A t \in Threads :
        /\ pc[t] \in {"idle", "check", "sleep", "fetch"} => capture[t] = None
        /\ pc[t] = "note" => capture[t] \in Time /\ capture[t] <= now /\ now <= capture[t] + LockWait
        /\ pc[t] \in {"persist", "write"} => capture[t] \in Time /\ Recent(capture[t])
        /\ pc[t] = "load" => file[query[t]] = Torn \/ (file[query[t]] \in Time /\ Recent(file[query[t]]))
        /\ pc[t] = "done" => capture[t] = None \/ (capture[t] \in Time /\ Recent(capture[t]))
        /\ pc[t] \in {"write", "load"} => mode = "live"
        /\ pc[t] = "check" => reading[t] <= now /\ now <= reading[t] + LockWait

MemoIsNoted == \A q \in Queries : memo[q] # None => memo[q].stamp <= memo[q].capture + LockWait

\* While no sleep was cut, a thread that sleeps wakes with its slot or with the
\* lock, later than all that came before it.
Gap == MinInterval - LockWait

SleepsAreSpaced ==
    /\ sent # None => sent <= now
    /\ \A t \in Threads : pc[t] = "sleep" => now <= wake[t]
    /\ ~cut =>
        /\ sent # None => sent <= lastCall + LockWait
        /\ \A t \in Threads : pc[t] = "sleep" =>
              /\ wake[t] <= lastCall + LockWait
              /\ sent # None => sent + Gap <= wake[t]
              /\ \A u \in Threads : pc[u] = "sleep" /\ u # t =>
                    wake[t] + Gap <= wake[u] \/ wake[u] + Gap <= wake[t]

SearchInv == TypeOK /\ CaptureByPc /\ MemoIsNoted /\ SleepsAreSpaced

LEMMA TypeInit == Init => TypeOK
<1> SUFFICES ASSUME Init PROVE TypeOK
  OBVIOUS
<1>1. cut \in BOOLEAN
  BY DEF Init
<1> QED
  BY <1>1, SearchAssumption DEF Init, TypeOK, Time

LEMMA SearchInit == Init => SearchInv
<1> SUFFICES ASSUME Init PROVE SearchInv
  OBVIOUS
<1>1. TypeOK
  BY TypeInit
<1>2. CaptureByPc /\ MemoIsNoted
  BY DEF Init, CaptureByPc, MemoIsNoted
<1>3. SleepsAreSpaced
  BY DEF Init, SleepsAreSpaced
<1> QED
  BY <1>1, <1>2, <1>3 DEF SearchInv

\* What a check that finds nothing does to the slot and the sleep.
LEMMA SlotTaken ==
    ASSUME TypeOK, NEW t \in Threads
    PROVE  /\ Wait(t) \in Int /\ Slot(t) \in Int
           /\ now + Later(0, Sooner(Wait(t), MinInterval)) \in Nat
           /\ Slot(t) >= reading[t] /\ Slot(t) >= lastCall + MinInterval
           /\ Wait(t) <= MinInterval =>
                now + Later(0, Sooner(Wait(t), MinInterval)) = Slot(t) + (now - reading[t])
<1>1. now \in Nat /\ lastCall \in Int /\ reading[t] \in Nat /\ MinInterval \in Nat
  BY SearchAssumption DEF TypeOK, Time
<1> QED
  BY <1>1 DEF Wait, Slot, Later, Sooner

\* One step keeps every variable in its range.
LEMMA TypeStep == TypeOK /\ CaptureByPc /\ [Next]_vars => TypeOK'
<1> SUFFICES ASSUME TypeOK, CaptureByPc, [Next]_vars PROVE TypeOK'
  OBVIOUS
<1> USE SearchAssumption DEF Time
<1>1. ASSUME NEW t \in Threads, Search(t) PROVE TypeOK'
  BY <1>1 DEF TypeOK, Search, Goto
<1>2. ASSUME NEW t \in Threads, Check(t) PROVE TypeOK'
  <2>1. CASE Remembered(t) /\ Hold(t, memo[query[t]].capture) /\ Goto(t, "persist")
             /\ lock' = t /\ UNCHANGED <<lastCall, wake, cut>>
    <3>1. memo[query[t]].capture \in 0..MaxTime
      BY <2>1 DEF TypeOK, Remembered
    <3> QED
      BY <1>2, <2>1, <3>1 DEF TypeOK, Check, Goto, Hold
  <2>2. CASE /\ Goto(t, "sleep") /\ UNCHANGED <<lock, capture>> /\ lastCall' = Slot(t)
             /\ wake' = [wake EXCEPT ![t] = now + Later(0, Sooner(Wait(t), MinInterval))]
             /\ cut' = (cut \/ Wait(t) > MinInterval)
    BY <1>2, <2>2, SlotTaken DEF TypeOK, Check, Goto
  <2> QED
    BY <1>2, <2>1, <2>2 DEF Check
<1>3. ASSUME NEW t \in Threads, Request(t) PROVE TypeOK'
  BY <1>3 DEF TypeOK, Request, Goto
<1>4. ASSUME NEW t \in Threads, Answered(t) PROVE TypeOK'
  BY <1>4 DEF TypeOK, Answered, Goto, Hold
<1>5. ASSUME NEW t \in Threads, Unanswered(t) PROVE TypeOK'
  BY <1>5 DEF TypeOK, Unanswered, Goto
<1>6. ASSUME NEW t \in Threads, Persist(t) PROVE TypeOK'
  BY <1>6 DEF TypeOK, Persist, Goto, Hold, Release
<1>7. ASSUME NEW t \in Threads, Write(t) PROVE TypeOK'
  BY <1>7 DEF TypeOK, Write, Goto, Hold, Release
<1>8. ASSUME NEW t \in Threads, Load(t) PROVE TypeOK'
  BY <1>8 DEF TypeOK, Load, Goto, Hold, Release
<1>9. ASSUME NEW t \in Threads, Return(t) PROVE TypeOK'
  BY <1>9 DEF TypeOK, Return, Goto, Hold
<1>10. CASE Tick
  BY <1>10 DEF TypeOK, Tick
<1>11. CASE Restart
  <2>1. cut' \in BOOLEAN
    BY <1>11 DEF Restart
  <2> QED
    BY <1>11, <2>1 DEF TypeOK, Restart
<1>12. CASE UNCHANGED vars
  BY <1>12 DEF TypeOK, vars
<1>13. ASSUME NEW t \in Threads, Note(t) PROVE TypeOK'
  <2>1. [stamp |-> now, capture |-> capture[t]] \in [stamp : 0..MaxTime, capture : 0..MaxTime]
    BY <1>13 DEF TypeOK, CaptureByPc, Note
  <2> QED
    BY <1>13, <2>1 DEF TypeOK, Note, Goto
<1> QED
  BY <1>1, <1>2, <1>3, <1>4, <1>5, <1>6, <1>7, <1>8, <1>9, <1>10, <1>11, <1>12, <1>13 DEF Next, Step

\* A step of t leaves what other threads hold, and either leaves the file of a
\* thread that is about to read, or tears it, or puts a recent capture in it.
LEMMA CaptureStep == TypeOK /\ CaptureByPc /\ MemoIsNoted /\ [Next]_vars => CaptureByPc'
<1> SUFFICES ASSUME TypeOK, CaptureByPc, MemoIsNoted, [Next]_vars PROVE CaptureByPc'
  OBVIOUS
<1> USE SearchAssumption DEF Time, Recent
<1>1. ASSUME NEW t \in Threads, Search(t) PROVE CaptureByPc'
  BY <1>1 DEF TypeOK, CaptureByPc, Search, Goto
<1>2. ASSUME NEW t \in Threads, Check(t) PROVE CaptureByPc'
  <2>1. CASE Remembered(t) /\ Hold(t, memo[query[t]].capture) /\ Goto(t, "persist")
    <3>1. /\ memo[query[t]].capture \in 0..MaxTime /\ memo[query[t]].stamp \in 0..MaxTime
          /\ memo[query[t]].stamp <= memo[query[t]].capture + LockWait
          /\ reading[t] - memo[query[t]].stamp < LiveTTL
      BY <2>1 DEF TypeOK, Remembered, MemoIsNoted
    <3>2. now <= reading[t] + LockWait /\ now \in Nat /\ reading[t] \in Nat
      BY <1>2 DEF Check, CaptureByPc, TypeOK
    <3>3. now - memo[query[t]].capture < LiveTTL + 2 * LockWait
      BY <3>1, <3>2
    <3> DEFINE c == memo[query[t]].capture
    <3> HIDE DEF c
    <3>4. Hold(t, c) /\ c \in 0..MaxTime /\ now - c < LiveTTL + 2 * LockWait
      BY <2>1, <3>1, <3>3 DEF c
    <3> QED
      BY <1>2, <2>1, <3>4 DEF TypeOK, CaptureByPc, Check, Goto, Hold
  <2>2. CASE Goto(t, "sleep") /\ UNCHANGED capture
    BY <1>2, <2>2 DEF TypeOK, CaptureByPc, Check, Goto
  <2> QED
    BY <1>2, <2>1, <2>2 DEF Check
<1>3. ASSUME NEW t \in Threads, Request(t) PROVE CaptureByPc'
  BY <1>3 DEF TypeOK, CaptureByPc, Request, Goto
<1>4. ASSUME NEW t \in Threads, Answered(t) PROVE CaptureByPc'
  BY <1>4 DEF TypeOK, CaptureByPc, Answered, Goto, Hold
<1>5. ASSUME NEW t \in Threads, Unanswered(t) PROVE CaptureByPc'
  BY <1>5 DEF TypeOK, CaptureByPc, Unanswered, Goto
<1>6. ASSUME NEW t \in Threads, Persist(t) PROVE CaptureByPc'
  BY <1>6 DEF TypeOK, CaptureByPc, Persist, Goto, Hold
<1>7. ASSUME NEW t \in Threads, Write(t) PROVE CaptureByPc'
  BY <1>7 DEF TypeOK, CaptureByPc, Write, Goto, Hold
<1>8. ASSUME NEW t \in Threads, Load(t) PROVE CaptureByPc'
  BY <1>8 DEF TypeOK, CaptureByPc, Load, Goto, Hold
<1>9. ASSUME NEW t \in Threads, Return(t) PROVE CaptureByPc'
  BY <1>9 DEF TypeOK, CaptureByPc, Return, Goto, Hold
<1>10. CASE Tick
  BY <1>10 DEF TypeOK, CaptureByPc, Tick
<1>11. CASE Restart
  BY <1>11 DEF TypeOK, CaptureByPc, Restart
<1>12. CASE UNCHANGED vars
  BY <1>12 DEF TypeOK, CaptureByPc, vars
<1>13. ASSUME NEW t \in Threads, Note(t) PROVE CaptureByPc'
  <2>1. capture[t] \in 0..MaxTime /\ now - capture[t] < LiveTTL + 2 * LockWait
    <3>1. capture[t] \in 0..MaxTime /\ now <= capture[t] + LockWait
      BY <1>13 DEF Note, CaptureByPc
    <3>2. now \in Nat /\ LockWait \in Nat /\ LiveTTL \in Nat \ {0}
      BY DEF TypeOK
    <3> QED
      BY <3>1, <3>2
  <2> QED
    BY <1>13, <2>1 DEF TypeOK, CaptureByPc, Note, Goto
<1> QED
  BY <1>1, <1>2, <1>3, <1>4, <1>5, <1>6, <1>7, <1>8, <1>9, <1>10, <1>11, <1>12, <1>13 DEF Next, Step

LEMMA MemoStep == TypeOK /\ CaptureByPc /\ MemoIsNoted /\ [Next]_vars => MemoIsNoted'
<1> SUFFICES ASSUME TypeOK, CaptureByPc, MemoIsNoted, [Next]_vars PROVE MemoIsNoted'
  OBVIOUS
<1>1. ASSUME NEW t \in Threads, Note(t) PROVE MemoIsNoted'
  <2>1. memo' = [memo EXCEPT ![query[t]] = [stamp |-> now, capture |-> capture[t]]] /\ now <= capture[t] + LockWait
    BY <1>1 DEF Note, CaptureByPc
  <2> QED
    BY <2>1 DEF MemoIsNoted, TypeOK
<1>2. CASE Restart
  BY <1>2 DEF Restart, MemoIsNoted
<1>3. UNCHANGED memo => MemoIsNoted'
  BY DEF MemoIsNoted
<1>4. (\A t \in Threads : ~Note(t)) /\ ~Restart => UNCHANGED memo
  BY DEF Next, Step, Search, Check, Request, Answered, Unanswered, Persist, Write, Load, Return, Tick, vars
<1> QED
  BY <1>1, <1>2, <1>3, <1>4

\* A check adds a sleeper that wakes after all others; a request is of the
\* sleeper that wakes now, which no other may do within the gap.
LEMMA SleepStep == SearchInv /\ [Next]_vars => SleepsAreSpaced'
<1> SUFFICES ASSUME SearchInv, [Next]_vars PROVE SleepsAreSpaced'
  OBVIOUS
<1>0. /\ now \in Nat /\ MinInterval \in Nat /\ LockWait \in Nat /\ lastCall \in Int /\ Gap \in Int
      /\ Gap = MinInterval - LockWait
      /\ (sent # None => sent \in Nat) /\ None \notin Int
      /\ \A t \in Threads : wake[t] \in Nat /\ reading[t] \in Nat
  BY SearchAssumption DEF SearchInv, TypeOK, Time, Gap
<1>1. ASSUME NEW t \in Threads, Check(t) PROVE SleepsAreSpaced'
  <2>1. CASE Goto(t, "persist") /\ UNCHANGED <<lastCall, wake, cut>>
    BY <1>1, <2>1 DEF SearchInv, TypeOK, SleepsAreSpaced, Check, Goto
  <2>2. CASE /\ Goto(t, "sleep") /\ lastCall' = Slot(t)
             /\ wake' = [wake EXCEPT ![t] = now + Later(0, Sooner(Wait(t), MinInterval))]
             /\ cut' = (cut \/ Wait(t) > MinInterval)
    <3> DEFINE slot == Slot(t)
               up == now + Later(0, Sooner(Wait(t), MinInterval))
    <3>1. /\ slot \in Int /\ up \in Nat /\ slot >= lastCall + MinInterval
          /\ ~cut' => up = slot + (now - reading[t])
      <4>1. ~cut' => ~(Wait(t) > MinInterval)
        BY <2>2
      <4>2. Wait(t) \in Int /\ MinInterval \in Nat /\ TypeOK
        BY <1>0, SlotTaken DEF SearchInv
      <4>3. ~cut' => Wait(t) <= MinInterval
        BY <4>1, <4>2
      <4> QED
        BY <4>2, <4>3, SlotTaken
    <3>2. now <= up
      <4>1. Wait(t) \in Int
        BY SlotTaken DEF SearchInv
      <4> QED
        BY <1>0, <4>1 DEF Later, Sooner
    <3>3. now <= reading[t] + LockWait /\ reading[t] <= now /\ pc[t] = "check"
      BY <1>1 DEF SearchInv, CaptureByPc, Check
    <3>4. /\ UNCHANGED <<now, sent>> /\ lastCall' = slot
          /\ wake'[t] = up /\ pc'[t] = "sleep"
          /\ \A u \in Threads : u # t => wake'[u] = wake[u] /\ pc'[u] = pc[u]
      BY <1>1, <2>2 DEF SearchInv, TypeOK, Check, Goto
    <3> HIDE DEF slot, up
    <3>5. ~cut' => ~cut /\ slot <= up /\ up <= slot + LockWait
      <4>1. ~cut' => ~cut
        BY <2>2
      <4>2. ~cut' => slot <= up /\ up <= slot + LockWait
        BY <1>0, <3>1, <3>3
      <4> QED
        BY <4>1, <4>2
    <3>6. \A u \in Threads : pc'[u] = "sleep" => now <= wake'[u]
      BY <3>2, <3>4 DEF SearchInv, SleepsAreSpaced
    <3>7. ASSUME ~cut', sent # None PROVE sent <= slot + LockWait /\ sent + Gap <= up
      <4>1. sent <= lastCall + LockWait
        BY <3>5, <3>7 DEF SearchInv, SleepsAreSpaced
      <4> QED
        BY <1>0, <3>1, <3>5, <3>7, <4>1
    <3>8. ASSUME ~cut', NEW u \in Threads, u # t, pc[u] = "sleep"
          PROVE  /\ wake[u] <= slot + LockWait /\ wake[u] + Gap <= up
                 /\ sent # None => sent + Gap <= wake[u]
      <4>1. wake[u] <= lastCall + LockWait /\ (sent # None => sent + Gap <= wake[u])
        BY <3>5, <3>8 DEF SearchInv, SleepsAreSpaced
      <4> QED
        BY <1>0, <3>1, <3>5, <3>8, <4>1
    <3>9. ASSUME ~cut', NEW u \in Threads, NEW v \in Threads, u # v, u # t, v # t, pc[u] = "sleep", pc[v] = "sleep"
          PROVE  wake[u] + Gap <= wake[v] \/ wake[v] + Gap <= wake[u]
      BY <3>5, <3>9 DEF SearchInv, SleepsAreSpaced
    <3>10. sent' # None => sent' <= now'
      BY <3>4 DEF SearchInv, SleepsAreSpaced
    <3>11. Gap' = Gap
      BY DEF Gap
    <3>12. ASSUME ~cut', NEW x \in Threads, pc'[x] = "sleep"
           PROVE  /\ wake'[x] <= lastCall' + LockWait
                  /\ sent' # None => sent' + Gap <= wake'[x]
                  /\ \A u \in Threads : pc'[u] = "sleep" /\ u # x =>
                        wake'[x] + Gap <= wake'[u] \/ wake'[u] + Gap <= wake'[x]
      <4>1. CASE x = t
        <5>1. wake'[x] <= lastCall' + LockWait /\ (sent' # None => sent' + Gap <= wake'[x])
          BY <3>4, <3>5, <3>7, <3>12, <4>1
        <5>2. ASSUME NEW u \in Threads, pc'[u] = "sleep", u # x
              PROVE  wake'[u] + Gap <= wake'[x]
          BY <3>4, <3>8, <3>12, <4>1, <5>2
        <5> QED
          BY <5>1, <5>2
      <4>2. CASE x # t
        <5>1. wake'[x] <= lastCall' + LockWait /\ (sent' # None => sent' + Gap <= wake'[x])
          BY <3>4, <3>8, <3>12, <4>2
        <5>2. ASSUME NEW u \in Threads, pc'[u] = "sleep", u # x
              PROVE  wake'[x] + Gap <= wake'[u] \/ wake'[u] + Gap <= wake'[x]
          <6>1. CASE u = t
            BY <3>4, <3>8, <3>12, <4>2, <6>1
          <6>2. CASE u # t
            BY <3>4, <3>9, <3>12, <4>2, <5>2, <6>2
          <6> QED
            BY <6>1, <6>2
        <5> QED
          BY <5>1, <5>2
      <4> QED
        BY <4>1, <4>2
    <3>13. ~cut' => (sent' # None => sent' <= lastCall' + LockWait)
      BY <3>4, <3>7
    <3> QED
      BY <3>4, <3>6, <3>10, <3>11, <3>12, <3>13 DEF SleepsAreSpaced
  <2> QED
    BY <1>1, <2>1, <2>2 DEF Check
<1>2. ASSUME NEW t \in Threads, Request(t) PROVE SleepsAreSpaced'
  <2>1. /\ sent' = now /\ UNCHANGED <<now, lastCall, cut>> /\ pc'[t] = "fetch" /\ pc[t] = "sleep"
        /\ \A u \in Threads : u # t => wake'[u] = wake[u] /\ pc'[u] = pc[u]
        /\ now = wake[t]
    <3>1. /\ sent' = now /\ UNCHANGED <<now, lastCall, cut>> /\ pc[t] = "sleep" /\ now >= wake[t]
          /\ wake' = [wake EXCEPT ![t] = 0] /\ pc' = [pc EXCEPT ![t] = "fetch"]
      BY <1>2 DEF Request, Goto
    <3>2. now <= wake[t]
      BY <3>1 DEF SearchInv, SleepsAreSpaced
    <3>3. now = wake[t]
      BY <1>0, <3>1, <3>2
    <3>4. pc'[t] = "fetch" /\ \A u \in Threads : u # t => wake'[u] = wake[u] /\ pc'[u] = pc[u]
      BY <3>1 DEF SearchInv, TypeOK
    <3> QED
      BY <3>1, <3>3, <3>4
  <2>2. ASSUME ~cut PROVE now <= lastCall + LockWait
    BY <2>1, <2>2 DEF SearchInv, SleepsAreSpaced
  <2>3. ASSUME ~cut, NEW u \in Threads, u # t, pc[u] = "sleep" PROVE now + Gap <= wake[u]
    <3>1. wake[t] + Gap <= wake[u] \/ wake[u] + Gap <= wake[t]
      BY <2>1, <2>3 DEF SearchInv, SleepsAreSpaced
    <3>2. now <= wake[u]
      BY <2>3 DEF SearchInv, SleepsAreSpaced
    <3> QED
      BY <1>0, <2>1, <3>1, <3>2
  <2>4. Gap' = Gap
    BY DEF Gap
  <2>5. ASSUME ~cut', NEW x \in Threads, pc'[x] = "sleep"
        PROVE  /\ wake'[x] <= lastCall' + LockWait
               /\ sent' # None => sent' + Gap <= wake'[x]
               /\ \A u \in Threads : pc'[u] = "sleep" /\ u # x =>
                     wake'[x] + Gap <= wake'[u] \/ wake'[u] + Gap <= wake'[x]
    <3>1. x # t /\ pc[x] = "sleep" /\ ~cut
      BY <2>1, <2>5
    <3>2. wake[x] <= lastCall + LockWait
      BY <3>1 DEF SearchInv, SleepsAreSpaced
    <3>3. \A u \in Threads : pc[u] = "sleep" /\ u # x => wake[x] + Gap <= wake[u] \/ wake[u] + Gap <= wake[x]
      BY <3>1 DEF SearchInv, SleepsAreSpaced
    <3>4. \A u \in Threads : pc'[u] = "sleep" => u # t /\ pc[u] = "sleep" /\ wake'[u] = wake[u]
      BY <2>1
    <3> QED
      BY <2>1, <2>3, <3>1, <3>2, <3>3, <3>4
  <2>6. \A u \in Threads : pc'[u] = "sleep" => now' <= wake'[u]
    BY <2>1 DEF SearchInv, SleepsAreSpaced
  <2>7. sent' # None => sent' <= now'
    BY <1>0, <2>1
  <2>8. ~cut' => (sent' # None => sent' <= lastCall' + LockWait)
    BY <2>1, <2>2
  <2> QED
    BY <2>4, <2>5, <2>6, <2>7, <2>8 DEF SleepsAreSpaced
<1>3. ASSUME NEW t \in Threads,
             Search(t) \/ Answered(t) \/ Note(t) \/ Unanswered(t) \/ Persist(t) \/ Write(t) \/ Load(t) \/ Return(t)
      PROVE  SleepsAreSpaced'
  <2>1. UNCHANGED <<now, lastCall, wake, sent, cut>> /\ \A u \in Threads : pc'[u] = "sleep" => pc[u] = "sleep"
    BY <1>3 DEF SearchInv, TypeOK, Search, Answered, Note, Unanswered, Persist, Write, Load, Return, Goto
  <2>2. Gap' = Gap
    BY DEF Gap
  <2> QED
    BY <2>1, <2>2 DEF SearchInv, SleepsAreSpaced
<1>4. CASE Tick
  <2>1. /\ now' = now + 1 /\ UNCHANGED <<lastCall, pc, wake, sent, cut>> /\ Gap' = Gap
        /\ \A t \in Threads : pc[t] = "sleep" => now + 1 <= wake[t]
    BY <1>0, <1>4 DEF Tick, Gap
  <2>2. sent' # None => sent' <= now'
    BY <1>0, <2>1 DEF SearchInv, SleepsAreSpaced
  <2> QED
    BY <2>1, <2>2 DEF SearchInv, SleepsAreSpaced
<1>5. CASE Restart
  BY <1>5 DEF Restart, SleepsAreSpaced
<1>6. CASE UNCHANGED vars
  BY <1>6 DEF vars, SearchInv, SleepsAreSpaced, Gap
<1> QED
  BY <1>1, <1>2, <1>3, <1>4, <1>5, <1>6 DEF Next, Step

LEMMA SearchStep == SearchInv /\ [Next]_vars => SearchInv'
  BY TypeStep, CaptureStep, MemoStep, SleepStep DEF SearchInv
-----------------------------------------------------------------------------
\* Every variable of live_snapshot keeps its type.
THEOREM TypeCorrect == Spec => []TypeOK
<1>1. SearchInv => TypeOK
  BY DEF SearchInv
<1> QED
  BY <1>1, SearchInit, SearchStep, PTL DEF Spec

\* An answer labelled live is a whole capture, less than LIVE_TTL_S old give or
\* take the waits for the lock, although every thread of a query writes and reads
\* the same file in place.
THEOREM LiveAnswersAreRecent == Spec => []LiveIsRecent
<1>1. SearchInv => LiveIsRecent
  BY SearchAssumption DEF SearchInv, CaptureByPc, LiveIsRecent, Time
<1> QED
  BY <1>1, SearchInit, SearchStep, PTL DEF Spec

\* The files of a process whose CACHE_DIR is fixtures/ are never written: only a
\* thread that persists writes, and none gets that far outside "live".
THEOREM ReplayStoreIsSafe == Spec => FixturesUntouched
<1>1. SearchInv /\ [Next]_vars => [mode # "live" => UNCHANGED file]_vars
  BY DEF SearchInv, CaptureByPc, Next, Step, Search, Check, Request, Answered, Unanswered, Note,
         Persist, Write, Load, Return, Tick, Restart, vars
<1> QED
  BY <1>1, SearchInit, SearchStep, PTL DEF Spec, FixturesUntouched

\* The requests are MinInterval apart, less the wait for the lock, in whatever
\* order old readings get it, until some thread has to wait longer than it sleeps.
THEOREM FullSleepsAreSpaced == Spec => FullSleepsSpace
<1>1. SearchInv => \A t \in Threads : Request(t) /\ sent # None /\ ~cut => now - sent >= MinInterval - LockWait
  <2> SUFFICES ASSUME SearchInv, NEW t \in Threads, Request(t), sent # None, ~cut
               PROVE  now - sent >= MinInterval - LockWait
    OBVIOUS
  <2>1. sent + Gap <= wake[t] /\ now >= wake[t]
    BY DEF SearchInv, SleepsAreSpaced, Request
  <2>2. sent \in Nat /\ now \in Nat /\ wake[t] \in Nat /\ MinInterval \in Nat /\ LockWait \in Nat
    BY SearchAssumption DEF SearchInv, TypeOK, Time
  <2> QED
    BY <2>1, <2>2 DEF Gap
<1>2. SearchInv /\ [Next]_vars =>
        [\A t \in Threads : Request(t) /\ sent # None /\ ~cut => now - sent >= MinInterval - LockWait]_vars
  BY <1>1
<1> QED
  BY <1>2, SearchInit, SearchStep, PTL DEF Spec, FullSleepsSpace

-----------------------------------------------------------------------------
(* GeminiBudget: the two budgets of the shared key.                        *)
\* What is known of the clocks, the calls and the questions at any time.
CallStamps == [made : Nat, stamp : Nat]

BudgetTypeOK ==
    /\ time \in Nat /\ limits \in [hour : HourLimits, day : DayLimits]
    /\ calls \in Seq(CallStamps) /\ ledger \subseteq DOMAIN calls
    /\ asked \in [Clients -> Seq(Nat)]
    /\ queue \in [Clients -> SUBSET Nat] /\ \A c \in Clients : queue[c] \subseteq DOMAIN asked[c]
    /\ at \in [Askers -> {"idle", "turn", "reserve"}] /\ clock \in [Askers -> Nat]

ClocksAreLate ==
    /\ \A t \in Askers : at[t] = "reserve" => clock[t] <= time /\ time - clock[t] <= Lag
    /\ \A i \in DOMAIN calls :
          calls[i].made <= time /\ calls[i].stamp <= calls[i].made /\ calls[i].made - calls[i].stamp <= Lag
    /\ \A c \in Clients : \A i \in DOMAIN asked[c] : asked[c][i] <= time

QueueIsComplete ==
    \A c \in Clients : \A i \in DOMAIN asked[c] : time - asked[c][i] < Hour => i \in queue[c]

ClientsWithinLimit == \A c \in Clients : \A x \in Nat : Cardinality(AskedIn(c, x)) <= ClientLimit

BudgetInv == BudgetTypeOK /\ ClocksAreLate /\ QueueIsComplete /\ ClientsWithinLimit

\* The guard of one span, an hour or a day, and its limit.
Complete(span) == \A i \in DOMAIN calls : time - calls[i].stamp < span => i \in ledger
Limited(span, limit) == \A x \in Nat : Cardinality(CallsIn(x, span - Lag)) <= limit

Guards == {<<Hour, limits.hour>>, <<Day, limits.day>>}

\* What the file cannot hold goes in the order of the stamps: all it holds is
\* later than a missing call of the day, give or take a wait for the lock.
OldestGoFirst ==
    \A i \in DOMAIN calls : time - calls[i].stamp < Day - Lag /\ i \notin ledger =>
        Cardinality(ledger) = Keep /\ \A k \in ledger : calls[i].stamp - Lag <= calls[k].stamp
-----------------------------------------------------------------------------
LEMMA OneMore ==
    ASSUME NEW S, IsFiniteSet(S), NEW T, NEW e, T \subseteq S \cup {e}, NEW m \in Nat, Cardinality(S) < m
    PROVE  IsFiniteSet(T) /\ Cardinality(T) <= m
<1>0. Cardinality(S) \in Nat
  BY FS_CardinalityType
<1>1. IsFiniteSet(S \cup {e}) /\ Cardinality(S \cup {e}) <= Cardinality(S) + 1
  <2>1. /\ IsFiniteSet(S \cup {e})
        /\ Cardinality(S \cup {e}) = IF e \in S THEN Cardinality(S) ELSE Cardinality(S) + 1
    BY FS_AddElement
  <2> QED
    BY <1>0, <2>1
<1>2. IsFiniteSet(T) /\ Cardinality(T) <= Cardinality(S \cup {e})
  BY <1>1, FS_Subset
<1>3. Cardinality(T) \in Nat /\ Cardinality(S \cup {e}) \in Nat
  BY <1>1, <1>2, FS_CardinalityType
<1> QED
  BY <1>0, <1>1, <1>2, <1>3

LEMMA PartFinite == ASSUME NEW A, NEW s \in Seq(A), NEW S \in SUBSET DOMAIN s PROVE IsFiniteSet(S) /\ Cardinality(S) \in Nat
<1>1. IsFiniteSet(1..Len(s)) /\ DOMAIN s = 1..Len(s)
  BY FS_Interval
<1> QED
  BY <1>1, FS_Subset, FS_CardinalityType

\* A sequence with one element more.
LEMMA Appended ==
    ASSUME NEW A, NEW s \in Seq(A), NEW e \in A
    PROVE  /\ Append(s, e) \in Seq(A) /\ Len(Append(s, e)) = Len(s) + 1 /\ Len(s) + 1 \notin DOMAIN s
           /\ DOMAIN Append(s, e) = DOMAIN s \cup {Len(s) + 1}
           /\ \A i \in DOMAIN s : Append(s, e)[i] = s[i]
           /\ Append(s, e)[Len(s) + 1] = e
  OBVIOUS

LEMMA CallTyped == ASSUME BudgetTypeOK, NEW i \in DOMAIN calls PROVE calls[i].made \in Nat /\ calls[i].stamp \in Nat
<1>1. calls[i] \in CallStamps
  BY DEF BudgetTypeOK
<1> QED
  BY <1>1 DEF CallStamps

LEMMA AskedTyped == ASSUME BudgetTypeOK, NEW c \in Clients, NEW i \in DOMAIN asked[c] PROVE asked[c][i] \in Nat
<1>1. asked[c] \in Seq(Nat)
  BY DEF BudgetTypeOK
<1> QED
  BY <1>1

LEMMA BudgetInvInit == BudgetInit => BudgetInv
<1> SUFFICES ASSUME BudgetInit PROVE BudgetInv
  OBVIOUS
<1>1. BudgetTypeOK /\ ClocksAreLate /\ QueueIsComplete
  BY BudgetAssumption DEF BudgetInit, BudgetTypeOK, ClocksAreLate, QueueIsComplete
<1>2. \A c \in Clients : \A x \in Nat : AskedIn(c, x) = {}
  BY DEF BudgetInit, AskedIn
<1>3. ClientsWithinLimit
  BY <1>2, FS_EmptySet, BudgetAssumption DEF ClientsWithinLimit
<1> QED
  BY <1>1, <1>3 DEF BudgetInv

\* A question that is let in is the only one its hour gains, and the queue knew
\* the others.
LEMMA AskInv == ASSUME BudgetInv, NEW t \in Askers, NEW c \in Clients, Ask(t, c), UNCHANGED limits PROVE BudgetInv'
<1>0. /\ asked[c] \in Seq(Nat) /\ queue[c] \subseteq DOMAIN asked[c] /\ time \in Nat /\ Hour \in Nat /\ ClientLimit \in Nat
      /\ UNCHANGED <<time, ledger, clock, turn, calls, faults>>
      /\ Unexpired(c) \subseteq queue[c]
  BY BudgetAssumption DEF BudgetInv, BudgetTypeOK, Ask, Unexpired
<1>1. CASE ~HasRoom(c)
  <2>1. queue' = [queue EXCEPT ![c] = Unexpired(c)] /\ UNCHANGED <<asked, at>>
    BY <1>1 DEF Ask
  <2>2. BudgetTypeOK' /\ ClocksAreLate'
    BY <1>0, <2>1 DEF BudgetInv, BudgetTypeOK, ClocksAreLate
  <2>3. QueueIsComplete'
    BY <1>0, <2>1 DEF BudgetInv, BudgetTypeOK, QueueIsComplete, Unexpired
  <2>4. ClientsWithinLimit'
    BY <2>1 DEF BudgetInv, ClientsWithinLimit, AskedIn
  <2> QED
    BY <2>2, <2>3, <2>4 DEF BudgetInv
<1>2. CASE HasRoom(c)
  <2> DEFINE new == Append(asked[c], time)
             k == Len(asked[c]) + 1
  <2>1. /\ new \in Seq(Nat) /\ Len(new) = k /\ DOMAIN new = DOMAIN asked[c] \cup {k}
        /\ k \notin DOMAIN asked[c] /\ new[k] = time /\ k \in Nat
        /\ \A i \in DOMAIN asked[c] : new[i] = asked[c][i]
    BY <1>0, Appended
  <2> HIDE DEF new
  <2>2. asked' = [asked EXCEPT ![c] = new] /\ queue' = [queue EXCEPT ![c] = Unexpired(c) \cup {Len(asked'[c])}]
        /\ at' = [at EXCEPT ![t] = "turn"]
    BY <1>2 DEF Ask, Go, new
  <2>3. asked'[c] = new /\ queue'[c] = Unexpired(c) \cup {k}
        /\ \A d \in Clients : d # c => asked'[d] = asked[d] /\ queue'[d] = queue[d]
    BY <2>1, <2>2 DEF BudgetInv, BudgetTypeOK
  <2>4. BudgetTypeOK'
    <3>1. asked' \in [Clients -> Seq(Nat)] /\ at' \in [Askers -> {"idle", "turn", "reserve"}]
      BY <2>1, <2>2 DEF BudgetInv, BudgetTypeOK
    <3>2. queue'[c] \subseteq DOMAIN asked'[c] /\ queue'[c] \subseteq Nat
      BY <1>0, <2>1, <2>3
    <3>3. queue' \in [Clients -> SUBSET Nat]
      BY <2>2, <2>3, <3>2 DEF BudgetInv, BudgetTypeOK
    <3> QED
      BY <1>0, <2>3, <3>1, <3>2, <3>3 DEF BudgetInv, BudgetTypeOK
  <2>5. ClocksAreLate'
    <3>1. \A x \in Askers : at'[x] = "reserve" => at[x] = "reserve"
      BY <2>2 DEF BudgetInv, BudgetTypeOK
    <3>2. \A d \in Clients : \A i \in DOMAIN asked'[d] : asked'[d][i] <= time
      <4> SUFFICES ASSUME NEW d \in Clients, NEW i \in DOMAIN asked'[d] PROVE asked'[d][i] <= time
        OBVIOUS
      <4>1. CASE d = c /\ i = k
        BY <1>0, <2>1, <2>3, <4>1
      <4>2. CASE ~(d = c /\ i = k)
        BY <2>1, <2>3, <4>2 DEF BudgetInv, ClocksAreLate
      <4> QED
        BY <4>1, <4>2
    <3> QED
      BY <1>0, <3>1, <3>2 DEF BudgetInv, ClocksAreLate
  <2>6. QueueIsComplete'
    <3> SUFFICES ASSUME NEW d \in Clients, NEW i \in DOMAIN asked'[d], time - asked'[d][i] < Hour
                 PROVE  i \in queue'[d]
      BY <1>0 DEF QueueIsComplete
    <3>1. CASE d # c
      BY <2>3, <3>1 DEF BudgetInv, QueueIsComplete
    <3>2. CASE d = c /\ i = k
      BY <2>3, <3>2
    <3>3. CASE d = c /\ i # k
      BY <2>1, <2>3, <3>3 DEF BudgetInv, QueueIsComplete, Unexpired
    <3> QED
      BY <3>1, <3>2, <3>3
  <2>7. ClientsWithinLimit'
    <3> SUFFICES ASSUME NEW d \in Clients, NEW x \in Nat PROVE Cardinality(AskedIn(d, x)') <= ClientLimit
      BY DEF ClientsWithinLimit
    <3>1. CASE d # c
      BY <2>3, <3>1 DEF BudgetInv, ClientsWithinLimit, AskedIn
    <3>2. CASE d = c /\ (x < time \/ ~(x - time < Hour))
      <4>1. AskedIn(d, x)' = AskedIn(c, x)
        <5>1. ~(asked'[c][k] <= x /\ x - asked'[c][k] < Hour)
          BY <1>0, <2>1, <2>3, <3>2
        <5>2. \A i \in DOMAIN asked[c] : asked'[c][i] = asked[c][i]
          BY <2>1, <2>3
        <5> QED
          BY <2>1, <2>3, <3>2, <5>1, <5>2 DEF AskedIn
      <4> QED
        BY <4>1 DEF BudgetInv, ClientsWithinLimit
    <3>3. CASE d = c /\ ~(x < time) /\ x - time < Hour
      <4>1. AskedIn(d, x)' \subseteq Unexpired(c) \cup {k}
        <5> SUFFICES ASSUME NEW i \in DOMAIN asked[c], x - asked[c][i] < Hour PROVE i \in Unexpired(c)
          BY <2>1, <2>3, <3>3 DEF AskedIn
        <5>1. time - asked[c][i] < Hour
          BY <1>0, <3>3
        <5> QED
          BY <5>1 DEF BudgetInv, QueueIsComplete, Unexpired
      <4>2. IsFiniteSet(Unexpired(c)) /\ Cardinality(Unexpired(c)) < ClientLimit
        BY <1>0, <1>2, PartFinite DEF HasRoom
      <4> QED
        BY <1>0, <4>1, <4>2, OneMore
    <3> QED
      BY <3>1, <3>2, <3>3
  <2> QED
    BY <2>4, <2>5, <2>6, <2>7 DEF BudgetInv
<1> QED
  BY <1>1, <1>2

\* A call that is noted: what it adds, and what of the day is kept.
LEMMA NotedCall ==
    ASSUME BudgetInv, NEW t \in Askers, Reserve(t), calls' # calls
    PROVE  LET n == clock[t]
               k == Len(calls) + 1
           IN  /\ n \in Nat /\ n <= time /\ time - n <= Lag /\ ~Exhausted(n)
               /\ calls' \in Seq(CallStamps) /\ DOMAIN calls' = DOMAIN calls \cup {k} /\ k \notin DOMAIN calls
               /\ \A i \in DOMAIN calls : calls'[i] = calls[i]
               /\ calls'[k].made = time /\ calls'[k].stamp = n
               /\ \E K \in Latest(n) : ledger' = K \cup {k}
<1> DEFINE n == clock[t]
           e == [made |-> time, stamp |-> n]
<1>1. n \in Nat /\ n <= time /\ time - n <= Lag /\ e \in CallStamps /\ e.made = time /\ e.stamp = n /\ calls \in Seq(CallStamps)
  BY DEF BudgetInv, BudgetTypeOK, ClocksAreLate, Reserve, CallStamps
<1>2. /\ ~Exhausted(n) /\ calls' = Append(calls, e)
      /\ \E K \in Latest(n) : ledger' = K \cup {Len(calls')}
  BY DEF Reserve
<1> HIDE DEF e
<1> QED
  BY <1>1, <1>2, Appended

LEMMA ReserveInv == ASSUME BudgetInv, NEW t \in Askers, Reserve(t), UNCHANGED limits PROVE BudgetInv'
<1> DEFINE k == Len(calls) + 1
<1>1. /\ UNCHANGED <<time, queue, asked>> /\ clock' = [clock EXCEPT ![t] = 0]
      /\ at' = [at EXCEPT ![t] = "turn"] \/ at' = [at EXCEPT ![t] = "idle"]
      /\ calls' = calls => ledger' = ledger
  <2>1. calls \in Seq(CallStamps) /\ \A e : Append(calls, e) # calls
    BY DEF BudgetInv, BudgetTypeOK
  <2> QED
    BY <2>1 DEF Reserve, Go
<1>2. /\ at' \in [Askers -> {"idle", "turn", "reserve"}] /\ clock' \in [Askers -> Nat]
      /\ \A x \in Askers : at'[x] = "reserve" => at[x] = "reserve" /\ clock'[x] = clock[x]
  BY <1>1 DEF BudgetInv, BudgetTypeOK
<1>3. /\ calls' \in Seq(CallStamps) /\ ledger' \subseteq DOMAIN calls'
      /\ \A i \in DOMAIN calls' :
            calls'[i].made <= time /\ calls'[i].stamp <= calls'[i].made /\ calls'[i].made - calls'[i].stamp <= Lag
  <2>1. CASE calls' = calls
    BY <1>1, <2>1 DEF BudgetInv, BudgetTypeOK, ClocksAreLate
  <2>2. CASE calls' # calls
    <3>1. /\ clock[t] \in Nat /\ clock[t] <= time /\ time - clock[t] <= Lag
          /\ calls' \in Seq(CallStamps) /\ DOMAIN calls' = DOMAIN calls \cup {k} /\ k \notin DOMAIN calls
          /\ \A i \in DOMAIN calls : calls'[i] = calls[i]
          /\ calls'[k].made = time /\ calls'[k].stamp = clock[t]
      BY <2>2, NotedCall
    <3>2. ledger' \subseteq DOMAIN calls'
      <4>1. PICK K \in Latest(clock[t]) : ledger' = K \cup {k}
        BY <2>2, NotedCall
      <4>2. K \subseteq DOMAIN calls
        BY <4>1 DEF Latest, Today, BudgetInv, BudgetTypeOK
      <4> QED
        BY <3>1, <4>1, <4>2
    <3>3. ASSUME NEW i \in DOMAIN calls'
          PROVE  calls'[i].made <= time /\ calls'[i].stamp <= calls'[i].made /\ calls'[i].made - calls'[i].stamp <= Lag
      <4>1. CASE i = k
        BY <3>1, <4>1 DEF BudgetInv, BudgetTypeOK
      <4>2. CASE i # k
        BY <3>1, <4>2 DEF BudgetInv, ClocksAreLate
      <4> QED
        BY <4>1, <4>2
    <3> QED
      BY <3>1, <3>2, <3>3
  <2> QED
    BY <2>1, <2>2
<1>4. BudgetTypeOK'
  BY <1>1, <1>2, <1>3 DEF BudgetInv, BudgetTypeOK
<1>5. ClocksAreLate'
  BY <1>1, <1>2, <1>3 DEF BudgetInv, ClocksAreLate
<1>6. QueueIsComplete' /\ ClientsWithinLimit'
  BY <1>1 DEF BudgetInv, QueueIsComplete, ClientsWithinLimit, AskedIn
<1> QED
  BY <1>4, <1>5, <1>6 DEF BudgetInv

LEMMA BudgetStep == BudgetInv /\ [BudgetNext]_budgetVars => BudgetInv'
<1> SUFFICES ASSUME BudgetInv, [BudgetNext]_budgetVars PROVE BudgetInv'
  OBVIOUS
<1> USE BudgetAssumption
<1>0. UNCHANGED limits
  BY DEF BudgetNext, budgetVars
<1>1. ASSUME NEW t \in Askers, ReadClock(t) PROVE BudgetInv'
  <2>1. UNCHANGED <<time, ledger, queue, calls, asked>>
        /\ clock' = [clock EXCEPT ![t] = time] /\ at' = [at EXCEPT ![t] = "reserve"]
    BY <1>1 DEF ReadClock, Go
  <2>2. BudgetTypeOK'
    BY <1>0, <2>1 DEF BudgetInv, BudgetTypeOK
  <2>3. ClocksAreLate'
    BY <1>0, <2>1 DEF BudgetInv, BudgetTypeOK, ClocksAreLate
  <2> QED
    BY <2>1, <2>2, <2>3 DEF BudgetInv, QueueIsComplete, ClientsWithinLimit, AskedIn
<1>2. ASSUME NEW t \in Askers, Finish(t) PROVE BudgetInv'
  <2>1. UNCHANGED <<time, ledger, queue, calls, asked, clock>> /\ at' = [at EXCEPT ![t] = "idle"]
    BY <1>2 DEF Finish, Go
  <2>2. BudgetTypeOK' /\ ClocksAreLate'
    BY <1>0, <2>1 DEF BudgetInv, BudgetTypeOK, ClocksAreLate
  <2> QED
    BY <2>1, <2>2 DEF BudgetInv, QueueIsComplete, ClientsWithinLimit, AskedIn
<1>3. CASE TimePasses
  <2>1. UNCHANGED <<ledger, queue, calls, asked, at, clock>> /\ time' = time + 1
        /\ \A t \in Askers : at[t] = "reserve" => time - clock[t] < Lag
    BY <1>3 DEF TimePasses
  <2>2. BudgetTypeOK'
    BY <1>0, <2>1 DEF BudgetInv, BudgetTypeOK
  <2>3. ClocksAreLate'
    <3>1. \A t \in Askers : at[t] = "reserve" => clock[t] <= time + 1 /\ (time + 1) - clock[t] <= Lag
      BY <1>0, <2>1 DEF BudgetInv, BudgetTypeOK, ClocksAreLate
    <3>2. \A i \in DOMAIN calls : calls[i].made \in Nat /\ calls[i].made <= time + 1
      <4>1. time \in Nat /\ \A i \in DOMAIN calls : calls[i].made \in Nat /\ calls[i].made <= time
        BY CallTyped DEF BudgetInv, BudgetTypeOK, ClocksAreLate
      <4> QED
        BY <4>1
    <3>3. \A c \in Clients : \A i \in DOMAIN asked[c] : asked[c][i] <= time + 1
      <4>1. time \in Nat /\ \A c \in Clients : \A i \in DOMAIN asked[c] : asked[c][i] \in Nat /\ asked[c][i] <= time
        BY AskedTyped DEF BudgetInv, BudgetTypeOK, ClocksAreLate
      <4> QED
        BY <4>1
    <3> QED
      BY <2>1, <3>1, <3>2, <3>3 DEF BudgetInv, ClocksAreLate
  <2>4. QueueIsComplete'
    <3>1. time \in Nat /\ Hour \in Nat
      BY DEF BudgetInv, BudgetTypeOK
    <3>2. ASSUME NEW c \in Clients, NEW i \in DOMAIN asked[c], (time + 1) - asked[c][i] < Hour PROVE i \in queue[c]
      <4>1. time - asked[c][i] < Hour
        BY <3>1, <3>2, AskedTyped DEF BudgetInv
      <4> QED
        BY <4>1 DEF BudgetInv, QueueIsComplete
    <3> QED
      BY <2>1, <3>2 DEF QueueIsComplete
  <2> QED
    BY <2>1, <2>2, <2>3, <2>4 DEF BudgetInv, ClientsWithinLimit, AskedIn
<1>4. CASE ServerStarts
  <2>1. /\ UNCHANGED <<time, ledger, calls>> /\ queue' = [c \in Clients |-> {}] /\ asked' = [c \in Clients |-> << >>]
        /\ at' = [t \in Askers |-> "idle"] /\ clock' = [t \in Askers |-> 0]
    BY <1>4 DEF ServerStarts
  <2>2. BudgetTypeOK' /\ ClocksAreLate' /\ QueueIsComplete'
    BY <1>0, <2>1 DEF BudgetInv, BudgetTypeOK, ClocksAreLate, QueueIsComplete
  <2>3. \A c \in Clients : \A x \in Nat : AskedIn(c, x)' = {}
    BY <2>1 DEF AskedIn
  <2>4. ClientsWithinLimit'
    BY <2>3, FS_EmptySet DEF ClientsWithinLimit
  <2> QED
    BY <2>2, <2>4 DEF BudgetInv
<1>5. CASE UNCHANGED budgetVars
  <2>1. UNCHANGED <<time, ledger, queue, at, clock, calls, asked>>
    BY <1>5 DEF budgetVars
  <2>2. BudgetTypeOK' /\ ClocksAreLate'
    BY <1>0, <2>1 DEF BudgetInv, BudgetTypeOK, ClocksAreLate
  <2>3. QueueIsComplete' /\ ClientsWithinLimit'
    BY <2>1 DEF BudgetInv, QueueIsComplete, ClientsWithinLimit, AskedIn
  <2> QED
    BY <2>2, <2>3 DEF BudgetInv
<1> QED
  BY <1>0, <1>1, <1>2, <1>3, <1>4, <1>5, AskInv, ReserveInv DEF BudgetNext

(* Where each asker, the ledger and the queues are in every behaviour of the *)
(* two guards (gemini_provider.py, server.py 1007-1035).                     *)
THEOREM BudgetInvariant == BudgetSpec => []BudgetInv
  BY BudgetInvInit, BudgetStep, PTL DEF BudgetSpec
-----------------------------------------------------------------------------
\* The calls the guard counts within a span.
Counted(n, span) == {i \in ledger : n - calls[i].stamp < span}

LEMMA GuardFacts ==
    ASSUME NEW span, NEW limit, <<span, limit>> \in Guards, BudgetTypeOK
    PROVE  /\ span \in Nat /\ limit \in Nat /\ Lag < span /\ span <= Day /\ 0 < limit
           /\ Lag \in Nat /\ Day \in Nat /\ Keep \in Nat
           /\ \A n : ~Exhausted(n) /\ BudgetInv /\ n \in Nat => Cardinality(Counted(n, span)) < limit
<1>1. <<span, limit>> = <<Hour, limits.hour>> \/ <<span, limit>> = <<Day, limits.day>>
  BY DEF Guards
<1>2. /\ span \in Nat /\ limit \in Nat /\ Lag < span /\ span <= Day /\ 0 < limit
      /\ Lag \in Nat /\ Day \in Nat /\ Keep \in Nat
  <2>1. limits.hour \in Nat \ {0} /\ limits.day \in Nat \ {0}
    BY BudgetAssumption DEF BudgetTypeOK
  <2>2. {Hour, Day, Keep} \subseteq Nat \ {0} /\ Lag \in Nat /\ Lag < Hour /\ Hour <= Day
    BY BudgetAssumption
  <2> QED
    BY <1>1, <2>1, <2>2
<1>3. ASSUME NEW n \in Nat, ~Exhausted(n), BudgetInv PROVE Cardinality(Counted(n, span)) < limit
  <2>1. /\ Today(n) = Counted(n, Day) /\ InHour(n) = Counted(n, Hour)
        /\ IsFiniteSet(Today(n)) /\ Cardinality(Today(n)) \in Nat /\ Cardinality(InHour(n)) \in Nat
    <3>1. \A i \in ledger : calls[i].stamp \in Nat
      BY <1>3, CallTyped DEF BudgetInv, BudgetTypeOK
    <3>2. Today(n) = Counted(n, Day) /\ InHour(n) = Counted(n, Hour)
      BY <3>1, BudgetAssumption DEF Today, InHour, Counted
    <3> QED
      <4>1. calls \in Seq(CallStamps) /\ Today(n) \subseteq DOMAIN calls /\ InHour(n) \subseteq DOMAIN calls
        BY <1>3 DEF BudgetInv, BudgetTypeOK, Today, InHour
      <4> QED
        BY <3>2, <4>1, PartFinite
  <2> QED
    <3>1. limits.hour \in Nat /\ limits.day \in Nat
      BY BudgetAssumption DEF BudgetTypeOK
    <3>2. Cardinality(InHour(n)) < limits.hour /\ Cardinality(Today(n)) < limits.day
      BY <1>3, <2>1, <3>1 DEF Exhausted
    <3> QED
      BY <1>1, <2>1, <3>2
<1> QED
  BY <1>2, <1>3

\* With a limit that the file can hold, no call of the span is left out of it.
LEMMA CompleteStep ==
    ASSUME NEW span, NEW limit, <<span, limit>> \in Guards, limit <= Keep,
           BudgetInv, Complete(span), NEW t \in Askers, Reserve(t)
    PROVE  Complete(span)'
<1> DEFINE n == clock[t]
           k == Len(calls) + 1
<1>1. CASE calls' = calls
  <2>1. calls \in Seq(CallStamps) /\ \A e : Append(calls, e) # calls
    BY DEF BudgetInv, BudgetTypeOK
  <2>2. ledger' = ledger /\ time' = time
    BY <1>1, <2>1 DEF Reserve
  <2> QED
    BY <1>1, <2>2 DEF Complete
<1>2. CASE calls' # calls
  <2>1. /\ n \in Nat /\ n <= time /\ ~Exhausted(n)
        /\ DOMAIN calls' = DOMAIN calls \cup {k}
        /\ \A i \in DOMAIN calls : calls'[i] = calls[i]
        /\ time' = time /\ time \in Nat
    BY <1>2, NotedCall DEF Reserve, BudgetInv, BudgetTypeOK
  <2>2. PICK K \in Latest(n) : ledger' = K \cup {k}
    BY <1>2, NotedCall
  <2>3. /\ span \in Nat /\ limit \in Nat /\ span <= Day /\ Keep \in Nat /\ Day \in Nat
        /\ Cardinality(Counted(n, span)) < limit
    BY <2>1, GuardFacts DEF BudgetInv
  <2> SUFFICES ASSUME NEW i \in DOMAIN calls, time - calls[i].stamp < span, i \notin K PROVE FALSE
    BY <2>1, <2>2 DEF Complete
  <2>4. \A j \in DOMAIN calls : calls[j].stamp \in Nat
    BY CallTyped DEF BudgetInv
  <2>5. i \in Counted(n, span) /\ i \in Today(n) /\ K \subseteq Today(n)
    BY <2>1, <2>2, <2>3, <2>4 DEF Complete, Counted, Today, Latest
  <2>6. /\ Today(n) \subseteq DOMAIN calls /\ IsFiniteSet(Today(n)) /\ Cardinality(Today(n)) \in Nat
        /\ IsFiniteSet(Counted(n, span)) /\ Cardinality(Counted(n, span)) \in Nat
    <3>1. calls \in Seq(CallStamps) /\ Today(n) \subseteq DOMAIN calls /\ Counted(n, span) \subseteq DOMAIN calls
      BY DEF BudgetInv, BudgetTypeOK, Today, Counted
    <3> QED
      BY <3>1, PartFinite
  <2>7. Cardinality(K) # Cardinality(Today(n))
    BY <2>5, <2>6, FS_Subset
  <2>8. Cardinality(K) = Keep - 1
    BY <2>2, <2>7 DEF Latest
  <2>9. K \cup {i} \subseteq Counted(n, span)
    <3> SUFFICES ASSUME NEW j \in K PROVE j \in Counted(n, span)
      BY <2>5
    <3>1. calls[i].stamp <= calls[j].stamp /\ j \in ledger /\ j \in DOMAIN calls
      BY <2>2, <2>5, <2>6 DEF Latest, Today
    <3> QED
      BY <2>1, <2>3, <2>4, <2>5, <3>1 DEF Counted
  <2>10. IsFiniteSet(K) /\ Cardinality(K \cup {i}) = Keep
    <3>1. IsFiniteSet(K)
      BY <2>5, <2>6, FS_Subset
    <3>2. Cardinality(K \cup {i}) = Cardinality(K) + 1
      BY <3>1, FS_AddElement
    <3> QED
      BY <2>3, <2>8, <3>1, <3>2
  <2>11. Cardinality(K \cup {i}) <= Cardinality(Counted(n, span))
    BY <2>6, <2>9, FS_Subset
  <2> QED
    BY <2>3, <2>6, <2>10, <2>11
<1> QED
  BY <1>1, <1>2

\* A noted call is the only one its span gains, and the guard counted the others:
\* a call stamped up to Lag early is still within the span on the clock of a
\* thread that read it up to Lag ago.
LEMMA LimitedStep ==
    ASSUME NEW span, NEW limit, <<span, limit>> \in Guards,
           BudgetInv, Complete(span), Limited(span, limit), NEW t \in Askers, Reserve(t)
    PROVE  Limited(span, limit)'
<1> DEFINE n == clock[t]
           k == Len(calls) + 1
<1>1. CASE calls' = calls
  BY <1>1 DEF Limited, CallsIn
<1>2. CASE calls' # calls
  <2>1. /\ n \in Nat /\ n <= time /\ time - n <= Lag /\ ~Exhausted(n)
        /\ DOMAIN calls' = DOMAIN calls \cup {k} /\ k \notin DOMAIN calls
        /\ \A i \in DOMAIN calls : calls'[i] = calls[i]
        /\ calls'[k].made = time /\ time \in Nat
    BY <1>2, NotedCall DEF BudgetInv, BudgetTypeOK
  <2>2. /\ span \in Nat /\ limit \in Nat /\ Lag < span /\ Lag \in Nat
        /\ Cardinality(Counted(n, span)) < limit
    BY <2>1, GuardFacts DEF BudgetInv
  <2> SUFFICES ASSUME NEW x \in Nat PROVE Cardinality(CallsIn(x, span - Lag)') <= limit
    BY DEF Limited
  <2>3. CASE x < time \/ ~(x - time < span - Lag)
    <3>1. CallsIn(x, span - Lag)' = CallsIn(x, span - Lag)
      BY <2>1, <2>2, <2>3 DEF CallsIn
    <3> QED
      BY <3>1 DEF Limited
  <2>4. CASE ~(x < time) /\ x - time < span - Lag
    <3>1. CallsIn(x, span - Lag)' \subseteq Counted(n, span) \cup {k}
      <4> SUFFICES ASSUME NEW i \in DOMAIN calls, x - calls[i].made < span - Lag PROVE i \in Counted(n, span)
        BY <2>1, <2>2 DEF CallsIn
      <4>1. /\ calls[i].made \in Nat /\ calls[i].stamp \in Nat
            /\ calls[i].made <= time /\ calls[i].made - calls[i].stamp <= Lag
        BY CallTyped DEF BudgetInv, ClocksAreLate
      <4>2. n \in Nat /\ n <= time /\ time \in Nat /\ time <= x
        BY <2>1, <2>4
      <4> HIDE DEF n, k
      <4>3. time - calls[i].stamp < span
        BY <2>2, <4>1, <4>2
      <4>4. n - calls[i].stamp < span
        BY <2>2, <4>1, <4>2, <4>3
      <4> QED
        BY <4>3, <4>4 DEF Complete, Counted
    <3>2. IsFiniteSet(Counted(n, span))
      <4>1. calls \in Seq(CallStamps) /\ Counted(n, span) \subseteq DOMAIN calls
        BY DEF BudgetInv, BudgetTypeOK, Counted
      <4> QED
        BY <4>1, PartFinite
    <3> QED
      BY <2>2, <3>1, <3>2, OneMore
  <2> QED
    BY <2>3, <2>4
<1> QED
  BY <1>1, <1>2

\* All steps but Reserve leave the calls and the ledger alone.
LEMMA OtherSteps ==
    ASSUME [BudgetNext]_budgetVars
    PROVE  \/ \E t \in Askers : Reserve(t)
           \/ UNCHANGED <<calls, ledger>> /\ time' \in {time, time + 1}
<1>1. ASSUME \/ \E t \in Askers : (\E c \in Clients : Ask(t, c)) \/ ReadClock(t) \/ Finish(t)
             \/ TimePasses \/ ServerStarts \/ UNCHANGED budgetVars
      PROVE  UNCHANGED <<calls, ledger>> /\ time' \in {time, time + 1}
  BY <1>1 DEF Ask, ReadClock, Finish, TimePasses, ServerStarts, budgetVars
<1> QED
  BY <1>1 DEF BudgetNext

\* Of the calls that do not fit the oldest go, and all others stay.
LEMMA OldestStep ==
    ASSUME BudgetInv, OldestGoFirst, NEW t \in Askers, Reserve(t)
    PROVE  OldestGoFirst'
<1> DEFINE n == clock[t]
           k == Len(calls) + 1
<1>1. CASE calls' = calls
  <2>1. calls \in Seq(CallStamps) /\ \A e : Append(calls, e) # calls
    BY DEF BudgetInv, BudgetTypeOK
  <2>2. ledger' = ledger /\ time' = time
    BY <1>1, <2>1 DEF Reserve
  <2> QED
    BY <1>1, <2>2 DEF OldestGoFirst
<1>2. CASE calls' # calls
  <2>1. /\ n \in Nat /\ n <= time /\ time - n <= Lag
        /\ DOMAIN calls' = DOMAIN calls \cup {k} /\ k \notin DOMAIN calls
        /\ \A i \in DOMAIN calls : calls'[i] = calls[i]
        /\ calls'[k].stamp = n
        /\ time' = time /\ time \in Nat
        /\ Lag \in Nat /\ Day \in Nat /\ Keep \in Nat \ {0}
    BY <1>2, NotedCall, BudgetAssumption DEF Reserve, BudgetInv, BudgetTypeOK
  <2>2. PICK K \in Latest(n) : ledger' = K \cup {k}
    BY <1>2, NotedCall
  <2>3. \A j \in DOMAIN calls : calls[j].stamp \in Nat /\ calls[j].stamp <= time
    <3> SUFFICES ASSUME NEW j \in DOMAIN calls PROVE calls[j].stamp \in Nat /\ calls[j].stamp <= time
      OBVIOUS
    <3>1. calls[j].stamp \in Nat /\ calls[j].made \in Nat /\ calls[j].made <= time /\ calls[j].stamp <= calls[j].made
      BY CallTyped DEF BudgetInv, ClocksAreLate
    <3> QED
      BY <2>1, <3>1
  <2>4. /\ Today(n) \subseteq ledger /\ ledger \subseteq DOMAIN calls /\ K \subseteq Today(n)
        /\ IsFiniteSet(Today(n)) /\ Cardinality(Today(n)) \in Nat
        /\ IsFiniteSet(K) /\ Cardinality(K) \in Nat
    <3>1. calls \in Seq(CallStamps) /\ Today(n) \subseteq ledger /\ ledger \subseteq DOMAIN calls /\ K \subseteq Today(n)
      BY <2>2 DEF BudgetInv, BudgetTypeOK, Today, Latest
    <3> QED
      BY <3>1, PartFinite
  <2>5. SUFFICES ASSUME NEW i \in DOMAIN calls, time - calls[i].stamp < Day - Lag, i \notin K
                 PROVE  /\ Cardinality(K \cup {k}) = Keep
                        /\ \A j \in K : calls[i].stamp - Lag <= calls[j].stamp
                        /\ calls[i].stamp - Lag <= n
    <3>1. ASSUME NEW i \in DOMAIN calls', time' - calls'[i].stamp < Day - Lag, i \notin ledger'
          PROVE  Cardinality(ledger') = Keep /\ \A j \in ledger' : calls'[i].stamp - Lag <= calls'[j].stamp
      <4>1. i \in DOMAIN calls /\ i \notin K /\ time - calls[i].stamp < Day - Lag /\ calls'[i] = calls[i]
        BY <2>1, <2>2, <3>1
      <4>2. Cardinality(K \cup {k}) = Keep
            /\ (\A j \in K : calls[i].stamp - Lag <= calls[j].stamp) /\ calls[i].stamp - Lag <= n
        BY <2>5, <4>1
      <4>3. \A j \in K : calls'[j] = calls[j]
        BY <2>1, <2>4
      <4> QED
        BY <2>1, <2>2, <4>1, <4>2, <4>3
    <3> QED
      BY <3>1 DEF OldestGoFirst
  <2>6. /\ calls[i].stamp \in Nat /\ calls[i].stamp <= time /\ calls[i].stamp - Lag <= n
    BY <2>1, <2>3
  <2>7. ASSUME Cardinality(K) = Keep - 1 PROVE Cardinality(K \cup {k}) = Keep
    <3>1. k \notin K
      BY <2>1, <2>4
    <3>2. Cardinality(K \cup {k}) = Cardinality(K) + 1
      BY <2>4, <3>1, FS_AddElement
    <3> QED
      BY <2>1, <2>7, <3>2
  <2>8. CASE i \in ledger
    <3>1. i \in Today(n)
      BY <2>1, <2>5, <2>6, <2>8 DEF Today
    <3>2. Cardinality(K) # Cardinality(Today(n))
      BY <2>4, <2>5, <3>1, FS_Subset
    <3>3. Cardinality(K) = Keep - 1 /\ \A j \in K : calls[i].stamp <= calls[j].stamp
      BY <2>2, <2>5, <3>1, <3>2 DEF Latest
    <3>4. \A j \in K : calls[i].stamp - Lag <= calls[j].stamp
      BY <2>1, <2>3, <2>4, <2>6, <3>3
    <3> QED
      BY <2>6, <2>7, <3>3, <3>4
  <2>9. CASE i \notin ledger
    <3>1. Cardinality(ledger) = Keep /\ \A j \in ledger : calls[i].stamp - Lag <= calls[j].stamp
      BY <2>5, <2>9 DEF OldestGoFirst
    <3>2. ASSUME NEW j \in ledger PROVE n - calls[j].stamp < Day
      <4> DEFINE early == calls[j].stamp
                 lost == calls[i].stamp
      <4>1. early \in Nat /\ lost \in Nat /\ lost - Lag <= early /\ time - lost < Day - Lag
        BY <2>3, <2>4, <2>5, <2>6, <3>1
      <4>2. n \in Nat /\ n <= time /\ time \in Nat /\ Lag \in Nat /\ Day \in Nat
        BY <2>1
      <4> HIDE DEF early, lost, n
      <4>3. n - early < Day
        BY <4>1, <4>2
      <4> QED
        BY <4>3 DEF early
    <3>3. Today(n) = ledger
      BY <3>2 DEF Today
    <3>4. Cardinality(K) = Keep - 1
      BY <2>1, <2>2, <3>1, <3>3 DEF Latest
    <3> QED
      BY <2>4, <2>6, <2>7, <3>1, <3>4
  <2> QED
    BY <2>8, <2>9
<1> QED
  BY <1>1, <1>2

\* The guard of a span, for a limit that the file can hold.
Kept(span, limit) == limit <= Keep => Complete(span) /\ Limited(span, limit)

\* Each of the two guards keeps its span, if the file can hold its limit.
LEMMA GuardStep ==
    ASSUME NEW span, NEW limit, <<span, limit>> \in Guards
    PROVE  /\ BudgetInit => Kept(span, limit)
           /\ BudgetInv /\ Kept(span, limit) /\ [BudgetNext]_budgetVars => Kept(span, limit)'
<1>1. ASSUME BudgetInit PROVE Kept(span, limit)
  <2>1. Complete(span) /\ \A x, y : CallsIn(x, y) = {}
    BY <1>1 DEF BudgetInit, Complete, CallsIn
  <2>2. limit \in Nat
    BY <1>1, BudgetInvInit, GuardFacts DEF BudgetInv
  <2> QED
    BY <2>1, <2>2, FS_EmptySet DEF Limited, Kept
<1>2. ASSUME BudgetInv, limit <= Keep, Complete(span), Limited(span, limit), [BudgetNext]_budgetVars
      PROVE  Complete(span)' /\ Limited(span, limit)'
  <2>1. ASSUME UNCHANGED <<calls, ledger>>, time' \in {time, time + 1} PROVE Complete(span)' /\ Limited(span, limit)'
    <3>1. \A i \in DOMAIN calls : calls[i].stamp \in Nat
      BY <1>2, CallTyped DEF BudgetInv
    <3>2. time \in Nat /\ span \in Nat
      BY <1>2, GuardFacts DEF BudgetInv, BudgetTypeOK
    <3> QED
      BY <1>2, <2>1, <3>1, <3>2 DEF Complete, Limited, CallsIn
  <2> QED
    BY <1>2, <2>1, OtherSteps, CompleteStep, LimitedStep
<1> QED
  BY <1>1, <1>2 DEF Kept

\* What the file and the limits are at any time.
BudgetKept == BudgetInv /\ Kept(Hour, limits.hour) /\ Kept(Day, limits.day) /\ OldestGoFirst

LEMMA BudgetKeptInit == BudgetInit => BudgetKept
<1> SUFFICES ASSUME BudgetInit PROVE BudgetKept
  OBVIOUS
<1>1. <<Hour, limits.hour>> \in Guards /\ <<Day, limits.day>> \in Guards
  BY DEF Guards
<1>2. OldestGoFirst
  BY DEF BudgetInit, OldestGoFirst
<1> QED
  BY <1>1, <1>2, BudgetInvInit, GuardStep DEF BudgetKept

LEMMA BudgetKeptStep == BudgetKept /\ [BudgetNext]_budgetVars => BudgetKept'
<1> SUFFICES ASSUME BudgetKept, [BudgetNext]_budgetVars PROVE BudgetKept'
  OBVIOUS
<1>1. BudgetInv'
  BY BudgetStep DEF BudgetKept
<1>2. limits' = limits
  BY DEF BudgetNext, budgetVars
<1>3. ASSUME NEW span, NEW limit, <<span, limit>> \in Guards, Kept(span, limit) PROVE Kept(span, limit)'
  BY <1>3, GuardStep DEF BudgetKept
<1>4. Kept(Hour, limits.hour)' /\ Kept(Day, limits.day)'
  <2> DEFINE h == limits.hour
             d == limits.day
  <2>1. h' = h /\ d' = d
    BY <1>2
  <2>2. <<Hour, h>> \in Guards /\ <<Day, d>> \in Guards
    BY DEF Guards
  <2>3. Kept(Hour, h) /\ Kept(Day, d)
    BY DEF BudgetKept
  <2> HIDE DEF h, d
  <2>4. \A x : x = h => Kept(Hour, x)'
    BY <1>3, <2>2, <2>3
  <2>5. \A x : x = d => Kept(Day, x)'
    BY <1>3, <2>2, <2>3
  <2> QED
    BY <2>1, <2>4, <2>5 DEF h, d, Kept, Complete, Limited, CallsIn
<1>5. OldestGoFirst'
  <2>1. ASSUME UNCHANGED <<calls, ledger>>, time' \in {time, time + 1} PROVE OldestGoFirst'
    <3>1. \A i \in DOMAIN calls : calls[i].stamp \in Nat
      BY CallTyped DEF BudgetKept, BudgetInv
    <3>2. time \in Nat /\ Day \in Nat /\ Lag \in Nat
      BY BudgetAssumption DEF BudgetKept, BudgetInv, BudgetTypeOK
    <3> QED
      BY <2>1, <3>1, <3>2 DEF BudgetKept, OldestGoFirst
  <2> QED
    BY <2>1, OtherSteps, OldestStep DEF BudgetKept
<1> QED
  BY <1>1, <1>4, <1>5 DEF BudgetKept

\* Whatever the limits and the size of the file: a limit it can hold finds every
\* call of its span, and what does not fit in it goes in the order of the stamps.
THEOREM LedgerKeepsTheDay == BudgetSpec => []LedgerIsComplete
<1>1. BudgetKept => LedgerIsComplete
  BY DEF BudgetKept, Kept, Complete, OldestGoFirst, LedgerIsComplete, Known
<1> QED
  BY <1>1, BudgetKeptInit, BudgetKeptStep, PTL DEF BudgetSpec

\* Whatever the limits and the size of the file, through waits for the lock and
\* restarts: each limit of the shared key that the file can hold is kept in every
\* stretch of time, whatever the other one is, and so is each client's; with the
\* defaults the file can hold neither of the first two (run budget_kept).
THEOREM CallsStayWithinLimits == BudgetSpec => []WithinLimits
<1>1. BudgetKept => WithinLimits
  <2> SUFFICES ASSUME BudgetKept PROVE WithinLimits
    OBVIOUS
  <2>1. Instants \subseteq Nat
    BY BudgetAssumption DEF Instants
  <2> QED
    BY <2>1 DEF BudgetKept, Kept, Limited, WithinLimits, HourIsWithinLimit, DayIsWithinLimit,
                ClientsAreWithinLimit, BudgetInv, ClientsWithinLimit
<1> QED
  BY <1>1, BudgetKeptInit, BudgetKeptStep, PTL DEF BudgetSpec

-----------------------------------------------------------------------------
(* HostedSession: the tokens of the sessions.                              *)
Tokens == [student : Students, expires : Int]
Sessions == [expires : Int, student : Students, access : Tokens, known : BOOLEAN, refresh : Nat \cup {Absent}]
Pcs == {"idle", "token", "refresh", "remember", "use"}
CallStates == [pc : Pcs, session : Sessions \cup {Absent}, token : Tokens \cup {Absent},
               since : Nat, refused : BOOLEAN]

HostedTypeOK ==
    /\ hour \in Nat /\ signIns \in Nat
    /\ cookies \in [Students -> Sessions \cup {Absent}]
    /\ DOMAIN cached \subseteq 1..signIns
    /\ \A k \in DOMAIN cached : cached[k] \in Tokens
    /\ call \in [Requests -> CallStates]

\* The sessions the server may be asked to act for.
Held == {cookies[s] : s \in Students} \cup {call[r].session : r \in Requests}

SessionsAreOwned ==
    \A a \in Held \ {Absent} :
        /\ a \in Sessions /\ a.access.student = a.student
        /\ a.refresh # Absent => a.refresh \in 1..signIns
        /\ a.refresh \in DOMAIN cached => cached[a.refresh].student = a.student
        /\ \A b \in Held \ {Absent} : a.refresh = b.refresh /\ a.refresh # Absent => a.student = b.student

\* What a call holds by where it is; it does not outlast the skew.
CallOK(c, h) ==
    c.pc # "idle" =>
        /\ c.session # Absent /\ c.since <= h /\ h <= c.since + Skew
        /\ c.pc \in {"refresh", "remember"} => c.session.refresh # Absent
        /\ c.pc \in {"remember", "use"} =>
              /\ c.token \in Tokens /\ c.token.student = c.session.student
              /\ c.refused \/ c.token.expires > c.since + Skew

CallsHold == \A r \in Requests : CallOK(call[r], hour)

HostedInv == HostedTypeOK /\ SessionsAreOwned /\ CallsHold
-----------------------------------------------------------------------------
LEMMA NoCallTyped == NoCall \in CallStates /\ NoCall.session = Absent /\ NoCall.pc = "idle"
  BY DEF NoCall, CallStates, Pcs

LEMMA InvInit == HostedInit => HostedInv
<1> SUFFICES ASSUME HostedInit PROVE HostedInv
  OBVIOUS
<1>1. DOMAIN cached = {}
  BY DEF HostedInit
<1>2. HostedTypeOK
  BY <1>1, NoCallTyped DEF HostedInit, HostedTypeOK
<1>3. Held \ {Absent} = {}
  BY NoCallTyped DEF HostedInit, Held
<1>4. SessionsAreOwned
  BY <1>3 DEF SessionsAreOwned
<1>5. CallsHold
  BY NoCallTyped DEF HostedInit, CallsHold, CallOK
<1> QED
  BY <1>2, <1>4, <1>5 DEF HostedInv

\* No new session: what the sessions own is as before.
LEMMA OwnedStays ==
    ASSUME SessionsAreOwned, Held' \subseteq Held \cup {Absent}, UNCHANGED <<signIns, cached>>
    PROVE  SessionsAreOwned'
<1>1. \A a \in Held' \ {Absent} : a \in Held \ {Absent}
  OBVIOUS
<1> QED
  BY <1>1 DEF SessionsAreOwned, Sessions, Tokens

\* One call goes on, with the session it came with.
LEMMA CallGoesOn ==
    ASSUME HostedInv, NEW r \in Requests, NEW c \in CallStates, call' = [call EXCEPT ![r] = c],
           c.session = call[r].session, CallOK(c, hour), UNCHANGED <<hour, cookies>>
    PROVE  call' \in [Requests -> CallStates] /\ Held' = Held /\ CallsHold'
<1>1. call' \in [Requests -> CallStates] /\ \A q \in Requests : call'[q] = IF q = r THEN c ELSE call[q]
  BY DEF HostedInv, HostedTypeOK
<1>2. \A q \in Requests : call'[q].session = call[q].session
  BY <1>1
<1>3. Held' = Held
  BY <1>2 DEF Held
<1>4. \A q \in Requests : CallOK(call'[q], hour')
  BY <1>1 DEF HostedInv, CallsHold
<1> QED
  BY <1>1, <1>3, <1>4 DEF CallsHold

\* ... and nothing else changes.
LEMMA OnlyTheCall ==
    ASSUME HostedInv, NEW r \in Requests, NEW c \in CallStates, call' = [call EXCEPT ![r] = c],
           c.session = call[r].session, CallOK(c, hour), UNCHANGED <<hour, cookies, signIns, cached>>
    PROVE  HostedInv'
<1>1. call' \in [Requests -> CallStates] /\ Held' = Held /\ CallsHold'
  BY CallGoesOn
<1>2. SessionsAreOwned'
  BY <1>1, OwnedStays DEF HostedInv
<1>3. HostedTypeOK'
  BY <1>1 DEF HostedInv, HostedTypeOK, Sessions, Tokens, CallStates, Pcs
<1> QED
  BY <1>1, <1>2, <1>3 DEF HostedInv

LEMMA Holding ==
    ASSUME HostedInv, NEW r \in Requests, call[r].pc # "idle"
    PROVE  /\ call[r] \in CallStates /\ call[r].session \in Sessions /\ call[r].session \in Held \ {Absent}
           /\ call[r].session.access \in Tokens /\ call[r].session.access.student = call[r].session.student
           /\ call[r].since \in Nat /\ hour \in Nat /\ call[r].since <= hour /\ hour <= call[r].since + Skew
<1>1. call[r] \in CallStates /\ CallOK(call[r], hour) /\ hour \in Nat
  BY DEF HostedInv, HostedTypeOK, CallsHold
<1>2. call[r].session \in Held \ {Absent}
  BY <1>1 DEF CallOK, Held
<1>3. call[r].session \in Sessions /\ call[r].session.access.student = call[r].session.student
  BY <1>2 DEF HostedInv, SessionsAreOwned
<1> QED
  BY <1>1, <1>2, <1>3 DEF CallOK, CallStates, Sessions

LEMMA UseTokenInv ==
    ASSUME HostedInv, NEW r \in Requests, call[r].pc # "idle", NEW token \in Tokens,
           token.student = call[r].session.student, LivesOn(token), UseToken(r, token),
           UNCHANGED <<hour, cookies, signIns, cached>>
    PROVE  HostedInv'
<1> DEFINE c == [call[r] EXCEPT !.pc = "use", !.token = token]
<1>1. call' = [call EXCEPT ![r] = c]
  BY DEF UseToken
<1>2. c \in CallStates /\ c.session = call[r].session /\ c.token = token /\ c.since = call[r].since /\ c.pc = "use"
  BY Holding DEF CallStates, Pcs
<1>3. token.expires > call[r].since + Skew
  BY Holding, HostedAssumption DEF LivesOn, Tokens
<1>4. CallOK(c, hour)
  BY <1>2, <1>3, Holding DEF CallOK
<1> QED
  BY ONLY <1>1, <1>2, <1>4, HostedInv, OnlyTheCall, r \in Requests, UNCHANGED <<hour, cookies, signIns, cached>>

LEMMA FallBackInv ==
    ASSUME HostedInv, NEW r \in Requests, call[r].pc # "idle", FallBack(r), UNCHANGED <<hour, cookies, signIns, cached>>
    PROVE  HostedInv'
<1> DEFINE c == [call[r] EXCEPT !.pc = "use", !.token = call[r].session.access, !.refused = TRUE]
<1>1. call' = [call EXCEPT ![r] = c]
  BY DEF FallBack
<1>2. /\ c \in CallStates /\ c.session = call[r].session /\ c.token = call[r].session.access
      /\ c.since = call[r].since /\ c.pc = "use" /\ c.refused
  BY Holding DEF CallStates, Pcs
<1>3. CallOK(c, hour)
  BY <1>2, Holding DEF CallOK
<1> QED
  BY ONLY <1>1, <1>2, <1>3, HostedInv, OnlyTheCall, r \in Requests, UNCHANGED <<hour, cookies, signIns, cached>>
-----------------------------------------------------------------------------
LEMMA SignInInv == ASSUME HostedInv, NEW s \in Students, SignIn(s) PROVE HostedInv'
<1>1. PICK known, renewable \in BOOLEAN :
          cookies' = [cookies EXCEPT ![s] =
               [expires |-> hour + CookieLife, student |-> s,
                access |-> AccessToken(s, hour + TokenLife), known |-> known,
                refresh |-> IF renewable THEN signIns' ELSE Absent]]
  BY DEF SignIn
<1> DEFINE new == [expires |-> hour + CookieLife, student |-> s,
                   access |-> AccessToken(s, hour + TokenLife), known |-> known,
                   refresh |-> IF renewable THEN signIns' ELSE Absent]
<1>2. signIns \in Nat /\ hour \in Nat /\ signIns' = signIns + 1 /\ UNCHANGED <<hour, cached, call>>
  BY DEF SignIn, HostedInv, HostedTypeOK
<1>3. new \in Sessions /\ new.student = s /\ new.access.student = s /\ new.refresh \in {signIns + 1, Absent}
  BY <1>2, HostedAssumption DEF Sessions, AccessToken, Tokens
<1> HIDE DEF new
<1>4. cookies' \in [Students -> Sessions \cup {Absent}] /\ \A q \in Students : cookies'[q] = IF q = s THEN new ELSE cookies[q]
  BY <1>1, <1>3 DEF HostedInv, HostedTypeOK, new
<1>5. Held' \subseteq Held \cup {new}
  BY <1>2, <1>4 DEF Held
<1>6. \A a \in Held \ {Absent} :
        /\ a \in Sessions /\ a.access.student = a.student
        /\ a.refresh # Absent => a.refresh \in 1..signIns
        /\ a.refresh \in DOMAIN cached => cached[a.refresh].student = a.student
        /\ \A b \in Held \ {Absent} : a.refresh = b.refresh /\ a.refresh # Absent => a.student = b.student
  BY DEF HostedInv, SessionsAreOwned
<1>7. DOMAIN cached \subseteq 1..signIns
  BY DEF HostedInv, HostedTypeOK
<1>8. ASSUME NEW a \in Held' \ {Absent}
      PROVE  /\ a \in Sessions /\ a.access.student = a.student
             /\ a.refresh # Absent => a.refresh \in 1..signIns'
             /\ a.refresh \in DOMAIN cached => cached[a.refresh].student = a.student
             /\ \A b \in Held' \ {Absent} : a.refresh = b.refresh /\ a.refresh # Absent => a.student = b.student
  <2>1. CASE a = new
    BY <1>2, <1>3, <1>5, <1>6, <1>7, <2>1, HostedAssumption
  <2>2. CASE a # new
    <3>1. a \in Held \ {Absent}
      BY <1>5, <2>2
    <3> QED
      BY <1>2, <1>3, <1>5, <1>6, <3>1
  <2> QED
    BY <2>1, <2>2
<1>9. SessionsAreOwned'
  BY <1>2, <1>8 DEF SessionsAreOwned, Sessions, Tokens
<1>10. HostedTypeOK'
  BY <1>2, <1>4 DEF HostedInv, HostedTypeOK, Sessions, Tokens, CallStates, Pcs
<1>11. CallsHold'
  BY <1>2 DEF HostedInv, CallsHold, CallOK, Tokens
<1> QED
  BY <1>9, <1>10, <1>11 DEF HostedInv

LEMMA SignOutInv == ASSUME HostedInv, NEW s \in Students, SignOut(s) PROVE HostedInv'
<1>1. /\ cookies' \in [Students -> Sessions \cup {Absent}]
      /\ \A q \in Students : cookies'[q] = IF q = s THEN Absent ELSE cookies[q]
      /\ UNCHANGED <<hour, signIns, cached, call>>
  BY DEF SignOut, HostedInv, HostedTypeOK
<1>2. Held' \subseteq Held \cup {Absent}
  BY <1>1 DEF Held
<1>3. SessionsAreOwned'
  BY <1>1, <1>2, OwnedStays DEF HostedInv
<1> QED
  BY <1>1, <1>3 DEF HostedInv, HostedTypeOK, CallsHold, CallOK, Sessions, Tokens, CallStates, Pcs

LEMMA AccountCallInv == ASSUME HostedInv, NEW r \in Requests, NEW s \in Students, AccountCall(r, s) PROVE HostedInv'
<1> DEFINE c == [NoCall EXCEPT !.pc = "token", !.session = cookies[s], !.since = hour]
<1>1. cookies[s] \in Sessions /\ cookies[s] # Absent /\ hour \in Nat /\ UNCHANGED <<hour, cookies, signIns, cached>>
  BY DEF AccountCall, HostedInv, HostedTypeOK
<1>2. c \in CallStates /\ c.session = cookies[s] /\ c.since = hour /\ c.pc = "token"
  BY <1>1, NoCallTyped DEF NoCall, CallStates, Pcs
<1>3. CallOK(c, hour)
  BY <1>1, <1>2, HostedAssumption DEF CallOK
<1>4. call' = [call EXCEPT ![r] = c]
  BY DEF AccountCall
<1> HIDE DEF c
<1>5. call' \in [Requests -> CallStates] /\ \A q \in Requests : call'[q] = IF q = r THEN c ELSE call[q]
  BY <1>2, <1>4 DEF HostedInv, HostedTypeOK
<1>6. Held' \subseteq Held \cup {Absent}
  BY <1>1, <1>2, <1>5 DEF Held
<1>7. SessionsAreOwned'
  BY <1>1, <1>6, OwnedStays DEF HostedInv
<1>8. HostedTypeOK'
  BY <1>1, <1>5 DEF HostedInv, HostedTypeOK, Sessions, Tokens, CallStates, Pcs
<1>9. \A q \in Requests : CallOK(call'[q], hour')
  BY <1>1, <1>3, <1>5 DEF HostedInv, CallsHold
<1> QED
  BY <1>7, <1>8, <1>9 DEF HostedInv, CallsHold

LEMMA TokenForInv == ASSUME HostedInv, NEW r \in Requests, TokenFor(r) PROVE HostedInv'
<1> DEFINE a == call[r].session
<1>1. call[r].pc = "token" /\ UNCHANGED <<hour, cookies, signIns, cached>>
  BY DEF TokenFor
<1>2. CASE a.known /\ LivesOn(a.access) /\ UseToken(r, a.access)
  BY <1>1, <1>2, Holding, UseTokenInv
<1>3. CASE a.refresh \in DOMAIN cached /\ LivesOn(cached[a.refresh]) /\ UseToken(r, cached[a.refresh])
  <2>1. cached[a.refresh] \in Tokens /\ cached[a.refresh].student = a.student
    BY <1>1, <1>3, Holding DEF HostedInv, HostedTypeOK, SessionsAreOwned
  <2> QED
    BY <1>1, <1>3, <2>1, UseTokenInv
<1>4. CASE FallBack(r)
  BY <1>1, <1>4, FallBackInv
<1>5. CASE a.refresh # Absent /\ call' = [call EXCEPT ![r].pc = "refresh"]
  <2> DEFINE c == [call[r] EXCEPT !.pc = "refresh"]
  <2>1. c \in CallStates /\ c.session = a /\ c.since = call[r].since /\ c.pc = "refresh"
    BY <1>1, Holding DEF CallStates, Pcs
  <2>2. CallOK(c, hour)
    BY <1>1, <1>5, <2>1, Holding DEF CallOK
  <2>3. call' = [call EXCEPT ![r] = c]
    BY <1>5
  <2> QED
    BY ONLY <1>1, <2>1, <2>2, <2>3, HostedInv, OnlyTheCall, r \in Requests
<1> QED
  BY <1>2, <1>3, <1>4, <1>5 DEF TokenFor

LEMMA RefreshedInv == ASSUME HostedInv, NEW r \in Requests, Refreshed(r) PROVE HostedInv'
<1> DEFINE fresh == AccessToken(call[r].session.student, hour + TokenLife)
           c == [call[r] EXCEPT !.pc = "remember", !.token = fresh]
<1>1. call[r].pc = "refresh" /\ UNCHANGED <<hour, cookies, signIns, cached>> /\ call' = [call EXCEPT ![r] = c]
  BY DEF Refreshed
<1>2. fresh \in Tokens /\ fresh.student = call[r].session.student /\ fresh.expires > call[r].since + Skew
  BY <1>1, Holding, HostedAssumption DEF AccessToken, Tokens, Sessions
<1>3. c \in CallStates /\ c.session = call[r].session /\ c.token = fresh /\ c.since = call[r].since /\ c.pc = "remember"
  BY <1>1, <1>2, Holding DEF CallStates, Pcs
<1>4. call[r].session.refresh # Absent
  BY <1>1 DEF HostedInv, CallsHold, CallOK
<1>5. CallOK(c, hour)
  BY <1>1, <1>2, <1>3, <1>4, Holding DEF CallOK
<1> QED
  BY ONLY <1>1, <1>3, <1>5, HostedInv, OnlyTheCall, r \in Requests

LEMMA RememberInv == ASSUME HostedInv, NEW r \in Requests, Remember(r) PROVE HostedInv'
<1> DEFINE a == call[r].session
           token == call[r].token
           c == [call[r] EXCEPT !.pc = "use", !.token = token]
<1>1. call[r].pc = "remember" /\ UNCHANGED <<hour, cookies, signIns>> /\ call' = [call EXCEPT ![r] = c]
  BY DEF Remember, UseToken
<1>2. PICK kept \in SUBSET DOMAIN cached :
          cached' = [k \in kept \cup {a.refresh} |-> IF k = a.refresh THEN token ELSE cached[k]]
  BY DEF Remember, Key
<1>3. CallOK(call[r], hour)
  BY DEF HostedInv, CallsHold
<1>4. token \in Tokens /\ token.student = a.student /\ a.refresh # Absent
      /\ (call[r].refused \/ token.expires > call[r].since + Skew)
  BY <1>1, <1>3 DEF CallOK
<1>5. a \in Held \ {Absent} /\ a.refresh \in 1..signIns
  BY <1>1, <1>4, Holding DEF HostedInv, SessionsAreOwned
<1>6. /\ c \in CallStates /\ c.session = a /\ c.token = token /\ c.since = call[r].since
      /\ c.pc = "use" /\ c.refused = call[r].refused
  BY <1>1, <1>4, Holding DEF CallStates, Pcs
<1>7. CallOK(c, hour)
  BY <1>1, <1>4, <1>6, Holding DEF CallOK
<1>8. call' \in [Requests -> CallStates] /\ Held' = Held /\ CallsHold'
  BY ONLY <1>1, <1>6, <1>7, HostedInv, CallGoesOn, r \in Requests
<1>9. DOMAIN cached' \subseteq 1..signIns /\ \A k \in DOMAIN cached' : cached'[k] \in Tokens
  BY <1>2, <1>4, <1>5 DEF HostedInv, HostedTypeOK
<1>10. HostedTypeOK'
  BY <1>1, <1>8, <1>9 DEF HostedInv, HostedTypeOK, Sessions, Tokens, CallStates, Pcs
<1>11. \A b \in Held \ {Absent} : b.refresh \in DOMAIN cached' => cached'[b.refresh].student = b.student
  BY <1>2, <1>4, <1>5 DEF HostedInv, SessionsAreOwned
<1>12. SessionsAreOwned'
  BY <1>1, <1>8, <1>11 DEF HostedInv, SessionsAreOwned, Sessions, Tokens
<1> QED
  BY <1>8, <1>10, <1>12 DEF HostedInv

LEMMA CallAnsweredInv == ASSUME HostedInv, NEW r \in Requests, CallAnswered(r) PROVE HostedInv'
<1>1. /\ call' \in [Requests -> CallStates] /\ UNCHANGED <<hour, cookies, signIns, cached>>
      /\ \A q \in Requests : call'[q] = IF q = r THEN NoCall ELSE call[q]
  BY NoCallTyped DEF CallAnswered, HostedInv, HostedTypeOK
<1>2. Held' \subseteq Held \cup {Absent}
  BY <1>1, NoCallTyped DEF Held
<1>3. SessionsAreOwned'
  BY <1>1, <1>2, OwnedStays DEF HostedInv
<1>4. \A q \in Requests : CallOK(call'[q], hour')
  BY <1>1, NoCallTyped DEF HostedInv, CallsHold, CallOK
<1>5. HostedTypeOK'
  BY <1>1 DEF HostedInv, HostedTypeOK, Sessions, Tokens, CallStates, Pcs
<1> QED
  BY <1>3, <1>4, <1>5 DEF HostedInv, CallsHold

LEMMA HourPassesInv == ASSUME HostedInv, HourPasses PROVE HostedInv'
<1>1. hour \in Nat /\ hour' = hour + 1 /\ UNCHANGED <<cookies, signIns, cached, call>>
  BY DEF HourPasses, HostedInv, HostedTypeOK
<1>2. ASSUME NEW r \in Requests PROVE CallOK(call[r], hour')
  <2>1. call[r] \in CallStates /\ CallOK(call[r], hour) /\ (call[r].pc # "idle" => hour - call[r].since < Skew)
    BY DEF HourPasses, HostedInv, HostedTypeOK, CallsHold
  <2> QED
    BY <1>1, <2>1, HostedAssumption DEF CallOK, CallStates
<1>3. CallsHold'
  BY <1>1, <1>2 DEF CallsHold
<1>4. Held' \subseteq Held \cup {Absent}
  BY <1>1 DEF Held
<1>5. SessionsAreOwned'
  BY <1>1, <1>4, OwnedStays DEF HostedInv
<1>6. HostedTypeOK'
  BY <1>1 DEF HostedInv, HostedTypeOK, Sessions, Tokens, CallStates, Pcs
<1> QED
  BY <1>3, <1>5, <1>6 DEF HostedInv

LEMMA RestartInv == ASSUME HostedInv, ServerRestarts PROVE HostedInv'
<1>1. /\ UNCHANGED <<hour, cookies, signIns>> /\ DOMAIN cached' = {}
      /\ \A r \in Requests : call'[r] = NoCall
      /\ call' \in [Requests -> CallStates]
  BY NoCallTyped DEF ServerRestarts
<1>2. Held' \subseteq Held \cup {Absent}
  BY <1>1, NoCallTyped DEF Held
<1>3. \A a \in Held' \ {Absent} : a \in Held \ {Absent} /\ a.refresh \notin DOMAIN cached'
  BY <1>1, <1>2
<1>4. SessionsAreOwned'
  BY <1>1, <1>3 DEF HostedInv, SessionsAreOwned, Sessions, Tokens
<1>5. CallsHold'
  BY <1>1, NoCallTyped DEF CallsHold, CallOK
<1>6. HostedTypeOK'
  BY <1>1 DEF HostedInv, HostedTypeOK, Sessions, Tokens, CallStates, Pcs
<1> QED
  BY <1>4, <1>5, <1>6 DEF HostedInv
-----------------------------------------------------------------------------
LEMMA InvStep == HostedInv /\ [HostedNext]_hostedVars => HostedInv'
<1> SUFFICES ASSUME HostedInv, [HostedNext]_hostedVars PROVE HostedInv'
  OBVIOUS
<1>1. ASSUME NEW r \in Requests, NotRefreshed(r) PROVE HostedInv'
  BY <1>1, FallBackInv DEF NotRefreshed
<1>2. CASE UNCHANGED hostedVars
  <2>1. Held' \subseteq Held \cup {Absent}
    BY <1>2 DEF hostedVars, Held
  <2>2. SessionsAreOwned'
    BY <1>2, <2>1, OwnedStays DEF hostedVars, HostedInv
  <2> QED
    BY <1>2, <2>2 DEF hostedVars, HostedInv, HostedTypeOK, CallsHold, CallOK, Sessions, Tokens, CallStates, Pcs
<1> QED
  BY <1>1, <1>2, SignInInv, SignOutInv, AccountCallInv, TokenForInv, RefreshedInv, RememberInv, CallAnsweredInv,
     HourPassesInv, RestartInv DEF HostedNext

\* Whose every session and every remembered token is.
THEOREM HostedInvariant == HostedSpec => []HostedInv
  BY InvInit, InvStep, PTL DEF HostedSpec

\* No call presents another student's token.
THEOREM TokensAreTheStudents == HostedSpec => []TokenIsTheStudents
<1>1. HostedInv => TokenIsTheStudents
  BY DEF HostedInv, CallsHold, CallOK, TokenIsTheStudents
<1> QED
  BY <1>1, HostedInvariant, PTL

\* As long as the cookie lives, only a call that was refused a fresh token is
\* turned away, given that a token outlives the skew and a call does not.
THEOREM OnlyTheRefusedSignInAgain == HostedSpec => []TurnedAwayOnlyIfRefused
<1>1. HostedInv => TurnedAwayOnlyIfRefused
  <2> SUFFICES ASSUME HostedInv, NEW r \in Requests, SignInAgain(r) PROVE call[r].refused
    BY DEF TurnedAwayOnlyIfRefused
  <2>1. call[r].pc = "use" /\ call[r].token.expires <= hour /\ CallOK(call[r], hour)
    BY DEF SignInAgain, HostedInv, CallsHold
  <2>2. hour \in Nat /\ call[r].since \in Nat /\ hour <= call[r].since + Skew /\ call[r].token \in Tokens
    BY <2>1, Holding DEF CallOK
  <2> QED
    BY <2>1, <2>2, HostedAssumption DEF CallOK, Tokens
<1> QED
  BY <1>1, HostedInvariant, PTL
=============================================================================
