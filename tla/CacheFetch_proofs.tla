-------------------------- MODULE CacheFetch_proofs --------------------------
(***************************************************************************)
(* Proofs about KeyLock, and about CacheFetch, which uses it, for any      *)
(* keys, any finite set of threads and any freshness limits; and about     *)
(* BundlePublish, for any bundle and any number of runs.                   *)
(*                                                                         *)
(* KeyLock.  LockInv is inductive, so the table is exact (NoLockLeak), at  *)
(* most one thread is inside a key's lock (MutualExclusion), and the table *)
(* implements one lock per key (ImplementsMutex).  The heart is that an    *)
(* entry's count is the number of threads that refer to it.  A thread that *)
(* counts itself out may drop the table's slot only if it was the last;    *)
(* otherwise a later caller would create a second list for a key on which  *)
(* somebody still waits.                                                   *)
(*                                                                         *)
(* CacheFetch.  Its steps are KeyLock's (UsesKeyLock), so the theorems of  *)
(* the table hold of it; with StageOfPc they give SingleFlight, and        *)
(* SingleFlight is what makes RecordsAgree, and so the politeness promise  *)
(* OneAttemptPerWindow, inductive.  It also keeps the two files of a key   *)
(* together while a reader is in between (FilesInv, StampInv, ReuseInv),   *)
(* from which PayloadMatchesStamp and ReusedIsRecent follow.               *)
(*                                                                         *)
(* BundlePublish.  BundleInv says of every file where its old and its new  *)
(* copy are, by what the publication has reached.                          *)
(***************************************************************************)
EXTENDS CacheFetch, BundlePublish, FiniteSetTheorems, TLAPS

\* The users of a list are threads, so they can be counted.
LEMMA UsersFinite ==
    ASSUME NEW e
    PROVE  IsFiniteSet(Users(e)) /\ Cardinality(Users(e)) \in Nat
<1>1. Users(e) \subseteq Threads
    BY DEF Users
<1>2. IsFiniteSet(Users(e))
    BY <1>1, LockAssumption, FS_Subset
<1> QED
    BY <1>2, FS_CardinalityType

LEMMA LockInitInv == LockInit => LockInv
BY LockAssumption
   DEF LockInit, LockInv, LockTypeOK, Stages, StageInv, OwnerInv, SlotInv, CountInv

LEMMA ArriveInv ==
    ASSUME LockInv, NEW t \in Threads, NEW k \in Keys, Arrive(t, k)
    PROVE  LockInv'
<1> USE DEF LockInv, Arrive
<1>1. LockTypeOK'
    BY DEF LockTypeOK
<1>2. StageInv'
    BY DEF StageInv, LockTypeOK
<1>3. OwnerInv' /\ SlotInv'
    BY DEF OwnerInv, SlotInv
<1>4. CountInv'
    BY DEF CountInv, Users
<1> QED
    BY <1>1, <1>2, <1>3, <1>4

\* Counting in: the table's list gains one user, or a new list gets its first.
LEMMA RegisterInv ==
    ASSUME LockInv, NEW t \in Threads, Register(t)
    PROVE  LockInv'
<1> DEFINE k == lockKey[t]
<1> USE DEF LockInv
<1>1. PICK e \in Entries :
          /\ \/ /\ keyLocks[k] = e
                /\ refs' = [refs EXCEPT ![e] = @ + 1]
                /\ UNCHANGED <<keyLocks, owner>>
             \/ /\ keyLocks[k] = NoEntry
                /\ Unreferenced(e)
                /\ keyLocks' = [keyLocks EXCEPT ![k] = e]
                /\ refs' = [refs EXCEPT ![e] = 1]
                /\ owner' = [owner EXCEPT ![e] = Nobody]
          /\ entryOf' = [entryOf EXCEPT ![t] = e]
    BY DEF Register
<1>2. /\ stage[t] = "out" /\ entryOf[t] = NoEntry
      /\ stage' = [stage EXCEPT ![t] = "waiting"]
      /\ lockKey' = lockKey
      /\ k \in Keys /\ e # NoEntry
    BY LockAssumption DEF Register, StageInv, LockTypeOK
<1>3. LockTypeOK'
    BY <1>1, <1>2 DEF LockTypeOK, Stages
<1>4. t \notin Users(e) /\ Users(e)' = Users(e) \cup {t}
    BY <1>1, <1>2 DEF Users, LockTypeOK
<1>5. \A d \in Entries \ {e} : Users(d)' = Users(d)
    BY <1>1, <1>2, LockAssumption DEF Users, LockTypeOK
<1>6. CASE keyLocks[k] = e
    <2>1. UNCHANGED <<keyLocks, owner>> /\ refs' = [refs EXCEPT ![e] = @ + 1]
        BY <1>1, <1>2, <1>6
    <2>2. StageInv'
        BY <1>1, <1>2, <1>6, <2>1 DEF StageInv, LockTypeOK
    <2>3. OwnerInv'
        BY <1>1, <1>2, <2>1, LockAssumption DEF OwnerInv, LockTypeOK
    <2>4. SlotInv'
        BY <2>1 DEF SlotInv
    <2>5. refs'[e] = Cardinality(Users(e)')
        <3>1. refs[e] = Cardinality(Users(e))
            BY <1>2, <1>6 DEF CountInv
        <3>2. Cardinality(Users(e)') = Cardinality(Users(e)) + 1
            BY <1>4, UsersFinite, FS_AddElement
        <3> QED
            BY <2>1, <3>1, <3>2 DEF LockTypeOK
    <2>6. CountInv'
        BY <1>2, <1>4, <1>5, <2>1, <2>5 DEF CountInv, LockTypeOK
    <2> QED
        BY <1>3, <2>2, <2>3, <2>4, <2>6
<1>7. CASE keyLocks[k] = NoEntry
    <2>1. /\ Unreferenced(e)
          /\ keyLocks' = [keyLocks EXCEPT ![k] = e]
          /\ refs' = [refs EXCEPT ![e] = 1]
          /\ owner' = [owner EXCEPT ![e] = Nobody]
        BY <1>1, <1>2, <1>7
    <2>2. StageInv'
        BY <1>1, <1>2, <1>7, <2>1 DEF StageInv, LockTypeOK, Unreferenced
    <2>3. OwnerInv'
        BY <1>1, <1>2, <2>1, LockAssumption DEF OwnerInv, LockTypeOK, Unreferenced
    <2>4. SlotInv'
        BY <1>2, <2>1 DEF SlotInv, LockTypeOK, Unreferenced
    <2>5. Users(e)' = {t}
        BY <1>4, <2>1 DEF Users, Unreferenced
    <2>6. Cardinality({t}) = 1
        BY FS_Singleton
    <2>7. CountInv'
        BY <1>2, <1>5, <2>1, <2>5, <2>6 DEF CountInv, LockTypeOK, Unreferenced
    <2> QED
        BY <1>3, <2>2, <2>3, <2>4, <2>7
<1> QED
    BY <1>1, <1>6, <1>7

LEMMA AcquireInv ==
    ASSUME LockInv, NEW t \in Threads, Acquire(t)
    PROVE  LockInv'
<1> USE DEF LockInv, Acquire
<1>1. entryOf[t] \in Entries /\ owner[entryOf[t]] = Nobody
    BY LockAssumption DEF StageInv, LockTypeOK
<1>2. LockTypeOK'
    BY DEF LockTypeOK, Stages
<1>3. StageInv'
    BY DEF StageInv, LockTypeOK
<1>4. OwnerInv'
    BY <1>1, LockAssumption DEF OwnerInv, LockTypeOK
<1>5. SlotInv' /\ CountInv'
    BY DEF SlotInv, CountInv, Users
<1> QED
    BY <1>2, <1>3, <1>4, <1>5

LEMMA ReleaseInv ==
    ASSUME LockInv, NEW t \in Threads, Release(t)
    PROVE  LockInv'
<1> USE DEF LockInv, Release
<1>1. entryOf[t] \in Entries /\ owner[entryOf[t]] = t
    BY LockAssumption DEF StageInv, OwnerInv, LockTypeOK
<1>2. LockTypeOK'
    BY DEF LockTypeOK, Stages
<1>3. StageInv'
    BY DEF StageInv, LockTypeOK
<1>4. OwnerInv'
    BY <1>1, LockAssumption DEF OwnerInv, LockTypeOK
<1>5. SlotInv' /\ CountInv'
    BY DEF SlotInv, CountInv, Users
<1> QED
    BY <1>2, <1>3, <1>4, <1>5

\* Counting out: the slot goes exactly when t was its list's last user.
LEMMA DeregisterInv ==
    ASSUME LockInv, NEW t \in Threads, Deregister(t)
    PROVE  LockInv'
<1> USE DEF LockInv
<1>0. PICK e \in Entries, k \in Keys : e = entryOf[t] /\ k = lockKey[t]
    BY LockAssumption DEF Deregister, StageInv, LockTypeOK
<1>1. /\ stage[t] = "released" /\ entryOf[t] = e /\ lockKey[t] = k
      /\ keyLocks[k] = e /\ e # NoEntry
      /\ refs' = [refs EXCEPT ![e] = @ - 1]
      /\ entryOf' = [entryOf EXCEPT ![t] = NoEntry]
      /\ stage' = [stage EXCEPT ![t] = "out"]
      /\ owner' = owner /\ lockKey' = lockKey
    BY <1>0, LockAssumption DEF Deregister, StageInv, LockTypeOK
<1>2. t \in Users(e) /\ Users(e)' = Users(e) \ {t}
    BY <1>1 DEF Users, LockTypeOK
<1>3. \A d \in Entries \ {e} : Users(d)' = Users(d)
    BY <1>1, LockAssumption DEF Users, LockTypeOK
<1>4. /\ refs[e] = Cardinality(Users(e))
      /\ Cardinality(Users(e)') = refs[e] - 1
      /\ IsFiniteSet(Users(e)') /\ Cardinality(Users(e)') \in Nat
    BY <1>1, <1>2, UsersFinite, FS_RemoveElement, FS_CardinalityType DEF CountInv
<1>5. CASE refs[e] - 1 <= 0
    <2>1. keyLocks' = [keyLocks EXCEPT ![k] = NoEntry]
        BY <1>1, <1>5 DEF Deregister
    <2>2. Users(e)' = {}
        BY <1>4, <1>5, FS_EmptySet
    <2>3. \A u \in Threads : entryOf'[u] # e
        BY <2>2 DEF Users
    <2>4. LockTypeOK'
        BY <1>1, <2>1 DEF LockTypeOK, Stages
    <2>5. StageInv'
        BY <1>1, <2>1, <2>3 DEF StageInv, LockTypeOK
    <2>6. OwnerInv'
        BY <1>1 DEF OwnerInv, LockTypeOK
    <2>7. SlotInv'
        BY <1>1, <2>1 DEF SlotInv, LockTypeOK
    <2>8. CountInv'
        BY <1>1, <1>3, <2>1 DEF CountInv, SlotInv, LockTypeOK
    <2> QED
        BY <2>4, <2>5, <2>6, <2>7, <2>8
<1>6. CASE ~(refs[e] - 1 <= 0)
    <2>1. keyLocks' = keyLocks
        BY <1>1, <1>6 DEF Deregister
    <2>2. Users(e)' # {} /\ refs'[e] = Cardinality(Users(e)')
        BY <1>1, <1>4, <1>6, FS_EmptySet DEF LockTypeOK
    <2>3. LockTypeOK'
        BY <1>1, <2>1 DEF LockTypeOK, Stages
    <2>4. StageInv'
        BY <1>1, <2>1 DEF StageInv, LockTypeOK
    <2>5. OwnerInv' /\ SlotInv'
        BY <1>1, <2>1 DEF OwnerInv, SlotInv, LockTypeOK
    <2>6. CountInv'
        BY <1>1, <1>3, <2>1, <2>2 DEF CountInv, LockTypeOK
    <2> QED
        BY <2>3, <2>4, <2>5, <2>6
<1> QED
    BY <1>5, <1>6

LEMMA RestartInv ==
    ASSUME LockInv, LockRestart
    PROVE  LockInv'
BY LockAssumption
   DEF LockRestart, LockInv, LockTypeOK, Stages, StageInv, OwnerInv, SlotInv, CountInv

LEMMA StepInv == LockInv /\ [LockNext]_lockVars => LockInv'
<1> SUFFICES ASSUME LockInv, [LockNext]_lockVars
             PROVE  LockInv'
    OBVIOUS
<1>1. CASE UNCHANGED lockVars
    BY <1>1 DEF lockVars, LockInv, LockTypeOK, StageInv, OwnerInv, SlotInv, CountInv, Users
<1>2. CASE LockRestart
    BY <1>2, RestartInv
<1>3. ASSUME NEW t \in Threads,
             \/ \E k \in Keys : Arrive(t, k)
             \/ Register(t) \/ Acquire(t) \/ Release(t) \/ Deregister(t)
      PROVE  LockInv'
    BY <1>3, ArriveInv, RegisterInv, AcquireInv, ReleaseInv, DeregisterInv
<1> QED
    BY <1>1, <1>2, <1>3 DEF LockNext

\* The inductive invariant of the lock table.
THEOREM LockInvariant == LockSpec => []LockInv
<1> QED
    BY LockInitInv, StepInv, PTL DEF LockSpec

\* Two threads inside the lock of one key use the one list in the key's slot,
\* and a list's lock has one owner: so they are one thread.
THEOREM OneThreadPerKey == LockSpec => []MutualExclusion
<1>1. LockInv => MutualExclusion
    BY DEF LockInv, StageInv, OwnerInv, MutualExclusion
<1> QED
    BY <1>1, LockInvariant, PTL

\* The table never keeps a key nobody uses, nor loses one somebody does.
THEOREM TableIsExact == LockSpec => []NoLockLeak
<1>1. LockInv => NoLockLeak
    <2> SUFFICES ASSUME LockInv, NEW k \in Keys
                 PROVE  LET users == {t \in Threads : stage[t] # "out" /\ lockKey[t] = k}
                        IN  /\ (keyLocks[k] = NoEntry) <=> (users = {})
                            /\ keyLocks[k] # NoEntry => refs[keyLocks[k]] = Cardinality(users)
        BY DEF NoLockLeak
    <2> DEFINE users == {t \in Threads : stage[t] # "out" /\ lockKey[t] = k}
    <2>1. \A t \in Threads : stage[t] # "out" => entryOf[t] \in Entries
        BY DEF LockInv, StageInv, LockTypeOK
    <2>2. keyLocks[k] # NoEntry => users = Users(keyLocks[k])
        BY LockAssumption DEF LockInv, StageInv, SlotInv, LockTypeOK, Users
    <2>3. keyLocks[k] = NoEntry => users = {}
        BY <2>1, LockAssumption DEF LockInv, StageInv
    <2> QED
        BY <2>2, <2>3 DEF LockInv, CountInv
<1> QED
    BY <1>1, LockInvariant, PTL

\* Seen through holderOf, every step of the table is a step of independent
\* per-key locks, or no step at all.
THEOREM TableImplementsMutex == LockSpec => ImplementsMutex
<1>1. LockInit => Mutex!MutexInit
    BY DEF LockInit, Mutex!MutexInit, holderOf
<1>2. LockInv /\ [LockNext]_lockVars => [Mutex!MutexNext]_holderOf
    <2> SUFFICES ASSUME LockInv, [LockNext]_lockVars
                 PROVE  [Mutex!MutexNext]_holderOf
        OBVIOUS
    <2> USE DEF LockInv
    <2>1. CASE UNCHANGED lockVars
        BY <2>1 DEF lockVars, holderOf
    <2>2. CASE LockRestart
        BY <2>2, LockAssumption DEF LockRestart, holderOf, Mutex!MutexNext, Mutex!FreeAll
    <2>3. ASSUME NEW t \in Threads, NEW k \in Keys, Arrive(t, k)
          PROVE  UNCHANGED holderOf
        BY <2>3 DEF Arrive, holderOf
    <2>4. ASSUME NEW t \in Threads, Register(t)
          PROVE  UNCHANGED holderOf
        BY <2>4, LockAssumption DEF Register, Unreferenced, holderOf, LockTypeOK
    <2>5. ASSUME NEW t \in Threads, Acquire(t)
          PROVE  Mutex!Take(t, lockKey[t])
        BY <2>5, LockAssumption
           DEF Acquire, holderOf, LockTypeOK, StageInv, SlotInv, Mutex!Take
    <2>6. ASSUME NEW t \in Threads, Release(t)
          PROVE  Mutex!Free(t, lockKey[t])
        BY <2>6, LockAssumption
           DEF Release, holderOf, LockTypeOK, StageInv, SlotInv, OwnerInv, Mutex!Free
    <2>7. ASSUME NEW t \in Threads, Deregister(t)
          PROVE  UNCHANGED holderOf
        <3> DEFINE e == entryOf[t]
                   k == lockKey[t]
        <3>1. /\ e \in Entries /\ k \in Keys /\ keyLocks[k] = e /\ e # NoEntry
              /\ stage[t] = "released" /\ owner' = owner
            BY <2>7, LockAssumption DEF Deregister, LockTypeOK, StageInv
        <3>2. CASE keyLocks' = keyLocks
            BY <3>1, <3>2 DEF holderOf
        <3>3. CASE keyLocks' = [keyLocks EXCEPT ![k] = NoEntry]
            <4>1. owner[e] # Nobody => owner[e] \in Threads /\ owner[e] # t
                BY <3>1 DEF LockTypeOK, OwnerInv
            \* An owner of a dropped list would still find it in the table.
            <4>2. owner[e] = Nobody
                <5>1. StageInv'
                    BY <2>7, DeregisterInv
                <5>2. SUFFICES ASSUME owner[e] # Nobody
                               PROVE  FALSE
                    OBVIOUS
                <5> DEFINE u == owner[e]
                <5>3. u \in Threads /\ u # t /\ stage[u] = "inside" /\ entryOf[u] = e
                    BY <3>1, <4>1, <5>2 DEF OwnerInv
                <5>4. /\ stage'[u] = "inside" /\ entryOf'[u] = e
                      /\ lockKey' = lockKey
                    BY <2>7, <5>3 DEF Deregister, LockTypeOK
                <5>5. lockKey[u] = k
                    BY <3>1, <5>3 DEF StageInv, SlotInv, LockTypeOK
                <5>6. keyLocks'[k] = e
                    BY <5>1, <5>3, <5>4, <5>5 DEF StageInv
                <5> QED
                    BY <3>1, <3>3, <5>6 DEF LockTypeOK
            <4> QED
                BY <3>1, <3>3, <4>2 DEF holderOf, SlotInv, LockTypeOK
        <3> QED
            BY <2>7, <3>2, <3>3 DEF Deregister
    <2>8. \A t \in Threads : lockKey[t] \in Keys
        BY DEF LockTypeOK
    <2> QED
        BY <2>1, <2>2, <2>3, <2>4, <2>5, <2>6, <2>7, <2>8 DEF LockNext, Mutex!MutexNext
<1> QED
    BY <1>1, <1>2, LockInvariant, PTL DEF LockSpec, ImplementsMutex, Mutex!MutexSpec
-----------------------------------------------------------------------------
\* Every step of the cache is a step of the lock table or leaves it alone.
THEOREM UsesKeyLock == Spec => LockSpec
<1>1. Init => LockInit
    BY DEF Init
<1>2. [Next]_vars => [LockNext]_lockVars
    <2> SUFFICES ASSUME [Next]_vars PROVE [LockNext]_lockVars
        OBVIOUS
    <2>1. CASE UNCHANGED vars
        BY <2>1 DEF vars, lockVars
    <2>2. CASE Tick \/ Flip
        BY <2>2 DEF Tick, Flip
    <2>3. CASE Restart
        BY <2>3 DEF Restart, LockNext
    <2>4. ASSUME NEW t \in Threads, Call(t)
          PROVE  LockNext
        BY <2>4 DEF Call, LockNext
    <2>5. ASSUME NEW t \in Threads, FastPath(t) \/ EnterLock(t) \/ LeaveLock(t)
          PROVE  [LockNext]_lockVars
        BY <2>5 DEF FastPath, EnterLock, LeaveLock, LockNext
    <2>6. ASSUME NEW t \in Threads,
                 \/ ReplayRead(t) \/ Recheck(t) \/ FetchOk(t) \/ FetchFail(t)
                 \/ WriteJson(t) \/ WriteBody(t) \/ WriteMeta(t) \/ WriteFail(t)
                 \/ ReadBody(t) \/ ReadMeta(t) \/ Return(t)
          PROVE  UNCHANGED lockVars
        BY <2>6 DEF ReplayRead, Recheck, FetchOk, FetchFail, WriteJson, WriteBody,
                    WriteMeta, WriteFail, ReadBody, ReadMeta, Return
    <2> QED
        BY <2>1, <2>2, <2>3, <2>4, <2>5, <2>6 DEF Next, Step
<1> QED
    BY <1>1, <1>2, PTL DEF Spec, LockSpec

\* Hence the lock table's invariant holds of every run of the cache.
LEMMA CacheLockInv == Spec => []LockInv
BY UsesKeyLock, LockInvariant, PTL

LEMMA StageInit == Init => StageOfPc
BY DEF Init, LockInit, StageOfPc

LEMMA StageStep ==
    ASSUME LockTypeOK, pc \in [Threads -> Labels], StageOfPc, [Next]_vars
    PROVE  StageOfPc'
<1> USE DEF LockTypeOK, Labels, StageOfPc, Goto, Status
<1>1. CASE UNCHANGED vars
    BY <1>1 DEF vars, lockVars
<1>2. CASE Tick \/ Flip
    BY <1>2 DEF Tick, Flip, lockVars
<1>3. CASE Restart
    BY <1>3 DEF Restart, LockRestart
<1>4. ASSUME NEW t \in Threads, Call(t)
      PROVE  StageOfPc'
    BY <1>4 DEF Call, Arrive
<1>5. ASSUME NEW t \in Threads, FastPath(t)
      PROVE  StageOfPc'
    <2>1. CASE Reuse(t) /\ UNCHANGED lockVars
        BY <1>5, <2>1 DEF FastPath, Reuse, lockVars
    <2>2. CASE Register(t) /\ Goto(t, "wait")
        BY <1>5, <2>2 DEF FastPath, Register
    <2> QED
        BY <1>5, <2>1, <2>2 DEF FastPath
<1>6. ASSUME NEW t \in Threads, EnterLock(t)
      PROVE  StageOfPc'
    BY <1>6 DEF EnterLock, Acquire
<1>7. ASSUME NEW t \in Threads, LeaveLock(t)
      PROVE  StageOfPc'
    BY <1>7 DEF LeaveLock, Release, Deregister
<1>8. ASSUME NEW t \in Threads, ReplayRead(t) \/ Recheck(t)
      PROVE  StageOfPc'
    BY <1>8 DEF ReplayRead, Recheck, Reuse, lockVars
<1>9. ASSUME NEW t \in Threads, FetchOk(t) \/ FetchFail(t)
      PROVE  StageOfPc'
    BY <1>9 DEF FetchOk, FetchFail, lockVars
<1>10. ASSUME NEW t \in Threads, WriteJson(t) \/ WriteBody(t) \/ WriteMeta(t) \/ WriteFail(t)
       PROVE  StageOfPc'
    BY <1>10 DEF WriteJson, WriteBody, WriteMeta, WriteFail, FreshResult, lockVars
<1>11. ASSUME NEW t \in Threads, ReadBody(t) \/ ReadMeta(t) \/ Return(t)
       PROVE  StageOfPc'
    BY <1>11 DEF ReadBody, ReadMeta, Return, lockVars
<1> QED
    BY <1>1, <1>2, <1>3, <1>4, <1>5, <1>6, <1>7, <1>8, <1>9, <1>10, <1>11 DEF Next, Step

\* Whoever fetches or writes is inside its key's lock.
LEMMA SingleFlightFromLock == LockInv /\ StageOfPc => SingleFlight
BY DEF LockInv, StageInv, OwnerInv, StageOfPc, SingleFlight

\* The part of TypeOK that is not KeyLock's.
CacheTypes ==
    /\ mode \in {"live", "replay", "flipped"}
    /\ kind \in [Keys -> {"json", "bin"}]
    /\ maxAge \in [Keys -> MaxAges]
    /\ now \in Seconds
    /\ body \in [Keys -> MaybeTime]
    /\ meta \in [Keys -> MaybeTime]
    /\ attempts \in [Keys -> MaybeTime]
    /\ pc \in [Threads -> Labels]
    /\ force \in [Threads -> BOOLEAN]
    /\ res \in [Threads -> Results]
    /\ lastEnd \in [Keys -> [how : {"none", "failed", "stored"}, at : Seconds]]

LEMMA TypeInit == Init => CacheTypes
BY CacheAssumption
   DEF Init, CacheTypes, Seconds, MaybeTime, Labels, Results, NoResult

\* Building a result field by field keeps it a result.
LEMMA ResultSteps ==
    ASSUME CacheTypes, NEW t \in Threads, lockKey[t] \in Keys
    PROVE  /\ Reuse(t) => res' \in [Threads -> Results]
           /\ \A s \in {"stale", "raised"} : Status(t, s) => res' \in [Threads -> Results]
           /\ FreshResult(t) => res' \in [Threads -> Results]
           /\ ReadBody(t) \/ ReadMeta(t) => res' \in [Threads -> Results]
<1>0. now \in MaybeTime /\ body[lockKey[t]] \in MaybeTime /\ meta[lockKey[t]] \in MaybeTime
    BY DEF CacheTypes, MaybeTime
<1>1. ASSUME NEW r \in Results, NEW v \in MaybeTime, NEW w \in MaybeTime,
             NEW s \in {"fresh", "reused", "stale", "raised"}
      PROVE  /\ [r EXCEPT !.status = s] \in Results
             /\ [r EXCEPT !.value = v] \in Results
             /\ [r EXCEPT !.fetchedAt = v] \in Results
             /\ [r EXCEPT !.foundFreshAt = v] \in Results
    BY DEF Results
<1>2. ASSUME NEW r \in Results
      PROVE  res \in [Threads -> Results] /\ [res EXCEPT ![t] = r] \in [Threads -> Results]
    BY DEF CacheTypes
<1>3. res[t] \in Results
    BY DEF CacheTypes
<1>4. Reuse(t) => res' \in [Threads -> Results]
    <2> DEFINE r1 == [res[t] EXCEPT !.status = "reused"]
               r2 == [r1 EXCEPT !.foundFreshAt = now]
    <2>1. r1 \in Results
        BY <1>0, <1>1, <1>3
    <2>2. r2 \in Results
        BY <1>0, <1>1, <2>1
    <2>3. Reuse(t) => res' = [res EXCEPT ![t] = r2]
        BY <1>2, <1>3 DEF Reuse, CacheTypes
    <2> QED
        BY <1>2, <2>2, <2>3
<1>5. ASSUME NEW s \in {"stale", "raised"}, Status(t, s)
      PROVE  res' \in [Threads -> Results]
    <2>1. [res[t] EXCEPT !.status = s] \in Results
        BY <1>0, <1>1, <1>3
    <2>2. res' = [res EXCEPT ![t] = [res[t] EXCEPT !.status = s]]
        BY <1>5 DEF Status
    <2> QED
        BY <1>2, <2>1, <2>2
<1>6. FreshResult(t) => res' \in [Threads -> Results]
    <2> DEFINE r1 == [res[t] EXCEPT !.status = "fresh"]
               r2 == [r1 EXCEPT !.value = now]
               r3 == [r2 EXCEPT !.fetchedAt = now]
    <2>1. r1 \in Results
        BY <1>0, <1>1, <1>3
    <2>2. r2 \in Results
        BY <1>0, <1>1, <2>1
    <2>3. r3 \in Results
        BY <1>0, <1>1, <2>2
    <2>4. FreshResult(t) => res' = [res EXCEPT ![t] = r3]
        BY <1>2, <1>3 DEF FreshResult, CacheTypes
    <2> QED
        BY <1>2, <2>3, <2>4
<1>7. ReadBody(t) => res' \in [Threads -> Results]
    <2>1. [res[t] EXCEPT !.value = body[lockKey[t]]] \in Results
        BY <1>0, <1>1, <1>3
    <2>2. ReadBody(t) => res' = [res EXCEPT ![t] = [res[t] EXCEPT !.value = body[lockKey[t]]]]
        BY DEF ReadBody
    <2> QED
        BY <1>2, <2>1, <2>2
<1>8. ReadMeta(t) => res' \in [Threads -> Results]
    <2>1. [res[t] EXCEPT !.fetchedAt = meta[lockKey[t]]] \in Results
        BY <1>0, <1>1, <1>3
    <2>2. ReadMeta(t) => res' = [res EXCEPT ![t] = [res[t] EXCEPT !.fetchedAt = meta[lockKey[t]]]]
        BY DEF ReadMeta
    <2> QED
        BY <1>2, <2>1, <2>2
<1> QED
    BY <1>4, <1>5, <1>6, <1>7, <1>8

LEMMA TypeStep ==
    ASSUME LockTypeOK, CacheTypes, [Next]_vars
    PROVE  CacheTypes'
<1> USE DEF CacheTypes, disk, site
<1>0. 0 \in Seconds /\ \A t \in Threads : lockKey[t] \in Keys
    BY CacheAssumption DEF Seconds, LockTypeOK
<1>1. CASE UNCHANGED vars
    BY <1>1 DEF vars
<1>2. CASE Tick \/ Flip
    BY <1>2, CacheAssumption DEF Tick, Flip, Seconds
<1>3. CASE Restart
    BY <1>0, <1>3 DEF Restart, Labels, Results, NoResult, MaybeTime
<1>4. ASSUME NEW t \in Threads, Call(t)
      PROVE  CacheTypes'
    BY <1>4 DEF Call, Goto, Labels
<1>5. ASSUME NEW t \in Threads, Step(t)
      PROVE  CacheTypes'
    <2>1. res' \in [Threads -> Results]
        <3>1. CASE ReplayRead(t) \/ FastPath(t) \/ Recheck(t)
            BY <1>0, <3>1, ResultSteps DEF ReplayRead, FastPath, Recheck
        <3>2. CASE FetchOk(t) \/ FetchFail(t) \/ EnterLock(t) \/ LeaveLock(t)
            BY <1>0, <3>2, ResultSteps DEF FetchOk, FetchFail, EnterLock, LeaveLock
        <3>3. CASE WriteJson(t) \/ WriteBody(t) \/ WriteMeta(t) \/ WriteFail(t)
            BY <1>0, <3>3, ResultSteps DEF WriteJson, WriteBody, WriteMeta, WriteFail
        <3>4. CASE ReadBody(t) \/ ReadMeta(t)
            BY <1>0, <3>4, ResultSteps
        <3>5. CASE Return(t)
            BY <3>5 DEF Return, NoResult, Results, MaybeTime
        <3> QED
            BY <1>5, <3>1, <3>2, <3>3, <3>4, <3>5 DEF Step
    <2>2. pc' \in [Threads -> Labels] /\ force' \in [Threads -> BOOLEAN]
        <3>1. CASE ReplayRead(t) \/ FastPath(t) \/ EnterLock(t) \/ Recheck(t) \/ LeaveLock(t)
            BY <3>1 DEF ReplayRead, FastPath, EnterLock, Recheck, LeaveLock, Reuse, Goto, Labels
        <3>2. CASE FetchOk(t) \/ FetchFail(t) \/ ReadBody(t) \/ ReadMeta(t) \/ Return(t)
            BY <3>2 DEF FetchOk, FetchFail, ReadBody, ReadMeta, Return, Goto, Labels
        <3>3. CASE WriteJson(t) \/ WriteBody(t) \/ WriteMeta(t) \/ WriteFail(t)
            BY <3>3 DEF WriteJson, WriteBody, WriteMeta, WriteFail, FreshResult, Goto, Labels
        <3> QED
            BY <1>5, <3>1, <3>2, <3>3 DEF Step
    <2>3. UNCHANGED <<mode, site, now>>
        <3>1. CASE ReplayRead(t) \/ FastPath(t) \/ EnterLock(t) \/ Recheck(t) \/ LeaveLock(t)
            BY <3>1 DEF ReplayRead, FastPath, EnterLock, Recheck, LeaveLock
        <3>2. CASE FetchOk(t) \/ FetchFail(t) \/ ReadBody(t) \/ ReadMeta(t) \/ Return(t)
            BY <3>2 DEF FetchOk, FetchFail, ReadBody, ReadMeta, Return
        <3>3. CASE WriteJson(t) \/ WriteBody(t) \/ WriteMeta(t) \/ WriteFail(t)
            BY <3>3 DEF WriteJson, WriteBody, WriteMeta, WriteFail
        <3> QED
            BY <1>5, <3>1, <3>2, <3>3 DEF Step
    <2>4. /\ body' \in [Keys -> MaybeTime] /\ meta' \in [Keys -> MaybeTime]
          /\ attempts' \in [Keys -> MaybeTime]
          /\ lastEnd' \in [Keys -> [how : {"none", "failed", "stored"}, at : Seconds]]
        <3>1. CASE ReplayRead(t) \/ FastPath(t) \/ EnterLock(t) \/ Recheck(t) \/ LeaveLock(t)
            BY <3>1 DEF ReplayRead, FastPath, EnterLock, Recheck, LeaveLock
        <3>2. CASE FetchOk(t) \/ FetchFail(t)
            <4>1. UNCHANGED disk
                BY <3>2 DEF FetchOk, FetchFail
            <4>2. \E a \in MaybeTime : attempts' = [attempts EXCEPT ![lockKey[t]] = a]
                BY <1>0, <3>2 DEF FetchOk, FetchFail, MaybeTime
            <4>3. \E e \in [how : {"none", "failed", "stored"}, at : Seconds] :
                      lastEnd' = [lastEnd EXCEPT ![lockKey[t]] = e]
                <5>1. /\ [how |-> "none", at |-> 0] \in [how : {"none", "failed", "stored"}, at : Seconds]
                      /\ [how |-> "failed", at |-> now] \in [how : {"none", "failed", "stored"}, at : Seconds]
                    BY <1>0
                <5> QED
                    BY <5>1, <3>2 DEF FetchOk, FetchFail
            <4>4. body' \in [Keys -> MaybeTime] /\ meta' \in [Keys -> MaybeTime]
                BY <4>1 DEF disk
            <4>5. attempts' \in [Keys -> MaybeTime]
                BY <4>2
            <4>6. lastEnd' \in [Keys -> [how : {"none", "failed", "stored"}, at : Seconds]]
                BY <4>3
            <4> QED
                BY <4>4, <4>5, <4>6
        <3>3. CASE ReadBody(t) \/ ReadMeta(t) \/ Return(t) \/ WriteFail(t)
            BY <3>3 DEF ReadBody, ReadMeta, Return, WriteFail
        <3>4. CASE WriteJson(t) \/ WriteBody(t) \/ WriteMeta(t)
            <4>1. body' \in [Keys -> MaybeTime] /\ meta' \in [Keys -> MaybeTime] /\ attempts' = attempts
                <5>1. CASE WriteJson(t)
                    <6>1. lockKey[t] \in Keys /\ now \in MaybeTime /\ attempts' = attempts
                        BY <1>0, <5>1 DEF WriteJson, MaybeTime
                    <6>2. \/ /\ body' = [body EXCEPT ![lockKey[t]] = now]
                             /\ meta' = [meta EXCEPT ![lockKey[t]] = now]
                          \/ body' = body /\ meta' = meta
                        BY <5>1 DEF WriteJson, disk
                    <6>3. body \in [Keys -> MaybeTime] /\ meta \in [Keys -> MaybeTime]
                        BY <1>0
                    <6> QED
                        BY <6>1, <6>2, <6>3
                <5>2. CASE WriteBody(t)
                    BY <1>0, <5>2 DEF WriteBody, MaybeTime
                <5>3. CASE WriteMeta(t)
                    BY <1>0, <5>3 DEF WriteMeta, MaybeTime
                <5> QED
                    BY <3>4, <5>1, <5>2, <5>3
            <4>2. Stored(lockKey[t]) \/ lastEnd' = lastEnd
                BY <3>4 DEF WriteJson, WriteBody, WriteMeta
            <4>3. [how |-> "stored", at |-> now] \in [how : {"none", "failed", "stored"}, at : Seconds]
                OBVIOUS
            <4> QED
                BY <1>0, <4>1, <4>2, <4>3 DEF Stored
        <3> QED
            BY <1>5, <3>1, <3>2, <3>3, <3>4 DEF Step
    <2> QED
        BY <2>1, <2>2, <2>3, <2>4
<1> QED
    BY <1>1, <1>2, <1>3, <1>4, <1>5 DEF Next

\* Every variable keeps its type, the cooldown table, the files and the results
\* of the requests included.
THEOREM TypeCorrect == Spec => []TypeOK
<1>1. Spec => []LockInv
    BY CacheLockInv
<1>2. LockInv => LockTypeOK
    BY DEF LockInv
<1>3. Init => CacheTypes
    BY TypeInit
<1>4. LockTypeOK /\ CacheTypes /\ [Next]_vars => CacheTypes'
    BY TypeStep
<1>5. LockTypeOK /\ CacheTypes => TypeOK
    BY DEF TypeOK, CacheTypes
<1> QED
    BY <1>1, <1>2, <1>3, <1>4, <1>5, PTL DEF Spec

\* A key's upstream is never asked twice at once, and its files never have two
\* writers, for any number of request threads.
THEOREM OneFetchPerKey == Spec => []SingleFlight
<1>1. TypeOK => LockTypeOK /\ pc \in [Threads -> Labels]
    BY DEF TypeOK
<1>2. LockTypeOK /\ pc \in [Threads -> Labels] /\ StageOfPc /\ [Next]_vars => StageOfPc'
    BY StageStep
<1> QED
    BY <1>1, <1>2, TypeCorrect, CacheLockInv, StageInit, SingleFlightFromLock, PTL DEF Spec

LEMMA RecordsInit == Init => RecordsAgree
BY DEF Init, RecordsAgree

LEMMA RecordsStep ==
    ASSUME TypeOK, SingleFlight, RecordsAgree, [Next]_vars
    PROVE  RecordsAgree'
<1> USE DEF RecordsAgree, disk, Goto
<1>0. /\ now # None /\ now \in Seconds
      /\ \A t \in Threads : lockKey[t] \in Keys
      /\ pc \in [Threads -> Labels]
      /\ body \in [Keys -> MaybeTime] /\ meta \in [Keys -> MaybeTime]
      /\ attempts \in [Keys -> MaybeTime]
      /\ lastEnd \in [Keys -> [how : {"none", "failed", "stored"}, at : Seconds]]
    BY CacheAssumption DEF TypeOK, LockTypeOK, Seconds
<1>1. CASE UNCHANGED vars
    BY <1>1 DEF vars, lockVars
<1>2. CASE Tick \/ Flip
    BY <1>2 DEF Tick, Flip, lockVars
<1>3. CASE Restart
    BY <1>0, <1>3 DEF Restart, LockRestart
<1>4. ASSUME NEW t \in Threads, Call(t)
      PROVE  RecordsAgree'
    BY <1>0, <1>4 DEF Call, Arrive, LockTypeOK, TypeOK
<1>5. ASSUME NEW t \in Threads,
             \/ ReplayRead(t) \/ FastPath(t) \/ EnterLock(t) \/ Recheck(t) \/ LeaveLock(t)
             \/ ReadBody(t) \/ ReadMeta(t) \/ Return(t) \/ WriteFail(t)
      PROVE  RecordsAgree'
    <2>1. UNCHANGED <<lockKey, body, meta, attempts, lastEnd>>
        BY <1>5 DEF ReplayRead, FastPath, EnterLock, Recheck, LeaveLock, ReadBody, ReadMeta,
                    Return, WriteFail, lockVars, Register, Acquire, Release, Deregister
    <2>2. \A u \in Threads : pc'[u] \in {"write", "writeMeta"} => pc'[u] = pc[u]
        BY <1>0, <1>5 DEF ReplayRead, FastPath, EnterLock, Recheck, LeaveLock, ReadBody,
                          ReadMeta, Return, WriteFail, Reuse
    <2> QED
        BY <2>1, <2>2
<1>6. ASSUME NEW t \in Threads, FetchOk(t)
      PROVE  RecordsAgree'
    BY <1>0, <1>6 DEF FetchOk, lockVars
<1>7. ASSUME NEW t \in Threads, FetchFail(t)
      PROVE  RecordsAgree'
    BY <1>0, <1>7 DEF FetchFail, lockVars, SingleFlight
<1>8. ASSUME NEW t \in Threads, WriteJson(t) \/ WriteMeta(t)
      PROVE  RecordsAgree'
    <2> DEFINE l == lockKey[t]
    <2>1. l \in Keys /\ UNCHANGED <<lockKey, attempts>> /\ pc' = [pc EXCEPT ![t] = "release"]
        BY <1>0, <1>8 DEF WriteJson, WriteMeta, FreshResult, lockVars
    <2>2. \A u \in Threads : pc'[u] \in {"write", "writeMeta"} => lockKey[u] # l /\ pc[u] = pc'[u]
        BY <1>0, <1>8, <2>1 DEF WriteJson, WriteMeta, SingleFlight
    <2>3. \A k \in Keys : k # l => body'[k] = body[k] /\ meta'[k] = meta[k] /\ lastEnd'[k] = lastEnd[k]
        BY <1>0, <1>8 DEF WriteJson, WriteMeta, Stored
    <2>4. \/ UNCHANGED <<body, meta, lastEnd>>
          \/ body'[l] # None /\ meta'[l] = now /\ lastEnd'[l] = [how |-> "stored", at |-> now]
        BY <1>0, <1>8, <2>1 DEF WriteJson, WriteMeta, Stored
    <2>5. \A k \in Keys :
              /\ lastEnd'[k].how = "failed" => attempts'[k] = lastEnd'[k].at
              /\ lastEnd'[k].how = "stored" => body'[k] # None /\ meta'[k] = lastEnd'[k].at
        BY <2>1, <2>3, <2>4
    <2>6. \A u \in Threads : lockKey[u] \in Keys
        BY <1>0
    <2> QED
        BY <2>1, <2>2, <2>3, <2>5, <2>6
<1>9. ASSUME NEW t \in Threads, WriteBody(t)
      PROVE  RecordsAgree'
    BY <1>0, <1>9 DEF WriteBody, lockVars, SingleFlight
<1> QED
    BY <1>1, <1>2, <1>3, <1>4, <1>5, <1>6, <1>7, <1>8, <1>9 DEF Next, Step

\* Only an expired copy and an expired cooldown let an unforced request through.
LEMMA AttemptStep ==
    ASSUME TypeOK, RecordsAgree, [Next]_vars,
           NEW t \in Threads, pc[t] # "fetch", pc'[t] = "fetch", ~force[t],
           NEW k, k = lockKey[t]
    PROVE  /\ lastEnd[k].how = "failed" => now - lastEnd[k].at >= CooldownWindow(k)
           /\ lastEnd[k].how = "stored" => /\ maxAge[k] # NoLimit
                                           /\ now - lastEnd[k].at >= maxAge[k] \/ now = lastEnd[k].at
<1>0. /\ k \in Keys
      /\ pc \in [Threads -> Labels]
      /\ now \in Int /\ lastEnd[k].at \in Int /\ lastEnd[k].at # None
      /\ maxAge[k] = NoLimit \/ maxAge[k] \in Int
      /\ DefaultCooldown \in Int
    <2>1. k \in Keys /\ now \in Seconds /\ pc \in [Threads -> Labels]
        BY DEF TypeOK, LockTypeOK
    <2>2. lastEnd[k] \in [how : {"none", "failed", "stored"}, at : Seconds]
        BY <2>1 DEF TypeOK
    <2>3. lastEnd[k].at \in Seconds
        BY <2>2
    <2>4. maxAge[k] \in MaxAges
        BY <2>1 DEF TypeOK
    <2>5. maxAge[k] \in (Nat \ {0}) \cup {NoLimit}
        BY <2>4, CacheAssumption
    <2>6. now \in Int /\ lastEnd[k].at \in Nat
        BY <2>1, <2>3, CacheAssumption DEF Seconds
    <2>7. lastEnd[k].at # None
        BY <2>6, CacheAssumption
    <2> QED
        BY <2>1, <2>5, <2>6, <2>7, CacheAssumption
<1>1. Recheck(t)
    <2>1. ~ UNCHANGED vars
        BY DEF vars
    <2>2. ~(Tick \/ Flip \/ Restart)
        BY <1>0 DEF Tick, Flip, Restart
    <2>3. ASSUME NEW u \in Threads, Call(u) \/ Return(u) \/ ReplayRead(u) \/ FastPath(u) \/ EnterLock(u)
          PROVE  FALSE
        BY <1>0, <2>3 DEF Call, Return, ReplayRead, FastPath, EnterLock, Reuse, Goto
    <2>4. ASSUME NEW u \in Threads, FetchOk(u) \/ FetchFail(u) \/ ReadBody(u) \/ ReadMeta(u) \/ LeaveLock(u)
          PROVE  FALSE
        BY <1>0, <2>4 DEF FetchOk, FetchFail, ReadBody, ReadMeta, LeaveLock, Goto
    <2>5. ASSUME NEW u \in Threads, WriteJson(u) \/ WriteBody(u) \/ WriteMeta(u) \/ WriteFail(u)
          PROVE  FALSE
        BY <1>0, <2>5 DEF WriteJson, WriteBody, WriteMeta, WriteFail, FreshResult, Goto
    <2>6. ASSUME NEW u \in Threads, Recheck(u)
          PROVE  u = t
        BY <1>0, <2>6 DEF Recheck, Reuse, Goto
    <2> QED
        BY <2>1, <2>2, <2>3, <2>4, <2>5, <2>6 DEF Next, Step
<1>2. FALSE \in FreshReads(k) /\ ~SuppressRetry(k)
    BY <1>0, <1>1 DEF Recheck, Reuse, Goto
<1>3. ASSUME lastEnd[k].how = "failed"
      PROVE  now - lastEnd[k].at >= CooldownWindow(k)
    <2>1. attempts[k] = lastEnd[k].at
        BY <1>0, <1>3 DEF RecordsAgree
    <2>2. ~(now - attempts[k] < CooldownWindow(k))
        BY <1>0, <1>2, <2>1 DEF SuppressRetry
    <2>3. CooldownWindow(k) \in Int
        BY <1>0 DEF CooldownWindow
    <2> QED
        BY <1>0, <2>1, <2>2, <2>3
<1>4. ASSUME lastEnd[k].how = "stored"
      PROVE  /\ maxAge[k] # NoLimit
             /\ now - lastEnd[k].at >= maxAge[k] \/ now = lastEnd[k].at
    <2>1. body[k] # None /\ meta[k] = lastEnd[k].at
        BY <1>0, <1>4 DEF RecordsAgree
    <2>2. maxAge[k] # NoLimit
        BY <1>2, <2>1 DEF FreshReads
    <2>3. Age(k) \in {0, maxAge[k]} \/ ~(Age(k) <= maxAge[k])
        BY <1>0, <1>2, <2>1, <2>2 DEF FreshReads
    <2> QED
        BY <1>0, <2>1, <2>2, <2>3 DEF Age
<1> QED
    BY <1>3, <1>4

\* The politeness promise, for any number of threads, keys and callers: within
\* its window a key's upstream hears of it once, unless a caller forces it.
THEOREM Politeness == Spec => OneAttemptPerWindow
<1>1. TypeOK /\ SingleFlight /\ RecordsAgree /\ [Next]_vars => RecordsAgree'
    BY RecordsStep
<1>2. Spec => []RecordsAgree
    BY <1>1, RecordsInit, TypeCorrect, OneFetchPerKey, PTL DEF Spec
<1> DEFINE Polite == \A t \in Threads :
              pc[t] # "fetch" /\ pc'[t] = "fetch" /\ ~force[t] =>
                  LET k == lockKey[t]
                      last == lastEnd[k]
                  IN  /\ last.how = "failed" => now - last.at >= CooldownWindow(k)
                      /\ last.how = "stored" => /\ maxAge[k] # NoLimit
                                                /\ now - last.at >= maxAge[k] \/ now = last.at
<1>3. TypeOK /\ RecordsAgree /\ [Next]_vars => [Polite]_vars
    <2> SUFFICES ASSUME TypeOK, RecordsAgree, [Next]_vars PROVE Polite
        OBVIOUS
    <2> QED
        BY AttemptStep
<1> HIDE DEF Polite
<1>4. Spec => [][Polite]_vars
    BY <1>2, <1>3, TypeCorrect, PTL DEF Spec
<1> QED
    BY <1>4 DEF OneAttemptPerWindow, Polite
-----------------------------------------------------------------------------
\* What the files of a key have to do with each other and with the clock.  An
\* envelope is never newer than its payload, a JSON key's two are one file, and
\* a binary payload whose envelope is still to be written is of this second.
FilesInv ==
    /\ \A k \in Keys :
          /\ body[k] # None => body[k] <= now
          /\ meta[k] # None => body[k] # None /\ meta[k] <= body[k]
          /\ kind[k] = "json" => meta[k] = body[k]
    /\ \A t \in Threads :
          pc[t] = "writeMeta" => kind[lockKey[t]] = "bin" /\ body[lockKey[t]] = now

\* A reused copy keeps its promise from the freshness test, through the file
\* being replaced by a newer one, to the read of the payload and beyond.
ReuseInv ==
    \A t \in Threads :
        LET k == lockKey[t] IN
        mode = "live" /\ res[t].status = "reused" /\ maxAge[k] # NoLimit =>
            /\ pc[t] = "readBody" =>
                  /\ body[k] # None /\ res[t].foundFreshAt # None
                  /\ res[t].foundFreshAt - body[k] <= maxAge[k]
            /\ pc[t] \in {"readMeta", "release", "done"} =>
                  /\ res[t].value # None /\ res[t].foundFreshAt # None
                  /\ res[t].foundFreshAt - res[t].value <= maxAge[k]

\* Between the two reads of a copy the file may only have become newer, and
\* under the key's lock it cannot have changed at all.
StampInv ==
    \A t \in Threads :
        LET k == lockKey[t] IN
        /\ pc[t] \in {"idle", "start", "wait", "recheck", "fetch", "write", "writeMeta"} =>
              res[t] = NoResult
        /\ pc[t] = "readBody" => res[t].value = None
        /\ pc[t] \in {"readBody", "readMeta"} /\ res[t].status # "reused" => stage[t] = "inside"
        /\ pc[t] = "readMeta" /\ res[t].value # None /\ kind[k] = "json" =>
              /\ meta[k] # None /\ res[t].value <= meta[k]
              /\ stage[t] = "inside" => meta[k] = res[t].value
        /\ pc[t] \in {"release", "done"} /\ res[t].value # None /\ kind[k] = "json" =>
              /\ res[t].fetchedAt # None /\ res[t].value <= res[t].fetchedAt
              /\ res[t].status # "reused" => res[t].fetchedAt = res[t].value
\* The facts about types that the steps below keep needing.
LEMMA CacheFacts ==
    ASSUME TypeOK
    PROVE  /\ now \in Nat /\ now # None
           /\ \A k \in Keys : /\ body[k] # None => body[k] \in Nat
                              /\ meta[k] # None => meta[k] \in Nat
                              /\ maxAge[k] # NoLimit => maxAge[k] \in Nat
           /\ \A t \in Threads : lockKey[t] \in Keys /\ res[t] \in Results
           /\ pc \in [Threads -> Labels] /\ stage \in [Threads -> Stages]
           /\ res \in [Threads -> Results]
           /\ body \in [Keys -> MaybeTime] /\ meta \in [Keys -> MaybeTime]
           /\ lockKey \in [Threads -> Keys]
<1>1. now \in Seconds /\ Seconds \subseteq Nat
    BY CacheAssumption DEF TypeOK, Seconds
<1>2. ASSUME NEW k \in Keys
      PROVE  /\ body[k] # None => body[k] \in Nat
             /\ meta[k] # None => meta[k] \in Nat
             /\ maxAge[k] # NoLimit => maxAge[k] \in Nat
    <2>1. body[k] \in MaybeTime /\ meta[k] \in MaybeTime /\ maxAge[k] \in MaxAges
        BY DEF TypeOK
    <2> QED
        BY <1>1, <2>1, CacheAssumption DEF MaybeTime
<1> QED
    BY <1>1, <1>2, CacheAssumption DEF TypeOK, LockTypeOK

LEMMA FilesInit == Init => FilesInv
BY CacheAssumption DEF Init, FilesInv

LEMMA FilesStep ==
    ASSUME TypeOK, SingleFlight, FilesInv, [Next]_vars
    PROVE  FilesInv'
<1> USE DEF FilesInv, disk, site, Goto
<1>0. /\ now \in Nat /\ now # None
      /\ \A k \in Keys : /\ body[k] # None => body[k] \in Nat
                         /\ meta[k] # None => meta[k] \in Nat
      /\ \A t \in Threads : lockKey[t] \in Keys
      /\ pc \in [Threads -> Labels]
      /\ body \in [Keys -> MaybeTime] /\ meta \in [Keys -> MaybeTime]
    BY CacheFacts
<1>1. CASE UNCHANGED vars
    BY <1>1 DEF vars, lockVars
<1>2. CASE Tick
    BY <1>0, <1>2 DEF Tick, lockVars
<1>3. CASE Flip \/ Restart
    BY <1>3 DEF Flip, Restart, LockRestart, lockVars
<1>4. ASSUME NEW t \in Threads, Call(t)
      PROVE  FilesInv'
    BY <1>0, <1>4 DEF Call, Arrive, LockTypeOK, TypeOK
<1>5. ASSUME NEW t \in Threads,
             \/ ReplayRead(t) \/ FastPath(t) \/ EnterLock(t) \/ Recheck(t) \/ LeaveLock(t)
             \/ FetchOk(t) \/ FetchFail(t) \/ WriteFail(t)
             \/ ReadBody(t) \/ ReadMeta(t) \/ Return(t)
      PROVE  FilesInv'
    <2>1. UNCHANGED <<lockKey, body, meta, now, kind>>
        BY <1>5 DEF ReplayRead, FastPath, EnterLock, Recheck, LeaveLock, FetchOk, FetchFail,
                    WriteFail, ReadBody, ReadMeta, Return, lockVars, Register, Acquire,
                    Release, Deregister
    <2>2. \A u \in Threads : pc'[u] = "writeMeta" => pc[u] = "writeMeta"
        <3>1. CASE ReplayRead(t) \/ FastPath(t) \/ EnterLock(t) \/ Recheck(t) \/ LeaveLock(t)
            BY <1>0, <3>1 DEF ReplayRead, FastPath, EnterLock, Recheck, LeaveLock, Reuse
        <3>2. CASE \/ FetchOk(t) \/ FetchFail(t) \/ WriteFail(t) \/ ReadBody(t) \/ ReadMeta(t)
                   \/ Return(t)
            BY <1>0, <3>2 DEF FetchOk, FetchFail, WriteFail, ReadBody, ReadMeta, Return
        <3> QED
            BY <1>5, <3>1, <3>2
    <2> QED
        BY <2>1, <2>2
<1>6. ASSUME NEW t \in Threads, WriteJson(t)
      PROVE  FilesInv'
    BY <1>0, <1>6 DEF WriteJson, FreshResult, lockVars, SingleFlight
<1>7. ASSUME NEW t \in Threads, WriteBody(t)
      PROVE  FilesInv'
    BY <1>0, <1>7 DEF WriteBody, lockVars, SingleFlight
<1>8. ASSUME NEW t \in Threads, WriteMeta(t)
      PROVE  FilesInv'
    BY <1>0, <1>8 DEF WriteMeta, FreshResult, lockVars, SingleFlight
<1> QED
    BY <1>1, <1>2, <1>3, <1>4, <1>5, <1>6, <1>7, <1>8 DEF Next, Step

\* How a step changes the answer a thread is building: nothing but Reuse,
\* Status, FreshResult and the two reads touches it before Return.
LEMMA AnswerSteps ==
    ASSUME TypeOK, NEW t \in Threads
    PROVE  /\ Reuse(t) => /\ res'[t].status = "reused" /\ res'[t].foundFreshAt = now
                          /\ res'[t].value = res[t].value /\ pc'[t] = "readBody"
           /\ \A s \in {"stale", "raised"} :
                Status(t, s) => res'[t].status = s /\ res'[t].value = res[t].value
           /\ FreshResult(t) => /\ res'[t].status = "fresh" /\ res'[t].value = now
                                /\ res'[t].fetchedAt = now /\ pc'[t] = "release"
           /\ ReadBody(t) => /\ res'[t].value = body[lockKey[t]] /\ res'[t].status = res[t].status
                             /\ res'[t].foundFreshAt = res[t].foundFreshAt /\ pc'[t] = "readMeta"
           /\ ReadMeta(t) => /\ res'[t].fetchedAt = meta[lockKey[t]] /\ res'[t].value = res[t].value
                             /\ res'[t].status = res[t].status
                             /\ res'[t].foundFreshAt = res[t].foundFreshAt
<1>1. res \in [Threads -> Results] /\ pc \in [Threads -> Labels]
    BY CacheFacts
<1>2. res[t] = [status |-> res[t].status, value |-> res[t].value, fetchedAt |-> res[t].fetchedAt,
                foundFreshAt |-> res[t].foundFreshAt]
    BY <1>1 DEF Results
<1>3. Reuse(t) => /\ res'[t].status = "reused" /\ res'[t].foundFreshAt = now
                  /\ res'[t].value = res[t].value /\ pc'[t] = "readBody"
    BY <1>1, <1>2 DEF Reuse, Goto
<1>4. \A s \in {"stale", "raised"} :
          Status(t, s) => res'[t].status = s /\ res'[t].value = res[t].value
    BY <1>1, <1>2 DEF Status
<1>5. FreshResult(t) => /\ res'[t].status = "fresh" /\ res'[t].value = now
                        /\ res'[t].fetchedAt = now /\ pc'[t] = "release"
    BY <1>1, <1>2 DEF FreshResult, Goto
<1>6. ReadBody(t) => /\ res'[t].value = body[lockKey[t]] /\ res'[t].status = res[t].status
                     /\ res'[t].foundFreshAt = res[t].foundFreshAt /\ pc'[t] = "readMeta"
    BY <1>1, <1>2 DEF ReadBody, Goto
<1>7. ReadMeta(t) => /\ res'[t].fetchedAt = meta[lockKey[t]] /\ res'[t].value = res[t].value
                     /\ res'[t].status = res[t].status
                     /\ res'[t].foundFreshAt = res[t].foundFreshAt
    BY <1>1, <1>2 DEF ReadMeta
<1> QED
    BY <1>3, <1>4, <1>5, <1>6, <1>7

\* A step of t is nobody else's: every other thread keeps its place, its key,
\* its lock and its answer.
LEMMA OthersKeep ==
    ASSUME TypeOK, NEW t \in Threads, Call(t) \/ Step(t),
           NEW u \in Threads, u # t
    PROVE  UNCHANGED <<pc[u], res[u], lockKey[u], stage[u]>>
<1> USE CacheFacts DEF Goto, Status, Reuse
<1>1. CASE Call(t)
    BY <1>1 DEF Call, Arrive
<1>2. CASE ReplayRead(t) \/ FastPath(t)
    BY <1>2 DEF ReplayRead, FastPath, Register, lockVars
<1>3. CASE EnterLock(t) \/ LeaveLock(t)
    BY <1>3 DEF EnterLock, LeaveLock, Acquire, Release, Deregister
<1>4. CASE Recheck(t) \/ FetchOk(t) \/ FetchFail(t)
    BY <1>4 DEF Recheck, FetchOk, FetchFail, lockVars
<1>5. CASE WriteJson(t) \/ WriteBody(t) \/ WriteMeta(t) \/ WriteFail(t)
    BY <1>5 DEF WriteJson, WriteBody, WriteMeta, WriteFail, FreshResult, lockVars
<1>6. CASE ReadBody(t) \/ ReadMeta(t) \/ Return(t)
    BY <1>6 DEF ReadBody, ReadMeta, Return, lockVars
<1> QED
    BY <1>1, <1>2, <1>3, <1>4, <1>5, <1>6 DEF Step

\* What a step of t may do to the files: those of other keys stay as they are,
\* and those of its own key only become newer, by a writer's hand.
LEMMA FilesGrow ==
    ASSUME TypeOK, FilesInv, NEW t \in Threads, Call(t) \/ Step(t), NEW k \in Keys
    PROVE  /\ UNCHANGED <<now, mode, kind, maxAge>>
           /\ body[k] # None => body'[k] # None /\ body[k] <= body'[k]
           /\ meta[k] # None => meta'[k] # None /\ meta[k] <= meta'[k]
           /\ \/ UNCHANGED <<body[k], meta[k]>>
              \/ k = lockKey[t] /\ pc[t] \in {"write", "writeMeta"}
<1>0. /\ now \in Nat /\ now # None
      /\ body[k] # None => body[k] \in Nat
      /\ meta[k] # None => meta[k] \in Nat
      /\ body \in [Keys -> MaybeTime] /\ meta \in [Keys -> MaybeTime]
      /\ body[k] # None => body[k] <= now
      /\ meta[k] # None => meta[k] <= now
    BY CacheFacts DEF FilesInv
<1>1. CASE Call(t) \/ ReplayRead(t) \/ FastPath(t) \/ EnterLock(t) \/ LeaveLock(t) \/ Recheck(t)
    <2>1. UNCHANGED <<now, mode, kind, maxAge, body, meta>>
        BY <1>1 DEF Call, ReplayRead, FastPath, EnterLock, LeaveLock, Recheck, disk, site
    <2> QED
        BY <1>0, <2>1
<1>2. CASE FetchOk(t) \/ FetchFail(t) \/ WriteFail(t) \/ ReadBody(t) \/ ReadMeta(t) \/ Return(t)
    BY <1>0, <1>2 DEF FetchOk, FetchFail, WriteFail, ReadBody, ReadMeta, Return, disk, site
<1>3. CASE WriteJson(t) \/ WriteBody(t) \/ WriteMeta(t)
    BY <1>0, <1>3 DEF WriteJson, WriteBody, WriteMeta, disk, site
<1> QED
    BY <1>1, <1>2, <1>3 DEF Step

LEMMA StampInit == Init => StampInv
BY DEF Init, StampInv, NoResult

\* Nobody writes the files of a key while another thread is inside its lock.
LEMMA NoWriterBeside ==
    ASSUME TypeOK, LockInv, StageOfPc, FilesInv, NEW t \in Threads, Call(t) \/ Step(t),
           NEW u \in Threads, u # t, stage[u] = "inside",
           NEW k \in Keys, k = lockKey[u]
    PROVE  UNCHANGED <<body[k], meta[k]>>
<1>1. pc[t] \in {"write", "writeMeta"} => lockKey[t] # k
    BY DEF LockInv, StageInv, OwnerInv, StageOfPc
<1> QED
    BY <1>1, FilesGrow

LEMMA StampStep ==
    ASSUME TypeOK, LockInv, StageOfPc, FilesInv, StampInv, [Next]_vars
    PROVE  StampInv'
<1> DEFINE StampOf(t) ==
        LET k == lockKey[t] IN
        /\ pc[t] \in {"idle", "start", "wait", "recheck", "fetch", "write", "writeMeta"} =>
              res[t] = NoResult
        /\ pc[t] = "readBody" => res[t].value = None
        /\ pc[t] \in {"readBody", "readMeta"} /\ res[t].status # "reused" => stage[t] = "inside"
        /\ pc[t] = "readMeta" /\ res[t].value # None /\ kind[k] = "json" =>
              /\ meta[k] # None /\ res[t].value <= meta[k]
              /\ stage[t] = "inside" => meta[k] = res[t].value
        /\ pc[t] \in {"release", "done"} /\ res[t].value # None /\ kind[k] = "json" =>
              /\ res[t].fetchedAt # None /\ res[t].value <= res[t].fetchedAt
              /\ res[t].status # "reused" => res[t].fetchedAt = res[t].value
<1>0. StampInv <=> \A t \in Threads : StampOf(t)
    BY DEF StampInv
<1>1. CASE UNCHANGED vars \/ Tick \/ Flip
    BY <1>1 DEF vars, lockVars, Tick, Flip, StampInv, disk, site
<1>2. CASE Restart
    BY <1>2 DEF Restart, StampInv, NoResult
<1>3. ASSUME NEW t \in Threads, Call(t) \/ Step(t), NEW u \in Threads, u # t
      PROVE  StampOf(u)'
    <2> DEFINE k == lockKey[u]
    <2>1. UNCHANGED <<pc[u], res[u], lockKey[u], stage[u]>>
        BY <1>3, OthersKeep
    <2>2. k \in Keys /\ res[u] \in Results
        BY CacheFacts
    <2>3. kind' = kind /\ (meta[k] # None => meta'[k] # None /\ meta[k] <= meta'[k])
        BY <1>3, <2>2, FilesGrow
    <2>4. stage[u] = "inside" => meta'[k] = meta[k]
        BY <1>3, <2>2, NoWriterBeside
    <2>5. meta[k] # None => meta[k] \in Nat /\ meta'[k] \in Int
        <3>1. meta'[k] = meta[k] \/ meta'[k] = now
            BY <1>3, <2>2, CacheFacts DEF Call, Step, ReplayRead, FastPath, EnterLock, LeaveLock,
               Recheck, FetchOk, FetchFail, WriteFail, ReadBody, ReadMeta, Return, WriteJson,
               WriteBody, WriteMeta, disk
        <3> QED
            BY <2>2, <3>1, CacheFacts
    <2>6. res[u].value # None => res[u].value \in Nat
        BY <2>2, CacheAssumption DEF Results, MaybeTime, Seconds
    <2> QED
        BY <1>0, <2>1, <2>2, <2>3, <2>4, <2>5, <2>6
<1>4. ASSUME NEW t \in Threads, Call(t) \/ Step(t)
      PROVE  StampOf(t)'
    <2> DEFINE k == lockKey[t]
    <2>0. /\ k \in Keys /\ now \in Nat /\ now # None /\ res[t] \in Results
          /\ pc \in [Threads -> Labels] /\ stage \in [Threads -> Stages]
          /\ res \in [Threads -> Results]
          /\ (body[k] # None => body[k] \in Nat) /\ (meta[k] # None => meta[k] \in Nat)
          /\ StampOf(t)
        BY <1>0, CacheFacts
    <2>1. CASE Call(t) \/ EnterLock(t) \/ LeaveLock(t) \/ FetchOk(t) \/ WriteBody(t)
        <3>1. res' = res /\ kind' = kind /\ (pc[t] = "release" => lockKey' = lockKey)
            BY <2>1 DEF Call, EnterLock, LeaveLock, FetchOk, WriteBody, site, Release, Deregister
        <3>2. \/ /\ pc[t] \in {"idle", "wait", "fetch", "write"}
                 /\ pc'[t] \in {"start", "recheck", "write", "writeMeta"}
              \/ pc[t] = "release" /\ pc'[t] \in {"release", "done"}
            BY <2>0, <2>1 DEF Call, EnterLock, LeaveLock, FetchOk, WriteBody, Goto
        <3> QED
            BY <2>0, <3>1, <3>2
    <2>2. CASE ReplayRead(t) \/ FastPath(t) \/ Recheck(t)
        <3>1. pc[t] \in {"start", "recheck"} /\ res[t] = NoResult
            BY <2>0, <2>2 DEF ReplayRead, FastPath, Recheck
        <3>2. \/ Reuse(t)
              \/ Status(t, "stale") /\ pc'[t] = "readBody" /\ pc[t] = "recheck" /\ stage' = stage
              \/ Status(t, "raised") /\ pc'[t] \in {"done", "release"}
              \/ res' = res /\ pc'[t] \in {"wait", "fetch"}
            BY <2>0, <2>2 DEF ReplayRead, FastPath, Recheck, Goto, lockVars
        <3>3. pc[t] = "recheck" => stage[t] = "inside"
            BY DEF StageOfPc
        <3> QED
            BY <2>0, <3>1, <3>2, <3>3, AnswerSteps DEF NoResult, Reuse, Goto
    <2>3. CASE FetchFail(t) \/ WriteFail(t)
        <3>1. pc[t] \in {"fetch", "write", "writeMeta"} /\ res[t] = NoResult /\ stage' = stage
            BY <2>0, <2>3 DEF FetchFail, WriteFail, lockVars
        <3>2. \/ Status(t, "stale") /\ pc'[t] = "readBody"
              \/ Status(t, "raised") /\ pc'[t] = "release"
            BY <2>0, <2>3 DEF FetchFail, WriteFail, Goto
        <3>3. stage[t] = "inside"
            BY <3>1 DEF StageOfPc
        <3> QED
            BY <2>0, <3>1, <3>2, <3>3, AnswerSteps DEF NoResult
    <2>4. CASE WriteJson(t) \/ WriteMeta(t)
        BY <2>0, <2>4, AnswerSteps DEF WriteJson, WriteMeta
    <2>5. CASE ReadBody(t)
        <3>1. UNCHANGED <<kind, meta, stage, lockKey>>
            BY <2>5 DEF ReadBody, disk, site, lockVars
        <3>2. kind[k] = "json" => meta[k] = body[k]
            BY <2>0 DEF FilesInv
        <3>3. /\ pc[t] = "readBody" /\ pc'[t] = "readMeta" /\ res'[t].status = res[t].status
              /\ res'[t].value = body[k]
            BY <2>5, AnswerSteps DEF ReadBody
        <3> QED
            BY <2>0, <3>1, <3>2, <3>3
    <2>6. CASE ReadMeta(t)
        <3>1. UNCHANGED <<kind, meta, stage, lockKey>>
            BY <2>6 DEF ReadMeta, disk, site, lockVars
        <3>2. pc[t] = "readMeta" /\ pc'[t] \in {"release", "done"}
            BY <2>0, <2>6 DEF ReadMeta, Goto
        <3> QED
            BY <2>0, <2>6, <3>1, <3>2, AnswerSteps
    <2>7. CASE Return(t)
        BY <2>0, <2>7 DEF Return, Goto
    <2> QED
        BY <1>4, <2>1, <2>2, <2>3, <2>4, <2>5, <2>6, <2>7 DEF Step
<1>5. ASSUME NEW t \in Threads, Call(t) \/ Step(t)
      PROVE  StampInv'
    <2>1. \A u \in Threads : StampOf(u)'
        BY <1>3, <1>4, <1>5
    <2> HIDE DEF StampOf
    <2> QED
        BY <2>1 DEF StampInv, StampOf
<1> QED
    BY <1>1, <1>2, <1>5 DEF Next

LEMMA ReuseInit == Init => ReuseInv
BY DEF Init, ReuseInv, NoResult

\* A copy that passes the freshness test is within its limit at that moment.
LEMMA FreshIsRecent ==
    ASSUME TypeOK, FilesInv, NEW k \in Keys, TRUE \in FreshReads(k), maxAge[k] # NoLimit
    PROVE  body[k] # None /\ now - body[k] <= maxAge[k]
<1>1. /\ now \in Nat /\ maxAge[k] \in Nat
      /\ (body[k] # None => body[k] \in Nat) /\ (meta[k] # None => meta[k] \in Nat)
    BY CacheFacts
<1>2. body[k] # None /\ meta[k] # None /\ meta[k] <= body[k]
    BY DEF FreshReads, FilesInv
<1>3. Age(k) = 0 \/ Age(k) = maxAge[k] \/ Age(k) <= maxAge[k]
    BY <1>2 DEF FreshReads
<1> QED
    BY <1>1, <1>2, <1>3 DEF Age

LEMMA ReuseStep ==
    ASSUME TypeOK, TypeOK', FilesInv, StampInv, ReuseInv, [Next]_vars
    PROVE  ReuseInv'
<1> DEFINE ReuseOf(t) ==
        LET k == lockKey[t] IN
        mode = "live" /\ res[t].status = "reused" /\ maxAge[k] # NoLimit =>
            /\ pc[t] = "readBody" =>
                  /\ body[k] # None /\ res[t].foundFreshAt # None
                  /\ res[t].foundFreshAt - body[k] <= maxAge[k]
            /\ pc[t] \in {"readMeta", "release", "done"} =>
                  /\ res[t].value # None /\ res[t].foundFreshAt # None
                  /\ res[t].foundFreshAt - res[t].value <= maxAge[k]
<1>0. ReuseInv <=> \A t \in Threads : ReuseOf(t)
    BY DEF ReuseInv
<1>1. CASE UNCHANGED vars \/ Tick
    BY <1>1 DEF vars, lockVars, Tick, ReuseInv, disk, site
<1>2. CASE Flip \/ Restart
    BY <1>2 DEF Flip, Restart, ReuseInv, NoResult
<1>3. ASSUME NEW t \in Threads, Call(t) \/ Step(t), NEW u \in Threads, u # t
      PROVE  ReuseOf(u)'
    <2> DEFINE k == lockKey[u]
    <2>1. UNCHANGED <<pc[u], res[u], lockKey[u]>>
        BY <1>3, OthersKeep
    <2>2. k \in Keys
        BY CacheFacts
    <2>3. UNCHANGED <<mode, maxAge>> /\ (body[k] # None => body'[k] # None /\ body[k] <= body'[k])
        BY <1>3, <2>2, FilesGrow
    <2>4. body'[k] # None => body'[k] \in Nat
        <3>1. body'[k] \in MaybeTime
            BY <2>2 DEF TypeOK
        <3> QED
            BY <3>1, CacheAssumption DEF MaybeTime, Seconds
    <2>5. /\ body[k] # None => body[k] \in Nat
          /\ maxAge[k] # NoLimit => maxAge[k] \in Nat
          /\ res[u].foundFreshAt # None => res[u].foundFreshAt \in Nat
        BY <2>2, CacheFacts, CacheAssumption DEF Results, MaybeTime, Seconds
    <2> QED
        BY <1>0, <2>1, <2>2, <2>3, <2>4, <2>5
<1>4. ASSUME NEW t \in Threads, Call(t) \/ Step(t)
      PROVE  ReuseOf(t)'
    <2> DEFINE k == lockKey[t]
    <2>0. /\ k \in Keys /\ now # None
          /\ pc \in [Threads -> Labels]
          /\ ReuseOf(t)
        BY <1>0, CacheFacts
    <2>1. CASE Call(t) \/ EnterLock(t) \/ LeaveLock(t) \/ FetchOk(t) \/ WriteBody(t)
        <3>1. UNCHANGED <<res, mode, maxAge>> /\ (pc[t] = "release" => lockKey' = lockKey)
            BY <2>1 DEF Call, EnterLock, LeaveLock, FetchOk, WriteBody, site, Release, Deregister
        <3>2. \/ pc'[t] \in {"start", "recheck", "write", "writeMeta"}
              \/ pc[t] = "release" /\ pc'[t] \in {"release", "done"}
            BY <2>0, <2>1 DEF Call, EnterLock, LeaveLock, FetchOk, WriteBody, Goto
        <3> QED
            BY <2>0, <3>1, <3>2
    <2>2. CASE ReplayRead(t)
        BY <2>2 DEF ReplayRead
    <2>3. CASE FastPath(t) \/ Recheck(t)
        <3>1. UNCHANGED <<mode, maxAge, body, now, lockKey>>
            BY <2>3 DEF FastPath, Recheck, disk, site, lockVars, Register
        <3>2. \/ Reuse(t) /\ TRUE \in FreshReads(k)
              \/ Status(t, "stale") \/ Status(t, "raised")
              \/ pc'[t] \in {"wait", "fetch"}
            BY <2>0, <2>3 DEF FastPath, Recheck, Goto
        <3>3. CASE Reuse(t) /\ TRUE \in FreshReads(k)
            BY <2>0, <3>1, <3>3, AnswerSteps, FreshIsRecent
        <3> QED
            BY <2>0, <3>1, <3>2, <3>3, AnswerSteps
    <2>4. CASE FetchFail(t) \/ WriteFail(t) \/ WriteJson(t) \/ WriteMeta(t)
        <3>1. Status(t, "stale") \/ Status(t, "raised") \/ FreshResult(t)
            BY <2>4 DEF FetchFail, WriteFail, WriteJson, WriteMeta
        <3> QED
            BY <3>1, AnswerSteps
    <2>5. CASE ReadBody(t)
        <3>1. UNCHANGED <<mode, maxAge, lockKey>> /\ pc[t] = "readBody"
            BY <2>5 DEF ReadBody, site, lockVars
        <3> QED
            BY <2>0, <2>5, <3>1, AnswerSteps
    <2>6. CASE ReadMeta(t)
        <3>1. UNCHANGED <<mode, maxAge, lockKey>> /\ pc[t] = "readMeta" /\ pc'[t] \in {"release", "done"}
            BY <2>0, <2>6 DEF ReadMeta, site, lockVars, Goto
        <3> QED
            BY <2>0, <2>6, <3>1, AnswerSteps
    <2>7. CASE Return(t)
        BY <2>0, <2>7 DEF Return, Goto
    <2> QED
        BY <1>4, <2>1, <2>2, <2>3, <2>4, <2>5, <2>6, <2>7 DEF Step
<1>5. ASSUME NEW t \in Threads, Call(t) \/ Step(t)
      PROVE  ReuseInv'
    <2>1. \A u \in Threads : ReuseOf(u)'
        BY <1>3, <1>4, <1>5
    <2> HIDE DEF ReuseOf
    <2> QED
        BY <2>1 DEF ReuseInv, ReuseOf
<1> QED
    BY <1>1, <1>2, <1>5 DEF Next

LEMMA AnswersInvariant == Spec => [](FilesInv /\ StampInv /\ ReuseInv)
<1>1. Spec => []TypeOK /\ []LockInv /\ []SingleFlight
    BY TypeCorrect, CacheLockInv, OneFetchPerKey, PTL
<1>2. Spec => []StageOfPc
    <2>1. TypeOK => LockTypeOK /\ pc \in [Threads -> Labels]
        BY DEF TypeOK
    <2>2. LockTypeOK /\ pc \in [Threads -> Labels] /\ StageOfPc /\ [Next]_vars => StageOfPc'
        BY StageStep
    <2> QED
        BY <1>1, <2>1, <2>2, StageInit, PTL DEF Spec
<1>3. TypeOK /\ SingleFlight /\ FilesInv /\ [Next]_vars => FilesInv'
    BY FilesStep
<1>4. TypeOK /\ LockInv /\ StageOfPc /\ FilesInv /\ StampInv /\ [Next]_vars => StampInv'
    BY StampStep
<1>5. TypeOK /\ TypeOK' /\ FilesInv /\ StampInv /\ ReuseInv /\ [Next]_vars => ReuseInv'
    BY ReuseStep
<1> QED
    BY <1>1, <1>2, <1>3, <1>4, <1>5, FilesInit, StampInit, ReuseInit, PTL DEF Spec

\* No reader is handed, as still good, a copy that had passed its limit when
\* the call looked: not even when another thread replaces the file in between.
THEOREM ReusedCopiesAreRecent == Spec => []ReusedIsRecent
<1>1. TypeOK /\ ReuseInv => ReusedIsRecent
    BY DEF ReuseInv, ReusedIsRecent
<1> QED
    BY <1>1, TypeCorrect, AnswersInvariant, PTL

\* A payload is never presented as older than it is, and what is read under the
\* key's lock carries exactly its own stamp, for any number of readers and writers.
THEOREM StampsAreHonest == Spec => []PayloadMatchesStamp
<1>1. TypeOK /\ StampInv => PayloadMatchesStamp
    <2> SUFFICES ASSUME TypeOK, StampInv, NEW t \in Threads,
                        pc[t] \in {"release", "done"}, res[t].value # None, kind[lockKey[t]] = "json"
                 PROVE  /\ res[t].fetchedAt >= res[t].value
                        /\ res[t].status \in {"stale", "fresh"} => res[t].fetchedAt = res[t].value
        BY DEF PayloadMatchesStamp
    <2>1. /\ res[t].fetchedAt # None /\ res[t].value <= res[t].fetchedAt
          /\ res[t].status # "reused" => res[t].fetchedAt = res[t].value
        BY DEF StampInv
    <2>2. res[t].fetchedAt \in MaybeTime /\ res[t].value \in MaybeTime
        BY CacheFacts DEF Results
    <2>3. res[t].fetchedAt \in Nat /\ res[t].value \in Nat
        BY <2>1, <2>2, CacheAssumption DEF MaybeTime, Seconds
    <2> QED
        BY <2>1, <2>3
<1> QED
    BY <1>1, TypeCorrect, AnswersInvariant, PTL

-----------------------------------------------------------------------------
(* The publication of a bundle.                                            *)
\* Not reached yet; swapped; put back.
Fresh(f) == final[f] = base[f] /\ tmp[f] = run /\ bak[f] = Absent /\ backups[f] = Unset
Held(f) ==
    \/ backups[f] = "moved" /\ bak[f] = base[f] /\ base[f] # Absent
    \/ backups[f] = Absent /\ base[f] = Absent /\ bak[f] = Absent
Swapped(f) == final[f] = run /\ tmp[f] = Absent /\ Held(f)
Undone(f) == final[f] = base[f] /\ bak[f] \in {Absent, Scrap}

\* The file the swap loop is at, by its step.
AtCur(f) ==
    /\ tmp[f] = run
    /\ step = "moveAside" => bak[f] = Scrap /\ backups[f] = Unset /\ final[f] = base[f] /\ base[f] # Absent
    /\ step = "note" => bak[f] = base[f] /\ base[f] # Absent /\ backups[f] = Unset /\ final[f] = Absent
    /\ step = "install" => final[f] = Absent /\ Held(f)

\* A copy of what was there before is in the directory, under some name.
Kept == \A f \in Files : base[f] # Absent => base[f] \in {final[f], bak[f]} \cup leftover[f]

WhileIdle == step = "idle" => \A f \in Files : tmp[f] = Absent /\ bak[f] = Absent

WhileStaging ==
    step = "stage" => \A f \in Files :
        /\ Undone(f) /\ bak[f] = Absent /\ backups[f] = Unset
        /\ f \in staged <=> f \notin todo
        /\ tmp[f] = IF f \in staged THEN run ELSE Absent

WhileSwapping ==
    step \in {"swap", "moveAside", "note", "install"} =>
        /\ staged = Files
        /\ step # "swap" => cur \in todo
        /\ \A f \in Files : IF f \notin todo THEN Swapped(f)
                            ELSE IF step = "swap" \/ f # cur THEN Fresh(f) ELSE AtCur(f)

WhileUndoing ==
    step \in {"rollback", "restore"} =>
        /\ staged = Files
        /\ step = "restore" => cur \in todo /\ (final[cur] = Absent \/ faulty)
        /\ \A f \in Files : /\ tmp[f] \in {run, Absent}
                            /\ IF f \in todo THEN Held(f) ELSE Undone(f) \/ faulty

WhileRaising ==
    /\ step = "raised" => todo = {}
    /\ step \in {"unstage", "raised"} => \A f \in Files :
           faulty \/ (Undone(f) /\ (f \in todo \/ tmp[f] \in {Absent, Scrap}))

WhileTidying ==
    /\ step = "ok" => todo = {}
    /\ step \in {"tidy", "ok"} => \A f \in Files :
           /\ final[f] = run /\ base[f] = run /\ tmp[f] = Absent
           /\ f \in todo \/ bak[f] = Absent \/ faulty

BundleInv ==
    /\ BundleTypeOK /\ Kept
    /\ WhileIdle /\ WhileStaging /\ WhileSwapping /\ WhileUndoing /\ WhileRaising /\ WhileTidying
-----------------------------------------------------------------------------
LEMMA InvInit == BundleInit => BundleInv
<1> SUFFICES ASSUME BundleInit PROVE BundleInv
  OBVIOUS
<1> USE BundleAssumption DEF BundleInit
<1>1. BundleTypeOK
  <2>1. 1 \in Versions
    BY DEF Versions
  <2>2. final \in [Files -> Versions \cup {Absent}] /\ base \in [Files -> Versions \cup {Absent}]
    BY <2>1
  <2>3. leftover \in [Files -> SUBSET Versions]
    OBVIOUS
  <2> QED
    BY <2>1, <2>2, <2>3 DEF BundleTypeOK
<1>2. Kept /\ WhileIdle
  BY DEF Kept, WhileIdle
<1>3. WhileStaging /\ WhileSwapping /\ WhileUndoing /\ WhileRaising /\ WhileTidying
  BY DEF WhileStaging, WhileSwapping, WhileUndoing, WhileRaising, WhileTidying
<1> QED
  BY <1>1, <1>2, <1>3 DEF BundleInv

LEMMA InvStep == BundleInv /\ [BundleNext]_bundleVars => BundleInv'
<1> SUFFICES ASSUME BundleInv, [BundleNext]_bundleVars PROVE BundleInv'
  OBVIOUS
<1> USE BundleAssumption DEF BundleInv, BundleTypeOK, Versions, Kept, WhileIdle, WhileStaging, WhileSwapping,
     WhileUndoing, WhileRaising, WhileTidying, Put, Fresh, Held, Swapped, Undone, AtCur
<1>1. CASE Begin
  <2>1. BundleTypeOK'
    <3>1. run' \in Versions
      BY <1>1 DEF Begin
    <3>2. backups' \in [Files -> {"moved", Absent, Unset}]
      BY <1>1 DEF Begin
    <3> QED
      BY <1>1, <3>1, <3>2 DEF Begin
  <2>2. Kept'
    BY <1>1 DEF Begin
  <2>3. WhileIdle'
    BY <1>1 DEF Begin
  <2>4. WhileStaging'
    BY <1>1 DEF Begin
  <2>5. WhileSwapping'
    BY <1>1 DEF Begin
  <2>6. WhileUndoing'
    BY <1>1 DEF Begin
  <2>7. WhileRaising'
    BY <1>1 DEF Begin
  <2>8. WhileTidying'
    BY <1>1 DEF Begin
  <2> QED
    BY <2>1, <2>2, <2>3, <2>4, <2>5, <2>6, <2>7, <2>8
<1>2. ASSUME NEW f \in Files, Stage(f) PROVE BundleInv'
  BY <1>2 DEF Stage
<1>3. ASSUME NEW f \in Files, StageFail(f) PROVE BundleInv'
  BY <1>3 DEF StageFail
<1>4. CASE AllStaged
  BY <1>4 DEF AllStaged
<1>5. ASSUME NEW f \in Files, StartSwap(f) PROVE BundleInv'
  BY <1>5 DEF StartSwap
<1>6. CASE MoveAside
  BY <1>6 DEF MoveAside
<1>7. CASE Note
  BY <1>7 DEF Note
<1>8. CASE Install
  BY <1>8 DEF Install
<1>9. CASE SwapFail
  BY <1>9 DEF SwapFail
<1>10. CASE Interrupt
  BY <1>10 DEF Interrupt
<1>11. ASSUME NEW f \in Files, Unlink(f) PROVE BundleInv'
  <2>1. BundleTypeOK'
    <3>1. final' \in [Files -> Versions \cup {Absent}]
      BY <1>11 DEF Unlink
    <3>2. cur' \in Files \cup {Absent} /\ faulty' \in BOOLEAN /\ step' = "restore"
      BY <1>11 DEF Unlink
    <3> QED
      BY <1>11, <3>1, <3>2 DEF Unlink
  <2>2. Kept'
    BY <1>11 DEF Unlink
  <2>3. WhileIdle'
    BY <1>11 DEF Unlink
  <2>4. WhileStaging'
    BY <1>11 DEF Unlink
  <2>5. WhileSwapping'
    BY <1>11 DEF Unlink
  <2>6. WhileUndoing'
    BY <1>11 DEF Unlink
  <2>7. WhileRaising'
    BY <1>11 DEF Unlink
  <2>8. WhileTidying'
    BY <1>11 DEF Unlink
  <2> QED
    BY <2>1, <2>2, <2>3, <2>4, <2>5, <2>6, <2>7, <2>8
<1>12. CASE Restore
  <2>1. BundleTypeOK'
    <3>1. cur \in Files /\ Held(cur)
      BY <1>12 DEF Restore
    <3>2. backups[cur] = "moved" => bak[cur] \in Versions \cup {Absent}
      BY <3>1
    <3>3. final' \in [Files -> Versions \cup {Absent}] /\ bak' \in [Files -> Versions \cup {Absent, Scrap}]
      BY <1>12, <3>1, <3>2 DEF Restore
    <3> QED
      BY <1>12, <3>3 DEF Restore
  <2>2. Kept'
    BY <1>12 DEF Restore
  <2>3. WhileIdle'
    BY <1>12 DEF Restore
  <2>4. WhileStaging'
    BY <1>12 DEF Restore
  <2>5. WhileSwapping'
    BY <1>12 DEF Restore
  <2>6. WhileUndoing'
    BY <1>12 DEF Restore
  <2>7. WhileRaising'
    BY <1>12 DEF Restore
  <2>8. WhileTidying'
    BY <1>12 DEF Restore
  <2> QED
    BY <2>1, <2>2, <2>3, <2>4, <2>5, <2>6, <2>7, <2>8
<1>13. CASE RolledBack
  BY <1>13 DEF RolledBack
<1>14. ASSUME NEW f \in Files, Unstage(f) PROVE BundleInv'
  <2>1. BundleTypeOK'
    BY <1>14 DEF Unstage
  <2>2. Kept'
    BY <1>14 DEF Unstage
  <2>3. WhileIdle'
    BY <1>14 DEF Unstage
  <2>4. WhileStaging'
    BY <1>14 DEF Unstage
  <2>5. WhileSwapping'
    BY <1>14 DEF Unstage
  <2>6. WhileUndoing'
    BY <1>14 DEF Unstage
  <2>7. WhileRaising'
    BY <1>14 DEF Unstage
  <2>8. WhileTidying'
    BY <1>14 DEF Unstage
  <2> QED
    BY <2>1, <2>2, <2>3, <2>4, <2>5, <2>6, <2>7, <2>8
<1>15. CASE Raise
  BY <1>15 DEF Raise
<1>16. CASE AllSwapped
  <2>1. BundleTypeOK'
    BY <1>16 DEF AllSwapped
  <2>2. Kept'
    BY <1>16 DEF AllSwapped
  <2>3. WhileIdle'
    BY <1>16 DEF AllSwapped
  <2>4. WhileStaging'
    BY <1>16 DEF AllSwapped
  <2>5. WhileSwapping'
    BY <1>16 DEF AllSwapped
  <2>6. WhileUndoing'
    BY <1>16 DEF AllSwapped
  <2>7. WhileRaising'
    BY <1>16 DEF AllSwapped
  <2>8. WhileTidying'
    BY <1>16 DEF AllSwapped
  <2> QED
    BY <2>1, <2>2, <2>3, <2>4, <2>5, <2>6, <2>7, <2>8
<1>17. ASSUME NEW f \in Files, Tidy(f) PROVE BundleInv'
  <2>1. BundleTypeOK'
    <3>1. bak' \in [Files -> Versions \cup {Absent, Scrap}]
      BY <1>17 DEF Tidy
    <3>2. todo' \in SUBSET Files /\ faulty' \in BOOLEAN
      BY <1>17 DEF Tidy
    <3> QED
      BY <1>17, <3>1, <3>2 DEF Tidy
  <2>2. Kept'
    BY <1>17 DEF Tidy
  <2>3. WhileIdle'
    BY <1>17 DEF Tidy
  <2>4. WhileStaging'
    BY <1>17 DEF Tidy
  <2>5. WhileSwapping'
    BY <1>17 DEF Tidy
  <2>6. WhileUndoing'
    BY <1>17 DEF Tidy
  <2>7. WhileRaising'
    BY <1>17 DEF Tidy
  <2>8. WhileTidying'
    BY <1>17 DEF Tidy
  <2> QED
    BY <2>1, <2>2, <2>3, <2>4, <2>5, <2>6, <2>7, <2>8
<1>18. CASE Succeed
  BY <1>18 DEF Succeed
<1>19. CASE End
  BY <1>19 DEF End, Abandon
<1>20. CASE Crash
  BY <1>20 DEF Crash, Abandon
<1>21. CASE UNCHANGED bundleVars
  BY <1>21 DEF bundleVars
<1> QED
  BY <1>1, <1>2, <1>3, <1>4, <1>5, <1>6, <1>7, <1>8, <1>9, <1>10, <1>11, <1>12, <1>13, <1>14, <1>15, <1>16,
     <1>17, <1>18, <1>19, <1>20, <1>21 DEF BundleNext, Progress

\* Where the copies are, at every step of publish_envelopes.
THEOREM BundleInvariant == BundleSpec => []BundleInv
  BY InvInit, InvStep, PTL DEF BundleSpec
-----------------------------------------------------------------------------
\* A run that returns has installed the whole bundle; one that raises has left
\* the published files as they were, unless undoing failed too.
THEOREM AllOrNoneHolds == BundleSpec => []AllOrNone
<1>1. BundleInv => AllOrNone
  BY BundleAssumption DEF BundleInv, AllOrNone, BundleTypeOK, WhileRaising, WhileTidying, Undone
<1> QED
  BY <1>1, BundleInvariant, PTL

\* Whatever fails and wherever the process is killed, a file that was published
\* is still somewhere in the directory until the new bundle is complete.
THEOREM NothingIsLost == BundleSpec => []NothingLost
<1>1. BundleInv => NothingLost
  BY DEF BundleInv, NothingLost, Kept
<1> QED
  BY <1>1, BundleInvariant, PTL

\* A run that ends by itself leaves no copy of an envelope behind.
THEOREM NoCopyStays == BundleSpec => []LeavesNoCopies
<1>1. BundleInv => LeavesNoCopies
  BY DEF BundleInv, LeavesNoCopies, WhileRaising, WhileTidying, Undone
<1> QED
  BY <1>1, BundleInvariant, PTL
=============================================================================
