------------------------------- MODULE KeyLock -------------------------------
(***************************************************************************)
(* The reference-counted lock table of hokieday/cache.py (_key_lock).      *)
(*                                                                         *)
(* _key_locks maps a cache key to a two-element list [lock, count].  A     *)
(* caller looks the list up (or creates it) and counts itself in under the *)
(* registry lock, blocks on the list's own lock OUTSIDE the registry lock, *)
(* and on the way out first releases the lock and then, under the registry *)
(* lock again, counts itself out and drops the list when nobody is left.   *)
(* Every access to the table and to the counts is under _lock_registry, so *)
(* each of those two blocks is one atomic step here; the interleavings     *)
(* that matter are those of the four steps of different threads.           *)
(*                                                                         *)
(* A list is an object with an identity, an element of Entries.  Creating  *)
(* one takes an entry no thread and no table slot refers to any more,      *)
(* which is what a garbage-collected allocation gives.                     *)
(***************************************************************************)
EXTENDS Integers, FiniteSets

CONSTANTS Keys, Threads, Nobody,
          Entries,    \* identities of [lock, count] lists
          NoEntry     \* no list: an absent slot of the table, or a thread outside

ASSUME LockAssumption ==
    /\ IsFiniteSet(Threads)
    /\ Nobody \notin Threads
    /\ NoEntry \notin Entries

VARIABLES keyLocks,   \* _key_locks: keyLocks[k] is k's list, or NoEntry
          refs,       \* refs[e]: the list's entry[1]
          owner,      \* owner[e]: the thread holding the list's Lock
          entryOf,    \* entryOf[t]: the local variable `entry` of t
          lockKey,    \* lockKey[t]: the local variable `k` of t
          stage       \* where t is in _key_lock

lockVars == <<keyLocks, refs, owner, entryOf, lockKey, stage>>

Stages == {"out", "waiting", "inside", "released"}

LockTypeOK ==
    /\ keyLocks \in [Keys -> Entries \cup {NoEntry}]
    /\ refs \in [Entries -> Int]
    /\ owner \in [Entries -> Threads \cup {Nobody}]
    /\ entryOf \in [Threads -> Entries \cup {NoEntry}]
    /\ lockKey \in [Threads -> Keys]
    /\ stage \in [Threads -> Stages]

LockInit ==
    /\ keyLocks = [k \in Keys |-> NoEntry]
    /\ refs = [e \in Entries |-> 0]
    /\ owner = [e \in Entries |-> Nobody]
    /\ entryOf = [t \in Threads |-> NoEntry]
    /\ lockKey \in [Threads -> Keys]
    /\ stage = [t \in Threads |-> "out"]

\* An identity nothing refers to: what [threading.Lock(), 0] may be given.
Unreferenced(e) ==
    /\ \A u \in Threads : entryOf[u] # e
    /\ \A k \in Keys : keyLocks[k] # e

\* A caller enters _key_lock(k).
Arrive(t, k) ==
    /\ stage[t] = "out"
    /\ lockKey' = [lockKey EXCEPT ![t] = k]
    /\ UNCHANGED <<keyLocks, refs, owner, entryOf, stage>>

\* The first `with _lock_registry:` block: look the list up or create it, and
\* count this thread in before it starts to wait.
Register(t) ==
    LET k == lockKey[t] IN
    /\ stage[t] = "out"
    /\ \E e \in Entries :
          /\ \/ /\ keyLocks[k] = e
                /\ refs' = [refs EXCEPT ![e] = @ + 1]
                /\ UNCHANGED <<keyLocks, owner>>
             \/ /\ keyLocks[k] = NoEntry
                /\ Unreferenced(e)
                /\ keyLocks' = [keyLocks EXCEPT ![k] = e]
                /\ refs' = [refs EXCEPT ![e] = 1]
                /\ owner' = [owner EXCEPT ![e] = Nobody]
          /\ entryOf' = [entryOf EXCEPT ![t] = e]
    /\ stage' = [stage EXCEPT ![t] = "waiting"]
    /\ UNCHANGED lockKey

\* Mutant of Acquire: the lock is taken whoever holds it.
AcquireAnyway(t) ==
    /\ stage[t] = "waiting"
    /\ owner' = [owner EXCEPT ![entryOf[t]] = t]
    /\ stage' = [stage EXCEPT ![t] = "inside"]
    /\ UNCHANGED <<keyLocks, refs, entryOf, lockKey>>

\* lock.acquire(): any waiter may win; threading.Lock promises no order.
Acquire(t) ==
    /\ stage[t] = "waiting"
    /\ owner[entryOf[t]] = Nobody
    /\ owner' = [owner EXCEPT ![entryOf[t]] = t]
    /\ stage' = [stage EXCEPT ![t] = "inside"]
    /\ UNCHANGED <<keyLocks, refs, entryOf, lockKey>>

\* lock.release() in the finally block, before the registry lock is taken.
Release(t) ==
    /\ stage[t] = "inside"
    /\ owner' = [owner EXCEPT ![entryOf[t]] = Nobody]
    /\ stage' = [stage EXCEPT ![t] = "released"]
    /\ UNCHANGED <<keyLocks, refs, entryOf, lockKey>>

\* Mutants of Deregister: the count is not looked at, or the slot never freed.
DeregisterDropsAlways(t) ==
    /\ stage[t] = "released"
    /\ refs' = [refs EXCEPT ![entryOf[t]] = @ - 1]
    /\ keyLocks' = [keyLocks EXCEPT ![lockKey[t]] = NoEntry]
    /\ entryOf' = [entryOf EXCEPT ![t] = NoEntry]
    /\ stage' = [stage EXCEPT ![t] = "out"]
    /\ UNCHANGED <<owner, lockKey>>

DeregisterKeepsEntry(t) ==
    /\ stage[t] = "released"
    /\ refs' = [refs EXCEPT ![entryOf[t]] = @ - 1]
    /\ entryOf' = [entryOf EXCEPT ![t] = NoEntry]
    /\ stage' = [stage EXCEPT ![t] = "out"]
    /\ UNCHANGED <<keyLocks, owner, lockKey>>

\* The second `with _lock_registry:` block: count out, and drop the list only
\* if nobody is left and the slot still holds this very list.
Deregister(t) ==
    LET e == entryOf[t]
        k == lockKey[t]
    IN  /\ stage[t] = "released"
        /\ refs' = [refs EXCEPT ![e] = @ - 1]
        /\ keyLocks' = IF refs[e] - 1 <= 0 /\ keyLocks[k] = e
                       THEN [keyLocks EXCEPT ![k] = NoEntry]
                       ELSE keyLocks
        /\ entryOf' = [entryOf EXCEPT ![t] = NoEntry]
        /\ stage' = [stage EXCEPT ![t] = "out"]
        /\ UNCHANGED <<owner, lockKey>>

\* The process ends, and with it the table, the locks and the threads.
LockRestart ==
    /\ keyLocks' = [k \in Keys |-> NoEntry]
    /\ refs' = [e \in Entries |-> 0]
    /\ owner' = [e \in Entries |-> Nobody]
    /\ entryOf' = [t \in Threads |-> NoEntry]
    /\ stage' = [t \in Threads |-> "out"]
    /\ UNCHANGED lockKey

LockNext ==
    \/ \E t \in Threads :
          \/ \E k \in Keys : Arrive(t, k)
          \/ Register(t)
          \/ Acquire(t)
          \/ Release(t)
          \/ Deregister(t)
    \/ LockRestart

LockSpec == LockInit /\ [][LockNext]_lockVars
-----------------------------------------------------------------------------
\* The threads whose local `entry` is e: those inside, waiting or on the way out.
Users(e) == {t \in Threads : entryOf[t] = e}

\* A thread holds a reference exactly while it is between counting in and
\* counting out, and its list is then still the table's list for its key.
StageInv ==
    \A t \in Threads :
        /\ stage[t] = "out" <=> entryOf[t] = NoEntry
        /\ stage[t] # "out" => keyLocks[lockKey[t]] = entryOf[t]

\* A list's lock is held by the one thread that is inside with that list.
OwnerInv ==
    /\ \A t \in Threads : stage[t] = "inside" => owner[entryOf[t]] = t
    /\ \A e \in Entries : owner[e] # Nobody => /\ stage[owner[e]] = "inside"
                                               /\ entryOf[owner[e]] = e

\* Two keys never share a list.
SlotInv ==
    \A k, l \in Keys : keyLocks[k] = keyLocks[l] /\ keyLocks[k] # NoEntry => k = l

\* A slot is in use, and its count is the number of threads that use it.
CountInv ==
    \A k \in Keys : keyLocks[k] # NoEntry =>
        /\ Users(keyLocks[k]) # {}
        /\ refs[keyLocks[k]] = Cardinality(Users(keyLocks[k]))

\* Everything the table must keep true for the locks to be per-key locks.
LockInv == LockTypeOK /\ StageInv /\ OwnerInv /\ SlotInv /\ CountInv

\* At most one thread is past lock.acquire() for a key, whatever lists have
\* been created and dropped on the way.
MutualExclusion ==
    \A t, u \in Threads :
        stage[t] = "inside" /\ stage[u] = "inside" /\ lockKey[t] = lockKey[u] => t = u

\* "an entry is dropped as soon as no thread holds or waits on it": the table
\* holds exactly the keys somebody uses, with the exact number of users.
NoLockLeak ==
    \A k \in Keys :
        LET users == {t \in Threads : stage[t] # "out" /\ lockKey[t] = k}
        IN  /\ (keyLocks[k] = NoEntry) <=> (users = {})
            /\ keyLocks[k] # NoEntry => refs[keyLocks[k]] = Cardinality(users)

\* The per-key lock that the table implements.
holderOf == [k \in Keys |-> IF keyLocks[k] = NoEntry THEN Nobody ELSE owner[keyLocks[k]]]

Mutex == INSTANCE KeyMutex WITH holder <- holderOf

ImplementsMutex == Mutex!MutexSpec
=============================================================================
