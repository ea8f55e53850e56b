------------------------------ MODULE KeyMutex ------------------------------
(***************************************************************************)
(* What hokieday/cache.py's per-key locking promises, with none of the     *)
(* bookkeeping that provides it: every cache key is a mutual-exclusion     *)
(* lock of its own, and a restart of the process frees them all.  Two      *)
(* unrelated keys never wait for each other.                               *)
(***************************************************************************)
CONSTANTS Keys,       \* cache keys
          Threads,    \* request threads of one process
          Nobody      \* the holder of a free lock

VARIABLE holder       \* holder[k]: the thread inside k's critical section

MutexInit == holder = [k \in Keys |-> Nobody]

Take(t, k) ==
    /\ holder[k] = Nobody
    /\ holder' = [holder EXCEPT ![k] = t]

Free(t, k) ==
    /\ holder[k] = t
    /\ holder' = [holder EXCEPT ![k] = Nobody]

\* The process dies: a new one starts with no lock held.
FreeAll == holder' = [k \in Keys |-> Nobody]

MutexNext ==
    \/ \E t \in Threads, k \in Keys : Take(t, k) \/ Free(t, k)
    \/ FreeAll

MutexSpec == MutexInit /\ [][MutexNext]_holder
=============================================================================
