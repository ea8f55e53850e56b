----------------------------- MODULE CacheFetch -----------------------------
(***************************************************************************)
(* The read-through cache of hokieday/cache.py: get_json_result,           *)
(* get_bytes_result and post_form_json, which share one control flow, run  *)
(* by the request threads of one process over the files of CACHE_DIR.      *)
(*                                                                         *)
(* Payloads are abstracted to the second in which upstream answered, so a  *)
(* file is known by that second: body[k] is what the payload file of k     *)
(* holds, meta[k] the fetched_at its JSON envelope carries.  For a JSON    *)
(* key both live in one file, replaced in one os.replace(); for a binary   *)
(* key (get_bytes) the .bin is published first and the envelope second, and  *)
(* a process may die between the two.                                      *)
(*                                                                         *)
(* Three modes: "live"; "replay", where CACHE_ONLY is set and CACHE_DIR is *)
(* the committed fixtures/ directory; and "flipped", a process that was    *)
(* imported in replay and later cleared CACHE_ONLY, so that it fetches     *)
(* while CACHE_DIR still points at the frozen store.                       *)
(***************************************************************************)
EXTENDS KeyLock

CONSTANTS MaxAges,          \* the max_age_s values callers pass
          NoLimit,          \* max_age_s = None
          DefaultCooldown,  \* _DEFAULT_FAILURE_COOLDOWN_S
          None,             \* an absent file, record or timestamp
          MaxTime,          \* bound: the last second of the run
          Modes             \* the modes a run starts in

ASSUME CacheAssumption ==
    /\ MaxAges \subseteq (Nat \ {0}) \cup {NoLimit}
    /\ DefaultCooldown \in Nat
    /\ MaxTime \in Nat
    /\ None \notin Nat
    /\ Modes \subseteq {"live", "replay", "flipped"}

VARIABLES mode,       \* config.CACHE_ONLY and config.CACHE_DIR together
          kind,       \* kind[k]: "json", or "bin" for a key fetched with get_bytes
          maxAge,     \* maxAge[k]: the max_age_s of the call site that fetches k
          now,        \* the wall and monotonic clocks, in seconds
          body, meta, \* the files of CACHE_DIR
          attempts,   \* _attempts: when the last failed refresh of a key was
          pc,         \* where a thread is in get_json_result
          force,      \* its force argument
          res,        \* the CacheFetch it is building, or "raised"
          lastEnd     \* how the key's last upstream attempt ended (history)

vars == <<lockVars, mode, kind, maxAge, now, body, meta, attempts, pc, force, res, lastEnd>>

Seconds == 0..MaxTime

\* A CacheFetch under construction.  foundFreshAt is history: when the freshness
\* test that let this call reuse a copy was passed.
NoResult == [status |-> "none", value |-> None, fetchedAt |-> None, foundFreshAt |-> None]

Init ==
    /\ LockInit
    /\ mode \in Modes
    /\ kind \in [Keys -> {"json", "bin"}]
    /\ maxAge \in [Keys -> MaxAges]
    /\ now = 0
    /\ body \in [Keys -> {None, 0}]
    /\ meta = body
    /\ attempts = [k \in Keys |-> None]
    /\ pc = [t \in Threads |-> "idle"]
    /\ force = [t \in Threads |-> FALSE]
    /\ res = [t \in Threads |-> NoResult]
    /\ lastEnd = [k \in Keys |-> [how |-> "none", at |-> 0]]
-----------------------------------------------------------------------------
\* age_seconds() of an existing key.
Age(k) == now - meta[k]

\* Mutant of FreshReads: whatever is on disk is fresh.
FreshIfPresent(k) == {body[k] # None}

\* What `p.exists() and (max_age_s is None or (age_seconds() or 1e18) <=
\* max_age_s)` can evaluate to.  The envelope's stamp is truncated to seconds
\* and the clock it is compared with is not, so what is Age(k) here is that and
\* a fraction there: at the limit the copy is fresh only in the first
\* microsecond of the second, and in the first one of its own second the age is
\* 0.0, which `0.0 or 1e18` counts as infinitely old.
FreshReads(k) ==
    IF body[k] = None THEN {FALSE}
    ELSE IF maxAge[k] = NoLimit THEN {TRUE}
    ELSE IF meta[k] = None THEN {FALSE}
    ELSE IF Age(k) \in {0, maxAge[k]} THEN {TRUE, FALSE}
    ELSE {Age(k) <= maxAge[k]}

\* _cooldown_window
CooldownWindow(k) == IF maxAge[k] = NoLimit THEN DefaultCooldown ELSE maxAge[k]

\* _suppress_retry: the key failed less than a window ago.
SuppressRetry(k) == attempts[k] # None /\ now - attempts[k] < CooldownWindow(k)

Goto(t, label) == pc' = [pc EXCEPT ![t] = label]
Status(t, s) == res' = [res EXCEPT ![t].status = s]
Reuse(t) ==
    /\ res' = [res EXCEPT ![t].status = "reused", ![t].foundFreshAt = now]
    /\ Goto(t, "readBody")

disk == <<body, meta>>
site == <<kind, maxAge>>
-----------------------------------------------------------------------------
\* A request thread calls get_json / get_bytes / post_form_json.
Call(t) ==
    /\ pc[t] = "idle"
    /\ \E k \in Keys : Arrive(t, k)
    /\ \E f \in BOOLEAN : force' = [force EXCEPT ![t] = f]
    /\ Goto(t, "start")
    /\ UNCHANGED <<mode, site, now, disk, attempts, res, lastEnd>>

\* `if config.CACHE_ONLY:` -- read the store or raise CacheMiss.
ReplayRead(t) ==
    /\ pc[t] = "start" /\ mode = "replay"
    /\ \/ /\ body[lockKey[t]] # None
          /\ Reuse(t)
       \/ /\ body[lockKey[t]] = None
          /\ Status(t, "raised") /\ Goto(t, "done")
    /\ UNCHANGED <<lockVars, mode, site, now, disk, attempts, force, lastEnd>>

\* The lock-free fast path, and the fall through to _key_lock(k).
FastPath(t) ==
    /\ pc[t] = "start" /\ mode # "replay"
    /\ \/ /\ ~force[t] /\ TRUE \in FreshReads(lockKey[t])
          /\ Reuse(t)
          /\ UNCHANGED lockVars
       \/ /\ force[t] \/ FALSE \in FreshReads(lockKey[t])
          /\ Register(t) /\ Goto(t, "wait")
          /\ UNCHANGED res
    /\ UNCHANGED <<mode, site, now, disk, attempts, force, lastEnd>>

EnterLock(t) ==
    /\ pc[t] = "wait"
    /\ Acquire(t)
    /\ Goto(t, "recheck")
    /\ UNCHANGED <<mode, site, now, disk, attempts, res, force, lastEnd>>

\* Mutant of Recheck: a caller that had to wait fetches again regardless.
RecheckNothing(t) ==
    /\ pc[t] = "recheck"
    /\ Goto(t, "fetch")
    /\ UNCHANGED <<lockVars, mode, site, now, disk, attempts, res, force, lastEnd>>

\* Inside the lock: reuse what the previous holder wrote, or serve stale (or
\* raise CacheRefreshError) during the cooldown, or go upstream.
Recheck(t) ==
    LET k == lockKey[t] IN
    /\ pc[t] = "recheck"
    /\ \/ /\ ~force[t] /\ TRUE \in FreshReads(k)
          /\ Reuse(t)
       \/ /\ force[t] \/ FALSE \in FreshReads(k)
          /\ ~force[t] /\ SuppressRetry(k)
          /\ \/ body[k] # None /\ Status(t, "stale") /\ Goto(t, "readBody")
             \/ body[k] = None /\ Status(t, "raised") /\ Goto(t, "release")
       \/ /\ force[t] \/ FALSE \in FreshReads(k)
          /\ force[t] \/ ~SuppressRetry(k)
          /\ Goto(t, "fetch") /\ UNCHANGED res
    /\ UNCHANGED <<lockVars, mode, site, now, disk, attempts, force, lastEnd>>

\* Upstream answers: _clear_failure runs before anything is written.
FetchOk(t) ==
    /\ pc[t] = "fetch"
    /\ attempts' = [attempts EXCEPT ![lockKey[t]] = None]
    /\ lastEnd' = [lastEnd EXCEPT ![lockKey[t]] = [how |-> "none", at |-> 0]]
    /\ Goto(t, "write")
    /\ UNCHANGED <<lockVars, mode, site, now, disk, res, force>>

\* Upstream fails (network, HTTP status, bad JSON, disallowed redirect).
FetchFail(t) ==
    LET k == lockKey[t] IN
    /\ pc[t] = "fetch"
    /\ attempts' = [attempts EXCEPT ![k] = now]
    /\ lastEnd' = [lastEnd EXCEPT ![k] = [how |-> "failed", at |-> now]]
    /\ \/ body[k] # None /\ Status(t, "stale") /\ Goto(t, "readBody")
       \/ body[k] = None /\ Status(t, "raised") /\ Goto(t, "release")
    /\ UNCHANGED <<lockVars, mode, site, now, disk, force>>

\* The result of a refresh that reached the end of the function.
FreshResult(t) ==
    /\ res' = [res EXCEPT ![t].status = "fresh", ![t].value = now, ![t].fetchedAt = now]
    /\ Goto(t, "release")

Stored(k) == lastEnd' = [lastEnd EXCEPT ![k] = [how |-> "stored", at |-> now]]

\* _write_envelope for a JSON key.  Inside fixtures/ it reports the fetch and
\* persists nothing.
WriteJson(t) ==
    LET k == lockKey[t] IN
    /\ pc[t] = "write" /\ kind[k] = "json"
    /\ \/ /\ mode # "flipped"
          /\ body' = [body EXCEPT ![k] = now]
          /\ meta' = [meta EXCEPT ![k] = now]
          /\ Stored(k)
       \/ mode = "flipped" /\ UNCHANGED <<disk, lastEnd>>
    /\ FreshResult(t)
    /\ UNCHANGED <<lockVars, mode, site, now, attempts, force>>

\* _write_bytes_atomic for a binary key: no fixtures/ guard on this path.
WriteBody(t) ==
    LET k == lockKey[t] IN
    /\ pc[t] = "write" /\ kind[k] = "bin"
    /\ body' = [body EXCEPT ![k] = now]
    /\ Goto(t, "writeMeta")
    /\ UNCHANGED <<lockVars, mode, site, now, meta, attempts, res, force, lastEnd>>

\* ... and then its envelope, which is guarded.
WriteMeta(t) ==
    LET k == lockKey[t] IN
    /\ pc[t] = "writeMeta"
    /\ \/ mode # "flipped" /\ meta' = [meta EXCEPT ![k] = now] /\ Stored(k)
       \/ mode = "flipped" /\ UNCHANGED <<meta, lastEnd>>
    /\ FreshResult(t)
    /\ UNCHANGED <<lockVars, mode, site, now, body, attempts, force>>

\* Mutant of WriteFail: a lock without a finally block.
WriteFailKeepsLock(t) ==
    /\ pc[t] \in {"write", "writeMeta"}
    /\ Status(t, "raised") /\ Goto(t, "done")
    /\ UNCHANGED <<lockVars, mode, site, now, disk, attempts, force, lastEnd>>

\* Either write raises OSError: the temp file is removed, the target is not
\* touched, and the exception leaves through the lock's finally block.
WriteFail(t) ==
    /\ pc[t] \in {"write", "writeMeta"}
    /\ Status(t, "raised") /\ Goto(t, "release")
    /\ UNCHANGED <<lockVars, mode, site, now, disk, attempts, force, lastEnd>>

\* Serving a copy: the payload is read first, its envelope's stamp by a
\* second read of the file.
ReadBody(t) ==
    /\ pc[t] = "readBody"
    /\ res' = [res EXCEPT ![t].value = body[lockKey[t]]]
    /\ Goto(t, "readMeta")
    /\ UNCHANGED <<lockVars, mode, site, now, disk, attempts, force, lastEnd>>

\* Mutant of ReadMeta: the stamp is inferred from the clock.
ReadMetaFromClock(t) ==
    /\ pc[t] = "readMeta"
    /\ res' = [res EXCEPT ![t].fetchedAt = now]
    /\ Goto(t, IF stage[t] = "inside" THEN "release" ELSE "done")
    /\ UNCHANGED <<lockVars, mode, site, now, disk, attempts, force, lastEnd>>

ReadMeta(t) ==
    /\ pc[t] = "readMeta"
    /\ res' = [res EXCEPT ![t].fetchedAt = meta[lockKey[t]]]
    /\ Goto(t, IF stage[t] = "inside" THEN "release" ELSE "done")
    /\ UNCHANGED <<lockVars, mode, site, now, disk, attempts, force, lastEnd>>

LeaveLock(t) ==
    /\ pc[t] = "release"
    /\ \/ Release(t) /\ UNCHANGED pc
       \/ Deregister(t) /\ Goto(t, "done")
    /\ UNCHANGED <<mode, site, now, disk, attempts, res, force, lastEnd>>

Return(t) ==
    /\ pc[t] = "done"
    /\ Goto(t, "idle")
    /\ res' = [res EXCEPT ![t] = NoResult]
    /\ force' = [force EXCEPT ![t] = FALSE]
    /\ UNCHANGED <<lockVars, mode, site, now, disk, attempts, lastEnd>>

\* A second passes.  The local file writes of a refresh take less than one,
\* so the stamp of a refresh is the second in which upstream answered.
Tick ==
    /\ now < MaxTime
    /\ \A t \in Threads : pc[t] \notin {"write", "writeMeta"}
    /\ now' = now + 1
    /\ UNCHANGED <<lockVars, mode, site, disk, attempts, pc, force, res, lastEnd>>

\* CACHE_ONLY is read at call time, CACHE_DIR was resolved at import.
Flip ==
    /\ mode = "replay"
    /\ mode' = "flipped"
    /\ UNCHANGED <<lockVars, site, now, disk, attempts, pc, force, res, lastEnd>>

\* The process dies and is started again: locks, threads and the cooldown
\* table are gone, the files are what they were.
Restart ==
    /\ LockRestart
    /\ mode' = IF mode = "live" THEN "live" ELSE "replay"
    /\ attempts' = [k \in Keys |-> None]
    /\ pc' = [t \in Threads |-> "idle"]
    /\ force' = [t \in Threads |-> FALSE]
    /\ res' = [t \in Threads |-> NoResult]
    /\ lastEnd' = [k \in Keys |-> IF lastEnd[k].how = "failed"
                                  THEN [how |-> "none", at |-> 0] ELSE lastEnd[k]]
    /\ UNCHANGED <<site, now, disk>>

\* What a call does once it is made.
Step(t) ==
    \/ ReplayRead(t) \/ FastPath(t) \/ EnterLock(t) \/ Recheck(t)
    \/ FetchOk(t) \/ FetchFail(t)
    \/ WriteJson(t) \/ WriteBody(t) \/ WriteMeta(t) \/ WriteFail(t)
    \/ ReadBody(t) \/ ReadMeta(t)
    \/ LeaveLock(t) \/ Return(t)

Next ==
    \/ \E t \in Threads : Call(t) \/ Step(t)
    \/ Tick \/ Flip \/ Restart

\* A thread that can run eventually runs, and every upstream request has a
\* timeout.  Nothing is assumed of who wins a lock.
Fairness == \A t \in Threads : WF_vars(Step(t))

Spec == Init /\ [][Next]_vars /\ Fairness
-----------------------------------------------------------------------------
Labels == {"idle", "start", "wait", "recheck", "fetch", "write", "writeMeta",
           "readBody", "readMeta", "release", "done"}

MaybeTime == Seconds \cup {None}
Results == [status : {"none", "fresh", "reused", "stale", "raised"},
            value : MaybeTime, fetchedAt : MaybeTime, foundFreshAt : MaybeTime]

TypeOK ==
    /\ LockTypeOK
    /\ mode \in {"live", "replay", "flipped"}
    /\ kind \in [Keys -> {"json", "bin"}]
    /\ maxAge \in [Keys -> MaxAges]
    /\ now \in Seconds
    /\ body \in [Keys -> MaybeTime]
    /\ meta \in [Keys -> MaybeTime]
    /\ attempts \in [Keys -> MaybeTime]
    /\ pc \in [Threads -> Labels]
    /\ force \in [Threads -> BOOLEAN]
    /\ res \in [Threads -> Results]
    /\ lastEnd \in [Keys -> [how : {"none", "failed", "stored"}, at : Seconds]]

\* Where in _key_lock a thread is, by where it is in get_json_result.
StageOfPc ==
    \A t \in Threads :
        /\ pc[t] \in {"idle", "start", "done"} => stage[t] = "out"
        /\ pc[t] = "wait" => stage[t] = "waiting"
        /\ pc[t] \in {"recheck", "fetch", "write", "writeMeta"} => stage[t] = "inside"
        /\ pc[t] \in {"readBody", "readMeta"} => stage[t] \in {"out", "inside"}
        /\ pc[t] = "release" => stage[t] \in {"inside", "released"}

\* The code's own records agree with how the last attempt really ended, and a
\* refresh that is being written has no outcome yet.
RecordsAgree ==
    /\ \A k \in Keys :
          /\ lastEnd[k].how = "failed" => attempts[k] = lastEnd[k].at
          /\ lastEnd[k].how = "stored" => body[k] # None /\ meta[k] = lastEnd[k].at
    /\ \A t \in Threads :
          /\ pc[t] \in {"write", "writeMeta"} => lastEnd[lockKey[t]].how = "none"
          /\ pc[t] = "writeMeta" => body[lockKey[t]] # None

\* Two requests never talk to one key's upstream, or write its files, at the
\* same time ("observed: 2 upstream calls + 1 FileNotFoundError").
SingleFlight ==
    \A t, u \in Threads :
        /\ pc[t] \in {"fetch", "write", "writeMeta"} /\ pc[u] \in {"fetch", "write", "writeMeta"}
        /\ lockKey[t] = lockKey[u]
        => t = u

\* "at most one upstream call per window": an unforced request goes upstream
\* only if no attempt on its key failed within its cooldown window, and none
\* stored a copy within its max_age_s -- except in the very second of that copy,
\* and give or take the second its stamp was cut to (see FreshReads).  The history variable lastEnd, not the code's own
\* records, says how the last attempt ended; it survives what the code forgets.
OneAttemptPerWindow ==
    [][\A t \in Threads :
          pc[t] # "fetch" /\ pc'[t] = "fetch" /\ ~force[t] =>
              LET k == lockKey[t]
                  last == lastEnd[k]
              IN  /\ last.how = "failed" => now - last.at >= CooldownWindow(k)
                  /\ last.how = "stored" => /\ maxAge[k] # NoLimit
                                            /\ now - last.at >= maxAge[k] \/ now = last.at]_vars

\* The payload of a "reused" result was within max_age_s when the call's
\* freshness test was passed, although the file may be replaced between that
\* test and the two reads that follow it.  In replay any fixture will do.
ReusedIsRecent ==
    \A t \in Threads :
        LET k == lockKey[t] IN
        /\ pc[t] = "done" /\ res[t].status = "reused"
        /\ maxAge[k] # NoLimit /\ mode = "live"
        => res[t].foundFreshAt - res[t].value <= maxAge[k]

\* A result built under the key's lock carries the stamp of the very payload it
\* carries, for a JSON key; only the lock-free fast path can pair a payload
\* with the stamp of its successor, and never with an older one.
PayloadMatchesStamp ==
    \A t \in Threads :
        pc[t] \in {"release", "done"} /\ res[t].value # None /\ kind[lockKey[t]] = "json" =>
            /\ res[t].fetchedAt >= res[t].value
            /\ res[t].status \in {"stale", "fresh"} => res[t].fetchedAt = res[t].value

\* "Everything else must treat fixtures/ as read-only ... the guard belongs at
\* the filesystem boundary": a process whose CACHE_DIR is the frozen replay
\* store changes no file of it.
FrozenStoreUntouched == [][mode # "live" => UNCHANGED disk]_vars

\* A thread waits for a key for ever only if other callers of that key keep
\* being served: nobody keeps a lock, and no lock is lost.
NoLostLock ==
    \A t \in Threads :
        []<>(\/ pc[t] # "wait"
            \/ \E u \in Threads \ {t} : pc[u] = "recheck" /\ lockKey[u] = lockKey[t])
=============================================================================
