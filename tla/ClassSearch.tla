----------------------------- MODULE ClassSearch -----------------------------
(***************************************************************************)
(* The live half of app/class_search.py: request threads search the course *)
(* catalog.  A thread reads the clock, waits for _LOCK, and under it finds *)
(* its query in the in-process memo or takes the time slot of the next     *)
(* Banner request; outside it, it sleeps and asks Banner, and under it     *)
(* again notes the answer.  It then passes the capture through a file of   *)
(* CACHE_DIR: after an answer outside the lock, after a memo hit within    *)
(* it, for live_snapshot returns from inside the block.                    *)
(*                                                                         *)
(* A capture is known by the second in which Banner answered.  The file is *)
(* written in place (write_text), so it is Torn between the truncation and *)
(* the end of the write, and all threads of a query share it.              *)
(***************************************************************************)
EXTENDS Integers, FiniteSets

CONSTANTS Threads, Queries,
          MinInterval,   \* MIN_INTERVAL_S
          LiveTTL,       \* LIVE_TTL_S
          LockWait,      \* the longest wait for _LOCK
          None, Torn,    \* no file, memo, request or owner; a half-written file
          MaxTime,       \* bound: the last second of the run
          Modes          \* "live"; "replay" (CACHE_ONLY, CACHE_DIR is fixtures/); or
                         \* "flipped": CACHE_ONLY cleared after the import

ASSUME SearchAssumption ==
    /\ {MinInterval, LiveTTL} \subseteq Nat \ {0} /\ {MaxTime, LockWait} \subseteq Nat
    /\ None \notin Int /\ Torn \notin Int /\ None # Torn /\ None \notin Threads
    /\ Modes \subseteq {"live", "replay", "flipped"}

VARIABLES mode, now,
          lock,      \* who is inside a `with _LOCK:` block, if anyone stays in it
          memo,      \* _MEMO: a query's capture, and when it was noted
          lastCall,  \* _LAST_CALL[0]: the slot given to the last request
          file,      \* the capture file of each query
          pc, query, \* where a thread is, and what it searches
          reading,   \* now_mono, which it took before it asked for the lock
          wake,      \* when its time.sleep ends
          capture,   \* the `html` it holds; at the end, what it answers with
          sent,      \* history: when a request was last sent to Banner
          cut        \* history: some thread did not sleep as long as it had to wait

vars == <<mode, now, lock, memo, lastCall, file, pc, query, reading, wake, capture, sent, cut>>

Init ==
    /\ mode \in Modes
    /\ now = 0 /\ lock = None
    /\ memo = [q \in Queries |-> None]
    /\ lastCall = -MinInterval      \* long ago
    /\ file = [q \in Queries |-> None]
    /\ pc = [t \in Threads |-> "idle"]
    /\ query \in [Threads -> Queries]
    /\ reading = [t \in Threads |-> 0]
    /\ wake = [t \in Threads |-> 0]
    /\ capture = [t \in Threads |-> None]
    /\ sent = None /\ cut = FALSE

Goto(t, label) == pc' = [pc EXCEPT ![t] = label]
Hold(t, c) == capture' = [capture EXCEPT ![t] = c]
Release(t) == lock' = IF lock = t THEN None ELSE lock
Later(a, b) == IF a > b THEN a ELSE b
Sooner(a, b) == IF a < b THEN a ELSE b
-----------------------------------------------------------------------------
\* search() gets to live_snapshot with a subject, a course number or a CRN, and
\* up to the lock.  In replay live_snapshot returns None at once.
Search(t) ==
    /\ pc[t] = "idle"
    /\ \E q \in Queries : query' = [query EXCEPT ![t] = q]
    /\ IF mode = "replay"
       THEN Goto(t, "done") /\ UNCHANGED reading
       ELSE Goto(t, "check") /\ reading' = [reading EXCEPT ![t] = now]
    /\ UNCHANGED <<mode, now, lock, memo, lastCall, file, wake, capture, sent, cut>>

Remembered(t) == LET hit == memo[query[t]] IN hit # None /\ reading[t] - hit.stamp < LiveTTL

\* The seconds until MIN_INTERVAL_S after the last slot; negative when past.
Wait(t) == MinInterval - (reading[t] - lastCall)

\* Mutant of Slot: the slot is the reading, whatever the wait.
SlotWithoutWait(t) == reading[t]

Slot(t) == reading[t] + Later(Wait(t), 0)

\* The first `with _LOCK:` block: the memo, and then the lock is kept; or else a
\* slot and a sleep, of which no more than MIN_INTERVAL_S is ever slept.
Check(t) ==
    /\ pc[t] = "check" /\ lock = None
    /\ \/ /\ Remembered(t)
          /\ lock' = t
          /\ Hold(t, memo[query[t]].capture)
          /\ Goto(t, "persist")
          /\ UNCHANGED <<lastCall, wake, cut>>
       \/ /\ ~Remembered(t)
          /\ lastCall' = Slot(t)
          /\ wake' = [wake EXCEPT ![t] = now + Later(0, Sooner(Wait(t), MinInterval))]
          /\ cut' = (cut \/ Wait(t) > MinInterval)
          /\ Goto(t, "sleep")
          /\ UNCHANGED <<lock, capture>>
    /\ reading' = [reading EXCEPT ![t] = 0]
    /\ UNCHANGED <<mode, now, memo, file, query, sent>>

\* The sleep is over: the POST is sent.
Request(t) ==
    /\ pc[t] = "sleep" /\ now >= wake[t]
    /\ sent' = now
    /\ wake' = [wake EXCEPT ![t] = 0]
    /\ Goto(t, "fetch")
    /\ UNCHANGED <<mode, now, lock, memo, lastCall, file, query, reading, capture, cut>>

\* Banner answers: fetched_at is read before the lock is asked for.
Answered(t) ==
    /\ pc[t] = "fetch"
    /\ Hold(t, now)
    /\ Goto(t, "note")
    /\ UNCHANGED <<mode, now, lock, memo, lastCall, file, query, reading, wake, sent, cut>>

\* The second `with _LOCK:` block, which stamps the capture with its own time.
Note(t) ==
    /\ pc[t] = "note" /\ lock = None
    /\ memo' = [memo EXCEPT ![query[t]] = [stamp |-> now, capture |-> capture[t]]]
    /\ Goto(t, "persist")
    /\ UNCHANGED <<mode, now, lock, lastCall, file, query, reading, wake, capture, sent, cut>>

\* URLError, OSError or a timeout: live_snapshot returns None.
Unanswered(t) ==
    /\ pc[t] = "fetch"
    /\ Goto(t, "done")
    /\ UNCHANGED <<mode, now, lock, memo, lastCall, file, query, reading, wake, capture, sent, cut>>

\* Mutant of Persist: the replay store is a directory like any other.
PersistAnywhere(t) ==
    /\ pc[t] = "persist"
    /\ file' = [file EXCEPT ![query[t]] = Torn]
    /\ Goto(t, "write")
    /\ UNCHANGED <<mode, now, lock, memo, lastCall, query, reading, wake, capture, sent, cut>>

\* _snapshot_from_cache: refused inside fixtures/; else write_text opens and
\* truncates the file, or fails to.
Persist(t) ==
    /\ pc[t] = "persist"
    /\ \/ /\ mode = "live"
          /\ file' = [file EXCEPT ![query[t]] = Torn]
          /\ Goto(t, "write")
          /\ UNCHANGED <<lock, capture>>
       \/ Hold(t, None) /\ Goto(t, "done") /\ Release(t) /\ UNCHANGED file
    /\ UNCHANGED <<mode, now, memo, lastCall, query, reading, wake, sent, cut>>

\* The rest of the write; it may fail half-way.
Write(t) ==
    /\ pc[t] = "write"
    /\ \/ /\ file' = [file EXCEPT ![query[t]] = capture[t]]
          /\ Goto(t, "load")
          /\ UNCHANGED <<lock, capture>>
       \/ Hold(t, None) /\ Goto(t, "done") /\ Release(t) /\ UNCHANGED file
    /\ UNCHANGED <<mode, now, memo, lastCall, query, reading, wake, sent, cut>>

\* Mutant of Load: the file is taken for what this thread wrote to it.
LoadUnchecked(t) ==
    /\ pc[t] = "load"
    /\ Hold(t, file[query[t]])
    /\ Goto(t, "done") /\ Release(t)
    /\ UNCHANGED <<mode, now, memo, lastCall, file, query, reading, wake, sent, cut>>

\* classes.load_snapshot: what is in the file by now, if it is a snapshot.
Load(t) ==
    LET found == file[query[t]] IN
    /\ pc[t] = "load"
    /\ Hold(t, IF found = Torn THEN None ELSE found)
    /\ Goto(t, "done") /\ Release(t)
    /\ UNCHANGED <<mode, now, memo, lastCall, file, query, reading, wake, sent, cut>>

\* The answer: banner_live with `capture`, or from the committed snapshots.
Return(t) ==
    /\ pc[t] = "done"
    /\ Hold(t, None)
    /\ Goto(t, "idle")
    /\ UNCHANGED <<mode, now, lock, memo, lastCall, file, query, reading, wake, sent, cut>>

\* A second passes.  Files are written in less than one, no thread sleeps for
\* longer than it asked to, and none waits for the lock longer than LockWait.
Tick ==
    /\ now < MaxTime
    /\ \A t \in Threads : /\ pc[t] \notin {"persist", "write", "load", "done"}
                          /\ pc[t] = "sleep" => now < wake[t]
                          /\ pc[t] = "check" => now < reading[t] + LockWait
                          /\ pc[t] = "note" => now < capture[t] + LockWait
    /\ now' = now + 1
    /\ UNCHANGED <<mode, lock, memo, lastCall, file, pc, query, reading, wake, capture, sent, cut>>

\* A new process: the memo and the slots are gone, the files are not.
Restart ==
    /\ lock' = None
    /\ memo' = [q \in Queries |-> None]
    /\ lastCall' = -MinInterval
    /\ pc' = [t \in Threads |-> "idle"]
    /\ reading' = [t \in Threads |-> 0]
    /\ wake' = [t \in Threads |-> 0]
    /\ capture' = [t \in Threads |-> None]
    /\ sent' = None /\ cut' = FALSE
    /\ UNCHANGED <<mode, now, file, query>>

Step(t) ==
    \/ Check(t) \/ Request(t) \/ Answered(t) \/ Unanswered(t) \/ Note(t)
    \/ Persist(t) \/ Write(t) \/ Load(t) \/ Return(t)

Next ==
    \/ \E t \in Threads : Search(t) \/ Step(t)
    \/ Tick \/ Restart

Spec == Init /\ [][Next]_vars
-----------------------------------------------------------------------------
Time == 0..MaxTime

TypeOK ==
    /\ mode \in Modes /\ now \in Time /\ lock \in Threads \cup {None}
    /\ memo \in [Queries -> [stamp : Time, capture : Time] \cup {None}]
    /\ lastCall \in Int
    /\ file \in [Queries -> Time \cup {None, Torn}]
    /\ pc \in [Threads -> {"idle", "check", "sleep", "fetch", "note", "persist", "write", "load", "done"}]
    /\ query \in [Threads -> Queries]
    /\ reading \in [Threads -> Time]
    /\ wake \in [Threads -> Nat]
    /\ capture \in [Threads -> Time \cup {None}]
    /\ sent \in Time \cup {None} /\ cut \in BOOLEAN

\* A live answer may be LIVE_TTL_S old by a reading, which may be LockWait old by the
\* time the memo is looked at, as the capture may be when it is noted.
Recent(c) == now - c < LiveTTL + 2 * LockWait

\* "Live captures are kept under cache/ ...; the committed snapshots in
\* fixtures/ are never written", not even by a process that was imported in
\* replay and fetches.
FixturesUntouched == [][mode # "live" => UNCHANGED file]_vars

(* An answer labelled live is a whole capture of that query which Banner     *)
(* gave less than LIVE_TTL_S ago, give or take the two waits for the lock    *)
(* (class_search.py:144-162), whichever of the threads that share the file   *)
(* wrote it, and however their writes and reads interleaved.                 *)
LiveIsRecent ==
    \A t \in Threads : pc[t] = "done" /\ capture[t] # None => capture[t] # Torn /\ Recent(capture[t])

(* As long as no thread had to wait longer than it may sleep, the requests   *)
(* themselves reach Banner MIN_INTERVAL_S apart, less the wait for the lock, *)
(* in whatever order threads with old readings get it: the slots are right,  *)
(* and it is the capped sleep that is not (class_search.py:144-153).         *)
FullSleepsSpace ==
    [][\A t \in Threads : Request(t) /\ sent # None /\ ~cut => now - sent >= MinInterval - LockWait]_vars

\* "at least MIN_INTERVAL_S between them": no two requests are sent to Banner
\* within MIN_INTERVAL_S.
RequestsSpaced ==
    [][\A t \in Threads : Request(t) /\ sent # None => now - sent >= MinInterval]_vars
=============================================================================
