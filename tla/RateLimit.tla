------------------------------ MODULE RateLimit ------------------------------
(***************************************************************************)
(* The throttle of sign-ins and registrations (serve.py:85-98): a queue of *)
(* stamps for each client address, kept by the request threads of one      *)
(* process under rate_lock.  The clock is read before the lock is taken,   *)
(* so a thread acts on a reading that may be old by then: stamps enter a   *)
(* queue out of order, and a queue is pruned with an older reading than it *)
(* has stamps.  The locked section is one step.                            *)
(***************************************************************************)
EXTENDS Integers, Sequences, FiniteSets

CONSTANTS Clients, Threads,
          MaxAttempts, AttemptSpan,  \* 12 attempts in 900 seconds
          Lag,                       \* the longest wait for rate_lock
          MaxTime                    \* bound: the last instant

ASSUME ThrottleAssumption == {MaxAttempts, AttemptSpan} \subseteq Nat \ {0} /\ Lag \in Nat

VARIABLES clock,     \* time.monotonic()
          attempts,  \* server.attempts: stamps of each client, as they were appended
          tried,     \* all stamps ever appended (history)
          reading    \* reading[t]: what the threads that wait for the lock have read

throttleVars == <<clock, attempts, tried, reading>>

ThrottleInit ==
    /\ clock = 0
    /\ attempts = [c \in Clients |-> <<>>]
    /\ tried = [c \in Clients |-> <<>>]
    /\ reading = [t \in {} |-> 0]

\* A thread that waits for the lock gets it within Lag.
TimePasses ==
    /\ clock < MaxTime
    /\ \A t \in DOMAIN reading : clock < reading[t] + Lag
    /\ clock' = clock + 1
    /\ UNCHANGED <<attempts, tried, reading>>

ReadClock(t) ==
    /\ t \notin DOMAIN reading
    /\ reading' = [u \in DOMAIN reading \cup {t} |-> IF u = t THEN clock ELSE reading[u]]
    /\ UNCHANGED <<clock, attempts, tried>>

\* Mutant: an attempt made exactly AttemptSpan ago no longer counts.
ExpiredAtLimit(stamp, now) == stamp <= now - AttemptSpan

Expired(stamp, now) == stamp < now - AttemptSpan

\* The queue once the loop has taken off its front what expired, up to the first
\* stamp that has not.
Pruned(queue, now) ==
    LET gone == {n \in 0..Len(queue) : \A i \in 1..n : Expired(queue[i], now)}
        n == CHOOSE n \in gone : \A m \in gone : m <= n
    IN  SubSeq(queue, n + 1, Len(queue))

\* Under the lock: every client's queue is pruned, then this one's is looked at.
Attempt(t, c) ==
    /\ t \in DOMAIN reading
    /\ LET now == reading[t]
           kept == [d \in Clients |-> Pruned(attempts[d], now)]
       IN  IF Len(kept[c]) >= MaxAttempts
           THEN attempts' = kept /\ UNCHANGED tried                  \* 429
           ELSE /\ attempts' = [kept EXCEPT ![c] = Append(@, now)]
                /\ tried' = [tried EXCEPT ![c] = Append(@, now)]
    /\ reading' = [u \in DOMAIN reading \ {t} |-> reading[u]]
    /\ UNCHANGED clock

ThrottleNext ==
    \/ TimePasses
    \/ \E t \in Threads : ReadClock(t) \/ \E c \in Clients : Attempt(t, c)

ThrottleSpec == ThrottleInit /\ [][ThrottleNext]_throttleVars
-----------------------------------------------------------------------------
\* The attempts of a client in the stretch that ends at an instant.
Stretch(c, end) ==
    {i \in DOMAIN tried[c] : end - (AttemptSpan - Lag) <= tried[c][i] /\ tried[c][i] <= end}

(* However many threads sign one client in, in whatever order they get the   *)
(* lock and with whatever reading they empty the queues (serve.py:85-98), no *)
(* stretch of 15 minutes, less the wait for the lock, sees more than a dozen *)
(* attempts of that client.  Without the wait taken off it is not so: a late *)
(* thread adds a stamp to a window another one has already forgotten.        *)
ThrottleHolds ==
    \A c \in Clients : \A end \in 0..clock : Cardinality(Stretch(c, end)) <= MaxAttempts
=============================================================================
