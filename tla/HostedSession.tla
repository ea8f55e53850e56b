---------------------------- MODULE HostedSession ----------------------------
(***************************************************************************)
(* Signed-in students of the hosted server: the week-long session cookie     *)
(* of auth.py, the hour-long Supabase access token inside it, and the      *)
(* refresh of app/supabase_session.py before an account call uses one.     *)
(* Supabase is modelled from its use here: it issues tokens, may be out of *)
(* reach at any call, and either accepts a refresh token again or not.     *)
(* A student's browser is known by the student.                            *)
(***************************************************************************)
EXTENDS Integers, FiniteSets, FiniteSetsExt

CONSTANTS Students, Requests,
          CookieLife, TokenLife, Skew,  \* SESSION_MAX_AGE_SECONDS, expires_in, REFRESH_SKEW_S
          CacheLimit, EvictCount,       \* _CACHE_LIMIT and a quarter of it
          MaxSignIns,                   \* bound: sign-ins of the run
          MaxHour,                      \* bound: the last instant of the run
          Absent

ASSUME HostedAssumption ==
    /\ {CookieLife, TokenLife, Skew, CacheLimit, EvictCount} \subseteq Nat \ {0}
    /\ EvictCount <= CacheLimit /\ Skew < TokenLife
    /\ Absent \notin Nat

VARIABLES hour,        \* the clock
          cookies,     \* cookies[s]: the session cookie of s's browser
          signIns,     \* sign-ins so far; each issues a refresh token of that number
          reusable,    \* does Supabase accept a refresh token twice?
          spent,       \* the refresh tokens it has exchanged
          cached,        \* _CACHE: refresh token -> access token
          call         \* the account calls under way

hostedVars == <<hour, cookies, signIns, reusable, spent, cached, call>>

NoCall == [pc |-> "idle", session |-> Absent, token |-> Absent, since |-> 0, refused |-> FALSE]

HostedInit ==
    /\ hour = 0 /\ signIns = 0
    /\ cookies = [s \in Students |-> Absent]
    /\ reusable \in BOOLEAN
    /\ spent = {} /\ cached = <<>>
    /\ call = [r \in Requests |-> NoCall]

AccessToken(s, expires) == [student |-> s, expires |-> expires]

\* A password sign-in or the Google callback.  The expiry of the access token
\* is not always reported, and neither is a refresh token.
SignIn(s) ==
    /\ signIns < MaxSignIns
    /\ signIns' = signIns + 1
    /\ \E known, renewable \in BOOLEAN :
           cookies' = [cookies EXCEPT ![s] =
               [expires |-> hour + CookieLife, student |-> s,
                access |-> AccessToken(s, hour + TokenLife), known |-> known,
                refresh |-> IF renewable THEN signIns' ELSE Absent]]
    /\ UNCHANGED <<hour, reusable, spent, cached, call>>

SignOut(s) ==
    /\ cookies[s] # Absent
    /\ cookies' = [cookies EXCEPT ![s] = Absent]
    /\ UNCHANGED <<hour, signIns, reusable, spent, cached, call>>

\* require_auth lets the call in for as long as the cookie lives.
AccountCall(r, s) ==
    /\ call[r].pc = "idle"
    /\ cookies[s] # Absent /\ hour < cookies[s].expires
    /\ call' = [call EXCEPT ![r] = [NoCall EXCEPT !.pc = "token", !.session = cookies[s], !.since = hour]]
    /\ UNCHANGED <<hour, cookies, signIns, reusable, spent, cached>>

LivesOn(token) == token.expires - hour > Skew

UseToken(r, token) == call' = [call EXCEPT ![r] = [@ EXCEPT !.pc = "use", !.token = token]]

\* Nothing to refresh with: whatever was stored is used.
FallBack(r) == call' = [call EXCEPT ![r] = [@ EXCEPT !.pc = "use", !.token = call[r].session.access, !.refused = TRUE]]

\* Mutant: the stored token is used however little of its life is left.
TokenForNoSkew(r) ==
    LET s == call[r].session
    IN  /\ call[r].pc = "token"
        /\ IF s.known /\ s.access.expires > hour - Skew THEN UseToken(r, s.access)
           ELSE IF s.refresh \in DOMAIN cached /\ LivesOn(cached[s.refresh]) THEN UseToken(r, cached[s.refresh])
           ELSE IF s.refresh = Absent THEN FallBack(r)
           ELSE call' = [call EXCEPT ![r].pc = "refresh"]
        /\ UNCHANGED <<hour, cookies, signIns, reusable, spent, cached>>

TokenFor(r) ==
    LET s == call[r].session
    IN  /\ call[r].pc = "token"
        /\ IF s.known /\ LivesOn(s.access) THEN UseToken(r, s.access)
           ELSE IF s.refresh \in DOMAIN cached /\ LivesOn(cached[s.refresh]) THEN UseToken(r, cached[s.refresh])
           ELSE IF s.refresh = Absent THEN FallBack(r)
           ELSE call' = [call EXCEPT ![r].pc = "refresh"]
        /\ UNCHANGED <<hour, cookies, signIns, reusable, spent, cached>>

\* The token that comes with the answer may be remembered; the refresh token
\* that replaces the one just spent is dropped.
Refreshed(r) ==
    /\ call[r].pc = "refresh"
    /\ call[r].session.refresh \in spent => reusable
    /\ spent' = spent \cup {call[r].session.refresh}
    /\ call' = [call EXCEPT ![r] = [@ EXCEPT !.pc = "remember",
                    !.token = AccessToken(call[r].session.student, hour + TokenLife)]]
    /\ UNCHANGED <<hour, cookies, signIns, reusable, cached>>

NotRefreshed(r) ==
    /\ call[r].pc = "refresh"
    /\ FallBack(r)
    /\ UNCHANGED <<hour, cookies, signIns, reusable, spent, cached>>

\* The entries closest to their expiry make room.
Evicted(keys) ==
    LET Before(j, k) == cached[j].expires < cached[k].expires \/ (cached[j].expires = cached[k].expires /\ j < k)
    IN  {k \in keys : Cardinality({j \in keys : Before(j, k)}) < EvictCount}

\* Mutant: the token is filed under the student who spent the last refresh token.
KeyOfLast(r) == Max(spent)

Key(r) == call[r].session.refresh

Remember(r) ==
    LET full == Cardinality(DOMAIN cached) >= CacheLimit
        kept == IF full THEN DOMAIN cached \ Evicted(DOMAIN cached) ELSE DOMAIN cached
    IN  /\ call[r].pc = "remember"
        /\ cached' = [k \in kept \cup {Key(r)} |-> IF k = Key(r) THEN call[r].token ELSE cached[k]]
        /\ UseToken(r, call[r].token)
        /\ UNCHANGED <<hour, cookies, signIns, reusable, spent>>

\* Supabase serves the account with a live token, and says "JWT expired" to a dead one.
SignInAgain(r) == call[r].pc = "use" /\ call[r].token.expires <= hour

CallAnswered(r) ==
    /\ call[r].pc = "use"
    /\ call' = [call EXCEPT ![r] = NoCall]
    /\ UNCHANGED <<hour, cookies, signIns, reusable, spent, cached>>

HourPasses ==
    /\ hour < MaxHour
    /\ \A r \in Requests : call[r].pc # "idle" => hour - call[r].since < Skew   \* bound: no call outlasts Skew
    /\ hour' = hour + 1
    /\ UNCHANGED <<cookies, signIns, reusable, spent, cached, call>>

ServerRestarts ==
    /\ cached' = <<>>
    /\ call' = [r \in Requests |-> NoCall]
    /\ UNCHANGED <<hour, cookies, signIns, reusable, spent>>

HostedNext ==
    \/ HourPasses \/ ServerRestarts
    \/ \E s \in Students : SignIn(s) \/ SignOut(s) \/ \E r \in Requests : AccountCall(r, s)
    \/ \E r \in Requests : TokenFor(r) \/ Refreshed(r) \/ NotRefreshed(r) \/ Remember(r) \/ CallAnswered(r)

HostedSpec == HostedInit /\ [][HostedNext]_hostedVars
-----------------------------------------------------------------------------
(* "An hour-long token must not sign a student out ... only a failed refresh *)
(* asks them to sign in" (server.py:1069): as long as the cookie lives, a    *)
(* call is turned away only if a refresh was tried in it and refused, or     *)
(* there was nothing to refresh with, whatever its token was remembered,     *)
(* evicted or lost with the process.                                         *)
TurnedAwayOnlyIfRefused ==
    \A r \in Requests : SignInAgain(r) => call[r].refused

(* No call presents another student's token, although all sessions share one *)
(* table and two of a student's may hold different refresh tokens            *)
(* (supabase_session.py:52-74).                                              *)
TokenIsTheStudents ==
    \A r \in Requests : call[r].pc = "use" => call[r].token.student = call[r].session.student
=============================================================================
