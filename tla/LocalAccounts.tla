---------------------------- MODULE LocalAccounts ----------------------------
(***************************************************************************)
(* The accounts of the local server (serve.py, hokieday/accounts.py): a      *)
(* SQLite file whose transactions are single steps, and the request          *)
(* threads that string several of them together.  Two windows of a browser   *)
(* share its session cookie.  Passwords are right or the request is not      *)
(* made; a saved state is the window that wrote it.                          *)
(***************************************************************************)
EXTENDS Integers, Sequences, FiniteSets

CONSTANTS Owners, Windows, NoOwner,
          SessionLife,               \* SESSION_SECONDS
          MaxTokens,                 \* bound: sessions created
          MaxSaves,                  \* bound: versions of one account
          MaxDay                     \* bound: the last instant

ASSUME LocalAssumption ==
    /\ SessionLife \in Nat \ {0}
    /\ NoOwner \notin Owners

VARIABLES day,        \* the clock
          registered, \* the rows of users
          userData,   \* the rows of user_data: [data, version]
          sessions,   \* the rows of sessions: token -> [owner, expires]
          tokens,     \* how many tokens were made
          jar,        \* the token in the browser's cookie (0: none)
          request,    \* the request of each window
          stored      \* all that was stored for each owner (history)

localVars == <<day, registered, userData, sessions, tokens, jar, request, stored>>

NoRequest == [pc |-> "idle", owner |-> NoOwner, token |-> 0, presented |-> 0, version |-> 0, reply |-> "none"]

LocalInit ==
    /\ day = 0 /\ registered = {} /\ tokens = 0 /\ jar = 0
    /\ userData = [o \in Owners |-> [data |-> NoOwner, version |-> 0]]
    /\ sessions = <<>>
    /\ request = [t \in Windows |-> NoRequest]
    /\ stored = [o \in Owners |-> <<>>]

\* session(token): the owner it is for, if its row is there and has not expired.
OwnerOf(token) ==
    IF token \in DOMAIN sessions /\ sessions[token].expires > day THEN sessions[token].owner ELSE NoOwner

Ended(t, reply) == request' = [request EXCEPT ![t] = [NoRequest EXCEPT !.reply = reply]]

\* register or login up to the transaction that finds the user, unless the
\* throttle refuses the request (RateLimit).
StartSignIn(t, o) ==
    /\ request[t].pc = "idle"
    /\ \/ UNCHANGED registered /\ Ended(t, "too many")
       \/ UNCHANGED registered /\ o \in registered /\ Ended(t, "taken")       \* register
       \/ /\ registered' = registered \cup {o}                                \* or login
          /\ request' = [request EXCEPT ![t] = [NoRequest EXCEPT
                           !.pc = "session", !.owner = o, !.presented = jar]]
    /\ UNCHANGED <<day, userData, sessions, tokens, jar, stored>>

CreateSession(t) ==
    LET alive == {k \in DOMAIN sessions : sessions[k].expires > day}
        new == tokens + 1
    IN  /\ request[t].pc = "session" /\ new <= MaxTokens
        /\ tokens' = new
        /\ sessions' = [k \in alive \cup {new} |->
               IF k = new THEN [owner |-> request[t].owner, expires |-> day + SessionLife] ELSE sessions[k]]
        /\ request' = [request EXCEPT ![t] = [@ EXCEPT !.pc = "leave", !.token = new]]
        /\ UNCHANGED <<day, registered, userData, jar, stored>>

Without(k) == [j \in DOMAIN sessions \ {k} |-> sessions[j]]

\* The session the request came with is deleted once the new one exists.
LeaveOld(t) ==
    /\ request[t].pc = "leave"
    /\ sessions' = Without(request[t].presented)
    /\ request' = [request EXCEPT ![t].pc = "welcome"]
    /\ UNCHANGED <<day, registered, userData, tokens, jar, stored>>

Welcome(t) ==
    /\ request[t].pc = "welcome"
    /\ IF OwnerOf(request[t].token) # NoOwner
       THEN jar' = request[t].token /\ Ended(t, "welcome")
       ELSE UNCHANGED jar /\ Ended(t, "log in")
    /\ UNCHANGED <<day, registered, userData, sessions, tokens, stored>>

LeaveAccount(t) ==
    /\ request[t].pc = "idle" /\ jar # 0
    /\ sessions' = Without(jar) /\ jar' = 0
    /\ Ended(t, "bye")
    /\ UNCHANGED <<day, registered, userData, tokens, stored>>

\* save: the session is read, and the data, which may have been loaded a while
\* ago, is checked.
StartSave(t, v) ==
    /\ request[t].pc = "idle"
    /\ v <= userData[OwnerOf(jar)].version
    /\ request' = [request EXCEPT ![t] = [NoRequest EXCEPT !.pc = "update", !.owner = OwnerOf(jar),
                                                          !.token = jar, !.version = v]]
    /\ UNCHANGED <<day, registered, userData, sessions, tokens, jar, stored>>

RejectSave(t) ==
    /\ request[t].pc = "idle"
    /\ OwnerOf(jar) = NoOwner /\ Ended(t, "log in")
    /\ UNCHANGED <<day, registered, userData, sessions, tokens, jar, stored>>

\* Mutant: the row is replaced whatever its version.
MatchesAnyRow(t) == TRUE

Matches(t) == userData[request[t].owner].version = request[t].version

UpdateRow(t) ==
    LET o == request[t].owner
    IN  /\ request[t].pc = "update"
        /\ IF Matches(t)
           THEN /\ userData' = [userData EXCEPT ![o] = [data |-> t, version |-> @.version + 1]]
                /\ stored' = [stored EXCEPT ![o] = Append(@, t)]
                /\ request' = [request EXCEPT ![t].pc = "reread"]
           ELSE request' = [request EXCEPT ![t].pc = "conflict"] /\ UNCHANGED <<userData, stored>>
        /\ UNCHANGED <<day, registered, sessions, tokens, jar>>

\* The reply is read back with the same token.
Reread(t) ==
    /\ request[t].pc = "reread"
    /\ IF OwnerOf(request[t].token) # NoOwner THEN Ended(t, "saved") ELSE Ended(t, "log in")
    /\ UNCHANGED <<day, registered, userData, sessions, tokens, jar, stored>>

\* SQLite stays busy for ten seconds, or the process dies: the transaction under
\* way is rolled back, those before it stay.
Lost(t) ==
    /\ request[t].pc \notin {"idle", "conflict", "crashed"}
    /\ IF request[t].pc = "update"
       THEN request' = [request EXCEPT ![t].pc = "crashed"]
       ELSE Ended(t, "none")
    /\ UNCHANGED <<day, registered, userData, sessions, tokens, jar, stored>>

Report(t) ==
    /\ request[t].pc \in {"conflict", "crashed"}
    /\ Ended(t, request[t].pc)
    /\ UNCHANGED <<day, registered, userData, sessions, tokens, jar, stored>>

DayPasses ==
    /\ day < MaxDay /\ day' = day + 1
    /\ UNCHANGED <<registered, userData, sessions, tokens, jar, request, stored>>

LocalNext ==
    \/ DayPasses
    \/ \E t \in Windows :
        \/ CreateSession(t) \/ LeaveOld(t) \/ Welcome(t) \/ LeaveAccount(t)
        \/ RejectSave(t) \/ UpdateRow(t) \/ Reread(t) \/ Report(t) \/ Lost(t)
        \/ \E o \in Owners : StartSignIn(t, o)
        \/ OwnerOf(jar) # NoOwner /\ \E v \in 0..(MaxSaves - 1) : StartSave(t, v)

LocalSpec == LocalInit /\ [][LocalNext]_localVars
-----------------------------------------------------------------------------
\* The request a window has at the register: see CasRegister.
OpOfTab(t) ==
    LET r == request[t]
    IN  CASE r.pc = "update" -> [phase |-> "pending", user |-> r.owner, data |-> t, version |-> r.version]
          [] r.pc = "reread" -> [phase |-> "saved", user |-> r.owner, data |-> t, version |-> r.version + 1]
          [] r.pc \in {"conflict", "crashed"} -> [phase |-> "failed"]
          [] OTHER -> [phase |-> "idle"]

LocalRegister == INSTANCE CasRegister WITH
    Users <- Owners, Workers <- Windows, NoUser <- NoOwner,
    log <- stored, op <- [t \in Windows |-> OpOfTab(t)]

(* Every save replaces the state it was based on, in one step and under the  *)
(* next version number, although save() reads the session, updates the row   *)
(* and reads it back in three transactions (accounts.py:119-172), between    *)
(* which the account may be left, another window may save and the process may*)
(* die: the local server implements the register the hosted one implements.  *)
ImplementsLocalRegister == LocalRegister!RegisterSpec
=============================================================================
