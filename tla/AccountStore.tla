----------------------------- MODULE AccountStore ----------------------------
(***************************************************************************)
(* The signed-in account: the browser tabs of ui/app.js, the request       *)
(* threads of app/server.py that run app/account_store.py, and the user's  *)
(* row of the hosted saved_plans table.                                    *)
(*                                                                         *)
(* An account's data is abstracted to the set of items (events, plans) in  *)
(* it.  A save sends the tab's whole copy with one item added or removed   *)
(* and the version the copy was loaded with; the server reads the row,     *)
(* compares, and writes with an INSERT or an UPDATE that names the version *)
(* again.  The tabs share one browser, so they share its session cookie.   *)
(*                                                                         *)
(* A request outlives the tab's interest in it: a tab that gives up after  *)
(* 20 s or is reloaded never hears how its save ended.                     *)
(***************************************************************************)
EXTENDS Integers, Sequences

CONSTANTS Users, NoUser, Tabs, NoTab,
          Workers,     \* request threads: at most that many saves at a time
          MaxItems,    \* bound: items ever made
          MaxVersion   \* bound: saves are made from versions below this one

ASSUME AccountAssumption ==
    /\ NoUser \notin Users /\ NoTab \notin Tabs
    /\ MaxItems \in Nat /\ MaxVersion \in Nat

VARIABLES row,       \* row[u]: version and data in u's reserved row (0: no row)
          cookie,    \* whose session cookie the browser holds
          tab,       \* state.user, accountData, accountVersion, accountStorageError
          saving,    \* saving[t]: state.accountSaving
          loading,   \* loading[t]: the answer of a login or /api/auth/me under way
          req,       \* req[w]: the save that request thread w is serving
          log,       \* history: everything ever stored for each user, in order
          madeBy,    \* history: madeBy[i] is the account the tab showed when i was made
          acked,     \* history: the items a successful answer told a tab were saved
          dropped    \* history: the items some tab has asked to remove

vars == <<row, cookie, tab, saving, loading, req, log, madeBy, acked, dropped>>

NoRow == [version |-> 0, data |-> {}]
SignedOut == [user |-> NoUser, data |-> {}, version |-> 0, error |-> FALSE]
NoLoad == [state |-> "none"]
IdleReq == [phase |-> "idle"]

Init ==
    /\ row = [u \in Users |-> NoRow]
    /\ cookie = NoUser
    /\ tab = [t \in Tabs |-> SignedOut]
    /\ saving = [t \in Tabs |-> FALSE]
    /\ loading = [t \in Tabs |-> NoLoad]
    /\ req = [w \in Workers |-> IdleReq]
    /\ log = [u \in Users |-> << >>]
    /\ madeBy = << >>
    /\ acked = {}
    /\ dropped = {}

rows == <<row, log>>
items == <<madeBy, acked, dropped>>
-----------------------------------------------------------------------------
\* account_store.load: a failed read is an error, never an empty account.
LoadAnswers(u) ==
    {[user |-> u, data |-> row[u].data, version |-> row[u].version, error |-> FALSE],
     [user |-> u, data |-> {}, version |-> 0, error |-> TRUE]}

\* The password form: the server signs the user in and reads the account.
Login(t, u) ==
    /\ tab[t].user = NoUser /\ loading[t] = NoLoad
    /\ \E a \in LoadAnswers(u) : loading' = [loading EXCEPT ![t] = [state |-> "login", answer |-> a]]
    /\ UNCHANGED <<rows, cookie, tab, saving, req, items>>

\* A page (re)load: the tab forgets everything, its requests lose their
\* listener, and GET /api/auth/me reads the account the cookie names.
PageLoad(t) ==
    /\ tab' = [tab EXCEPT ![t] = SignedOut]
    /\ saving' = [saving EXCEPT ![t] = FALSE]
    /\ req' = [w \in Workers |-> IF req[w] # IdleReq /\ req[w].tab = t
                                 THEN [req[w] EXCEPT !.tab = NoTab] ELSE req[w]]
    /\ \E a \in IF cookie = NoUser THEN {SignedOut} ELSE LoadAnswers(cookie) :
          loading' = [loading EXCEPT ![t] = [state |-> "me", answer |-> a]]
    /\ UNCHANGED <<rows, cookie, items>>

\* applyAccount of a login or page-load answer.
LoadReply(t) ==
    /\ loading[t] # NoLoad
    /\ tab' = [tab EXCEPT ![t] = loading[t].answer]
    /\ cookie' = IF loading[t].state = "login" THEN loading[t].answer.user ELSE cookie
    /\ loading' = [loading EXCEPT ![t] = NoLoad]
    /\ UNCHANGED <<rows, saving, req, items>>

\* The request for it fails: nothing is applied.
LoadLost(t) ==
    /\ loading[t] # NoLoad
    /\ loading' = [loading EXCEPT ![t] = NoLoad]
    /\ UNCHANGED <<rows, cookie, tab, saving, req, items>>

\* logout(): the cookie is cleared and applyAccount({user: null}) follows.  A
\* save of this tab that is still under way is left under way.
Logout(t) ==
    /\ tab[t].user # NoUser
    /\ cookie' = NoUser
    /\ tab' = [tab EXCEPT ![t] = SignedOut]
    /\ UNCHANGED <<rows, saving, loading, req, items>>

\* The three refusals at the head of saveAccount.
Blocked(t) == tab[t].user = NoUser \/ tab[t].error \/ saving[t]

\* saveAccount: PUT the tab's copy, changed, with the tab's version and whatever
\* cookie the browser holds by now.
Save(t, w, data) ==
    /\ ~Blocked(t)
    /\ req[w] = IdleReq
    /\ tab[t].version < MaxVersion
    /\ req' = [req EXCEPT ![w] = [phase |-> "sent", tab |-> t, user |-> cookie,
                                  data |-> data, version |-> tab[t].version]]
    /\ saving' = [saving EXCEPT ![t] = TRUE]
    /\ UNCHANGED <<rows, cookie, tab, loading, acked>>

Add(t, w) ==
    /\ Len(madeBy) < MaxItems
    /\ madeBy' = Append(madeBy, tab[t].user)
    /\ Save(t, w, tab[t].data \cup {Len(madeBy')})
    /\ UNCHANGED dropped

RemoveItem(t, w) ==
    \E i \in tab[t].data :
        /\ dropped' = dropped \cup {i}
        /\ Save(t, w, tab[t].data \ {i})
        /\ UNCHANGED madeBy

Phase(w, p) == req' = [req EXCEPT ![w].phase = p]

\* Mutant of ReadRow: the version to write over is the row's, not the tab's.
ReadRowTrustsRow(w) ==
    LET r == req[w] IN
    /\ r.phase = "sent"
    /\ \/ /\ r.user # NoUser
          /\ req' = [req EXCEPT ![w].phase = "read", ![w].version = row[r.user].version]
       \/ Phase(w, "failed")
    /\ UNCHANGED <<rows, cookie, tab, saving, loading, items>>

\* account_store.save up to the comparison.  "failed" is any refusal: not signed
\* in, a stale version (409), or a storage error (503).
ReadRow(w) ==
    LET r == req[w] IN
    /\ r.phase = "sent"
    /\ \/ r.user # NoUser /\ r.version = row[r.user].version /\ Phase(w, "read")
       \/ Phase(w, "failed")
    /\ UNCHANGED <<rows, cookie, tab, saving, loading, items>>

\* Mutant of Applies: the UPDATE matches the row by its id only.
AppliesAnyway(r) == r.version >= 0

\* Whether INSERT (no row yet) or UPDATE ... payload->>version finds its row.
Applies(r) == row[r.user].version = r.version

\* The write.  A provider error may hide a write that did happen.
WriteRow(w) ==
    LET r == req[w]
        u == r.user
    IN  /\ r.phase = "read"
        /\ \/ /\ Applies(r)
              /\ row' = [row EXCEPT ![u] = [version |-> r.version + 1, data |-> r.data]]
              /\ log' = [log EXCEPT ![u] = Append(@, r.data)]
              /\ Phase(w, "saved") \/ Phase(w, "failed")
           \/ Phase(w, "failed") /\ UNCHANGED rows
        /\ UNCHANGED <<cookie, tab, saving, loading, items>>

\* Mutant of SavedReply: the old version is kept.
SavedReplyKeepsVersion(w) ==
    LET r == req[w]
        t == r.tab
    IN  /\ r.phase = "saved"
        /\ req' = [req EXCEPT ![w] = IdleReq]
        /\ \/ /\ t # NoTab
              /\ tab' = [tab EXCEPT ![t] = [user |-> r.user, data |-> r.data,
                                            version |-> r.version, error |-> FALSE]]
              /\ saving' = [saving EXCEPT ![t] = FALSE]
              /\ acked' = acked \cup r.data
           \/ t = NoTab /\ UNCHANGED <<tab, saving, acked>>
        /\ UNCHANGED <<rows, cookie, loading, madeBy, dropped>>

\* The answer of a save that was stored: user, data and version are applied to
\* the tab that sent it, whatever it shows by now.
SavedReply(w) ==
    LET r == req[w]
        t == r.tab
    IN  /\ r.phase = "saved"
        /\ req' = [req EXCEPT ![w] = IdleReq]
        /\ \/ /\ t # NoTab
              /\ tab' = [tab EXCEPT ![t] = [user |-> r.user, data |-> r.data,
                                            version |-> r.version + 1, error |-> FALSE]]
              /\ saving' = [saving EXCEPT ![t] = FALSE]
              /\ acked' = acked \cup r.data
           \/ t = NoTab /\ UNCHANGED <<tab, saving, acked>>
        /\ UNCHANGED <<rows, cookie, loading, madeBy, dropped>>

FailedReply(w) ==
    LET t == req[w].tab IN
    /\ req[w].phase = "failed"
    /\ req' = [req EXCEPT ![w] = IdleReq]
    /\ saving' = IF t = NoTab THEN saving ELSE [saving EXCEPT ![t] = FALSE]
    /\ UNCHANGED <<rows, cookie, tab, loading, items>>

\* AbortSignal.timeout, or the connection breaks: the tab is told of a failure
\* while the server goes on with the request.
GiveUp(w) ==
    LET t == req[w].tab IN
    /\ req[w] # IdleReq /\ t # NoTab
    /\ req' = [req EXCEPT ![w].tab = NoTab]
    /\ saving' = [saving EXCEPT ![t] = FALSE]
    /\ UNCHANGED <<rows, cookie, tab, loading, items>>

Serve(w) == ReadRow(w) \/ WriteRow(w) \/ SavedReply(w) \/ FailedReply(w)

Next ==
    \/ \E t \in Tabs :
          \/ \E u \in Users : Login(t, u)
          \/ PageLoad(t) \/ LoadReply(t) \/ LoadLost(t) \/ Logout(t)
          \/ \E w \in Workers : Add(t, w) \/ RemoveItem(t, w)
    \/ \E w \in Workers : Serve(w) \/ GiveUp(w)

Spec == Init /\ [][Next]_vars
-----------------------------------------------------------------------------
Item == 1..MaxItems
Version == 0..MaxVersion
TabStates == [user : Users \cup {NoUser}, data : SUBSET Item, version : Version, error : BOOLEAN]
LoadStates == [state : {"login", "me"}, answer : TabStates]
ReqStates == [phase : {"sent", "read", "saved", "failed"}, tab : Tabs \cup {NoTab},
              user : Users \cup {NoUser}, data : SUBSET Item, version : Version]

TypeOK ==
    /\ row \in [Users -> [version : Version, data : SUBSET Item]]
    /\ cookie \in Users \cup {NoUser}
    /\ tab \in [Tabs -> TabStates]
    /\ saving \in [Tabs -> BOOLEAN]
    /\ loading \in [Tabs -> {NoLoad} \cup LoadStates]
    /\ req \in [Workers -> {IdleReq} \cup ReqStates]
    /\ madeBy \in Seq(Users) /\ Len(madeBy) <= MaxItems
    /\ acked \subseteq Item /\ dropped \subseteq Item
    /\ \A u \in Users : Len(log[u]) = row[u].version

\* An item a tab was told is saved stays in the row of the account it was made
\* in until somebody removes it: no concurrent tab, late answer, lost answer or
\* failed read may overwrite it.
AckedItemsSurvive ==
    \A i \in acked \ dropped : i \in row[madeBy[i]].data

\* "A failed load ... rather than silently presenting an empty account": what a
\* tab shows as loaded is a state its account really was in, version and data
\* together, however late the answer it came from was applied.
TabShowsAStoredState ==
    \A t \in Tabs :
        LET s == tab[t] IN
        s.user # NoUser /\ ~s.error =>
            /\ s.version <= Len(log[s.user])
            /\ s.data = IF s.version = 0 THEN {} ELSE log[s.user][s.version]

\* "Your schedule and saved plans belong to this account": a row holds only
\* items that were made while the tab showed that row's account.
RowsHoldTheirOwn ==
    \A u \in Users : \A i \in row[u].data : madeBy[i] = u

\* The requests and the rows are compare-and-swap registers: what the register
\* sees of a request.
OpOf(r) ==
    LET is(p, v) == [phase |-> p, user |-> r.user, data |-> r.data, version |-> v]
    IN  CASE r.phase = "idle" -> IdleReq
          [] r.phase \in {"sent", "read"} -> is("pending", r.version)
          [] r.phase = "saved" -> is("saved", r.version + 1)
          [] r.phase = "failed" -> [phase |-> "failed"]

opOf == [w \in Workers |-> OpOf(req[w])]

Register == INSTANCE CasRegister WITH op <- opOf

ImplementsRegister == Register!RegisterSpec
=============================================================================
