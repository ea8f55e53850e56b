------------------------- MODULE AccountStore_proofs -------------------------
(***************************************************************************)
(* Theorems of AccountStore, for any users, tabs, request threads and      *)
(* bounds: types, what a tab shows, and the register the hosted table      *)
(* implements.                                                             *)
(***************************************************************************)
EXTENDS AccountStore, TLAPS

StateIn(l, v) == IF v = 0 THEN {} ELSE l[v]

\* An answer of account_store.load, or what a tab made of one.
StoredIn(s, l) ==
    s.user # NoUser /\ ~s.error => s.version <= Len(l[s.user]) /\ s.data = StateIn(l[s.user], s.version)

LogIsTheRow ==
    /\ log \in [Users -> Seq(SUBSET Item)]
    /\ \A u \in Users : Len(log[u]) = row[u].version /\ row[u].data = StateIn(log[u], row[u].version)

TabsAreStored ==
    \A t \in Tabs : StoredIn(tab[t], log) /\ (loading[t] # NoLoad => StoredIn(loading[t].answer, log))

\* A request that has been told of a write carries what was written.
SavesAreStored ==
    \A w \in Workers :
        /\ req[w].phase \in {"read", "saved"} => req[w].user \in Users
        /\ req[w].phase \in {"sent", "read"} => req[w].version < MaxVersion
        /\ req[w].phase = "saved" =>
              req[w].version + 1 <= Len(log[req[w].user]) /\ log[req[w].user][req[w].version + 1] = req[w].data

AccountInv == TypeOK /\ LogIsTheRow /\ TabsAreStored /\ SavesAreStored
-----------------------------------------------------------------------------
LEMMA AnswersTyped == ASSUME TypeOK, NEW u \in Users PROVE LoadAnswers(u) \subseteq TabStates
  BY AccountAssumption DEF TypeOK, LoadAnswers, TabStates, Version

LEMMA AnswersStored == ASSUME AccountInv, NEW u \in Users, NEW a \in LoadAnswers(u) PROVE StoredIn(a, log)
  BY DEF AccountInv, TypeOK, LogIsTheRow, LoadAnswers, StoredIn

LEMMA LoadingTyped ==
    ASSUME TypeOK, NEW t \in Tabs, NEW s \in {"login", "me"}, NEW a \in TabStates,
           loading' = [loading EXCEPT ![t] = [state |-> s, answer |-> a]]
    PROVE  loading' \in [Tabs -> {NoLoad} \cup LoadStates]
<1>1. [state |-> s, answer |-> a] \in LoadStates
  BY DEF LoadStates
<1> QED
  BY <1>1 DEF TypeOK

\* A request at work, and one that goes on to its next phase.
LEMMA AtWork ==
    ASSUME TypeOK, NEW w \in Workers, req[w] # IdleReq \/ req[w].phase # "idle"
    PROVE  req[w] \in ReqStates
  BY DEF TypeOK, IdleReq

LEMMA PhaseStep ==
    ASSUME TypeOK, NEW w \in Workers, req[w] \in ReqStates,
           NEW p \in {"sent", "read", "saved", "failed"}, Phase(w, p)
    PROVE  /\ req' \in [Workers -> {IdleReq} \cup ReqStates]
           /\ \A x \in Workers : x # w => req'[x] = req[x]
           /\ req'[w] = [req[w] EXCEPT !.phase = p]
<1>1. [req[w] EXCEPT !.phase = p] \in ReqStates
  BY DEF ReqStates
<1>2. req' = [req EXCEPT ![w] = [req[w] EXCEPT !.phase = p]]
  BY DEF Phase
<1> QED
  BY <1>1, <1>2 DEF TypeOK

LEMMA StoredGrows ==
    ASSUME LogIsTheRow, NEW u \in Users, NEW d \in SUBSET Item, log' = [log EXCEPT ![u] = Append(@, d)],
           NEW s \in TabStates, StoredIn(s, log)
    PROVE  StoredIn(s, log')
<1> SUFFICES ASSUME s.user # NoUser, ~s.error PROVE s.version <= Len(log'[s.user]) /\ s.data = StateIn(log'[s.user], s.version)
  BY DEF StoredIn
<1>1. s.user \in Users /\ s.version \in Nat
  BY AccountAssumption DEF TabStates, Version
<1>2. s.version <= Len(log[s.user]) /\ s.data = StateIn(log[s.user], s.version) /\ log[s.user] \in Seq(SUBSET Item)
  BY <1>1 DEF StoredIn, LogIsTheRow
<1>3. CASE s.user # u
  BY <1>1, <1>2, <1>3 DEF LogIsTheRow
<1>4. CASE s.user = u
  BY <1>1, <1>2, <1>4 DEF LogIsTheRow, StateIn
<1> QED
  BY <1>3, <1>4
-----------------------------------------------------------------------------
LEMMA PageLoadInv == ASSUME AccountInv, NEW t \in Tabs, PageLoad(t) PROVE AccountInv'
<1>1. SignedOut \in TabStates /\ StoredIn(SignedOut, log)
  BY AccountAssumption DEF SignedOut, TabStates, Version, StoredIn
<1>2. PICK a : /\ a \in IF cookie = NoUser THEN {SignedOut} ELSE LoadAnswers(cookie)
               /\ loading' = [loading EXCEPT ![t] = [state |-> "me", answer |-> a]]
  BY DEF PageLoad
<1>3. a \in TabStates /\ StoredIn(a, log)
  BY <1>1, <1>2, AnswersTyped, AnswersStored DEF AccountInv, TypeOK
<1>4. loading' \in [Tabs -> {NoLoad} \cup LoadStates]
  BY <1>2, <1>3, LoadingTyped DEF AccountInv
<1>5. ASSUME NEW w \in Workers
      PROVE  /\ req'[w] \in {IdleReq} \cup ReqStates
             /\ req'[w].phase = req[w].phase
             /\ req[w] # IdleReq => /\ req'[w].user = req[w].user
                                    /\ req'[w].data = req[w].data
                                    /\ req'[w].version = req[w].version
             /\ req[w] = IdleReq => req'[w] = IdleReq
  <2>1. req'[w] = IF req[w] # IdleReq /\ req[w].tab = t THEN [req[w] EXCEPT !.tab = NoTab] ELSE req[w]
    BY DEF PageLoad
  <2>2. req[w] # IdleReq => req[w] \in ReqStates
    BY AtWork DEF AccountInv
  <2>3. req[w] \in ReqStates => [req[w] EXCEPT !.tab = NoTab] \in ReqStates
    BY DEF ReqStates
  <2> QED
    BY <2>1, <2>2, <2>3 DEF ReqStates, AccountInv, TypeOK
<1>6. req' \in [Workers -> {IdleReq} \cup ReqStates]
  BY <1>5 DEF PageLoad
<1>7. TypeOK' /\ LogIsTheRow'
  BY <1>1, <1>4, <1>6 DEF PageLoad, rows, items, AccountInv, TypeOK, LogIsTheRow
<1>8. TabsAreStored'
  BY <1>1, <1>2, <1>3 DEF PageLoad, rows, AccountInv, TypeOK, TabsAreStored
<1>9. SavesAreStored'
  BY <1>5 DEF PageLoad, rows, AccountInv, SavesAreStored, IdleReq
<1> QED
  BY <1>7, <1>8, <1>9 DEF AccountInv

LEMMA ReadRowInv == ASSUME AccountInv, NEW w \in Workers, ReadRow(w) PROVE AccountInv'
<1>1. req[w] \in ReqStates /\ req[w].phase = "sent"
  BY AtWork DEF AccountInv, ReadRow
<1>2. /\ req' \in [Workers -> {IdleReq} \cup ReqStates]
      /\ \A x \in Workers : x # w => req'[x] = req[x]
      /\ \/ req[w].user # NoUser /\ req'[w] = [req[w] EXCEPT !.phase = "read"]
         \/ req'[w] = [req[w] EXCEPT !.phase = "failed"]
  BY <1>1, PhaseStep DEF AccountInv, ReadRow
<1>3. TypeOK' /\ LogIsTheRow' /\ TabsAreStored'
  BY <1>2 DEF ReadRow, rows, items, AccountInv, TypeOK, LogIsTheRow, TabsAreStored
<1>4. SavesAreStored'
  BY <1>1, <1>2 DEF ReadRow, rows, AccountInv, SavesAreStored, ReqStates
<1> QED
  BY <1>3, <1>4 DEF AccountInv

LEMMA WriteRowInv == ASSUME AccountInv, NEW w \in Workers, WriteRow(w) PROVE AccountInv'
<1> DEFINE u == req[w].user
           v == req[w].version
           d == req[w].data
<1>1. req[w] \in ReqStates /\ req[w].phase = "read" /\ UNCHANGED <<cookie, tab, saving, loading, items>>
  BY AtWork DEF AccountInv, WriteRow
<1>2. u \in Users /\ v \in Nat /\ v < MaxVersion /\ d \in SUBSET Item
  BY <1>1, AccountAssumption DEF AccountInv, SavesAreStored, ReqStates, Version
<1>3. CASE /\ Applies(req[w])
           /\ row' = [row EXCEPT ![u] = [version |-> v + 1, data |-> d]]
           /\ log' = [log EXCEPT ![u] = Append(@, d)]
           /\ Phase(w, "saved") \/ Phase(w, "failed")
  <2>1. /\ req' \in [Workers -> {IdleReq} \cup ReqStates]
        /\ \A x \in Workers : x # w => req'[x] = req[x]
        /\ req'[w] = [req[w] EXCEPT !.phase = "saved"] \/ req'[w] = [req[w] EXCEPT !.phase = "failed"]
    BY <1>1, <1>3, PhaseStep DEF AccountInv
  <2>2. log[u] \in Seq(SUBSET Item) /\ Len(log[u]) = v
    BY <1>2, <1>3 DEF AccountInv, LogIsTheRow, Applies
  <2>3. /\ log' \in [Users -> Seq(SUBSET Item)]
        /\ \A x \in Users : x # u => log'[x] = log[x]
        /\ log'[u] = Append(log[u], d)
    BY <1>2, <1>3, <2>2 DEF AccountInv, LogIsTheRow
  <2>4. /\ Len(log'[u]) = v + 1 /\ log'[u][v + 1] = d
        /\ \A i \in 1..v : log'[u][i] = log[u][i]
    BY <1>2, <2>2, <2>3
  <2>5. /\ row' \in [Users -> [version : Version, data : SUBSET Item]]
        /\ \A x \in Users : x # u => row'[x] = row[x]
        /\ row'[u].version = v + 1 /\ row'[u].data = d
    <3>1. [version |-> v + 1, data |-> d] \in [version : Version, data : SUBSET Item]
      BY <1>2, AccountAssumption DEF Version
    <3> QED
      BY <1>2, <1>3, <3>1 DEF AccountInv, TypeOK
  <2>6. LogIsTheRow'
    <3>1. Len(log'[u]) = row'[u].version /\ row'[u].data = StateIn(log'[u], row'[u].version)
      BY <1>2, <2>4, <2>5 DEF StateIn
    <3>2. ASSUME NEW x \in Users, x # u
          PROVE  Len(log'[x]) = row'[x].version /\ row'[x].data = StateIn(log'[x], row'[x].version)
      BY <2>3, <2>5, <3>2 DEF AccountInv, LogIsTheRow
    <3> QED
      BY <2>3, <3>1, <3>2 DEF LogIsTheRow
  <2>7. TypeOK'
    BY <1>1, <2>1, <2>5, <2>6 DEF AccountInv, TypeOK, items, LogIsTheRow
  <2>8. TabsAreStored'
    <3> SUFFICES ASSUME NEW t \in Tabs
                 PROVE  StoredIn(tab[t], log') /\ (loading[t] # NoLoad => StoredIn(loading[t].answer, log'))
      BY <1>1 DEF TabsAreStored
    <3>1. tab[t] \in TabStates /\ (loading[t] # NoLoad => loading[t].answer \in TabStates)
      BY DEF AccountInv, TypeOK, LoadStates
    <3> QED
      BY <1>2, <1>3, <3>1, StoredGrows DEF AccountInv, TabsAreStored
  <2>9. SavesAreStored'
    <3> SUFFICES ASSUME NEW x \in Workers
                 PROVE  /\ req'[x].phase \in {"read", "saved"} => req'[x].user \in Users
                        /\ req'[x].phase \in {"sent", "read"} => req'[x].version < MaxVersion
                        /\ req'[x].phase = "saved" =>
                              /\ req'[x].version + 1 <= Len(log'[req'[x].user])
                              /\ log'[req'[x].user][req'[x].version + 1] = req'[x].data
      BY DEF SavesAreStored
    <3>1. CASE x = w
      BY <1>1, <1>2, <2>1, <2>4, <3>1 DEF ReqStates
    <3>2. CASE x # w
      <4>1. req'[x] = req[x]
        BY <2>1, <3>2
      <4>2. req[x].phase = "saved" => req[x].user \in Users /\ req[x].version \in Nat
        BY AtWork, AccountAssumption DEF AccountInv, SavesAreStored, ReqStates, Version
      <4>3. req[x].phase = "saved" =>
              /\ req[x].version + 1 <= Len(log'[req[x].user])
              /\ log'[req[x].user][req[x].version + 1] = req[x].data
        <5> SUFFICES ASSUME req[x].phase = "saved"
                     PROVE  /\ req[x].version + 1 <= Len(log'[req[x].user])
                            /\ log'[req[x].user][req[x].version + 1] = req[x].data
          OBVIOUS
        <5>1. /\ req[x].version + 1 <= Len(log[req[x].user])
              /\ log[req[x].user][req[x].version + 1] = req[x].data
          BY DEF AccountInv, SavesAreStored
        <5>2. CASE req[x].user = u
          <6>1. req[x].version + 1 \in 1..v
            BY <1>2, <2>2, <4>2, <5>1, <5>2
          <6>2. log'[u][req[x].version + 1] = log[u][req[x].version + 1]
            BY <2>4, <6>1
          <6>3. req[x].version + 1 <= Len(log'[u])
            BY <1>2, <2>4, <6>1
          <6> QED
            BY <5>1, <5>2, <6>2, <6>3
        <5>3. CASE req[x].user # u
          BY <2>3, <4>2, <5>1, <5>3
        <5> QED
          BY <5>2, <5>3
      <4> QED
        BY <4>1, <4>3 DEF AccountInv, SavesAreStored
    <3> QED
      BY <3>1, <3>2
  <2> QED
    BY <2>6, <2>7, <2>8, <2>9 DEF AccountInv
<1>4. CASE Phase(w, "failed") /\ UNCHANGED rows
  <2>1. /\ req' \in [Workers -> {IdleReq} \cup ReqStates]
        /\ \A x \in Workers : x # w => req'[x] = req[x]
        /\ req'[w] = [req[w] EXCEPT !.phase = "failed"]
    BY <1>1, <1>4, PhaseStep DEF AccountInv
  <2>2. TypeOK' /\ LogIsTheRow' /\ TabsAreStored'
    BY <1>1, <1>4, <2>1 DEF rows, items, AccountInv, TypeOK, LogIsTheRow, TabsAreStored
  <2>3. SavesAreStored'
    BY <1>1, <1>4, <2>1 DEF rows, AccountInv, SavesAreStored, ReqStates
  <2> QED
    BY <2>2, <2>3 DEF AccountInv
<1> QED
  BY <1>3, <1>4 DEF WriteRow

LEMMA SavedReplyInv == ASSUME AccountInv, NEW w \in Workers, SavedReply(w) PROVE AccountInv'
<1> DEFINE r == req[w]
           shown == [user |-> r.user, data |-> r.data, version |-> r.version + 1, error |-> FALSE]
<1>1. r \in ReqStates /\ r.phase = "saved" /\ req' = [req EXCEPT ![w] = IdleReq]
  BY AtWork DEF AccountInv, SavedReply
<1>2. shown \in TabStates /\ StoredIn(shown, log)
  <2>1. r.user \in Users /\ r.version \in Nat /\ r.data \in SUBSET Item
    BY <1>1, AccountAssumption DEF AccountInv, SavesAreStored, ReqStates, Version
  <2>2. r.version + 1 <= Len(log[r.user]) /\ log[r.user][r.version + 1] = r.data
    BY <1>1 DEF AccountInv, SavesAreStored
  <2>3. Len(log[r.user]) <= MaxVersion
    BY <2>1, AccountAssumption DEF AccountInv, TypeOK, Version
  <2>4. r.version + 1 \in Version
    BY <2>1, <2>2, <2>3, AccountAssumption DEF Version, AccountInv, LogIsTheRow
  <2> QED
    BY <2>1, <2>2, <2>4 DEF TabStates, StoredIn, StateIn
<1>3. req' \in [Workers -> {IdleReq} \cup ReqStates]
  BY <1>1 DEF AccountInv, TypeOK
<1>4. CASE r.tab = NoTab
  BY <1>1, <1>3, <1>4 DEF SavedReply, rows, AccountInv, TypeOK, LogIsTheRow, TabsAreStored, SavesAreStored, IdleReq
<1>5. CASE r.tab # NoTab
  <2>1. r.tab \in Tabs /\ tab' = [tab EXCEPT ![r.tab] = shown]
    BY <1>1, <1>5 DEF SavedReply, ReqStates
  <2>2. tab' \in [Tabs -> TabStates]
    BY <1>2, <2>1 DEF AccountInv, TypeOK
  <2>3. acked' \subseteq Item /\ saving' \in [Tabs -> BOOLEAN]
    BY <1>1, <1>5 DEF SavedReply, ReqStates, AccountInv, TypeOK
  <2>4. TypeOK' /\ LogIsTheRow'
    BY <1>3, <2>2, <2>3 DEF SavedReply, rows, AccountInv, TypeOK, LogIsTheRow
  <2>5. TabsAreStored'
    BY <1>2, <2>1 DEF SavedReply, rows, AccountInv, TypeOK, TabsAreStored
  <2>6. SavesAreStored'
    BY <1>1 DEF SavedReply, rows, AccountInv, TypeOK, SavesAreStored, IdleReq
  <2> QED
    BY <2>4, <2>5, <2>6 DEF AccountInv
<1> QED
  BY <1>4, <1>5

LEMMA GiveUpInv == ASSUME AccountInv, NEW w \in Workers, GiveUp(w) PROVE AccountInv'
<1>1. req[w] \in ReqStates /\ req[w].tab \in Tabs
  BY AtWork DEF AccountInv, GiveUp, ReqStates
<1>2. [req[w] EXCEPT !.tab = NoTab] \in ReqStates
  BY <1>1 DEF ReqStates
<1>3. req' = [req EXCEPT ![w] = [req[w] EXCEPT !.tab = NoTab]]
  BY DEF GiveUp
<1>4. TypeOK' /\ LogIsTheRow' /\ TabsAreStored'
  BY <1>1, <1>2, <1>3 DEF GiveUp, rows, items, AccountInv, TypeOK, LogIsTheRow, TabsAreStored
<1>5. SavesAreStored'
  BY <1>1, <1>3 DEF GiveUp, rows, AccountInv, TypeOK, SavesAreStored, ReqStates
<1> QED
  BY <1>4, <1>5 DEF AccountInv
-----------------------------------------------------------------------------
LEMMA InvInit == Init => AccountInv
<1> SUFFICES ASSUME Init PROVE AccountInv
  OBVIOUS
<1> USE AccountAssumption DEF Init
<1>1. TypeOK
  BY DEF TypeOK, NoRow, SignedOut, NoLoad, IdleReq, TabStates, LoadStates, ReqStates, Item, Version
<1>2. LogIsTheRow
  BY DEF LogIsTheRow, StateIn, NoRow
<1>3. TabsAreStored /\ SavesAreStored
  BY DEF TabsAreStored, StoredIn, SignedOut, NoLoad, SavesAreStored, IdleReq
<1> QED
  BY <1>1, <1>2, <1>3 DEF AccountInv

LEMMA InvStep == AccountInv /\ [Next]_vars => AccountInv'
<1> SUFFICES ASSUME AccountInv, [Next]_vars PROVE AccountInv'
  OBVIOUS
<1> USE AccountAssumption DEF AccountInv, TypeOK, LogIsTheRow, TabsAreStored, SavesAreStored,
     StoredIn, StateIn, NoRow, SignedOut, NoLoad, IdleReq, TabStates, LoadStates, ReqStates, Item, Version, rows, items
<1>1. ASSUME NEW t \in Tabs, NEW u \in Users, Login(t, u) PROVE AccountInv'
  <2>1. TypeOK'
    <3>1. loading' \in [Tabs -> {NoLoad} \cup LoadStates]
      BY ONLY <1>1, AccountInv, AnswersTyped, LoadingTyped DEF Login, AccountInv
    <3> QED
      BY <1>1, <3>1 DEF Login
  <2>2. LogIsTheRow'
    BY <1>1 DEF Login, LoadAnswers
  <2>3. TabsAreStored'
    BY <1>1 DEF Login, LoadAnswers
  <2>4. SavesAreStored'
    BY <1>1 DEF Login, LoadAnswers
  <2> QED
    BY <2>1, <2>2, <2>3, <2>4 DEF AccountInv
<1>2. ASSUME NEW t \in Tabs, PageLoad(t) PROVE AccountInv'
  BY <1>2, PageLoadInv
<1>3. ASSUME NEW t \in Tabs, LoadReply(t) PROVE AccountInv'
  <2>1. TypeOK'
    BY <1>3 DEF LoadReply
  <2>2. LogIsTheRow'
    BY <1>3 DEF LoadReply
  <2>3. TabsAreStored'
    BY <1>3 DEF LoadReply
  <2>4. SavesAreStored'
    BY <1>3 DEF LoadReply
  <2> QED
    BY <2>1, <2>2, <2>3, <2>4 DEF AccountInv
<1>4. ASSUME NEW t \in Tabs, LoadLost(t) PROVE AccountInv'
  <2>1. TypeOK'
    BY <1>4 DEF LoadLost
  <2>2. LogIsTheRow'
    BY <1>4 DEF LoadLost
  <2>3. TabsAreStored'
    BY <1>4 DEF LoadLost
  <2>4. SavesAreStored'
    BY <1>4 DEF LoadLost
  <2> QED
    BY <2>1, <2>2, <2>3, <2>4 DEF AccountInv
<1>5. ASSUME NEW t \in Tabs, Logout(t) PROVE AccountInv'
  <2>1. TypeOK'
    BY <1>5 DEF Logout
  <2>2. LogIsTheRow'
    BY <1>5 DEF Logout
  <2>3. TabsAreStored'
    BY <1>5 DEF Logout
  <2>4. SavesAreStored'
    BY <1>5 DEF Logout
  <2> QED
    BY <2>1, <2>2, <2>3, <2>4 DEF AccountInv
<1>6. ASSUME NEW t \in Tabs, NEW w \in Workers, Add(t, w) PROVE AccountInv'
  <2>1. TypeOK'
    BY <1>6 DEF Add, Save, Blocked
  <2>2. LogIsTheRow'
    BY <1>6 DEF Add, Save, Blocked
  <2>3. TabsAreStored'
    BY <1>6 DEF Add, Save, Blocked
  <2>4. SavesAreStored'
    BY <1>6 DEF Add, Save, Blocked
  <2> QED
    BY <2>1, <2>2, <2>3, <2>4 DEF AccountInv
<1>7. ASSUME NEW t \in Tabs, NEW w \in Workers, RemoveItem(t, w) PROVE AccountInv'
  <2>1. TypeOK'
    BY <1>7 DEF RemoveItem, Save, Blocked
  <2>2. LogIsTheRow'
    BY <1>7 DEF RemoveItem, Save, Blocked
  <2>3. TabsAreStored'
    BY <1>7 DEF RemoveItem, Save, Blocked
  <2>4. SavesAreStored'
    BY <1>7 DEF RemoveItem, Save, Blocked
  <2> QED
    BY <2>1, <2>2, <2>3, <2>4 DEF AccountInv
<1>8. ASSUME NEW w \in Workers, ReadRow(w) PROVE AccountInv'
  BY <1>8, ReadRowInv
<1>9. ASSUME NEW w \in Workers, WriteRow(w) PROVE AccountInv'
  BY <1>9, WriteRowInv
<1>10. ASSUME NEW w \in Workers, SavedReply(w) PROVE AccountInv'
  BY <1>10, SavedReplyInv
<1>11. ASSUME NEW w \in Workers, FailedReply(w) PROVE AccountInv'
  <2>1. TypeOK'
    BY <1>11 DEF FailedReply
  <2>2. LogIsTheRow'
    BY <1>11 DEF FailedReply
  <2>3. TabsAreStored'
    BY <1>11 DEF FailedReply
  <2>4. SavesAreStored'
    BY <1>11 DEF FailedReply
  <2> QED
    BY <2>1, <2>2, <2>3, <2>4 DEF AccountInv
<1>12. ASSUME NEW w \in Workers, GiveUp(w) PROVE AccountInv'
  BY <1>12, GiveUpInv
<1>13. CASE UNCHANGED vars
  BY <1>13 DEF vars
<1> QED
  BY <1>1, <1>2, <1>3, <1>4, <1>5, <1>6, <1>7, <1>8, <1>9, <1>10, <1>11, <1>12, <1>13 DEF Next, Serve

\* What a tab, a row and a request hold, for every number of each.
THEOREM AccountInvariant == Spec => []AccountInv
  BY InvInit, InvStep, PTL DEF Spec
-----------------------------------------------------------------------------
\* What a tab shows as loaded is a state its account was in, version and data
\* together, however late the answer it came from was applied.
THEOREM TabsShowStoredStates == Spec => []TabShowsAStoredState
<1>1. AccountInv => TabShowsAStoredState
  BY DEF AccountInv, TypeOK, TabStates, TabsAreStored, StoredIn, StateIn, TabShowsAStoredState
<1> QED
  BY <1>1, AccountInvariant, PTL

LEMMA RegisterStep == AccountInv /\ [Next]_vars => [Register!RegisterNext]_<<log, opOf>>
<1> SUFFICES ASSUME AccountInv, [Next]_vars PROVE [Register!RegisterNext]_<<log, opOf>>
  OBVIOUS
<1> DEFINE Same == UNCHANGED <<log, opOf>>
<1>0. opOf = [w \in Workers |-> OpOf(req[w])] /\ opOf' = [w \in Workers |-> OpOf(req'[w])]
  BY DEF opOf
<1>1. UNCHANGED <<log, req>> => Same
  BY DEF opOf
<1>2. ASSUME NEW t \in Tabs, PageLoad(t) PROVE Same
  <2>1. ASSUME NEW w \in Workers PROVE OpOf(req'[w]) = OpOf(req[w])
    <3>1. req'[w] = IF req[w] # IdleReq /\ req[w].tab = t THEN [req[w] EXCEPT !.tab = NoTab] ELSE req[w]
      BY <1>2 DEF PageLoad
    <3>2. req[w] # IdleReq => req[w] \in ReqStates
      BY AtWork DEF AccountInv
    <3> QED
      BY <3>1, <3>2 DEF OpOf, ReqStates, IdleReq
  <2> QED
    BY <1>0, <1>2, <2>1 DEF PageLoad, rows
<1>3. ASSUME NEW t \in Tabs, NEW w \in Workers, NEW data \in SUBSET Item, Save(t, w, data) PROVE Register!Submit(w)
  <2>1. /\ req[w] = IdleReq /\ UNCHANGED log
        /\ req' = [req EXCEPT ![w] = [phase |-> "sent", tab |-> t, user |-> cookie,
                                      data |-> data, version |-> tab[t].version]]
    BY <1>3 DEF Save, rows
  <2>2. opOf[w] = Register!Idle
    BY <1>0, <2>1 DEF OpOf, IdleReq, Register!Idle
  <2>3. OpOf(req'[w]) = [phase |-> "pending", user |-> cookie, data |-> data, version |-> tab[t].version]
    BY <2>1 DEF OpOf, AccountInv, TypeOK
  <2>4. opOf' = [opOf EXCEPT ![w] = OpOf(req'[w])]
    BY <1>0, <2>1 DEF AccountInv, TypeOK
  <2> QED
    BY <1>0, <2>1, <2>2, <2>3, <2>4 DEF Register!Submit, Register!Pending
<1>4. ASSUME NEW w \in Workers, req[w] \in ReqStates, req[w].phase \in {"sent", "read"}, Phase(w, "failed"), UNCHANGED log
      PROVE  Register!Refuse(w)
  <2>1. OpOf(req[w]).phase = "pending" /\ opOf[w] = OpOf(req[w])
    BY <1>0, <1>4 DEF OpOf
  <2>2. OpOf(req'[w]) = Register!Failed /\ \A x \in Workers : x # w => req'[x] = req[x]
    <3>1. req'[w] = [req[w] EXCEPT !.phase = "failed"] /\ \A x \in Workers : x # w => req'[x] = req[x]
      BY <1>4, PhaseStep DEF AccountInv
    <3>2. req'[w].phase = "failed"
      BY <1>4, <3>1 DEF ReqStates
    <3> QED
      BY <3>1, <3>2 DEF OpOf, Register!Failed
  <2>3. opOf' = [opOf EXCEPT ![w] = Register!Failed]
    BY <1>0, <2>2
  <2> QED
    BY <1>4, <2>1, <2>3 DEF Register!Refuse
<1>5. ASSUME NEW w \in Workers, ReadRow(w) PROVE Same \/ Register!Refuse(w)
  <2>1. req[w] \in ReqStates /\ req[w].phase = "sent" /\ UNCHANGED log
    BY <1>5, AtWork DEF AccountInv, ReadRow, rows
  <2>2. CASE Phase(w, "read")
    <3>1. req'[w] = [req[w] EXCEPT !.phase = "read"] /\ \A x \in Workers : x # w => req'[x] = req[x]
      BY <2>1, <2>2, PhaseStep DEF AccountInv
    <3>2. OpOf(req'[w]) = OpOf(req[w])
      BY <2>1, <3>1 DEF OpOf, ReqStates
    <3> QED
      BY <1>0, <2>1, <3>1, <3>2
  <2>3. CASE Phase(w, "failed")
    BY <1>4, <2>1, <2>3
  <2> QED
    BY <1>5, <2>2, <2>3 DEF ReadRow
<1>6. ASSUME NEW w \in Workers, WriteRow(w) PROVE Register!Commit(w) \/ Register!Refuse(w)
  <2> DEFINE u == req[w].user
             v == req[w].version
             d == req[w].data
  <2>1. req[w] \in ReqStates /\ req[w].phase = "read"
    BY <1>6, AtWork DEF AccountInv, WriteRow
  <2>2. u \in Users
    BY <2>1 DEF AccountInv, SavesAreStored
  <2>3. CASE /\ Applies(req[w])
             /\ log' = [log EXCEPT ![u] = Append(@, d)]
             /\ Phase(w, "saved") \/ Phase(w, "failed")
    <3>1. /\ req'[w] = [req[w] EXCEPT !.phase = "saved"] \/ req'[w] = [req[w] EXCEPT !.phase = "failed"]
          /\ \A x \in Workers : x # w => req'[x] = req[x]
      BY <2>1, <2>3, PhaseStep DEF AccountInv
    <3>2. OpOf(req'[w]) \in {Register!Saved(u, d, v + 1), Register!Failed}
      BY <2>1, <3>1 DEF OpOf, ReqStates, Register!Saved, Register!Failed
    <3>3. opOf' = [opOf EXCEPT ![w] = OpOf(req'[w])]
      BY <1>0, <3>1
    <3>4. opOf[w] = [phase |-> "pending", user |-> u, data |-> d, version |-> v]
      BY <1>0, <2>1 DEF OpOf
    <3>5. v = Len(log[u])
      BY <2>2, <2>3 DEF AccountInv, LogIsTheRow, Applies
    <3>6. opOf' \in {[opOf EXCEPT ![w] = Register!Saved(u, d, v + 1)], [opOf EXCEPT ![w] = Register!Failed]}
      BY <3>2, <3>3
    <3> QED
      BY <2>2, <2>3, <3>4, <3>5, <3>6 DEF Register!Commit
  <2>4. CASE Phase(w, "failed") /\ UNCHANGED rows
    BY <1>4, <2>1, <2>4 DEF rows
  <2> QED
    BY <1>6, <2>3, <2>4 DEF WriteRow
<1>7. ASSUME NEW w \in Workers, SavedReply(w) \/ FailedReply(w) PROVE Register!Answer(w)
  <2>1. /\ req[w].phase \in {"saved", "failed"} /\ req' = [req EXCEPT ![w] = IdleReq] /\ UNCHANGED log
    BY <1>7 DEF SavedReply, FailedReply, rows
  <2>2. opOf' = [opOf EXCEPT ![w] = OpOf(IdleReq)]
    BY <1>0, <2>1 DEF AccountInv, TypeOK
  <2>3. OpOf(IdleReq) = Register!Idle /\ OpOf(req[w]).phase \in {"saved", "failed"}
    BY <2>1 DEF OpOf, IdleReq, Register!Idle
  <2> QED
    BY <1>0, <2>1, <2>2, <2>3 DEF Register!Answer
<1>8. ASSUME NEW w \in Workers, GiveUp(w) PROVE Same
  <2>1. req[w] \in ReqStates /\ req' = [req EXCEPT ![w] = [req[w] EXCEPT !.tab = NoTab]] /\ UNCHANGED log
    BY <1>8, AtWork DEF AccountInv, GiveUp, rows
  <2>2. OpOf(req'[w]) = OpOf(req[w])
    BY <2>1 DEF OpOf, ReqStates, AccountInv, TypeOK
  <2> QED
    BY <1>0, <2>1, <2>2 DEF AccountInv, TypeOK
<1>9. ASSUME NEW t \in Tabs, NEW w \in Workers, Add(t, w) \/ RemoveItem(t, w) PROVE Register!Submit(w)
  <2>1. Len(madeBy) \in Nat /\ tab[t].data \subseteq Item
    BY DEF AccountInv, TypeOK, TabStates
  <2>2. CASE Add(t, w)
    <3>1. madeBy \in Seq(Users) /\ madeBy' = Append(madeBy, tab[t].user) /\ Len(madeBy) < MaxItems
      BY <2>2 DEF Add, AccountInv, TypeOK
    <3>2. Len(madeBy') = Len(madeBy) + 1
      <4>1. tab[t].user \in Users
        BY <2>2 DEF Add, Save, Blocked, AccountInv, TypeOK, TabStates
      <4> QED
        BY <3>1, <4>1
    <3>3. Len(madeBy') \in Item
      BY <2>1, <3>1, <3>2, AccountAssumption DEF Item
    <3>4. tab[t].data \cup {Len(madeBy')} \in SUBSET Item
      BY <2>1, <3>3
    <3> QED
      BY <1>3, <2>2, <3>4 DEF Add
  <2>3. CASE RemoveItem(t, w)
    BY <1>3, <2>1, <2>3 DEF RemoveItem
  <2> QED
    BY <1>9, <2>2, <2>3
<1>10. ASSUME NEW t \in Tabs, \/ \E u \in Users : Login(t, u)
                             \/ LoadReply(t) \/ LoadLost(t) \/ Logout(t)
       PROVE  Same
  BY <1>1, <1>10 DEF Login, LoadReply, LoadLost, Logout, rows
<1>11. CASE UNCHANGED vars
  BY <1>1, <1>11 DEF vars
<1> QED
  BY <1>2, <1>5, <1>6, <1>7, <1>8, <1>9, <1>10, <1>11 DEF Next, Serve, Register!RegisterNext

\* The browser's saves, the two-step save of account_store.py and the hosted
\* table are one compare-and-swap register per user.
THEOREM StoreImplementsRegister == Spec => ImplementsRegister
<1>1. Init => Register!RegisterInit
  BY DEF Init, Register!RegisterInit, Register!Idle, opOf, OpOf, IdleReq
<1> QED
  BY <1>1, RegisterStep, AccountInvariant, PTL DEF Spec, ImplementsRegister, Register!RegisterSpec

-----------------------------------------------------------------------------
(* What was saved is not lost, provided no save is sent with the cookie of   *)
(* another account than the tab shows.  With one account that cannot happen; *)
(* with two it can, and then an acknowledged item may go (see the run        *)
(* account_shared): the hypothesis is exactly what the code does not ensure. *)
OwnCookie ==
    \A t \in Tabs : ~saving[t] /\ saving'[t] => cookie \in {tab[t].user, NoUser}

MadeFor(u) == {i \in DOMAIN madeBy : madeBy[i] = u}

\* What was stored for a user, the requests to store and what was acknowledged
\* are items of that user.
ItemsAreOwn ==
    /\ \A u \in Users : \A v \in 1..Len(log[u]) : log[u][v] \subseteq MadeFor(u)
    /\ \A w \in Workers :
          req[w].phase \in {"sent", "read"} /\ req[w].user # NoUser => req[w].data \subseteq MadeFor(req[w].user)
    /\ \A i \in acked : \E u \in Users : i \in MadeFor(u) /\ \E v \in 1..Len(log[u]) : i \in log[u][v]

\* An item that is stored stays in all later states until somebody removes it,
\* and a request keeps what was in the state it is based on.
NothingForgotten ==
    /\ \A u \in Users : \A b \in 0..Len(log[u]) : \A a \in 0..b :
          StateIn(log[u], a) \ dropped \subseteq StateIn(log[u], b)
    /\ \A w \in Workers :
          req[w].phase \in {"sent", "read"} /\ req[w].user # NoUser =>
              /\ req[w].version <= Len(log[req[w].user])
              /\ StateIn(log[req[w].user], req[w].version) \ dropped \subseteq req[w].data

ItemInv == ItemsAreOwn /\ NothingForgotten

LEMMA ItemInit == Init => ItemInv
  BY DEF Init, ItemInv, ItemsAreOwn, NothingForgotten, StateIn, IdleReq

\* What a tab shows as loaded and usable is a state its account was in.
LEMMA TabFacts ==
    ASSUME AccountInv, NEW t \in Tabs, ~Blocked(t)
    PROVE  /\ tab[t].user \in Users /\ tab[t].version \in Version
           /\ tab[t].version <= Len(log[tab[t].user])
           /\ tab[t].data = StateIn(log[tab[t].user], tab[t].version)
  BY DEF AccountInv, TypeOK, TabStates, TabsAreStored, StoredIn, Blocked

\* A save leaves the rows alone and adds one request, whose data is the state the
\* tab shows but for what is removed now.
LEMMA SaveItems ==
    ASSUME AccountInv, ItemInv, OwnCookie, NEW t \in Tabs, NEW w \in Workers,
           NEW data, Save(t, w, data),
           madeBy \in Seq(Users), madeBy' \in Seq(Users), dropped \subseteq dropped',
           \A i \in DOMAIN madeBy : i \in DOMAIN madeBy' /\ madeBy'[i] = madeBy[i],
           data \subseteq {i \in DOMAIN madeBy' : madeBy'[i] = tab[t].user},
           tab[t].data \ dropped' \subseteq data
    PROVE  ItemInv'
<1>1. /\ UNCHANGED <<log, acked, cookie, tab>> /\ req[w] = IdleReq
      /\ req' = [req EXCEPT ![w] = [phase |-> "sent", tab |-> t, user |-> cookie,
                                    data |-> data, version |-> tab[t].version]]
      /\ saving' = [saving EXCEPT ![t] = TRUE] /\ ~saving[t] /\ ~Blocked(t)
  BY DEF Save, rows, Blocked
<1>2. cookie = tab[t].user \/ cookie = NoUser
  BY <1>1 DEF OwnCookie, AccountInv, TypeOK
<1>3. \A u \in Users : MadeFor(u) \subseteq MadeFor(u)'
  BY DEF MadeFor
<1>4. /\ tab[t].version <= Len(log[tab[t].user])
      /\ StateIn(log[tab[t].user], tab[t].version) \ dropped' \subseteq data
  BY <1>1, TabFacts
<1>5. \A x \in Workers : x # w => req'[x] = req[x]
  BY <1>1
<1>6. /\ req'[w].phase = "sent" /\ req'[w].user = cookie /\ req'[w].data = data
      /\ req'[w].version = tab[t].version
  BY <1>1 DEF AccountInv, TypeOK
<1>7. \A x \in Workers : req[x].phase \in {"sent", "read"} => req[x].user \in Users \cup {NoUser}
  BY AtWork DEF AccountInv, ReqStates
<1>8. ItemsAreOwn'
  <2>1. \A u \in Users : \A v \in 1..Len(log'[u]) : log'[u][v] \subseteq MadeFor(u)'
    BY <1>1, <1>3 DEF ItemInv, ItemsAreOwn
  <2>2. ASSUME NEW x \in Workers, req'[x].phase \in {"sent", "read"}, req'[x].user # NoUser
        PROVE  req'[x].data \subseteq {i \in DOMAIN madeBy' : madeBy'[i] = req'[x].user}
    <3>1. CASE x = w
      BY <1>2, <1>6, <2>2, <3>1
    <3>2. CASE x # w
      <4>1. req'[x] = req[x] /\ req[x].user \in Users
        BY <1>5, <1>7, <2>2, <3>2
      <4>2. req[x].data \subseteq MadeFor(req[x].user)
        BY <2>2, <4>1 DEF ItemInv, ItemsAreOwn
      <4> QED
        BY <4>1, <4>2 DEF MadeFor
    <3> QED
      BY <3>1, <3>2
  <2>3. \A i \in acked' : \E u \in Users : i \in MadeFor(u)' /\ \E v \in 1..Len(log'[u]) : i \in log'[u][v]
    BY <1>1, <1>3 DEF ItemInv, ItemsAreOwn
  <2> QED
    BY <2>1, <2>2, <2>3 DEF ItemsAreOwn, MadeFor
<1>9. NothingForgotten'
  <2>1. \A u \in Users : \A b \in 0..Len(log'[u]) : \A a \in 0..b :
            StateIn(log'[u], a) \ dropped' \subseteq StateIn(log'[u], b)
    BY <1>1 DEF ItemInv, NothingForgotten
  <2>2. ASSUME NEW x \in Workers, req'[x].phase \in {"sent", "read"}, req'[x].user # NoUser
        PROVE  /\ req'[x].version <= Len(log'[req'[x].user])
               /\ StateIn(log'[req'[x].user], req'[x].version) \ dropped' \subseteq req'[x].data
    <3>1. CASE x = w
      BY <1>1, <1>2, <1>4, <1>6, <2>2, <3>1
    <3>2. CASE x # w
      BY <1>1, <1>5, <2>2, <3>2 DEF ItemInv, NothingForgotten
    <3> QED
      BY <3>1, <3>2
  <2> QED
    BY <2>1, <2>2 DEF NothingForgotten
<1> QED
  BY <1>8, <1>9 DEF ItemInv

LEMMA AddItems ==
    ASSUME AccountInv, ItemInv, OwnCookie, NEW t \in Tabs, NEW w \in Workers, Add(t, w)
    PROVE  ItemInv'
<1>1. /\ ~Blocked(t) /\ madeBy \in Seq(Users) /\ madeBy' = Append(madeBy, tab[t].user)
      /\ UNCHANGED dropped /\ Save(t, w, tab[t].data \cup {Len(madeBy')})
  BY DEF Add, Save, AccountInv, TypeOK
<1>2. tab[t].user \in Users /\ tab[t].data = StateIn(log[tab[t].user], tab[t].version)
      /\ tab[t].version \in Nat /\ tab[t].version <= Len(log[tab[t].user])
  BY <1>1, TabFacts, AccountAssumption DEF Version
<1>3. /\ madeBy' \in Seq(Users) /\ Len(madeBy') = Len(madeBy) + 1 /\ Len(madeBy) \in Nat
      /\ \A i \in DOMAIN madeBy : i \in DOMAIN madeBy' /\ madeBy'[i] = madeBy[i]
      /\ Len(madeBy') \in DOMAIN madeBy' /\ madeBy'[Len(madeBy')] = tab[t].user
  BY <1>1, <1>2
<1>4. tab[t].data \subseteq MadeFor(tab[t].user)
  <2>1. CASE tab[t].version = 0
    BY <1>2, <2>1 DEF StateIn
  <2>2. CASE tab[t].version # 0
    <3>1. tab[t].version \in 1..Len(log[tab[t].user])
      BY <1>2, <2>2 DEF AccountInv, LogIsTheRow
    <3> QED
      BY <1>2, <2>2, <3>1 DEF ItemInv, ItemsAreOwn, StateIn
  <2> QED
    BY <2>1, <2>2
<1>5. tab[t].data \cup {Len(madeBy')} \subseteq {i \in DOMAIN madeBy' : madeBy'[i] = tab[t].user}
  BY <1>3, <1>4 DEF MadeFor
<1> QED
  BY <1>1, <1>3, <1>5, SaveItems

LEMMA RemoveItems ==
    ASSUME AccountInv, ItemInv, OwnCookie, NEW t \in Tabs, NEW w \in Workers, RemoveItem(t, w)
    PROVE  ItemInv'
<1>1. PICK i \in tab[t].data :
          /\ dropped' = dropped \cup {i}
          /\ Save(t, w, tab[t].data \ {i})
          /\ UNCHANGED madeBy
  BY DEF RemoveItem
<1>2. /\ ~Blocked(t) /\ madeBy \in Seq(Users)
      /\ tab[t].user \in Users /\ tab[t].data = StateIn(log[tab[t].user], tab[t].version)
      /\ tab[t].version \in Nat /\ tab[t].version <= Len(log[tab[t].user])
  BY <1>1, TabFacts, AccountAssumption DEF Save, Version, AccountInv, TypeOK
<1>3. tab[t].data \subseteq MadeFor(tab[t].user)
  <2>1. CASE tab[t].version = 0
    BY <1>2, <2>1 DEF StateIn
  <2>2. CASE tab[t].version # 0
    <3>1. tab[t].version \in 1..Len(log[tab[t].user])
      BY <1>2, <2>2 DEF AccountInv, LogIsTheRow
    <3> QED
      BY <1>2, <2>2, <3>1 DEF ItemInv, ItemsAreOwn, StateIn
  <2> QED
    BY <2>1, <2>2
<1>4. /\ tab[t].data \ {i} \subseteq {j \in DOMAIN madeBy' : madeBy'[j] = tab[t].user}
      /\ tab[t].data \ dropped' \subseteq tab[t].data \ {i}
  BY <1>1, <1>3 DEF MadeFor
<1> QED
  BY <1>1, <1>2, <1>4, SaveItems

\* Steps that store nothing and start no request: what is pending was pending.
LEMMA QuietItems ==
    ASSUME ItemInv, UNCHANGED <<log, madeBy, dropped>>,
           \A i \in acked' \ acked : \E u \in Users : i \in MadeFor(u) /\ \E v \in 1..Len(log[u]) : i \in log[u][v],
           \A x \in Workers : req'[x].phase \in {"sent", "read"} =>
               /\ req[x].phase \in {"sent", "read"}
               /\ req'[x].user = req[x].user /\ req'[x].data = req[x].data /\ req'[x].version = req[x].version
    PROVE  ItemInv'
<1>1. \A u : MadeFor(u)' = MadeFor(u)
  BY DEF MadeFor
<1>2. ItemsAreOwn'
  <2>1. \A i \in acked' : \E u \in Users : i \in MadeFor(u) /\ \E v \in 1..Len(log[u]) : i \in log[u][v]
    BY DEF ItemInv, ItemsAreOwn
  <2>2. ASSUME NEW x \in Workers, req'[x].phase \in {"sent", "read"}, req'[x].user # NoUser
        PROVE  req'[x].data \subseteq MadeFor(req'[x].user)
    BY <2>2 DEF ItemInv, ItemsAreOwn
  <2> QED
    BY <1>1, <2>1, <2>2 DEF ItemInv, ItemsAreOwn, MadeFor
<1>3. NothingForgotten'
  BY DEF ItemInv, NothingForgotten
<1> QED
  BY <1>2, <1>3 DEF ItemInv

\* The write of a request appends a state that keeps all the earlier ones held.
LEMMA WriteItems ==
    ASSUME AccountInv, ItemInv, NEW w \in Workers, WriteRow(w)
    PROVE  ItemInv'
<1> DEFINE u == req[w].user
           d == req[w].data
           n == Len(log[u])
<1>1. /\ req[w] \in ReqStates /\ req[w].phase = "read" /\ u \in Users
      /\ log[u] \in Seq(SUBSET Item) /\ d \in SUBSET Item /\ NoUser # u
      /\ UNCHANGED <<madeBy, acked, dropped>>
  BY AtWork, AccountAssumption DEF WriteRow, items, AccountInv, LogIsTheRow, SavesAreStored, ReqStates
<1>2. req'[w].phase \in {"saved", "failed"} /\ \A x \in Workers : x # w => req'[x] = req[x]
  <2>1. Phase(w, "saved") \/ Phase(w, "failed")
    BY DEF WriteRow
  <2>2. \A p : [req[w] EXCEPT !.phase = p].phase = p
    BY <1>1 DEF ReqStates
  <2> QED
    BY <1>1, <2>1, <2>2, PhaseStep DEF AccountInv
<1>3. CASE UNCHANGED log
  BY <1>1, <1>2, <1>3, QuietItems
<1>4. CASE Applies(req[w]) /\ log' = [log EXCEPT ![u] = Append(@, d)]
  <2>1. /\ n \in Nat /\ req[w].version = n
        /\ \A x \in Users : x # u => log'[x] = log[x]
        /\ log'[u] = Append(log[u], d)
    BY <1>1, <1>4 DEF Applies, AccountInv, LogIsTheRow
  <2>2. /\ Len(log'[u]) = n + 1 /\ log'[u][n + 1] = d
        /\ \A i \in 1..n : log'[u][i] = log[u][i]
    BY <1>1, <2>1
  <2>3. \A a \in 0..n : StateIn(log'[u], a) = StateIn(log[u], a)
    BY <2>1, <2>2 DEF StateIn
  <2>4. StateIn(log'[u], n + 1) = d
    BY <2>1, <2>2 DEF StateIn
  <2>5. d \subseteq MadeFor(u) /\ StateIn(log[u], n) \ dropped \subseteq d
    BY <1>1, <2>1 DEF ItemInv, ItemsAreOwn, NothingForgotten
  <2>6. \A o : MadeFor(o)' = MadeFor(o)
    BY <1>1 DEF MadeFor
  <2>7. \A x \in Users : Len(log[x]) \in Nat /\ Len(log'[x]) \in Nat /\ Len(log[x]) <= Len(log'[x])
    BY <2>1, <2>2 DEF AccountInv, LogIsTheRow
  <2>8. \A x \in Users : \A v \in 1..Len(log[x]) : log'[x][v] = log[x][v]
    BY <2>1, <2>2
  <2>9. ItemsAreOwn'
    <3>1. ASSUME NEW x \in Users, NEW v \in 1..Len(log'[x]) PROVE log'[x][v] \subseteq MadeFor(x)
      <4>1. CASE v \in 1..Len(log[x])
        BY <2>8, <4>1 DEF ItemInv, ItemsAreOwn
      <4>2. CASE v \notin 1..Len(log[x])
        <5>1. x = u
          BY <2>1, <4>2
        <5>2. v = n + 1
          BY <2>1, <2>2, <4>2, <5>1
        <5> QED
          BY <2>2, <2>5, <5>1, <5>2
      <4> QED
        BY <4>1, <4>2
    <3>2. ASSUME NEW x \in Workers, req'[x].phase \in {"sent", "read"}, req'[x].user # NoUser
          PROVE  req'[x].data \subseteq MadeFor(req'[x].user)
      BY <1>2, <3>2 DEF ItemInv, ItemsAreOwn
    <3>3. ASSUME NEW i \in acked PROVE \E x \in Users : i \in MadeFor(x) /\ \E v \in 1..Len(log'[x]) : i \in log'[x][v]
      <4>1. PICK x \in Users : i \in MadeFor(x) /\ \E v \in 1..Len(log[x]) : i \in log[x][v]
        BY DEF ItemInv, ItemsAreOwn
      <4>2. PICK v \in 1..Len(log[x]) : i \in log[x][v]
        BY <4>1
      <4>3. v \in 1..Len(log'[x]) /\ i \in log'[x][v]
        BY <2>7, <2>8, <4>2
      <4> QED
        BY <4>1, <4>3
    <3> QED
      BY <1>1, <2>6, <3>1, <3>2, <3>3 DEF ItemsAreOwn
  <2>10. NothingForgotten'
    <3>1. ASSUME NEW x \in Users, NEW b \in 0..Len(log'[x]), NEW a \in 0..b
          PROVE  StateIn(log'[x], a) \ dropped \subseteq StateIn(log'[x], b)
      <4>1. CASE x # u
        BY <2>1, <4>1 DEF ItemInv, NothingForgotten
      <4>2. CASE x = u /\ b <= n
        <5>1. b \in 0..n /\ a \in 0..n
          BY <2>1, <4>2
        <5> QED
          BY <1>1, <2>3, <4>2, <5>1 DEF ItemInv, NothingForgotten
      <4>3. CASE x = u /\ b = n + 1
        <5>1. CASE a = n + 1
          BY <4>3, <5>1
        <5>2. CASE a # n + 1
          <6>1. a \in 0..n /\ n \in 0..n
            BY <2>1, <4>3, <5>2
          <6>2. StateIn(log[u], a) \ dropped \subseteq StateIn(log[u], n)
            BY <1>1, <6>1 DEF ItemInv, NothingForgotten
          <6>3. StateIn(log'[u], a) = StateIn(log[u], a)
            BY <2>3, <6>1
          <6> QED
            BY <2>4, <2>5, <4>3, <6>2, <6>3
        <5> QED
          BY <5>1, <5>2
      <4>4. x = u => b <= n \/ b = n + 1
        BY <2>1, <2>2
      <4> QED
        BY <4>1, <4>2, <4>3, <4>4
    <3>2. ASSUME NEW x \in Workers, req'[x].phase \in {"sent", "read"}, req'[x].user # NoUser
          PROVE  /\ req'[x].version <= Len(log'[req'[x].user])
                 /\ StateIn(log'[req'[x].user], req'[x].version) \ dropped \subseteq req'[x].data
      <4>1. x # w /\ req'[x] = req[x]
        BY <1>2, <3>2
      <4>2. req[x].user \in Users /\ req[x].version \in Nat
        BY <3>2, <4>1, AtWork, AccountAssumption DEF AccountInv, ReqStates, Version
      <4>3. /\ req[x].version <= Len(log[req[x].user])
            /\ StateIn(log[req[x].user], req[x].version) \ dropped \subseteq req[x].data
        BY <3>2, <4>1 DEF ItemInv, NothingForgotten
      <4>4. StateIn(log'[req[x].user], req[x].version) = StateIn(log[req[x].user], req[x].version)
        <5>1. req[x].user = u => req[x].version \in 0..n
          BY <4>2, <4>3
        <5> QED
          BY <2>1, <2>3, <4>2, <5>1
      <4>5. req[x].version <= Len(log'[req[x].user])
        BY <2>7, <4>2, <4>3
      <4> QED
        BY <4>1, <4>3, <4>4, <4>5
    <3> QED
      BY <1>1, <3>1, <3>2 DEF NothingForgotten
  <2> QED
    BY <2>9, <2>10 DEF ItemInv
<1> QED
  BY <1>3, <1>4 DEF WriteRow, rows

LEMMA SavedReplyItems ==
    ASSUME AccountInv, ItemInv, NEW w \in Workers, SavedReply(w)
    PROVE  ItemInv'
<1> DEFINE r == req[w]
<1>1. /\ r \in ReqStates /\ r.phase = "saved" /\ req' = [req EXCEPT ![w] = IdleReq]
      /\ UNCHANGED <<log, madeBy, dropped>> /\ acked' \in {acked, acked \cup r.data}
  BY AtWork DEF AccountInv, SavedReply, rows
<1>2. \A x \in Workers : req'[x].phase \in {"sent", "read"} => req'[x] = req[x]
  BY <1>1 DEF AccountInv, TypeOK, IdleReq
<1>3. /\ r.user \in Users /\ r.version + 1 \in 1..Len(log[r.user])
      /\ log[r.user][r.version + 1] = r.data
  <2>1. r.user \in Users /\ r.version \in Nat /\ r.version + 1 <= Len(log[r.user]) /\ log[r.user][r.version + 1] = r.data
    BY <1>1, AccountAssumption DEF AccountInv, SavesAreStored, ReqStates, Version
  <2>2. Len(log[r.user]) \in Nat
    BY <2>1 DEF AccountInv, LogIsTheRow
  <2> QED
    BY <2>1, <2>2
<1>4. r.data \subseteq MadeFor(r.user)
  BY <1>3 DEF ItemInv, ItemsAreOwn
<1> QED
  BY <1>1, <1>2, <1>3, <1>4, QuietItems

LEMMA ItemStep == AccountInv /\ ItemInv /\ [Next]_vars /\ OwnCookie => ItemInv'
<1> SUFFICES ASSUME AccountInv, ItemInv, [Next]_vars, OwnCookie PROVE ItemInv'
  OBVIOUS
<1> DEFINE Kept ==
      /\ UNCHANGED <<log, madeBy, dropped, acked>>
      /\ \A x \in Workers : req'[x].phase \in {"sent", "read"} =>
             /\ req[x].phase \in {"sent", "read"}
             /\ req'[x].user = req[x].user /\ req'[x].data = req[x].data /\ req'[x].version = req[x].version
<1>0. Kept => ItemInv'
  BY QuietItems
<1> HIDE DEF Kept
<1>1. ASSUME NEW t \in Tabs, PageLoad(t) PROVE Kept
  <2>1. ASSUME NEW x \in Workers, req'[x].phase \in {"sent", "read"}
        PROVE  /\ req[x].phase \in {"sent", "read"}
               /\ req'[x].user = req[x].user /\ req'[x].data = req[x].data /\ req'[x].version = req[x].version
    <3>1. req'[x] = IF req[x] # IdleReq /\ req[x].tab = t THEN [req[x] EXCEPT !.tab = NoTab] ELSE req[x]
      BY <1>1 DEF PageLoad
    <3>2. req[x] # IdleReq => req[x] \in ReqStates
      BY AtWork DEF AccountInv
    <3> QED
      BY <2>1, <3>1, <3>2 DEF ReqStates
  <2> QED
    BY <1>1, <2>1 DEF PageLoad, rows, items, Kept
<1>2. ASSUME NEW w \in Workers, NEW p \in {"read", "failed"}, req[w].phase \in {"sent", "read"}, Phase(w, p),
             UNCHANGED <<log, items>>
      PROVE  Kept
  <2>1. req[w] \in ReqStates
    BY <1>2, AtWork DEF AccountInv
  <2>2. req'[w] = [req[w] EXCEPT !.phase = p] /\ \A x \in Workers : x # w => req'[x] = req[x]
    BY <1>2, <2>1, PhaseStep DEF AccountInv
  <2> QED
    BY <1>2, <2>1, <2>2 DEF Kept, items, ReqStates
<1>3. ASSUME NEW w \in Workers, ReadRow(w) PROVE Kept
  BY <1>2, <1>3 DEF ReadRow, rows
<1>4. ASSUME NEW w \in Workers, FailedReply(w) PROVE Kept
  BY <1>4 DEF FailedReply, rows, items, Kept, AccountInv, TypeOK, IdleReq
<1>5. ASSUME NEW w \in Workers, GiveUp(w) PROVE Kept
  <2>1. req[w] \in ReqStates /\ req' = [req EXCEPT ![w] = [req[w] EXCEPT !.tab = NoTab]] /\ UNCHANGED <<log, items>>
    BY <1>5, AtWork DEF AccountInv, GiveUp, rows
  <2> QED
    BY <2>1 DEF Kept, items, ReqStates, AccountInv, TypeOK
<1>6. ASSUME NEW t \in Tabs, \/ \E u \in Users : Login(t, u)
                             \/ LoadReply(t) \/ LoadLost(t) \/ Logout(t)
      PROVE  Kept
  BY <1>6 DEF Login, LoadReply, LoadLost, Logout, rows, items, Kept
<1>7. ASSUME UNCHANGED vars PROVE Kept
  BY <1>7 DEF vars, Kept
<1> QED
  BY <1>0, <1>1, <1>3, <1>4, <1>5, <1>6, <1>7, AddItems, RemoveItems, WriteItems, SavedReplyItems DEF Next, Serve

\* While it is in the log and not removed, an item is in the row, which is the
\* last of the log.
LEMMA ItemsSurvive == AccountInv /\ ItemInv => AckedItemsSurvive
<1> SUFFICES ASSUME AccountInv, ItemInv, NEW i \in acked \ dropped PROVE i \in row[madeBy[i]].data
  BY DEF AckedItemsSurvive
<1>1. PICK u \in Users : i \in MadeFor(u) /\ \E v \in 1..Len(log[u]) : i \in log[u][v]
  BY DEF ItemInv, ItemsAreOwn
<1>2. PICK v \in 1..Len(log[u]) : i \in log[u][v]
  BY <1>1
<1>3. Len(log[u]) \in Nat /\ row[u].data = StateIn(log[u], Len(log[u]))
  BY DEF AccountInv, LogIsTheRow
<1>4. v \in 0..Len(log[u]) /\ Len(log[u]) \in 0..Len(log[u]) /\ i \in StateIn(log[u], v)
  BY <1>2, <1>3 DEF StateIn
<1>5. i \in row[u].data
  BY <1>3, <1>4 DEF ItemInv, NothingForgotten
<1> QED
  BY <1>1, <1>5 DEF MadeFor

(* While every tab keeps its own account's cookie, no row, tab, late answer  *)
(* or save of one account holds an item of another, and an acknowledged item *)
(* is in its row (server.py do_PUT, account_store.py).                       *)
THEOREM ItemsInvariant == Spec /\ [][OwnCookie]_vars => []ItemInv
<1>1. UNCHANGED vars => OwnCookie
  BY DEF vars, OwnCookie
<1>2. AccountInv /\ ItemInv /\ [Next]_vars /\ [OwnCookie]_vars => ItemInv'
  BY <1>1, ItemStep
<1> QED
  BY <1>2, ItemInit, AccountInvariant, PTL DEF Spec

\* No concurrent tab, late answer, lost answer, failed read or time-out takes
\* an acknowledged item out of its account, as long as no save is sent with
\* another account's cookie.
THEOREM SavedItemsSurvive == Spec /\ [][OwnCookie]_vars => []AckedItemsSurvive
  BY ItemsInvariant, ItemsSurvive, AccountInvariant, PTL

\* A browser that only ever knew one account needs no such proviso.
LEMMA OneAccount ==
    ASSUME NEW u, Users = {u}
    PROVE  AccountInv /\ [Next]_vars => [OwnCookie]_vars
<1> SUFFICES ASSUME AccountInv, Next, NEW t \in Tabs, ~saving[t], saving'[t]
             PROVE  cookie \in {tab[t].user, NoUser}
  BY DEF OwnCookie
<1>1. tab[t].user = u \/ tab[t].user = NoUser
  BY DEF AccountInv, TypeOK, TabStates
<1>2. cookie \in {u, NoUser}
  BY DEF AccountInv, TypeOK
<1>3. tab[t].user # NoUser
  <2>1. \E x \in Tabs : \E w \in Workers : Add(x, w) \/ RemoveItem(x, w)
    BY AtWork DEF Next, Serve, Login, PageLoad, LoadReply, LoadLost, Logout, ReadRow, WriteRow, SavedReply, FailedReply, GiveUp,
       AccountInv, TypeOK, ReqStates
  <2>2. PICK x \in Tabs : /\ tab[x].user # NoUser
                          /\ saving' = [saving EXCEPT ![x] = TRUE]
    BY <2>1 DEF Add, RemoveItem, Save, Blocked
  <2> QED
    BY <2>2 DEF AccountInv, TypeOK
<1> QED
  BY <1>1, <1>2, <1>3

(* With one account in use every cookie is its own, so acknowledged items    *)
(* survive without the condition (account_store.py, app.js).                 *)
THEOREM OneAccountSurvives ==
    ASSUME NEW u, Users = {u}
    PROVE  Spec => []AckedItemsSurvive
<1>1. AccountInv /\ [Next]_vars => [OwnCookie]_vars
  BY OneAccount
<1> QED
  BY <1>1, SavedItemsSurvive, AccountInvariant, PTL DEF Spec
=============================================================================
