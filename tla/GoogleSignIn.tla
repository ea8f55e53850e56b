----------------------------- MODULE GoogleSignIn -----------------------------
(***************************************************************************)
(* Sign-in with Google (auth.py, server.py): a browser leaves from one of  *)
(* the hosts the site answers on, carrying a state whose cookie belongs to *)
(* that host, and comes back to the callback address that was built for    *)
(* it.  Supabase (external) hands out a code bound to the state's PKCE     *)
(* challenge; the state is known by the number of the flow that made it.   *)
(***************************************************************************)
EXTENDS Integers, Sequences

CONSTANTS Hosts,        \* the hosts the browser can reach the site by
          AppHost,      \* the host of APP_URL, or of the development address
          AuthHosts,    \* allowed_auth_hosts(): it and its www twin, or {} without APP_URL
          MaxFlows,     \* bound: sign-ins started
          NoState

ASSUME GoogleAssumption == AuthHosts \subseteq Hosts /\ AppHost \in Hosts /\ NoState \notin Nat

VARIABLES stateCookie,  \* stateCookie[h]: the flow whose state the browser holds for h
          flow,         \* the flows started, in order
          undisturbed   \* flows whose state was in the cookie ever since (history)

googleVars == <<stateCookie, flow, undisturbed>>

GoogleInit ==
    /\ stateCookie = [h \in Hosts |-> NoState]
    /\ flow = <<>>
    /\ undisturbed = {}

\* Mutant: the browser always comes back to APP_URL.
RedirectToApp(h) == AppHost

\* redirect_uri_for: the host the browser is on, if it may run the sign-in.
RedirectHost(h) == IF h \in AuthHosts THEN h ELSE AppHost

\* GET hands on the host the browser is on.  POST hands on none, and its
\* callback is APP_URL whatever the host (the state it may bring is a new one).
CallbackHost(h, route) == IF route = "GET" THEN RedirectHost(h) ELSE AppHost

StartFlow(h, route) ==
    /\ Len(flow) < MaxFlows
    /\ flow' = Append(flow, [from |-> h, route |-> route, to |-> CallbackHost(h, route),
                             code |-> TRUE, result |-> "away"])
    /\ stateCookie' = [stateCookie EXCEPT ![h] = Len(flow')]
    /\ undisturbed' = (undisturbed \ {stateCookie[h]}) \cup {Len(flow')}

\* What the callback answers to flow f, which brings a code or an error.  The
\* code is exchanged with the verifier of the state in the cookie.
CallbackResult(f) ==
    LET held == stateCookie[flow[f].to]
    IN  IF ~flow[f].code THEN "refused"
        ELSE IF held = NoState THEN "no state"
        ELSE IF held # f THEN "wrong verifier"
        ELSE "signed in"

\* Either way the state cookie of that host is cleared.
Callback(f) ==
    /\ flow[f].result = "away"
    /\ flow' = [flow EXCEPT ![f].result = CallbackResult(f)]
    /\ stateCookie' = [stateCookie EXCEPT ![flow[f].to] = NoState]
    /\ undisturbed' = undisturbed \ ({stateCookie[flow[f].to]} \ {f})

\* The student declines, or Supabase refuses.
Declined(f) ==
    /\ flow[f].result = "away" /\ flow[f].code
    /\ flow' = [flow EXCEPT ![f].code = FALSE]
    /\ UNCHANGED <<stateCookie, undisturbed>>

\* The cookie lives ten minutes.
StateExpires(h) ==
    /\ stateCookie[h] # NoState
    /\ stateCookie' = [stateCookie EXCEPT ![h] = NoState]
    /\ undisturbed' = undisturbed \ {stateCookie[h]}
    /\ UNCHANGED flow

GoogleNext ==
    \/ \E h \in Hosts : StartFlow(h, "GET") \/ StartFlow(h, "POST") \/ StateExpires(h)
    \/ \E f \in DOMAIN flow : Callback(f) \/ Declined(f)

GoogleSpec == GoogleInit /\ [][GoogleNext]_googleVars
-----------------------------------------------------------------------------
\* The flows whose callback is on the host that has their state.
ComesHome(f) == flow[f].from = AppHost \/ (flow[f].route = "GET" /\ flow[f].from \in AuthHosts)

(* A flow that comes back with a code gets its student in if it left from    *)
(* APP_URL's host, or by GET from another host allowed to run the sign-in    *)
(* (auth.py:430-444, server.py:1543-1553), unless another sign-in was started*)
(* or finished on that host or ten minutes passed.  By POST from such a host *)
(* (server.py:1767-1772) it never does, although redirect_uri_for says that  *)
(* matching the request host keeps cookie and callback together.  And nobody *)
(* gets in with the state of another flow.                                   *)
SignInComesBack ==
    \A f \in DOMAIN flow :
        /\ flow[f].result \notin {"away", "refused"} /\ f \in undisturbed
              => (flow[f].result = "signed in" <=> ComesHome(f))
        /\ flow[f].result = "signed in" => f \in undisturbed
=============================================================================
