----------------------------- MODULE MCAccounts -----------------------------
(***************************************************************************)
(* What the servers keep of their students, on a small instance: the saved *)
(* accounts of the hosted server, those of the local one with its          *)
(* sessions and its throttle, and the sign-in with Google.  The four share *)
(* no state, so a behaviour is one of them.                                *)
(***************************************************************************)
EXTENDS AccountStore, GoogleSignIn, LocalAccounts, RateLimit, TLC

VARIABLE part

AccountsInit == part \in {"store", "google", "local", "throttle"}
                /\ Init /\ GoogleInit /\ LocalInit /\ ThrottleInit

AccountsNext ==
    \/ part = "store"  /\ Next       /\ UNCHANGED <<part, googleVars, localVars, throttleVars>>
    \/ part = "google" /\ GoogleNext /\ UNCHANGED <<part, vars, localVars, throttleVars>>
    \/ part = "local"  /\ LocalNext  /\ UNCHANGED <<part, vars, googleVars, throttleVars>>
    \/ part = "throttle" /\ ThrottleNext /\ UNCHANGED <<part, vars, googleVars, localVars>>

AccountsSpec == AccountsInit /\ [][AccountsNext]_<<part, vars, googleVars, localVars, throttleVars>>

\* Tabs and windows are the same two values, each in a part of its own: they are
\* alike, and so are the request threads and the clients of the throttle.
Symmetry == Permutations(Tabs) \cup Permutations(Workers) \cup Permutations(Clients)
=============================================================================
