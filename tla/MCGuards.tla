------------------------------ MODULE MCGuards ------------------------------
(***************************************************************************)
(* What stands between the program and the outside services, on a small    *)
(* instance: the slots and captures of the live course search, the two     *)
(* budgets of the Gemini key, and the Supabase tokens of the sessions.     *)
(* The three share no state, so a behaviour is one of them.                *)
(***************************************************************************)
EXTENDS ClassSearch, GeminiBudget, HostedSession, TLC

VARIABLE part

GuardsInit ==
    /\ part \in {"search", "budget", "hosted"} /\ Init /\ BudgetInit /\ HostedInit
    /\ \E q \in Queries : query = [t \in Threads |-> q]   \* an idle thread has none yet: any will do
    /\ part # "search" => mode = "live"
    /\ reusable   \* a Supabase that does not take a token twice does nothing that one that does may not

GuardsNext ==
    \/ part = "search" /\ Next       /\ UNCHANGED <<part, budgetVars, hostedVars>>
    \/ part = "budget" /\ BudgetNext /\ UNCHANGED <<part, vars, hostedVars>>
    \/ part = "hosted" /\ HostedNext /\ UNCHANGED <<part, vars, budgetVars>>

GuardsSpec == GuardsInit /\ [][GuardsNext]_<<part, vars, budgetVars, hostedVars>>

\* The threads that search are alike, those that ask a question too, and so are
\* queries, which are also the calls of the sessions, and the students; each
\* kind is in a part of its own.
Symmetry == Permutations(Threads) \cup Permutations(Askers) \cup Permutations(Queries)
            \cup Permutations(Students)
=============================================================================
