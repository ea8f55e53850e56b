------------------------------- MODULE MCAgent -------------------------------
(***************************************************************************)
(* AgentLoop on a small instance: six calls, one of them refused by its    *)
(* schema, two turns of tools, and the answers that try each gate.         *)
(***************************************************************************)
EXTENDS AgentLoop, TLC

CONSTANTS milk, vegan, noon, night

Pm3  == [hour |-> 3, mark |-> "pm"]
Any3 == [hour |-> 3, mark |-> "none"]
At15 == [hour |-> 15, mark |-> "none"]
N3   == [n |-> 3]
N37  == [n |-> 37]

MCCalls ==
    {[tool |-> "plan_day", args |-> [avoid |-> {milk}, end |-> night]],
     [tool |-> "plan_day", args |-> [avoid |-> {}]],
     [tool |-> "find_food", args |-> [avoid |-> {milk}, diet |-> vegan]],
     [tool |-> "get_campus_schedule", args |-> [day |-> noon]],
     [tool |-> "get_campus_schedule", args |-> [meal |-> noon]],
     [tool |-> "get_weather", args |-> [hours |-> N3]]}

MCResults == ("plan_day" :> {[rows |-> TRUE, state |-> "", facts |-> {Pm3, N37}]})
    @@ ("find_food" :> {[rows |-> r, state |-> "", facts |-> {}] : r \in BOOLEAN})
    @@ ("get_campus_schedule" :> {[rows |-> FALSE, state |-> "ok", facts |-> {At15}]})
    @@ ("get_weather" :> {[rows |-> FALSE, state |-> s, facts |-> {}] : s \in {"ok", "stale", "partial"}})

Text(facts) == [empty |-> FALSE, question |-> FALSE, facts |-> facts, admitsNothing |-> FALSE,
                claimsNow |-> TRUE, tells |-> {}]

MCAnswers == {Text(fs) : fs \in {{}, {Pm3}, {Any3}, {N3}, {N37}}}
    \cup {[Text({}) EXCEPT !.question = TRUE], [Text({}) EXCEPT !.empty = TRUE],
          [Text({}) EXCEPT !.admitsNothing = TRUE],
          [Text({Pm3}) EXCEPT !.tells = {"stale", "partial", "unavailable"}]}

MCPrivate == {N37}

MCContexts == {[planEnd |-> noon, schedule |-> FALSE], [planEnd |-> None, schedule |-> TRUE]}
=============================================================================
