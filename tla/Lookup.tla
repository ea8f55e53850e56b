------------------------------- MODULE Lookup -------------------------------
(***************************************************************************)
(* One call of a read-only tool: a question, with the data on file the     *)
(* tool will read, and its answer.  Dining, Schedule, Transit, Weather,    *)
(* Events, Classes, IcsCalendar, Gis and AskServer each add their          *)
(* questions, the operators that answer them, one action per operation     *)
(* and what the answers promise.                                           *)
(***************************************************************************)
EXTENDS Naturals, FiniteSets

CONSTANT NoAnswer
VARIABLES ask, answer

lookupVars == <<ask, answer>>

Reply(kind, value) ==
    /\ ask.of = kind /\ answer = NoAnswer
    /\ answer' = value
    /\ UNCHANGED ask

\* The members of S sorted: R is a strict order in which any two of them compare.
InOrder(S, R) ==
    [i \in 1..Cardinality(S) |-> CHOOSE x \in S : Cardinality({y \in S : <<y, x>> \in R}) = i - 1]

\* `answer` is the reply to a question of this kind.
Told(kind) == ask.of = kind /\ answer # NoAnswer
=============================================================================
