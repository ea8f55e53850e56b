------------------------------ MODULE AgentLoop ------------------------------
(***************************************************************************)
(* One run of the assistant (hokieday/agent.py): the loop that lets the    *)
(* language model call the tools of hokieday/agent_tools.py, and the gate  *)
(* its answer passes before the student reads it.                          *)
(*                                                                         *)
(* A call is [tool, args], args a function on the argument names given; a  *)
(* value the schema refuses is Malformed.  What a tool returns is          *)
(* [rows, state, facts]: whether there is anything to tell, the state it   *)
(* declares, and the figures in it.  A figure is a clock time as written,  *)
(* [hour, mark], or a bare number, [n]: "3:00 PM" is a clock time, and the *)
(* 3 of "3 PM", which has no minutes, is a bare number.                    *)
(***************************************************************************)
EXTENDS Integers, FiniteSets, Sequences, SequencesExt

CONSTANTS MaxTurns, MaxToolCalls, MaxIdentical,  \* MAX_TURNS, MAX_TOOL_CALLS, MAX_IDENTICAL_CALLS
          Calls,         \* the calls the model may make
          MaxBatch,      \* bound: calls in one response of the model
          Answers,       \* the texts the model may answer with
          Contexts,      \* the requests: [planEnd, schedule]
          ToolResults,   \* what each tool may return
          Private,       \* figures under a key _provider_safe removes
          Malformed, None

ASSUME AgentAssumption ==
    /\ {MaxTurns, MaxToolCalls, MaxIdentical, MaxBatch} \subseteq Nat \ {0}
    /\ \A c \in Calls : None \notin DOMAIN c.args

\* Only the plan handler asks back, and only without a deadline (agent_tools.py:399-404).
ASSUME ClarificationAssumption ==
    \A tool \in DOMAIN ToolResults : \A d \in ToolResults[tool] : d.state # "clarification_needed"

VARIABLES context,     \* the AgentContext of the request
          pc,          \* "ask" (before generate), "dispatch", "done" or "failed"
          turn,        \* responses of the model so far
          messages,    \* what the model is sent: the tool exchanges after the question
          pending,     \* calls of the last response not run yet
          executions, repeats,
          answer,      \* what the model answered, at the end
          envelope     \* the reply, or the code of the AgentUnavailable raised

vars == <<context, pc, turn, messages, pending, executions, repeats, answer, envelope>>

\* The arguments of each tool; get_campus_schedule and search_classes require one.
Fields(tool) ==
    CASE tool = "get_campus_schedule" -> {"day", "meal", "minimum_minutes"}
      [] tool = "plan_day"            -> {"start", "end", "diet", "avoid"}
      [] tool = "get_events"          -> {"date", "tags"}
      [] tool = "get_weather"         -> {"hours"}
      [] tool = "get_live_bus"        -> {"route_id"}
      [] tool = "get_next_departures" -> {"stop", "route_id", "horizon_min"}
      [] tool = "find_food"           -> {"location", "diet", "avoid", "max_kcal", "open_only"}
      [] tool = "get_hours"           -> {"location"}
      [] tool = "search_classes"      -> {"query"}
      [] OTHER                        -> {}

Required(tool) ==
    CASE tool = "get_campus_schedule" -> {"day"}
      [] tool = "search_classes"      -> {"query"}
      [] OTHER                        -> {}

Valid(call) ==
    /\ Required(call.tool) \subseteq DOMAIN call.args
    /\ DOMAIN call.args \subseteq Fields(call.tool)
    /\ \A f \in DOMAIN call.args : call.args[f] # Malformed

Arg(call, f, default) == IF f \in DOMAIN call.args THEN call.args[f] ELSE default

\* A deadline the request fixed comes before the model's.
Deadline(call) == IF context.planEnd # None THEN context.planEnd ELSE Arg(call, "end", None)

Clarification == [rows |-> FALSE, state |-> "clarification_needed", facts |-> {}]
NotConnected  == [rows |-> FALSE, state |-> "unavailable", facts |-> {}]

HandlerResults(call) ==
    CASE call.tool = "plan_day" /\ Deadline(call) = None -> {Clarification}
      [] call.tool = "get_campus_schedule" /\ ~context.schedule -> {NotConnected}
      [] OTHER -> ToolResults[call.tool]

Refused(call, code) == [tool |-> call.tool, ok |-> FALSE, code |-> code, data |-> None]
Ran(call, d) == [tool |-> call.tool, ok |-> TRUE, code |-> None, data |-> d]

\* ToolRegistry.dispatch never raises: what goes wrong is an execution too.
Dispatch(call) ==
    IF call.tool \notin DOMAIN ToolResults THEN {Refused(call, "unknown_tool")}
    ELSE IF ~Valid(call) THEN {Refused(call, "invalid_arguments")}
    ELSE {Ran(call, d) : d \in HandlerResults(call)}
         \cup {Refused(call, "tool_unavailable"), Refused(call, "output_too_large")}
-----------------------------------------------------------------------------
(* What may be told from the executions.                                   *)
State(e) == IF e.ok THEN e.data.state ELSE "error"
Public(e) == IF e.ok THEN e.data.facts \ Private ELSE {}

HasContent(e) ==
    CASE e.tool = "get_weather"         -> State(e) # "unavailable"
      [] e.tool = "get_campus_schedule" -> State(e) = "ok"
      [] OTHER                          -> e.data.rows

Narratable(e) == e.ok /\ State(e) # "clarification_needed" /\ HasContent(e)

FirstWith(es, P(_)) == SelectInSeq(es, P)

PlanFirst(es, P(_)) ==
    LET IsPlan(e) == e.tool = "plan_day" /\ P(e)
    IN  IF FirstWith(es, IsPlan) # 0 THEN FirstWith(es, IsPlan) ELSE FirstWith(es, P)

\* Mutant: the first tool that told something, plan or not.
PrimaryAnyTool(es) == FirstWith(es, Narratable)

\* _primary_execution and _best_for_text, as positions in executions (0: none).
Primary(es) == PlanFirst(es, Narratable)

BestForText(es) ==
    LET Useful(e) == e.ok /\ HasContent(e)
        Ok(e) == e.ok
    IN  IF PlanFirst(es, Useful) # 0 THEN PlanFirst(es, Useful)
        ELSE IF FirstWith(es, Ok) # 0 THEN FirstWith(es, Ok)
        ELSE Len(es)

\* The hours a clock time may mean: both when it has no AM or PM.
Hours(f) ==
    IF f.mark = "pm" THEN {IF f.hour < 12 THEN f.hour + 12 ELSE f.hour}
    ELSE IF f.mark = "am" THEN {IF f.hour = 12 THEN 0 ELSE f.hour}
    ELSE {f.hour} \cup {h \in {f.hour + 12} : f.hour < 12}

IsClock(f) == "hour" \in DOMAIN f

\* Mutant: what a tool knows counts as told, its private figures too.
EvidenceRaw(es) == UNION {es[i].data.facts : i \in {j \in DOMAIN es : es[j].ok}}

Evidence(es) == UNION {Public(es[i]) : i \in DOMAIN es}

NumbersGrounded(text, es) ==
    LET told  == UNION {Hours(f) : f \in {g \in Evidence(es) : IsClock(g)}}
        plain == {g.n : g \in {h \in Evidence(es) : ~IsClock(h)}}
    IN  \A f \in text.facts :
            IF IsClock(f) THEN Hours(f) \subseteq told
            ELSE f.n \in plain \/ (f.n # 0 /\ f.n \in told)

\* Words for missing data are always due; for staleness only when the text
\* claims to speak of the present.
DegradationsDisclosed(text, es) ==
    \A i \in DOMAIN es :
        /\ State(es[i]) \in {"unavailable", "partial"} => State(es[i]) \in text.tells
        /\ State(es[i]) = "stale" /\ text.claimsNow => "stale" \in text.tells

Grounded(text, es) ==
    /\ ~text.empty
    /\ \/ Primary(es) # 0
       \/ es = <<>> /\ text.question /\ text.facts = {}
       \/ es # <<>> /\ text.admitsNothing
    /\ NumbersGrounded(text, es)
    /\ DegradationsDisclosed(text, es)

\* The reply's structured part: what is shown beside the text.
RawResult(es) ==
    LET Ok(e) == e.ok
    IN  IF Primary(es) # 0 THEN Primary(es) ELSE SelectLastInSeq(es, Ok)

Asks(e) == State(e) = "clarification_needed"

Sources(es) == {es[i].tool : i \in {j \in DOMAIN es : es[j].ok}}

\* "about" is the execution a text written by the code describes.
Envelope(text, es) ==
    [replaced |-> ~Grounded(text, es),
     about    |-> IF Grounded(text, es) THEN None ELSE BestForText(es),
     result   |-> RawResult(es),
     asks     |-> SelectLastInSeq(es, Asks),
     sources  |-> Sources(es)]
-----------------------------------------------------------------------------
Init ==
    /\ context \in Contexts
    /\ pc = "ask" /\ turn = 0
    /\ messages = <<>> /\ pending = <<>> /\ executions = <<>>
    /\ repeats = [c \in Calls |-> 0]
    /\ answer = None /\ envelope = None

Fail(code) ==
    /\ pc' = "failed" /\ envelope' = code
    /\ UNCHANGED <<context, messages, pending, executions, answer>>

\* ProviderUnavailable, TimeoutError or any other exception of generate().
ProviderFails ==
    /\ pc = "ask" /\ turn < MaxTurns
    /\ turn' = turn + 1 /\ UNCHANGED repeats
    /\ \E code \in {"provider_unavailable", "provider_timeout", "provider_error"} : Fail(code)

\* Mutant: the calls of the response are not counted.
TooManyAlready(calls) == Len(executions) > MaxToolCalls

TooMany(calls) == Len(executions) + Len(calls) > MaxToolCalls

\* The model may call tools on the last turn too, when none is offered.
ModelCalls(calls) ==
    /\ pc = "ask" /\ turn < MaxTurns
    /\ turn' = turn + 1 /\ UNCHANGED repeats
    /\ \/ /\ TooMany(calls)
          /\ Fail("tool_call_limit")
       \/ /\ ~TooMany(calls)
          /\ messages' = Append(messages, [role |-> "assistant", items |-> calls])
          /\ pending' = calls
          /\ pc' = "dispatch"
          /\ UNCHANGED <<context, executions, answer, envelope>>

\* The executions of the response being run.
Batch == Len(Last(messages).items)
ResultOf(i) == [call |-> Last(messages).items[i], saw |-> Public(executions[Len(executions) - Batch + i])]

\* Mutant: a call that was refused gets no result.
ResultsIfRan == [i \in 1..Cardinality({j \in 1..Batch : executions[Len(executions) - Batch + j].ok}) |-> ResultOf(i)]

Results == [i \in 1..Batch |-> ResultOf(i)]

RunCall ==
    /\ pc = "dispatch" /\ pending # <<>>
    /\ repeats' = [repeats EXCEPT ![Head(pending)] = @ + 1]
    /\ \/ /\ repeats'[Head(pending)] > MaxIdentical
          /\ Fail("repeated_tool_call")
       \/ /\ repeats'[Head(pending)] <= MaxIdentical
          /\ \E e \in Dispatch(Head(pending)) : executions' = Append(executions, e)
          /\ pending' = Tail(pending)
          /\ UNCHANGED <<context, pc, messages, answer, envelope>>
    /\ UNCHANGED turn

SendResults ==
    /\ pc = "dispatch" /\ pending = <<>>
    /\ messages' = Append(messages, [role |-> "tool", items |-> Results])
    /\ pc' = "ask"
    /\ UNCHANGED <<context, turn, pending, executions, repeats, answer, envelope>>

ModelAnswers(text) ==
    /\ pc = "ask" /\ turn < MaxTurns
    /\ turn' = turn + 1
    /\ pc' = "done"
    /\ answer' = text
    /\ envelope' = Envelope(text, executions)
    /\ UNCHANGED <<context, messages, pending, executions, repeats>>

\* Mutant: the limit is never met, and nothing follows the last turn.
OutOfTurnsLater ==
    /\ pc = "ask" /\ turn > MaxTurns
    /\ UNCHANGED <<turn, repeats>>
    /\ Fail("turn_limit")

OutOfTurns ==
    /\ pc = "ask" /\ turn = MaxTurns
    /\ UNCHANGED <<turn, repeats>>
    /\ Fail("turn_limit")

Next ==
    \/ ProviderFails \/ RunCall \/ SendResults \/ OutOfTurns
    \/ \E calls \in UNION {[1..n -> Calls] : n \in 1..MaxBatch} : ModelCalls(calls)
    \/ \E text \in Answers : ModelAnswers(text)

\* generate() answers, fails or times out (PROVIDER_TIMEOUT_S), and a tool
\* returns or raises: the loop is never left hanging.
Spec == Init /\ [][Next]_vars /\ WF_vars(Next)
-----------------------------------------------------------------------------
\* Where the messages hold a result of the call c: <<message, position>>.
ResultsFor(c) ==
    {p \in (1..Len(messages)) \X (1..MaxToolCalls) :
        /\ messages[p[1]].role = "tool" /\ p[2] \in DOMAIN messages[p[1]].items
        /\ messages[p[1]].items[p[2]].call = c}

(* Whatever the model asks for, a run makes no more than MAX_TURNS requests, *)
(* runs no more than MAX_TOOL_CALLS tools, and sends the model no more than  *)
(* MAX_IDENTICAL_CALLS results of one call, in one response or over several, *)
(* although the three are counted at different places of the loop            *)
(* (agent.py:469, 488, 496).                                                 *)
WithinBounds ==
    /\ turn <= MaxTurns
    /\ Len(executions) <= MaxToolCalls
    /\ \A c \in Calls : Cardinality(ResultsFor(c)) <= MaxIdentical

(* Whenever the model is asked, each of its earlier calls has been answered, *)
(* in its order and right after the response that made it: what the          *)
(* provider's function-calling contract requires (agent.py:491-505).         *)
EveryCallAnswered ==
    pc = "ask" => /\ Len(messages) % 2 = 0
                  /\ \A m \in 1..Len(messages) : m % 2 = 1 =>
                        /\ messages[m].role = "assistant" /\ messages[m + 1].role = "tool"
                        /\ messages[m].items =
                             [i \in DOMAIN messages[m + 1].items |-> messages[m + 1].items[i].call]

\* The figures the model was sent, and when one of them stands behind f.
Sent == UNION {UNION {messages[m].items[i].saw : i \in DOMAIN messages[m].items} :
                 m \in {k \in DOMAIN messages : messages[k].role = "tool"}}

Backs(g, f) ==
    IF IsClock(f) THEN IsClock(g) /\ Hours(f) \cap Hours(g) # {}
    ELSE IF IsClock(g) THEN f.n # 0 /\ f.n \in Hours(g)
    ELSE f.n = g.n

(* A text that reaches the student as the model wrote it says no figure that *)
(* the model was not sent in some tool's result before: nothing of its own,  *)
(* nothing of a call that was refused, nothing that was taken out of a       *)
(* result because it is private (agent.py:93-119, agent_tools.py:148-164).   *)
TextIsFromTheTools ==
    pc = "done" /\ ~envelope.replaced => \A f \in answer.facts : \E g \in Sent : Backs(g, f)

(* The text and the structured result of a reply are about the same tool     *)
(* run: a plan whenever one was made, whatever was looked up before or after *)
(* it, and the run's source is listed (agent.py:167-202, 378-431).           *)
ReplyIsCoherent ==
    pc = "done" =>
        LET plans == {i \in DOMAIN executions : executions[i].tool = "plan_day" /\ Narratable(executions[i])}
        IN  /\ plans # {} => envelope.result \in plans
            /\ envelope.result # 0 => executions[envelope.result].tool \in envelope.sources
            /\ envelope.replaced /\ Primary(executions) # 0 => envelope.about = envelope.result
            /\ envelope.asks # 0 /\ plans # {} => ~Asks(executions[envelope.result])

(* Every run ends, with a reply or with an AgentUnavailable.                 *)
Ends == <>(pc \in {"done", "failed"})
=============================================================================
