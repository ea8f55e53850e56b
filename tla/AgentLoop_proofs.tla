-------------------------- MODULE AgentLoop_proofs --------------------------
(***************************************************************************)
(* Theorems of AgentLoop, for any tools, calls, answers and limits: what   *)
(* the model is sent, how often tools run, and what a text may say.        *)
(***************************************************************************)
EXTENDS AgentLoop, FiniteSetTheorems, WellFoundedInduction, TLAPS

Codes == {"unknown_tool", "invalid_arguments", "tool_unavailable", "output_too_large"}
Data == {Clarification, NotConnected} \cup UNION {ToolResults[t] : t \in DOMAIN ToolResults}
Executions == {Refused(c, code) : c \in Calls, code \in Codes} \cup {Ran(c, d) : c \in Calls, d \in Data}

Told == [call : Calls, saw : {Public(e) : e \in Executions}]
Messages == [role : {"assistant"}, items : Seq(Calls)] \cup [role : {"tool"}, items : Seq(Told)]

AgentTypeOK ==
    /\ context \in Contexts
    /\ pc \in {"ask", "dispatch", "done", "failed"}
    /\ turn \in 0..MaxTurns
    /\ messages \in Seq(Messages) /\ pending \in Seq(Calls) /\ executions \in Seq(Executions)

\* The messages up to the n-th are responses, each with its results behind it.
Paired(ms, n) ==
    /\ n % 2 = 0
    /\ \A m \in 1..n : m % 2 = 1 =>
          /\ ms[m].role = "assistant" /\ ms[m + 1].role = "tool"
          /\ ms[m].items = [i \in DOMAIN ms[m + 1].items |-> ms[m + 1].items[i].call]

\* While the calls of a response run, those done are the last executions.
Exchange ==
    /\ pc = "ask" => Paired(messages, Len(messages))
    /\ pc = "dispatch" =>
          /\ Len(messages) > 0 /\ messages[Len(messages)].role = "assistant"
          /\ Paired(messages, Len(messages) - 1)
          /\ Len(pending) <= Batch /\ Batch <= Len(executions) + Len(pending)

ToolsAreBounded == Len(executions) + (IF pc = "dispatch" THEN Len(pending) ELSE 0) <= MaxToolCalls

AgentInv == AgentTypeOK /\ Exchange /\ ToolsAreBounded
-----------------------------------------------------------------------------
LEMMA InvInit == Init => AgentInv
  BY AgentAssumption DEF Init, AgentInv, AgentTypeOK, Exchange, Paired, ToolsAreBounded

LEMMA Dispatched ==
    ASSUME NEW c \in Calls, NEW e \in Dispatch(c)
    PROVE  e \in Executions
<1>1. CASE e \in {Refused(c, code) : code \in Codes}
  BY <1>1 DEF Executions
<1>2. CASE c.tool \in DOMAIN ToolResults /\ e \in {Ran(c, d) : d \in HandlerResults(c)}
  <2>1. HandlerResults(c) \subseteq Data
    BY <1>2 DEF HandlerResults, Data
  <2> QED
    BY <1>2, <2>1 DEF Executions
<1> QED
  BY <1>1, <1>2 DEF Dispatch, Codes

\* The messages behind a response stay what they are when more are sent.
LEMMA PairedStays ==
    ASSUME AgentTypeOK, NEW x \in Messages, messages' = Append(messages, x),
           NEW n \in 0..Len(messages), Paired(messages, n)
    PROVE  Paired(messages', n)
<1>0. n \in Nat
  OBVIOUS
<1>1. \A m \in 1..Len(messages) : messages'[m] = messages[m]
  BY DEF AgentTypeOK
<1>2. \A m \in 1..n : m % 2 = 1 => m + 1 \in 1..n
  BY <1>0 DEF Paired
<1>3. Len(messages) \in Nat
  BY DEF AgentTypeOK
<1>4. \A m \in 1..n : m \in 1..Len(messages)
  BY <1>3
<1>5. ASSUME NEW m \in 1..n, m % 2 = 1
      PROVE  /\ messages'[m].role = "assistant" /\ messages'[m + 1].role = "tool"
             /\ messages'[m].items = [i \in DOMAIN messages'[m + 1].items |-> messages'[m + 1].items[i].call]
  <2>1. messages'[m] = messages[m] /\ messages'[m + 1] = messages[m + 1]
    BY <1>1, <1>2, <1>4, <1>5
  <2> QED
    BY <1>5, <2>1 DEF Paired
<1> QED
  BY <1>5 DEF Paired
-----------------------------------------------------------------------------
LEMMA FailInv ==
    ASSUME AgentInv, NEW code, Fail(code), turn' \in 0..MaxTurns
    PROVE  AgentInv'
<1>1. pc' = "failed" /\ UNCHANGED <<context, messages, pending, executions>>
  BY DEF Fail
<1>2. AgentTypeOK'
  BY <1>1 DEF AgentInv, AgentTypeOK
<1>3. Len(executions) \in Nat /\ Len(pending) \in Nat
  BY DEF AgentInv, AgentTypeOK
<1>4. Exchange' /\ ToolsAreBounded'
  BY <1>1, <1>3, AgentAssumption DEF AgentInv, Exchange, ToolsAreBounded
<1> QED
  BY <1>2, <1>4 DEF AgentInv

LEMMA CallsInv ==
    ASSUME AgentInv, NEW calls \in UNION {[1..n -> Calls] : n \in 1..MaxBatch}, ModelCalls(calls)
    PROVE  AgentInv'
<1>1. calls \in Seq(Calls) /\ turn' \in 0..MaxTurns
  <2>1. PICK n \in 1..MaxBatch : calls \in [1..n -> Calls]
    OBVIOUS
  <2>2. n \in Nat
    BY AgentAssumption
  <2>3. calls \in Seq(Calls)
    BY <2>1, <2>2
  <2>4. turn' \in 0..MaxTurns
    BY AgentAssumption DEF ModelCalls, AgentInv, AgentTypeOK
  <2> QED
    BY <2>3, <2>4
<1>2. CASE Fail("tool_call_limit")
  BY <1>1, <1>2, FailInv
<1>3. CASE ~TooMany(calls) /\ pc' = "dispatch"
  <2> DEFINE x == [role |-> "assistant", items |-> calls]
  <2>1. /\ messages' = Append(messages, x) /\ pending' = calls
        /\ pc = "ask" /\ UNCHANGED <<context, executions>>
    BY <1>3 DEF ModelCalls, Fail
  <2>2. x \in Messages
    BY <1>1 DEF Messages
  <2>3. AgentTypeOK'
    BY <1>1, <1>3, <2>1, <2>2 DEF AgentInv, AgentTypeOK
  <2>4. Len(messages') = Len(messages) + 1 /\ messages'[Len(messages')] = x /\ Len(messages) \in Nat
    BY <2>1, <2>2 DEF AgentInv, AgentTypeOK
  <2>5. Paired(messages', Len(messages))
    BY <2>1, <2>2, <2>4, PairedStays DEF AgentInv, Exchange
  <2>6. Exchange'
    <3>1. Batch' = Len(calls) /\ Len(calls) \in Nat /\ Len(executions) \in Nat
      BY <1>1, <2>4 DEF Batch, Last, AgentInv, AgentTypeOK
    <3> QED
      BY <1>3, <2>1, <2>4, <2>5, <3>1 DEF Exchange
  <2>7. ToolsAreBounded'
    BY <1>1, <1>3, <2>1, AgentAssumption DEF TooMany, AgentInv, AgentTypeOK, ToolsAreBounded
  <2> QED
    BY <2>3, <2>6, <2>7 DEF AgentInv
<1> QED
  BY <1>2, <1>3 DEF ModelCalls

LEMMA RunInv == ASSUME AgentInv, RunCall PROVE AgentInv'
<1>1. CASE Fail("repeated_tool_call")
  BY <1>1, FailInv DEF RunCall, AgentInv, AgentTypeOK
<1>2. CASE pending' = Tail(pending) /\ UNCHANGED <<context, pc, messages>>
  <2>1. pending # <<>> /\ pc = "dispatch" /\ turn' = turn
    BY DEF RunCall
  <2>2. Head(pending) \in Calls /\ Tail(pending) \in Seq(Calls) /\ Len(Tail(pending)) = Len(pending) - 1
    BY <2>1 DEF AgentInv, AgentTypeOK
  <2>3. PICK e \in Dispatch(Head(pending)) : executions' = Append(executions, e)
    BY <1>2, <2>1 DEF RunCall, Fail
  <2>4. e \in Executions
    BY <2>2, <2>3, Dispatched
  <2>5. /\ executions' \in Seq(Executions) /\ Len(executions') = Len(executions) + 1
        /\ Len(executions) \in Nat /\ Len(pending) \in Nat
        /\ DOMAIN executions' = DOMAIN executions \cup {Len(executions) + 1}
        /\ executions'[Len(executions) + 1] = e
        /\ \A i \in DOMAIN executions : executions'[i] = executions[i]
    BY <2>3, <2>4 DEF AgentInv, AgentTypeOK
  <2>6. AgentTypeOK'
    BY <1>2, <2>1, <2>2, <2>5 DEF AgentInv, AgentTypeOK
  <2>7. Batch \in Nat
    BY <2>1 DEF AgentInv, AgentTypeOK, Exchange, Batch, Last, Messages
  <2>8. Exchange'
    <3>1. Batch' = Batch
      BY <1>2 DEF Batch, Last
    <3>2. Len(pending) <= Batch /\ Batch <= Len(executions) + Len(pending)
      BY <2>1 DEF AgentInv, Exchange
    <3>3. Len(pending') <= Batch' /\ Batch' <= Len(executions') + Len(pending')
      BY <1>2, <2>2, <2>5, <2>7, <3>1, <3>2
    <3> QED
      BY <1>2, <2>1, <3>3 DEF AgentInv, Exchange
  <2>9. ToolsAreBounded'
    BY <1>2, <2>1, <2>2, <2>5, AgentAssumption DEF AgentInv, ToolsAreBounded
  <2> QED
    BY <2>6, <2>8, <2>9 DEF AgentInv
<1> QED
  BY <1>1, <1>2 DEF RunCall

LEMMA SendInv == ASSUME AgentInv, SendResults PROVE AgentInv'
<1> DEFINE n == Len(messages)
           x == [role |-> "tool", items |-> Results]
<1>1. /\ pc = "dispatch" /\ pc' = "ask" /\ pending = <<>> /\ messages' = Append(messages, x)
      /\ UNCHANGED <<context, turn, pending, executions>>
  BY DEF SendResults
<1>2. /\ n \in Nat /\ n > 0 /\ messages[n] \in Messages /\ messages[n].role = "assistant"
      /\ messages[n].items \in Seq(Calls) /\ Last(messages) = messages[n]
      /\ Batch = Len(messages[n].items) /\ Batch \in Nat
  BY <1>1 DEF AgentInv, AgentTypeOK, Exchange, Messages, Batch, Last
<1>3. ASSUME NEW i \in 1..Batch PROVE executions[Len(executions) - Batch + i] \in Executions
  <2>1. Len(executions) \in Nat /\ Len(pending) = 0 /\ Batch <= Len(executions) + Len(pending)
    BY <1>1 DEF AgentInv, AgentTypeOK, Exchange
  <2>2. Len(executions) - Batch + i \in 1..Len(executions)
    BY <1>2, <2>1
  <2> QED
    BY <2>2 DEF AgentInv, AgentTypeOK
<1>4. ASSUME NEW i \in 1..Batch PROVE ResultOf(i) \in Told /\ ResultOf(i).call = messages[n].items[i]
  <2>1. messages[n].items[i] \in Calls
    BY <1>2
  <2> QED
    BY <1>2, <1>3, <2>1 DEF ResultOf, Told
<1>5. Results \in Seq(Told) /\ DOMAIN Results = 1..Batch /\ \A i \in 1..Batch : Results[i].call = messages[n].items[i]
  BY <1>2, <1>4 DEF Results
<1>6. x \in Messages /\ x.role = "tool" /\ x.items = Results
  BY <1>5 DEF Messages
<1> HIDE DEF x
<1>7. /\ messages' \in Seq(Messages) /\ Len(messages') = n + 1 /\ messages'[n + 1] = x
      /\ \A m \in 1..n : messages'[m] = messages[m]
  BY <1>1, <1>6 DEF AgentInv, AgentTypeOK
<1>8. AgentTypeOK'
  BY <1>1, <1>7 DEF AgentInv, AgentTypeOK
<1>9. messages[n].items = [i \in DOMAIN Results |-> Results[i].call]
  BY <1>2, <1>5
<1>10. Paired(messages, n - 1) /\ (n - 1) % 2 = 0
  BY <1>1 DEF AgentInv, Exchange, Paired
<1>11. (n + 1) % 2 = 0
  BY <1>2, <1>10
<1>12. ASSUME NEW m \in 1..(n + 1), m % 2 = 1
       PROVE  /\ messages'[m].role = "assistant" /\ messages'[m + 1].role = "tool"
              /\ messages'[m].items = [i \in DOMAIN messages'[m + 1].items |-> messages'[m + 1].items[i].call]
  <2>1. CASE m = n
    <3>1. messages'[m] = messages[n] /\ messages'[m + 1] = x
      BY <1>2, <1>7, <2>1
    <3> QED
      BY <1>2, <1>6, <1>9, <3>1
  <2>2. CASE m < n
    <3>1. m \in 1..(n - 1) /\ m + 1 \in 1..n /\ m \in 1..n
      BY <1>2, <2>2
    <3> QED
      BY <1>7, <1>10, <1>12, <3>1 DEF Paired
  <2>3. m # n + 1
    BY <1>11, <1>12
  <2> QED
    BY <1>2, <2>1, <2>2, <2>3
<1>13. Exchange'
  BY <1>1, <1>7, <1>11, <1>12 DEF Exchange, Paired
<1>14. ToolsAreBounded'
  BY <1>1, AgentAssumption DEF AgentInv, AgentTypeOK, ToolsAreBounded
<1> QED
  BY <1>8, <1>13, <1>14 DEF AgentInv

LEMMA InvStep == AgentInv /\ [Next]_vars => AgentInv'
<1> SUFFICES ASSUME AgentInv, [Next]_vars PROVE AgentInv'
  OBVIOUS
<1>1. CASE ProviderFails
  <2>1. turn' \in 0..MaxTurns
    BY <1>1, AgentAssumption DEF ProviderFails, AgentInv, AgentTypeOK
  <2> QED
    BY <1>1, <2>1, FailInv DEF ProviderFails
<1>2. CASE OutOfTurns
  BY <1>2, FailInv DEF OutOfTurns, AgentInv, AgentTypeOK
<1>3. ASSUME NEW text \in Answers, ModelAnswers(text) PROVE AgentInv'
  BY <1>3, AgentAssumption DEF ModelAnswers, AgentInv, AgentTypeOK, Exchange, ToolsAreBounded
<1>4. CASE UNCHANGED vars
  <2>1. AgentTypeOK'
    BY <1>4 DEF vars, AgentInv, AgentTypeOK
  <2>2. Exchange'
    BY <1>4 DEF vars, AgentInv, Exchange, Batch, Last
  <2>3. ToolsAreBounded'
    BY <1>4 DEF vars, AgentInv, ToolsAreBounded
  <2> QED
    BY <2>1, <2>2, <2>3 DEF AgentInv
<1> QED
  BY <1>1, <1>2, <1>3, <1>4, CallsInv, RunInv, SendInv DEF Next

\* What the loop holds between any two of its steps.
THEOREM AgentInvariant == Spec => []AgentInv
  BY InvInit, InvStep, PTL DEF Spec

\* Whenever the model is asked, each of its earlier calls has been answered, in
\* its order and right after the response that made it.
THEOREM CallsAreAnswered == Spec => []EveryCallAnswered
<1>1. AgentInv => EveryCallAnswered
  BY DEF AgentInv, AgentTypeOK, Exchange, Paired, EveryCallAnswered
<1> QED
  BY <1>1, AgentInvariant, PTL

-----------------------------------------------------------------------------
(* What a text may say.  The gate looks at the executions, the model at the  *)
(* messages: between two requests they hold the same figures.                *)

\* The executions of the response being run, when no more of it is pending
\* than len calls, are those behind the n-th.
Before(len) == Len(executions) + len - Batch

SentInv ==
    /\ pc = "ask" => Evidence(executions) \subseteq Sent
    /\ pc = "dispatch" => \A i \in 1..Before(Len(pending)) : Public(executions[i]) \subseteq Sent
    /\ pc = "done" => /\ Evidence(executions) \subseteq Sent
                      /\ ~envelope.replaced => Grounded(answer, executions)

LEMMA SentGrows ==
    ASSUME AgentInv, NEW x, messages' = Append(messages, x), x.role = "tool" \/ x.role = "assistant"
    PROVE  /\ Sent \subseteq Sent'
           /\ x.role = "tool" => \A i \in DOMAIN x.items : x.items[i].saw \subseteq Sent'
<1>1. /\ Len(messages) \in Nat /\ DOMAIN messages = 1..Len(messages)
      /\ DOMAIN messages' = DOMAIN messages \cup {Len(messages) + 1}
      /\ messages'[Len(messages) + 1] = x
      /\ \A m \in DOMAIN messages : messages'[m] = messages[m]
  BY DEF AgentInv, AgentTypeOK
<1>2. ASSUME NEW g \in Sent PROVE g \in Sent'
  <2>1. PICK m \in DOMAIN messages : /\ messages[m].role = "tool"
                                     /\ \E i \in DOMAIN messages[m].items : g \in messages[m].items[i].saw
    BY DEF Sent
  <2>2. m \in DOMAIN messages' /\ messages'[m] = messages[m]
    BY <1>1
  <2> QED
    BY <2>1, <2>2 DEF Sent
<1>3. ASSUME x.role = "tool", NEW i \in DOMAIN x.items PROVE x.items[i].saw \subseteq Sent'
  BY <1>1, <1>3 DEF Sent
<1> QED
  BY <1>2, <1>3

LEMMA SentCalls ==
    ASSUME AgentInv, SentInv, NEW calls \in UNION {[1..n -> Calls] : n \in 1..MaxBatch}, ModelCalls(calls)
    PROVE  SentInv'
<1>1. CASE Fail("tool_call_limit")
  BY <1>1 DEF Fail, SentInv
<1>2. CASE ~TooMany(calls) /\ pc' = "dispatch"
  <2> DEFINE x == [role |-> "assistant", items |-> calls]
  <2>1. pc = "ask" /\ messages' = Append(messages, x) /\ pending' = calls /\ UNCHANGED executions
    BY <1>2 DEF ModelCalls, Fail
  <2>2. Sent \subseteq Sent' /\ Evidence(executions) \subseteq Sent
    BY <2>1, SentGrows DEF SentInv
  <2>3. Len(calls) \in Nat
    <3>1. PICK n \in 1..MaxBatch : calls \in [1..n -> Calls]
      OBVIOUS
    <3>2. n \in Nat
      BY AgentAssumption
    <3> QED
      BY <3>1, <3>2
  <2>4. Len(messages') = Len(messages) + 1 /\ messages'[Len(messages')] = x
    BY <2>1 DEF AgentInv, AgentTypeOK
  <2>5. Batch' = Len(calls)
    BY <2>4 DEF Batch, Last
  <2>6. Before(Len(pending))' = Len(executions)
    BY <2>1, <2>3, <2>5 DEF Before, AgentInv, AgentTypeOK
  <2>7. ASSUME NEW i \in 1..Before(Len(pending))' PROVE Public(executions'[i]) \subseteq Sent'
    <3>1. i \in DOMAIN executions
      BY <2>6 DEF AgentInv, AgentTypeOK
    <3>2. Public(executions[i]) \subseteq Evidence(executions)
      BY <3>1 DEF Evidence
    <3> QED
      BY <2>1, <2>2, <3>2
  <2> QED
    BY <1>2, <2>7 DEF SentInv
<1> QED
  BY <1>1, <1>2 DEF ModelCalls

LEMMA SentRun == ASSUME AgentInv, SentInv, RunCall PROVE SentInv'
<1>1. CASE Fail("repeated_tool_call")
  BY <1>1 DEF Fail, SentInv
<1>2. CASE pending' = Tail(pending) /\ UNCHANGED <<pc, messages>>
  <2>1. pc = "dispatch" /\ pending # <<>> /\ pc' = "dispatch" /\ Sent' = Sent /\ Batch' = Batch
    BY <1>2 DEF RunCall, Sent, Batch, Last
  <2>2. PICK e \in Dispatch(Head(pending)) : executions' = Append(executions, e)
    BY <1>2 DEF RunCall, Fail
  <2>3. Head(pending) \in Calls /\ Len(Tail(pending)) = Len(pending) - 1 /\ Len(pending) \in Nat
    BY <2>1 DEF AgentInv, AgentTypeOK
  <2>4. e \in Executions
    BY <2>2, <2>3, Dispatched
  <2>5. /\ Len(executions) \in Nat /\ Len(executions') = Len(executions) + 1
        /\ \A i \in 1..Len(executions) : executions'[i] = executions[i]
    BY <2>2, <2>4 DEF AgentInv, AgentTypeOK
  <2>6. Batch \in Nat /\ Len(pending) <= Batch
    BY <2>1 DEF AgentInv, AgentTypeOK, Exchange, Batch, Last, Messages
  <2>7. Before(Len(pending))' = Before(Len(pending))
    BY <1>2, <2>1, <2>3, <2>5, <2>6 DEF Before
  <2>8. ASSUME NEW i \in 1..Before(Len(pending))' PROVE Public(executions'[i]) \subseteq Sent'
    <3>1. i \in 1..Before(Len(pending)) /\ i \in 1..Len(executions)
      BY <2>3, <2>5, <2>6, <2>7 DEF Before
    <3> QED
      BY <2>1, <2>5, <3>1 DEF SentInv
  <2> QED
    BY <2>1, <2>8 DEF SentInv
<1> QED
  BY <1>1, <1>2 DEF RunCall

LEMMA SentResults == ASSUME AgentInv, SentInv, SendResults PROVE SentInv'
<1> DEFINE x == [role |-> "tool", items |-> Results]
<1>1. /\ pc = "dispatch" /\ pc' = "ask" /\ pending = <<>> /\ messages' = Append(messages, x)
      /\ UNCHANGED executions
  BY DEF SendResults
<1>2. Sent \subseteq Sent' /\ \A i \in DOMAIN Results : Results[i].saw \subseteq Sent'
  BY <1>1, SentGrows
<1>3. Batch \in Nat /\ Len(executions) \in Nat /\ DOMAIN executions = 1..Len(executions) /\ Len(pending) = 0
  BY <1>1 DEF AgentInv, AgentTypeOK, Exchange, Batch, Last, Messages
<1>4. ASSUME NEW i \in 1..Len(executions) PROVE Public(executions[i]) \subseteq Sent'
  <2>1. CASE i <= Len(executions) - Batch
    <3>1. i \in 1..Before(Len(pending))
      BY <1>3, <2>1 DEF Before
    <3> QED
      BY <1>1, <1>2, <3>1 DEF SentInv
  <2>2. CASE i > Len(executions) - Batch
    <3> DEFINE j == i - (Len(executions) - Batch)
    <3>1. j \in 1..Batch /\ Len(executions) - Batch + j = i
      BY <1>3, <2>2
    <3>2. j \in DOMAIN Results /\ Results[j].saw = Public(executions[i])
      BY <3>1 DEF Results, ResultOf
    <3> QED
      BY <1>2, <3>2
  <2> QED
    BY <1>3, <2>1, <2>2
<1>5. Evidence(executions) \subseteq Sent'
  BY <1>3, <1>4 DEF Evidence
<1> QED
  BY <1>1, <1>5 DEF SentInv

LEMMA SentStep == AgentInv /\ SentInv /\ [Next]_vars => SentInv'
<1> SUFFICES ASSUME AgentInv, SentInv, [Next]_vars PROVE SentInv'
  OBVIOUS
<1>1. CASE ProviderFails \/ OutOfTurns
  BY <1>1 DEF ProviderFails, OutOfTurns, Fail, SentInv
<1>2. ASSUME NEW text \in Answers, ModelAnswers(text) PROVE SentInv'
  <2>1. /\ pc = "ask" /\ pc' = "done" /\ answer' = text /\ envelope' = Envelope(text, executions)
        /\ UNCHANGED <<messages, executions>>
    BY <1>2 DEF ModelAnswers
  <2>2. Sent' = Sent /\ Evidence(executions) \subseteq Sent
    BY <2>1 DEF Sent, SentInv
  <2>3. ~envelope'.replaced => Grounded(answer', executions')
    BY <2>1 DEF Envelope
  <2> QED
    BY <2>1, <2>2, <2>3 DEF SentInv
<1>3. CASE UNCHANGED vars
  <2>1. /\ pc' = pc /\ executions' = executions /\ envelope' = envelope /\ answer' = answer
        /\ Sent' = Sent /\ Before(Len(pending))' = Before(Len(pending))
    BY <1>3 DEF vars, Sent, Before, Batch, Last
  <2> QED
    BY <2>1 DEF SentInv
<1> QED
  BY <1>1, <1>2, <1>3, SentCalls, SentRun, SentResults DEF Next

\* Every figure of a grounded text is backed by one of the evidence.
LEMMA GroundedIsBacked ==
    ASSUME NEW text, NEW es, Grounded(text, es), NEW f \in text.facts
    PROVE  \E g \in Evidence(es) : Backs(g, f)
<1>1. NumbersGrounded(text, es)
  BY DEF Grounded
<1> DEFINE told == UNION {Hours(g) : g \in {k \in Evidence(es) : IsClock(k)}}
           plain == {g.n : g \in {k \in Evidence(es) : ~IsClock(k)}}
<1>2. IF IsClock(f) THEN Hours(f) \subseteq told ELSE f.n \in plain \/ (f.n # 0 /\ f.n \in told)
  BY <1>1 DEF NumbersGrounded
<1>3. CASE IsClock(f)
  <2>1. PICK h : h \in Hours(f)
    BY DEF Hours
  <2>2. PICK g \in Evidence(es) : IsClock(g) /\ h \in Hours(g)
    BY <1>2, <1>3, <2>1
  <2> QED
    BY <1>3, <2>1, <2>2 DEF Backs
<1>4. CASE ~IsClock(f) /\ f.n \in plain
  BY <1>4 DEF Backs
<1>5. CASE ~IsClock(f) /\ f.n # 0 /\ f.n \in told
  BY <1>5 DEF Backs
<1> QED
  BY <1>2, <1>3, <1>4, <1>5

\* A text the student gets as the model wrote it says no figure that the model
\* was not sent in a tool's result, for any tools, calls, texts and limits.
THEOREM TextsAreFromTheTools == Spec => []TextIsFromTheTools
<1>1. Init => SentInv
  BY DEF Init, SentInv, Evidence
<1>2. SentInv => TextIsFromTheTools
  <2> SUFFICES ASSUME SentInv, pc = "done", ~envelope.replaced, NEW f \in answer.facts
               PROVE  \E g \in Sent : Backs(g, f)
    BY DEF TextIsFromTheTools
  <2>1. Grounded(answer, executions) /\ Evidence(executions) \subseteq Sent
    BY DEF SentInv
  <2> QED
    BY <2>1, GroundedIsBacked
<1> QED
  BY <1>1, <1>2, SentStep, AgentInvariant, PTL DEF Spec

-----------------------------------------------------------------------------
(* How often a call is run: the code's counter of a call against the results *)
(* of it that the messages hold.                                             *)

\* What is pending is the end of the response being run.
PendingIsRest ==
    pc = "dispatch" =>
        \A i \in 1..Len(pending) : pending[i] = Last(messages).items[Batch - Len(pending) + i]

\* The calls of the response being run that are done and are the call c.
DoneOf(c) ==
    IF pc = "dispatch" THEN {i \in 1..(Batch - Len(pending)) : Last(messages).items[i] = c} ELSE {}

\* The counter of a call bounds the results of it that were sent or are about to be.
RepeatsCount ==
    \A c \in Calls :
        /\ Cardinality(ResultsFor(c)) + Cardinality(DoneOf(c)) <= MaxIdentical
        /\ pc # "failed" => Cardinality(ResultsFor(c)) + Cardinality(DoneOf(c)) <= repeats[c]

CountInv == repeats \in [Calls -> Nat] /\ PendingIsRest /\ RepeatsCount

\* The sets counted are finite.
LEMMA CountedFinite ==
    ASSUME AgentInv, NEW c \in Calls
    PROVE  /\ IsFiniteSet(ResultsFor(c)) /\ Cardinality(ResultsFor(c)) \in Nat
           /\ IsFiniteSet(DoneOf(c)) /\ Cardinality(DoneOf(c)) \in Nat
           /\ pc = "dispatch" => Batch \in Nat /\ Len(pending) \in Nat
<1>1. Len(messages) \in Nat /\ MaxToolCalls \in Nat
  BY AgentAssumption DEF AgentInv, AgentTypeOK
<1>2. IsFiniteSet((1..Len(messages)) \X (1..MaxToolCalls))
  <2>1. IsFiniteSet(1..Len(messages)) /\ IsFiniteSet(1..MaxToolCalls)
    BY <1>1, FS_Interval
  <2> QED
    BY <2>1, FS_Product
<1>3. IsFiniteSet(ResultsFor(c))
  BY <1>2, FS_Subset DEF ResultsFor
<1>4. pc = "dispatch" => Batch \in Nat /\ Len(pending) \in Nat
  BY DEF AgentInv, AgentTypeOK, Exchange, Batch, Last, Messages
<1>5. IsFiniteSet(DoneOf(c))
  <2>1. CASE pc = "dispatch"
    <3>1. IsFiniteSet(1..(Batch - Len(pending)))
      BY <1>4, <2>1, FS_Interval
    <3> QED
      BY <2>1, <3>1, FS_Subset DEF DoneOf
  <2> QED
    BY <2>1, FS_EmptySet DEF DoneOf
<1> QED
  BY <1>3, <1>4, <1>5, FS_CardinalityType

LEMMA CountInit == Init => CountInv
<1> SUFFICES ASSUME Init PROVE CountInv
  OBVIOUS
<1>1. \A c \in Calls : ResultsFor(c) = {} /\ DoneOf(c) = {}
  BY DEF Init, ResultsFor, DoneOf
<1>2. repeats = [c \in Calls |-> 0] /\ MaxIdentical \in Nat
  BY AgentAssumption DEF Init
<1>3. Cardinality({}) = 0
  BY FS_EmptySet
<1>4. RepeatsCount
  BY <1>1, <1>2, <1>3 DEF RepeatsCount
<1>5. PendingIsRest
  BY DEF Init, PendingIsRest
<1> QED
  BY <1>2, <1>4, <1>5 DEF CountInv

\* A step that sends nothing and ends the run keeps the counts.
LEMMA CountKept ==
    ASSUME AgentInv, CountInv, UNCHANGED messages, pc' \in {"done", "failed"},
           \/ UNCHANGED repeats /\ pc # "failed"
           \/ repeats' \in [Calls -> Nat] /\ pc' = "failed"
    PROVE  CountInv'
<1>1. \A c \in Calls : ResultsFor(c)' = ResultsFor(c) /\ DoneOf(c)' = {}
  BY DEF ResultsFor, DoneOf
<1>2. repeats' \in [Calls -> Nat] /\ PendingIsRest'
  BY DEF CountInv, PendingIsRest
<1>3. ASSUME NEW c \in Calls
      PROVE  /\ Cardinality(ResultsFor(c)') + Cardinality(DoneOf(c)') <= MaxIdentical
             /\ pc' # "failed" => Cardinality(ResultsFor(c)') + Cardinality(DoneOf(c)') <= repeats'[c]
  <2>1. Cardinality({}) = 0
    BY FS_EmptySet
  <2>2. /\ Cardinality(ResultsFor(c)) \in Nat /\ Cardinality(DoneOf(c)) \in Nat
        /\ MaxIdentical \in Nat
    BY CountedFinite, AgentAssumption
  <2>3. /\ Cardinality(ResultsFor(c)') = Cardinality(ResultsFor(c))
        /\ Cardinality(DoneOf(c)') = 0
    BY <1>1, <2>1
  <2>4. repeats \in [Calls -> Nat] /\ repeats[c] \in Nat
    BY DEF CountInv
  <2>5. /\ Cardinality(ResultsFor(c)) + Cardinality(DoneOf(c)) <= MaxIdentical
        /\ pc # "failed" => Cardinality(ResultsFor(c)) + Cardinality(DoneOf(c)) <= repeats[c]
    BY DEF CountInv, RepeatsCount
  <2> QED
    BY <2>2, <2>3, <2>4, <2>5
<1> QED
  BY <1>2, <1>3 DEF CountInv, RepeatsCount

LEMMA CountCalls ==
    ASSUME AgentInv, CountInv, NEW calls \in UNION {[1..n -> Calls] : n \in 1..MaxBatch}, ModelCalls(calls)
    PROVE  CountInv'
<1>1. CASE Fail("tool_call_limit")
  BY <1>1, CountKept DEF ModelCalls, Fail
<1>2. CASE ~TooMany(calls) /\ pc' = "dispatch"
  <2> DEFINE x == [role |-> "assistant", items |-> calls]
  <2>1. pc = "ask" /\ messages' = Append(messages, x) /\ pending' = calls /\ UNCHANGED repeats
    BY <1>2 DEF ModelCalls, Fail
  <2>2. /\ Len(messages) \in Nat /\ Len(messages') = Len(messages) + 1
        /\ messages'[Len(messages) + 1] = x
        /\ \A m \in 1..Len(messages) : messages'[m] = messages[m]
    BY <2>1 DEF AgentInv, AgentTypeOK
  <2>3. Last(messages)' = x /\ Batch' = Len(calls)
    BY <2>2 DEF Batch, Last
  <2>4. Len(calls) \in Nat
    BY AgentAssumption
  <2>5. ASSUME NEW c \in Calls PROVE ResultsFor(c)' = ResultsFor(c) /\ DoneOf(c)' = {} /\ DoneOf(c) = {}
    <3>1. DoneOf(c)' = {} /\ DoneOf(c) = {}
      BY <1>2, <2>1, <2>3, <2>4 DEF DoneOf
    <3>2. x.role = "assistant"
      OBVIOUS
    <3>3. ASSUME NEW p, p \in ResultsFor(c)' PROVE p \in ResultsFor(c)
      <4>1. /\ p \in (1..(Len(messages) + 1)) \X (1..MaxToolCalls) /\ messages'[p[1]].role = "tool"
            /\ p[2] \in DOMAIN messages'[p[1]].items /\ messages'[p[1]].items[p[2]].call = c
        BY <2>2, <3>3 DEF ResultsFor
      <4>2. p[1] # Len(messages) + 1
        BY <2>2, <3>2, <4>1
      <4>3. p[1] \in 1..Len(messages)
        BY <2>2, <4>1, <4>2
      <4> QED
        BY <2>2, <4>1, <4>3 DEF ResultsFor
    <3>4. ASSUME NEW p, p \in ResultsFor(c) PROVE p \in ResultsFor(c)'
      <4>1. p[1] \in 1..Len(messages) /\ p \in (1..(Len(messages) + 1)) \X (1..MaxToolCalls)
        BY <2>2, <3>4 DEF ResultsFor
      <4> QED
        BY <2>2, <3>4, <4>1 DEF ResultsFor
    <3> QED
      BY <3>1, <3>3, <3>4
  <2>6. PendingIsRest'
    BY <2>1, <2>3, <2>4 DEF PendingIsRest
  <2> QED
    BY <1>2, <2>1, <2>5, <2>6 DEF CountInv, RepeatsCount
<1> QED
  BY <1>1, <1>2 DEF ModelCalls

LEMMA CountRun == ASSUME AgentInv, CountInv, RunCall PROVE CountInv'
<1> DEFINE h == Head(pending)
           n == Batch - Len(pending)
<1>1. /\ pc = "dispatch" /\ pending # <<>> /\ h \in Calls /\ Tail(pending) \in Seq(Calls)
      /\ Len(pending) \in Nat /\ Len(pending) > 0 /\ Len(Tail(pending)) = Len(pending) - 1
      /\ h = pending[1] /\ \A i \in 1..Len(Tail(pending)) : Tail(pending)[i] = pending[i + 1]
      /\ Batch \in Nat /\ Len(pending) <= Batch /\ n \in Nat
  <2>1. pending # <<>> /\ pc = "dispatch" /\ pending \in Seq(Calls)
    BY DEF RunCall, AgentInv, AgentTypeOK
  <2>2. Batch \in Nat /\ Len(pending) <= Batch
    BY <2>1 DEF AgentInv, AgentTypeOK, Exchange, Batch, Last, Messages
  <2> QED
    BY <2>1, <2>2
<1>2. repeats' = [repeats EXCEPT ![h] = @ + 1] /\ repeats' \in [Calls -> Nat]
  BY <1>1 DEF RunCall, CountInv
<1>3. CASE Fail("repeated_tool_call")
  BY <1>2, <1>3, CountKept DEF Fail
<1>4. CASE repeats'[h] <= MaxIdentical /\ pending' = Tail(pending) /\ UNCHANGED <<pc, messages>>
  <2>1. Last(messages)' = Last(messages) /\ Batch' = Batch /\ Batch' - Len(pending') = n + 1
    BY <1>1, <1>4 DEF Batch, Last
  <2>2. Last(messages).items[n + 1] = h
    BY <1>1 DEF CountInv, PendingIsRest
  <2>3. PendingIsRest'
    <3> SUFFICES ASSUME NEW i \in 1..Len(pending')
                 PROVE  pending'[i] = Last(messages).items[n + 1 + i]
      BY <2>1 DEF PendingIsRest
    <3>1. i \in Nat /\ i + 1 \in 1..Len(pending) /\ pending'[i] = pending[i + 1]
      BY <1>1, <1>4
    <3>2. pending[i + 1] = Last(messages).items[n + (i + 1)]
      BY <1>1, <3>1 DEF CountInv, PendingIsRest
    <3>3. n + (i + 1) = n + 1 + i
      BY <1>1, <3>1
    <3> QED
      BY <3>1, <3>2, <3>3
  <2>4. ASSUME NEW c \in Calls
        PROVE  /\ Cardinality(ResultsFor(c)') + Cardinality(DoneOf(c)') <= MaxIdentical
               /\ Cardinality(ResultsFor(c)') + Cardinality(DoneOf(c)') <= repeats'[c]
    <3>1. ResultsFor(c)' = ResultsFor(c)
      BY <1>4 DEF ResultsFor
    <3>2. /\ DoneOf(c) = {i \in 1..n : Last(messages).items[i] = c}
          /\ DoneOf(c)' = {i \in 1..(n + 1) : Last(messages).items[i] = c}
      BY <1>1, <1>4, <2>1 DEF DoneOf
    <3>3. /\ Cardinality(ResultsFor(c)) + Cardinality(DoneOf(c)) <= MaxIdentical
          /\ Cardinality(ResultsFor(c)) + Cardinality(DoneOf(c)) <= repeats[c]
          /\ repeats[c] \in Nat /\ MaxIdentical \in Nat
      BY <1>1, AgentAssumption DEF CountInv, RepeatsCount
    <3>4. /\ IsFiniteSet(DoneOf(c)) /\ Cardinality(DoneOf(c)) \in Nat
          /\ Cardinality(ResultsFor(c)) \in Nat
      BY CountedFinite
    <3>5. CASE c = h
      <4>1. DoneOf(c)' = DoneOf(c) \cup {n + 1} /\ n + 1 \notin DoneOf(c)
        BY <1>1, <2>2, <3>2, <3>5
      <4>2. Cardinality(DoneOf(c)') = Cardinality(DoneOf(c)) + 1
        BY <3>4, <4>1, FS_AddElement
      <4>3. repeats'[c] = repeats[c] + 1
        BY <1>1, <1>2, <3>5 DEF CountInv
      <4> QED
        BY <1>4, <3>1, <3>3, <3>4, <3>5, <4>2, <4>3
    <3>6. CASE c # h
      <4>1. DoneOf(c)' = DoneOf(c)
        BY <1>1, <2>2, <3>2, <3>6
      <4>2. repeats'[c] = repeats[c]
        BY <1>1, <1>2, <3>6 DEF CountInv
      <4> QED
        BY <3>1, <3>3, <4>1, <4>2
    <3> QED
      BY <3>5, <3>6
  <2> QED
    BY <1>2, <2>3, <2>4 DEF CountInv, RepeatsCount
<1> QED
  BY <1>3, <1>4 DEF RunCall

LEMMA CountSend == ASSUME AgentInv, CountInv, SendResults PROVE CountInv'
<1> DEFINE n == Len(messages)
<1>1. /\ pc = "dispatch" /\ pc' = "ask" /\ pending = <<>> /\ UNCHANGED <<pending, repeats>>
      /\ messages' = Append(messages, [role |-> "tool", items |-> Results])
  BY DEF SendResults
<1>2. /\ n \in Nat /\ n > 0 /\ Batch \in Nat /\ Last(messages) = messages[n]
      /\ messages[n].items \in Seq(Calls) /\ Batch = Len(messages[n].items)
  BY <1>1 DEF AgentInv, AgentTypeOK, Exchange, Messages, Batch, Last
<1>3. /\ Len(messages') = n + 1 /\ messages'[n + 1] = [role |-> "tool", items |-> Results]
      /\ \A m \in 1..n : messages'[m] = messages[m]
  BY <1>1 DEF AgentInv, AgentTypeOK
<1>4. DOMAIN Results = 1..Batch /\ \A i \in 1..Batch : Results[i].call = messages[n].items[i]
  BY <1>2 DEF Results, ResultOf
<1>5. ASSUME NEW c \in Calls
      PROVE  /\ Cardinality(ResultsFor(c)') + Cardinality(DoneOf(c)') <= MaxIdentical
             /\ Cardinality(ResultsFor(c)') + Cardinality(DoneOf(c)') <= repeats'[c]
  <2> DEFINE new == {p \in {n + 1} \X (1..MaxToolCalls) : p[2] \in DoneOf(c)}
  <2>1. DoneOf(c) = {i \in 1..Batch : messages[n].items[i] = c} /\ DoneOf(c)' = {}
    <3>1. Len(pending) = 0 /\ Batch - 0 = Batch
      BY <1>1, <1>2
    <3> QED
      BY <1>1, <1>2, <3>1 DEF DoneOf
  <2>2. /\ IsFiniteSet(DoneOf(c)) /\ Cardinality(DoneOf(c)) \in Nat
        /\ IsFiniteSet(ResultsFor(c)) /\ Cardinality(ResultsFor(c)) \in Nat
    BY CountedFinite
  <2>3. IsFiniteSet(new) /\ Cardinality(new) <= Cardinality(DoneOf(c)) /\ Cardinality(new) \in Nat
    <3> DEFINE f == [p \in new |-> p[2]]
    <3>1. f \in [new -> DoneOf(c)]
      OBVIOUS
    <3>2. \A p, q \in new : f[p] = f[q] => p = q
      OBVIOUS
    <3>3. f \in Injection(new, DoneOf(c))
      BY <3>1, <3>2 DEF Injection, IsInjective
    <3> HIDE DEF f, new
    <3> QED
      BY <2>2, <3>3, FS_Injection, FS_CardinalityType
  <2>4. ResultsFor(c)' \subseteq ResultsFor(c) \cup new
    <3> SUFFICES ASSUME NEW p, p \in ResultsFor(c)', p \notin ResultsFor(c)
                 PROVE  p \in new
      OBVIOUS
    <3>1. /\ p \in (1..(n + 1)) \X (1..MaxToolCalls) /\ messages'[p[1]].role = "tool"
          /\ p[2] \in DOMAIN messages'[p[1]].items /\ messages'[p[1]].items[p[2]].call = c
      BY <1>3 DEF ResultsFor
    <3>2. p[1] = n + 1
      <4>1. p[1] \notin 1..n
        BY <1>3, <3>1 DEF ResultsFor
      <4> QED
        BY <1>2, <3>1, <4>1
    <3>3. p[2] \in DoneOf(c)
      <4>1. messages'[p[1]].items = Results
        BY <1>3, <3>2
      <4>2. p[2] \in 1..Batch /\ Results[p[2]].call = c
        BY <1>4, <3>1, <4>1
      <4>3. messages[n].items[p[2]] = c
        BY <1>4, <4>2
      <4> QED
        BY <2>1, <4>2, <4>3
    <3> QED
      BY <3>1, <3>2, <3>3
  <2> HIDE DEF new
  <2>5. Cardinality(ResultsFor(c)') <= Cardinality(ResultsFor(c)) + Cardinality(new)
    <3>1. /\ IsFiniteSet(ResultsFor(c) \cup new)
          /\ Cardinality(ResultsFor(c) \cup new) =
               Cardinality(ResultsFor(c)) + Cardinality(new) - Cardinality(ResultsFor(c) \cap new)
      BY <2>2, <2>3, FS_Union
    <3>2. Cardinality(ResultsFor(c) \cap new) \in Nat
      BY <2>2, FS_Intersection, FS_CardinalityType
    <3>3. IsFiniteSet(ResultsFor(c)') /\ Cardinality(ResultsFor(c)') <= Cardinality(ResultsFor(c) \cup new)
      BY <2>4, <3>1, FS_Subset
    <3>4. Cardinality(ResultsFor(c)') \in Nat /\ Cardinality(ResultsFor(c) \cup new) \in Nat
      BY <3>1, <3>3, FS_CardinalityType
    <3> QED
      BY <2>2, <2>3, <3>1, <3>2, <3>3, <3>4
  <2>6. Cardinality(ResultsFor(c)') \in Nat /\ Cardinality(DoneOf(c)') = 0
    <3>1. IsFiniteSet(ResultsFor(c) \cup new)
      BY <2>2, <2>3, FS_Union
    <3> QED
      BY <2>1, <2>4, <3>1, FS_Subset, FS_CardinalityType, FS_EmptySet
  <2>7. /\ Cardinality(ResultsFor(c)) + Cardinality(DoneOf(c)) <= MaxIdentical
        /\ Cardinality(ResultsFor(c)) + Cardinality(DoneOf(c)) <= repeats[c]
        /\ repeats[c] \in Nat /\ MaxIdentical \in Nat
    BY <1>1, AgentAssumption DEF CountInv, RepeatsCount
  <2> QED
    BY <1>1, <2>2, <2>3, <2>5, <2>6, <2>7
<1> QED
  BY <1>1, <1>5 DEF CountInv, RepeatsCount, PendingIsRest

LEMMA CountStep == AgentInv /\ CountInv /\ [Next]_vars => CountInv'
<1> SUFFICES ASSUME AgentInv, CountInv, [Next]_vars PROVE CountInv'
  OBVIOUS
<1>1. CASE ProviderFails \/ OutOfTurns
  BY <1>1, CountKept DEF ProviderFails, OutOfTurns, Fail
<1>2. ASSUME NEW text \in Answers, ModelAnswers(text) PROVE CountInv'
  BY <1>2, CountKept DEF ModelAnswers
<1>3. CASE UNCHANGED vars
  <2>1. UNCHANGED <<pc, messages, pending, repeats, Batch, Last(messages)>>
    BY <1>3 DEF vars, Batch, Last
  <2>2. \A c \in Calls : ResultsFor(c)' = ResultsFor(c) /\ DoneOf(c)' = DoneOf(c)
    BY <2>1 DEF ResultsFor, DoneOf
  <2> QED
    BY <2>1, <2>2 DEF CountInv, PendingIsRest, RepeatsCount
<1> QED
  BY <1>1, <1>2, <1>3, CountCalls, CountRun, CountSend DEF Next

\* No run makes more requests than MAX_TURNS, runs more tools than MAX_TOOL_CALLS
\* or sends more than MAX_IDENTICAL_CALLS results of one call, however the model
\* groups its calls and whatever the limits are.
THEOREM RunsAreBounded == Spec => []WithinBounds
<1>1. AgentInv /\ CountInv => WithinBounds
  <2> SUFFICES ASSUME AgentInv, CountInv PROVE WithinBounds
    OBVIOUS
  <2>1. turn <= MaxTurns /\ Len(executions) <= MaxToolCalls
    BY AgentAssumption DEF AgentInv, AgentTypeOK, ToolsAreBounded
  <2>2. ASSUME NEW c \in Calls PROVE Cardinality(ResultsFor(c)) <= MaxIdentical
    <3>1. Cardinality(ResultsFor(c)) \in Nat /\ Cardinality(DoneOf(c)) \in Nat /\ MaxIdentical \in Nat
      BY CountedFinite, AgentAssumption
    <3> QED
      BY <3>1 DEF CountInv, RepeatsCount
  <2> QED
    BY <2>1, <2>2 DEF WithinBounds
<1>2. Spec => []CountInv
  BY CountInit, CountStep, AgentInvariant, PTL DEF Spec
<1> QED
  BY <1>1, <1>2, AgentInvariant, PTL

-----------------------------------------------------------------------------
(* What a reply is made of.  Positions are found with Min and Max, so their  *)
(* existence is needed: every set of naturals has a least element, and a     *)
(* bounded one a greatest.                                                   *)
LEMMA SmallestOf ==
    ASSUME NEW S, S \subseteq Nat, S # {}
    PROVE  \E x \in S : \A y \in S : x <= y
<1>1. PICK x \in S : \A y \in S : <<y, x>> \notin OpToRel(<, Nat)
  BY NatLessThanWellFounded, WFMin
<1>2. \A y \in S : ~(y < x)
  BY <1>1 DEF OpToRel
<1>3. \A y \in S : x <= y
  BY <1>2
<1> QED
  BY <1>3

LEMMA MinOf ==
    ASSUME NEW S, S \subseteq Nat, S # {}
    PROVE  Min(S) \in S
  BY SmallestOf DEF Min

LEMMA MaxOf ==
    ASSUME NEW n \in Nat, NEW S, S \subseteq 1..n, S # {}
    PROVE  Max(S) \in S
<1> DEFINE D == {d \in Nat : n - d \in S}
<1>1. PICK s \in S : TRUE
  OBVIOUS
<1>2. n - s \in D
  BY <1>1
<1>3. PICK d \in D : \A e \in D : d <= e
  BY <1>2, SmallestOf
<1>4. ASSUME NEW y \in S PROVE n - d >= y
  <2>1. n - y \in D /\ y \in 1..n /\ d \in Nat
    OBVIOUS
  <2>2. d <= n - y
    BY <1>3, <2>1
  <2> QED
    BY <2>1, <2>2
<1>5. \E x \in S : \A y \in S : x >= y
  BY <1>4
<1> QED
  BY <1>5 DEF Max

\* The runs of the planner that have something to tell, and all such runs.
PlansOf(es) == {i \in 1..Len(es) : es[i].tool = "plan_day" /\ Narratable(es[i])}
ToldOf(es) == {i \in 1..Len(es) : Narratable(es[i])}

\* Only a plan asks back, and then it has nothing to tell.
AskingIsEmpty ==
    \A i \in DOMAIN executions :
        Asks(executions[i]) => executions[i].tool = "plan_day" /\ ~executions[i].data.rows

\* A reply is made of the executions the run ended with.
ReplyOfRun == pc = "done" => \E text \in Answers : envelope = Envelope(text, executions)

\* The primary execution is a plan if there is one to tell of.
LEMMA PrimaryIsPlan ==
    ASSUME NEW es, Len(es) \in Nat
    PROVE  /\ PlansOf(es) # {} => Primary(es) \in PlansOf(es)
           /\ Primary(es) # 0 => Primary(es) \in ToldOf(es)
<1>1. Primary(es) = IF (IF PlansOf(es) # {} THEN Min(PlansOf(es)) ELSE 0) # 0
                    THEN (IF PlansOf(es) # {} THEN Min(PlansOf(es)) ELSE 0)
                    ELSE (IF ToldOf(es) # {} THEN Min(ToldOf(es)) ELSE 0)
  BY DEF Primary, PlanFirst, FirstWith, SelectInSeq, PlansOf, ToldOf
<1>2. PlansOf(es) # {} => Min(PlansOf(es)) \in PlansOf(es)
  <2>1. PlansOf(es) \subseteq Nat
    BY DEF PlansOf
  <2> QED
    BY <2>1, MinOf
<1>3. ToldOf(es) # {} => Min(ToldOf(es)) \in ToldOf(es)
  <2>1. ToldOf(es) \subseteq Nat
    BY DEF ToldOf
  <2> QED
    BY <2>1, MinOf
<1>4. PlansOf(es) \subseteq ToldOf(es) /\ 0 \notin PlansOf(es)
  BY DEF PlansOf, ToldOf
<1> QED
  BY <1>1, <1>2, <1>3, <1>4

\* The text the code writes itself is about the primary execution.
LEMMA TextIsAboutPrimary ==
    ASSUME NEW es, Len(es) \in Nat, Primary(es) # 0,
           \A i \in 1..Len(es) : Asks(es[i]) => es[i].tool = "plan_day" /\ ~es[i].data.rows
    PROVE  BestForText(es) = Primary(es)
<1>1. ASSUME NEW i \in 1..Len(es) PROVE Narratable(es[i]) <=> es[i].ok /\ HasContent(es[i])
  BY DEF Narratable, Asks, HasContent
<1>2. PlansOf(es) = {i \in 1..Len(es) : es[i].tool = "plan_day" /\ es[i].ok /\ HasContent(es[i])}
  BY <1>1 DEF PlansOf
<1>3. ToldOf(es) = {i \in 1..Len(es) : es[i].ok /\ HasContent(es[i])}
  BY <1>1 DEF ToldOf
<1> DEFINE first == IF (IF PlansOf(es) # {} THEN Min(PlansOf(es)) ELSE 0) # 0
                    THEN (IF PlansOf(es) # {} THEN Min(PlansOf(es)) ELSE 0)
                    ELSE (IF ToldOf(es) # {} THEN Min(ToldOf(es)) ELSE 0)
<1>4. Primary(es) = first
  BY DEF Primary, PlanFirst, FirstWith, SelectInSeq, PlansOf, ToldOf
<1>5. first # 0 => BestForText(es) = first
  BY <1>2, <1>3 DEF BestForText, PlanFirst, FirstWith, SelectInSeq
<1> QED
  BY <1>4, <1>5

\* The structured result is a run that succeeded.
LEMMA ResultRan ==
    ASSUME NEW es, Len(es) \in Nat, RawResult(es) # 0
    PROVE  RawResult(es) \in 1..Len(es) /\ es[RawResult(es)].ok
<1> DEFINE I == {i \in 1..Len(es) : es[i].ok}
<1>1. RawResult(es) = IF Primary(es) # 0 THEN Primary(es) ELSE IF I # {} THEN Max(I) ELSE 0
  BY DEF RawResult, SelectLastInSeq
<1>2. I # {} => Max(I) \in I
  BY MaxOf
<1>3. Primary(es) # 0 => Primary(es) \in 1..Len(es) /\ es[Primary(es)].ok
  BY PrimaryIsPlan DEF ToldOf, Narratable
<1> QED
  BY <1>1, <1>2, <1>3

LEMMA AskingStep == AgentInv /\ AskingIsEmpty /\ [Next]_vars => AskingIsEmpty'
<1> SUFFICES ASSUME AgentInv, AskingIsEmpty, [Next]_vars PROVE AskingIsEmpty'
  OBVIOUS
<1>1. CASE executions' = executions
  BY <1>1 DEF AskingIsEmpty
<1>2. CASE RunCall /\ executions' # executions
  <2>1. /\ pc = "dispatch" /\ pending # <<>> /\ Head(pending) \in Calls
    BY <1>2 DEF RunCall, AgentInv, AgentTypeOK
  <2>2. PICK e \in Dispatch(Head(pending)) : executions' = Append(executions, e)
    BY <1>2 DEF RunCall, Fail
  <2>3. Asks(e) => e.tool = "plan_day" /\ ~e.data.rows
    <3> SUFFICES ASSUME Asks(e) PROVE e.tool = "plan_day" /\ ~e.data.rows
      OBVIOUS
    <3>1. e \notin {Refused(Head(pending), code) : code \in Codes}
      BY DEF Asks, State, Refused
    <3>2. /\ Head(pending).tool \in DOMAIN ToolResults
          /\ e \in {Ran(Head(pending), d) : d \in HandlerResults(Head(pending))}
      BY <2>2, <3>1 DEF Dispatch, Codes
    <3>3. PICK d \in HandlerResults(Head(pending)) : e = Ran(Head(pending), d)
      BY <3>2
    <3>4. d.state = "clarification_needed" /\ e.tool = Head(pending).tool /\ e.data = d
      BY <3>3 DEF Asks, State, Ran
    <3>5. d \notin ToolResults[Head(pending).tool] /\ d # NotConnected
      BY <3>2, <3>4, ClarificationAssumption DEF NotConnected
    <3>6. Head(pending).tool = "plan_day" /\ d = Clarification
      BY <3>5 DEF HandlerResults
    <3> QED
      BY <3>4, <3>6 DEF Clarification
  <2>4. /\ DOMAIN executions' = DOMAIN executions \cup {Len(executions) + 1}
        /\ executions'[Len(executions) + 1] = e
        /\ \A i \in DOMAIN executions : executions'[i] = executions[i]
    <3>1. e \in Executions
      BY <2>1, <2>2, Dispatched DEF AgentInv, AgentTypeOK
    <3> QED
      BY <2>2, <3>1 DEF AgentInv, AgentTypeOK
  <2> QED
    BY <2>3, <2>4 DEF AskingIsEmpty, Asks, State
<1>3. executions' = executions \/ RunCall
  BY DEF Next, ProviderFails, SendResults, OutOfTurns, ModelCalls, ModelAnswers, Fail, vars
<1> QED
  BY <1>1, <1>2, <1>3

LEMMA ReplyStep == ReplyOfRun /\ [Next]_vars => ReplyOfRun'
<1> SUFFICES ASSUME ReplyOfRun, [Next]_vars PROVE ReplyOfRun'
  OBVIOUS
<1>1. CASE UNCHANGED vars
  BY <1>1 DEF vars, ReplyOfRun
<1>2. CASE ProviderFails \/ RunCall \/ SendResults \/ OutOfTurns
  BY <1>2 DEF ReplyOfRun, ProviderFails, RunCall, SendResults, OutOfTurns, Fail
<1>3. ASSUME NEW calls, ModelCalls(calls) PROVE ReplyOfRun'
  BY <1>3 DEF ReplyOfRun, ModelCalls, Fail
<1>4. ASSUME NEW text \in Answers, ModelAnswers(text) PROVE ReplyOfRun'
  BY <1>4 DEF ReplyOfRun, ModelAnswers
<1> QED
  BY <1>1, <1>2, <1>3, <1>4 DEF Next

\* The text and the structured part of every reply are about the same tool run,
\* a plan whenever the run made one, for any sequence of tool runs.
THEOREM RepliesAreCoherent == Spec => []ReplyIsCoherent
<1>1. AgentInv /\ AskingIsEmpty /\ ReplyOfRun => ReplyIsCoherent
  <2> SUFFICES ASSUME AgentInv, AskingIsEmpty, ReplyOfRun, pc = "done" PROVE ReplyIsCoherent
    BY DEF ReplyIsCoherent
  <2> DEFINE es == executions
  <2>1. Len(es) \in Nat /\ DOMAIN es = 1..Len(es)
    BY DEF AgentInv, AgentTypeOK
  <2>2. PICK text \in Answers : envelope = Envelope(text, es)
    BY DEF ReplyOfRun
  <2>3. /\ envelope.result = RawResult(es) /\ envelope.sources = Sources(es)
        /\ envelope.about = IF Grounded(text, es) THEN None ELSE BestForText(es)
        /\ envelope.replaced = ~Grounded(text, es)
    BY <2>2 DEF Envelope
  <2>4. PlansOf(es) = {i \in DOMAIN es : es[i].tool = "plan_day" /\ Narratable(es[i])}
    BY <2>1 DEF PlansOf
  <2>5. PlansOf(es) # {} => RawResult(es) \in PlansOf(es)
    <3>1. 0 \notin PlansOf(es)
      BY DEF PlansOf
    <3> QED
      BY <2>1, <3>1, PrimaryIsPlan DEF RawResult
  <2>6. RawResult(es) # 0 => es[RawResult(es)].tool \in Sources(es)
    BY <2>1, ResultRan DEF Sources
  <2>7. Primary(es) # 0 => RawResult(es) = Primary(es) /\ BestForText(es) = Primary(es)
    BY <2>1, TextIsAboutPrimary DEF RawResult, AskingIsEmpty
  <2>8. PlansOf(es) # {} => ~Asks(es[RawResult(es)])
    BY <2>5 DEF PlansOf, Narratable, Asks
  <2> QED
    BY <2>3, <2>4, <2>5, <2>6, <2>7, <2>8 DEF ReplyIsCoherent
<1>2. Init => AskingIsEmpty /\ ReplyOfRun
  BY DEF Init, AskingIsEmpty, ReplyOfRun
<1> QED
  BY <1>1, <1>2, AskingStep, ReplyStep, AgentInvariant, PTL DEF Spec
=============================================================================
