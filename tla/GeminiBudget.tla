----------------------------- MODULE GeminiBudget ----------------------------
(***************************************************************************)
(* The two guards in front of the shared Gemini key: the ledger of         *)
(* app/gemini_provider.py, a file of call times that outlives the process, *)
(* and the per-client question queue of app/server.py, which does not.     *)
(*                                                                         *)
(* Request threads of one server process ask questions.  An admitted       *)
(* question makes up to MaxTurns provider calls, and each of them reads    *)
(* the clock, then takes _BUDGET_LOCK, and under it reads, checks and      *)
(* rewrites the file.  What the lock covers is one step here; the wait for *)
(* it, in which other threads and the clock go on, is not.                 *)
(*                                                                         *)
(* The list of times in the file is the set of the calls they are of: it   *)
(* is sorted whenever it is read, so only its last entries, the latest     *)
(* stamps, are told from the others.                                       *)
(***************************************************************************)
EXTENDS Integers, Sequences, FiniteSets

CONSTANTS Askers, Clients,
          HourLimits, DayLimits, \* what _budget_limits() may be configured to
          ClientLimit,           \* HOKIEFLOW_AI_QUESTIONS_PER_IP_HOUR
          Keep,                  \* the stamps a save keeps: stamps[-500:]
          Hour, Day,             \* 3600 and 86400 s, scaled
          MaxTurns,              \* provider calls one question may make
          Lag,                   \* how long a thread may wait for _BUDGET_LOCK
          MaxInstant, MaxFaults, MaxCalls  \* bounds: the clock, saves that fail, calls noted

ASSUME BudgetAssumption ==
    /\ {ClientLimit, Keep, Hour, Day, MaxTurns} \subseteq Nat \ {0}
    /\ HourLimits \subseteq Nat \ {0} /\ DayLimits \subseteq Nat \ {0}
    /\ Lag \in Nat /\ Lag < Hour /\ Hour <= Day
    /\ {MaxInstant, MaxFaults, MaxCalls} \subseteq Nat

VARIABLES time,
          limits,   \* the provider calls allowed [hour, day] in this deployment
          ledger,   \* cache/ai_provider_calls.json: the calls whose stamps it holds
          queue,    \* _CLIENT_QUESTION_TIMES: the questions whose times it holds
          at,       \* where a question is
          clock,    \* clock[t]: the `now` _reserve_budget read before the lock
          turn,     \* turn[t]: provider calls this question has begun
          calls,    \* history: calls let through and noted: when, and as of when
          asked,    \* history: asked[c]: when this process let questions of c in
          faults

budgetVars == <<time, limits, ledger, queue, at, clock, turn, calls, asked, faults>>

Instants == 0..MaxInstant

BudgetInit ==
    /\ time = 0
    /\ limits \in [hour : HourLimits, day : DayLimits]
    /\ ledger = {}
    /\ queue = [c \in Clients |-> {}]
    /\ at = [t \in Askers |-> "idle"]
    /\ clock = [t \in Askers |-> 0]
    /\ turn = [t \in Askers |-> 0]
    /\ calls = << >>
    /\ asked = [c \in Clients |-> << >>]
    /\ faults = 0

Go(t, label) == at' = [at EXCEPT ![t] = label]
-----------------------------------------------------------------------------
\* The queue with its expired front popped.
Unexpired(c) == {i \in queue[c] : time - asked[c][i] < Hour}

HasRoom(c) == Cardinality(Unexpired(c)) < ClientLimit

\* POST /api/ask: _client_agent_budget_available.  _CLIENT_BUDGET_LOCK is never
\* held for more than a few steps on a queue in memory: the clock, read before
\* it, is still right.  A refusal (429) leaves the popped queue behind and the
\* question is over.
Ask(t, c) ==
    /\ at[t] = "idle"
    /\ \/ /\ HasRoom(c)
          /\ asked' = [asked EXCEPT ![c] = Append(@, time)]
          /\ queue' = [queue EXCEPT ![c] = Unexpired(c) \cup {Len(asked'[c])}]
          /\ Go(t, "turn")
       \/ /\ ~HasRoom(c)
          /\ queue' = [queue EXCEPT ![c] = Unexpired(c)]
          /\ UNCHANGED <<asked, at>>
    /\ UNCHANGED <<time, ledger, clock, turn, calls, faults>>

\* The next provider.generate of run_agent, up to time.time() in _reserve_budget.
ReadClock(t) ==
    /\ at[t] = "turn" /\ turn[t] < MaxTurns
    /\ clock' = [clock EXCEPT ![t] = time]
    /\ turn' = [turn EXCEPT ![t] = @ + 1]
    /\ Go(t, "reserve")
    /\ UNCHANGED <<time, ledger, queue, calls, asked, faults>>

\* Mutant of Today: a stamp is forgotten once it no longer matters for the hour.
TodayOfHour(n) == {i \in ledger : n - calls[i].stamp < Hour}

\* The stamps of the last day, as a thread whose clock said n sees them.
Today(n) == {i \in ledger : n - calls[i].stamp < Day}
InHour(n) == {i \in Today(n) : n - calls[i].stamp < Hour}

Exhausted(n) == Cardinality(InHour(n)) >= limits.hour \/ Cardinality(Today(n)) >= limits.day

\* stamps[-500:]: the new stamp is the last, and the latest of the day go with it.
Latest(n) ==
    {K \in SUBSET Today(n) :
        /\ Cardinality(K) = IF Cardinality(Today(n)) < Keep THEN Cardinality(Today(n)) ELSE Keep - 1
        /\ \A k \in K : \A i \in Today(n) \ K : calls[i].stamp <= calls[k].stamp}

\* _reserve_budget under _BUDGET_LOCK.  Writing the file may fail (OSError,
\* swallowed): the call goes ahead although nothing notes it.
Reserve(t) ==
    LET n == clock[t] IN
    /\ at[t] = "reserve"
    /\ \/ /\ Exhausted(n)
          /\ Go(t, "idle")
          /\ turn' = [turn EXCEPT ![t] = 0]
          /\ UNCHANGED <<ledger, calls, faults>>
       \/ /\ ~Exhausted(n)
          /\ \/ /\ Len(calls) < MaxCalls
                /\ calls' = Append(calls, [made |-> time, stamp |-> n])
                /\ \E K \in Latest(n) : ledger' = K \cup {Len(calls')}
                /\ UNCHANGED faults
             \/ /\ faults < MaxFaults
                /\ faults' = faults + 1
                /\ UNCHANGED <<ledger, calls>>
          /\ Go(t, "turn")
          /\ UNCHANGED turn
    /\ clock' = [clock EXCEPT ![t] = 0]      \* out of scope from here on
    /\ UNCHANGED <<time, queue, asked>>

\* The question is over: a final text or an error from the provider, or no
\* provider call left to it (turn_limit).  What the call itself takes is time
\* spent in "turn".
Finish(t) ==
    /\ at[t] = "turn" /\ turn[t] > 0
    /\ turn' = [turn EXCEPT ![t] = 0]
    /\ Go(t, "idle")
    /\ UNCHANGED <<time, ledger, queue, clock, calls, asked, faults>>

\* Time passes, but no thread waits for the lock longer than Lag: it is only
\* ever held to read and write a small file.
TimePasses ==
    /\ time < MaxInstant
    /\ \A t \in Askers : at[t] = "reserve" => time - clock[t] < Lag
    /\ time' = time + 1
    /\ UNCHANGED <<ledger, queue, at, clock, turn, calls, asked, faults>>

\* Mutant of Restart: a ledger in memory.
RestartForgets ==
    /\ ledger' = {}
    /\ queue' = [c \in Clients |-> {}]
    /\ asked' = [c \in Clients |-> << >>]
    /\ at' = [t \in Askers |-> "idle"]
    /\ turn' = [t \in Askers |-> 0]
    /\ clock' = [t \in Askers |-> 0]
    /\ UNCHANGED <<time, calls, faults>>

\* The server is started again: the queues and the questions are gone.
ServerStarts ==
    /\ queue' = [c \in Clients |-> {}]
    /\ asked' = [c \in Clients |-> << >>]
    /\ at' = [t \in Askers |-> "idle"]
    /\ turn' = [t \in Askers |-> 0]
    /\ clock' = [t \in Askers |-> 0]
    /\ UNCHANGED <<time, ledger, calls, faults>>

BudgetNext ==
    /\ \/ \E t \in Askers :
             \/ \E c \in Clients : Ask(t, c)
             \/ ReadClock(t) \/ Reserve(t) \/ Finish(t)
       \/ TimePasses \/ ServerStarts
    /\ UNCHANGED limits

BudgetSpec == BudgetInit /\ [][BudgetNext]_budgetVars
-----------------------------------------------------------------------------
\* The calls made in the `length` units of time that end with x, and the
\* questions of a client in the hour that does.
CallsIn(x, length) == {i \in DOMAIN calls : calls[i].made <= x /\ x - calls[i].made < length}
AskedIn(c, x) == {i \in DOMAIN asked[c] : asked[c][i] <= x /\ x - asked[c][i] < Hour}

HourIsWithinLimit == \A x \in Instants : Cardinality(CallsIn(x, Hour - Lag)) <= limits.hour
DayIsWithinLimit == \A x \in Instants : Cardinality(CallsIn(x, Day - Lag)) <= limits.day
ClientsAreWithinLimit == \A c \in Clients : \A x \in Instants : Cardinality(AskedIn(c, x)) <= ClientLimit

\* "Guard the shared account quota ... across restarts": whichever stretch of
\* time one looks at, no more calls were let through in it than the limits
\* allow, however many threads came out of the wait for the lock with an old
\* clock, and however often the server was started again.  A thread stamps its
\* call with the clock it read before it waited, so the stretch for which the
\* limit holds is an hour (a day) less the longest wait.  A client's limit is
\* for any hour of one process's life.
QuotaIsGuarded == HourIsWithinLimit /\ DayIsWithinLimit /\ ClientsAreWithinLimit

\* What is left of it when a limit may be more than the stamps that are kept, as
\* both are with the defaults (gemini_provider.py: 600 and 3000, against 500): a
\* limit that the file can hold is kept, whatever the other one is.
WithinLimits ==
    /\ limits.hour <= Keep => HourIsWithinLimit
    /\ limits.day <= Keep => DayIsWithinLimit
    /\ ClientsAreWithinLimit

Known(length) == \A i \in DOMAIN calls : time - calls[i].stamp < length => i \in ledger

\* The file still knows every call that can matter to a limit it can hold: none
\* of the hour (the day) has been pruned, truncated or overwritten.  With any
\* limits, a call is given up before its day is over only for a file full of
\* later ones, give or take the wait for the lock.
LedgerIsComplete ==
    /\ limits.hour <= Keep => Known(Hour)
    /\ limits.day <= Keep => Known(Day)
    /\ \A i \in DOMAIN calls : time - calls[i].stamp < Day - Lag /\ i \notin ledger =>
          Cardinality(ledger) = Keep /\ \A k \in ledger : calls[i].stamp - Lag <= calls[k].stamp
=============================================================================
