------------------------------ MODULE Schedule ------------------------------
(***************************************************************************)
(* The student's schedule (agent_tools.py): which entries fall on a day,   *)
(* and the time left free in a meal's window.  Days are numbered, times    *)
(* are in ticks from the day's midnight.                                   *)
(***************************************************************************)
EXTENDS Lookup, Integers, Sequences, FiniteSets

CONSTANTS ScheduleDay, Week,   \* ticks of a day, days of a week
          MealFrom, MealTo       \* the meal's window

ASSUME ScheduleAssumption ==
    Week \in Nat \ {0} /\ ScheduleDay \in Nat /\ MealFrom \in Nat /\ MealTo \in Nat /\ MealFrom < MealTo

\* _resolve_day: a weekday is the next such day, today included.
ResolveDay(day, today) ==
    IF day.named THEN today + ((day.value - (today % Week)) % Week) ELSE day.value

WellFormed(e) == 0 < e.len /\ e.len <= ScheduleDay

\* Mutant: a weekly entry is not stopped by its end date.
OccursForever(e, day) ==
    WellFormed(e) /\ CASE e.repeat = "none"   -> e.day = day
                       [] e.repeat = "weekly" -> e.day <= day /\ (day - e.day) % Week = 0
                       [] OTHER               -> FALSE

\* _schedule_occurrences: an entry belongs to the day it starts on.
Occurs(e, day) ==
    WellFormed(e) /\ CASE e.repeat = "none"   -> e.day = day
                       [] e.repeat = "weekly" -> e.day <= day /\ (day - e.day) % Week = 0 /\ day <= e.until
                       [] OTHER               -> FALSE

Later(a, b) == IF a > b THEN a ELSE b

\* The entries of the day, cut to the meal's window, in order.
Busy(entries, day) ==
    LET cut == {<<Later(e.start, MealFrom), IF e.start + e.len < MealTo THEN e.start + e.len ELSE MealTo>> :
                   e \in {x \in entries : Occurs(x, day) /\ x.start + x.len > MealFrom /\ x.start < MealTo}}
    IN  InOrder(cut, {p \in cut \X cut : p[1][1] < p[2][1] \/ (p[1][1] = p[2][1] /\ p[1][2] < p[2][2])})

Absorb(merged, b) ==
    IF merged # <<>> /\ b[1] <= merged[Len(merged)][2]
    THEN [merged EXCEPT ![Len(merged)] = <<@[1], Later(@[2], b[2])>>]
    ELSE Append(merged, b)

Merge(busy) ==
    LET merged[n \in 0..Len(busy)] == IF n = 0 THEN <<>> ELSE Absorb(merged[n - 1], busy[n])
    IN  merged[Len(busy)]

\* _available_windows: the gaps of at least `minimum`.
Available(entries, day, minimum) ==
    LET merged == Merge(Busy(entries, day))
        gap(from, to) == IF to - from >= minimum THEN {<<from, to>>} ELSE {}
        walk[n \in 0..Len(merged)] ==
            IF n = 0 THEN [cursor |-> MealFrom, free |-> {}]
            ELSE [cursor |-> Later(walk[n - 1].cursor, merged[n][2]),
                  free |-> walk[n - 1].free \cup gap(walk[n - 1].cursor, merged[n][1])]
        end == walk[Len(merged)]
    IN  end.free \cup gap(end.cursor, MealTo)

\* A question has the entries [day, start, len, repeat, until] and the day meant.
Look ==
    /\ ask.of = "schedule"
    /\ LET day == ResolveDay(ask.day, ask.today)
       IN  Reply("schedule", [day |-> day, entries |-> {e \in ask.entries : Occurs(e, day)},
                              free |-> Available(ask.entries, day, ask.minimum)])

\* Finitely many entries, which start at a time of their day; the shortest stretch
\* worth telling of is not empty.
EntryOK(e) == e.day \in Nat /\ {e.len, e.until} \subseteq Int /\ e.start \in 0..(ScheduleDay - 1)

ScheduleAsked ==
    ask.of = "schedule" =>
        /\ IsFiniteSet(ask.entries) /\ \A e \in ask.entries : EntryOK(e)
        /\ ask.minimum \in Nat \ {0} /\ {ask.today, ask.day.value} \subseteq Int

ScheduleSpec == answer = NoAnswer /\ ScheduleAsked /\ [][Look]_lookupVars
-----------------------------------------------------------------------------
\* Entry e is under way at tick t of the day, one of the days it was entered for.
UnderWay(e, day, t) ==
    /\ 0 < e.len /\ e.len <= ScheduleDay /\ t \in e.start..(e.start + e.len - 1)
    /\ \/ e.repeat = "none" /\ e.day = day
       \/ e.repeat = "weekly" /\ \E n \in 0..(day \div Week) : e.day + n * Week = day /\ day <= e.until

(* The free windows are the longest stretches of the meal's window in which  *)
(* nothing that starts that day is under way: none overlaps such an entry,   *)
(* none can be made longer, and no long enough one is missing.  The tool     *)
(* does not look at the day before: what is under way in a free window all   *)
(* the same began then and ran past midnight (agent_tools.py:199-275).       *)
FreeTimeIsFree ==
    Told("schedule") =>
        LET free(t) == t \in MealFrom..(MealTo - 1) /\ \A e \in ask.entries : ~UnderWay(e, answer.day, t)
        IN  /\ answer.free = {w \in (MealFrom..MealTo) \X (MealFrom..MealTo) :
                                 /\ w[2] - w[1] >= ask.minimum /\ w[1] < w[2]
                                 /\ \A t \in w[1]..(w[2] - 1) : free(t)
                                 /\ ~free(w[1] - 1) /\ ~free(w[2])}
            /\ \A w \in answer.free : \A t \in w[1]..(w[2] - 1), e \in ask.entries, d \in 0..answer.day :
                   UnderWay(e, d, t + (answer.day - d) * ScheduleDay) => d = answer.day - 1
=============================================================================
