----------------------------- MODULE IcsCalendar -----------------------------
(***************************************************************************)
(* A student's calendar file (classes.py): the line machine that reads its *)
(* events, and the dated meetings of one weekly event.  A line is one of   *)
(* LineKinds; "facts" stands for UID and DTSTART, "exdate" for a part that *)
(* is not supported.  Days are numbers, day d a weekday d % IcsWeek.       *)
(***************************************************************************)
EXTENDS Lookup, Integers, Sequences, FiniteSets

CONSTANTS MaxIcsEvents, MaxIcsOccurrences, MaxIcsWindow,
          IcsWeek,     \* days of a week
          IcsDay,      \* ticks of a day
          NoLimit      \* no COUNT, no UNTIL, an open end of the window

ASSUME IcsAssumption ==
    /\ {IcsWeek, IcsDay, MaxIcsOccurrences} \subseteq Nat \ {0} /\ {MaxIcsEvents, MaxIcsWindow} \subseteq Nat
    /\ NoLimit \notin Int

LineKinds == {"BEGIN:VEVENT", "END:VEVENT", "BEGIN", "END", "facts", "exdate"}

(* parse_ics: one line at a time; an event is named by its first line.     *)
Outside == [in |-> FALSE, discard |-> FALSE, depth |-> 0, sub |-> 0, at |-> 0, props |-> {},
            events |-> {}, errors |-> FALSE]

Close(p) == [p EXCEPT !.in = FALSE, !.discard = FALSE, !.depth = 0, !.sub = 0]
Fail(p)  == [Close(p) EXCEPT !.errors = TRUE]

BeginEvent(p, at) ==
    IF p.in THEN [p EXCEPT !.errors = TRUE, !.discard = TRUE, !.depth = @ + 1]
    ELSE [p EXCEPT !.in = TRUE, !.depth = 1, !.at = at, !.props = {}]

\* _build_event takes what has its facts and nothing unsupported.
BuildEvent(p) ==
    IF Cardinality(p.events) >= MaxIcsEvents \/ "facts" \notin p.props \/ "exdate" \in p.props
    THEN Fail(p)
    ELSE [Close(p) EXCEPT !.events = @ \cup {p.at}]

EndEvent(p) ==
    CASE ~p.in                                 -> [p EXCEPT !.errors = TRUE]
      [] p.in /\ p.depth > 1                   -> [p EXCEPT !.depth = @ - 1]
      [] p.in /\ p.depth <= 1 /\ p.sub > 0     -> Fail(p)
      [] p.in /\ p.depth <= 1 /\ p.sub = 0     -> IF p.discard THEN Close(p) ELSE BuildEvent(p)

InnerLine(p, line) ==
    CASE line = "BEGIN" -> [p EXCEPT !.sub = @ + 1]
      [] line = "END"   -> [p EXCEPT !.sub = IF @ > 0 THEN @ - 1 ELSE 0]
      [] OTHER          -> IF p.sub > 0 THEN p ELSE [p EXCEPT !.props = @ \cup {line}]

ReadLine(text, p, i) ==
    CASE text[i] = "BEGIN:VEVENT" -> BeginEvent(p, i)
      [] text[i] = "END:VEVENT"   -> EndEvent(p)
      [] OTHER                    -> IF p.in THEN InnerLine(p, text[i]) ELSE p

ParseIcs(q) ==
    LET read[i \in 0..Len(q.text)] == IF i = 0 THEN Outside ELSE ReadLine(q.text, read[i - 1], i)
        p == read[Len(q.text)]
    IN  IF q.frame \in {"too long", "no BEGIN:VCALENDAR"} THEN [events |-> {}, valid |-> FALSE]
        ELSE [events |-> p.events, valid |-> ~p.errors /\ ~p.in /\ q.frame # "no END:VCALENDAR"]

(* expand_ics_event: week after week, the weekdays in order.               *)
Monday(d) == d - (d % IcsWeek)
Least(a, b) == IF a = NoLimit \/ (b # NoLimit /\ b < a) THEN b ELSE a

\* The window the walk keeps.
WindowOf(e) ==
    LET from == IF e.from = NoLimit \/ e.from < e.first THEN e.first ELSE e.from
        to   == IF e.to = NoLimit /\ e.until = NoLimit THEN e.first + MaxIcsWindow
                ELSE Least(e.to, IF e.until = NoLimit THEN NoLimit ELSE e.until.day)
    IN  [from |-> from, to |-> Least(to, from + MaxIcsWindow)]

VisitDay(e, w, acc, d) ==
    LET n == acc.n + 1
        late == e.until # NoLimit /\ (d > e.until.day \/ (d = e.until.day /\ e.tick > e.until.tick))
    IN  IF acc.done \/ d < e.first THEN acc
        ELSE IF e.count # NoLimit /\ n > e.count THEN [acc EXCEPT !.done = TRUE]
        ELSE IF d < w.from \/ d > w.to THEN [acc EXCEPT !.n = n]
        ELSE IF late THEN [acc EXCEPT !.done = TRUE]
        ELSE [n |-> n, days |-> acc.days \cup {d}, done |-> Cardinality(acc.days) + 1 >= MaxIcsOccurrences]

ExpandIcs(e) ==
    LET w     == WindowOf(e)
        weeks == {k \in 0..(w.to + IcsWeek) : Monday(e.first) + k * IcsWeek * e.interval - (IcsWeek - 1) <= w.to}
        days  == {Monday(e.first) + k * IcsWeek * e.interval + d : k \in weeks, d \in e.days}
        \* what the walk has after the days before n
        walk[n \in 0..w.to + 2 * IcsWeek] ==
            IF n = 0 THEN [n |-> 0, days |-> {}, done |-> FALSE]
            ELSE IF n - 1 \in days THEN VisitDay(e, w, walk[n - 1], n - 1) ELSE walk[n - 1]
    IN  IF e.recurring THEN walk[w.to + 2 * IcsWeek].days
        ELSE {d \in {e.first} : (e.from = NoLimit \/ d >= e.from) /\ (e.to = NoLimit \/ d <= e.to)}

ReadCalendar  == ask.of = "ics" /\ Reply("ics", ParseIcs(ask))
ExpandEvent   == ask.of = "meetings" /\ Reply("meetings", ExpandIcs(ask))
IcsNext       == ReadCalendar \/ ExpandEvent

\* A weekly event [first, tick, days, interval, count, until] and a window [from, to].
EventAsked(e) ==
    /\ e.first \in Nat /\ e.tick \in 0..IcsDay - 1 /\ e.days \subseteq 0..IcsWeek - 1
    /\ e.interval \in Nat \ {0} /\ {e.count, e.from, e.to} \subseteq Nat \cup {NoLimit}
    /\ e.until = NoLimit \/ e.until \in [day : Nat, tick : 0..IcsDay - 1]

IcsAsked ==
    /\ ask.of = "ics" => ask.text \in Seq(LineKinds)
    /\ ask.of = "meetings" => EventAsked(ask)

IcsSpec == answer = NoAnswer /\ IcsAsked /\ [][IcsNext]_lookupVars
-----------------------------------------------------------------------------
\* A sub-component opened after line i is still open at line k.
SubOpen(text, i, k) ==
    \E m \in i + 1..k - 1 : \A n \in m..k - 1 :
        Cardinality({x \in m..n : text[x] = "BEGIN"}) > Cardinality({x \in m..n : text[x] = "END"})

\* The event that begins at line i ends at line j with its facts, and is nothing else's.
CleanEvent(text, i, j) ==
    /\ text[j] = "END:VEVENT" /\ \A k \in i + 1..j - 1 : text[k] \notin {"BEGIN:VEVENT", "END:VEVENT"}
    /\ ~SubOpen(text, i, j)
    /\ \E k \in i + 1..j - 1 : text[k] = "facts" /\ ~SubOpen(text, i, k)
    /\ \A k \in i + 1..j - 1 : text[k] = "exdate" => SubOpen(text, i, k)

(* Every event that is read has its own facts, at its own level; and a     *)
(* calendar that counts as valid is read whole: each of its events is      *)
(* there, and no line of it belongs to none (classes.py:2022-2207).        *)
ValidIsWhole ==
    Told("ics") =>
        LET begins == {i \in DOMAIN ask.text : ask.text[i] = "BEGIN:VEVENT"}
            ends   == {i \in DOMAIN ask.text : ask.text[i] = "END:VEVENT"}
        IN  /\ \A i \in answer.events : \E j \in i + 1..Len(ask.text) : CleanEvent(ask.text, i, j)
            /\ answer.valid => answer.events = begins /\ Cardinality(begins) = Cardinality(ends)

(* The meetings are the days of the pattern: every interval-th week from   *)
(* the first, on its weekdays, no more than COUNT counted from the first,  *)
(* none after UNTIL, the first ones if there are too many                  *)
(* (classes.py:2227-2313).                                                 *)
MeetingsAreThePattern ==
    Told("meetings") /\ ask.recurring =>
        LET w == WindowOf(ask)
            pattern == {d \in ask.first..w.to : d % IcsWeek \in ask.days
                            /\ ((Monday(d) - Monday(ask.first)) \div IcsWeek) % ask.interval = 0}
            dated == {d \in pattern : d >= w.from
                          /\ (ask.count # NoLimit => Cardinality({x \in pattern : x <= d}) <= ask.count)
                          /\ (ask.until # NoLimit => d * IcsDay + ask.tick <= ask.until.day * IcsDay + ask.until.tick)}
        IN  /\ answer \subseteq dated
            /\ answer # dated => Cardinality(answer) = MaxIcsOccurrences
                                 /\ \A d \in answer, x \in dated \ answer : d < x

(* The calendar answers hold what they promise.                            *)
CalendarIsKept == ValidIsWhole /\ MeetingsAreThePattern
=============================================================================
