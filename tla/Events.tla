------------------------------- MODULE Events -------------------------------
(***************************************************************************)
(* The questions asked of an events snapshot: the get_events tool          *)
(* (tools.py), the home page's list (ui_files.campus_events_endpoint), and *)
(* the two steps of events.py that a crawl builds it with: what one page   *)
(* says, and the collapse of duplicates.  Days are numbers, Month the ones *)
(* the snapshot covers; times are ticks, EventDay of them to a day.        *)
(***************************************************************************)
EXTENDS Lookup, Integers, FiniteSets, Functions

CONSTANTS Month, EventDay,
          EventsStaleAfter,    \* EVENTS_STALE_AFTER_H
          CalendarLimit,
          NotSaid, NoSnapshot

ASSUME EventsAssumption ==
    /\ EventDay \in Nat \ {0} /\ Month \subseteq Int
    /\ NotSaid \notin Int /\ NotSaid \notin BOOLEAN

DayOf(t) == t \div EventDay

\* An end that is not said is an unknown duration.
InvalidRange(e) == e.end # NotSaid /\ e.end < e.start

(* browse, and what LocalSource.events makes of it.                        *)
Health(s) ==
    CASE s.failures               -> "partial"
      [] ~s.failures /\ s.rows = {} -> "empty"
      [] OTHER -> IF s.age = NotSaid \/ s.age > EventsStaleAfter THEN "stale" ELSE "ok"

\* _event_date_filter: a date it cannot read filters nothing.
WantedDay(q) ==
    CASE q.date = "today" -> q.today
      [] q.date = "tomorrow" -> q.today + 1
      [] OTHER -> NotSaid

\* Mutant: a degraded snapshot without a match is reported as a clean no-match.
BrowseStateByMatch(s, matched, filtered) ==
    IF matched = {} /\ filtered THEN "no-match" ELSE Health(s)

BrowseState(s, matched, filtered) ==
    IF Health(s) \notin {"partial", "stale"} /\ matched = {} /\ filtered THEN "no-match" ELSE Health(s)

EventsFound(q) ==
    LET day     == WantedDay(q)
        matched == {e \in q.snap.rows : day = NotSaid \/ DayOf(e.start) = day}
        rows    == {e \in matched : q.tags \subseteq e.tags}
        state   == IF Health(q.snap) = "empty" THEN "empty"
                   ELSE BrowseState(q.snap, matched, day # NotSaid)
    IN  CASE q.snap = NoSnapshot -> [rows |-> {}, state |-> "empty"]
          [] q.snap # NoSnapshot /\ day # NotSaid /\ day \notin Month -> [rows |-> {}, state |-> "out-of-scope"]
          [] OTHER -> [rows  |-> rows,
                       state |-> IF rows # {} \/ state \in {"empty", "partial", "stale"} THEN state ELSE "no-match"]

(* campus_events_endpoint: what has not begun, as calendar rows.           *)
\* to_calendar_event: an all-day event lasts to the day after, or to the later day it says.
CalendarEnd(e) ==
    IF e.allDay
    THEN EventDay * (IF e.end # NotSaid /\ DayOf(e.end) > DayOf(e.start) THEN DayOf(e.end) ELSE DayOf(e.start) + 1)
    ELSE e.end

Upcoming(q) ==
    LET open  == {e \in q.snap.rows : e.start >= q.now /\ e.status \notin {"cancelled", "uncertain"}}
        first == {e \in open : Cardinality({f \in open : f.start < e.start \/ (f.start = e.start /\ f.id < e.id)})
                               < CalendarLimit}
    IN  CASE q.snap = NoSnapshot -> [rows |-> {}, state |-> "unavailable"]
          [] q.snap # NoSnapshot /\ DayOf(q.now) \notin Month -> [rows |-> {}, state |-> "out-of-scope"]
          [] OTHER ->
               [rows  |-> {[id |-> e.id, start |-> e.start, end |-> CalendarEnd(e)] :
                               e \in {f \in first : ~InvalidRange(f) /\ f.status # "parser-failed"}},
                state |-> IF Health(q.snap) = "empty" THEN "empty" ELSE BrowseState(q.snap, open, TRUE)]

(* dedupe: by id, then by (title, start, place).  A list is a function    *)
(* from places to rows; at the first place of a key the richest row of the *)
(* key stays, the first of several.                                        *)
Richer(b, a) == b.score > a.score \/ (b.score = a.score /\ b.at > a.at)

Collapse(rows, key) ==
    LET alike(i) == {j \in DOMAIN rows : rows[j][key] = rows[i][key]}
        firsts   == {i \in DOMAIN rows : \A j \in alike(i) : i <= j}
        best(i)  == CHOOSE j \in alike(i) : \A k \in alike(i) :
                        ~Richer(rows[k], rows[j]) /\ (k < j => Richer(rows[j], rows[k]))
    IN  [i \in firsts |-> rows[best(i)]]

Dedupe(rows) == Collapse(Collapse(rows, "id"), "triple")

(* parse_detail: what a page says, with the listing's card for what it     *)
(* leaves out.  A page lists its tags in order; a card, NotSaid if there   *)
(* is none, lists types and features.                                      *)
SaidByType(types) ==
    IF "in-person" \in types THEN TRUE ELSE IF "online" \in types THEN FALSE ELSE NotSaid

\* _free_food_from_tags: the first tag about food counts.
FoodTags == {"free-food", "no-food"}
SaidByTags(tags) ==
    LET about == {i \in DOMAIN tags : tags[i] \in FoodTags}
    IN  IF about = {} THEN NotSaid ELSE tags[CHOOSE i \in about : \A j \in about : i <= j] = "free-food"

\* parse_listing: a card that lists features is taken to list them all.
OnCard(card) ==
    IF card = NotSaid THEN [inPerson |-> NotSaid, freeFood |-> NotSaid]
    ELSE [inPerson |-> SaidByType(card.types),
          freeFood |-> IF "free-food" \in card.features THEN TRUE
                       ELSE IF card.features # {} THEN FALSE ELSE NotSaid]

InBlacksburg(p) ==
    /\ SaidByType(Range(p.tags)) # FALSE
    /\ "blacksburg" \in Range(p.tags) \/ p.address = "blacksburg" \/ (p.address # "elsewhere" /\ p.venueKnown)

PageSays(p) ==
    LET first(a, b) == IF a = NotSaid THEN b ELSE a
        row == [was |-> "event",
                inPerson |-> first(SaidByType(Range(p.tags)), OnCard(p.card).inPerson),
                freeFood |-> first(SaidByTags(p.tags), OnCard(p.card).freeFood)]
    IN  IF p.start = NotSaid \/ ~p.titled THEN [was |-> "unparsed"]
        ELSE IF p.start \notin Month \/ ~InBlacksburg(p) THEN [was |-> "elsewhere"] ELSE row

FindEvents   == Reply("events", EventsFound(ask))
ListUpcoming == Reply("upcoming", Upcoming(ask))
MergeDuplicates        == Reply("duplicates", Dedupe(ask.rows))
ParseDetail  == Reply("page", PageSays(ask))
EventsNext   == FindEvents \/ ListUpcoming \/ MergeDuplicates \/ ParseDetail

\* A row of the snapshot: in the month, and from midnight if it is all-day.
EventOK(e) ==
    /\ e.start \in Int /\ DayOf(e.start) \in Month /\ e.end \in Int \cup {NotSaid}
    /\ e.status \in {"scheduled", "uncertain", "cancelled", "parser-failed"}
    /\ e.allDay => e.start = EventDay * DayOf(e.start)

EventsAsked ==
    /\ ask.of \in {"events", "upcoming"} /\ ask.snap # NoSnapshot =>
           \A e \in ask.snap.rows : EventOK(e)
    /\ ask.of = "events" => ask.today \in Int
    /\ ask.of = "page" => DOMAIN ask.tags \subseteq Nat
    /\ ask.of = "duplicates" =>
           /\ DOMAIN ask.rows \subseteq Nat /\ IsFiniteSet(DOMAIN ask.rows)
           /\ \A i \in DOMAIN ask.rows : {ask.rows[i].score, ask.rows[i].at} \subseteq Int

EventsSpec == answer = NoAnswer /\ EventsAsked /\ [][EventsNext]_lookupVars
-----------------------------------------------------------------------------
(* A reply is every row of the snapshot that is asked for and no other; a  *)
(* snapshot with failures owns up to them whatever matched, and "no match" *)
(* is said of a whole one in which nothing did.                            *)
NoMatchIsTrue ==
    Told("events") /\ ask.snap # NoSnapshot =>
        LET asked == {e \in ask.snap.rows : ask.tags \subseteq e.tags
                          /\ (ask.date = "today" => DayOf(e.start) = ask.today)
                          /\ (ask.date = "tomorrow" => DayOf(e.start) = ask.today + 1)}
        IN  /\ answer.rows = asked
            /\ ask.snap.failures => answer.state \in {"partial", "out-of-scope"}
            /\ answer.state = "no-match" => asked = {} /\ ask.snap.rows # {}

(* What a student can add to a calendar has not begun, is not cancelled,   *)
(* ends no earlier than it starts, and takes a day if it is all-day.       *)
CalendarIsUsable ==
    Told("upcoming") => \A row \in answer.rows :
        /\ row.start >= ask.now /\ (row.end = NotSaid \/ row.end >= row.start)
        /\ \E e \in ask.snap.rows : e.id = row.id /\ e.status = "scheduled"
                                   /\ (e.allDay => row.end >= row.start + EventDay)

(* No two rows that stay are the same event, and one that is like no other *)
(* stays.                                                                  *)
DistinctStay ==
    Told("duplicates") =>
        /\ \A i, j \in DOMAIN answer : i # j =>
               answer[i].id # answer[j].id /\ answer[i].triple # answer[j].triple
        /\ \A i \in DOMAIN ask.rows :
               (\A j \in DOMAIN ask.rows : i = j \/ (ask.rows[i].id # ask.rows[j].id
                                                      /\ ask.rows[i].triple # ask.rows[j].triple))
               => ask.rows[i] \in Range(answer)

(* "No" is the word of a source, and what none of them speaks of is        *)
(* unknown, with one exception: a card that lists features other than free *)
(* food is heard as "no free food" (events.py:685-689), where _free_food_  *)
(* from_tags and docs/EVENTS.md:44-46 say a missing feature is unknown.    *)
UnsaidIsUnknown ==
    Told("page") /\ answer.was = "event" =>
        LET tags  == Range(ask.tags)
            card  == IF ask.card = NotSaid THEN [types |-> {}, features |-> {}] ELSE ask.card
            silent == tags \cap FoodTags = {}
            heard == silent /\ card.features # {} /\ "free-food" \notin card.features
        IN  /\ answer.inPerson = FALSE => "in-person" \notin tags
                   /\ ("online" \in tags \/ (card.types # {} /\ "in-person" \notin card.types))
            /\ answer.freeFood = FALSE => heard \/ \E i \in DOMAIN ask.tags :
                   ask.tags[i] = "no-food" /\ \A j \in DOMAIN ask.tags : j < i => ask.tags[j] # "free-food"
            /\ answer.freeFood = NotSaid <=> silent /\ card.features = {}

(* The events answers hold what they promise.                              *)
EventsKeepTheirWord == NoMatchIsTrue /\ CalendarIsUsable /\ DistinctStay /\ UnsaidIsUnknown
=============================================================================
