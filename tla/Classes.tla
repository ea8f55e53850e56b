------------------------------ MODULE Classes ------------------------------
(***************************************************************************)
(* The class catalogue (classes.py, class_import.py): sections read from a *)
(* timetable page, captures searched newest first, a schedule edited by    *)
(* CRN, and what is said of the meetings: conflicts, the preview of an     *)
(* import, the next class.  Times are ticks; what is picked from a list    *)
(* keeps its places there.                                                 *)
(***************************************************************************)
EXTENDS Lookup, Integers, Sequences, SequencesExt, FiniteSets

CONSTANTS CatalogMaxAge, SearchLimit, MaxConflicts, MaxPreviewRows,
          NoTerm       \* a search, or an edit, that names no term

ASSUME ClassesAssumption ==
    {CatalogMaxAge, SearchLimit, MaxConflicts, MaxPreviewRows} \subseteq Nat

(* parse_timetable_html: a row [lead, crn, short, timed, place] is a       *)
(* section's if it leads with a CRN and has all its cells.                 *)
ParseTable(rows) ==
    LET used   == {i \in DOMAIN rows : rows[i].lead = "crn" /\ ~rows[i].short}
        firsts == {i \in used : \A j \in used : j < i => rows[j].crn # rows[i].crn}
        Section(c) ==
            LET meetings == [i \in {j \in used : rows[j].crn = c} |-> rows[i]]
            IN  [crn |-> c, meetings |-> meetings,
                 hasTba   |-> \E m \in Range(meetings) : ~m.timed \/ m.place = "tba",
                 unknown  |-> \E m \in Range(meetings) : m.place = "unlisted",
                 isOnline |-> \A m \in Range(meetings) : m.place = "online"]
    IN  [sections |-> [i \in firsts |-> Section(rows[i].crn)],
         warned   |-> \E r \in Range(rows) : r.lead = "crn" /\ r.short]

(* search_from_snapshots (the agent's tool) and search_endpoint: captures  *)
(* [term, at, readable, sections], each section [crn, hit].                *)
Readable(captures) == {c \in captures : c.readable}

\* The directory of refreshed captures, once it holds one, hides the committed ones.
Captures(q) ==
    LET root == IF q.tool \/ Readable(q.refreshed) = {} THEN q.committed ELSE q.refreshed
    IN  {c \in Readable(root) : q.term = NoTerm \/ c.term = q.term}

Crns(capture) == {s.crn : s \in Range(capture.sections)}

\* Mutant: only the sections that are shown are remembered.
TakeNewShown(acc, c) ==
    LET shown == {i \in DOMAIN c.sections : c.sections[i].hit /\ c.sections[i].crn \notin acc.seen}
    IN  [seen |-> acc.seen \cup {c.sections[i].crn : i \in shown},
         rows |-> acc.rows \cup {[crn |-> c.sections[i].crn, at |-> c.at, place |-> i] : i \in shown}]

TakeNew(acc, c) ==
    LET shown == {i \in DOMAIN c.sections : c.sections[i].hit /\ c.sections[i].crn \notin acc.seen}
    IN  [seen |-> acc.seen \cup Crns(c),
         rows |-> acc.rows \cup {[crn |-> c.sections[i].crn, at |-> c.at, place |-> i] : i \in shown}]

\* Row a is listed before row b.
Precedes(a, b) == a.at > b.at \/ (a.at = b.at /\ a.place < b.place)

SearchCaptures(q) ==
    LET order == InOrder(Captures(q), {p \in Captures(q) \X Captures(q) : p[1].at > p[2].at})
        read[n \in 0..Len(order)] ==
            IF n = 0 THEN [seen |-> {}, rows |-> {}] ELSE TakeNew(read[n - 1], order[n])
        hits  == read[Len(order)].rows
    IN  IF order = <<>> THEN [state |-> "unavailable", rows |-> {}, truncated |-> FALSE]
        ELSE [state |-> IF hits = {} THEN "no_results" ELSE "results",
              rows  |-> {r \in hits : Cardinality({x \in hits : Precedes(x, r)}) < SearchLimit},
              stale |-> q.now - order[1].at > CatalogMaxAge,
              truncated |-> Cardinality(hits) > SearchLimit]

(* add_to_schedule, remove_from_schedule: a record is [kind, term, id].    *)
Terms(records, crn) == {r.term : r \in {x \in records : x.kind = "crn" /\ x.id = crn}}

Addition(q) ==
    LET Offered(c) == {t \in Terms(q.sections, c) : q.term = NoTerm \/ t = q.term}
        Take(schedule, c) ==
            LET new == {[kind |-> "crn", term |-> t, id |-> c] : t \in Offered(c)}
            IN  IF Cardinality(new) = 1 /\ new \cap Range(schedule) = {}
                THEN Append(schedule, CHOOSE r \in new : TRUE) ELSE schedule
        TakeUid(schedule, u) ==
            LET new == [kind |-> "ics", term |-> NoTerm, id |-> u]
            IN  IF new \in Range(schedule) THEN schedule ELSE Append(schedule, new)
        crns[n \in 0..Len(q.crns)] == IF n = 0 THEN q.schedule ELSE Take(crns[n - 1], q.crns[n])
        uids[n \in 0..Len(q.uids)] == IF n = 0 THEN crns[Len(q.crns)] ELSE TakeUid(uids[n - 1], q.uids[n])
    IN  [schedule  |-> uids[Len(q.uids)],
         ambiguous |-> {c \in Range(q.crns) : Cardinality(Offered(c)) > 1},
         missing   |-> {c \in Range(q.crns) : Offered(c) = {}}]

Removal(q) ==
    LET named(r) == r.kind = "crn" /\ r.id \in Range(q.crns)
        unclear(r) == q.term = NoTerm /\ Cardinality(Terms(Range(q.schedule), r.id)) > 1
        gone(r) == \/ r.kind = "ics" /\ r.id \in Range(q.uids)
                   \/ named(r) /\ ~unclear(r) /\ (q.term = NoTerm \/ r.term = q.term)
    IN  [schedule  |-> [i \in {j \in DOMAIN q.schedule : ~gone(q.schedule[j])} |-> q.schedule[i]],
         ambiguous |-> {r.id : r \in {x \in Range(q.schedule) : named(x) /\ unclear(x)}},
         missing   |-> {c \in Range(q.crns) : \A r \in Range(q.schedule) : r.id = c => ~gone(r) /\ ~(named(r) /\ unclear(r))}]

(* find_conflicts: meetings [id, start, end] in order; the scan for one    *)
(* stops at the first that starts when it is over.                         *)
FindConflicts(meetings) ==
    LET before(a, b) == a.start < b.start \/ (a.start = b.start /\ (a.end < b.end \/ (a.end = b.end /\ a.id < b.id)))
        s == InOrder(meetings, {p \in meetings \X meetings : before(p[1], p[2])})
        reached(i, j) == \A k \in i + 1..j : s[k].start < s[i].end
        end(i, j) == IF s[i].end < s[j].end THEN s[i].end ELSE s[j].end
    IN  {{s[p[1]], s[p[2]]} : p \in {x \in (DOMAIN s) \X (DOMAIN s) :
             x[1] < x[2] /\ reached(x[1], x[2]) /\ s[x[1]].id # s[x[2]].id /\ end(x[1], x[2]) > s[x[2]].start}}

(* preview_endpoint.  A calendar's events are in the file's order, each    *)
(* [id, meetings]; schedule_json knows one event for each UID, the last.   *)
LastOf(events) == {i \in DOMAIN events : \A j \in i + 1..Len(events) : events[j].id # events[i].id}
MeetingsOf(events, which) == UNION {{[id |-> events[i].id, start |-> m[1], end |-> m[2]] : m \in events[i].meetings} : i \in which}

PreviewState(q, conflicts) ==
    CASE Cardinality(conflicts) > MaxConflicts -> "bounds_exceeded"
      [] conflicts # {} /\ Cardinality(conflicts) <= MaxConflicts -> "conflict"
      [] OTHER -> IF q.stale THEN "stale_snapshot" ELSE "ready"

Preview(q) ==
    LET rows  == MeetingsOf(q.events, DOMAIN q.events)
        state == PreviewState(q, FindConflicts(MeetingsOf(q.events, LastOf(q.events))))
        Refuse(why) == [state |-> why, rows |-> {}]
    IN  CASE q.ics /\ ~q.valid -> Refuse("malformed_ics")
          [] ~q.ics /\ (q.events = <<>> \/ ~q.expandable \/ (q.consent /\ q.tba)) -> Refuse("error")
          [] ~q.ics /\ q.events # <<>> /\ q.expandable /\ ~q.consent -> Refuse("recurrence_unavailable")
          [] OTHER -> IF state = "bounds_exceeded" THEN Refuse(state)
                      ELSE IF Cardinality(rows) > MaxPreviewRows THEN Refuse("error")
                      ELSE [state |-> state, rows |-> rows]

(* next_class_json: meetings of Banner sections are inferences, left out   *)
(* without consent.                                                        *)
NextClass(q) ==
    LET excluded == q.timed /\ ~q.consent
        open  == {m \in q.calendar \cup (IF q.consent THEN q.banner ELSE {}) : m.start >= q.at /\ ~(q.skipOnline /\ m.online)}
        first == {m \in open : \A n \in open : m.start <= n.start}
    IN  CASE open = {} -> [status |-> IF excluded /\ ~q.imported THEN "recurrence_unavailable"
                                      ELSE IF q.sections /\ ~q.imported /\ ~q.expandable THEN "unavailable" ELSE "none",
                           next |-> {}, assumption |-> excluded]
          [] open # {} -> [status |-> IF excluded THEN "recurrence_unavailable" ELSE "scheduled",
                           next |-> first, assumption |-> excluded]

ReadTable      == ask.of = "table" /\ Reply("table", ParseTable(ask.rows))
FindClasses    == ask.of = "classes" /\ Reply("classes", SearchCaptures(ask))
AddToSchedule  == ask.of = "add" /\ Reply("add", Addition(ask))
RemoveFromSchedule == ask.of = "remove" /\ Reply("remove", Removal(ask))
PreviewImport  == ask.of = "preview" /\ Reply("preview", Preview(ask))
AskNextClass   == ask.of = "next class" /\ Reply("next class", NextClass(ask))
ClassesNext    == ReadTable \/ FindClasses \/ AddToSchedule \/ RemoveFromSchedule \/ PreviewImport \/ AskNextClass

\* A capture has each CRN once (ParseTable); those searched are of different moments.
CapturesOK(captures) ==
    /\ IsFiniteSet(captures) /\ \A c, d \in captures : c.at = d.at => c = d
    /\ \A c \in captures :
           /\ c.at \in Int /\ DOMAIN c.sections \subseteq Nat /\ IsFiniteSet(DOMAIN c.sections)
           /\ \A i, j \in DOMAIN c.sections : c.sections[i].crn = c.sections[j].crn => i = j

RecordsOK(records) ==
    \A r \in records : r = [kind |-> r.kind, term |-> r.term, id |-> r.id] /\ r.kind \in {"crn", "ics"}

\* An event of a calendar: finitely many meetings, from a tick to a tick.
MeetingsOK(e) == e.id \in Int /\ IsFiniteSet(e.meetings) /\ \A m \in e.meetings : {m[1], m[2]} \subseteq Int

ClassesAsked ==
    /\ ask.of = "table" => DOMAIN ask.rows \subseteq Nat
    /\ ask.of = "classes" => CapturesOK(Captures(ask))
    /\ ask.of \in {"add", "remove"} =>
           /\ ask.schedule \in Seq(Range(ask.schedule)) /\ RecordsOK(Range(ask.schedule))
           /\ {ask.crns, ask.uids} \subseteq Seq(Range(ask.crns) \cup Range(ask.uids))
    /\ ask.of = "add" => IsInjective(ask.schedule) /\ IsFiniteSet(ask.sections) /\ RecordsOK(ask.sections)
    /\ ask.of = "preview" => ask.events \in Seq(Range(ask.events)) /\ \A e \in Range(ask.events) : MeetingsOK(e)
    /\ ask.of = "next class" /\ ask.banner # {} => ask.timed

ClassesSpec == answer = NoAnswer /\ ClassesAsked /\ [][ClassesNext]_lookupVars
-----------------------------------------------------------------------------
(* A search shows the newest copy of a section of a term, never an older   *)
(* one that still matches, and every one that matches unless it says there *)
(* are more.  Asked without a term, as the agent asks, it tells sections   *)
(* apart by CRN alone: a newer capture of another term that has the CRN    *)
(* hides the section, although (term, CRN) is the identity elsewhere       *)
(* (classes.py:2577-2632, 968-972, agent_tools.py:297-307).                *)
NewestCopyCounts ==
    Told("classes") =>
        LET having(s)    == {d \in Captures(ask) : s.crn \in Crns(d)}
            newest(c, s) == \A d \in having(s) : d.term = c.term => d.at <= c.at
            hidden(c, s) == ask.term = NoTerm /\ \E d \in having(s) : d.term # c.term /\ d.at > c.at
            shows(c) == {s \in Range(c.sections) : s.hit /\ newest(c, s) /\ ~hidden(c, s)}
            right == UNION {{[crn |-> s.crn, at |-> c.at] : s \in shows(c)} : c \in Captures(ask)}
            listed == {[crn |-> r.crn, at |-> r.at] : r \in answer.rows}
        IN  /\ listed \subseteq right /\ \A r, s \in answer.rows : r.crn = s.crn => r = s
            /\ answer.truncated \/ listed = right
            /\ answer.state = "unavailable" <=> Captures(ask) = {}

(* An edit keeps every record it is not about, in order; no record is held *)
(* twice; and a CRN of two terms is neither added nor removed unless the   *)
(* term is named (classes.py:964-999, 1428-1561).                          *)
ScheduleIsSafe ==
    /\ Told("add") =>
         /\ IsPrefix(ask.schedule, answer.schedule) /\ IsInjective(answer.schedule)
         /\ \A r \in Range(answer.schedule) \ Range(ask.schedule) : r.kind = "crn" =>
                (ask.term = NoTerm => Cardinality(Terms(ask.sections, r.id)) = 1) /\ r.id \notin answer.ambiguous \cup answer.missing
    /\ Told("remove") =>
         LET gone == Range(ask.schedule) \ Range(answer.schedule) IN
         /\ \A r \in gone : r.id \in Range(IF r.kind = "crn" THEN ask.crns ELSE ask.uids)
         /\ \A r, s \in gone : r.kind = "crn" /\ s.kind = "crn" /\ r.id = s.id => r = s
         /\ \A c \in Range(ask.crns) : (\E r \in gone : r.id = c) \/ c \in answer.ambiguous \cup answer.missing

Overlap(m, n) == m.id # n.id /\ m.start < n.end /\ n.start < m.end /\ m.start < m.end /\ n.start < n.end

(* Rows without a conflict do not overlap, when no two events of the file  *)
(* share a UID; and the weekly pattern of a section is shown only to a     *)
(* student who agreed to it (class_import.py:72-129).                      *)
PreviewIsHonest ==
    Told("preview") /\ answer.rows # {} =>
        /\ LastOf(ask.events) = DOMAIN ask.events =>
               (answer.state = "conflict" <=> \E m, n \in answer.rows : Overlap(m, n))
        /\ ~ask.ics => ask.consent /\ ~ask.tba

(* What is called the next class is the next of all meetings, those left   *)
(* out included, and "none" without a remark means there is none           *)
(* (classes.py:1243-1391).                                                 *)
NextIsNext ==
    Told("next class") =>
        LET later == {m \in ask.calendar \cup ask.banner : m.start >= ask.at /\ ~(ask.skipOnline /\ m.online)}
        IN  /\ answer.status = "scheduled" => \A m \in later, n \in answer.next : n.start <= m.start
            /\ answer.status = "none" /\ ~answer.assumption => later = {}

(* A section's flags are those of its meetings, which are its rows; each   *)
(* row that is a section's is one of its meetings, and no section is there *)
(* twice (classes.py:757-839).                                             *)
SectionIsItsRows ==
    Told("table") =>
        /\ \A s \in Range(answer.sections) :
               /\ ~s.hasTba => \A m \in Range(s.meetings) : m.timed
               /\ \A i \in DOMAIN s.meetings : s.meetings[i] = ask.rows[i] /\ ask.rows[i].crn = s.crn
               /\ \A t \in Range(answer.sections) : t.crn = s.crn => t = s
        /\ \A i \in DOMAIN ask.rows : ask.rows[i].lead = "crn" /\ ~ask.rows[i].short =>
               \E s \in Range(answer.sections) : i \in DOMAIN s.meetings

(* The answers about classes hold what they promise.                       *)
ClassesKeepTheirWord == NewestCopyCounts /\ ScheduleIsSafe /\ PreviewIsHonest /\ NextIsNext /\ SectionIsItsRows

(* Violated.  "One result row == one meeting ... Anything that does not    *)
(* look like a section row is skipped with a warning" (classes.py:740-743):*)
(* a row of additional times is skipped without one.                       *)
RowIsAMeeting ==
    Told("table") /\ ~answer.warned =>
        \A i \in DOMAIN ask.rows : ask.rows[i].lead = "additional times" =>
            \E s \in Range(answer.sections) : ask.rows[i] \in Range(s.meetings)
=============================================================================
