----------------------------- MODULE AskServer -----------------------------
(***************************************************************************)
(* POST /api/ask (server.py): from what a student typed or tapped to what  *)
(* is planned, by the parser or by a plan_day call of the assistant, whose *)
(* arguments agent_tools.py joins with what the student said.  A question  *)
(* has this call too, [start, end, avoid, kcal, diet, from, to]; its food  *)
(* searches are joined in the same way (agent_tools.py:527-534).           *)
(*                                                                         *)
(* A text is a record of what is in it.  Its clauses name what the student *)
(* must not eat: [cue, words], a word [word, joined] being the name of an  *)
(* allergen, a word that is none, or Furniture (a word of _LIST_STOPWORDS),*)
(* and joined if a comma, "and" or the like stands before it.  Its times   *)
(* are [hour, marked], marked if AM or PM is said; times are hours.  Its   *)
(* kcal are the ceilings said, which only the assistant's half reads.      *)
(***************************************************************************)
EXTENDS Lookup, Integers, Sequences, FiniteSets, FiniteSetsExt

CONSTANTS
    Furniture, Unsaid,
    Covers,               \* of each name of an allergen, the official allergens it stands for
    Presets,              \* of each scenario, its window
    DemoStart, DemoEnd    \* the window of the first scenario

ASSUME AskAssumption ==
    /\ Unsaid \notin {"need_deadline", "deadline_passed", "allergen_unparsed", "your-location"}
    /\ Unsaid \notin 0..47 /\ Furniture \notin DOMAIN Covers
    /\ \A s \in DOMAIN Presets : Presets[s] \in [start : 0..23, end : 0..23, asks : {Unsaid}]

(* _extract_avoids.                                                        *)
Known(word) == word \in DOMAIN Covers
Members(words, heard) == UNION {Covers[words[i].word] : i \in {j \in heard : Known(words[j].word)}}

\* Mutant: the scan does not look at the word after the list.
ScanBlindly(words) ==
    LET heard == {i \in DOMAIN words : \A j \in 1..i : words[j].word # Furniture /\ (j > 1 => words[j].joined)}
    IN  [found |-> Members(words, heard), unmapped |-> FALSE]

\* _scan_constraint_list: the words up to the first that is furniture or not
\* joined; another word right behind the list makes its last member doubtful.
Scan(words) ==
    LET heard == {i \in DOMAIN words : \A j \in 1..i : words[j].word # Furniture /\ (j > 1 => words[j].joined)}
        after == {i \in DOMAIN words : i - 1 \in heard /\ i \notin heard /\ ~words[i].joined}
    IN  [found    |-> Members(words, heard),
         unmapped |-> \/ \E i \in heard : ~Known(words[i].word)
                      \/ \E i \in after : words[i].word # Furniture]

\* "a milk and eggs allergy": the known names that lead up to the word.
ScanBack(words) ==
    [found |-> Members(words, {i \in DOMAIN words : \A j \in i..Len(words) :
                                    Known(words[j].word) /\ (j > i => words[j].joined)}),
     unmapped |-> FALSE]

Heard(clause) ==
    CASE clause.cue = "explicit" -> Scan(clause.words)
      [] clause.cue = "bare"     -> LET s == Scan(clause.words) IN [s EXCEPT !.unmapped = @ /\ s.found # {}]
      [] clause.cue = "reverse"  -> ScanBack(clause.words)

Avoids(text) == UNION {Heard(c).found : c \in text.clauses}

\* A restriction was said that no allergen could be read from.
AllergenUnparsed(text) ==
    \/ \E c \in text.clauses : Heard(c).unmapped
    \/ Avoids(text) = {} /\ \E c \in text.clauses : c.cue # "bare"
-----------------------------------------------------------------------------
(* Windows: [start, end, asks], asks the clarification they need.            *)
Noon == 12
Morning == 8

Spell(start, end) == [start |-> start, end |-> end, asks |-> Unsaid]

\* Two times: the second is the next such time, and two early ones are PM.
TwoTimes(first, second) ==
    LET end   == IF ~second.marked /\ second.hour <= first.hour /\ second.hour < Noon
                 THEN second.hour + Noon ELSE second.hour
        shift == IF ~first.marked /\ ~second.marked /\ first.hour < Morning /\ end < Morning THEN Noon ELSE 0
    IN  Spell(first.hour + shift, end + shift)

NextTime(t, after) == IF ~t.marked /\ t.hour <= after /\ t.hour < Noon THEN t.hour + Noon ELSE t.hour

\* _resolve_live_window
LiveWindow(times, now) ==
    IF times = <<>> THEN [start |-> now, end |-> Unsaid, asks |-> "need_deadline"]
    ELSE IF Len(times) >= 2 THEN TwoTimes(times[1], times[2])
    ELSE LET end == NextTime(times[1], now)
         IN  IF end <= now THEN [start |-> now, end |-> end, asks |-> "deadline_passed"] ELSE Spell(now, end)

\* The window of the frozen day, or of a question that is not going to be planned.
FrozenWindow(times, start, end) ==
    IF Len(times) >= 2 THEN TwoTimes(times[1], times[2])
    ELSE IF Len(times) = 1 THEN Spell(start, NextTime(times[1], start)) ELSE Spell(start, end)
-----------------------------------------------------------------------------
(* Places.  A phrase after "from" or "to" is [name, looks]: a campus place   *)
(* ("known"), a "proper" name, a "plain" one or a filler like "here".        *)
\* _extract_explicit_places: a plain name counts between a from and a to.
PlaceSaid(phrase, other) ==
    IF phrase = Unsaid THEN Unsaid
    ELSE IF phrase.looks \in {"known", "proper"} \/ (phrase.looks = "plain" /\ other # Unsaid)
    THEN phrase.name ELSE Unsaid

Preferences(text) ==
    [avoid |-> Avoids(text), kcal |-> {}, diet |-> text.diet,
     from |-> PlaceSaid(text.from, text.to), to |-> PlaceSaid(text.to, text.from)]

\* parse_free_text
ParseFreeText(text, now, live) ==
    LET frozen == FrozenWindow(text.times, IF live THEN now ELSE DemoStart, IF live THEN Unsaid ELSE DemoEnd)
        window == IF AllergenUnparsed(text) THEN [frozen EXCEPT !.asks = "allergen_unparsed"]
                  ELSE IF live THEN LiveWindow(text.times, now) ELSE frozen
    IN  [window |-> window, prefs |-> Preferences(text)]

\* _preset_deadline_guard and _materialize_live_preset
PresetCall(preset, now, live) ==
    [prefs  |-> [avoid |-> {}, kcal |-> {}, diet |-> Unsaid, from |-> Unsaid, to |-> Unsaid],
     window |-> IF ~live THEN preset
                ELSE IF preset.end <= now THEN [preset EXCEPT !.asks = "deadline_passed"]
                ELSE Spell(now, preset.end)]
-----------------------------------------------------------------------------
(* The request: a place picked in the page is [name, kind], of kind "static",*)
(* "dynamic", "unknown" or "auto".                                           *)
\* resolve_origin: the device's position, if it is one and near the campus.
Explicit(place) == place # Unsaid /\ place.kind # "auto"

OriginKey(q) ==
    IF q.device = "near" THEN "your-location"
    ELSE IF Explicit(q.from) /\ q.from.kind = "static" THEN q.from.name ELSE Unsaid

\* handle_ask, the parser's half: what is picked goes before what is typed.
ByParser(q, call) ==
    LET from == IF OriginKey(q) # Unsaid THEN OriginKey(q)
                ELSE IF Explicit(q.from) THEN q.from.name ELSE call.prefs.from
        to   == IF Explicit(q.to) /\ q.to.kind # "dynamic" THEN q.to.name ELSE call.prefs.to
    IN  [by |-> "parser", asks |-> call.window.asks, start |-> call.window.start, end |-> call.window.end,
         prefs |-> [avoid |-> call.prefs.avoid, kcal |-> call.prefs.kcal, diet |-> call.prefs.diet, from |-> from, to |-> to]]

\* What the student fixed goes before what the assistant proposes.
StudentFirst(said, proposed) == IF said # Unsaid THEN said ELSE proposed

\* _agent_hard_constraints, AgentContext, _merge_prefs and _plan_handler: what a
\* plan_day call of the assistant plans.  Without a time of the student's its
\* end is the assistant's.
ByAgent(q, call) ==
    LET from == StudentFirst(OriginKey(q), StudentFirst(IF Explicit(q.from) THEN q.from.name ELSE call.prefs.from, q.model.from))
        to   == StudentFirst(IF Explicit(q.to) THEN q.to.name ELSE call.prefs.to, q.model.to)
        kcal == IF q.text.kcal = {} THEN q.model.kcal ELSE {Min(q.text.kcal)}
        end  == StudentFirst(call.window.end, q.model.end)
    IN  [by |-> "agent", asks |-> IF end = Unsaid THEN "need_deadline" ELSE Unsaid,
         start |-> StudentFirst(call.window.start, q.model.start), end |-> end,
         prefs |-> [avoid |-> call.prefs.avoid \cup q.model.avoid, kcal |-> kcal,
                    diet |-> StudentFirst(call.prefs.diet, q.model.diet), from |-> from, to |-> to]]

\* handle_ask.  The provider is "none", one that "answers" or one that "fails".
Contacts(q, call) ==
    q.live /\ q.provider # "none" /\ call.window.asks \notin {"allergen_unparsed", "deadline_passed"}

HandleAsk(q) ==
    IF q.scenario # Unsaid
    THEN IF q.scenario \in DOMAIN Presets
         THEN [contacted |-> FALSE, result |-> ByParser(q, PresetCall(Presets[q.scenario], q.now, q.live))]
         ELSE [contacted |-> FALSE, result |-> [by |-> "refusal"]]
    ELSE LET call == ParseFreeText(q.text, q.now, q.live)
         IN  [contacted |-> Contacts(q, call),
              result |-> IF Contacts(q, call) /\ q.provider = "answers" THEN ByAgent(q, call) ELSE ByParser(q, call)]

PostAsk == Reply("ask", HandleAsk(ask))

TimesOfDay == [hour : 0..23, marked : BOOLEAN]

\* A text of any number of clauses, ceilings and times.  Names are names.
AskAsked ==
    /\ ask.of = "ask" /\ ask.now \in 0..23
    /\ \A place \in {ask.from, ask.to, ask.text.from, ask.text.to} : place # Unsaid => place.name # Unsaid
    /\ ask.scenario = Unsaid =>
          /\ \A c \in ask.text.clauses : c.words \in Seq({c.words[i] : i \in DOMAIN c.words})
          /\ ask.text.times \in Seq(TimesOfDay)
          /\ ask.text.kcal \subseteq Nat

AskSpec == answer = NoAnswer /\ AskAsked /\ [][PostAsk]_lookupVars
-----------------------------------------------------------------------------
Planned == Told("ask") /\ answer.result.by # "refusal" /\ answer.result.asks = Unsaid
Typed == ask.of = "ask" /\ ask.scenario = Unsaid

\* A list as the parser documents it: members joined to each other, no others.
PlainList(words) == \A i \in DOMAIN words : words[i].word # Furniture /\ (i > 1 => words[i].joined)

(* Whatever is planned, by the parser or by a call of the assistant that     *)
(* proposes what it likes, keeps every allergen of such a list, and nothing  *)
(* is planned while a member of one, or the word behind it, could not be     *)
(* read (server.py:285-331, 782-796; agent_tools.py:375-391).                *)
ListedIsAvoided ==
    Planned /\ Typed =>
        \A c \in ask.text.clauses : c.cue = "explicit" =>
            /\ PlainList(c.words) => \A i \in DOMAIN c.words : Known(c.words[i].word) /\ Covers[c.words[i].word] \subseteq answer.result.prefs.avoid
            /\ c.words # <<>> /\ Known(c.words[1].word) => Covers[c.words[1].word] \subseteq answer.result.prefs.avoid
            /\ \A i \in 2..Len(c.words) : PlainList(SubSeq(c.words, 1, i - 1)) => Known(c.words[i].word) \/ c.words[i].word = Furniture

(* A position the device reports goes before any other origin, and a place   *)
(* that is picked, though nobody knows it, is never replaced by another      *)
(* (server.py:858-902, 1226-1245).                                           *)
PickedPlaceIsKept ==
    Told("ask") /\ answer.result.by # "refusal" =>
        LET prefs == answer.result.prefs
        IN  /\ ask.device = "near" => prefs.from = "your-location"
            /\ ask.device # "near" /\ Explicit(ask.from) => prefs.from = ask.from.name
            /\ Explicit(ask.to) /\ ask.to.kind \in {"static", "unknown"} => prefs.to = ask.to.name
            /\ Typed /\ ~Explicit(ask.to) /\ ask.text.to # Unsaid /\ ask.text.to.looks \in {"known", "proper"} =>
                 prefs.to = ask.text.to.name

(* The assistant can neither lift the strictest ceiling nor change the diet  *)
(* that was said, in a plan or in a food search, but it may propose both     *)
(* where none was (server.py:997-1004; agent_tools.py:375-384, 527-534).     *)
LimitsAreTheStudents ==
    Told("ask") /\ Typed /\ answer.result.by = "agent" =>
        LET prefs == answer.result.prefs
        IN  /\ ask.text.kcal # {} => \E k \in ask.text.kcal : prefs.kcal = {k} /\ \A said \in ask.text.kcal : k <= said
            /\ ask.text.diet # Unsaid => prefs.diet = ask.text.diet

\* The times of day that t may mean.
OnTheClock(t) == {t.hour} \cup {h \in {t.hour + Noon} : ~t.marked}

(* In live mode a single time that was said is the deadline, later on the    *)
(* same day, of a plan from now on, or is asked about when it has passed;    *)
(* of two times neither is the assistant's to change, but a stretch that is  *)
(* over is planned as said (server.py:608-622).  Without a time the parser   *)
(* asks for one, and so does the assistant's plan unless its call proposes   *)
(* an end: agent_tools.py:399 takes that for the deadline, although a model  *)
(* "can never invent" one by the comment in 53-56.  In replay no provider is *)
(* asked.                                                                    *)
LiveWindowIsTheStudents ==
    Told("ask") /\ answer.result.by # "refusal" =>
        LET r == answer.result
        IN  /\ answer.contacted => ask.live
            /\ ask.live /\ Typed /\ r.asks # "allergen_unparsed" =>
                 /\ Len(ask.text.times) = 1 =>
                      /\ r.start = ask.now
                      /\ IF r.asks = Unsaid THEN r.end > ask.now /\ r.end < 24 /\ r.end \in OnTheClock(ask.text.times[1])
                         ELSE ask.text.times[1].hour <= ask.now /\ ~answer.contacted
                 /\ Len(ask.text.times) = 2 =>
                      r.asks = Unsaid /\ r.start \in OnTheClock(ask.text.times[1]) /\ r.end \in OnTheClock(ask.text.times[2])
                 /\ ask.text.times = <<>> =>
                      /\ r.start = ask.now
                      /\ IF r.asks = Unsaid THEN r.by = "agent" /\ r.end = ask.model.end ELSE r.asks = "need_deadline" /\ r.end = Unsaid
            /\ ask.live /\ ~Typed =>
                 IF Presets[ask.scenario].end <= ask.now THEN r.asks # Unsaid
                 ELSE r.asks = Unsaid /\ r.start = ask.now /\ r.end = Presets[ask.scenario].end

(* What is not a restriction is not asked about, and a stretch between two   *)
(* times without AM or PM never runs backwards, nor from one night hour to   *)
(* another (server.py:339-346, 608-622, 819-833).                            *)
ProseIsLeftAlone ==
    Told("ask") /\ Typed =>
        /\ (\A c \in ask.text.clauses : c.cue = "bare" /\ \A i \in DOMAIN c.words : ~Known(c.words[i].word)) =>
               answer.result.asks # "allergen_unparsed"
        /\ Len(ask.text.times) = 2 /\ (\A i \in 1..2 : ~ask.text.times[i].marked) =>
               /\ (\A i \in 1..2 : ask.text.times[i].hour < Noon) => answer.result.start < answer.result.end
               /\ answer.result.start < Morning => answer.result.end >= Morning

AskKeepsItsWord == ListedIsAvoided /\ PickedPlaceIsKept /\ LimitsAreTheStudents /\ LiveWindowIsTheStudents /\ ProseIsLeftAlone

\* A list that goes on behind furniture, as in "milk and also peanuts".
OneList(words) ==
    \A i \in 2..Len(words) : words[i].joined \/ (words[i - 1].word = Furniture /\ words[i - 1].joined)

(* Nothing is planned as if a restriction that was said did not exist        *)
(* (server.py:786-788): every allergen listed in a clause about one is       *)
(* avoided, and a word that is none is asked about.                          *)
NoRestrictionIsDropped ==
    Planned /\ Typed =>
        \A c \in ask.text.clauses : c.cue # "bare" /\ OneList(c.words) =>
            \A i \in DOMAIN c.words : c.words[i].word # Furniture =>
                Known(c.words[i].word) /\ Covers[c.words[i].word] \subseteq answer.result.prefs.avoid
=============================================================================
