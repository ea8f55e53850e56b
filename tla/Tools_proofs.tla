----------------------------- MODULE Tools_proofs -----------------------------
(***************************************************************************)
(* Proofs about the read-only tools.  A tool is asked one question; what   *)
(* is proved is that its answer keeps the tool's word whatever is on file, *)
(* however many rows, hours, forecasts or clauses there are.  That the     *)
(* answer is the one the tool computes is a simple invariant; the work is  *)
(* in the lemmas about the operators that compute it.                      *)
(***************************************************************************)
EXTENDS Dining, Transit, Weather, Events, Gis, AskServer, SequenceTheorems, FiniteSetTheorems, WellFoundedInduction, TLAPS

(* Dining.                                                                 *)
HallAnswer(q) == [hall |-> HallStatus(q), page |-> MenuPage(q, HallStatus(q))]

DiningInv ==
    /\ DiningAsked
    /\ Told("hall") => answer = HallAnswer(ask)
    /\ Told("food") => answer = [now   |-> FoodSearch(ask, ask.merged, ask.chunk),
                                 later |-> FoodSearch(ask, LeftBy(ask), ask.later)]

\* Yesterday's windows that ran past midnight, and no others, can be under way
\* today, and none of them is once the day's own hours are enough.
LEMMA PriorWindows ==
    ASSUME NEW q \in HallAsks, q.prev # Unread, NEW w \in q.prev,
           Opens(w) <= q.at, q.at < Closes(w)
    PROVE  /\ Overnight(w)
           /\ q.today # Unread => NeedsPrior(q.today, q.at)
<1>1. q.at \in 0..DayLen - 1 /\ q.today \in KnownHours \cup {Unread}
  BY DEF HallAsks
<1>2. PICK g \in KnownHours : q.prev = {[v EXCEPT !.day = -1] : v \in g}
  BY DEF HallAsks
<1>3. PICK v \in g : w = [v EXCEPT !.day = -1]
  BY <1>2
<1>4. v \in [day : {0}, open : 0..DayLen, close : 0..DayLen]
  BY <1>2, HoursAssumption
<1>5. w.day = -1 /\ w.open = v.open /\ w.close = v.close /\ (Overnight(w) <=> Overnight(v))
  BY <1>3, <1>4 DEF Overnight
<1>6. Overnight(w)
  <2>1. Closes(w) = -DayLen + v.close \/ Overnight(w)
    BY <1>4, <1>5, DiningAssumption DEF Closes, Overnight
  <2> QED
    BY <2>1, <1>1, <1>4, DiningAssumption
<1>7. q.at < v.close
  BY <1>4, <1>5, <1>6, <1>1, DiningAssumption DEF Closes
<1>8. ASSUME q.today # Unread PROVE NeedsPrior(q.today, q.at)
  <2>1. q.today \in KnownHours
    BY <1>1, <1>8
  <2>2. v.close <= Dawn /\ \A u \in q.today : v.close <= u.open
    BY <2>1, <1>2, <1>5, <1>6, HoursAssumption
  <2>3. \A u \in q.today : u \in [day : {0}, open : 0..DayLen, close : 0..DayLen]
    BY <2>1, HoursAssumption
  <2> QED
    BY <2>2, <2>3, <1>1, <1>4, <1>7, DiningAssumption DEF NeedsPrior
<1> QED
  BY <1>6, <1>8

\* The windows chosen to judge an instant by leave out none that is under way.
LEMMA ChosenWindows ==
    ASSUME NEW q \in HallAsks, OpenWindows(q.today, q.prev, q.at) # Unread
    PROVE  IsOpen(OpenWindows(q.today, q.prev, q.at), q.at) <=>
             \E w \in q.today \cup (IF q.prev = Unread THEN {} ELSE q.prev) :
                 Opens(w) <= q.at /\ q.at < Closes(w)
<1>1. CASE q.today # Unread /\ ~NeedsPrior(q.today, q.at)
  BY <1>1, PriorWindows DEF OpenWindows, IsOpen
<1>2. CASE q.today # Unread /\ NeedsPrior(q.today, q.at)
  BY <1>2, PriorWindows DEF OpenWindows, IsOpen
<1>3. q.today # Unread
  BY DEF OpenWindows
<1> QED
  BY <1>1, <1>2, <1>3

LEMMA OpenIsToldTrue == DiningInv => OpenIsTrue
<1> SUFFICES ASSUME DiningInv, Told("hall"), answer.page.openNow # Unread
             PROVE  answer.page.openNow <=>
                      \E w \in ask.today \cup (IF ask.prev = Unread THEN {} ELSE ask.prev) :
                          Opens(w) <= ask.at /\ ask.at < Closes(w)
  BY DEF OpenIsTrue
<1> DEFINE windows == OpenWindows(ask.today, ask.prev, ask.at)
<1>1. ask \in HallAsks
  BY DEF DiningInv, DiningAsked, Told
<1>2. answer.page.openNow = IF windows = Unread THEN Unread ELSE IsOpen(windows, ask.at)
  BY DEF DiningInv, HallAnswer, MenuPage, HallStatus
<1>3. windows # Unread /\ answer.page.openNow = IsOpen(windows, ask.at)
  BY <1>2
<1> QED
  BY <1>1, <1>3, ChosenWindows

\* What a search makes of the nutrition it reads.
Searched(q, nutrition) ==
    IF q.ceiling # NoFilter /\ (q.wholeCampus \/ nutrition = {})
    THEN [state |-> "nutrition_unavailable", rows |-> {}, kcal |-> {}]
    ELSE IF q.menu = Unread
    THEN [state |-> "unavailable", rows |-> {}, kcal |-> {}]
    ELSE [state |-> "ok", rows |-> EatOptions(q, nutrition),
          kcal |-> {n \in (IF q.wholeCampus THEN {} ELSE nutrition) : \E i \in EatOptions(q, nutrition) : i.recipe = n.recipe}]

\* What a search leaves on file is what it read, and stands for it from then on.
LEMMA LeftIs ==
    ASSUME NEW q, NEW merged, NEW chunk, NEW later,
           chunk = later \/ (~q.frozen /\ Nutrition(q, merged, chunk) # {})
    PROVE  Nutrition(q, Left(q, merged, chunk), later) = Nutrition(q, merged, chunk)
<1>1. CASE InTime(merged)
  BY <1>1 DEF Nutrition, Left
<1>2. CASE ~InTime(merged) /\ (q.frozen \/ ChunksRead(q, chunk) = {})
  BY <1>2 DEF Nutrition, Left
<1>3. CASE ~InTime(merged) /\ ~(q.frozen \/ ChunksRead(q, chunk) = {})
  <2>1. Left(q, merged, chunk) = {[future |-> FALSE, recipes |-> ChunksRead(q, chunk)]}
    BY <1>3 DEF Left
  <2>2. InTime(Left(q, merged, chunk)) /\ UNION {m.recipes : m \in Left(q, merged, chunk)} = ChunksRead(q, chunk)
    BY <2>1 DEF InTime
  <2> QED
    BY <1>3, <2>2 DEF Nutrition
<1> QED
  BY <1>1, <1>2, <1>3

LEMMA SearchIs ==
    ASSUME NEW q, NEW merged, NEW chunk
    PROVE  FoodSearch(q, merged, chunk) = Searched(q, Nutrition(q, merged, chunk))
<1> DEFINE N == Nutrition(q, merged, chunk)
<1>1. Nutrition(q, Left(q, merged, chunk), chunk) = N
  BY LeftIs
<1> HIDE DEF N
<1>2. FoodSearch(q, merged, chunk) =
          IF q.ceiling # NoFilter /\ (IF q.wholeCampus THEN {} ELSE N) = {}
          THEN [state |-> "nutrition_unavailable", rows |-> {}, kcal |-> {}]
          ELSE IF q.menu = Unread
          THEN [state |-> "unavailable", rows |-> {}, kcal |-> {}]
          ELSE [state |-> "ok", rows |-> EatOptions(q, N),
                kcal |-> {n \in (IF q.wholeCampus THEN {} ELSE N) : \E i \in EatOptions(q, N) : i.recipe = n.recipe}]
  BY <1>1 DEF FoodSearch, N
<1>3. (IF q.wholeCampus THEN {} ELSE N) = {} <=> q.wholeCampus \/ N = {}
  OBVIOUS
<1> QED
  BY <1>2, <1>3 DEF Searched, N

\* Calories on file are those of the dishes of the menu.
Fits(q, nutrition) == q.menu # Unread => \A n \in nutrition, i \in q.menu : n.recipe = i.recipe => n.cals = Cals(i)

LEMMA NutritionFits ==
    ASSUME NEW q, NEW chunk, NEW later,
           q.menu # Unread => \A i \in q.menu :
               /\ \A j \in q.menu : i.recipe = j.recipe => i.kcal = j.kcal
               /\ \A m \in q.merged : \A n \in m.recipes : n.recipe = i.recipe => n.cals = Cals(i)
    PROVE  Fits(q, Nutrition(q, q.merged, chunk)) /\ Fits(q, Nutrition(q, Left(q, q.merged, chunk), later))
<1>1. ASSUME NEW c PROVE Fits(q, ChunksRead(q, c))
  <2> SUFFICES ASSUME q.menu # Unread, NEW n \in ChunksRead(q, c), NEW i \in q.menu, n.recipe = i.recipe
               PROVE  n.cals = Cals(i)
    BY DEF Fits
  <2>1. PICK j \in q.menu : n = [recipe |-> j.recipe, cals |-> Cals(j)]
    BY DEF ChunksRead
  <2>2. j.kcal = i.kcal
    BY <2>1
  <2> QED
    BY <2>1, <2>2 DEF Cals
<1>2. Fits(q, UNION {m.recipes : m \in q.merged})
  BY DEF Fits
<1>3. \A c : Fits(q, Nutrition(q, q.merged, c))
  BY <1>1, <1>2 DEF Nutrition
<1>4. CASE Left(q, q.merged, chunk) = q.merged
  BY <1>3, <1>4
<1>5. CASE Left(q, q.merged, chunk) = {[future |-> FALSE, recipes |-> ChunksRead(q, chunk)]}
  <2>1. UNION {m.recipes : m \in Left(q, q.merged, chunk)} = ChunksRead(q, chunk)
    BY <1>5
  <2> QED
    BY <1>1, <1>3, <2>1 DEF Nutrition
<1>6. Left(q, q.merged, chunk) \in {q.merged, {[future |-> FALSE, recipes |-> ChunksRead(q, chunk)]}}
  BY DEF Left
<1> QED
  BY <1>3, <1>4, <1>5, <1>6

LEMMA RowsAllowed ==
    ASSUME NEW q, NEW nutrition, Fits(q, nutrition), NEW i \in Searched(q, nutrition).rows
    PROVE  /\ \A a \in i.allergens, t \in q.avoid : a \notin Matches[t]
           /\ q.avoid # {} /\ i.allergens = {} => VenueFree(q.hall, i)
           /\ q.diet # NoFilter => q.diet \in i.tags /\ \A a \in i.allergens : a \notin DietBlocks[q.diet]
           /\ q.ceiling # NoFilter => ~q.wholeCampus /\ (i.kcal = NoFilter \/ i.kcal <= q.ceiling)
           /\ q.openOnly => q.open = TRUE
<1>1. /\ q.menu # Unread /\ i \in EatOptions(q, nutrition)
      /\ q.ceiling # NoFilter => ~q.wholeCampus
  BY DEF Searched
<1>2. /\ i \in q.menu /\ DietKeeps(q.diet, i) /\ AvoidKeeps(q.avoid, q.hall, i)
      /\ q.ceiling # NoFilter => \E n \in nutrition : n.recipe = i.recipe /\ n.cals <= q.ceiling
      /\ q.openOnly => q.open = TRUE
  BY <1>1 DEF EatOptions, Listing
<1>3. /\ \A a \in i.allergens, t \in q.avoid : a \notin Matches[t]
      /\ q.avoid # {} /\ i.allergens = {} => VenueFree(q.hall, i)
  BY <1>2 DEF AvoidKeeps
<1>4. q.diet # NoFilter => q.diet \in i.tags /\ \A a \in i.allergens : a \notin DietBlocks[q.diet]
  BY <1>2 DEF DietKeeps
<1>5. q.ceiling # NoFilter => i.kcal = NoFilter \/ i.kcal <= q.ceiling
  BY <1>1, <1>2 DEF Fits, Cals
<1> QED
  BY <1>1, <1>2, <1>3, <1>4, <1>5

LEMMA RowsAreToldAllowed == DiningInv => RowsAreAllowed /\ SearchesAgree
<1> SUFFICES ASSUME DiningInv, Told("food") PROVE RowsAreAllowed /\ SearchesAgree
  BY DEF RowsAreAllowed, SearchesAgree
<1> DEFINE N == Nutrition(ask, ask.merged, ask.chunk)
           again == Nutrition(ask, LeftBy(ask), ask.later)
<1>1. answer.now = Searched(ask, N) /\ answer.later = Searched(ask, again)
  BY SearchIs DEF DiningInv
<1>2. Fits(ask, N) /\ Fits(ask, again)
  <2>1. ask.menu # Unread => \A i \in ask.menu :
            /\ \A j \in ask.menu : i.recipe = j.recipe => i.kcal = j.kcal
            /\ \A m \in ask.merged : \A n \in m.recipes : n.recipe = i.recipe => n.cals = Cals(i)
    BY DEF DiningInv, DiningAsked, Told
  <2>2. \A c, d : Fits(ask, Nutrition(ask, ask.merged, c)) /\ Fits(ask, Nutrition(ask, Left(ask, ask.merged, c), d))
    BY <2>1, NutritionFits
  <2> QED
    BY <2>2 DEF LeftBy
<1>3. RowsAreAllowed
  <2> SUFFICES ASSUME NEW i \in answer.now.rows \cup answer.later.rows
               PROVE  /\ \A a \in i.allergens, t \in ask.avoid : a \notin Matches[t]
                      /\ ask.avoid # {} /\ i.allergens = {} => VenueFree(ask.hall, i)
                      /\ ask.diet # NoFilter =>
                           ask.diet \in i.tags /\ \A a \in i.allergens : a \notin DietBlocks[ask.diet]
                      /\ ask.ceiling # NoFilter =>
                           ~ask.wholeCampus /\ (i.kcal = NoFilter \/ i.kcal <= ask.ceiling)
                      /\ ask.openOnly => ask.open = TRUE
    BY DEF RowsAreAllowed
  <2> HIDE DEF N, again
  <2>1. PICK M : Fits(ask, M) /\ i \in Searched(ask, M).rows
    BY <1>1, <1>2
  <2> QED
    BY <2>1, RowsAllowed
<1>4. ASSUME (~ask.frozen /\ N # {}) \/ ask.chunk = ask.later PROVE answer.later = answer.now
  <2>1. CASE ask.wholeCampus
    <3>1. \A M : EatOptions(ask, M) = {i \in Listing(ask) : ask.openOnly => ask.open = TRUE} \/ ask.ceiling # NoFilter
      BY DEF EatOptions
    <3>2. ASSUME NEW M, NEW L PROVE Searched(ask, M) = Searched(ask, L)
      BY <2>1, <3>1 DEF Searched
    <3> HIDE DEF N, again
    <3> QED
      BY <1>1, <3>2
  <2>2. CASE ~ask.wholeCampus
    <3>1. again = N
      BY <1>4, <2>2, LeftIs DEF LeftBy
    <3> HIDE DEF N, again
    <3> QED
      BY <1>1, <3>1
  <2> QED
    BY <2>1, <2>2
<1> QED
  BY <1>3, <1>4 DEF SearchesAgree

(* The hours a hall's page claims and the rows a food search serves are true *)
(* for any hours, menus and nutrition on file, and searches of one day agree *)
(* (dining.py:659-697, 878-930, 1021-1051, 1229-1252).                       *)
THEOREM DiningAnswersHold == DiningSpec => []DiningKeepsItsWord
<1>1. answer = NoAnswer /\ DiningAsked => DiningInv
  BY DEF DiningInv, Told
<1>2. DiningInv /\ [DiningNext]_lookupVars => DiningInv'
  <2> SUFFICES ASSUME DiningInv, [DiningNext]_lookupVars PROVE DiningInv'
    OBVIOUS
  <2>1. ask' = ask /\ DiningAsked'
    BY DEF DiningInv, DiningAsked, DiningNext, Hall, Food, Reply, lookupVars
  <2>2. CASE Hall
    BY <2>1, <2>2 DEF DiningInv, Hall, Reply, Told, HallAnswer
  <2>3. CASE Food
    BY <2>1, <2>3 DEF DiningInv, Food, Reply, Told
  <2>4. CASE UNCHANGED lookupVars
    BY <2>1, <2>4 DEF DiningInv, Told, lookupVars
  <2> QED
    BY <2>2, <2>3, <2>4 DEF DiningNext
<1>3. DiningInv => DiningKeepsItsWord
  BY OpenIsToldTrue, RowsAreToldAllowed DEF DiningKeepsItsWord
<1> QED
  BY <1>1, <1>2, <1>3, PTL DEF DiningSpec

-----------------------------------------------------------------------------
(* POST /api/ask.                                                          *)
AskInv == AskAsked /\ (answer # NoAnswer => answer = HandleAsk(ask))

\* Of a list of joined members no more than its first furniture word is lost.
LEMMA PlainListIsHeard ==
    ASSUME NEW words, words \in Seq({words[i] : i \in DOMAIN words}), ~Scan(words).unmapped
    PROVE  /\ PlainList(words) => \A i \in DOMAIN words :
                  Known(words[i].word) /\ Covers[words[i].word] \subseteq Scan(words).found
           /\ words # <<>> /\ Known(words[1].word) => Covers[words[1].word] \subseteq Scan(words).found
           /\ \A i \in 2..Len(words) : PlainList(SubSeq(words, 1, i - 1)) =>
                  Known(words[i].word) \/ words[i].word = Furniture
<1> DEFINE heard == {i \in DOMAIN words : \A j \in 1..i : words[j].word # Furniture /\ (j > 1 => words[j].joined)}
           after == {i \in DOMAIN words : i - 1 \in heard /\ i \notin heard /\ ~words[i].joined}
<1>1. DOMAIN words = 1..Len(words) /\ Len(words) \in Nat
  OBVIOUS
<1>2. /\ Scan(words).found = Members(words, heard)
      /\ \A i \in heard : Known(words[i].word)
      /\ \A i \in after : words[i].word = Furniture
  BY Zenon DEF Scan
<1>3. \A i \in heard : Covers[words[i].word] \subseteq Scan(words).found
  BY <1>2 DEF Members
<1>4. ASSUME PlainList(words) PROVE \A i \in DOMAIN words : i \in heard
  BY <1>1, <1>4 DEF PlainList
<1>5. ASSUME words # <<>>, Known(words[1].word) PROVE 1 \in heard
  <2>1. 1 \in DOMAIN words
    BY <1>5, <1>1
  <2>2. words[1].word # Furniture
    BY <1>5, AskAssumption DEF Known
  <2> QED
    BY <2>1, <2>2
<1>6. ASSUME NEW i \in 2..Len(words), PlainList(SubSeq(words, 1, i - 1))
      PROVE  Known(words[i].word) \/ words[i].word = Furniture
  <2> DEFINE front == SubSeq(words, 1, i - 1)
  <2>1. DOMAIN front = 1..(i - 1) /\ \A j \in 1..(i - 1) : front[j] = words[j]
    BY <1>1
  <2>2. \A j \in 1..(i - 1) : words[j].word # Furniture /\ (j > 1 => words[j].joined)
    BY <2>1, <1>6 DEF PlainList
  <2>3. i - 1 \in heard /\ i \in DOMAIN words
    BY <2>2, <1>1
  <2>4. CASE i \in heard
    BY <2>4, <1>2
  <2>5. CASE i \notin heard /\ ~words[i].joined
    BY <2>5, <2>3, <1>2
  <2>6. CASE i \notin heard /\ words[i].joined
    <3>1. PICK j \in 1..i : ~(words[j].word # Furniture /\ (j > 1 => words[j].joined))
      BY <2>6, <2>3
    <3>2. j = i
      BY <3>1, <2>2
    <3> QED
      BY <3>1, <3>2, <2>6
  <2> QED
    BY <2>4, <2>5, <2>6
<1> QED
  BY <1>2, <1>3, <1>4, <1>5, <1>6

\* What a picked place makes of the place that was said.
OriginOf(q, said) ==
    IF OriginKey(q) # Unsaid THEN OriginKey(q) ELSE IF Explicit(q.from) THEN q.from.name ELSE said

\* The parser plans the call it made, but for the places that were picked.
LEMMA ParserCall ==
    ASSUME NEW q, NEW call
    PROVE  /\ ByParser(q, call).by = "parser" /\ ByParser(q, call).asks = call.window.asks
           /\ ByParser(q, call).start = call.window.start /\ ByParser(q, call).end = call.window.end
           /\ ByParser(q, call).prefs.avoid = call.prefs.avoid
           /\ ByParser(q, call).prefs.from = OriginOf(q, call.prefs.from)
           /\ ByParser(q, call).prefs.to =
                IF Explicit(q.to) /\ q.to.kind # "dynamic" THEN q.to.name ELSE call.prefs.to
  BY DEF ByParser, OriginOf

\* The assistant plans the same where it was said, and any kind of destination
\* that was picked; the rest it proposes.
LEMMA AgentWindow ==
    ASSUME NEW q, NEW call, NEW r, r = ByAgent(q, call)
    PROVE  /\ r.by = "agent"
           /\ r.start = StudentFirst(call.window.start, q.model.start)
           /\ r.end = StudentFirst(call.window.end, q.model.end)
           /\ r.asks = IF r.end = Unsaid THEN "need_deadline" ELSE Unsaid
  BY DEF ByAgent

LEMMA AgentPlaces ==
    ASSUME NEW q, NEW call, NEW r, r = ByAgent(q, call)
    PROVE  /\ r.prefs.from = StudentFirst(OriginOf(q, call.prefs.from), q.model.from)
           /\ r.prefs.to = StudentFirst(IF Explicit(q.to) THEN q.to.name ELSE call.prefs.to, q.model.to)
<1> DEFINE said == StudentFirst(IF Explicit(q.from) THEN q.from.name ELSE call.prefs.from, q.model.from)
<1>1. StudentFirst(OriginKey(q), said) = StudentFirst(OriginOf(q, call.prefs.from), q.model.from)
  BY DEF StudentFirst, OriginOf
<1>2. r.prefs.from = StudentFirst(OriginKey(q), said)
  BY DEF ByAgent
<1>3. r.prefs.to = StudentFirst(IF Explicit(q.to) THEN q.to.name ELSE call.prefs.to, q.model.to)
  BY DEF ByAgent
<1> HIDE DEF said
<1> QED
  BY <1>1, <1>2, <1>3

LEMMA AgentLimits ==
    ASSUME NEW q, NEW call, NEW r, r = ByAgent(q, call)
    PROVE  /\ r.prefs.avoid = call.prefs.avoid \cup q.model.avoid
           /\ r.prefs.kcal = IF q.text.kcal = {} THEN q.model.kcal ELSE {Min(q.text.kcal)}
           /\ r.prefs.diet = StudentFirst(call.prefs.diet, q.model.diet)
  BY DEF ByAgent

\* How a typed question is answered, and by whom.
LEMMA TypedCall ==
    ASSUME AskInv, Typed, answer # NoAnswer,
           NEW call, call = ParseFreeText(ask.text, ask.now, ask.live)
    PROVE  /\ answer.contacted = Contacts(ask, call)
           /\ answer.result = IF Contacts(ask, call) /\ ask.provider = "answers" THEN ByAgent(ask, call) ELSE ByParser(ask, call)
           /\ call.prefs = Preferences(ask.text)
           /\ AllergenUnparsed(ask.text) => call.window.asks = "allergen_unparsed"
<1>1. answer = [contacted |-> Contacts(ask, call),
                result |-> IF Contacts(ask, call) /\ ask.provider = "answers" THEN ByAgent(ask, call) ELSE ByParser(ask, call)]
  BY DEF AskInv, Typed, HandleAsk
<1>2. call.prefs = Preferences(ask.text)
  BY DEF ParseFreeText
<1>3. AllergenUnparsed(ask.text) => call.window.asks = "allergen_unparsed"
  BY DEF ParseFreeText, FrozenWindow, TwoTimes, Spell
<1> QED
  BY <1>1, <1>2, <1>3

\* What is planned, or sent to the assistant, says every restriction it heard.
LEMMA NothingUnparsed ==
    ASSUME AskInv, Planned, Typed
    PROVE  /\ ~AllergenUnparsed(ask.text)
           /\ Avoids(ask.text) \subseteq answer.result.prefs.avoid
<1>1. PICK call : call = ParseFreeText(ask.text, ask.now, ask.live)
  OBVIOUS
<1>2. /\ answer.result = IF Contacts(ask, call) /\ ask.provider = "answers" THEN ByAgent(ask, call) ELSE ByParser(ask, call)
      /\ call.prefs = Preferences(ask.text)
      /\ AllergenUnparsed(ask.text) => call.window.asks = "allergen_unparsed"
  BY <1>1, TypedCall DEF Planned, Told
<1>3. call.prefs.avoid = Avoids(ask.text)
  BY <1>2 DEF Preferences
<1>4. call.window.asks # "allergen_unparsed"
  <2>1. CASE Contacts(ask, call)
    BY <2>1 DEF Contacts
  <2>2. CASE ~Contacts(ask, call)
    <3>1. answer.result = ByParser(ask, call)
      BY <2>2, <1>2
    <3>2. answer.result.asks = call.window.asks
      BY <3>1, ParserCall
    <3> QED
      BY <3>2, AskAssumption DEF Planned
  <2> QED
    BY <2>1, <2>2
<1>5. Avoids(ask.text) \subseteq answer.result.prefs.avoid
  <2>1. CASE answer.result = ByAgent(ask, call)
    <3>1. answer.result.prefs.avoid = call.prefs.avoid \cup ask.model.avoid
      BY <2>1, AgentLimits
    <3> QED
      BY <1>3, <3>1
  <2>2. CASE answer.result = ByParser(ask, call)
    <3>1. answer.result.prefs.avoid = call.prefs.avoid
      BY <2>2, ParserCall
    <3> QED
      BY <1>3, <3>1
  <2> QED
    BY <1>2, <2>1, <2>2
<1> QED
  BY <1>2, <1>4, <1>5

LEMMA ListedIsKept == AskInv => ListedIsAvoided
<1> SUFFICES ASSUME AskInv, Planned, Typed, NEW c \in ask.text.clauses, c.cue = "explicit"
             PROVE  /\ PlainList(c.words) => \A i \in DOMAIN c.words :
                           Known(c.words[i].word) /\ Covers[c.words[i].word] \subseteq answer.result.prefs.avoid
                    /\ c.words # <<>> /\ Known(c.words[1].word) =>
                           Covers[c.words[1].word] \subseteq answer.result.prefs.avoid
                    /\ \A i \in 2..Len(c.words) : PlainList(SubSeq(c.words, 1, i - 1)) =>
                           Known(c.words[i].word) \/ c.words[i].word = Furniture
  BY DEF ListedIsAvoided
<1>1. c.words \in Seq({c.words[i] : i \in DOMAIN c.words})
  BY DEF AskInv, AskAsked, Typed
<1>2. Heard(c) = Scan(c.words)
  BY DEF Heard
<1>3. ~Scan(c.words).unmapped
  BY <1>2, NothingUnparsed DEF AllergenUnparsed
<1>4. Scan(c.words).found \subseteq answer.result.prefs.avoid
  BY <1>2, NothingUnparsed DEF Avoids
<1> HIDE DEF AskInv, Planned, Typed
<1> QED
  BY <1>1, <1>3, <1>4, PlainListIsHeard

LEMMA PickedIsKept == AskInv => PickedPlaceIsKept
<1> SUFFICES ASSUME AskInv, Told("ask"), answer.result.by # "refusal"
             PROVE  /\ ask.device = "near" => answer.result.prefs.from = "your-location"
                    /\ ask.device # "near" /\ Explicit(ask.from) => answer.result.prefs.from = ask.from.name
                    /\ Explicit(ask.to) /\ ask.to.kind \in {"static", "unknown"} =>
                         answer.result.prefs.to = ask.to.name
                    /\ Typed /\ ~Explicit(ask.to) /\ ask.text.to # Unsaid /\ ask.text.to.looks \in {"known", "proper"} =>
                         answer.result.prefs.to = ask.text.to.name
  BY DEF PickedPlaceIsKept
<1>1. PICK call : /\ answer.result = ByParser(ask, call) \/ answer.result = ByAgent(ask, call)
                  /\ Typed => call.prefs = Preferences(ask.text)
  <2>1. CASE Typed
    <3>1. PICK call : call = ParseFreeText(ask.text, ask.now, ask.live)
      OBVIOUS
    <3>2. /\ answer.result = IF Contacts(ask, call) /\ ask.provider = "answers" THEN ByAgent(ask, call) ELSE ByParser(ask, call)
          /\ call.prefs = Preferences(ask.text)
      BY <2>1, <3>1, TypedCall DEF Told
    <3> QED
      BY <3>2
  <2>2. CASE ~Typed
    BY <2>2 DEF AskInv, HandleAsk, Typed, Told
  <2> QED
    BY <2>1, <2>2
<1> DEFINE from == OriginOf(ask, call.prefs.from)
           to   == IF Explicit(ask.to) /\ (answer.result = ByAgent(ask, call) \/ ask.to.kind # "dynamic")
                   THEN ask.to.name ELSE call.prefs.to
<1>2. /\ from # Unsaid => answer.result.prefs.from = from
      /\ to # Unsaid => answer.result.prefs.to = to
  <2>1. CASE answer.result = ByAgent(ask, call)
    <3>1. /\ answer.result.prefs.from = StudentFirst(from, ask.model.from)
          /\ answer.result.prefs.to = StudentFirst(to, ask.model.to)
      BY <2>1, AgentPlaces
    <3> HIDE DEF from, to
    <3> QED
      BY <3>1 DEF StudentFirst
  <2>2. CASE answer.result # ByAgent(ask, call)
    <3>1. answer.result = ByParser(ask, call)
      BY <2>2, <1>1
    <3> QED
      BY <3>1, <2>2, ParserCall
  <2> QED
    BY <2>1, <2>2
<1>3. /\ Explicit(ask.from) => ask.from.name # Unsaid
      /\ Explicit(ask.to) => ask.to.name # Unsaid
      /\ ask.text.to # Unsaid => ask.text.to.name # Unsaid
  BY DEF AskInv, AskAsked, Explicit
<1>4. Typed /\ ask.text.to # Unsaid /\ ask.text.to.looks \in {"known", "proper"} => call.prefs.to = ask.text.to.name
  BY <1>1 DEF Preferences, PlaceSaid
<1>5. /\ ask.device = "near" => from = "your-location"
      /\ ask.device # "near" /\ Explicit(ask.from) => from = ask.from.name
  BY AskAssumption DEF OriginOf, OriginKey
<1>6. Explicit(ask.to) /\ ask.to.kind \in {"static", "unknown"} => to = ask.to.name
  OBVIOUS
<1>7. ~Explicit(ask.to) => to = call.prefs.to
  OBVIOUS
<1> HIDE DEF from, to
<1> QED
  BY <1>2, <1>3, <1>4, <1>5, <1>6, <1>7, AskAssumption

\* The least of the ceilings that were said.
LEMMA LeastCeiling ==
    ASSUME NEW S, S \subseteq Nat, S # {}
    PROVE  Min(S) \in S /\ \A y \in S : Min(S) <= y
<1>1. PICK x \in S : \A y \in S : <<y, x>> \notin OpToRel(<, Nat)
  BY NatLessThanWellFounded, WFMin
<1>2. \A y \in S : ~(y < x)
  BY <1>1 DEF OpToRel
<1>3. \A y \in S : x <= y
  BY <1>2
<1> QED
  BY <1>3 DEF Min

LEMMA LimitsAreKept == AskInv => LimitsAreTheStudents
<1> SUFFICES ASSUME AskInv, Told("ask"), Typed, answer.result.by = "agent"
             PROVE  /\ ask.text.kcal # {} =>
                         \E k \in ask.text.kcal : /\ answer.result.prefs.kcal = {k}
                                                  /\ \A said \in ask.text.kcal : k <= said
                    /\ ask.text.diet # Unsaid => answer.result.prefs.diet = ask.text.diet
  BY DEF LimitsAreTheStudents
<1>1. PICK call : call = ParseFreeText(ask.text, ask.now, ask.live)
  OBVIOUS
<1>2. /\ answer.result = ByAgent(ask, call) \/ answer.result = ByParser(ask, call)
      /\ call.prefs = Preferences(ask.text)
  BY <1>1, TypedCall DEF Told
<1>3. answer.result = ByAgent(ask, call)
  <2>1. ByParser(ask, call).by # "agent"
    BY ParserCall
  <2> QED
    BY <1>2, <2>1
<1>4. /\ answer.result.prefs.kcal = IF ask.text.kcal = {} THEN ask.model.kcal ELSE {Min(ask.text.kcal)}
      /\ answer.result.prefs.diet = StudentFirst(call.prefs.diet, ask.model.diet)
  BY <1>3, AgentLimits
<1>5. call.prefs.diet = ask.text.diet
  BY <1>2 DEF Preferences
<1>6. ask.text.kcal \subseteq Nat
  BY DEF AskInv, AskAsked, Typed
<1>7. ASSUME ask.text.kcal # {}
      PROVE  \E k \in ask.text.kcal : answer.result.prefs.kcal = {k} /\ \A said \in ask.text.kcal : k <= said
  BY <1>4, <1>6, <1>7, LeastCeiling
<1> QED
  BY <1>4, <1>5, <1>7 DEF StudentFirst

LEMMA NextTimeOf ==
    ASSUME NEW t, t.hour \in 0..23, NEW after \in Int
    PROVE  /\ NextTime(t, after) \in Int /\ NextTime(t, after) \in OnTheClock(t)
           /\ NextTime(t, after) < 24 /\ t.hour <= NextTime(t, after)
<1>1. CASE ~t.marked /\ t.hour <= after /\ t.hour < 12
  BY <1>1 DEF NextTime, Noon, OnTheClock
<1>2. CASE ~(~t.marked /\ t.hour <= after /\ t.hour < 12)
  BY <1>2 DEF NextTime, Noon, OnTheClock
<1> QED
  BY <1>1, <1>2

\* Of two times, each is as said or on the other half of the clock.
LEMMA TwoTimesOf ==
    ASSUME NEW f, NEW s, f.hour \in 0..23, s.hour \in 0..23
    PROVE  LET w == TwoTimes(f, s)
           IN  /\ w.asks = Unsaid /\ w.start \in OnTheClock(f) /\ w.end \in OnTheClock(s)
               /\ w.start \in 0..47 /\ w.end \in 0..47
<1> DEFINE end   == IF ~s.marked /\ s.hour <= f.hour /\ s.hour < Noon THEN s.hour + Noon ELSE s.hour
           shift == IF ~f.marked /\ ~s.marked /\ f.hour < Morning /\ end < Morning THEN Noon ELSE 0
<1>1. TwoTimes(f, s) = [start |-> f.hour + shift, end |-> end + shift, asks |-> Unsaid]
  BY DEF TwoTimes, Spell
<1>2. end = s.hour \/ (~s.marked /\ end = s.hour + 12)
  BY DEF Noon
<1>3. shift = 0 \/ (~f.marked /\ ~s.marked /\ end < 8 /\ shift = 12)
  BY DEF Noon, Morning
<1> HIDE DEF end, shift
<1>4. CASE shift = 0
  BY <1>1, <1>2, <1>4 DEF OnTheClock, Noon
<1>5. CASE ~f.marked /\ ~s.marked /\ end < 8 /\ shift = 12
  <2>1. end = s.hour
    BY <1>2, <1>5
  <2> QED
    BY <1>1, <1>5, <2>1 DEF OnTheClock, Noon
<1> QED
  BY <1>3, <1>4, <1>5

\* A text of one time ends at that time, or twelve hours on, or is asked about.
LEMMA LiveWindowOfTimes ==
    ASSUME NEW times, times \in Seq(TimesOfDay), NEW now, now \in 0..23
    PROVE  LET w == LiveWindow(times, now)
           IN  /\ w.asks = Unsaid \/ w.asks = "need_deadline" \/ w.asks = "deadline_passed"
               /\ times = <<>> => w.start = now /\ w.end = Unsaid /\ w.asks = "need_deadline"
               /\ Len(times) = 2 =>
                    /\ w.asks = Unsaid /\ w.start \in OnTheClock(times[1]) /\ w.end \in OnTheClock(times[2])
                    /\ w.start \in 0..47 /\ w.end \in 0..47
               /\ Len(times) = 1 =>
                    /\ w.start = now
                    /\ w.asks = Unsaid => /\ w.end > now /\ w.end < 24 /\ w.end \in OnTheClock(times[1])
                                          /\ w.end \in 0..47
                    /\ w.asks # Unsaid => w.asks = "deadline_passed" /\ times[1].hour <= now
<1>0. /\ Len(times) \in Nat /\ DOMAIN times = 1..Len(times)
      /\ \A i \in 1..Len(times) : times[i].hour \in 0..23
      /\ Len(times) = 0 <=> times = <<>>
      /\ now \in Int
  <2>1. \A i \in 1..Len(times) : times[i].hour \in 0..23
    <3>1. \A i \in 1..Len(times) : times[i] \in TimesOfDay
      BY ElementOfSeq
    <3> QED
      BY <3>1 DEF TimesOfDay
  <2>2. Len(times) = 0 <=> times = <<>>
    BY EmptySeq
  <2> QED
    BY <2>1, <2>2
<1>1. CASE times = <<>>
  BY <1>0, <1>1 DEF LiveWindow
<1>2. CASE Len(times) >= 2
  <2>1. PICK w : w = TwoTimes(times[1], times[2])
    OBVIOUS
  <2>2. times[1].hour \in 0..23 /\ times[2].hour \in 0..23 /\ times # <<>>
    BY <1>0, <1>2
  <2>3. LiveWindow(times, now) = w
    BY <1>2, <2>1, <2>2 DEF LiveWindow
  <2>4. /\ w.asks = Unsaid /\ w.start \in OnTheClock(times[1]) /\ w.end \in OnTheClock(times[2])
        /\ w.start \in 0..47 /\ w.end \in 0..47
    BY <2>1, <2>2, TwoTimesOf
  <2> QED
    BY <1>0, <1>2, <2>2, <2>3, <2>4
<1>3. CASE Len(times) = 1
  <2>1. times[1].hour \in 0..23 /\ times # <<>>
    BY <1>0, <1>3
  <2>2. PICK end : end = NextTime(times[1], now)
    OBVIOUS
  <2>3. end \in OnTheClock(times[1]) /\ end < 24 /\ end \in Int /\ times[1].hour <= end
    BY <1>0, <2>1, <2>2, NextTimeOf
  <2>4. LiveWindow(times, now) =
          IF end <= now THEN [start |-> now, end |-> end, asks |-> "deadline_passed"]
          ELSE [start |-> now, end |-> end, asks |-> Unsaid]
    BY <1>3, <2>1, <2>2 DEF LiveWindow, Spell
  <2>5. CASE end <= now
    <3>1. LiveWindow(times, now).asks = "deadline_passed" /\ LiveWindow(times, now).start = now
      BY <2>4, <2>5
    <3>2. times[1].hour <= now
      <4>1. times[1].hour \in Int
        <5>1. \A h \in 0..23 : h \in Int
          OBVIOUS
        <5> QED
          BY <2>1, <5>1, Zenon
      <4>2. end \in Int
        BY <2>3
      <4>3. now \in Int
        BY <1>0
      <4>4. times[1].hour <= end
        BY <2>3
      <4> QED
        BY <4>1, <4>2, <4>3, <4>4, <2>5
    <3> QED
      BY <3>1, <3>2, <1>3, <2>1, AskAssumption
  <2>6. CASE ~(end <= now)
    <3>1. LiveWindow(times, now).asks = Unsaid /\ LiveWindow(times, now).start = now /\ LiveWindow(times, now).end = end
      BY <2>4, <2>6
    <3>2. end > now /\ end \in 0..47
      BY <1>0, <2>3, <2>6
    <3> QED
      BY <3>1, <3>2, <1>3, <2>1, <2>3
  <2> QED
    BY <2>5, <2>6
<1> QED
  BY <1>0, <1>1, <1>2, <1>3

\* Two times with no AM or PM make a stretch that runs forward.
LEMMA TwoPlainTimes ==
    ASSUME NEW f, NEW s, f.hour \in 0..23, s.hour \in 0..23, ~f.marked, ~s.marked,
           NEW w, w = TwoTimes(f, s)
    PROVE  /\ f.hour < Noon /\ s.hour < Noon => w.start < w.end
           /\ w.start < Morning => w.end >= Morning
<1> DEFINE end   == IF ~s.marked /\ s.hour <= f.hour /\ s.hour < Noon THEN s.hour + Noon ELSE s.hour
           shift == IF ~f.marked /\ ~s.marked /\ f.hour < Morning /\ end < Morning THEN Noon ELSE 0
<1>1. w.start = f.hour + shift /\ w.end = end + shift
  BY DEF TwoTimes, Spell
<1>3. /\ end = IF s.hour <= f.hour /\ s.hour < 12 THEN s.hour + 12 ELSE s.hour
      /\ shift = IF f.hour < 8 /\ end < 8 THEN 12 ELSE 0
  BY DEF Noon, Morning
<1> HIDE DEF end, shift
<1> QED
  BY <1>1, <1>3 DEF Noon, Morning

\* The window of a typed question.
LEMMA TypedWindow ==
    ASSUME AskInv, Typed, NEW call, call = ParseFreeText(ask.text, ask.now, ask.live)
    PROVE  LET w == call.window
               live == LiveWindow(ask.text.times, ask.now)
           IN  /\ w.asks = "allergen_unparsed" => AllergenUnparsed(ask.text)
               /\ Len(ask.text.times) = 2 =>
                    \E v : v = TwoTimes(ask.text.times[1], ask.text.times[2]) /\ w.start = v.start /\ w.end = v.end
               /\ ask.live /\ w.asks # "allergen_unparsed" => w = live
<1>1. ask.text.times \in Seq(TimesOfDay) /\ ask.now \in 0..23
  BY DEF AskInv, AskAsked, Typed
<1> DEFINE live == LiveWindow(ask.text.times, ask.now)
           frozen == FrozenWindow(ask.text.times, IF ask.live THEN ask.now ELSE DemoStart,
                                  IF ask.live THEN Unsaid ELSE DemoEnd)
<1>2. call.window = IF AllergenUnparsed(ask.text) THEN [frozen EXCEPT !.asks = "allergen_unparsed"]
                    ELSE IF ask.live THEN live ELSE frozen
  BY DEF ParseFreeText
<1>3. frozen = [start |-> frozen.start, end |-> frozen.end, asks |-> Unsaid]
  BY DEF FrozenWindow, TwoTimes, Spell
<1>4. live.asks # "allergen_unparsed"
  <2>1. live.asks = Unsaid \/ live.asks = "need_deadline" \/ live.asks = "deadline_passed"
    BY <1>1, LiveWindowOfTimes, SMTT(30)
  <2> QED
    BY <2>1, AskAssumption
<1>5. Len(ask.text.times) = 2 =>
        frozen = TwoTimes(ask.text.times[1], ask.text.times[2]) /\ live = TwoTimes(ask.text.times[1], ask.text.times[2])
  BY <1>1 DEF FrozenWindow, LiveWindow
<1> HIDE DEF live, frozen
<1>6. call.window.asks = "allergen_unparsed" => AllergenUnparsed(ask.text)
  <2>1. frozen.asks = Unsaid
    BY <1>3
  <2> QED
    BY <2>1, <1>2, <1>4, AskAssumption
<1>7. ask.live /\ call.window.asks # "allergen_unparsed" => call.window = live
  BY <1>2, <1>3
<1>8. AllergenUnparsed(ask.text) => call.window.start = frozen.start /\ call.window.end = frozen.end
  BY <1>2, <1>3
<1>9. ASSUME Len(ask.text.times) = 2
      PROVE \E v : v = TwoTimes(ask.text.times[1], ask.text.times[2]) /\ call.window.start = v.start /\ call.window.end = v.end
  BY <1>2, <1>5, <1>8, <1>9
<1> QED
  BY <1>6, <1>7, <1>9 DEF live

LEMMA WindowIsKept == AskInv => LiveWindowIsTheStudents
<1> DEFINE r == answer.result
           OneTime == /\ r.start = ask.now
                      /\ IF r.asks = Unsaid
                         THEN r.end > ask.now /\ r.end < 24 /\ r.end \in OnTheClock(ask.text.times[1])
                         ELSE ask.text.times[1].hour <= ask.now /\ ~answer.contacted
           TwoSaid == r.asks = Unsaid /\ r.start \in OnTheClock(ask.text.times[1]) /\ r.end \in OnTheClock(ask.text.times[2])
           NoTime == /\ r.start = ask.now
                     /\ IF r.asks = Unsaid THEN r.by = "agent" /\ r.end = ask.model.end
                        ELSE r.asks = "need_deadline" /\ r.end = Unsaid
<1> SUFFICES ASSUME AskInv, Told("ask"), answer.result.by # "refusal"
             PROVE  /\ answer.contacted => ask.live
                    /\ ask.live /\ Typed /\ r.asks # "allergen_unparsed" =>
                         /\ Len(ask.text.times) = 1 => OneTime
                         /\ Len(ask.text.times) = 2 => TwoSaid
                         /\ ask.text.times = <<>> => NoTime
                    /\ ask.live /\ ~Typed =>
                         IF Presets[ask.scenario].end <= ask.now THEN r.asks # Unsaid
                         ELSE r.asks = Unsaid /\ r.start = ask.now /\ r.end = Presets[ask.scenario].end
  BY DEF LiveWindowIsTheStudents
<1>1. CASE Typed
  <2>1. PICK call : call = ParseFreeText(ask.text, ask.now, ask.live)
    OBVIOUS
  <2>2. /\ answer.contacted = Contacts(ask, call)
        /\ answer.result = IF Contacts(ask, call) /\ ask.provider = "answers" THEN ByAgent(ask, call) ELSE ByParser(ask, call)
    BY <1>1, <2>1, TypedCall DEF Told
  <2>3. answer.contacted => ask.live
    BY <2>2 DEF Contacts
  <2>4. answer.contacted => call.window.asks # "allergen_unparsed" /\ call.window.asks # "deadline_passed"
    BY <2>2 DEF Contacts
  <2>5. \/ /\ answer.contacted /\ r.by = "agent"
           /\ r.start = StudentFirst(call.window.start, ask.model.start)
           /\ r.end = StudentFirst(call.window.end, ask.model.end)
           /\ r.asks = IF r.end = Unsaid THEN "need_deadline" ELSE Unsaid
        \/ /\ r.by = "parser" /\ r.asks = call.window.asks
           /\ r.start = call.window.start /\ r.end = call.window.end
    <3>1. CASE Contacts(ask, call) /\ ask.provider = "answers"
      <4>1. answer.result = ByAgent(ask, call)
        BY <3>1, <2>2
      <4> QED
        BY <4>1, <3>1, <2>2, AgentWindow
    <3>2. CASE ~(Contacts(ask, call) /\ ask.provider = "answers")
      <4>1. answer.result = ByParser(ask, call)
        BY <3>2, <2>2
      <4> QED
        BY <4>1, ParserCall
    <3> QED
      BY <3>1, <3>2
  <2>6. ASSUME ask.live, r.asks # "allergen_unparsed"
        PROVE  /\ Len(ask.text.times) = 1 => OneTime
               /\ Len(ask.text.times) = 2 => TwoSaid
               /\ ask.text.times = <<>> => NoTime
    <3>1. call.window.asks # "allergen_unparsed"
      BY <2>4, <2>5, <2>6
    <3>2. PICK w : w = LiveWindow(ask.text.times, ask.now)
      OBVIOUS
    <3>3. call.window = w
      BY <1>1, <2>1, <2>6, <3>1, <3>2, TypedWindow
    <3>4. ask.text.times \in Seq(TimesOfDay) /\ ask.now \in 0..23
      BY <1>1 DEF AskInv, AskAsked, Typed
    <3>5. /\ ask.text.times = <<>> => w.start = ask.now /\ w.end = Unsaid /\ w.asks = "need_deadline"
          /\ Len(ask.text.times) = 2 =>
               /\ w.asks = Unsaid /\ w.start \in OnTheClock(ask.text.times[1]) /\ w.end \in OnTheClock(ask.text.times[2])
               /\ w.start \in 0..47 /\ w.end \in 0..47
          /\ Len(ask.text.times) = 1 =>
               /\ w.start = ask.now
               /\ w.asks = Unsaid => /\ w.end > ask.now /\ w.end < 24 /\ w.end \in OnTheClock(ask.text.times[1])
                                     /\ w.end \in 0..47
               /\ w.asks # Unsaid => w.asks = "deadline_passed" /\ ask.text.times[1].hour <= ask.now
      BY <3>2, <3>4, LiveWindowOfTimes, SMTT(30)
    <3>7. ask.now # Unsaid /\ \A h \in 0..47 : h # Unsaid
      <4>1. \A h \in 0..23 : h \in 0..47
        OBVIOUS
      <4> QED
        BY <3>4, <4>1, AskAssumption, Zenon
    <3>6. answer.contacted => w.asks # "deadline_passed"
      BY <2>4, <3>3
    <3>8. CASE r.by = "parser"
      <4>1. r.asks = w.asks /\ r.start = w.start /\ r.end = w.end
        BY <2>5, <3>3, <3>8
      <4>2. Len(ask.text.times) = 1 => OneTime
        BY <3>5, <3>6, <4>1, Zenon
      <4>3. ask.text.times = <<>> => NoTime
        BY <3>5, <4>1, AskAssumption, Zenon
      <4> QED
        BY <3>5, <4>1, <4>2, <4>3, Zenon
    <3>9. CASE r.by = "agent"
      <4>1. /\ answer.contacted
            /\ r.start = StudentFirst(w.start, ask.model.start)
            /\ r.end = StudentFirst(w.end, ask.model.end)
            /\ r.asks = IF r.end = Unsaid THEN "need_deadline" ELSE Unsaid
        BY <2>5, <3>3, <3>9
      <4>2. w.start # Unsaid => r.start = w.start
        BY <4>1 DEF StudentFirst
      <4>3. w.end # Unsaid => r.end = w.end /\ r.asks = Unsaid
        BY <4>1 DEF StudentFirst
      <4>4. w.end = Unsaid => r.end = ask.model.end
        BY <4>1 DEF StudentFirst
      <4>5. Len(ask.text.times) = 1 => OneTime
        BY <3>5, <3>6, <3>7, <4>1, <4>2, <4>3, Zenon
      <4>6. Len(ask.text.times) = 2 => TwoSaid
        BY <3>5, <3>7, <4>2, <4>3, Zenon
      <4>7. ask.text.times = <<>> => NoTime
        <5>1. ask.text.times = <<>> => r.start = ask.now /\ r.end = ask.model.end
          BY <3>5, <3>7, <4>2, <4>4, Zenon
        <5>2. r.asks = Unsaid \/ (r.asks = "need_deadline" /\ r.end = Unsaid)
          BY <4>1
        <5> QED
          BY <3>9, <5>1, <5>2, Zenon
      <4> QED
        BY <4>5, <4>6, <4>7
    <3> QED
      BY <2>5, <3>8, <3>9
  <2> HIDE DEF OneTime, TwoSaid, NoTime
  <2> QED
    BY <1>1, <2>3, <2>6
<1>2. CASE ~Typed
  <2>1. /\ ask.scenario \in DOMAIN Presets /\ ~answer.contacted
        /\ answer.result = ByParser(ask, PresetCall(Presets[ask.scenario], ask.now, ask.live))
    BY <1>2 DEF AskInv, AskAsked, HandleAsk, Typed, Told
  <2> DEFINE w == PresetCall(Presets[ask.scenario], ask.now, ask.live).window
  <2>2. answer.result.asks = w.asks /\ answer.result.start = w.start /\ answer.result.end = w.end
    BY <2>1, ParserCall
  <2>3. ASSUME ask.live PROVE IF Presets[ask.scenario].end <= ask.now THEN w.asks # Unsaid
                              ELSE w.asks = Unsaid /\ w.start = ask.now /\ w.end = Presets[ask.scenario].end
    <3>1. CASE Presets[ask.scenario].end <= ask.now
      <4>1. w = [Presets[ask.scenario] EXCEPT !.asks = "deadline_passed"]
        BY <2>3, <3>1 DEF PresetCall
      <4> QED
        BY <4>1, <3>1, <2>1, AskAssumption
    <3>2. CASE ~(Presets[ask.scenario].end <= ask.now)
      BY <2>3, <3>2 DEF PresetCall, Spell
    <3> QED
      BY <3>1, <3>2
  <2> HIDE DEF w
  <2> QED
    BY <1>2, <2>1, <2>2, <2>3
<1> QED
  BY <1>1, <1>2

\* A clause that names no allergen and no word that restricts asks for nothing.
LEMMA ProseIsParsed ==
    ASSUME NEW text, \A c \in text.clauses : c.cue = "bare" /\ \A i \in DOMAIN c.words : ~Known(c.words[i].word)
    PROVE  ~AllergenUnparsed(text)
<1>1. ASSUME NEW c \in text.clauses PROVE ~Heard(c).unmapped
  <2>1. c.cue = "bare" /\ \A i \in DOMAIN c.words : ~Known(c.words[i].word)
    OBVIOUS
  <2>2. Heard(c) = [Scan(c.words) EXCEPT !.unmapped = @ /\ Scan(c.words).found # {}]
    BY <2>1 DEF Heard
  <2>3. Scan(c.words) = [found |-> Scan(c.words).found, unmapped |-> Scan(c.words).unmapped]
    BY DEF Scan
  <2>4. Scan(c.words).found = {}
    BY <2>1 DEF Scan, Members
  <2> QED
    BY <2>2, <2>3, <2>4
<1> QED
  BY <1>1 DEF AllergenUnparsed

LEMMA ProseIsLeft == AskInv => ProseIsLeftAlone
<1> DEFINE r == answer.result
<1> SUFFICES ASSUME AskInv, Told("ask"), Typed
             PROVE  /\ (\A c \in ask.text.clauses : c.cue = "bare" /\ \A i \in DOMAIN c.words : ~Known(c.words[i].word)) =>
                           r.asks # "allergen_unparsed"
                    /\ Len(ask.text.times) = 2 /\ (\A i \in 1..2 : ~ask.text.times[i].marked) =>
                           /\ (\A i \in 1..2 : ask.text.times[i].hour < Noon) => r.start < r.end
                           /\ r.start < Morning => r.end >= Morning
  BY DEF ProseIsLeftAlone
<1>1. PICK call : call = ParseFreeText(ask.text, ask.now, ask.live)
  OBVIOUS
<1>2. r = ByParser(ask, call) \/ r = ByAgent(ask, call)
  BY <1>1, TypedCall DEF Told
<1>3. /\ r.asks = "allergen_unparsed" => call.window.asks = "allergen_unparsed"
      /\ call.window.start # Unsaid => r.start = call.window.start
      /\ call.window.end # Unsaid => r.end = call.window.end
  <2>1. CASE r = ByParser(ask, call)
    BY <2>1, ParserCall
  <2>2. CASE r = ByAgent(ask, call)
    <3>1. /\ r.start = StudentFirst(call.window.start, ask.model.start)
          /\ r.end = StudentFirst(call.window.end, ask.model.end)
          /\ r.asks = IF r.end = Unsaid THEN "need_deadline" ELSE Unsaid
      BY <2>2, AgentWindow
    <3> HIDE DEF r
    <3> QED
      BY <3>1, AskAssumption DEF StudentFirst
  <2> QED
    BY <1>2, <2>1, <2>2
<1>4. call.window.asks = "allergen_unparsed" => AllergenUnparsed(ask.text)
  BY <1>1, TypedWindow
<1>5. ASSUME Len(ask.text.times) = 2, \A i \in 1..2 : ~ask.text.times[i].marked
      PROVE  /\ (\A i \in 1..2 : ask.text.times[i].hour < Noon) => r.start < r.end
             /\ r.start < Morning => r.end >= Morning
  <2>1. PICK v : v = TwoTimes(ask.text.times[1], ask.text.times[2]) /\ call.window.start = v.start /\ call.window.end = v.end
    BY <1>1, <1>5, TypedWindow
  <2>2. ask.text.times \in Seq(TimesOfDay)
    BY DEF AskInv, AskAsked, Typed
  <2>3. ask.text.times[1].hour \in 0..23 /\ ask.text.times[2].hour \in 0..23
    <3>1. ask.text.times[1] \in TimesOfDay /\ ask.text.times[2] \in TimesOfDay
      BY <2>2, <1>5, ElementOfSeq
    <3> QED
      BY <3>1 DEF TimesOfDay
  <2>4. ~ask.text.times[1].marked /\ ~ask.text.times[2].marked
    BY <1>5
  <2>5. /\ ask.text.times[1].hour < Noon /\ ask.text.times[2].hour < Noon => v.start < v.end
        /\ v.start < Morning => v.end >= Morning
    BY <2>1, <2>3, <2>4, TwoPlainTimes
  <2>6. v.start \in 0..47 /\ v.end \in 0..47
    BY <2>1, <2>3, TwoTimesOf
  <2>7. r.start = v.start /\ r.end = v.end
    BY <1>3, <2>1, <2>6, AskAssumption
  <2> QED
    BY <2>5, <2>7
<1> QED
  BY <1>3, <1>4, <1>5, ProseIsParsed

(* A question put to the assistant or the planner keeps the restrictions,    *)
(* the places and the hours that were said, whatever its clauses and times   *)
(* (server.py:285-346, 782-902, 1226-1245).                                  *)
THEOREM AsksAreKept == AskSpec => []AskKeepsItsWord
<1>1. answer = NoAnswer /\ AskAsked => AskInv
  BY DEF AskInv
<1>2. AskInv /\ [PostAsk]_lookupVars => AskInv'
  BY DEF AskInv, AskAsked, Typed, PostAsk, Reply, lookupVars
<1>3. AskInv => AskKeepsItsWord
  BY ListedIsKept, PickedIsKept, LimitsAreKept, WindowIsKept, ProseIsLeft DEF AskKeepsItsWord
<1> QED
  BY <1>1, <1>2, <1>3, PTL DEF AskSpec

-----------------------------------------------------------------------------
(* Greatest and least members of finite sets: x is a peak of S if the fewest *)
(* members are past it.                                                      *)
LEMMA FewestPast ==
    ASSUME NEW S, S # {}, NEW past, \A x \in S : past[x] \in Nat
    PROVE  \E x \in S : \A y \in S : past[x] <= past[y]
<1> DEFINE T == {past[x] : x \in S}
<1>1. T \subseteq Nat /\ T # {}
  OBVIOUS
<1>2. PICK n \in T : \A m \in T : <<m, n>> \notin OpToRel(<, Nat)
  BY <1>1, NatLessThanWellFounded, WFMin
<1>3. \A m \in T : ~(m < n)
  BY <1>1, <1>2 DEF OpToRel
<1>4. PICK x \in S : n = past[x]
  BY <1>2
<1>5. \A y \in S : past[x] <= past[y]
  BY <1>3, <1>4
<1> QED
  BY <1>5

LEMMA PeakOf ==
    ASSUME NEW S, IsFiniteSet(S), S # {}, NEW R,
           \A x, y, z \in S : <<x, y>> \in R /\ <<y, z>> \in R => <<x, z>> \in R,
           \A x \in S : <<x, x>> \notin R
    PROVE  \E x \in S : \A y \in S : <<y, x>> \notin R
<1> DEFINE beyond(x) == {y \in S : <<y, x>> \in R}
           past == [x \in S |-> Cardinality(beyond(x))]
<1>1. ASSUME NEW x \in S PROVE IsFiniteSet(beyond(x)) /\ Cardinality(beyond(x)) \in Nat
  BY FS_Subset, FS_CardinalityType
<1>2. PICK x \in S : \A y \in S : past[x] <= past[y]
  <2>1. \A x \in S : past[x] \in Nat
    BY <1>1
  <2> HIDE DEF past
  <2> QED
    BY <2>1, FewestPast
<1>3. ASSUME NEW y \in S, <<y, x>> \in R PROVE FALSE
  <2>1. beyond(y) \subseteq beyond(x) /\ y \in beyond(x) /\ y \notin beyond(y)
    BY <1>3
  <2>2. Cardinality(beyond(y)) < Cardinality(beyond(x))
    <3> HIDE DEF beyond
    <3> QED
      BY <2>1, <1>1, FS_Subset
  <2>3. Cardinality(beyond(x)) <= Cardinality(beyond(y))
    BY <1>2
  <2> QED
    <3> HIDE DEF beyond
    <3> QED
      BY <1>1, <2>2, <2>3
<1> QED
  BY <1>3

LEMMA MaxOf ==
    ASSUME NEW S, IsFiniteSet(S), S # {}, S \subseteq Int
    PROVE  Max(S) \in S /\ \A y \in S : Max(S) >= y
<1> DEFINE R == {p \in S \X S : p[1] > p[2]}
<1>1. \A x, y \in S : <<x, y>> \in R <=> x > y
  OBVIOUS
<1> HIDE DEF R
<1>2. \E x \in S : \A y \in S : <<y, x>> \notin R
  <2>1. \A x, y, z \in S : <<x, y>> \in R /\ <<y, z>> \in R => <<x, z>> \in R
    BY <1>1
  <2>2. \A x \in S : <<x, x>> \notin R
    BY <1>1
  <2> QED
    BY <2>1, <2>2, PeakOf
<1>3. \E x \in S : \A y \in S : x >= y
  <2>1. PICK x \in S : \A y \in S : <<y, x>> \notin R
    BY <1>2
  <2>2. \A y \in S : ~(y > x)
    BY <1>1, <2>1
  <2>3. \A y \in S : x >= y
    BY <2>2
  <2> QED
    BY <2>3
<1> QED
  BY <1>3 DEF Max

LEMMA MinOf ==
    ASSUME NEW S, IsFiniteSet(S), S # {}, S \subseteq Int
    PROVE  Min(S) \in S /\ \A y \in S : Min(S) <= y
<1> DEFINE R == {p \in S \X S : p[1] < p[2]}
<1>1. \A x, y \in S : <<x, y>> \in R <=> x < y
  OBVIOUS
<1> HIDE DEF R
<1>2. \E x \in S : \A y \in S : <<y, x>> \notin R
  <2>1. \A x, y, z \in S : <<x, y>> \in R /\ <<y, z>> \in R => <<x, z>> \in R
    BY <1>1
  <2>2. \A x \in S : <<x, x>> \notin R
    BY <1>1
  <2> QED
    BY <2>1, <2>2, PeakOf
<1>3. \E x \in S : \A y \in S : x <= y
  <2>1. PICK x \in S : \A y \in S : <<y, x>> \notin R
    BY <1>2
  <2>2. \A y \in S : ~(y < x)
    BY <1>1, <2>1
  <2>3. \A y \in S : x <= y
    BY <2>2
  <2> QED
    BY <2>3
<1> QED
  BY <1>3 DEF Min

\* A risk level, and the greatest of several.
Level(x) == x \in Int /\ 0 <= x /\ x <= 4

LEMMA LevelsOf ==
    ASSUME NEW S, S # {}, \A x \in S : Level(x)
    PROVE  Max(S) \in S /\ Level(Max(S)) /\ \A y \in S : Max(S) >= y
<1>1. PICK n \in Int : n = 4
  OBVIOUS
<1>2. S \subseteq 0..n /\ S \subseteq Int
  BY <1>1 DEF Level
<1>3. IsFiniteSet(S)
  <2>1. IsFiniteSet(0..n)
    BY FS_Interval
  <2> QED
    BY <1>2, <2>1, FS_Subset
<1> QED
  BY <1>2, <1>3, MaxOf

\* The band of a value: a level, no lower than that of any bound it passes.
LEMMA BandOf ==
    ASSUME NEW value \in Int, NEW bands, DOMAIN bands \subseteq 1..4
    PROVE  /\ Level(Band(value, bands)) /\ Level(BandBelow(value, bands))
           /\ \A n \in DOMAIN bands : value >= bands[n] => Band(value, bands) >= n
           /\ \A n \in DOMAIN bands : value <= bands[n] => BandBelow(value, bands) >= n
<1> DEFINE up == {0} \cup {i \in DOMAIN bands : value >= bands[i]}
           down == {0} \cup {i \in DOMAIN bands : value <= bands[i]}
<1>1. (\A x \in up : Level(x)) /\ (\A x \in down : Level(x)) /\ up # {} /\ down # {}
  BY DEF Level
<1>2. Band(value, bands) = Max(up) /\ BandBelow(value, bands) = Max(down)
  BY DEF Band, BandBelow
<1>3. /\ \A n \in DOMAIN bands : value >= bands[n] => n \in up
      /\ \A n \in DOMAIN bands : value <= bands[n] => n \in down
  OBVIOUS
<1> HIDE DEF up, down
<1>4. Level(Max(up)) /\ \A y \in up : Max(up) >= y
  BY <1>1, LevelsOf
<1>5. Level(Max(down)) /\ \A y \in down : Max(down) >= y
  BY <1>1, LevelsOf
<1> QED
  BY <1>2, <1>3, <1>4, <1>5

\* A level that does not play the alert down.
Minds(level, a) ==
    /\ level # Unclear /\ level >= 1 /\ level >= SeverityLevel[a.severity]
    /\ a.severe => level >= SevereEventLevel

LEMMA AlertLevelOf ==
    ASSUME NEW a, AlertOK(a)
    PROVE  Level(AlertLevel(a)) /\ Minds(AlertLevel(a), a)
<1> DEFINE S == {SeverityLevel[a.severity], IF a.severe THEN SevereEventLevel ELSE 0}
<1>1. /\ \A x \in S : Level(x)
      /\ SeverityLevel[a.severity] >= 1 /\ SeverityLevel[a.severity] \in S
      /\ a.severe => SevereEventLevel \in S
  BY DEF AlertOK, SeverityLevel, SevereEventLevel, Level
<1>2. Level(Max(S)) /\ \A y \in S : Max(S) >= y
  <2> HIDE DEF S
  <2> QED
    BY <1>1, LevelsOf
<1> HIDE DEF S
<1>3. Max(S) >= SeverityLevel[a.severity] /\ Level(SeverityLevel[a.severity])
  BY <1>1, <1>2
<1>4. Max(S) >= 1 /\ Max(S) # Unclear
  BY <1>1, <1>2, <1>3, WeatherAssumption DEF Level
<1>5. a.severe => Max(S) >= SevereEventLevel
  BY <1>1, <1>2
<1> QED
  BY <1>2, <1>3, <1>4, <1>5 DEF AlertLevel, Minds, S

LEMMA ImageFinite ==
    ASSUME NEW S, IsFiniteSet(S), NEW f
    PROVE  IsFiniteSet({f[x] : x \in S})
<1> DEFINE T == {f[x] : x \in S}
           g == [x \in S |-> f[x]]
<1>1. g \in [S -> T] /\ \A t \in T : \E x \in S : g[x] = t
  OBVIOUS
<1>2. g \in Surjection(S, T)
  BY <1>1 DEF Surjection
<1> HIDE DEF g, T
<1>3. IsFiniteSet(T)
  BY <1>2, FS_Surjection
<1> QED
  BY <1>3 DEF T

\* Which values of a period make a leg it touches a risk of level n at least.
Marks(p, n) ==
    \/ p.precip # Missing /\ n <= 3 /\ p.precip >= Bands.precip[n]
    \/ p.temp # Missing /\ (p.temp >= Bands.heat[n] \/ p.temp <= Bands.cold[n])
    \/ p.wind # Missing /\ p.wind >= Bands.wind[n]
    \/ p.thunder /\ n = ThunderLevel

OverLeg(periods, leg) == {p \in periods : Overlaps(p.from, p.to, leg.from, leg.to)}

\* What is read from a set of values: levels, none of them below a value's own.
LEMMA ReadingsOf ==
    ASSUME NEW over, IsFiniteSet(over), NEW f,
           NEW values, values \subseteq Int, \A v \in values : \E p \in over : v = f[p],
           \A p \in over : f[p] # Missing => f[p] \in values
    PROVE  /\ values # {} => Max(values) \in Int /\ Min(values) \in Int
           /\ \A p \in over : f[p] # Missing => values # {} /\ Max(values) >= f[p] /\ Min(values) <= f[p]
<1>1. IsFiniteSet(values)
  <2>1. IsFiniteSet({f[p] : p \in over})
    BY ImageFinite
  <2>2. values \subseteq {f[p] : p \in over}
    OBVIOUS
  <2> QED
    BY <2>1, <2>2, FS_Subset
<1>3. ASSUME values # {} PROVE /\ Max(values) \in values /\ \A y \in values : Max(values) >= y
                              /\ Min(values) \in values /\ \A y \in values : Min(values) <= y
  BY <1>1, <1>3, MaxOf, MinOf
<1> QED
  BY <1>3

LEMMA LegJudged ==
    ASSUME NEW periods, IsFiniteSet(periods), \A p \in periods : PeriodOK(p),
           NEW alerts, \A a \in alerts : AlertOK(a),
           NEW leg, leg.from \in Int, leg.to \in Int
    PROVE  LET level == AssessLeg(leg, periods, alerts)
               over  == OverLeg(periods, leg)
           IN  /\ level = Unclear \/ Level(level)
               /\ \A p \in over, n \in 1..4 : Marks(p, n) => level # Unclear /\ level >= n
               /\ \A a \in alerts : AlertOverlaps(a, leg) => Minds(level, a)
               /\ level = 0 =>
                     over # {} /\ \A p \in over : ~HasGap(p) /\ ~p.thunder /\ (p.token => p.precip # Missing)
<1> DEFINE over == OverLeg(periods, leg)
           precip == {p.precip : p \in over} \ {Missing}
           temps == {p.temp : p \in over} \ {Missing}
           winds == {p.wind : p \in over} \ {Missing}
           wet == IF precip = {} THEN {} ELSE {Band(Max(precip), Bands.precip)}
           warm == IF temps = {} THEN {} ELSE {Band(Max(temps), Bands.heat), BandBelow(Min(temps), Bands.cold)}
           windy == IF winds = {} THEN {} ELSE {Band(Max(winds), Bands.wind)}
           unsaid == {1 : p \in {x \in over : x.token /\ x.precip = Missing}}
           thunder == {ThunderLevel : p \in {x \in over : x.thunder}}
           alerted == {AlertLevel(a) : a \in {x \in alerts : AlertOverlaps(x, leg)}}
           levels == {0} \cup wet \cup warm \cup windy \cup unsaid \cup thunder \cup alerted
           gap == over = {} \/ \E p \in over : HasGap(p)
<1>1. AssessLeg(leg, periods, alerts) = IF Max(levels) = 0 /\ gap THEN Unclear ELSE Max(levels)
  BY DEF AssessLeg, OverLeg
<1>2. IsFiniteSet(over) /\ \A p \in over : PeriodOK(p)
  BY FS_Subset DEF OverLeg
<1> HIDE DEF over
<1>3. /\ precip # {} => Max(precip) \in Int
      /\ \A p \in over : p.precip # Missing => precip # {} /\ Max(precip) >= p.precip
  <2> DEFINE f == [p \in over |-> p.precip]
  <2>1. /\ precip \subseteq Int /\ \A v \in precip : \E p \in over : v = f[p]
        /\ \A p \in over : f[p] # Missing => f[p] \in precip
        /\ \A p \in over : f[p] = p.precip
    BY <1>2 DEF PeriodOK
  <2> HIDE DEF f, precip
  <2>2. /\ precip # {} => Max(precip) \in Int /\ Min(precip) \in Int
        /\ \A p \in over : f[p] # Missing => precip # {} /\ Max(precip) >= f[p] /\ Min(precip) <= f[p]
    BY <2>1, <1>2, ReadingsOf
  <2> QED
    BY <2>1, <2>2
<1>4. /\ temps # {} => Max(temps) \in Int /\ Min(temps) \in Int
      /\ \A p \in over : p.temp # Missing => temps # {} /\ Max(temps) >= p.temp /\ Min(temps) <= p.temp
  <2> DEFINE f == [p \in over |-> p.temp]
  <2>1. /\ temps \subseteq Int /\ \A v \in temps : \E p \in over : v = f[p]
        /\ \A p \in over : f[p] # Missing => f[p] \in temps
        /\ \A p \in over : f[p] = p.temp
    BY <1>2 DEF PeriodOK
  <2> HIDE DEF f, temps
  <2>2. /\ temps # {} => Max(temps) \in Int /\ Min(temps) \in Int
        /\ \A p \in over : f[p] # Missing => temps # {} /\ Max(temps) >= f[p] /\ Min(temps) <= f[p]
    BY <2>1, <1>2, ReadingsOf
  <2> QED
    BY <2>1, <2>2
<1>5. /\ winds # {} => Max(winds) \in Int
      /\ \A p \in over : p.wind # Missing => winds # {} /\ Max(winds) >= p.wind
  <2> DEFINE f == [p \in over |-> p.wind]
  <2>1. /\ winds \subseteq Int /\ \A v \in winds : \E p \in over : v = f[p]
        /\ \A p \in over : f[p] # Missing => f[p] \in winds
        /\ \A p \in over : f[p] = p.wind
    BY <1>2 DEF PeriodOK
  <2> HIDE DEF f, winds
  <2>2. /\ winds # {} => Max(winds) \in Int /\ Min(winds) \in Int
        /\ \A p \in over : f[p] # Missing => winds # {} /\ Max(winds) >= f[p] /\ Min(winds) <= f[p]
    BY <2>1, <1>2, ReadingsOf
  <2> QED
    BY <2>1, <2>2
<1> HIDE DEF precip, temps, winds
<1>6. /\ \A x \in wet : Level(x)
      /\ \A p \in over, n \in 1..3 : p.precip # Missing /\ p.precip >= Bands.precip[n] => \E x \in wet : x >= n
  <2> DEFINE b == Bands.precip
  <2>1. DOMAIN b = 1..3 /\ \A n \in 1..3 : b[n] \in Int
    BY DEF Bands
  <2> HIDE DEF b
  <2>2. ASSUME precip # {} PROVE Level(Band(Max(precip), b)) /\ \A n \in 1..3 : Max(precip) >= b[n] => Band(Max(precip), b) >= n
    BY <2>1, <2>2, <1>3, BandOf
  <2>3. \A p \in over, n \in 1..3 : p.precip # Missing /\ p.precip >= b[n] => Max(precip) >= b[n]
    BY <2>1, <1>2, <1>3 DEF PeriodOK
  <2> QED
    BY <2>2, <2>3, <1>3 DEF b
<1>7. /\ \A x \in warm : Level(x)
      /\ \A p \in over, n \in 1..4 : p.temp # Missing /\ (p.temp >= Bands.heat[n] \/ p.temp <= Bands.cold[n]) =>
            \E x \in warm : x >= n
  <2> DEFINE h == Bands.heat
             c == Bands.cold
  <2>1. DOMAIN h = 1..4 /\ DOMAIN c = 1..4 /\ \A n \in 1..4 : h[n] \in Int /\ c[n] \in Int
    BY DEF Bands
  <2> HIDE DEF h, c
  <2>2. ASSUME temps # {}
        PROVE  /\ Level(Band(Max(temps), h)) /\ \A n \in 1..4 : Max(temps) >= h[n] => Band(Max(temps), h) >= n
               /\ Level(BandBelow(Min(temps), c)) /\ \A n \in 1..4 : Min(temps) <= c[n] => BandBelow(Min(temps), c) >= n
    BY <2>1, <2>2, <1>4, BandOf
  <2>3. \A p \in over, n \in 1..4 : p.temp # Missing => (p.temp >= h[n] => Max(temps) >= h[n]) /\ (p.temp <= c[n] => Min(temps) <= c[n])
    BY <2>1, <1>2, <1>4 DEF PeriodOK
  <2> QED
    BY <2>2, <2>3, <1>4 DEF h, c
<1>8. /\ \A x \in windy : Level(x)
      /\ \A p \in over, n \in 1..4 : p.wind # Missing /\ p.wind >= Bands.wind[n] => \E x \in windy : x >= n
  <2> DEFINE b == Bands.wind
  <2>1. DOMAIN b = 1..4 /\ \A n \in 1..4 : b[n] \in Int
    BY DEF Bands
  <2> HIDE DEF b
  <2>2. ASSUME winds # {} PROVE Level(Band(Max(winds), b)) /\ \A n \in 1..4 : Max(winds) >= b[n] => Band(Max(winds), b) >= n
    BY <2>1, <2>2, <1>5, BandOf
  <2>3. \A p \in over, n \in 1..4 : p.wind # Missing /\ p.wind >= b[n] => Max(winds) >= b[n]
    BY <2>1, <1>2, <1>5 DEF PeriodOK
  <2> QED
    BY <2>2, <2>3, <1>5 DEF b
<1>9. /\ \A x \in unsaid \cup thunder : Level(x)
      /\ \A p \in over : p.token /\ p.precip = Missing => 1 \in unsaid
      /\ \A p \in over : p.thunder => ThunderLevel \in thunder
  BY DEF Level, ThunderLevel
<1>10. /\ \A x \in alerted : Level(x)
       /\ \A a \in alerts : AlertOverlaps(a, leg) => AlertLevel(a) \in alerted /\ Minds(AlertLevel(a), a)
  BY AlertLevelOf
<1> HIDE DEF wet, warm, windy, unsaid, thunder, alerted
<1>11. levels # {} /\ \A x \in levels : Level(x)
  BY <1>6, <1>7, <1>8, <1>9, <1>10 DEF Level
<1>12. /\ \A p \in over, n \in 1..4 : Marks(p, n) => \E x \in levels : x >= n
       /\ \A a \in alerts : AlertOverlaps(a, leg) => AlertLevel(a) \in levels
  <2>1. ASSUME NEW p \in over, NEW n \in 1..4, Marks(p, n) PROVE \E x \in levels : x >= n
    <3>1. CASE p.precip # Missing /\ n <= 3 /\ p.precip >= Bands.precip[n]
      BY <3>1, <1>6
    <3>2. CASE p.temp # Missing /\ (p.temp >= Bands.heat[n] \/ p.temp <= Bands.cold[n])
      BY <3>2, <1>7
    <3>3. CASE p.wind # Missing /\ p.wind >= Bands.wind[n]
      BY <3>3, <1>8
    <3>4. CASE p.thunder /\ n = ThunderLevel
      BY <3>4, <1>9 DEF ThunderLevel
    <3> QED
      BY <2>1, <3>1, <3>2, <3>3, <3>4 DEF Marks
  <2> QED
    BY <2>1, <1>10
<1>13. 1 \in unsaid \/ ThunderLevel \in thunder => \E x \in levels : x >= 1
  BY DEF ThunderLevel
<1> HIDE DEF levels
<1>14. Level(Max(levels)) /\ \A x \in levels : Max(levels) >= x /\ Level(x)
  BY <1>11, LevelsOf
<1> DEFINE level == AssessLeg(leg, periods, alerts)
<1>15. /\ level = Unclear \/ level = Max(levels)
       /\ Max(levels) # 0 => level = Max(levels)
       /\ level = 0 => Max(levels) = 0 /\ ~gap
  BY <1>1, <1>14, WeatherAssumption DEF Level
<1> HIDE DEF level, gap
<1>16. level = Unclear \/ Level(level)
  BY <1>14, <1>15
<1>17. ASSUME NEW n \in Int, n >= 1, \E x \in levels : x >= n PROVE level # Unclear /\ level >= n
  <2>1. Max(levels) >= n /\ Max(levels) \in Int
    BY <1>14, <1>17 DEF Level
  <2> QED
    BY <1>15, <1>17, <2>1, WeatherAssumption
<1>18. \A p \in over, n \in 1..4 : Marks(p, n) => level # Unclear /\ level >= n
  BY <1>12, <1>17
<1>19. ASSUME NEW a \in alerts, AlertOverlaps(a, leg) PROVE Minds(level, a)
  <2>1. SeverityLevel[a.severity] \in 1..4 /\ (a.severe => SevereEventLevel \in 1..4)
    BY DEF AlertOK, SeverityLevel, SevereEventLevel
  <2>2. AlertLevel(a) \in levels /\ Minds(AlertLevel(a), a) /\ Level(AlertLevel(a))
    BY <1>10, <1>11, <1>12, <1>19
  <2>3. \A n \in 1..4 : AlertLevel(a) >= n => level # Unclear /\ level >= n
    BY <2>2, <1>17
  <2> QED
    BY <2>1, <2>2, <2>3 DEF Minds
<1>20. ASSUME level = 0
       PROVE  over # {} /\ \A p \in over : ~HasGap(p) /\ ~p.thunder /\ (p.token => p.precip # Missing)
  <2>1. ~(1 \in unsaid \/ ThunderLevel \in thunder)
    BY <1>13, <1>17, <1>20
  <2> QED
    BY <2>1, <1>9, <1>15, <1>20 DEF gap
<1> QED
  BY <1>16, <1>18, <1>19, <1>20 DEF level, over

WeatherInv ==
    /\ WeatherAsked
    /\ Told("feeds") => answer = [hourly |-> Hourly(ask), alerts |-> ActiveAlerts(ask), observation |-> Observation(ask)]
    /\ Told("risk") => answer = PlanRisk(ask)

\* The plan's risk is the greatest of its legs', and unknown rather than none.
LEMMA PlanJudged ==
    ASSUME NEW q, NEW i \in DOMAIN q.legs, q.legs[i].outdoor,
           \A j \in DOMAIN q.legs : LET level == AssessLeg(q.legs[j], q.periods, q.alerts)
                                    IN  level = Unclear \/ Level(level)
    PROVE  LET level == AssessLeg(q.legs[i], q.periods, q.alerts)
               overall == PlanRisk(q).overall
           IN  /\ PlanRisk(q).legs[i] = level
               /\ \A n \in Int : n >= 1 /\ level # Unclear /\ level >= n => overall # Unclear /\ overall >= n
               /\ overall = 0 => level = 0
<1> DEFINE badge == [j \in DOMAIN q.legs |-> IF q.legs[j].outdoor THEN AssessLeg(q.legs[j], q.periods, q.alerts) ELSE 0]
           known == {0} \cup {badge[j] : j \in {k \in DOMAIN badge : badge[k] # Unclear}}
           level == AssessLeg(q.legs[i], q.periods, q.alerts)
           overall == PlanRisk(q).overall
<1>1. /\ PlanRisk(q).legs = badge
      /\ overall = IF Max(known) = 0 /\ \E j \in DOMAIN badge : badge[j] = Unclear THEN Unclear ELSE Max(known)
  BY DEF PlanRisk
<1>2. DOMAIN badge = DOMAIN q.legs /\ badge[i] = level
  OBVIOUS
<1>3. \A j \in DOMAIN badge : badge[j] = Unclear \/ Level(badge[j])
  BY DEF Level
<1> HIDE DEF badge, level, overall
<1>4. known # {} /\ (\A x \in known : Level(x)) /\ (badge[i] # Unclear => badge[i] \in known)
  BY <1>2, <1>3 DEF Level
<1> HIDE DEF known
<1>5. Level(Max(known)) /\ (badge[i] # Unclear => Level(badge[i]) /\ Max(known) >= badge[i])
  BY <1>4, LevelsOf
<1>6. ASSUME NEW n \in Int, n >= 1, level # Unclear, level >= n PROVE overall # Unclear /\ overall >= n
  <2>1. Max(known) >= n /\ Max(known) \in Int
    BY <1>2, <1>5, <1>6 DEF Level
  <2> QED
    BY <2>1, <1>1, <1>6, WeatherAssumption
<1>7. ASSUME overall = 0 PROVE level = 0
  <2>1. Max(known) = 0 /\ badge[i] # Unclear
    BY <1>1, <1>2, <1>5, <1>7, WeatherAssumption DEF Level
  <2> QED
    BY <2>1, <1>2, <1>5 DEF Level
<1> QED
  BY <1>1, <1>2, <1>6, <1>7 DEF level, overall

LEMMA RiskIsTold == WeatherInv => NothingIsMasked
<1> SUFFICES ASSUME WeatherInv, Told("risk"), NEW i \in DOMAIN ask.legs, ask.legs[i].outdoor
             PROVE  /\ \A p \in OverLeg(ask.periods, ask.legs[i]), n \in 1..4, level \in {answer.legs[i], answer.overall} :
                          Marks(p, n) => level # Unclear /\ level >= n
                    /\ \A a \in ask.alerts : \A t \in ask.legs[i].from..(ask.legs[i].to - 1) :
                          (a.from = Missing \/ a.from <= t) /\ (a.to = Missing \/ t < a.to) =>
                              \A level \in {answer.legs[i], answer.overall} : Minds(level, a)
                    /\ answer.legs[i] = 0 \/ answer.overall = 0 =>
                         LET over == {x \in ask.periods : x.from < ask.legs[i].to /\ ask.legs[i].from < x.to}
                         IN  over # {} /\ \A p \in over : ~HasGap(p) /\ ~p.thunder /\ (p.token => p.precip # Missing)
  BY DEF NothingIsMasked, Marks, OverLeg, Minds
<1> DEFINE leg == ask.legs[i]
           over == OverLeg(ask.periods, leg)
           level == AssessLeg(leg, ask.periods, ask.alerts)
<1>1. /\ answer = PlanRisk(ask)
      /\ IsFiniteSet(ask.periods) /\ \A p \in ask.periods : PeriodOK(p)
      /\ \A a \in ask.alerts : AlertOK(a)
      /\ \A j \in DOMAIN ask.legs : ask.legs[j].from \in Int /\ ask.legs[j].to \in Int
  BY DEF WeatherInv, WeatherAsked, Told
<1>2. \A j \in DOMAIN ask.legs : AssessLeg(ask.legs[j], ask.periods, ask.alerts) = Unclear
                                  \/ Level(AssessLeg(ask.legs[j], ask.periods, ask.alerts))
  BY <1>1, LegJudged
<1>3. /\ level = Unclear \/ Level(level)
      /\ \A p \in over, n \in 1..4 : Marks(p, n) => level # Unclear /\ level >= n
      /\ \A a \in ask.alerts : AlertOverlaps(a, leg) => Minds(level, a)
      /\ level = 0 =>
            over # {} /\ \A p \in over : ~HasGap(p) /\ ~p.thunder /\ (p.token => p.precip # Missing)
  BY <1>1, LegJudged
<1>4. /\ answer.legs[i] = level
      /\ \A n \in Int : n >= 1 /\ level # Unclear /\ level >= n => answer.overall # Unclear /\ answer.overall >= n
      /\ answer.overall = 0 => level = 0
  BY <1>1, <1>2, PlanJudged
<1> HIDE DEF level
<1>5. ASSUME NEW p \in over, NEW n \in 1..4, NEW l \in {answer.legs[i], answer.overall}, Marks(p, n)
      PROVE  l # Unclear /\ l >= n
  BY <1>3, <1>4, <1>5
<1>6. ASSUME NEW a \in ask.alerts, NEW t \in leg.from..(leg.to - 1),
             a.from = Missing \/ a.from <= t, a.to = Missing \/ t < a.to
      PROVE  Minds(answer.legs[i], a) /\ Minds(answer.overall, a)
  <2>1. AlertOverlaps(a, leg)
    BY <1>1, <1>6 DEF AlertOverlaps, AlertOK
  <2> HIDE DEF leg
  <2>2. Minds(level, a)
    BY <2>1, <1>3
  <2>3. SeverityLevel[a.severity] \in 1..4 /\ SevereEventLevel \in 1..4
    BY <1>1 DEF AlertOK, SeverityLevel, SevereEventLevel
  <2>4. Minds(answer.overall, a)
    BY <2>2, <2>3, <1>4 DEF Minds
  <2> QED
    BY <2>2, <2>4, <1>4
<1>7. ASSUME answer.legs[i] = 0 \/ answer.overall = 0
      PROVE  LET o == {x \in ask.periods : x.from < leg.to /\ leg.from < x.to}
             IN  o # {} /\ \A p \in o : ~HasGap(p) /\ ~p.thunder /\ (p.token => p.precip # Missing)
  <2>1. level = 0
    BY <1>4, <1>7
  <2>2. over = {x \in ask.periods : x.from < leg.to /\ leg.from < x.to}
    BY <1>1 DEF OverLeg, Overlaps, PeriodOK
  <2> QED
    BY <2>1, <2>2, <1>3
<1> QED
  BY <1>5, <1>6, <1>7

\* What one feed, or several together, are said to be.
FromFeeds(sources) == \A n \in DOMAIN sources : \E f \in FeedStates : sources[n] = Source(f)

LEMMA AggregateTells ==
    ASSUME NEW sources, NEW primary, FromFeeds(sources), DOMAIN sources # {}
    PROVE  LET a == Aggregate(sources, primary)
           IN  /\ a.status = "ok" <=> \A n \in DOMAIN sources : sources[n] = Source("fresh")
               /\ a.status = "ok" => ~a.stale
               /\ (\E n \in DOMAIN sources : sources[n] = Source("down")) => a.status \in {"partial", "unavailable"}
<1> DEFINE a == Aggregate(sources, primary)
           down == \/ \A n \in DOMAIN sources : sources[n].status = "unavailable"
                   \/ primary \in DOMAIN sources /\ sources[primary].status = "unavailable"
<1>1. /\ a.status = IF down THEN "unavailable" ELSE Mixed(sources)
      /\ a.stale = \E n \in DOMAIN sources : sources[n].stale \/ sources[n].status = "unavailable"
  BY DEF Aggregate
<1>2. \A n \in DOMAIN sources :
        \/ sources[n] = Source("fresh") /\ sources[n].status = "ok" /\ ~sources[n].stale
        \/ sources[n] # Source("fresh") /\ sources[n] # Source("down") /\ sources[n].status = "stale"
        \/ sources[n] = Source("down") /\ sources[n] # Source("fresh") /\ sources[n].status = "unavailable"
  <2>1. /\ Source("fresh").status = "ok" /\ ~Source("fresh").stale
        /\ Source("stale").status = "stale" /\ Source("down").status = "unavailable"
    BY DEF Source
  <2> QED
    BY <2>1 DEF FromFeeds, FeedStates
<1>3. Mixed(sources) = "ok" <=> ~down /\ \A n \in DOMAIN sources : sources[n] = Source("fresh")
  BY <1>2 DEF Mixed, Has
<1>4. ASSUME NEW n \in DOMAIN sources, sources[n] = Source("down") PROVE Mixed(sources) = "partial"
  <2>1. sources[n].status = "unavailable"
    BY <1>4 DEF Source
  <2> QED
    BY <2>1 DEF Mixed, Has
<1>5. Mixed(sources) \in {"ok", "stale", "partial"}
  BY DEF Mixed
<1> HIDE DEF a, down
<1>6. a.status = "ok" <=> \A n \in DOMAIN sources : sources[n] = Source("fresh")
  <2>1. ASSUME \A n \in DOMAIN sources : sources[n] = Source("fresh") PROVE ~down
    BY <1>2, <2>1 DEF down
  <2> QED
    BY <1>1, <1>3, <2>1
<1>7. a.status = "ok" => ~a.stale
  BY <1>1, <1>2, <1>6
<1> QED
  BY <1>1, <1>4, <1>6, <1>7 DEF a

\* The points alone, or the points and a feed they link to.
PointsAnd(q, n, f) ==
    With(Named("points", Source(q.points)), IF q.points = "down" THEN <<>> ELSE Named(n, Linked(q, f)))

LEMMA PointsAndFeed ==
    ASSUME NEW q, q.points \in FeedStates, NEW n, n # "points", NEW f \in FeedStates,
           NEW sources, sources = PointsAnd(q, n, f)
    PROVE  /\ FromFeeds(sources) /\ "points" \in DOMAIN sources /\ DOMAIN sources \subseteq {"points", n}
           /\ (\A m \in DOMAIN sources : sources[m] = Source("fresh")) <=>
                q.points = "fresh" /\ q.linked /\ f = "fresh"
<1>1. Source("fresh") # Source("stale") /\ Source("fresh") # Source("down")
  BY DEF Source
<1>2. CASE q.points = "down"
  <2>1. DOMAIN sources = {"points"} /\ sources["points"] = Source("down")
    BY <1>2 DEF PointsAnd, With, Named
  <2> QED
    BY <2>1, <1>1, <1>2 DEF FromFeeds, FeedStates
<1>3. CASE q.points # "down"
  <2>1. PICK g \in FeedStates : Linked(q, f) = Source(g) /\ (g = "fresh" <=> q.linked /\ f = "fresh")
    BY DEF Linked, FeedStates
  <2>2. sources = With(Named("points", Source(q.points)), Named(n, Source(g)))
    BY <1>3, <2>1 DEF PointsAnd
  <2>3. /\ FromFeeds(sources) /\ DOMAIN sources = {"points", n}
        /\ sources["points"] = Source(q.points) /\ sources[n] = Source(g)
    <3>1. /\ DOMAIN sources = {"points", n}
          /\ sources["points"] = Source(q.points) /\ sources[n] = Source(g)
      BY ONLY <2>2, n # "points" DEF With, Named
    <3> QED
      BY <3>1 DEF FromFeeds
  <2>4. \A h \in FeedStates : Source(h) = Source("fresh") <=> h = "fresh"
    BY <1>1 DEF FeedStates
  <2> QED
    BY <2>1, <2>3, <2>4
<1> QED
  BY <1>2, <1>3

LEMMA FeedsDiffer ==
    /\ Source("fresh") # Source("stale") /\ Source("fresh") # Source("down") /\ Source("stale") # Source("down")
    /\ \A f \in FeedStates : /\ Source(f) = Source("fresh") <=> f = "fresh"
                             /\ Source(f).status = "unavailable" <=> f = "down"
<1>1. /\ Source("fresh").status = "ok" /\ Source("stale").status = "stale" /\ Source("down").status = "unavailable"
  BY DEF Source
<1> QED
  BY <1>1 DEF FeedStates

\* A linked feed is one of the feeds there are, and down if nothing links to it.
LEMMA LinkedFeed ==
    ASSUME NEW q, NEW f \in FeedStates
    PROVE  \E g \in FeedStates : /\ Linked(q, f) = Source(g) /\ (g = "fresh" <=> q.linked /\ f = "fresh")
                                 /\ (f = "down" => g = "down") /\ (q.linked => g = f)
  BY DEF Linked, FeedStates

LEMMA HourlyTells ==
    ASSUME NEW q, q.points \in FeedStates, q.hourly \in FeedStates
    PROVE  /\ Hourly(q).status = "ok" <=> q.points = "fresh" /\ q.linked /\ q.hourly = "fresh"
           /\ Hourly(q).status = "ok" => ~Hourly(q).stale
<1>1. PICK sources : sources = PointsAnd(q, "hourly", q.hourly)
  OBVIOUS
<1>2. Hourly(q).status = Aggregate(sources, "hourly").status /\ Hourly(q).stale = Aggregate(sources, "hourly").stale
  BY <1>1 DEF Hourly, PointsAnd
<1>3. /\ FromFeeds(sources) /\ DOMAIN sources # {}
      /\ (\A m \in DOMAIN sources : sources[m] = Source("fresh")) <=>
           q.points = "fresh" /\ q.linked /\ q.hourly = "fresh"
  <2>1. PICK n : n = "hourly"
    OBVIOUS
  <2>2. n # "points" /\ sources = PointsAnd(q, n, q.hourly)
    BY <1>1, <2>1
  <2>3. /\ FromFeeds(sources) /\ "points" \in DOMAIN sources /\ DOMAIN sources \subseteq {"points", n}
        /\ (\A m \in DOMAIN sources : sources[m] = Source("fresh")) <=>
             q.points = "fresh" /\ q.linked /\ q.hourly = "fresh"
    BY <2>2, PointsAndFeed
  <2> QED
    BY <2>1, <2>3
<1> QED
  BY <1>2, <1>3, AggregateTells

LEMMA AlertsTell ==
    ASSUME NEW q, q.points \in FeedStates, q.pointAlerts \in FeedStates, q.zoneAlerts \in FeedStates
    PROVE  LET a == ActiveAlerts(q)
           IN  /\ a.status = "ok" =>
                    q.pointAlerts = "fresh" /\ q.zoneAlerts = "fresh" /\ q.linked /\ q.points # "down"
               /\ a.status = "ok" => ~a.stale
               /\ "down" \in {q.pointAlerts, q.zoneAlerts} => a.status \in {"partial", "unavailable"}
               /\ q.pointAlerts # "down" => q.atPoint \subseteq a.alerts
               /\ q.zoneAlerts # "down" /\ q.linked /\ q.points # "down" => q.inZone \subseteq a.alerts
<1>1. PICK g \in FeedStates :
        /\ (IF q.points = "down" THEN Source("down") ELSE Linked(q, q.zoneAlerts)) = Source(g)
        /\ g = "fresh" => q.points # "down" /\ q.linked /\ q.zoneAlerts = "fresh"
        /\ q.zoneAlerts = "down" => g = "down"
        /\ q.points # "down" /\ q.linked => g = q.zoneAlerts
  BY LinkedFeed DEF FeedStates
<1>2. PICK sources : sources = With(Named("point", Source(q.pointAlerts)), Named("zone", Source(g)))
  OBVIOUS
<1>3. DOMAIN sources = {"point", "zone"} /\ sources["point"] = Source(q.pointAlerts) /\ sources["zone"] = Source(g)
  BY ONLY <1>2 DEF With, Named
<1>4. FromFeeds(sources) /\ DOMAIN sources # {}
  BY <1>3 DEF FromFeeds
<1> DEFINE read(source, alerts) == IF source.status = "unavailable" THEN {} ELSE alerts
<1>5. /\ ActiveAlerts(q).status = Aggregate(sources, "none").status
      /\ ActiveAlerts(q).stale = Aggregate(sources, "none").stale
      /\ ActiveAlerts(q).alerts = read(Source(q.pointAlerts), q.atPoint) \cup read(Source(g), q.inZone)
  BY <1>1, <1>2 DEF ActiveAlerts
<1>6. ActiveAlerts(q).status = "ok" => q.pointAlerts = "fresh" /\ g = "fresh"
  BY <1>3, <1>4, <1>5, AggregateTells, FeedsDiffer
<1>7. "down" \in {q.pointAlerts, q.zoneAlerts} => ActiveAlerts(q).status \in {"partial", "unavailable"}
  BY <1>1, <1>3, <1>4, <1>5, AggregateTells
<1>8. ActiveAlerts(q).status = "ok" => ~ActiveAlerts(q).stale
  BY <1>4, <1>5, AggregateTells
<1> QED
  BY <1>1, <1>5, <1>6, <1>7, <1>8, FeedsDiffer

LEMMA ObservationTells ==
    ASSUME NEW q, q.points \in FeedStates, q.stations \in FeedStates, q.observation \in FeedStates
    PROVE  LET o == Observation(q)
           IN  /\ o.status = "ok" =>
                    q.points = "fresh" /\ q.stations = "fresh" /\ q.observation = "fresh" /\ q.linked
               /\ o.status = "ok" => ~o.stale
<1>1. PICK stations : stations = PointsAnd(q, "stations", q.stations)
  OBVIOUS
<1>2. PICK found : found = (Aggregate(stations, "stations").status # "unavailable")
  OBVIOUS
<1>3. PICK g \in FeedStates : /\ (IF found THEN Source(q.observation) ELSE Source("down")) = Source(g)
                              /\ g = "fresh" => q.observation = "fresh"
  BY DEF FeedStates
<1>4. PICK sources : sources = With(stations, Named("observation", Source(g)))
  OBVIOUS
<1>5. Observation(q) = Aggregate(sources, "observation")
  BY <1>1, <1>2, <1>3, <1>4 DEF Observation, PointsAnd
<1>6. /\ FromFeeds(stations) /\ DOMAIN stations \subseteq {"points", "stations"}
      /\ (\A m \in DOMAIN stations : stations[m] = Source("fresh")) <=>
           q.points = "fresh" /\ q.linked /\ q.stations = "fresh"
  <2>1. PICK n : n = "stations"
    OBVIOUS
  <2>2. n # "points" /\ stations = PointsAnd(q, n, q.stations)
    BY <1>1, <2>1
  <2>3. /\ FromFeeds(stations) /\ "points" \in DOMAIN stations /\ DOMAIN stations \subseteq {"points", n}
        /\ (\A m \in DOMAIN stations : stations[m] = Source("fresh")) <=>
             q.points = "fresh" /\ q.linked /\ q.stations = "fresh"
    BY <2>2, PointsAndFeed
  <2> QED
    BY <2>1, <2>3
<1>7. /\ DOMAIN sources = DOMAIN stations \cup {"observation"}
      /\ \A m \in DOMAIN stations : sources[m] = stations[m]
      /\ sources["observation"] = Source(g)
  BY ONLY <1>4, <1>6 DEF With, Named
<1>8. FromFeeds(sources) /\ DOMAIN sources # {}
  BY <1>6, <1>7 DEF FromFeeds
<1>9. ASSUME \A m \in DOMAIN sources : sources[m] = Source("fresh")
      PROVE  q.points = "fresh" /\ q.stations = "fresh" /\ q.observation = "fresh" /\ q.linked
  <2>1. \A m \in DOMAIN stations : stations[m] = Source("fresh")
    BY <1>7, <1>9
  <2>2. Source(g) = Source("fresh")
    BY <1>7, <1>9
  <2> QED
    BY <2>1, <2>2, <1>3, <1>6, FeedsDiffer
<1> QED
  BY <1>5, <1>8, <1>9, AggregateTells

LEMMA StatusIsTold == WeatherInv => StatusIsTrue
<1> SUFFICES ASSUME WeatherInv, Told("feeds") PROVE StatusIsTrue
  BY DEF StatusIsTrue
<1>1. /\ answer.hourly = Hourly(ask) /\ answer.alerts = ActiveAlerts(ask) /\ answer.observation = Observation(ask)
      /\ ask.points \in FeedStates /\ ask.hourly \in FeedStates /\ ask.pointAlerts \in FeedStates
      /\ ask.zoneAlerts \in FeedStates /\ ask.stations \in FeedStates /\ ask.observation \in FeedStates
  BY DEF WeatherInv, WeatherAsked, Told
<1>2. /\ Hourly(ask).status = "ok" <=> ask.points = "fresh" /\ ask.linked /\ ask.hourly = "fresh"
      /\ Hourly(ask).status = "ok" => ~Hourly(ask).stale
  BY <1>1, HourlyTells
<1>3. /\ ActiveAlerts(ask).status = "ok" =>
           ask.pointAlerts = "fresh" /\ ask.zoneAlerts = "fresh" /\ ask.linked /\ ask.points # "down"
      /\ ActiveAlerts(ask).status = "ok" => ~ActiveAlerts(ask).stale
      /\ "down" \in {ask.pointAlerts, ask.zoneAlerts} => ActiveAlerts(ask).status \in {"partial", "unavailable"}
      /\ ask.pointAlerts # "down" => ask.atPoint \subseteq ActiveAlerts(ask).alerts
      /\ ask.zoneAlerts # "down" /\ ask.linked /\ ask.points # "down" => ask.inZone \subseteq ActiveAlerts(ask).alerts
  BY <1>1, AlertsTell
<1>4. /\ Observation(ask).status = "ok" =>
           ask.points = "fresh" /\ ask.stations = "fresh" /\ ask.observation = "fresh" /\ ask.linked
      /\ Observation(ask).status = "ok" => ~Observation(ask).stale
  BY <1>1, ObservationTells
<1> HIDE DEF WeatherInv
<1> QED
  BY <1>1, <1>2, <1>3, <1>4 DEF StatusIsTrue

(* No feed, hour or alert is hidden behind a better one, however many of     *)
(* them there are (weather.py:377-427, 627-813, 1050-1066, 1235-1327).       *)
THEOREM WeatherAnswersHold == WeatherSpec => []WeatherIsNotPlayedDown
<1>1. answer = NoAnswer /\ WeatherAsked => WeatherInv
  BY DEF WeatherInv, Told
<1>2. WeatherInv /\ [WeatherNext]_lookupVars => WeatherInv'
  <2> SUFFICES ASSUME WeatherInv, [WeatherNext]_lookupVars PROVE WeatherInv'
    OBVIOUS
  <2>1. ask' = ask /\ WeatherAsked'
    BY DEF WeatherInv, WeatherAsked, WeatherNext, Forecast, Risk, Reply, lookupVars
  <2>2. CASE Forecast
    BY <2>1, <2>2 DEF WeatherInv, Forecast, Reply, Told
  <2>3. CASE Risk
    BY <2>1, <2>3 DEF WeatherInv, Risk, Reply, Told
  <2>4. CASE UNCHANGED lookupVars
    BY <2>1, <2>4 DEF WeatherInv, Told, lookupVars
  <2> QED
    BY <2>2, <2>3, <2>4 DEF WeatherNext
<1>3. WeatherInv => WeatherIsNotPlayedDown
  BY StatusIsTold, RiskIsTold DEF WeatherIsNotPlayedDown
<1> QED
  BY <1>1, <1>2, <1>3, PTL DEF WeatherSpec

-----------------------------------------------------------------------------
(* Bus departures.  In a finite set with a strict total order R, exactly     *)
(* `limit` elements have fewer than `limit` before them, if any has more.    *)
Below(S, R, x) == {y \in S : <<y, x>> \in R}

StrictOrder(S, R) ==
    /\ \A x \in S : <<x, x>> \notin R
    /\ \A x, y, z \in S : <<x, y>> \in R /\ <<y, z>> \in R => <<x, z>> \in R
    /\ \A x, y \in S : x # y => <<x, y>> \in R \/ <<y, x>> \in R

LEMMA RankGrows ==
    ASSUME NEW S, IsFiniteSet(S), NEW R, StrictOrder(S, R), NEW x \in S
    PROVE  /\ IsFiniteSet(Below(S, R, x)) /\ Cardinality(Below(S, R, x)) \in Nat
           /\ \A y \in S : <<y, x>> \in R => Cardinality(Below(S, R, y)) < Cardinality(Below(S, R, x))
<1>1. ASSUME NEW y \in S PROVE IsFiniteSet(Below(S, R, y)) /\ Cardinality(Below(S, R, y)) \in Nat
  BY FS_Subset, FS_CardinalityType DEF Below
<1>2. ASSUME NEW y \in S, <<y, x>> \in R PROVE Cardinality(Below(S, R, y)) < Cardinality(Below(S, R, x))
  <2>1. /\ Below(S, R, y) \subseteq Below(S, R, x)
        /\ y \in Below(S, R, x) /\ y \notin Below(S, R, y)
    BY <1>2 DEF Below, StrictOrder
  <2>2. /\ Cardinality(Below(S, R, y)) <= Cardinality(Below(S, R, x))
        /\ Cardinality(Below(S, R, y)) # Cardinality(Below(S, R, x))
    BY <2>1, <1>1, FS_Subset
  <2> QED
    BY <2>2, <1>1
<1> QED
  BY <1>1, <1>2

LEMMA FirstOnes ==
    ASSUME NEW S, IsFiniteSet(S), NEW R, StrictOrder(S, R), NEW limit \in Nat,
           NEW d \in S, Cardinality(Below(S, R, d)) >= limit,
           NEW T, T = {x \in S : Cardinality(Below(S, R, x)) < limit}
    PROVE  Cardinality(T) = limit
<1> DEFINE rank(x) == Cardinality(Below(S, R, x))
           U == S \ T
<1>1. \A x \in S : rank(x) \in Nat /\ IsFiniteSet(Below(S, R, x))
  BY RankGrows
<1>2. \A x, y \in S : <<y, x>> \in R => rank(y) < rank(x)
  BY RankGrows
<1>3. /\ \A x \in T : x \in S /\ rank(x) < limit
      /\ \A x \in U : x \in S /\ rank(x) >= limit
      /\ \A x \in S : rank(x) < limit => x \in T
      /\ d \in U /\ IsFiniteSet(T) /\ IsFiniteSet(U)
  <2>1. IsFiniteSet(T) /\ IsFiniteSet(U)
    BY FS_Subset
  <2> QED
    BY <2>1, <1>1
<1>4. PICK u \in U : \A y \in U : <<y, u>> \notin R
  <2> HIDE DEF U
  <2>1. U # {} /\ \A x \in U : x \in S
    BY <1>3
  <2>2. /\ \A x, y, z \in U : <<x, y>> \in R /\ <<y, z>> \in R => <<x, z>> \in R
        /\ \A x \in U : <<x, x>> \notin R
    BY <2>1 DEF StrictOrder
  <2> QED
    BY <2>1, <2>2, <1>3, PeakOf
<1> HIDE DEF rank, U
<1>5. Below(S, R, u) = T
  <2>1. ASSUME NEW y \in Below(S, R, u) PROVE y \in T
    BY <1>3, <1>4 DEF Below, U
  <2>2. ASSUME NEW y \in T PROVE y \in Below(S, R, u)
    <3>1. rank(y) < limit /\ limit <= rank(u) /\ y \in S /\ u \in S /\ rank(y) \in Nat /\ rank(u) \in Nat
      BY <1>1, <1>3
    <3>2. y # u /\ ~(rank(u) < rank(y))
      BY <3>1
    <3>3. <<y, u>> \in R
      BY <3>1, <3>2, <1>2 DEF StrictOrder
    <3> QED
      BY <3>1, <3>3 DEF Below
  <2> QED
    BY <2>1, <2>2
<1>6. Cardinality(T) \in Nat /\ Cardinality(T) >= limit
  BY <1>1, <1>3, <1>5 DEF rank
<1>7. CASE T = {}
  <2>1. Cardinality(T) = 0
    BY <1>7, FS_EmptySet
  <2> QED
    BY <1>6, <2>1
<1>8. CASE T # {}
  <2> DEFINE Q == {p \in S \X S : <<p[2], p[1]>> \in R}
  <2>1. \A x, y \in S : <<x, y>> \in Q <=> <<y, x>> \in R
    OBVIOUS
  <2> HIDE DEF Q
  <2>2. PICK z \in T : \A y \in T : <<y, z>> \notin Q
    <3>1. \A x \in T : x \in S
      BY <1>3
    <3>2. ASSUME NEW x \in T, NEW y \in T, NEW w \in T, <<x, y>> \in Q, <<y, w>> \in Q PROVE <<x, w>> \in Q
      <4>1. <<y, x>> \in R /\ <<w, y>> \in R
        BY <2>1, <3>1, <3>2
      <4>2. <<w, x>> \in R
        BY <3>1, <4>1 DEF StrictOrder
      <4> QED
        BY <2>1, <3>1, <4>2
    <3>3. \A x \in T : <<x, x>> \notin Q
      BY <2>1, <3>1 DEF StrictOrder
    <3> QED
      BY <3>2, <3>3, <1>3, <1>8, PeakOf
  <2>3. \A y \in T : y # z => <<y, z>> \in R
    BY <1>3, <2>1, <2>2 DEF StrictOrder
  <2>4. T \ {z} \subseteq Below(S, R, z) /\ z \in S
    BY <1>3, <2>2, <2>3 DEF Below
  <2>5. Cardinality(T \ {z}) <= rank(z) /\ Cardinality(T \ {z}) = Cardinality(T) - 1
    BY <1>1, <1>3, <2>4, FS_Subset, FS_RemoveElement DEF rank
  <2>6. rank(z) < limit /\ rank(z) \in Nat
    BY <1>1, <1>3, <2>4
  <2> QED
    BY <1>6, <2>5, <2>6
<1> QED
  BY <1>7, <1>8

\* A departure of a trip of the feed, at one of its calls at the stop.
Departure(feed, stop, day, at, horizon, d) ==
    /\ d.trip \in feed /\ d.time \in Int /\ d = [trip |-> d.trip, time |-> d.time]
    /\ ActiveOn(d.trip, day) /\ at <= d.time /\ d.time <= at + horizon
    /\ \E i \in DOMAIN d.trip.calls : d.trip.calls[i].stop = stop /\ d.trip.calls[i].time = d.time

LEMMA CallsOf ==
    ASSUME NEW feed, Timetable(feed), NEW t \in feed
    PROVE  /\ IsFiniteSet(feed) /\ IsFiniteSet(DOMAIN t.calls) /\ DOMAIN t.calls \subseteq Nat \ {0}
           /\ \A i \in DOMAIN t.calls : t.calls[i] = [stop |-> t.calls[i].stop, time |-> t.calls[i].time]
                                        /\ t.calls[i].time \in Int /\ t.calls[i].stop \in BusStops
<1>1. IsFiniteSet(feed) /\ t.calls \in Seq(StopTimes)
  BY DEF Timetable
<1>2. PICK n \in Nat : t.calls \in [1..n -> StopTimes]
  BY <1>1, SeqDef
<1>3. DOMAIN t.calls = 1..n /\ IsFiniteSet(1..n)
  BY <1>2, FS_Interval
<1>4. \A i \in DOMAIN t.calls : t.calls[i] \in StopTimes
  BY <1>2
<1> QED
  BY <1>1, <1>3, <1>4 DEF StopTimes

LEMMA AheadIs ==
    ASSUME NEW feed, Timetable(feed), NEW stop, NEW day, NEW at, NEW horizon
    PROVE  /\ IsFiniteSet(Ahead(feed, stop, day, at, horizon))
           /\ \A d \in Ahead(feed, stop, day, at, horizon) : Departure(feed, stop, day, at, horizon, d)
           /\ \A d : Departure(feed, stop, day, at, horizon, d) => d \in Ahead(feed, stop, day, at, horizon)
<1> DEFINE there(t) == {j \in DOMAIN t.calls : t.calls[j].stop = stop}
           deps(t) == {[trip |-> t, time |-> t.calls[i].time] : i \in there(t)}
           running == {u \in feed : ActiveOn(u, day)}
           all == {deps(t) : t \in running}
<1>1. Ahead(feed, stop, day, at, horizon) = {d \in UNION all : at <= d.time /\ d.time <= at + horizon}
  BY DEF Ahead
<1>2. ASSUME NEW t \in feed PROVE IsFiniteSet(deps(t))
  <2> DEFINE f == [i \in DOMAIN t.calls |-> [trip |-> t, time |-> t.calls[i].time]]
             T == {f[i] : i \in there(t)}
  <2>1. deps(t) = T
    OBVIOUS
  <2>2. IsFiniteSet(there(t))
    BY CallsOf, FS_Subset
  <2> HIDE DEF f, deps
  <2>3. IsFiniteSet(T)
    BY <2>2, ImageFinite
  <2> QED
    BY <2>1, <2>3
<1>3. IsFiniteSet(UNION all)
  <2> DEFINE g == [t \in feed |-> deps(t)]
             T == {g[t] : t \in running}
  <2>1. all = T
    OBVIOUS
  <2>2. IsFiniteSet(running)
    BY FS_Subset DEF Timetable
  <2>3. IsFiniteSet(T)
    <3> HIDE DEF g, running
    <3> QED
      BY <2>2, ImageFinite
  <2>4. \A S \in all : IsFiniteSet(S)
    <3> HIDE DEF deps
    <3> QED
      BY <1>2
  <2> HIDE DEF all, T
  <2> QED
    BY <2>1, <2>3, <2>4, FS_UNION
<1>4. IsFiniteSet(Ahead(feed, stop, day, at, horizon))
  <2> HIDE DEF all
  <2> QED
    BY <1>1, <1>3, FS_Subset
<1>5. ASSUME NEW d \in Ahead(feed, stop, day, at, horizon) PROVE Departure(feed, stop, day, at, horizon, d)
  <2>1. PICK t \in running : d \in deps(t)
    BY <1>1, <1>5
  <2>2. PICK i \in there(t) : d = [trip |-> t, time |-> t.calls[i].time]
    BY <2>1
  <2>3. at <= d.time /\ d.time <= at + horizon
    BY <1>1, <1>5
  <2>4. t.calls[i].time \in Int
    BY CallsOf
  <2> QED
    BY <2>2, <2>3, <2>4 DEF Departure
<1>6. ASSUME NEW d, Departure(feed, stop, day, at, horizon, d) PROVE d \in Ahead(feed, stop, day, at, horizon)
  <2>1. PICK i \in DOMAIN d.trip.calls : d.trip.calls[i].stop = stop /\ d.trip.calls[i].time = d.time
    BY <1>6 DEF Departure
  <2>2. d = [trip |-> d.trip, time |-> d.trip.calls[i].time] /\ i \in there(d.trip)
    BY <1>6, <2>1 DEF Departure
  <2>3. d \in deps(d.trip)
    BY <2>2
  <2>4. d.trip \in running
    BY <1>6 DEF Departure
  <2>5. d \in UNION all
    <3> HIDE DEF deps, running
    <3> QED
      BY <2>3, <2>4
  <2>6. at <= d.time /\ d.time <= at + horizon
    BY <1>6 DEF Departure
  <2> HIDE DEF all
  <2> QED
    BY <1>1, <2>5, <2>6
<1> QED
  BY <1>4, <1>5, <1>6

\* Departures are in order of time, then route, then trip.
LEMMA DeparturesInOrder ==
    ASSUME NEW feed, Timetable(feed), NEW stop, NEW day, NEW at, NEW horizon,
           NEW S, S = Ahead(feed, stop, day, at, horizon)
    PROVE  \E R : /\ StrictOrder(S, R)
                  /\ \A x, y \in S : <<x, y>> \in R <=> Earlier(x, y)
                  /\ \A x \in S : Before(S, x) = Below(S, R, x)
<1>0. PICK R : R = {p \in S \X S : Earlier(p[1], p[2])}
  OBVIOUS
<1>1. \A x, y \in S : <<x, y>> \in R <=> Earlier(x, y)
  BY <1>0
<1>2. \A x \in S : Departure(feed, stop, day, at, horizon, x)
  BY AheadIs
<1>3. \A x \in S : x.trip \in feed /\ x.time \in Int /\ x.trip.route \in Int /\ x.trip.id \in Int
                   /\ x = [trip |-> x.trip, time |-> x.time]
  BY <1>2 DEF Departure, Timetable
<1>4. \A x \in S : ~Earlier(x, x)
  BY <1>3 DEF Earlier
<1>5. ASSUME NEW x \in S, NEW y \in S, NEW z \in S, Earlier(x, y), Earlier(y, z) PROVE Earlier(x, z)
  BY <1>3, <1>5 DEF Earlier
<1>6. ASSUME NEW x \in S, NEW y \in S, x # y PROVE Earlier(x, y) \/ Earlier(y, x)
  <2>1. CASE x.time = y.time /\ x.trip.id = y.trip.id
    <3>1. x.trip = y.trip
      BY <1>3, <2>1 DEF Timetable
    <3> QED
      BY <1>3, <1>6, <2>1, <3>1
  <2>2. CASE ~(x.time = y.time /\ x.trip.id = y.trip.id)
    BY <1>3, <2>2 DEF Earlier
  <2> QED
    BY <2>1, <2>2
<1>7. StrictOrder(S, R)
  BY <1>1, <1>4, <1>5, <1>6 DEF StrictOrder
<1>8. \A x \in S : Before(S, x) = Below(S, R, x)
  BY <1>1 DEF Before, Below
<1> QED
  BY <1>1, <1>7, <1>8

\* The departures listed: the first `limit`, or all when there are no more.
LEMMA FirstDepartures ==
    ASSUME NEW feed, Timetable(feed), NEW stop, NEW day, NEW at, NEW horizon, NEW limit \in Nat,
           NEW S, S = Ahead(feed, stop, day, at, horizon),
           NEW T, T = NextDepartures(feed, stop, day, at, horizon, limit)
    PROVE  /\ T \subseteq S /\ IsFiniteSet(T)
           /\ \A d \in S : d \notin T => Cardinality(T) = limit /\ \A e \in T : e.time <= d.time
           /\ \A d \in S : d \notin T => Cardinality({e \in S : e.time <= d.time}) > limit
<1>1. T = {d \in S : Cardinality(Before(S, d)) < limit}
  BY DEF NextDepartures
<1>3. PICK R : /\ StrictOrder(S, R)
               /\ \A x, y \in S : <<x, y>> \in R <=> Earlier(x, y)
               /\ \A x \in S : Before(S, x) = Below(S, R, x)
  BY DeparturesInOrder
<1>4. IsFiniteSet(S) /\ \A d \in S : d.time \in Int
  BY AheadIs DEF Departure
<1>5. T \subseteq S /\ T = {x \in S : Cardinality(Below(S, R, x)) < limit} /\ IsFiniteSet(T)
  <2>1. T \subseteq S /\ T = {x \in S : Cardinality(Below(S, R, x)) < limit}
    BY <1>1, <1>3
  <2> QED
    BY <1>4, <2>1, FS_Subset
<1>6. \A x \in S : Cardinality(Below(S, R, x)) \in Nat
  BY <1>3, <1>4, RankGrows
<1>7. ASSUME NEW d \in S, d \notin T PROVE Cardinality(T) = limit /\ \A e \in T : e.time <= d.time
  <2>1. Cardinality(Below(S, R, d)) >= limit
    BY <1>5, <1>6, <1>7
  <2>2. Cardinality(T) = limit
    BY <1>3, <1>4, <1>5, <2>1, FirstOnes
  <2>3. ASSUME NEW e \in T, ~(e.time <= d.time) PROVE FALSE
    <3>1. e \in S /\ Earlier(d, e)
      BY <1>4, <1>5, <2>3 DEF Earlier
    <3>2. Cardinality(Below(S, R, d)) < Cardinality(Below(S, R, e))
      BY <1>3, <1>4, <3>1, RankGrows
    <3>3. Cardinality(Below(S, R, e)) < limit
      BY <1>5
    <3> QED
      BY <1>6, <2>1, <3>1, <3>2, <3>3
  <2> QED
    BY <2>2, <2>3
<1>8. ASSUME NEW d \in S, d \notin T PROVE Cardinality({e \in S : e.time <= d.time}) > limit
  <2> DEFINE B == Below(S, R, d)
             upto == {e \in S : e.time <= d.time}
  <2>1. Cardinality(B) >= limit /\ Cardinality(B) \in Nat
    BY <1>5, <1>6, <1>8
  <2>2. B \subseteq S /\ d \notin B /\ IsFiniteSet(B) /\ IsFiniteSet(upto)
    BY <1>3, <1>4, FS_Subset DEF Below, StrictOrder
  <2>3. \A e \in B : e \in upto
    BY <1>3, <1>4, <1>8 DEF Below, Earlier
  <2>4. B \cup {d} \subseteq upto
    BY <1>4, <2>2, <2>3
  <2> HIDE DEF B, upto
  <2>5. Cardinality(B \cup {d}) = Cardinality(B) + 1 /\ IsFiniteSet(B \cup {d})
    BY <2>2, FS_AddElement
  <2>6. Cardinality(B \cup {d}) <= Cardinality(upto) /\ Cardinality(upto) \in Nat
    BY <2>2, <2>4, FS_Subset, FS_CardinalityType
  <2>7. Cardinality(upto) > limit
    BY <2>1, <2>5, <2>6
  <2> QED
    BY <2>7 DEF upto
<1> QED
  BY <1>5, <1>7, <1>8

\* A timetable stays one when a route is picked from it.
LEMMA TimetablesHold ==
    ASSUME NEW feed \in Feeds, NEW route
    PROVE  Timetable(feed) /\ Timetable(OnRoute(feed, route)) /\ OnRoute(feed, route) \subseteq feed
<1>1. Timetable(feed)
  BY FeedsAssumption
<1>2. OnRoute(feed, route) \subseteq feed
  BY DEF OnRoute
<1>3. IsFiniteSet(OnRoute(feed, route))
  BY <1>1, <1>2, FS_Subset DEF Timetable
<1> QED
  BY <1>1, <1>2, <1>3 DEF Timetable

\* The state of the bus tools: a question, and the answer it was given.
TransitInv ==
    /\ TransitAsked
    /\ Told("board") => answer = {[trip |-> d.trip, time |-> d.time,
                                   realtime |-> d.trip.id = ask.bus.trip /\ Fresh(ask.bus)] :
                          d \in NextDepartures(OnRoute(ask.feed, ask.route), ask.stop, ask.day, ask.at, ask.horizon, BoardLimit)}
    /\ Told("ride") => answer = RideMinutes(ask)
    /\ Told("bus") => \E t \in ask.feed :
          answer = [trip |-> t, delta |-> IF ask.matched THEN ScheduleDelta(t, ask.stop, ask.now) ELSE NoRide]
    /\ Told("stop") => answer = ResolveStop(ask)

LEMMA BoardsAreTrue == TransitInv => BoardIsRight
<1> SUFFICES ASSUME TransitInv, Told("board") PROVE BoardIsRight
  BY DEF BoardIsRight
<1> DEFINE row(d) == [trip |-> d.trip, time |-> d.time, realtime |-> d.trip.id = ask.bus.trip /\ Fresh(ask.bus)]
<1>0. PICK feed : feed = OnRoute(ask.feed, ask.route)
  OBVIOUS
<1>1. PICK S, T : /\ S = Ahead(feed, ask.stop, ask.day, ask.at, ask.horizon)
                  /\ T = NextDepartures(feed, ask.stop, ask.day, ask.at, ask.horizon, BoardLimit)
  OBVIOUS
<1>2. answer = {row(d) : d \in T}
  BY <1>0, <1>1 DEF TransitInv
<1>3. Timetable(feed) /\ ask.bus.age \in Int /\ ask.at \in Int /\ ask.horizon \in Int
  <2>1. ask \in BoardAsks
    BY DEF TransitInv, TransitAsked, Told, RideAsks, BusAsks, NameAsks
  <2>2. ask.feed \in Feeds /\ ask.at \in 0..TransitDay - 1 /\ ask.horizon \in Horizons
        /\ ask.bus.age \in {StaleAfter, StaleAfter + 1}
    BY <2>1 DEF BoardAsks
  <2>3. ask.bus.age \in Int
    BY <2>2, TransitAssumption
  <2>4. ask.at \in Int
    BY <2>2, TransitAssumption
  <2>5. ask.horizon \in Int
    <3>1. \A h \in Horizons : h \in Nat
      BY TransitAssumption
    <3>2. ask.horizon \in Horizons
      BY <2>2
    <3>3. ask.horizon \in Nat
      BY <3>1, <3>2
    <3> QED
      BY <3>3
  <2> QED
    BY <1>0, <2>2, <2>3, <2>4, <2>5, TimetablesHold
<1>4. /\ T \subseteq S /\ IsFiniteSet(T)
      /\ \A d \in S : d \notin T => Cardinality(T) = BoardLimit /\ \A e \in T : e.time <= d.time
  BY <1>1, <1>3, FirstDepartures, TransitAssumption
<1>5. /\ \A d \in S : Departure(feed, ask.stop, ask.day, ask.at, ask.horizon, d)
      /\ \A d : Departure(feed, ask.stop, ask.day, ask.at, ask.horizon, d) => d \in S
  BY <1>1, <1>3, AheadIs
<1>6. ASSUME NEW r \in answer
      PROVE  /\ ask.day \in ServiceDays[r.trip.service] /\ ask.at <= r.time /\ r.trip \in feed
             /\ \E i \in DOMAIN r.trip.calls : r.trip.calls[i] = [stop |-> ask.stop, time |-> r.time]
             /\ r.realtime => ask.bus.age <= StaleAfter
  <2>1. PICK d \in T : r = row(d)
    BY <1>2
  <2>2. Departure(feed, ask.stop, ask.day, ask.at, ask.horizon, d)
    BY <1>4, <1>5
  <2>3. PICK i \in DOMAIN d.trip.calls : d.trip.calls[i].stop = ask.stop /\ d.trip.calls[i].time = d.time
    BY <2>2 DEF Departure
  <2>4. d.trip.calls[i] = [stop |-> ask.stop, time |-> d.time]
    BY <1>3, <2>2, <2>3, CallsOf DEF Departure
  <2> QED
    BY <2>1, <2>2, <2>4 DEF Departure, ActiveOn, Fresh
<1>7. Cardinality(answer) = Cardinality(T)
  <2> DEFINE f == [d \in T |-> row(d)]
  <2>1. \A d \in T : d = [trip |-> d.trip, time |-> d.time]
    BY <1>4, <1>5 DEF Departure
  <2>2. f \in Bijection(T, answer)
    <3>1. f \in [T -> answer] /\ \A r \in answer : \E d \in T : f[d] = r
      BY <1>2
    <3>2. ASSUME NEW d \in T, NEW e \in T, f[d] = f[e] PROVE d = e
      <4>1. row(d).trip = row(e).trip /\ row(d).time = row(e).time
        BY <3>2
      <4>2. d.trip = e.trip /\ d.time = e.time
        BY <4>1
      <4> QED
        BY <2>1, <4>2
    <3> HIDE DEF f
    <3> QED
      BY <3>1, <3>2 DEF Bijection, Injection, IsInjective, Surjection
  <2>3. ExistsBijection(T, answer)
    BY <2>2 DEF ExistsBijection
  <2> QED
    BY <1>4, <2>3, FS_Bijection
<1>8. ASSUME NEW t \in feed, ask.day \in ServiceDays[t.service], NEW i \in DOMAIN t.calls,
             t.calls[i].stop = ask.stop, t.calls[i].time \in ask.at..(ask.at + ask.horizon)
      PROVE  \/ \E r \in answer : r.trip = t /\ r.time = t.calls[i].time
             \/ Cardinality(answer) = BoardLimit /\ \A r \in answer : r.time <= t.calls[i].time
  <2> DEFINE d == [trip |-> t, time |-> t.calls[i].time]
  <2>1. d.trip = t /\ d.time = t.calls[i].time
    OBVIOUS
  <2>2. d \in S
    <3>1. t.calls[i].time \in Int
      BY <1>3, CallsOf
    <3>2. ask.at <= t.calls[i].time /\ t.calls[i].time <= ask.at + ask.horizon
      BY <1>3, <1>8
    <3>3. Departure(feed, ask.stop, ask.day, ask.at, ask.horizon, d)
      BY <1>8, <3>1, <3>2 DEF Departure, ActiveOn
    <3> QED
      BY <1>5, <3>3
  <2>3. CASE d \in T
    <3>1. row(d) \in answer /\ row(d).trip = t /\ row(d).time = t.calls[i].time
      BY <1>2, <2>3
    <3> QED
      BY <3>1
  <2>4. CASE d \notin T
    <3>1. Cardinality(T) = BoardLimit /\ \A e \in T : e.time <= t.calls[i].time
      BY <1>4, <2>1, <2>2, <2>4
    <3>2. \A r \in answer : \E e \in T : r.time = e.time
      BY <1>2
    <3> QED
      BY <1>7, <3>1, <3>2
  <2> QED
    BY <2>3, <2>4
<1> HIDE DEF TransitInv
<1> QED
  BY <1>0, <1>6, <1>8 DEF BoardIsRight

\* A trip that calls nowhere twice has one call at a stop, or none.
LEMMA OneCall ==
    ASSUME NEW feed, Timetable(feed), NEW t \in feed, VisitsOnce(t), NEW stop
    PROVE  /\ \A i \in DOMAIN t.calls : t.calls[i].stop = stop => CallAt(t, stop) = i
           /\ CallAt(t, stop) # 0 => CallAt(t, stop) \in DOMAIN t.calls /\ t.calls[CallAt(t, stop)].stop = stop
           /\ CallAt(t, stop) \in Nat
<1> DEFINE there == {i \in DOMAIN t.calls : t.calls[i].stop = stop}
<1>1. CallAt(t, stop) = IF there = {} THEN 0 ELSE CHOOSE i \in there : \A j \in there : j <= i
  BY DEF CallAt
<1>2. DOMAIN t.calls \subseteq Nat \ {0}
  BY CallsOf
<1>3. ASSUME NEW i \in there PROVE CallAt(t, stop) = i
  <2>1. \A j \in there : j = i
    BY <1>3 DEF VisitsOnce
  <2>2. i \in Nat /\ \A j \in there : j <= i
    BY <1>2, <2>1
  <2> HIDE DEF there
  <2> QED
    BY <1>1, <1>3, <2>1, <2>2
<1>4. CASE there = {}
  BY <1>1, <1>4
<1>5. CASE there # {}
  <2>1. PICK i \in there : TRUE
    BY <1>5
  <2>2. CallAt(t, stop) = i
    BY <1>3
  <2> QED
    BY <1>2, <1>3, <2>1, <2>2
<1> QED
  BY <1>4, <1>5

LEMMA RideTimeIs ==
    ASSUME NEW feed, Timetable(feed), NEW t \in feed, VisitsOnce(t), NEW from, NEW to
    PROVE  /\ \A i, j \in DOMAIN t.calls : i < j /\ t.calls[i].stop = from /\ t.calls[j].stop = to =>
                  RideTime(t, from, to) = t.calls[j].time - t.calls[i].time
           /\ RideTime(t, from, to) # 0 => \E i, j \in DOMAIN t.calls :
                  /\ i < j /\ t.calls[i].stop = from /\ t.calls[j].stop = to
                  /\ RideTime(t, from, to) = t.calls[j].time - t.calls[i].time
           /\ RideTime(t, from, to) \in Int
<1>1. /\ \A i \in DOMAIN t.calls : t.calls[i].stop = from => CallAt(t, from) = i
      /\ CallAt(t, from) # 0 => CallAt(t, from) \in DOMAIN t.calls /\ t.calls[CallAt(t, from)].stop = from
      /\ CallAt(t, from) \in Nat
  BY OneCall
<1>2. /\ \A i \in DOMAIN t.calls : t.calls[i].stop = to => CallAt(t, to) = i
      /\ CallAt(t, to) # 0 => CallAt(t, to) \in DOMAIN t.calls /\ t.calls[CallAt(t, to)].stop = to
      /\ CallAt(t, to) \in Nat
  BY OneCall
<1>3. DOMAIN t.calls \subseteq Nat \ {0} /\ \A i \in DOMAIN t.calls : t.calls[i].time \in Int
  BY CallsOf
<1>4. PICK a, b : a = CallAt(t, from) /\ b = CallAt(t, to)
  OBVIOUS
<1>5. RideTime(t, from, to) = IF a = 0 \/ b <= a THEN 0 ELSE t.calls[b].time - t.calls[a].time
  BY <1>4 DEF RideTime
<1>6. ASSUME NEW i \in DOMAIN t.calls, NEW j \in DOMAIN t.calls, i < j, t.calls[i].stop = from, t.calls[j].stop = to
      PROVE  RideTime(t, from, to) = t.calls[j].time - t.calls[i].time
  <2>1. a = i /\ b = j
    BY <1>1, <1>2, <1>4, <1>6
  <2>2. a # 0 /\ ~(b <= a)
    BY <1>3, <1>6, <2>1
  <2> QED
    BY <1>5, <2>1, <2>2
<1>7. CASE a = 0 \/ b <= a
  BY <1>5, <1>6, <1>7
<1>8. CASE ~(a = 0 \/ b <= a)
  <2>1. a \in Nat /\ b \in Nat /\ a < b /\ a # 0 /\ b # 0
    BY <1>1, <1>2, <1>4, <1>8
  <2>2. a \in DOMAIN t.calls /\ b \in DOMAIN t.calls /\ t.calls[a].stop = from /\ t.calls[b].stop = to
    BY <1>1, <1>2, <1>4, <2>1
  <2>3. RideTime(t, from, to) = t.calls[b].time - t.calls[a].time
    BY <1>5, <1>8
  <2>4. RideTime(t, from, to) \in Int
    BY <1>3, <2>2, <2>3
  <2> QED
    BY <1>6, <2>1, <2>2, <2>3, <2>4
<1> QED
  BY <1>7, <1>8

LEMMA RidesAreTrue == TransitInv => RideIsRight
<1> SUFFICES ASSUME TransitInv, Told("ride"), ask.from # ask.to PROVE RideIsRight
  BY DEF RideIsRight
<1>0. PICK feed : feed = OnRoute(ask.feed, ask.route)
  OBVIOUS
<1>1. /\ Timetable(feed) /\ feed \subseteq ask.feed /\ ask.feed \in Feeds
      /\ ask.at \in Int /\ ask.horizon \in Nat
  <2>1. ask \in RideAsks
    BY DEF TransitInv, TransitAsked, Told, BoardAsks, BusAsks, NameAsks
  <2>2. ask.feed \in Feeds /\ ask.at \in 0..TransitDay - 1 /\ ask.horizon \in Horizons
    BY <2>1 DEF RideAsks
  <2>3. ask.at \in Int
    BY <2>2, TransitAssumption
  <2>4. \A h \in Horizons : h \in Nat
    BY TransitAssumption
  <2> QED
    BY <1>0, <2>2, <2>3, <2>4, TimetablesHold
<1>2. PICK S, T : /\ S = Ahead(feed, ask.from, ask.day, ask.at, ask.horizon)
                  /\ T = NextDepartures(feed, ask.from, ask.day, ask.at, ask.horizon, RideLimit)
  OBVIOUS
<1>3. /\ T \subseteq S
      /\ \A d \in S : d \notin T => (\A e \in T : e.time <= d.time) /\ Cardinality({e \in S : e.time <= d.time}) > RideLimit
  BY <1>1, <1>2, FirstDepartures, TransitAssumption
<1>4. /\ IsFiniteSet(S)
      /\ \A d \in S : Departure(feed, ask.from, ask.day, ask.at, ask.horizon, d)
      /\ \A d : Departure(feed, ask.from, ask.day, ask.at, ask.horizon, d) => d \in S
  BY <1>1, <1>2, AheadIs
<1>5. PICK good : good = {d \in T : RideTime(d.trip, ask.from, ask.to) \in 1..ask.horizon}
  OBVIOUS
<1>6. PICK best : best = CHOOSE d \in good : \A e \in good : ~Earlier(e, d)
  OBVIOUS
<1>7. answer = IF good = {} THEN NoRide
               ELSE [trip |-> best.trip, dep |-> best.time, arrive |-> best.time + RideTime(best.trip, ask.from, ask.to)]
  BY <1>0, <1>2, <1>5, <1>6 DEF TransitInv, RideMinutes
<1>8. ASSUME NEW t \in feed, VisitsOnce(t), NEW i \in DOMAIN t.calls, Rides(ask, t, i)
      PROVE  LET d == [trip |-> t, time |-> t.calls[i].time]
             IN  d \in S /\ d.time = t.calls[i].time /\ d.time \in Int /\ (d \in T => d \in good)
  <2> DEFINE d == [trip |-> t, time |-> t.calls[i].time]
  <2>1. PICK j \in DOMAIN t.calls :
          /\ ActiveOn(t, ask.day) /\ i < j /\ t.calls[i].stop = ask.from /\ t.calls[j].stop = ask.to
          /\ ask.at <= t.calls[i].time /\ t.calls[i].time <= ask.at + ask.horizon
          /\ t.calls[j].time - t.calls[i].time \in 1..ask.horizon
    BY <1>8 DEF Rides
  <2>2. d.trip = t /\ d.time = t.calls[i].time /\ t.calls[i].time \in Int
    BY <1>1, CallsOf
  <2>3. Departure(feed, ask.from, ask.day, ask.at, ask.horizon, d)
    BY <2>1, <2>2 DEF Departure
  <2>4. RideTime(t, ask.from, ask.to) = t.calls[j].time - t.calls[i].time
    BY <1>1, <1>8, <2>1, RideTimeIs
  <2> QED
    BY <1>4, <1>5, <2>1, <2>2, <2>3, <2>4
<1>9. ASSUME NEW d \in good
      PROVE  /\ d \in S /\ d.trip \in feed /\ d.time \in Int /\ RideTime(d.trip, ask.from, ask.to) \in Int
             /\ \E i \in DOMAIN d.trip.calls :
                    /\ d.trip.calls[i] = [stop |-> ask.from, time |-> d.time]
                    /\ ask.day \in ServiceDays[d.trip.service] /\ ask.at <= d.time
                    /\ VisitsOnce(d.trip) =>
                         /\ Rides(ask, d.trip, i)
                         /\ \E j \in DOMAIN d.trip.calls :
                                d.trip.calls[j] = [stop |-> ask.to, time |-> d.time + RideTime(d.trip, ask.from, ask.to)]
  <2>1. d \in S /\ RideTime(d.trip, ask.from, ask.to) \in 1..ask.horizon
    BY <1>3, <1>5
  <2>2. Departure(feed, ask.from, ask.day, ask.at, ask.horizon, d)
    BY <1>4, <2>1
  <2>3. d.trip \in feed /\ d.time \in Int /\ ActiveOn(d.trip, ask.day) /\ ask.at <= d.time
    BY <2>2 DEF Departure
  <2>4. RideTime(d.trip, ask.from, ask.to) # 0 /\ RideTime(d.trip, ask.from, ask.to) \in Int
    BY <1>1, <2>1
  <2>5. PICK k \in DOMAIN d.trip.calls : d.trip.calls[k].stop = ask.from /\ d.trip.calls[k].time = d.time
    BY <2>2 DEF Departure
  <2>6. d.trip.calls[k] = [stop |-> ask.from, time |-> d.time]
    BY <1>1, <2>3, <2>5, CallsOf
  <2>7. ASSUME VisitsOnce(d.trip)
        PROVE  /\ Rides(ask, d.trip, k)
               /\ \E j \in DOMAIN d.trip.calls :
                      d.trip.calls[j] = [stop |-> ask.to, time |-> d.time + RideTime(d.trip, ask.from, ask.to)]
    <3>1. PICK i, j \in DOMAIN d.trip.calls :
            /\ i < j /\ d.trip.calls[i].stop = ask.from /\ d.trip.calls[j].stop = ask.to
            /\ RideTime(d.trip, ask.from, ask.to) = d.trip.calls[j].time - d.trip.calls[i].time
      BY <1>1, <2>3, <2>4, <2>7, RideTimeIs
    <3>2. k = i /\ d.trip.calls[i].time = d.time
      BY <2>5, <2>7, <3>1 DEF VisitsOnce
    <3>3. Rides(ask, d.trip, k)
      BY <2>1, <2>2, <3>1, <3>2 DEF Departure, Rides
    <3>4. d.trip.calls[j].time \in Int /\ d.trip.calls[j] = [stop |-> d.trip.calls[j].stop, time |-> d.trip.calls[j].time]
      BY <1>1, <2>3, CallsOf
    <3>5. d.trip.calls[j].time = d.time + RideTime(d.trip, ask.from, ask.to)
      BY <2>3, <3>1, <3>2, <3>4
    <3> QED
      BY <3>1, <3>3, <3>4, <3>5
  <2> QED
    BY <2>1, <2>3, <2>4, <2>6, <2>7 DEF ActiveOn
<1>10. CASE good = {}
  <2>1. answer = NoRide
    BY <1>7, <1>10
  <2>2. ASSUME NEW t \in feed, NEW i \in DOMAIN t.calls, VisitsOnce(t), Rides(ask, t, i)
        PROVE  Cardinality({d \in S : d.time <= t.calls[i].time}) > RideLimit
    <3>1. PICK d : d = [trip |-> t, time |-> t.calls[i].time]
      OBVIOUS
    <3>2. d \in S /\ d \notin T /\ d.time = t.calls[i].time
      BY <1>8, <1>10, <2>2, <3>1
    <3>3. Cardinality({e \in S : e.time <= d.time}) > RideLimit
      BY <1>3, <3>2
    <3> QED
      BY <3>2, <3>3
  <2> QED
    BY <1>0, <1>2, <2>1, <2>2 DEF RideIsRight
<1>11. CASE good # {}
  <2>1. best \in good /\ \A e \in good : ~Earlier(e, best)
    <3>1. PICK R : /\ StrictOrder(S, R)
                   /\ \A x, y \in S : <<x, y>> \in R <=> Earlier(x, y)
      BY <1>1, <1>2, DeparturesInOrder
    <3>2. IsFiniteSet(good) /\ \A d \in good : d \in S
      BY <1>3, <1>4, <1>5, FS_Subset
    <3>3. ASSUME NEW x \in good, NEW y \in good, NEW z \in good, <<x, y>> \in R, <<y, z>> \in R PROVE <<x, z>> \in R
      BY <3>1, <3>2, <3>3 DEF StrictOrder
    <3>4. \A x \in good : <<x, x>> \notin R
      BY <3>1, <3>2 DEF StrictOrder
    <3>5. \E x \in good : \A y \in good : <<y, x>> \notin R
      BY <3>2, <3>3, <3>4, <1>11, PeakOf
    <3>6. \E x \in good : \A y \in good : ~Earlier(y, x)
      BY <3>1, <3>2, <3>5
    <3> QED
      BY <1>6, <3>6
  <2>2. answer = [trip |-> best.trip, dep |-> best.time, arrive |-> best.time + RideTime(best.trip, ask.from, ask.to)]
    BY <1>7, <1>11
  <2>3. /\ best \in T /\ best.trip \in feed /\ best.trip \in ask.feed
        /\ best.time \in Int /\ RideTime(best.trip, ask.from, ask.to) \in Int
    BY <1>1, <1>5, <1>9, <2>1
  <2>4. answer \in [trip : UNION Feeds, dep : Int, arrive : Int]
    BY <1>1, <2>2, <2>3
  <2>5. answer # NoRide
    BY <2>4, NoRideAssumption
  <2>6. answer.trip = best.trip /\ answer.dep = best.time
        /\ answer.arrive = best.time + RideTime(best.trip, ask.from, ask.to)
    BY <2>2
  <2>7. \E i \in DOMAIN answer.trip.calls :
            /\ answer.trip.calls[i] = [stop |-> ask.from, time |-> answer.dep]
            /\ ask.day \in ServiceDays[answer.trip.service] /\ ask.at <= answer.dep
            /\ answer.trip \in feed
            /\ VisitsOnce(answer.trip) =>
                 /\ Rides(ask, answer.trip, i)
                 /\ \E j \in DOMAIN answer.trip.calls : answer.trip.calls[j] = [stop |-> ask.to, time |-> answer.arrive]
    BY <1>9, <2>1, <2>3, <2>6
  <2>8. ASSUME NEW t \in feed, NEW i \in DOMAIN t.calls, VisitsOnce(t), Rides(ask, t, i)
        PROVE  answer.dep <= t.calls[i].time
    <3>1. PICK d : d = [trip |-> t, time |-> t.calls[i].time]
      OBVIOUS
    <3>2. d \in S /\ d.time = t.calls[i].time /\ d.time \in Int /\ (d \in T => d \in good)
      BY <1>8, <2>8, <3>1
    <3>3. CASE d \in T
      <4>1. ~Earlier(d, best)
        BY <2>1, <3>2, <3>3
      <4>2. ~(d.time < best.time)
        BY <4>1 DEF Earlier
      <4> QED
        BY <2>3, <2>6, <3>2, <4>2
    <3>4. CASE d \notin T
      BY <1>3, <2>3, <2>6, <3>2, <3>4
    <3> QED
      BY <3>3, <3>4
  <2> QED
    BY <1>0, <2>5, <2>7, <2>8 DEF RideIsRight
<1> QED
  BY <1>10, <1>11

LEMMA LatenessIsTrue == TransitInv => LatenessIsRight
<1> SUFFICES ASSUME TransitInv, Told("bus"), ask.matched, VisitsOnce(answer.trip),
                    NEW i \in DOMAIN answer.trip.calls, answer.trip.calls[i].stop = ask.stop,
                    NEW late, late = ask.now - (ask.setOut * TransitDay + answer.trip.calls[i].time),
                    2 * Apart(late, 0) < TransitDay
             PROVE  answer.delta = late
  BY DEF LatenessIsRight
<1>1. /\ ask.feed \in Feeds /\ ask.now \in Int /\ ask.setOut \in {0, -1}
      /\ TransitDay \in Nat
  <2>1. ask \in BusAsks
    BY DEF TransitInv, TransitAsked, Told, BoardAsks, RideAsks, NameAsks
  <2>2. ask.feed \in Feeds /\ ask.now \in 0..TransitDay - 1 /\ ask.setOut \in {0, -1}
    BY <2>1 DEF BusAsks
  <2>3. TransitDay \in Nat
    BY TransitAssumption
  <2>4. ask.now \in Int
    BY <2>2, <2>3
  <2> QED
    BY <2>2, <2>3, <2>4
<1>2. PICK t \in ask.feed : answer = [trip |-> t, delta |-> ScheduleDelta(t, ask.stop, ask.now)]
  BY DEF TransitInv
<1>3. answer.trip = t /\ answer.delta = ScheduleDelta(t, ask.stop, ask.now)
  BY <1>2
<1>4. t.calls[i].time \in Int /\ i \in DOMAIN t.calls
  BY <1>1, <1>3, CallsOf, FeedsAssumption
<1> DEFINE L == {ask.now - (d * TransitDay + t.calls[j].time) :
                    d \in {0, -1}, j \in {k \in DOMAIN t.calls : t.calls[k].stop = ask.stop}}
           x0 == ask.now - t.calls[i].time
<1>5. 0 * TransitDay = 0 /\ (-1) * TransitDay = -TransitDay
  BY <1>1
<1>6. \A j \in {k \in DOMAIN t.calls : t.calls[k].stop = ask.stop} : j = i
  BY <1>3, <1>4 DEF VisitsOnce
<1>7. i \in {k \in DOMAIN t.calls : t.calls[k].stop = ask.stop}
  BY <1>3, <1>4
<1>8. ASSUME NEW x \in L PROVE x = x0 \/ x = x0 + TransitDay
  <2>1. PICK d \in {0, -1} : x = ask.now - (d * TransitDay + t.calls[i].time)
    BY <1>6
  <2> QED
    BY <1>1, <1>4, <1>5, <2>1
<1>9. x0 \in L /\ x0 + TransitDay \in L
  <2>1. ask.now - (0 * TransitDay + t.calls[i].time) \in L
    BY <1>7
  <2>2. ask.now - ((-1) * TransitDay + t.calls[i].time) \in L
    BY <1>7
  <2>3. /\ ask.now - (0 * TransitDay + t.calls[i].time) = x0
        /\ ask.now - ((-1) * TransitDay + t.calls[i].time) = x0 + TransitDay
    BY <1>1, <1>4, <1>5
  <2> QED
    BY <2>1, <2>2, <2>3
<1>10. x0 \in Int /\ (late = x0 \/ late = x0 + TransitDay)
  BY <1>1, <1>3, <1>4, <1>5
<1>11. answer.delta = IF L = {} THEN NoRide ELSE CHOOSE x \in L : \A y \in L : Apart(x, 0) <= Apart(y, 0)
  BY <1>3 DEF ScheduleDelta
<1> HIDE DEF L, x0
<1>12. late \in L /\ \A y \in L : y # late => Apart(late, 0) < Apart(y, 0)
  BY <1>1, <1>8, <1>9, <1>10 DEF Apart
<1>13. \A y \in L : Apart(late, 0) \in Int /\ Apart(y, 0) \in Int
  BY <1>1, <1>8, <1>10 DEF Apart
<1>14. \A x \in L : (\A y \in L : Apart(x, 0) <= Apart(y, 0)) => x = late
  BY <1>12, <1>13
<1>15. \A y \in L : Apart(late, 0) <= Apart(y, 0)
  BY <1>12, <1>13
<1> QED
  BY <1>11, <1>12, <1>14, <1>15

LEMMA NamesAreTrue == TransitInv => NameIsPlain
<1> SUFFICES ASSUME TransitInv, Told("stop"), NEW s \in answer, NEW t \in BusStops
             PROVE  /\ (t \in ask.exact => s \in ask.exact) /\ (t \in ask.start /\ s \notin ask.exact => s = t)
                    /\ s \notin ask.start => t \notin ask.within \/ t = s
  BY DEF NameIsPlain
<1>1. ask \in NameAsks
  BY DEF TransitInv, TransitAsked, Told, BoardAsks, RideAsks, BusAsks
<1>2. ask.exact \subseteq ask.start /\ ask.start \subseteq ask.within /\ ask.within \subseteq BusStops
  BY <1>1 DEF NameAsks
<1>3. ASSUME NEW S, S \subseteq BusStops PROVE OnlyOf(S) # {} <=> \E x : S = {x}
  <2>1. IsFiniteSet(S)
    BY <1>3, FS_Subset, TransitAssumption
  <2>2. Cardinality(S) = 1 <=> \E x : S = {x}
    BY <2>1, FS_Singleton
  <2> QED
    BY <2>2 DEF OnlyOf
<1>4. \A S : OnlyOf(S) # {} => OnlyOf(S) = S
  BY DEF OnlyOf
<1>5. answer = ResolveStop(ask)
  BY DEF TransitInv
<1>6. CASE OnlyOf(ask.exact) # {}
  BY <1>2, <1>4, <1>5, <1>6 DEF ResolveStop
<1>7. CASE OnlyOf(ask.exact) = {} /\ OnlyOf(ask.start) # {}
  <2>1. PICK x : ask.start = {x}
    BY <1>2, <1>3, <1>7
  <2>2. answer = {x}
    BY <1>4, <1>5, <1>7, <2>1 DEF ResolveStop
  <2>3. ask.exact = {} \/ ask.exact = {x}
    BY <1>2, <2>1
  <2> QED
    BY <2>1, <2>2, <2>3
<1>8. CASE OnlyOf(ask.exact) = {} /\ OnlyOf(ask.start) = {}
  <2>1. answer = OnlyOf(ask.within)
    BY <1>5, <1>8 DEF ResolveStop
  <2>2. PICK x : ask.within = {x}
    BY <1>2, <1>3, <2>1
  <2>3. answer = {x}
    BY <1>4, <2>1, <2>2
  <2>4. ask.exact # {x} /\ ask.start # {x}
    BY <1>2, <1>3, <1>8
  <2>5. ask.exact = {} /\ ask.start = {}
    BY <1>2, <2>2, <2>4
  <2> QED
    BY <2>2, <2>3, <2>5
<1> QED
  BY <1>6, <1>7, <1>8

(* A board lists departures of the day, the first ones of however many; a    *)
(* ride is the first there is; a lateness and a stop's name are what they    *)
(* are (gtfs.py:217-264, tools.py:505-543, 703-751, 961-986,                 *)
(* livebus.py:151-200).                                                      *)
THEOREM BusesAreTrue == TransitSpec => []BusesAsTimetabled
<1>1. answer = NoAnswer /\ TransitAsked => TransitInv
  BY DEF TransitInv, Told
<1>2. TransitInv /\ [TransitNext]_lookupVars => TransitInv'
  <2> SUFFICES ASSUME TransitInv, [TransitNext]_lookupVars PROVE TransitInv'
    OBVIOUS
  <2>1. ask' = ask /\ TransitAsked'
    BY DEF TransitInv, TransitAsked, TransitNext, Board, TimeRide, LiveBus, Resolve, Reply, lookupVars
  <2>2. CASE Board
    BY <2>1, <2>2 DEF TransitInv, Board, Reply, Told
  <2>3. CASE TimeRide
    BY <2>1, <2>3 DEF TransitInv, TimeRide, Reply, Told
  <2>4. CASE LiveBus
    BY <2>1, <2>4 DEF TransitInv, LiveBus, Reply, Told
  <2>5. CASE Resolve
    BY <2>1, <2>5 DEF TransitInv, Resolve, Reply, Told
  <2>6. CASE UNCHANGED lookupVars
    BY <2>1, <2>6 DEF TransitInv, Told, lookupVars
  <2> QED
    BY <2>2, <2>3, <2>4, <2>5, <2>6 DEF TransitNext
<1>3. TransitInv => BusesAsTimetabled
  BY BoardsAreTrue, RidesAreTrue, LatenessIsTrue, NamesAreTrue DEF BusesAsTimetabled
<1> QED
  BY <1>1, <1>2, <1>3, PTL DEF TransitSpec

(* Events.                                                                 *)
EventsInv ==
    /\ EventsAsked
    /\ Told("events") => answer = EventsFound(ask)
    /\ Told("upcoming") => answer = Upcoming(ask)
    /\ Told("duplicates") => answer = Dedupe(ask.rows)
    /\ Told("page") => answer = PageSays(ask)

\* Whatever a snapshot is judged to be, its failures come first.
LEMMA HealthIs ==
    ASSUME NEW s
    PROVE  /\ s.failures => Health(s) = "partial"
           /\ ~s.failures /\ s.rows = {} => Health(s) = "empty"
           /\ ~s.failures /\ s.rows # {} => Health(s) \in {"stale", "ok"}
  BY DEF Health

LEMMA EventsReply == EventsInv => NoMatchIsTrue
<1> SUFFICES ASSUME EventsInv, Told("events"), ask.snap # NoSnapshot
    PROVE  LET asked == {e \in ask.snap.rows : ask.tags \subseteq e.tags
                          /\ (ask.date = "today" => DayOf(e.start) = ask.today)
                          /\ (ask.date = "tomorrow" => DayOf(e.start) = ask.today + 1)}
        IN  /\ answer.rows = asked
            /\ ask.snap.failures => answer.state \in {"partial", "out-of-scope"}
            /\ answer.state = "no-match" => asked = {} /\ ask.snap.rows # {}
  BY DEF NoMatchIsTrue
<1> DEFINE day     == WantedDay(ask)
           matched == {e \in ask.snap.rows : day = NotSaid \/ DayOf(e.start) = day}
           rows    == {e \in matched : ask.tags \subseteq e.tags}
           health  == Health(ask.snap)
           state   == IF health = "empty" THEN "empty" ELSE BrowseState(ask.snap, matched, day # NotSaid)
           asked   == {e \in ask.snap.rows : ask.tags \subseteq e.tags
                          /\ (ask.date = "today" => DayOf(e.start) = ask.today)
                          /\ (ask.date = "tomorrow" => DayOf(e.start) = ask.today + 1)}
<1>1. answer = EventsFound(ask) /\ ask.today \in Int
  BY DEF EventsInv, EventsAsked, Told
<1>2. /\ ask.date = "today" => day = ask.today /\ day # NotSaid
      /\ ask.date = "tomorrow" => day = ask.today + 1 /\ day # NotSaid
      /\ ask.date \notin {"today", "tomorrow"} => day = NotSaid
  BY <1>1, EventsAssumption DEF WantedDay
<1>3. rows = asked
  <2> HIDE DEF day
  <2> QED
    BY <1>2
<1>4. \A e \in ask.snap.rows : DayOf(e.start) \in Month
  BY DEF EventsInv, EventsAsked, EventOK, Told
<1>5. CASE day # NotSaid /\ day \notin Month
  <2>1. answer = [rows |-> {}, state |-> "out-of-scope"]
    BY <1>1, <1>5 DEF EventsFound
  <2>2. rows = {}
    <3> HIDE DEF day
    <3> QED
      BY <1>4, <1>5
  <2>3. answer.rows = asked /\ asked = {} /\ answer.state = "out-of-scope"
    <3> HIDE DEF rows, asked
    <3> QED
      BY <1>3, <2>1, <2>2
  <2> QED
    BY <2>3
<1>6. CASE day = NotSaid \/ day \in Month
  <2>1. answer = [rows  |-> rows,
                  state |-> IF rows # {} \/ state \in {"empty", "partial", "stale"} THEN state ELSE "no-match"]
    BY <1>1, <1>6 DEF EventsFound
  <2>2. /\ ask.snap.failures => state = "partial"
        /\ ~ask.snap.failures /\ ask.snap.rows = {} => state = "empty"
        /\ state = "no-match" => matched = {}
    BY HealthIs DEF BrowseState
  <2>3. matched = {} => rows = {}
    OBVIOUS
  <2>4. /\ answer.rows = asked /\ (ask.snap.failures => answer.state = "partial")
        /\ answer.state = "no-match" => asked = {} /\ ask.snap.rows # {}
    <3> HIDE DEF rows, asked, state, matched
    <3>1. answer.rows = rows /\ (ask.snap.failures => answer.state = "partial")
      BY <2>1, <2>2
    <3>2. ASSUME answer.state = "no-match" PROVE rows = {} /\ ask.snap.rows # {}
      BY <2>1, <2>2, <2>3, <3>2
    <3> QED
      BY <1>3, <3>1, <3>2
  <2> QED
    BY <2>4
<1> QED
  BY <1>5, <1>6

\* An all-day event takes its whole day.
LEMMA AllDayTakesADay ==
    ASSUME NEW e, EventOK(e), e.allDay
    PROVE  CalendarEnd(e) \in Int /\ CalendarEnd(e) >= e.start + EventDay
<1>1. EventDay \in Nat \ {0} /\ e.start \in Int /\ e.start = EventDay * DayOf(e.start)
  BY EventsAssumption DEF EventOK
<1>2. DayOf(e.start) \in Int /\ (e.end # NotSaid => DayOf(e.end) \in Int)
  BY <1>1 DEF EventOK, DayOf
<1> DEFINE d == DayOf(e.start)
           x == IF e.end # NotSaid /\ DayOf(e.end) > DayOf(e.start) THEN DayOf(e.end) ELSE DayOf(e.start) + 1
<1>3. x \in Int /\ x - d - 1 \in Nat
  BY <1>2
<1>4. CalendarEnd(e) = EventDay * x
  BY DEF CalendarEnd
<1> HIDE DEF d, x
<1>5. d \in Int /\ e.start = EventDay * d
  BY <1>1, <1>2 DEF d
<1>6. EventDay * x = EventDay * d + EventDay + EventDay * (x - d - 1) /\ EventDay * (x - d - 1) \in Nat
  BY <1>1, <1>3, <1>5
<1>7. EventDay * x \in Int /\ EventDay * d \in Int
  BY <1>1, <1>3, <1>5
<1> QED
  BY <1>1, <1>4, <1>5, <1>6, <1>7

LEMMA UpcomingReply == EventsInv => CalendarIsUsable
<1> SUFFICES ASSUME EventsInv, Told("upcoming"), NEW row \in answer.rows
    PROVE  /\ row.start >= ask.now /\ (row.end = NotSaid \/ row.end >= row.start)
           /\ \E e \in ask.snap.rows : e.id = row.id /\ e.status = "scheduled"
                                      /\ (e.allDay => row.end >= row.start + EventDay)
  BY DEF CalendarIsUsable
<1> DEFINE open  == {e \in ask.snap.rows : e.start >= ask.now /\ e.status \notin {"cancelled", "uncertain"}}
           first == {e \in open : Cardinality({f \in open : f.start < e.start \/ (f.start = e.start /\ f.id < e.id)})
                               < CalendarLimit}
<1>1. answer = Upcoming(ask)
  BY DEF EventsInv
<1>2. /\ ask.snap # NoSnapshot
      /\ row \in {[id |-> e.id, start |-> e.start, end |-> CalendarEnd(e)] :
                               e \in {f \in first : ~InvalidRange(f) /\ f.status # "parser-failed"}}
  BY <1>1 DEF Upcoming
<1>3. PICK e \in ask.snap.rows :
          /\ e.start >= ask.now /\ e.status \notin {"cancelled", "uncertain", "parser-failed"} /\ ~InvalidRange(e)
          /\ row = [id |-> e.id, start |-> e.start, end |-> CalendarEnd(e)]
  BY <1>2
<1>4. EventOK(e)
  BY <1>2 DEF EventsInv, EventsAsked, Told
<1>5. e.status = "scheduled" /\ e.start \in Int /\ e.end \in Int \cup {NotSaid}
  BY <1>3, <1>4 DEF EventOK
<1>6. row.id = e.id /\ row.start = e.start /\ row.end = CalendarEnd(e)
  BY <1>3
<1>7. CASE e.allDay
  <2>1. row.end \in Int /\ row.end >= row.start + EventDay
    BY <1>4, <1>6, <1>7, AllDayTakesADay
  <2>2. row.end >= row.start
    BY <2>1, <1>5, <1>6, EventsAssumption
  <2> QED
    BY <1>3, <1>5, <1>6, <2>1, <2>2
<1>8. CASE ~e.allDay
  <2>1. row.end = e.end /\ (e.end = NotSaid \/ e.end >= e.start)
    BY <1>3, <1>5, <1>6, <1>8 DEF CalendarEnd, InvalidRange
  <2> QED
    BY <1>3, <1>5, <1>6, <1>8, <2>1
<1> QED
  BY <1>7, <1>8

LEMMA LeastOf ==
    ASSUME NEW S, S \subseteq Nat, S # {}
    PROVE  LET first == CHOOSE i \in S : \A j \in S : i <= j
           IN  first \in S /\ \A j \in S : first <= j
<1>1. \E i \in S : \A j \in S : i <= j
  <2> DEFINE f == [i \in S |-> i]
  <2>1. \A i \in S : f[i] = i /\ f[i] \in Nat
    OBVIOUS
  <2> HIDE DEF f
  <2>2. \E i \in S : \A j \in S : f[i] <= f[j]
    BY <2>1, FewestPast
  <2> QED
    BY <2>1, <2>2
<1> QED
  BY <1>1

\* What a page's tags say of food is what the first of them says.
LEMMA TagsSay ==
    ASSUME NEW tags, DOMAIN tags \subseteq Nat
    PROVE  /\ SaidByTags(tags) = NotSaid <=> Range(tags) \cap FoodTags = {}
           /\ SaidByTags(tags) = FALSE => \E i \in DOMAIN tags :
                  tags[i] = "no-food" /\ \A j \in DOMAIN tags : j < i => tags[j] # "free-food"
<1> DEFINE about == {i \in DOMAIN tags : tags[i] \in FoodTags}
           first == CHOOSE i \in about : \A j \in about : i <= j
<1>1. SaidByTags(tags) = IF about = {} THEN NotSaid ELSE tags[first] = "free-food"
  BY DEF SaidByTags
<1>2. about = {} <=> Range(tags) \cap FoodTags = {}
  BY DEF Range
<1>3. NotSaid # TRUE /\ NotSaid # FALSE
  BY EventsAssumption
<1>4. ASSUME about # {} PROVE first \in about /\ \A j \in about : first <= j
  BY <1>4, LeastOf
<1> HIDE DEF first
<1>5. ASSUME about # {} PROVE SaidByTags(tags) \in BOOLEAN
  BY <1>1, <1>5
<1>6. ASSUME about # {}, SaidByTags(tags) = FALSE
      PROVE  tags[first] = "no-food" /\ \A j \in DOMAIN tags : j < first => tags[j] # "free-food"
  <2>1. first \in DOMAIN tags /\ tags[first] \in FoodTags /\ \A j \in about : first <= j
    BY <1>4, <1>6
  <2>2. tags[first] # "free-food"
    BY <1>1, <1>6
  <2>3. tags[first] = "no-food"
    BY <2>1, <2>2 DEF FoodTags
  <2>4. ASSUME NEW j \in DOMAIN tags, j < first, tags[j] = "free-food" PROVE FALSE
    <3>1. j \in about /\ j \in Nat /\ first \in Nat
      BY <2>1, <2>4 DEF FoodTags
    <3> QED
      BY <2>1, <2>4, <3>1
  <2> QED
    BY <2>3, <2>4
<1>7. first \in about => first \in DOMAIN tags
  OBVIOUS
<1> HIDE DEF about
<1>8. SaidByTags(tags) = NotSaid <=> about = {}
  BY <1>1, <1>3, <1>5
<1>9. SaidByTags(tags) = FALSE => about # {}
  BY <1>3, <1>8
<1> QED
  BY <1>2, <1>4, <1>6, <1>7, <1>8, <1>9

LEMMA PageReply == EventsInv => UnsaidIsUnknown
<1> DEFINE tags  == Range(ask.tags)
           card  == IF ask.card = NotSaid THEN [types |-> {}, features |-> {}] ELSE ask.card
           silent == tags \cap FoodTags = {}
           heard == silent /\ card.features # {} /\ "free-food" \notin card.features
           first(a, b) == IF a = NotSaid THEN b ELSE a
<1> SUFFICES ASSUME EventsInv, Told("page"), answer.was = "event"
    PROVE  /\ answer.inPerson = FALSE => "in-person" \notin tags
                  /\ ("online" \in tags \/ (card.types # {} /\ "in-person" \notin card.types))
           /\ answer.freeFood = FALSE => heard \/ \E i \in DOMAIN ask.tags :
                  ask.tags[i] = "no-food" /\ \A j \in DOMAIN ask.tags : j < i => ask.tags[j] # "free-food"
           /\ answer.freeFood = NotSaid <=> silent /\ card.features = {}
  BY DEF UnsaidIsUnknown
<1>1. answer = PageSays(ask) /\ DOMAIN ask.tags \subseteq Nat
  BY DEF EventsInv, EventsAsked, Told
<1>2. /\ answer.inPerson = first(SaidByType(tags), OnCard(ask.card).inPerson)
      /\ answer.freeFood = first(SaidByTags(ask.tags), OnCard(ask.card).freeFood)
  BY <1>1 DEF PageSays
<1>3. NotSaid # TRUE /\ NotSaid # FALSE
  BY EventsAssumption
<1>4. /\ OnCard(ask.card).inPerson = FALSE => card.types # {} /\ "in-person" \notin card.types
      /\ OnCard(ask.card).freeFood = FALSE => card.features # {} /\ "free-food" \notin card.features
      /\ OnCard(ask.card).freeFood = NotSaid <=> card.features = {}
  BY <1>3 DEF OnCard, SaidByType
<1>5. SaidByType(tags) = FALSE => "in-person" \notin tags /\ "online" \in tags
  BY <1>3 DEF SaidByType
<1>6. SaidByType(tags) = NotSaid => "in-person" \notin tags
  BY <1>3 DEF SaidByType
<1>7. /\ SaidByTags(ask.tags) = NotSaid <=> silent
      /\ SaidByTags(ask.tags) = FALSE => \E i \in DOMAIN ask.tags :
             ask.tags[i] = "no-food" /\ \A j \in DOMAIN ask.tags : j < i => ask.tags[j] # "free-food"
  BY <1>1, TagsSay
<1> HIDE DEF tags, card, silent
<1>8. answer.inPerson = FALSE => "in-person" \notin tags
          /\ ("online" \in tags \/ (card.types # {} /\ "in-person" \notin card.types))
  BY <1>2, <1>4, <1>5, <1>6
<1>9. answer.freeFood = FALSE => heard \/ SaidByTags(ask.tags) = FALSE
  BY <1>2, <1>4, <1>7
<1>10. answer.freeFood = NotSaid <=> silent /\ card.features = {}
  BY <1>2, <1>4, <1>7
<1> QED
  BY <1>7, <1>8, <1>9, <1>10

\* Of the rows that share a key the richest stays, and one of them does stay.
LEMMA CollapseKeeps ==
    ASSUME NEW rows, DOMAIN rows \subseteq Nat, IsFiniteSet(DOMAIN rows),
           \A i \in DOMAIN rows : rows[i].score \in Int /\ rows[i].at \in Int,
           NEW key
    PROVE  LET kept == Collapse(rows, key)
           IN  /\ DOMAIN kept \subseteq DOMAIN rows
               /\ \A i \in DOMAIN kept : \E j \in DOMAIN rows : kept[i] = rows[j] /\ rows[j][key] = rows[i][key]
               /\ \A i, j \in DOMAIN kept : i # j => kept[i][key] # kept[j][key]
               /\ \A i \in DOMAIN rows :
                      (\A j \in DOMAIN rows : i = j \/ rows[i][key] # rows[j][key])
                      => i \in DOMAIN kept /\ kept[i] = rows[i]
<1> DEFINE alike(i) == {j \in DOMAIN rows : rows[j][key] = rows[i][key]}
           firsts   == {i \in DOMAIN rows : \A j \in alike(i) : i <= j}
           stays(i, j) == \A k \in alike(i) : ~Richer(rows[k], rows[j]) /\ (k < j => Richer(rows[j], rows[k]))
           best(i)  == CHOOSE j \in alike(i) : stays(i, j)
           kept     == Collapse(rows, key)
<1>1. kept = [i \in firsts |-> rows[best(i)]]
  BY DEF Collapse
<1>2. ASSUME NEW i \in DOMAIN rows PROVE \E j \in alike(i) : stays(i, j)
  <2> DEFINE beats(x, y) == Richer(rows[x], rows[y]) \/ (~Richer(rows[y], rows[x]) /\ x < y)
             R == {p \in alike(i) \X alike(i) : beats(p[1], p[2])}
  <2>1. \A x, y \in alike(i) : <<x, y>> \in R <=> beats(x, y)
    OBVIOUS
  <2>2. \A x \in alike(i) : x \in Nat /\ rows[x].score \in Int /\ rows[x].at \in Int
    OBVIOUS
  <2>3. IsFiniteSet(alike(i)) /\ alike(i) # {}
    BY <1>2, FS_Subset
  <2> HIDE DEF R, alike
  <2>4. \A x, y, z \in alike(i) : <<x, y>> \in R /\ <<y, z>> \in R => <<x, z>> \in R
    BY <2>1, <2>2 DEF Richer
  <2>5. \A x \in alike(i) : <<x, x>> \notin R
    BY <2>1, <2>2 DEF Richer
  <2>6. PICK j \in alike(i) : \A k \in alike(i) : <<k, j>> \notin R
    BY <2>3, <2>4, <2>5, PeakOf
  <2>7. ASSUME NEW k \in alike(i) PROVE ~Richer(rows[k], rows[j]) /\ (k < j => Richer(rows[j], rows[k]))
    BY <2>1, <2>6
  <2> QED
    BY <2>7
<1>3. ASSUME NEW i \in DOMAIN rows PROVE best(i) \in DOMAIN rows /\ rows[best(i)][key] = rows[i][key]
  <2>1. best(i) \in alike(i)
    <3> HIDE DEF alike, stays
    <3> QED
      BY <1>2, <1>3
  <2> HIDE DEF best
  <2> QED
    BY <2>1
<1>4. DOMAIN kept = firsts /\ firsts \subseteq DOMAIN rows
  BY <1>1
<1>5. ASSUME NEW i \in DOMAIN kept PROVE /\ i \in DOMAIN rows /\ kept[i] = rows[best(i)]
                                          /\ best(i) \in DOMAIN rows /\ rows[best(i)][key] = rows[i][key]
  <2>1. i \in firsts /\ i \in DOMAIN rows
    BY <1>4, <1>5
  <2>2. kept[i] = rows[best(i)]
    <3> HIDE DEF firsts, best, kept
    <3> QED
      BY <1>1, <2>1
  <2> HIDE DEF best
  <2> QED
    BY <1>3, <2>1, <2>2
<1>6. ASSUME NEW i \in DOMAIN kept, NEW j \in DOMAIN kept, kept[i][key] = kept[j][key] PROVE i = j
  <2>1. rows[i][key] = rows[j][key]
    BY <1>5, <1>6
  <2>2. i \in firsts /\ j \in firsts
    BY <1>4, <1>6
  <2>3. i <= j /\ j <= i
    BY <2>1, <2>2
  <2> QED
    BY <2>2, <2>3
<1>7. ASSUME NEW i \in DOMAIN rows, \A j \in DOMAIN rows : i = j \/ rows[i][key] # rows[j][key]
      PROVE  i \in DOMAIN kept /\ kept[i] = rows[i]
  <2>1. best(i) = i
    BY <1>3, <1>7
  <2>2. i \in firsts
    BY <1>7
  <2>3. i \in DOMAIN kept
    BY <1>4, <2>2
  <2> HIDE DEF best, kept
  <2> QED
    BY <1>5, <2>1, <2>3
<1> HIDE DEF kept, best, firsts
<1> QED
  BY <1>4, <1>5, <1>6, <1>7 DEF kept

LEMMA DuplicatesReply == EventsInv => DistinctStay
<1> SUFFICES ASSUME EventsInv, Told("duplicates")
    PROVE  /\ \A i, j \in DOMAIN answer : i # j =>
                  answer[i].id # answer[j].id /\ answer[i].triple # answer[j].triple
           /\ \A i \in DOMAIN ask.rows :
                  (\A j \in DOMAIN ask.rows : i = j \/ (ask.rows[i].id # ask.rows[j].id
                                                         /\ ask.rows[i].triple # ask.rows[j].triple))
                  => ask.rows[i] \in Range(answer)
  BY DEF DistinctStay
<1> DEFINE rows == ask.rows
           once == Collapse(rows, "id")
           kept == Collapse(once, "triple")
<1>1. answer = kept
  BY DEF EventsInv, Dedupe
<1>2. /\ DOMAIN rows \subseteq Nat /\ IsFiniteSet(DOMAIN rows)
      /\ \A i \in DOMAIN rows : rows[i].score \in Int /\ rows[i].at \in Int
  BY DEF EventsInv, EventsAsked, Told
<1> HIDE DEF rows
<1>3. /\ DOMAIN once \subseteq DOMAIN rows
      /\ \A i \in DOMAIN once : \E j \in DOMAIN rows : once[i] = rows[j] /\ rows[j].id = rows[i].id
      /\ \A i, j \in DOMAIN once : i # j => once[i].id # once[j].id
      /\ \A i \in DOMAIN rows :
             (\A j \in DOMAIN rows : i = j \/ rows[i].id # rows[j].id) => i \in DOMAIN once /\ once[i] = rows[i]
  BY <1>2, CollapseKeeps
<1> HIDE DEF once
<1>4. /\ DOMAIN once \subseteq Nat /\ IsFiniteSet(DOMAIN once)
      /\ \A i \in DOMAIN once : once[i].score \in Int /\ once[i].at \in Int
  BY <1>2, <1>3, FS_Subset
<1>5. /\ DOMAIN kept \subseteq DOMAIN once
      /\ \A i \in DOMAIN kept : \E j \in DOMAIN once : kept[i] = once[j] /\ once[j].triple = once[i].triple
      /\ \A i, j \in DOMAIN kept : i # j => kept[i].triple # kept[j].triple
      /\ \A i \in DOMAIN once :
             (\A j \in DOMAIN once : i = j \/ once[i].triple # once[j].triple) => i \in DOMAIN kept /\ kept[i] = once[i]
  BY <1>4, CollapseKeeps
<1> HIDE DEF kept
<1>6. ASSUME NEW i \in DOMAIN kept, NEW j \in DOMAIN kept, i # j
      PROVE  kept[i].id # kept[j].id /\ kept[i].triple # kept[j].triple
  <2>1. kept[i].triple # kept[j].triple
    BY <1>5, <1>6
  <2>2. PICK x \in DOMAIN once, y \in DOMAIN once : kept[i] = once[x] /\ kept[j] = once[y]
    BY <1>5
  <2>3. x # y
    BY <2>1, <2>2
  <2> QED
    BY <1>3, <2>1, <2>2, <2>3
<1>7. ASSUME NEW i \in DOMAIN rows,
             \A j \in DOMAIN rows : i = j \/ (rows[i].id # rows[j].id /\ rows[i].triple # rows[j].triple)
      PROVE  rows[i] \in Range(kept)
  <2>1. i \in DOMAIN once /\ once[i] = rows[i]
    BY <1>3, <1>7
  <2>2. ASSUME NEW k \in DOMAIN once, k # i PROVE once[i].triple # once[k].triple
    <3>1. PICK j \in DOMAIN rows : once[k] = rows[j] /\ rows[j].id = rows[k].id
      BY <1>3
    <3>2. k \in DOMAIN rows /\ rows[i].id # rows[k].id
      BY <1>3, <1>7, <2>2
    <3> QED
      BY <1>7, <2>1, <3>1, <3>2
  <2>3. i \in DOMAIN kept /\ kept[i] = rows[i]
    BY <1>5, <2>1, <2>2
  <2> QED
    BY <2>3 DEF Range
<1> QED
  BY <1>1, <1>6, <1>7 DEF rows

(* What the events answers say is true of any snapshot: the rows and the     *)
(* state of a reply (tools.py), the calendar rows (ui_files.py), the merged  *)
(* duplicates and the unknown fields of a page (events.py:1196-1236).        *)
THEOREM EventsAnswersHold == EventsSpec => []EventsKeepTheirWord
<1>1. EventsSpec => EventsInv
  BY DEF EventsSpec, EventsInv, Told
<1>2. EventsInv /\ [EventsNext]_lookupVars => EventsInv'
  <2> SUFFICES ASSUME EventsInv, [EventsNext]_lookupVars PROVE EventsInv'
    OBVIOUS
  <2>1. CASE EventsNext
    <3>1. ask' = ask /\ answer = NoAnswer
      BY <2>1 DEF EventsNext, FindEvents, ListUpcoming, MergeDuplicates, ParseDetail, Reply
    <3>2. /\ ask.of = "events" => answer' = EventsFound(ask)
          /\ ask.of = "upcoming" => answer' = Upcoming(ask)
          /\ ask.of = "duplicates" => answer' = Dedupe(ask.rows)
          /\ ask.of = "page" => answer' = PageSays(ask)
      BY <2>1 DEF EventsNext, FindEvents, ListUpcoming, MergeDuplicates, ParseDetail, Reply
    <3> QED
      BY <3>1, <3>2 DEF EventsInv, EventsAsked, Told
  <2>2. CASE UNCHANGED lookupVars
    BY <2>2 DEF EventsInv, EventsAsked, Told, lookupVars
  <2> QED
    BY <2>1, <2>2
<1>3. EventsInv => EventsKeepTheirWord
  BY EventsReply, UpcomingReply, DuplicatesReply, PageReply DEF EventsKeepTheirWord
<1> QED
  BY <1>1, <1>2, <1>3, PTL DEF EventsSpec

(* The campus map.                                                         *)
GisInv ==
    /\ GisAsked
    /\ Told("buildings") => answer = IF ask.layer = {} THEN [status |-> "unavailable", rows |-> {}]
                                     ELSE SearchBuildings(Buildings(The(ask.layer)))
    /\ Told("building") => answer = BuildingDetail(ask)
    /\ Told("route") => answer = IF ask.mode \in DOMAIN RouteModes THEN RouteBetween(ask) ELSE [status |-> "refused"]
    /\ Told("closures") => answer = ClosuresTold(ask)

\* A list that is not empty has a first place.
LEMMA ForemostOf ==
    ASSUME NEW S, S \subseteq Nat, S # {}
    PROVE  Foremost(S) \in S /\ \A j \in S : Foremost(S) <= j
<1> DEFINE place == [x \in S |-> x]
<1>1. \A x \in S : place[x] \in Nat
  OBVIOUS
<1>2. PICK x \in S : \A y \in S : place[x] <= place[y]
  <2> HIDE DEF place
  <2> QED
    BY <1>1, FewestPast
<1>3. \A y \in S : x <= y
  BY <1>2
<1> QED
  BY <1>3 DEF Foremost

LEMMA ForemostIs ==
    ASSUME NEW S, S \subseteq Nat, NEW m \in S, \A i \in S : m <= i
    PROVE  Foremost(S) = m
<1>1. Foremost(S) \in S /\ Foremost(S) <= m
  BY ForemostOf
<1>2. Foremost(S) \in Nat /\ m \in Nat /\ m <= Foremost(S)
  BY <1>1
<1> QED
  BY <1>1, <1>2

\* A number without its leading zeros.
Bare(c) == c \in Number /\ c # <<>> /\ (c = <<0>> \/ c[1] # 0)

LEMMA BareIsCanonical ==
    ASSUME NEW c, Bare(c)
    PROVE  CanonicalId(c) = c
<1> DEFINE significant == {i \in DOMAIN c : c[i] # 0}
<1>1. c \in Seq(0..9) /\ Len(c) >= 1 /\ Len(c) \in Nat /\ DOMAIN c = 1..Len(c) /\ c # <<>>
  BY DEF Bare, Number
<1>2. CASE c = <<0>>
  <2>1. significant = {}
    BY <1>2
  <2> QED
    BY <1>1, <1>2, <2>1 DEF CanonicalId
<1>3. CASE c[1] # 0
  <2>1. 1 \in significant /\ significant \subseteq Nat /\ \A i \in significant : 1 <= i
    BY <1>1, <1>3
  <2>2. Foremost(significant) = 1
    <3> HIDE DEF significant
    <3> QED
      BY <2>1, ForemostIs
  <2>3. CanonicalId(c) = SubSeq(c, 1, Len(c))
    BY <1>1, <2>1, <2>2 DEF CanonicalId
  <2> QED
    BY <1>1, <2>3
<1> QED
  BY <1>2, <1>3 DEF Bare

LEMMA CanonicalIsBare ==
    ASSUME NEW x \in Number, x # <<>>
    PROVE  Bare(CanonicalId(x))
<1> DEFINE significant == {i \in DOMAIN x : x[i] # 0}
           first == Foremost(significant)
           c == SubSeq(x, first, Len(x))
<1>1. x \in Seq(0..9) /\ Len(x) \in Nat /\ DOMAIN x = 1..Len(x)
  BY DEF Number
<1>2. CASE significant = {}
  <2>1. CanonicalId(x) = <<0>>
    BY <1>2 DEF CanonicalId
  <2>2. <<0>> \in Seq(0..9) /\ <<0>> # <<>>
    OBVIOUS
  <2> QED
    BY <2>1, <2>2 DEF Bare, Number
<1>3. CASE significant # {}
  <2>1. CanonicalId(x) = c
    BY <1>3 DEF CanonicalId
  <2>2. first \in significant
    <3>1. significant \subseteq Nat
      BY <1>1
    <3> HIDE DEF significant
    <3> QED
      BY <1>3, <3>1, ForemostOf
  <2>3. first \in 1..Len(x) /\ x[first] # 0
    BY <1>1, <2>2
  <2> HIDE DEF first
  <2>4. c \in Seq(0..9) /\ Len(c) = Len(x) - first + 1 /\ c[1] = x[first]
    BY <1>1, <2>3
  <2>5. c # <<>>
    <3>1. Len(c) # 0
      BY <1>1, <2>3, <2>4
    <3> HIDE DEF c
    <3> QED
      BY <3>1
  <2> QED
    BY <2>1, <2>3, <2>4, <2>5 DEF Bare, Number
<1> QED
  BY <1>2, <1>3

\* Zeros in front change nothing.
LEMMA PaddingIsUndone ==
    ASSUME NEW c, Bare(c), NEW w \in Nat
    PROVE  Padded(c, w) \in Number \ {<<>>} /\ CanonicalId(Padded(c, w)) = c
<1> DEFINE zeros == [i \in 1..(w - Len(c)) |-> 0]
           x == Padded(c, w)
           significant == {i \in DOMAIN x : x[i] # 0}
<1>1. c \in Seq(0..9) /\ Len(c) \in Nat /\ Len(c) >= 1
  BY DEF Bare, Number
<1>2. CASE w <= Len(c)
  <2>1. zeros = <<>>
    BY <1>1, <1>2
  <2>2. x = c
    <3>1. x = <<>> \o c
      BY <2>1 DEF Padded
    <3> QED
      BY <1>1, <3>1, ConcatEmptySeq
  <2> QED
    BY <2>2, BareIsCanonical DEF Bare
<1>3. CASE w > Len(c)
  <2> DEFINE n == w - Len(c)
  <2>1. n \in Nat /\ n >= 1
    BY <1>1, <1>3
  <2>2. zeros \in Seq(0..9) /\ Len(zeros) = n /\ \A i \in 1..n : zeros[i] = 0
    BY <2>1
  <2>3. x = zeros \o c
    BY DEF Padded
  <2> HIDE DEF n, zeros, x
  <2>4. /\ x \in Seq(0..9) /\ Len(x) = n + Len(c) /\ DOMAIN x = 1..(n + Len(c))
        /\ \A i \in 1..n : x[i] = 0
        /\ \A i \in 1..Len(c) : x[n + i] = c[i]
    <3>1. /\ x \in Seq(0..9) /\ Len(x) = n + Len(c)
          /\ \A i \in 1..(n + Len(c)) : x[i] = IF i <= n THEN zeros[i] ELSE c[i - n]
      <4>1. /\ zeros \o c \in Seq(0..9) /\ Len(zeros \o c) = Len(zeros) + Len(c)
            /\ \A i \in 1..(Len(zeros) + Len(c)) : (zeros \o c)[i] = IF i <= Len(zeros) THEN zeros[i] ELSE c[i - Len(zeros)]
        BY <1>1, <2>2, ConcatProperties, Zenon
      <4> QED
        BY <2>2, <2>3, <4>1, Zenon
    <3>2. ASSUME NEW i \in 1..n PROVE x[i] = 0
      BY <1>1, <2>1, <2>2, <3>1
    <3>3. ASSUME NEW i \in 1..Len(c) PROVE x[n + i] = c[i]
      <4>1. n + i \in 1..(n + Len(c)) /\ ~(n + i <= n) /\ (n + i) - n = i
        BY <1>1, <2>1
      <4> QED
        BY <3>1, <4>1
    <3> QED
      BY <3>1, <3>2, <3>3
  <2>5. x # <<>> /\ x \in Number
    BY <1>1, <2>1, <2>4 DEF Number
  <2>6. CASE c = <<0>>
    <3>1. significant = {}
      BY <2>1, <2>4, <2>6
    <3> QED
      BY <2>5, <2>6, <3>1 DEF CanonicalId, x
  <2>7. CASE c[1] # 0
    <3>1. n + 1 \in significant /\ significant \subseteq Nat /\ \A i \in significant : n + 1 <= i
      BY <1>1, <2>1, <2>4, <2>7
    <3>2. Foremost(significant) = n + 1
      <4> HIDE DEF significant
      <4> QED
        BY <3>1, ForemostIs
    <3>3. CanonicalId(x) = SubSeq(x, n + 1, Len(x))
      BY <2>5, <3>1, <3>2 DEF CanonicalId
    <3>4. SubSeq(x, n + 1, Len(x)) = c
      BY <1>1, <2>1, <2>4
    <3> QED
      BY <2>5, <3>3, <3>4 DEF x
  <2> QED
    BY <2>6, <2>7 DEF Bare
<1> QED
  BY <1>1, <1>2, <1>3

\* A number on file is one asked for exactly if it is so without its zeros.
LEMMA VariantsAre ==
    ASSUME NEW id \in Number, id # <<>>, NEW x, IsWritten(x, {NumWidth, VtesWidth})
    PROVE  x \in Variants(id) <=> CanonicalId(x) = CanonicalId(id)
<1> DEFINE c == CanonicalId(id)
<1>1. Bare(c)
  BY CanonicalIsBare
<1>2. c # <<>> /\ CanonicalId(c) = c
  BY <1>1, BareIsCanonical DEF Bare
<1>3. /\ CanonicalId(Padded(c, NumWidth)) = c
      /\ CanonicalId(Padded(c, VtesWidth)) = c
  BY <1>1, PaddingIsUndone, GisAssumption
<1>4. x \in Variants(id) => CanonicalId(x) = c
  BY <1>2, <1>3 DEF Variants
<1>5. ASSUME CanonicalId(x) = c PROVE x \in Variants(id)
  <2>1. x # <<>>
    BY <1>2, <1>5 DEF CanonicalId
  <2>2. x \in {c} \cup {Padded(c, NumWidth), Padded(c, VtesWidth)}
    BY <1>5, <2>1 DEF IsWritten
  <2> QED
    BY <2>2 DEF Variants
<1> QED
  BY <1>4, <1>5

\* Only a number that is missing has no canonical form.
LEMMA MissingNumber ==
    ASSUME NEW x \in Number
    PROVE  CanonicalId(x) = <<>> <=> x = <<>>
<1>1. x # <<>> => CanonicalId(x) # <<>>
  BY CanonicalIsBare DEF Bare
<1> QED
  BY <1>1 DEF CanonicalId

\* What is found under an id is a record of that building, and it is not found
\* only if there is none.
LEMMA BuildingFound ==
    ASSUME NEW layer, LayerOK(layer), NEW id \in Number, id # <<>>
    PROVE  /\ BuildingById(layer, id) = {} <=> ~\E i \in DOMAIN layer : IsOf(layer[i], id)
           /\ BuildingById(layer, id) # {} =>
                  \E i \in DOMAIN layer :
                      /\ IsOf(layer[i], id) /\ RecordOK(layer[i])
                      /\ BuildingById(layer, id) = {[id |-> CanonicalId(id), num |-> layer[i].num,
                                                     vtes |-> layer[i].vtes, at |-> layer[i].at]}
<1> DEFINE c == CanonicalId(id)
           found == {i \in DOMAIN layer : {layer[i].num, layer[i].vtes} \cap Variants(id) # {}}
           records == [i \in found |-> layer[i]]
           rows == Buildings(records)
           hits == {i \in DOMAIN rows : CanonicalId(id) \in {CanonicalId(rows[i].num), CanonicalId(rows[i].vtes), rows[i].id}}
           named(i) == [id |-> c, num |-> layer[i].num, vtes |-> layer[i].vtes, at |-> layer[i].at]
<1>1. c # <<>>
  BY CanonicalIsBare DEF Bare
<1>2. ASSUME NEW i \in DOMAIN layer
      PROVE  /\ RecordOK(layer[i])
             /\ i \in found <=> IsOf(layer[i], id)
             /\ i \in found => NumberOf(layer[i]) = c
  <2>1. RecordOK(layer[i])
    BY DEF LayerOK
  <2> DEFINE num == layer[i].num
             vtes == layer[i].vtes
  <2>2. /\ IsWritten(num, {NumWidth, VtesWidth}) /\ IsWritten(vtes, {NumWidth, VtesWidth})
        /\ num # <<>> /\ vtes # <<>> => CanonicalId(num) = CanonicalId(vtes)
    BY <2>1 DEF RecordOK
  <2>3. num \in Number /\ vtes \in Number
    BY <2>2 DEF IsWritten
  <2>4. i \in found <=> num \in Variants(id) \/ vtes \in Variants(id)
    OBVIOUS
  <2>5. IsOf(layer[i], id) <=> CanonicalId(num) = c \/ CanonicalId(vtes) = c
    BY DEF IsOf
  <2> HIDE DEF num, vtes, c, found
  <2>6. i \in found <=> IsOf(layer[i], id)
    BY <2>2, <2>4, <2>5, VariantsAre DEF c
  <2>7. ASSUME i \in found PROVE NumberOf(layer[i]) = c
    <3>1. CanonicalId(num) = c \/ CanonicalId(vtes) = c
      BY <2>5, <2>6, <2>7
    <3>2. CanonicalId(num) # <<>> <=> num # <<>>
      BY <2>3, MissingNumber
    <3>3. CanonicalId(vtes) # <<>> <=> vtes # <<>>
      BY <2>3, MissingNumber
    <3>4. NumberOf(layer[i]) = IF CanonicalId(num) # <<>> THEN CanonicalId(num)
                               ELSE IF CanonicalId(vtes) # <<>> THEN CanonicalId(vtes)
                               ELSE IF layer[i].oid # {} THEN <<Prefix>> \o The(layer[i].oid) ELSE <<>>
      BY DEF NumberOf, num, vtes
    <3> QED
      BY <1>1, <2>2, <3>1, <3>2, <3>3, <3>4
  <2> QED
    BY <2>1, <2>6, <2>7
<1>3. found \subseteq DOMAIN layer /\ found \subseteq Nat
  BY DEF LayerOK
<1>4. rows = [i \in found |-> named(i)]
  <2>1. DOMAIN records = found /\ \A i \in found : records[i] = layer[i]
    OBVIOUS
  <2>2. {j \in DOMAIN records : NumberOf(records[j]) # <<>>} = found
    <3> HIDE DEF records, found, c
    <3> QED
      BY <1>1, <1>2, <1>3, <2>1
  <2>3. rows = [i \in found |-> [id |-> NumberOf(records[i]), num |-> records[i].num,
                                 vtes |-> records[i].vtes, at |-> records[i].at]]
    <3> HIDE DEF records, found
    <3> QED
      BY <2>2 DEF Buildings
  <2>4. \A i \in found : NumberOf(records[i]) = c
    <3> HIDE DEF records, found, c
    <3> QED
      BY <1>2, <1>3, <2>1
  <2> HIDE DEF records, found, rows, c
  <2> QED
    BY <2>1, <2>3, <2>4
<1>5. BuildingById(layer, id) = IF hits # {} THEN {rows[Foremost(hits)]}
                                ELSE IF DOMAIN rows # {} THEN {rows[Foremost(DOMAIN rows)]} ELSE {}
  BY DEF BuildingById
<1>6. DOMAIN rows = found /\ hits \subseteq found
  <2>1. DOMAIN rows = found
    <3> HIDE DEF rows, found
    <3> QED
      BY <1>4
  <2> HIDE DEF rows, found
  <2> QED
    BY <2>1
<1>7. CASE found = {}
  <2>1. BuildingById(layer, id) = {}
    <3> HIDE DEF rows, found, hits
    <3> QED
      BY <1>5, <1>6, <1>7
  <2> QED
    BY <1>2, <1>7, <2>1
<1>8. CASE found # {}
  <2>1. PICK i \in found : BuildingById(layer, id) = {rows[i]}
    <3>1. CASE hits # {}
      <4>1. Foremost(hits) \in hits
        <5> HIDE DEF hits, found
        <5> QED
          BY <1>3, <1>6, <3>1, ForemostOf
      <4> HIDE DEF hits, found, rows
      <4> QED
        BY <1>5, <1>6, <3>1, <4>1
    <3>2. CASE hits = {}
      <4>1. Foremost(found) \in found
        <5> HIDE DEF found
        <5> QED
          BY <1>3, <1>8, ForemostOf
      <4> HIDE DEF hits, found, rows
      <4> QED
        BY <1>5, <1>6, <1>8, <3>2, <4>1
    <3> QED
      BY <3>1, <3>2
  <2>2. rows[i] = named(i)
    <3> HIDE DEF rows, named, found
    <3> QED
      BY <1>4, <2>1
  <2>3. i \in DOMAIN layer /\ IsOf(layer[i], id) /\ RecordOK(layer[i])
    BY <1>2, <2>1
  <2> HIDE DEF rows, found
  <2> QED
    BY <2>1, <2>2, <2>3
<1> QED
  BY <1>7, <1>8

\* The entrances of a building are those whose number is its own.
LEMMA EntrancesFound ==
    ASSUME NEW layer, \A e \in layer : EntranceOK(e),
           NEW id \in Number, id # <<>>,
           NEW f, RecordOK(f), IsOf(f, id)
    PROVE  EntrancesOf(layer, [id |-> CanonicalId(id), num |-> f.num, vtes |-> f.vtes, at |-> f.at])
               = {e \in layer : EntranceOf(e, id)}
<1> DEFINE c == CanonicalId(id)
           b == [id |-> c, num |-> f.num, vtes |-> f.vtes, at |-> f.at]
           written == {b.num, b.vtes, b.id} \ {<<>>}
           asked == written \cup {Padded(CanonicalId(w), EntranceWidth) : w \in {x \in written : x[1] # Prefix}}
<1>1. Bare(c) /\ c # <<>> /\ CanonicalId(c) = c
  BY CanonicalIsBare, BareIsCanonical DEF Bare
<1>2. f.num \in Number /\ f.vtes \in Number /\ (f.num # <<>> /\ f.vtes # <<>> => CanonicalId(f.num) = CanonicalId(f.vtes))
  BY DEF RecordOK, IsWritten
<1>3. c = CanonicalId(f.num) \/ c = CanonicalId(f.vtes)
  BY DEF IsOf
<1>4. /\ f.num # <<>> => CanonicalId(f.num) = c
      /\ f.vtes # <<>> => CanonicalId(f.vtes) = c
  <2> HIDE DEF c
  <2> QED
    BY <1>1, <1>2, <1>3, MissingNumber
<1>5. b.id = c /\ b.num = f.num /\ b.vtes = f.vtes
  OBVIOUS
<1> HIDE DEF b
<1>6. c \in written /\ \A w \in written : CanonicalId(w) = c /\ w \in Number
  <2> HIDE DEF c
  <2> QED
    BY <1>1, <1>2, <1>4, <1>5 DEF Bare
<1>7. c[1] # Prefix
  <2> HIDE DEF c
  <2>1. c \in Seq(0..9) /\ Len(c) >= 1
    BY <1>1 DEF Bare, Number
  <2>2. c[1] \in 0..9
    BY <2>1
  <2> QED
    BY <2>2 DEF Prefix
<1> DEFINE padded == Padded(c, EntranceWidth)
<1>8. padded \in asked /\ c \in asked /\ \A w \in asked : w \in written \/ w = padded
  <2> HIDE DEF c, written
  <2> QED
    BY <1>1, <1>6, <1>7
<1>9. padded # <<>> /\ CanonicalId(padded) = c
  <2> HIDE DEF c
  <2> QED
    BY <1>1, PaddingIsUndone, GisAssumption
<1> HIDE DEF asked, written, padded, c
<1>10. {CanonicalId(w) : w \in asked} = {c}
  BY <1>6, <1>8, <1>9
<1>11. ASSUME NEW e \in layer, CanonicalId(e.bldg) = c PROVE e.bldg \in asked \ {<<>>}
  <2>1. IsWritten(e.bldg, {EntranceWidth})
    BY DEF EntranceOK
  <2>2. e.bldg # <<>>
    BY <1>1, <1>11 DEF CanonicalId
  <2>3. e.bldg \in {c, padded}
    BY <1>11, <2>1, <2>2 DEF IsWritten, padded
  <2> QED
    BY <1>8, <2>2, <2>3
<1>12. EntrancesOf(layer, b) = {e \in layer : e.at # {} /\ e.bldg \in asked \ {<<>>}
                                               /\ CanonicalId(e.bldg) \in {CanonicalId(w) : w \in asked}}
  BY DEF EntrancesOf, asked, written
<1>13. \A e \in layer : EntranceOf(e, id) <=> CanonicalId(e.bldg) = c /\ e.at # {}
  BY DEF EntranceOf, c
<1>14. EntrancesOf(layer, b) = {e \in layer : EntranceOf(e, id)}
  BY <1>10, <1>11, <1>12, <1>13
<1> QED
  BY <1>14 DEF b, c

LEMMA BuildingReply ==
    ASSUME GisInv, Told("building")
    PROVE  /\ answer.status = "unknown" <=> "building" \notin ask.out /\ ~\E i \in DOMAIN ask.buildings : IsOf(ask.buildings[i], ask.id)
           /\ answer.status = "ok" => /\ "entrances" \notin ask.out
                                      /\ answer.entrances = {e \in ask.entrances : EntranceOf(e, ask.id)}
<1> DEFINE b == BuildingById(ask.buildings, ask.id)
           entrances == EntrancesOf(ask.entrances, The(b))
<1>1. answer = BuildingDetail(ask)
  BY DEF GisInv
<1>2. /\ LayerOK(ask.buildings) /\ ask.id \in Number /\ ask.id # <<>>
      /\ \A e \in ask.entrances : EntranceOK(e)
  BY DEF GisInv, GisAsked, Told
<1>3. answer = IF "building" \in ask.out THEN [status |-> "unavailable"]
               ELSE IF b = {} THEN [status |-> "unknown"]
               ELSE IF "entrances" \in ask.out THEN [status |-> "unavailable"]
               ELSE [status |-> "ok", building |-> b, entrances |-> entrances,
                     accessible |-> Cardinality({e \in entrances : Accessible(e)})]
  BY <1>1 DEF BuildingDetail
<1>4. b = {} <=> ~\E i \in DOMAIN ask.buildings : IsOf(ask.buildings[i], ask.id)
  BY <1>2, BuildingFound
<1>5. b # {} => entrances = {e \in ask.entrances : EntranceOf(e, ask.id)}
  <2> HAVE b # {}
  <2>1. PICK i \in DOMAIN ask.buildings :
            /\ IsOf(ask.buildings[i], ask.id) /\ RecordOK(ask.buildings[i])
            /\ b = {[id |-> CanonicalId(ask.id), num |-> ask.buildings[i].num,
                     vtes |-> ask.buildings[i].vtes, at |-> ask.buildings[i].at]}
    BY <1>2, BuildingFound
  <2> DEFINE f == ask.buildings[i]
             building == [id |-> CanonicalId(ask.id), num |-> f.num, vtes |-> f.vtes, at |-> f.at]
  <2>2. The(b) = building
    <3>1. b = {building}
      BY <2>1
    <3> HIDE DEF b, building
    <3> QED
      BY <3>1 DEF The
  <2>3. EntrancesOf(ask.entrances, building) = {e \in ask.entrances : EntranceOf(e, ask.id)}
    <3> HIDE DEF b
    <3>1. RecordOK(f) /\ IsOf(f, ask.id)
      BY <2>1
    <3> HIDE DEF f
    <3> QED
      BY <1>2, <3>1, EntrancesFound
  <2> HIDE DEF b, building
  <2> QED
    BY <2>2, <2>3
<1> HIDE DEF b, entrances
<1> QED
  BY <1>3, <1>4, <1>5

\* A route starts at an entrance that will do if one could be read.
Usable(reading, ada) == {e \in UNION reading : ada => Accessible(e)}

LEMMA EndpointIs ==
    ASSUME NEW b, b.at # {}, b.at \subseteq Int,
           NEW reading, \A e \in UNION reading : e.at # {} /\ e.at \subseteq Int,
           NEW ada \in BOOLEAN
    PROVE  /\ EndpointOf(b, reading, ada).building = b.id
           /\ Usable(reading, ada) = {} =>
                EndpointOf(b, reading, ada).entrance = {} /\ EndpointOf(b, reading, ada).at \in b.at
           /\ Usable(reading, ada) # {} => \E d \in Usable(reading, ada) :
                NearestDoor(EndpointOf(b, reading, ada), d, Usable(reading, ada), The(b.at))
<1> DEFINE pool == {e \in UNION reading : ada => Accessible(e)}
           far(e) == Away(The(e.at), The(b.at))
           nearest == CHOOSE e \in pool : \A d \in pool : far(e) <= far(d)
           end == EndpointOf(b, reading, ada)
<1>1. end = IF pool = {} THEN [at |-> The(b.at), building |-> b.id, entrance |-> {}]
            ELSE [at |-> The(nearest.at), building |-> b.id, entrance |-> {nearest}]
  BY DEF EndpointOf
<1>2. The(b.at) \in b.at /\ The(b.at) \in Int
  BY DEF The
<1>3. ASSUME NEW e \in pool PROVE The(e.at) \in e.at /\ far(e) \in Nat
  <2>1. e \in UNION reading
    BY <1>3
  <2>2. e.at # {} /\ e.at \subseteq Int
    BY <2>1
  <2>3. The(e.at) \in e.at /\ The(e.at) \in Int
    BY <2>2 DEF The
  <2> QED
    BY <1>2, <2>3 DEF Away
<1> DEFINE distance == [e \in pool |-> far(e)]
<1>4. ASSUME pool # {} PROVE nearest \in pool /\ \A o \in pool : far(nearest) <= far(o)
  <2>1. \A e \in pool : distance[e] = far(e) /\ distance[e] \in Nat
    <3> HIDE DEF pool, far
    <3> QED
      BY <1>3
  <2>2. \E e \in pool : \A d \in pool : distance[e] <= distance[d]
    <3> HIDE DEF distance, pool
    <3> QED
      BY <1>4, <2>1, FewestPast
  <2> HIDE DEF distance, pool, far
  <2> QED
    BY <2>1, <2>2
<1> SUFFICES /\ end.building = b.id
             /\ pool = {} => end.entrance = {} /\ end.at \in b.at
             /\ pool # {} => \E d \in pool : NearestDoor(end, d, pool, The(b.at))
  BY DEF Usable
<1> HIDE DEF pool, nearest, far, end
<1>5. CASE pool = {}
  BY <1>1, <1>2, <1>5
<1>6. CASE pool # {}
  <2>1. nearest \in pool /\ The(nearest.at) \in nearest.at
    BY <1>3, <1>4, <1>6
  <2>2. end.building = b.id /\ end.entrance = {nearest} /\ end.at = The(nearest.at)
    BY <1>1, <1>6
  <2>3. \A o \in pool : Away(end.at, The(b.at)) <= Away(The(o.at), The(b.at))
    BY <1>4, <1>6, <2>2 DEF far
  <2>4. \E d \in pool : NearestDoor(end, d, pool, The(b.at))
    BY <2>1, <2>2, <2>3 DEF NearestDoor
  <2> QED
    BY <1>6, <2>2, <2>4
<1> QED
  BY <1>5, <1>6

\* The doors of an end of the route that serve a mode, and how it ends at them.
DoorsFor(e, mode) == {d \in ask.entrances : EntranceOf(d, ask[e]) /\ (mode = "ada_walking" => Accessible(d))}
EndsWell(e, end, doors) ==
    /\ end.building = CanonicalId(ask[e])
    /\ (e \o " entrances") \notin ask.out /\ doors # {} =>
         \E d \in doors, i \in DOMAIN ask.buildings :
             IsOf(ask.buildings[i], ask[e]) /\ NearestDoor(end, d, doors, The(ask.buildings[i].at))
    /\ (e \o " entrances") \in ask.out \/ doors = {} =>
         /\ end.entrance = {}
         /\ \E i \in DOMAIN ask.buildings : IsOf(ask.buildings[i], ask[e]) /\ end.at \in ask.buildings[i].at

\* What is known of either end of a route that the service was asked for.
LEMMA RouteReply ==
    ASSUME GisInv, Told("route"), answer.status \in {"ok", "no_route"}
    PROVE  /\ {"from", "to"} \cap ask.out = {}
           /\ answer.status = "no_route" => /\ "solve" \notin ask.out
                                            /\ ask.solve.error = "no path" \/ (ask.solve.error = "none" /\ ~ask.solve.found)
           /\ answer.status = "ok" =>
                /\ answer.mode = "ada_walking" <=> ask.mode \in {"ada", "ada_walking", "accessible"}
                /\ \A e \in {"from", "to"} : EndsWell(e, answer[e], DoorsFor(e, answer.mode))
<1> DEFINE ends == [e \in {"from", "to"} |-> UNION Read(ask, e, BuildingById(ask.buildings, ask[e]))]
           mode == RouteModes[ask.mode]
           reading(e) == Read(ask, e \o " entrances", EntrancesOf(ask.entrances, The(ends[e])))
           endpoint(e) == EndpointOf(The(ends[e]), reading(e), mode = "ada_walking")
<1>1. /\ ask.mode \in DOMAIN RouteModes
      /\ ~\E e \in DOMAIN ends : ends[e] = {}
      /\ ~\E e \in DOMAIN ends : The(ends[e]).at = {}
      /\ answer = Solved(ask, mode, endpoint("from"), endpoint("to"))
  <2>1. answer = IF ask.mode \in DOMAIN RouteModes THEN RouteBetween(ask) ELSE [status |-> "refused"]
    BY DEF GisInv
  <2>2. RouteBetween(ask) = IF \E e \in DOMAIN ends : ends[e] = {} THEN [status |-> "unavailable"]
                            ELSE IF \E e \in DOMAIN ends : The(ends[e]).at = {} THEN [status |-> "failed"]
                            ELSE Solved(ask, mode, endpoint("from"), endpoint("to"))
    BY DEF RouteBetween
  <2> HIDE DEF ends, mode, endpoint
  <2> QED
    BY <2>1, <2>2
<1>2. /\ LayerOK(ask.buildings) /\ \A e \in ask.entrances : EntranceOK(e)
      /\ \A e \in {"from", "to"} : ask[e] \in Number /\ ask[e] # <<>>
      /\ ask.solve.error \in {"none", "no path", "other"}
  BY DEF GisInv, GisAsked, Told
<1>3. ASSUME NEW e \in {"from", "to"}
      PROVE  /\ e \notin ask.out
             /\ \E i \in DOMAIN ask.buildings :
                    /\ IsOf(ask.buildings[i], ask[e]) /\ RecordOK(ask.buildings[i]) /\ ask.buildings[i].at # {}
                    /\ The(ends[e]) = [id |-> CanonicalId(ask[e]), num |-> ask.buildings[i].num,
                                       vtes |-> ask.buildings[i].vtes, at |-> ask.buildings[i].at]
  <2>1. ends[e] # {} /\ The(ends[e]).at # {} /\ ends[e] = UNION Read(ask, e, BuildingById(ask.buildings, ask[e]))
    BY <1>1
  <2> HIDE DEF ends
  <2>2. e \notin ask.out /\ ends[e] = BuildingById(ask.buildings, ask[e])
    BY <2>1 DEF Read
  <2>3. PICK i \in DOMAIN ask.buildings :
            /\ IsOf(ask.buildings[i], ask[e]) /\ RecordOK(ask.buildings[i])
            /\ ends[e] = {[id |-> CanonicalId(ask[e]), num |-> ask.buildings[i].num,
                           vtes |-> ask.buildings[i].vtes, at |-> ask.buildings[i].at]}
    BY <1>2, <2>1, <2>2, BuildingFound
  <2> DEFINE named == [id |-> CanonicalId(ask[e]), num |-> ask.buildings[i].num,
                       vtes |-> ask.buildings[i].vtes, at |-> ask.buildings[i].at]
  <2>4. The(ends[e]) = named /\ named.at = ask.buildings[i].at
    BY <2>3 DEF The
  <2> HIDE DEF named
  <2>5. ask.buildings[i].at # {}
    BY <2>1, <2>4
  <2> QED
    BY <2>2, <2>3, <2>4, <2>5 DEF named
<1>4. ASSUME NEW e \in {"from", "to"}
      PROVE  EndsWell(e, endpoint(e), DoorsFor(e, mode))
  <2> DEFINE b == The(ends[e])
             doors == DoorsFor(e, mode)
             pool == {d \in UNION reading(e) : (mode = "ada_walking") => Accessible(d)}
             end == endpoint(e)
  <2>1. PICK i \in DOMAIN ask.buildings :
            /\ IsOf(ask.buildings[i], ask[e]) /\ RecordOK(ask.buildings[i]) /\ ask.buildings[i].at # {}
            /\ b = [id |-> CanonicalId(ask[e]), num |-> ask.buildings[i].num,
                    vtes |-> ask.buildings[i].vtes, at |-> ask.buildings[i].at]
    BY <1>3
  <2> HIDE DEF ends, b, mode
  <2>2. b.id = CanonicalId(ask[e]) /\ b.at = ask.buildings[i].at /\ b.at # {} /\ b.at \subseteq Int
    BY <2>1 DEF RecordOK
  <2>3. EntrancesOf(ask.entrances, b) = {d \in ask.entrances : EntranceOf(d, ask[e])}
    <3>1. ask[e] \in Number /\ ask[e] # <<>> /\ \A d \in ask.entrances : EntranceOK(d)
      BY <1>2
    <3> QED
      BY <2>1, <3>1, EntrancesFound
  <2>4. reading(e) = IF (e \o " entrances") \in ask.out THEN {} ELSE {{d \in ask.entrances : EntranceOf(d, ask[e])}}
    BY <2>3 DEF Read, b
  <2> HIDE DEF reading
  <2>5. UNION reading(e) = IF (e \o " entrances") \in ask.out THEN {} ELSE {d \in ask.entrances : EntranceOf(d, ask[e])}
    BY <2>4
  <2>6. \A d \in UNION reading(e) : d.at # {} /\ d.at \subseteq Int
    BY <1>2, <2>5 DEF EntranceOf, EntranceOK
  <2>7. /\ end.building = b.id
        /\ pool = {} => end.entrance = {} /\ end.at \in b.at
        /\ pool # {} => \E d \in pool : NearestDoor(end, d, pool, The(b.at))
    <3> DEFINE ada == mode = "ada_walking"
               read == reading(e)
    <3>1. pool = Usable(read, ada) /\ end = EndpointOf(b, read, ada)
      BY DEF b, Usable
    <3>2. \A d \in UNION read : d.at # {} /\ d.at \subseteq Int
      BY <2>6
    <3>3. ada \in BOOLEAN
      OBVIOUS
    <3> HIDE DEF ada, read, pool, end
    <3> QED
      BY <2>2, <3>1, <3>2, <3>3, EndpointIs
  <2>8. pool = IF (e \o " entrances") \in ask.out THEN {} ELSE doors
    BY <2>5 DEF DoorsFor
  <2> HIDE DEF pool, end, doors
  <2>9. /\ end.building = CanonicalId(ask[e])
        /\ (e \o " entrances") \notin ask.out /\ doors # {} =>
             \E d \in doors : IsOf(ask.buildings[i], ask[e]) /\ NearestDoor(end, d, doors, The(ask.buildings[i].at))
    BY <2>1, <2>2, <2>7, <2>8
  <2>10. (e \o " entrances") \in ask.out \/ doors = {} =>
            end.entrance = {} /\ IsOf(ask.buildings[i], ask[e]) /\ end.at \in ask.buildings[i].at
    BY <2>1, <2>2, <2>7, <2>8
  <2> QED
    BY <2>9, <2>10 DEF doors, end, EndsWell
<1>5. mode = "ada_walking" <=> ask.mode \in {"ada", "ada_walking", "accessible"}
  <2>1. ask.mode \in {"walking", "walk", "fastest", "least_walking", "ada", "ada_walking", "accessible"}
    BY <1>1 DEF RouteModes
  <2>2. /\ RouteModes["walking"] = "walking" /\ RouteModes["walk"] = "walking"
        /\ RouteModes["fastest"] = "walking" /\ RouteModes["least_walking"] = "walking"
        /\ RouteModes["ada"] = "ada_walking" /\ RouteModes["ada_walking"] = "ada_walking"
        /\ RouteModes["accessible"] = "ada_walking"
    BY DEF RouteModes
  <2> QED
    BY <2>1, <2>2
<1>6. /\ answer.status = "no_route" => /\ "solve" \notin ask.out
                                       /\ ask.solve.error = "no path" \/ (ask.solve.error = "none" /\ ~ask.solve.found)
      /\ answer.status = "ok" => answer.mode = mode /\ answer["from"] = endpoint("from") /\ answer["to"] = endpoint("to")
  <2> DEFINE from == endpoint("from")
             to   == endpoint("to")
  <2> HIDE DEF mode, endpoint, from, to
  <2>1. answer = Solved(ask, mode, from, to)
    BY <1>1 DEF from, to
  <2> DEFINE p == ask.solve
  <2>2. answer = IF "solve" \in ask.out \/ p.error = "other" THEN [status |-> "unavailable"]
                 ELSE IF p.error = "no path" \/ ~p.found THEN [status |-> "no_route"]
                 ELSE IF ~p.known THEN [status |-> "unavailable"]
                 ELSE [status |-> "ok", mode |-> mode, from |-> from, to |-> to,
                       distance |-> IF p.length # {} THEN p.length ELSE p.path,
                       path |-> IF ask.permit THEN p.path ELSE {}]
    BY <2>1 DEF Solved
  <2>3. answer.status = "no_route" => "solve" \notin ask.out /\ p.error # "other" /\ (p.error = "no path" \/ ~p.found)
    BY <2>2
  <2>4. answer.status = "ok" => answer.mode = mode /\ answer.from = from /\ answer.to = to
    BY <2>2
  <2> QED
    BY <1>2, <2>3, <2>4 DEF from, to
<1>7. {"from", "to"} \cap ask.out = {}
  BY <1>3
<1>8. ASSUME answer.status = "ok", NEW e \in {"from", "to"} PROVE answer[e] = endpoint(e) /\ answer.mode = mode
  <2> HIDE DEF mode, endpoint
  <2>1. answer.mode = mode /\ answer["from"] = endpoint("from") /\ answer["to"] = endpoint("to")
    BY <1>6, <1>8
  <2>2. e = "from" \/ e = "to"
    BY <1>8
  <2>3. CASE e = "from"
    BY <2>1, <2>3
  <2>4. CASE e = "to"
    BY <2>1, <2>4
  <2> QED
    BY <2>2, <2>3, <2>4
<1> HIDE DEF ends, mode, endpoint
<1> QED
  BY <1>4, <1>5, <1>6, <1>7, <1>8

LEMMA SearchReply == GisInv => EachBuildingOnce
<1> SUFFICES ASSUME GisInv, Told("buildings"), ask.layer # {},
                    NEW i \in answer.rows, NEW j \in answer.rows
    PROVE  LET rows == Buildings(The(ask.layer))
           IN  rows[i].at # {} /\ (rows[i].id = rows[j].id => i = j)
  BY DEF EachBuildingOnce
<1> DEFINE layer == The(ask.layer)
           rows  == Buildings(layer)
<1>1. answer = SearchBuildings(rows) /\ LayerOK(layer)
  BY DEF GisInv, GisAsked, Told
<1>2. DOMAIN rows \subseteq Nat
  BY <1>1 DEF Buildings, LayerOK
<1> HIDE DEF rows
<1>3. \A x \in answer.rows : /\ x \in DOMAIN rows /\ rows[x].at # {}
                            /\ \A k \in DOMAIN rows : k < x => rows[k].id # rows[x].id
  BY <1>1 DEF SearchBuildings
<1>4. i \in Nat /\ j \in Nat
  BY <1>2, <1>3
<1>5. rows[i].at # {} /\ (rows[i].id = rows[j].id => ~(i < j) /\ ~(j < i))
  BY <1>3
<1> QED
  BY <1>4, <1>5 DEF rows

LEMMA ClosuresReply ==
    ASSUME GisInv, Told("closures")
    PROVE  (answer.now = {} => ask.out # {}) /\ ClosuresAreShown
<1> DEFINE read == UNION {ask.layers[l] : l \in DOMAIN ask.layers \ ask.out}
           day == ask.at - (ask.at % GisDay)
           now(rows) == {c \in rows : IsEffectiveAt(c, ask.at)}
           today(rows) == {c \in rows : (\A s \in c.start : s < day + GisDay) /\ (\A e \in c.end : day <= e)}
<1>1. answer = [now   |-> {now(rows) : rows \in Closures(ask)},
                today |-> {today(rows) : rows \in Closures(ask)},
                onMap |-> {c \in UNION {now(rows) : rows \in Closures(ask)} : c.drawn}]
  BY DEF GisInv, ClosuresTold
<1>2. Closures(ask) = IF read = {} /\ ask.out # {} THEN {} ELSE {read}
  BY DEF Closures
<1>3. /\ ask.at \in Int
      /\ \A c \in read : c.start \subseteq Int /\ c.end \subseteq Int
  BY DEF GisInv, GisAsked, Told
<1>4. day \in Int /\ day <= ask.at /\ ask.at < day + GisDay
  <2>1. GisDay \in Nat \ {0}
    BY GisAssumption
  <2>2. ask.at % GisDay \in 0..(GisDay - 1)
    BY <1>3, <2>1
  <2> QED
    BY <1>3, <2>1, <2>2
<1> HIDE DEF read, day
<1>5. ASSUME NEW c \in read PROVE c \in now(read) => c \in today(read)
  <2> HAVE c \in now(read)
  <2>1. (\A s \in c.start : s <= ask.at) /\ (\A e \in c.end : ask.at <= e)
    BY DEF IsEffectiveAt
  <2>2. GisDay \in Int
    BY GisAssumption
  <2>3. \A s \in c.start : s < day + GisDay
    BY <1>3, <1>4, <2>1, <2>2
  <2>4. \A e \in c.end : day <= e
    BY <1>3, <1>4, <2>1
  <2> QED
    BY <1>5, <2>3, <2>4
<1>6. \A c \in read : c \in now(read) <=> ~(\E s \in c.start : s > ask.at) /\ ~(\E e \in c.end : e < ask.at)
  BY <1>3 DEF IsEffectiveAt
<1>7. now(read) \subseteq read
  OBVIOUS
<1> HIDE DEF now, today
<1>8. CASE read = {} /\ ask.out # {}
  <2>1. answer.now = {} /\ answer.today = {} /\ answer.onMap = {}
    BY <1>1, <1>2, <1>8
  <2> QED
    BY <1>8, <2>1 DEF ClosuresAreShown, read
<1>9. CASE ~(read = {} /\ ask.out # {})
  <2>1. /\ answer.now = {now(read)} /\ answer.today = {today(read)}
        /\ answer.onMap = {c \in now(read) : c.drawn}
    BY <1>1, <1>2, <1>9
  <2>2. \A c \in read : c \in answer.onMap <=> c.drawn /\ ~(\E s \in c.start : s > ask.at) /\ ~(\E e \in c.end : e < ask.at)
    BY <1>6, <2>1
  <2>3. UNION answer.now \subseteq UNION answer.today
    BY <1>5, <1>7, <2>1
  <2>4. answer.now # {}
    BY <2>1
  <2> QED
    BY <2>2, <2>3, <2>4 DEF ClosuresAreShown, read
<1> QED
  BY <1>8, <1>9

(* What the map says is what its layers say, and an outage is never told as  *)
(* an answer, for any layers, numbers and widths (vtgis.py:310, 1292-1304,   *)
(* 1660-1716).                                                               *)
THEOREM MapAnswersHold == GisSpec => []MapKeepsItsWord
<1>1. answer = NoAnswer /\ GisAsked => GisInv
  BY DEF GisInv, Told
<1>2. GisInv /\ [GisNext]_lookupVars => GisInv'
  <2> SUFFICES ASSUME GisInv, [GisNext]_lookupVars PROVE GisInv'
    OBVIOUS
  <2>1. CASE GisNext
    <3>1. ask' = ask
      BY <2>1 DEF GisNext, FindBuildings, LookUpBuilding, FindRoute, ListClosures, Reply
    <3>2. /\ ask.of = "buildings" => answer' = IF ask.layer = {} THEN [status |-> "unavailable", rows |-> {}]
                                               ELSE SearchBuildings(Buildings(The(ask.layer)))
          /\ ask.of = "building" => answer' = BuildingDetail(ask)
          /\ ask.of = "route" => answer' = IF ask.mode \in DOMAIN RouteModes THEN RouteBetween(ask) ELSE [status |-> "refused"]
          /\ ask.of = "closures" => answer' = ClosuresTold(ask)
      BY <2>1 DEF GisNext, FindBuildings, LookUpBuilding, FindRoute, ListClosures, Reply
    <3> QED
      BY <3>1, <3>2 DEF GisInv, GisAsked, Told
  <2>2. CASE UNCHANGED lookupVars
    BY <2>2 DEF GisInv, GisAsked, Told, lookupVars
  <2> QED
    BY <2>1, <2>2
<1>3. GisInv => MapKeepsItsWord
  <2> SUFFICES ASSUME GisInv PROVE MapKeepsItsWord
    OBVIOUS
  <2>1. OutageIsNoAnswer
    BY BuildingReply, RouteReply, ClosuresReply DEF OutageIsNoAnswer
  <2>2. AccessibleDoorToDoor
    <3> SUFFICES ASSUME Told("route"), answer.status = "ok" PROVE AccessibleDoorToDoor
      BY DEF AccessibleDoorToDoor
    <3>1. answer.mode = "ada_walking" <=> ask.mode \in {"ada", "ada_walking", "accessible"}
      BY RouteReply
    <3>2. ASSUME NEW e \in {"from", "to"}
          PROVE  LET doors == {d \in ask.entrances : EntranceOf(d, ask[e]) /\ (answer.mode = "ada_walking" => Accessible(d))}
                     points == {ask.buildings[i].at : i \in {j \in DOMAIN ask.buildings : IsOf(ask.buildings[j], ask[e])}}
                 IN  /\ answer[e].building = CanonicalId(ask[e])
                     /\ \/ answer[e].entrance = {} /\ \E p \in points : answer[e].at \in p
                        \/ \E d \in doors, p \in points : NearestDoor(answer[e], d, doors, The(p))
                     /\ answer.mode = "ada_walking" /\ (e \o " entrances") \notin ask.out /\ doors # {} =>
                          answer[e].entrance # {}
      <4> DEFINE doors == {d \in ask.entrances : EntranceOf(d, ask[e]) /\ (answer.mode = "ada_walking" => Accessible(d))}
      <4>1. /\ answer[e].building = CanonicalId(ask[e])
            /\ (e \o " entrances") \notin ask.out /\ doors # {} =>
                 \E d \in doors, i \in DOMAIN ask.buildings :
                     IsOf(ask.buildings[i], ask[e]) /\ NearestDoor(answer[e], d, doors, The(ask.buildings[i].at))
            /\ (e \o " entrances") \in ask.out \/ doors = {} =>
                 /\ answer[e].entrance = {}
                 /\ \E i \in DOMAIN ask.buildings : IsOf(ask.buildings[i], ask[e]) /\ answer[e].at \in ask.buildings[i].at
        <5>1. EndsWell(e, answer[e], DoorsFor(e, answer.mode))
          BY RouteReply
        <5>2. DoorsFor(e, answer.mode) = doors
          BY DEF DoorsFor
        <5> HIDE DEF doors
        <5> QED
          BY <5>1, <5>2 DEF EndsWell
      <4> HIDE DEF doors
      <4>2. CASE (e \o " entrances") \notin ask.out /\ doors # {}
        <5>1. PICK d \in doors, i \in DOMAIN ask.buildings :
                  IsOf(ask.buildings[i], ask[e]) /\ NearestDoor(answer[e], d, doors, The(ask.buildings[i].at))
          BY <4>1, <4>2
        <5>2. answer[e].entrance # {}
          BY <5>1 DEF NearestDoor
        <5> QED
          BY <4>1, <5>1, <5>2 DEF doors
      <4>3. CASE (e \o " entrances") \in ask.out \/ doors = {}
        BY <4>1, <4>3 DEF doors
      <4> QED
        BY <4>2, <4>3
    <3> QED
      BY <3>1, <3>2 DEF AccessibleDoorToDoor
  <2>3. EntrancesAreTheBuildings
    BY BuildingReply DEF EntrancesAreTheBuildings
  <2>4. EachBuildingOnce
    BY SearchReply
  <2>5. ClosuresAreShown
    BY ClosuresReply DEF ClosuresAreShown
  <2> QED
    BY <2>1, <2>2, <2>3, <2>4, <2>5 DEF MapKeepsItsWord
<1> QED
  BY <1>1, <1>2, <1>3, PTL DEF GisSpec
=============================================================================
