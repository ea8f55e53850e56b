------------------------------- MODULE Dining -------------------------------
(***************************************************************************)
(* Dining halls (dining.py, the food and hours tools, dining_menu.py).  A  *)
(* question carries what is on file for one hall on one day: the captured  *)
(* menu, the hours published for the day and for the day before, and the   *)
(* nutrition captures.  Time is in ticks from the day's midnight.          *)
(***************************************************************************)
EXTENDS Lookup, Integers, FiniteSets, FiniteSetsExt

CONSTANTS DayLen, Dawn,           \* ticks of a day; the morning cutoff, 06:00
          VenueHalls, VenueSection,  \* the documented allergen-free kitchen
          DietBlocks,             \* DietBlocks[d]: allergens that contradict diet d
          Matches,                \* Matches[t]: allergens that contain the text t
          KnownHours,             \* sets of windows a day's hours may hold
          Unread,                 \* a capture that could not be read
          NoFilter                     \* no filter given

(* Hours: a window is [day, open, close]; day is 0, or -1 for yesterday.   *)
Overnight(w) == w.close <= w.open

ASSUME DiningAssumption == DayLen \in Nat /\ Dawn \in 0..DayLen

\* What the choice of a day's windows relies on (dining.py:870-893): a window that
\* runs past midnight closes by dawn, and before any hall opens for the day.
ASSUME HoursAssumption ==
    \A h, g \in KnownHours :
        /\ h \subseteq [day : {0}, open : 0..DayLen, close : 0..DayLen]
        /\ \A w \in h, v \in g : Overnight(w) => w.close <= Dawn /\ w.close <= v.open

Opens(w)  == w.day * DayLen + w.open
Closes(w) == w.day * DayLen + w.close + (IF Overnight(w) THEN DayLen ELSE 0)

IsOpen(windows, at) == \E w \in windows : Opens(w) <= at /\ at < Closes(w)

\* Until the last open window closes, else the next one's close, else the last one's.
ClosesIn(windows, at) ==
    LET now  == {w \in windows : Opens(w) <= at /\ at < Closes(w)}
        next == {w \in windows : Opens(w) > at}
        last == {w \in windows : \A v \in windows :
                    Opens(v) < Opens(w) \/ (Opens(v) = Opens(w) /\ Closes(v) <= Closes(w))}
    IN  IF now # {} THEN Max({Closes(w) : w \in now}) - at
        ELSE IF next # {}
             THEN LET first == Min({Opens(w) : w \in next})
                  IN  Min({Closes(w) : w \in {v \in next : Opens(v) = first}}) - at
        ELSE Max({Closes(w) : w \in last}) - at

\* Mutant: yesterday is looked at only on a day without hours of its own.
NeedsPriorIfNone(today, at) == today = {} /\ at < Dawn

\* Yesterday's hours matter before today's first opening, or before dawn.
NeedsPrior(today, at) ==
    IF today = {} THEN at < Dawn ELSE \A w \in today : at < w.open

\* open_windows: the windows to judge `at` by, Unread if they cannot be told.
OpenWindows(today, prev, at) ==
    CASE today = Unread -> Unread
      [] today # Unread /\ ~NeedsPrior(today, at) -> today
      [] OTHER -> IF prev = Unread THEN Unread ELSE today \cup {w \in prev : Overnight(w)}

\* menu_result: a capture from after the request, or for another hall or day, is no menu.
MenuStatus(capture) ==
    CASE capture = Unread \/ capture \in {"future", "mismatch"} -> "unavailable"
      [] capture = "blank" -> "empty"
      [] OTHER -> "ok"

HallAsks ==
    [of : {"hall"}, menu : {Unread, "future", "mismatch", "blank", "rows"},
     today : KnownHours \cup {Unread},
     prev : {{[w EXCEPT !.day = -1] : w \in h} : h \in KnownHours} \cup {Unread},
     at : 0..DayLen - 1, mealMatches : BOOLEAN]

\* location_status
HallStatus(q) ==
    LET menu    == MenuStatus(q.menu)
        windows == OpenWindows(q.today, q.prev, q.at)
    IN  [status  |-> CASE menu = "unavailable" \/ windows = Unread -> "unavailable"
                       [] menu # "unavailable" /\ windows = {}     -> "closed"
                       [] OTHER                                   -> menu,
         openNow |-> IF windows = Unread THEN Unread ELSE IsOpen(windows, q.at),
         closesIn |-> IF windows \in {Unread, {}} THEN Unread ELSE ClosesIn(windows, q.at)]

\* The page of the menu: its rows are those of the meal asked for.
MenuPage(q, hall) ==
    LET rows == MenuStatus(q.menu) = "ok" /\ q.mealMatches
    IN  [rows    |-> rows, openNow |-> hall.openNow,
         state   |-> IF MenuStatus(q.menu) = "ok" /\ hall.status = "closed" THEN "closed"
                     ELSE IF rows THEN "ok" ELSE MenuStatus(q.menu)]

Hall == Reply("hall", [hall |-> HallStatus(ask), page |-> MenuPage(ask, HallStatus(ask))])
-----------------------------------------------------------------------------
(* Food: a search, and the same search again later in the day.  A question  *)
(* has the hall, the rows [recipe, tags, allergens, section, kcal] of its    *)
(* menu, the filters, whether the hall is open, the merged nutrition on file *)
(* ({} if none), and which chunks of it can be read, now and later.    *)
VenueFree(hall, item) == hall \in VenueHalls /\ item.section = VenueSection

DietKeeps(diet, item) ==
    diet = NoFilter \/ (diet \in item.tags /\ item.allergens \cap DietBlocks[diet] = {})

\* _apply_avoid: a stated match is out, and so is an item that states nothing.
AvoidKeeps(avoid, hall, item) ==
    \/ avoid = {}
    \/ /\ \A t \in avoid : item.allergens \cap Matches[t] = {}
       /\ item.allergens # {} \/ VenueFree(hall, item)

\* _nutrients_from: a recipe whose report has no calories counts as 0.
Cals(item) == IF item.kcal = NoFilter THEN 0 ELSE item.kcal

\* The chunks that can be read; none are asked for without a menu to ask about.
ChunksRead(q, chunk) ==
    IF q.menu = Unread THEN {}
    ELSE {[recipe |-> i.recipe, cals |-> Cals(i)] : i \in {j \in q.menu : chunk[j] = "read"}}

\* nutrition_for_location: the merged file, unless it is from the future, else the
\* chunks; they are merged, however few of them, and left on file for the next call.
InTime(merged) == merged # {} /\ \A m \in merged : ~m.future
Nutrition(q, merged, chunk) == IF InTime(merged) THEN UNION {m.recipes : m \in merged} ELSE ChunksRead(q, chunk)
Left(q, merged, chunk) ==
    IF InTime(merged) \/ q.frozen \/ ChunksRead(q, chunk) = {} THEN merged
    ELSE {[future |-> FALSE, recipes |-> ChunksRead(q, chunk)]}

\* list_foods
Listing(q) == {i \in q.menu : DietKeeps(q.diet, i) /\ AvoidKeeps(q.avoid, q.hall, i)}

\* eat_options
EatOptions(q, nutrition) ==
    {i \in Listing(q) :
        /\ q.ceiling # NoFilter => \E n \in nutrition : n.recipe = i.recipe /\ n.cals <= q.ceiling
        /\ q.openOnly => q.open = TRUE}

\* food_search: a campus-wide search has no nutrition, and refuses a ceiling.  A
\* ceiling is judged by what the first look at the nutrition left on file.
FoodSearch(q, merged, chunk) ==
    LET nutrition == IF q.wholeCampus THEN {} ELSE Nutrition(q, merged, chunk)
        rows      == EatOptions(q, Nutrition(q, Left(q, merged, chunk), chunk))
    IN  IF q.ceiling # NoFilter /\ nutrition = {}
        THEN [state |-> "nutrition_unavailable", rows |-> {}, kcal |-> {}]
        ELSE IF q.menu = Unread
        THEN [state |-> "unavailable", rows |-> {}, kcal |-> {}]
        ELSE [state |-> "ok", rows |-> rows,
              kcal |-> {n \in nutrition : \E i \in rows : i.recipe = n.recipe}]

\* The merged file as the search leaves it.
LeftBy(q) == IF q.wholeCampus THEN q.merged ELSE Left(q, q.merged, q.chunk)

Food ==
    Reply("food", [now   |-> FoodSearch(ask, ask.merged, ask.chunk),
                   later |-> FoodSearch(ask, LeftBy(ask), ask.later)])

DiningNext == Hall \/ Food

\* What is on file gives a recipe one number of calories, on whatever rows it is.
DiningAsked ==
    /\ ask.of = "hall" => ask \in HallAsks
    /\ ask.of = "food" /\ ask.menu # Unread => \A i \in ask.menu :
           /\ \A j \in ask.menu : i.recipe = j.recipe => i.kcal = j.kcal
           /\ \A m \in ask.merged : \A n \in m.recipes : n.recipe = i.recipe => n.cals = Cals(i)

DiningSpec == answer = NoAnswer /\ DiningAsked /\ [][DiningNext]_lookupVars
-----------------------------------------------------------------------------
(* A hall is called open exactly when one of the windows published for today *)
(* or yesterday is under way, and nothing is claimed when the hours that     *)
(* decide it cannot be read (dining.py:878-930, 980-985).                    *)
OpenIsTrue ==
    Told("hall") /\ answer.page.openNow # Unread =>
        (answer.page.openNow <=> \E w \in ask.today \cup (IF ask.prev = Unread THEN {} ELSE ask.prev) :
                                Opens(w) <= ask.at /\ ask.at < Closes(w))

(* Whatever nutrition an earlier search left on file, every row served       *)
(* contains nothing the student avoids and may be relied on not to, suits    *)
(* the diet, comes from an open hall and is within a ceiling; but a dish     *)
(* whose report leaves its calories out counts as 0 and passes any ceiling   *)
(* (dining.py:626-628), where dining.py:1205-1206 has it dropped.            *)
RowsAreAllowed ==
    Told("food") => \A i \in answer.now.rows \cup answer.later.rows :
        /\ \A a \in i.allergens, t \in ask.avoid : a \notin Matches[t]
        /\ ask.avoid # {} /\ i.allergens = {} => VenueFree(ask.hall, i)
        /\ ask.diet # NoFilter => ask.diet \in i.tags /\ \A a \in i.allergens : a \notin DietBlocks[ask.diet]
        /\ ask.ceiling # NoFilter => ~ask.wholeCampus /\ (i.kcal = NoFilter \/ i.kcal <= ask.ceiling)
        /\ ask.openOnly => ask.open = TRUE

(* Once any nutrition of a hall's day has been read, searches agree whatever *)
(* can be read by then: the merged file is not replaced that day, so a dish  *)
(* that was missing from it does not appear, and none goes; without a write  *)
(* (a frozen store) they agree while the same chunks can be read.            *)
SearchesAgree ==
    Told("food") /\ (\/ ~ask.frozen /\ Nutrition(ask, ask.merged, ask.chunk) # {}
                     \/ ask.chunk = ask.later) => answer.later = answer.now

DiningKeepsItsWord == OpenIsTrue /\ RowsAreAllowed /\ SearchesAgree
=============================================================================
