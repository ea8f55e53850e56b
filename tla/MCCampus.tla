------------------------------ MODULE MCCampus ------------------------------
(***************************************************************************)
(* What a student asks about the campus, on small inputs.  A behaviour is  *)
(* one question to a read-only tool and its answer, the making of one plan *)
(* of a day, or the life of the events snapshot under its crawls.          *)
(***************************************************************************)
EXTENDS MCPlanner, Dining, Transit, OwnTime, Weather, Events, Classes, EventCrawl, Gis, AskServer

MCWindows == {w \in [day : {0}, open : 1..5, close : 0..5] : w.close > w.open \/ w.close <= 1}
MCKnownHours == {h \in SUBSET MCWindows : Cardinality(h) <= 1}
                \cup {{[day |-> 0, open |-> 1, close |-> 2], w} : w \in MCWindows}
MCItems == [recipe : {"r1"}, tags : {{}, {"vegan"}}, allergens : {{}, {"milk"}, {"tree nuts"}},
            section : {"viridian", "grill"}, kcal : {1, 3, NoFilter}]
MCDietBlocks == [d \in {"vegan"} |-> {"milk"}]
MCMatches == [t \in {"nut", "egg"} |-> IF t = "nut" THEN {"tree nuts"} ELSE {"eggs"}]
MCMerged == {{}} \cup {{m} : m \in [future : BOOLEAN, recipes : {{[recipe |-> "r2", cals |-> 1]}}]}
MCFoodAsks ==
    UNION {LET j == [i EXCEPT !.recipe = "r2", !.kcal = 1]
               read == [k \in {i, j} |-> "read"] IN
           [of : {"food"}, menu : {{i}, {i, j}, Unread}, hall : {"d2", "dx"}, diet : {NoFilter, "vegan"},
            avoid : {{}, {"nut"}, {"nut", "egg"}}, ceiling : {NoFilter, 2}, wholeCampus : BOOLEAN,
            openOnly : {TRUE}, open : BOOLEAN, chunk : {read}, later : {read}, frozen : {FALSE}, merged : MCMerged]
           \cup
           [of : {"food"}, menu : {{i, j}, Unread}, hall : {"d2"}, diet : {NoFilter}, avoid : {{}, {"nut"}},
            ceiling : {NoFilter, 2}, wholeCampus : BOOLEAN, openOnly : {FALSE}, open : {TRUE},
            chunk : [{i, j} -> {"read", "miss"}], later : [{i, j} -> {"read", "miss"}],
            frozen : BOOLEAN, merged : MCMerged] : i \in MCItems}

MCServiceDays == [s \in {"wk", "sat"} |-> IF s = "wk" THEN {0} ELSE {1}]
Calls(t) == {<<[stop |-> "A", time |-> t], [stop |-> "B", time |-> t + 1]>>,
             <<[stop |-> "B", time |-> t], [stop |-> "A", time |-> t + 2]>>,
             <<[stop |-> "A", time |-> t], [stop |-> "B", time |-> t + 1], [stop |-> "A", time |-> t + 2]>>}
MCTrips(n) == [id : {n}, route : {n}, service : {"wk", "sat"}, calls : UNION {Calls(t) : t \in {1, 4, 6}}]
MCTwoRounds == [id : {1}, route : {1}, service : {"wk"},
                calls : {<<[stop |-> "A", time |-> 1], [stop |-> "B", time |-> 2], [stop |-> "A", time |-> 3], [stop |-> "B", time |-> 5]>>}]
MCFeeds == {{t, u} : t \in MCTrips(1) \cup MCTwoRounds, u \in MCTrips(2)}

MCEntries == [day : {0, 7}, start : {1, 2, 3, 4}, len : {1, 3, 7}, repeat : {"none", "weekly"}, until : {6, 7}]
\* Into the morning of the day asked for, when the meal has begun.
MCOvernight == [day : {6, 13}, start : {4}, len : {4, 5}, repeat : {"none", "weekly"}, until : {13}]
MCScheduleAsks == [of : {"schedule"}, entries : {{e, f} : e \in MCEntries, f \in MCEntries \cup MCOvernight},
                   day : [named : {TRUE}, value : {0}] \cup [named : {FALSE}, value : {14}],
                   today : {7}, minimum : {1, 2}]

MCFeedAsks == [of : {"feeds"}, points : FeedStates, linked : BOOLEAN, hourly : FeedStates,
               pointAlerts : FeedStates, zoneAlerts : FeedStates, atPoint : {{}, {"wind"}},
               inZone : {{"wind"}, {"flood"}}, starts : {{1, 2, 3}, {2, 4}}, now : {2, 3}, hours : {1},
               stations : FeedStates, observation : FeedStates]
MCPeriods(h) == [from : {h}, to : {h + 1}, precip : {Missing, 0, 60}, token : BOOLEAN, thunder : BOOLEAN,
                 temp : {Missing, -20, 10, 36}, wind : {Missing, 10, 50}]
MCNextPeriods == {[from |-> 1, to |-> 2, precip |-> p, token |-> FALSE, thunder |-> FALSE, temp |-> t, wind |-> 0] :
                      p \in {0, Missing, 40}, t \in {10, 33}}
MCAlerts == {{}, {[from |-> 0, to |-> 1, severity |-> "Minor", severe |-> TRUE]},
             {[from |-> Missing, to |-> Missing, severity |-> "Extreme", severe |-> FALSE]}}
MCLegs == [outdoor : {TRUE}, from : {0, 1}, to : {2, 3}] \cup [outdoor : BOOLEAN, from : {4}, to : {5}]
MCRiskAsks == [of : {"risk"}, periods : {{p, n} : p \in MCPeriods(0), n \in MCNextPeriods},
               alerts : MCAlerts, legs : {<<l, [outdoor |-> FALSE, from |-> 0, to |-> 1]>> : l \in MCLegs}]

MCEventRows == [id : {1}, start : {2, 4, 6}, end : {NotSaid, 2, 5, 9}, allDay : {FALSE}, tags : {{}, {"arts"}},
           status : {"scheduled", "cancelled", "parser-failed"}]
MCAllDay == [id : {2}, start : {2, 4}, end : {NotSaid, 2, 6}, allDay : {TRUE}, tags : {{"arts"}}, status : {"scheduled", "uncertain"}]
MCSnaps == {NoSnapshot} \cup [rows : {{}} \cup {{e} : e \in MCEventRows} \cup {{e, f} : e \in MCEventRows, f \in MCAllDay},
                              failures : BOOLEAN, age : {NotSaid, 0, 2}]
MCTags == UNION {{t \in [1..n -> {"online", "in-person", "free-food", "no-food", "blacksburg"}] : IsInjective(t)} : n \in 0..3}
MCEventAsks == [of : {"events"}, snap : MCSnaps, date : {"today", "tomorrow", ""}, today : {1, 3}, tags : {{}, {"arts"}}]
               \cup [of : {"upcoming"}, snap : MCSnaps, now : {2, 5, 8}]
               \cup [of : {"duplicates"}, rows : [1..3 -> [id : 1..2, triple : 1..2, score : 1..2, at : 1..2]]]
               \cup [of : {"page"}, titled : BOOLEAN, start : {NotSaid, 1, 4}, tags : MCTags,
                     card : {NotSaid} \cup [types : SUBSET {"online", "in-person"}, features : SUBSET {"free-food", "music"}],
                     address : {"blacksburg", "elsewhere", ""}, venueKnown : BOOLEAN]

MCTexts == {<<"BEGIN:VEVENT">> \o w : w \in [1..5 -> LineKinds]}
           \cup {<<"END:VEVENT">> \o w : w \in [1..3 -> LineKinds]}
           \cup {<<"BEGIN:VEVENT", "facts">> \o w \o <<"END:VEVENT">> : w \in [1..4 -> LineKinds]}
MCIcsAsks == [of : {"ics"}, text : MCTexts, frame : {"whole"}]
   \cup [of : {"ics"}, text : {<<"BEGIN:VEVENT", "facts", "END:VEVENT">>}, frame : {"whole", "too long", "no BEGIN:VCALENDAR", "no END:VCALENDAR"}]
MCUntil == {NoLimit} \cup [day : {4, 7}, tick : {0, 1}]
MCMeetingAsks == [of : {"meetings"}, recurring : BOOLEAN, first : {0, 1, 2}, tick : {0, 1}, days : (SUBSET (0..2)) \ {{}},
                  interval : {1, 2}, count : {NoLimit, 1, 3}, until : MCUntil, from : {NoLimit, 2, 4}, to : {NoLimit, 5}]

MCTableRows == [lead : {"crn"}, crn : {1, 2}, short : BOOLEAN, timed : BOOLEAN, place : {"tba", "listed", "unlisted", "online"}]
             \cup [lead : {"additional times"}, crn : {0}, short : {FALSE}, timed : {TRUE}, place : {"listed"}]
MCTableAsks == [of : {"table"}, rows : {<<r, s, t>> : r \in {x \in MCTableRows : x.lead = "crn"}, s \in MCTableRows, t \in MCTableRows}]
MCSections == {<<>>, <<[crn |-> 1, hit |-> TRUE], [crn |-> 2, hit |-> TRUE]>>} \cup {<<[crn |-> 1, hit |-> h]>> : h \in BOOLEAN}
MCCaptures(at) == [term : {1, 2}, at : {at}, readable : BOOLEAN, sections : MCSections]
MCSearchAsks == [of : {"classes"}, tool : {FALSE}, term : {1}, now : {4}, refreshed : {{c} : c \in MCCaptures(3)} \cup {{}},
                 committed : {{c, d} : c \in MCCaptures(1), d \in MCCaptures(2)}]
     \cup [of : {"classes"}, tool : {TRUE}, term : {NoTerm}, now : {4}, refreshed : {{}},
                 committed : {{c, d, e} : c \in MCCaptures(1), d \in MCCaptures(2), e \in MCCaptures(3)}]
MCRecord == [kind : {"crn"}, term : {1, 2}, id : {1, 2}]
MCUidRecord == [kind |-> "ics", term |-> NoTerm, id |-> 1]
MCSchedules == {<<>>} \cup {<<r>> : r \in MCRecord} \cup {<<r, s>> : r \in MCRecord, s \in MCRecord \cup {MCUidRecord}}
MCEditAsks == [of : {"add", "remove"}, schedule : {s \in MCSchedules : IsInjective(s)}, sections : SUBSET MCRecord, term : {NoTerm, 1},
               crns : {<<1>>, <<1, 2>>, <<2, 1, 2>>}, uids : {<<>>, <<1>>, <<2, 2>>}]
MCMeetings == {m \in [1..2 -> 1..4] : m[1] <= m[2]}
MCEvents == [id : {1, 2}, meetings : {{m} : m \in MCMeetings} \cup {{<<1, 2>>, <<3, 4>>}}]
MCPreviewAsks == [of : {"preview"}, ics : {TRUE}, valid : BOOLEAN, stale : {FALSE}, consent : {FALSE}, tba : {FALSE}, expandable : {FALSE},
                  events : {<<e, f, g>> : e \in MCEvents, f \in MCEvents, g \in MCEvents}]
       \cup [of : {"preview"}, ics : {FALSE}, valid : {TRUE}, stale : BOOLEAN, consent : BOOLEAN, tba : BOOLEAN, expandable : BOOLEAN,
                  events : {<<>>, <<[id |-> 1, meetings |-> {<<1, 2>>, <<3, 4>>}]>>}]
MCLessons == SUBSET [start : 1..3, online : BOOLEAN]
MCNextAsks == {q \in [of : {"next class"}, calendar : {s \in MCLessons : Cardinality(s) <= 2}, banner : {s \in MCLessons : Cardinality(s) <= 1}, timed : BOOLEAN, sections : BOOLEAN, imported : BOOLEAN, consent : BOOLEAN,
               skipOnline : BOOLEAN, expandable : BOOLEAN, at : {1, 2}] : (q.banner # {} => q.timed /\ q.expandable) /\ (q.timed => q.sections) /\ (q.calendar # {} => q.imported)}

MCKind == <<"event", "broken", "event", "elsewhere">>

MCRecords(n, at) == [num : {<<0, n>>, <<>>}, vtes : {<<0, 0, 0, n>>, <<>>}, oid : {{}, {<<n>>}}, at : at]
MCSeventy == [num |-> <<7, 0>>, vtes |-> <<>>, oid |-> {}, at |-> {5}]
MCLayers == {<<f, MCSeventy>> : f \in MCRecords(7, {{}, {2}})} \cup {<<MCSeventy, f>> : f \in MCRecords(7, {{2}})}
MCEntrances == [bldg : {<<7>>}, type : {"other"}, ada : {TRUE}, at : {{4}}] \cup [bldg : {<<0, 0, 7>>}, type : {"accessible", "other"}, ada : {FALSE}, at : {{1}, {}}]
               \cup [bldg : {<<0, 7, 0>>}, type : {"accessible", "other"}, ada : {FALSE}, at : {{6}}]
MCSolves == [error : {"none", "no path", "other"}, found : {FALSE}, known : {TRUE}, length : {{}}, path : {{}}]
            \cup [error : {"none"}, found : {TRUE}, known : BOOLEAN, length : {{}, {9}}, path : {{8}}]
MCMapAsks == [of : {"buildings"}, layer : {{}} \cup {{<<f, g, h>>} : f \in MCRecords(7, {{}, {2}}), g \in MCRecords(7, {{3}}), h \in {MCSeventy} \cup MCRecords(8, {{3}})}]
     \cup [of : {"building"}, id : {<<7>>, <<0, 7>>, <<9>>, <<0, 0, 0, 7>>}, buildings : MCLayers, entrances : SUBSET MCEntrances, out : SUBSET {"building", "entrances"}]
     \cup [of : {"route"}, mode : {"fastest", "accessible", "drive"}, from : {<<7>>}, to : {<<7, 0>>, <<9>>},
           buildings : {<<MCSeventy, f>> : f \in [num : {<<0, 7>>}, vtes : {<<>>}, oid : {{}}, at : {{}, {2}}]}, entrances : SUBSET MCEntrances,
           out : {{}, {"from entrances", "to"}} \cup {{r} : r \in {"from", "from entrances", "to entrances", "solve"}}, solve : MCSolves, permit : BOOLEAN]
     \cup [of : {"closures"}, at : {4, 6}, out : SUBSET {"current", "scheduled"},
           layers : [{"current", "scheduled"} -> {{}} \cup {{c} : c \in [start : {{}, {3}, {7}}, end : {{}, {4}}, drawn : BOOLEAN]}]]

MCCovers == [w \in {"milk", "nuts"} |-> IF w = "milk" THEN {"milk"} ELSE {"tree nuts", "peanuts"}]
MCPresets == [s \in {"s1"} |-> [start |-> 11, end |-> 13, asks |-> Unsaid]]
MCWords == UNION {{w \in [1..n -> [word : {"milk", "nuts", "beef", Furniture}, joined : BOOLEAN]] : ~w[1].joined} : n \in 1..3}
MCClauses == {{c} : c \in [cue : {"explicit", "bare", "reverse"}, words : MCWords]}
             \cup {{c, d} : c \in [cue : {"explicit", "reverse"}, words : {<<[word |-> w, joined |-> FALSE]>> : w \in {"milk", "beef"}}],
                           d \in [cue : {"bare"}, words : {w \in MCWords : Len(w) <= 2}]}
MCTimes == UNION {[1..n -> [hour : {1, 3, 9, 13}, marked : BOOLEAN]] : n \in 0..2}
MCText(clauses, times, from, to) == [clauses : clauses, kcal : {{}, {1, 2}}, diet : {Unsaid, "vegan"}, times : times, from : from, to : to]
MCModels == {[start |-> Unsaid, end |-> Unsaid, avoid |-> {}, kcal |-> {}, diet |-> Unsaid, from |-> Unsaid, to |-> Unsaid],
             [start |-> 8, end |-> 23, avoid |-> {"soy"}, kcal |-> {3}, diet |-> "any", from |-> "M", to |-> "N"]}
MCPhrases(name) == {Unsaid} \cup [name : {name}, looks : {"known", "proper", "plain", "filler"}]
MCPicks(name) == {Unsaid} \cup [name : {name}, kind : {"static", "dynamic", "unknown", "auto"}]
MCAsk(scenario, text, device, from, to, now) ==
    {q \in [of : {"ask"}, scenario : scenario, text : text, device : device, from : from, to : to,
            live : BOOLEAN, provider : {"none", "answers", "fails"}, now : now, model : MCModels] :
        /\ q.live \/ q.provider # "fails"
        /\ (q.live /\ q.provider = "answers") \/ q.model.end = Unsaid}
MCAskAsks ==
    MCAsk({Unsaid}, MCText(MCClauses, {<<>>, <<[hour |-> 13, marked |-> FALSE]>>}, {Unsaid}, {Unsaid}), {"none"}, {Unsaid}, {Unsaid}, {9})
    \cup MCAsk({Unsaid}, MCText({{}}, MCTimes, {Unsaid}, {Unsaid}), {"none"}, {Unsaid}, {Unsaid}, {9, 13, 14})
    \cup MCAsk({Unsaid}, MCText({{}}, {<<>>}, MCPhrases("C"), MCPhrases("D")), {"near", "far", "none"}, MCPicks("A"), MCPicks("B"), {9})
    \cup MCAsk({"s1", "s9"}, {[clauses |-> {}, kcal |-> {}, diet |-> Unsaid, times |-> <<>>, from |-> Unsaid, to |-> Unsaid]}, {"near", "none"}, MCPicks("A"), MCPicks("B"), {12, 13})

VARIABLE part

NoRequest == [start |-> 0, end |-> 0, to |-> "dest", eat |-> None, prefer |-> "fastest", device |-> FALSE]

PlannerParked ==
    /\ request = NoRequest /\ world = None /\ known = FALSE /\ pc = "done" /\ cands = <<>> /\ rows = <<>>
    /\ planA = None /\ trigger = None /\ planB = None /\ reply = NoPlan

ToolInit ==
    \/ ask \in HallAsks \/ ask \in MCFoodAsks
    \/ ask \in BoardAsks \/ ask \in RideAsks \/ ask \in BusAsks \/ ask \in NameAsks \/ ask \in MCScheduleAsks
    \/ ask \in MCFeedAsks \/ ask \in MCRiskAsks \/ ask \in MCEventAsks
    \/ ask \in MCTableAsks \/ ask \in MCSearchAsks \/ ask \in MCEditAsks \/ ask \in MCPreviewAsks
    \/ ask \in MCNextAsks \/ ask \in MCIcsAsks \/ ask \in MCMeetingAsks \/ ask \in MCMapAsks \/ ask \in MCAskAsks

ToolNext == DiningNext \/ TransitNext \/ OwnTimeNext \/ WeatherNext \/ EventsNext \/ ClassesNext \/ GisNext \/ PostAsk

NoAsk == [of |-> "nothing"]

CampusInit ==
    /\ part \in {"tool", "plan", "crawl"}
    /\ answer = NoAnswer /\ CrawlInit
    /\ part # "crawl" => \A p \in Pages : site[p].stamped /\ "listing" \notin site[p].on
    /\ \/ part = "tool" /\ ToolInit /\ PlannerParked
       \/ part = "plan" /\ ask = NoAsk /\ PlannerInit
       \/ part = "crawl" /\ ask = NoAsk /\ PlannerParked

CampusNext ==
    \/ part = "tool" /\ ToolNext /\ UNCHANGED <<part, plannerVars, crawlVars>>
    \/ part = "plan" /\ PlannerNext /\ UNCHANGED <<part, ask, answer, crawlVars>>
    \/ part = "crawl" /\ CrawlNext /\ UNCHANGED <<part, ask, answer, plannerVars>>

CampusSpec == CampusInit /\ [][CampusNext]_<<part, ask, answer, plannerVars, crawlVars>>
=============================================================================
