# HokieFlow in TLA+

HokieFlow answers questions about an afternoon on the Virginia Tech campus
(buses, dining, weather, events, classes, the map) from public feeds that it
caches, through a planner and a language-model assistant, for signed-in students
who keep a schedule. This directory models it in two ways. Where several actors
meet a shared state (the file cache, the publication of its fixtures, accounts
and sessions, the guards of outside services, the assistant's loop, the crawl of
the events calendar) a module is a state machine of all the steps in between.
Where a tool is a function of a question and of the data on file, a module holds
the function, and its properties compare the answer with what the data say.

`PROJECT.json` has the machine-readable side: the components, the runs, the
mutant that breaks each property, the source lines of every definition, the
findings, the hazards and the theorems.

## The system

| component | source | state | operations | what is hard | correct when |
|---|---|---|---|---|---|
| lock table | `hokieday/cache.py` 94-126 | `_key_locks`: a lock and a count per key in use | `_key_lock` | threads arriving while an entry is dropped | one thread per key; no entry outlives its users |
| read-through cache | `hokieday/cache.py` 144-676 | files of `CACHE_DIR`, `_attempts`, `CACHE_ONLY` | `get_json`, `get_bytes`, `post_form_json` | waiting callers, failed refreshes, two files per binary key, replay | one fetch per key and window; fresh means fresh; replay store untouched |
| bundle publication | `hokieday/cache.py` 787-887 | final, staged and backup files | `publish_envelopes` | a failure of any step or of its undoing, a kill | all or none; nothing lost |
| hosted accounts | `app/account_store.py`, `app/ui_files.py`, `app/server.py`, `ui/app.js` | a row per user with a version; a copy of it per tab; the cookie | load, save, login, logout | concurrent tabs, lost and late answers | no lost update; a tab shows what was stored |
| local accounts | `hokieday/accounts.py`, `serve.py` | SQLite users, sessions, data | register, login, logout, session, save | requests of several transactions | the same register |
| throttle of sign-ins | `serve.py` 85-98 | a queue of stamps per client | `rate_limit` | clocks read before the lock, pruning with old readings | no more attempts than allowed |
| sessions and sign-in | `auth.py`, `app/supabase_session.py`, `database.py` | cookies, refreshed tokens in process | the Google flow, `token_for` | several hosts; rotation, restart, eviction | a sign-in comes back; a session survives its access token and is never another's |
| model quota | `app/gemini_provider.py`, `app/server.py` 1007-1035 | the call ledger (a file), a queue per client | `_reserve_budget`, `_client_agent_budget_available` | restarts, clocks read outside the lock, truncation | limits hold in every window |
| live class search | `app/class_search.py` | memo, last slot, capture file | `live_snapshot` | concurrent callers, a file rewritten in place | recent answers; polite; replay store untouched |
| agent loop | `hokieday/agent.py`, `agent_tools.py`, `providers/` | messages, executions, counters | `run_agent`, the tool registry | limits at three places, what an answer may rest on | ends; no figure of its own; one reply, of one call |
| planner | `hokieday/tools.py` | none: a function of sources, places and clock | `plan_day` | a ride or hall that is gone when reached; Plan B; an origin forgotten meanwhile | a feasible answer is a route in time |
| configuration | `hokieday/config.py` | places, dynamic places | `register_dynamic_place`, `now` | a bounded registry under load | what is forgotten is not invented |
| HTTP server | `app/server.py` | none of its own beyond the above | `handle_ask`, routing | free text, picks, device position, the assistant's own arguments, fallback to the parser | no restriction lost; no place or stated deadline replaced |
| timetable, live buses | `hokieday/gtfs.py`, `livebus.py`, `transit.py` | extracted feed, indexes in memory | departures, rides, vehicles, stop names | service days past midnight, loops, lateness over midnight | departures in order, of running services; no ride missed unseen |
| dining | `hokieday/dining.py`, `dining_places.py`, `app/dining_menu.py` | none | hours, menus, nutrition | windows across midnight, partial captures left on file, silent rows | open means open; no stated fact got round; searches agree |
| weather | `hokieday/weather.py` | none | status, forecast, alerts, risk | stale and missing feeds, gaps | never safer than any of its sources |
| events | `hokieday/events.py`, `scripts/crawl_events.py` | raw pages, crawl state, snapshot | crawl, browse, upcoming | pages that fail, do not change or vanish; a death between two files | what was not read is not vouched for |
| classes | `hokieday/classes.py`, `app/class_import.py` | captures, the student's schedule | search, edit, conflicts, preview, calendar files | copies of several ages, nested and broken components, patterns of weeks | the newest copy counts; a valid calendar is whole |
| schedule tool | `hokieday/agent_tools.py` 165-280 | none | entries of a day, free windows | weekly entries, overlaps, midnight | free means free of the day's entries |
| campus GIS | `hokieday/vtgis.py`, `app/ui_files.py` | none | search, building, route, closures | identifiers of several spellings, each layer may be out | an outage is no answer; the right doors |
| browser UI | `ui/*.js` | `state` per tab | screens | its account state (modelled with the accounts) | - |
| data tooling | `scripts/`, `notebooks/` | none | seed, export, load | - | - |

Everything that reads a feed calls the cache; the cache uses the lock table;
`scripts/fetch_weather.py` publishes bundles into the directory the cache reads
in replay. The server's request threads run all of it. The UI's tabs call the
server with the browser's one cookie. `POST /api/ask` reads the question, asks
the per-client queue, and hands it to the assistant or to the planner; the
assistant asks Gemini, which reserves from the ledger before each call, and calls
the read-only tools and the planner; the planner asks the same tools.

## The modules

State machines:

| module | models | state |
|---|---|---|
| `KeyMutex` | what the lock table promises: a mutex per key | `holder` |
| `KeyLock` | `_key_lock`, one action per locked block | `keyLocks`, `refs`, `owner` of each entry's Lock, `entryOf`/`lockKey`/`stage` of each thread |
| `CacheFetch` | the fetch functions over `KeyLock` | `body`, `meta` (payload file and the envelope's `fetched_at`), `attempts`, `mode`, and per thread `pc`, `force`, `res` |
| `BundlePublish` | `publish_envelopes` | `final`, `tmp`, `bak`, `staged`, `backups`, the loop's `todo` and `cur` |
| `CasRegister` | what an account store promises: a compare-and-set register per user | `log`, `op` |
| `AccountStore` | tabs, request threads and the hosted rows | `row`, `cookie`, `tab`, `saving`, `loading`, `req` |
| `LocalAccounts` | the SQLite accounts | `registered`, `userData`, `sessions`, `jar` (the browser's cookie), `request` of each window |
| `RateLimit` | the throttle of `serve.py` | `clock`, `attempts`, `reading` of each thread |
| `GoogleSignIn` | the Google flow over the hosts of the site, by either route | `stateCookie` per host, `flow` |
| `HostedSession` | cookies, access and refresh tokens, `token_for` | `cookies`, `cached`, `spent` (at Supabase), `call` (under way) |
| `GeminiBudget` | both guards and the turns of a question | `time`, `limits`, `ledger`, `queue`, per asker `at`, `clock` and `turn` |
| `ClassSearch` | `live_snapshot` | `lock`, `memo`, `lastCall`, `file`, and per thread `pc`, `reading`, `wake`, `capture` |
| `AgentLoop` | `run_agent`, the registry, the grounding gate | `context`, `messages`, `pending`, `turn`, `executions`, `repeats`, `answer`, `envelope` |
| `Planner` | `plan_day` from the request to the answer | `request`, `world` (what the sources answer), `known` (the origin is registered), `cands`, `planA`, `rows`, `trigger`, `planB`, `reply` |
| `EventCrawl` | `scripts/crawl_events.py` | `site`, `copies`, `accepted`, `snap` |

Tools, each an action that answers one question over `Lookup` (`ask`, `answer`):
`Dining`, `Transit`, `Schedule`, `Weather`, `Events`, `Classes`, `IcsCalendar`
(calendar files), `Gis`, `AskServer` (`POST /api/ask`); `OwnTime` puts the two
keepers of a student's time, `Schedule` and `IcsCalendar`, together. A question
carries the data on file the tool will read, so every combination of data and
request in its set is one initial state. A list that is read from its start is read
by a function of the place reached (`merged`, `walk`, `read`, `crns`, `uids`); one
that is filtered keeps the places of what stays, as a function on a set of places;
one that is sorted is `InOrder` of a set.

`MC*.tla` hold the small inputs and compose modules; `*.cfg` give sizes;
`*_proofs.tla` hold the theorems. A definition whose comment begins "Mutant" is a
plausible bug that no specification uses; `PROJECT.json` pairs it with the
property it breaks.

`CacheFetch` composes with `KeyLock` step by step (a thread's cache step is also
its step of the table). `MCCache`, `MCAccounts`, `MCGuards` and `MCCampus` put
modules that share no state side by side: the variable `part` says which one a
behaviour is of, so that no product of independent states is explored and nothing
is lost.

Abstractions. A payload is the second at which upstream answered, so that its age
can be compared with the stamps and the clock. An account is the set of items in
it. Seconds, minutes and ticks are small numbers. A file is what it holds; one
written in place is torn between the truncation and the last byte, one that is
replaced never is. Python's lock hand-over is any waiting thread. A name, page or
text is a model value or a record of what is in it; parsing is left out except
where a property is about it (calendar lines, timetable rows, the words of a
restriction). What is called "history" in the comment of a VARIABLE is not in the
code: it records what a property speaks of and guards no action.

In `Planner` a place is a point on a line and a walk lasts its distance; a plan is
its legs and where and when they have got to. Menus, hours and timetables are
chosen once, in the initial state; the live buses are chosen when they are read.

The refinements. `holderOf` in `KeyLock` reads the mutex's holder off the table:
the thread that holds the lock of the entry the table has for the key. Releasing
frees the key before the count goes down, so `Release` maps to `Free` and both
registry blocks stutter. In `AccountStore` a save is pending in the register from
the request until it is committed or refused; the browser side stutters.
`LocalAccounts` implements the same register: a save is compared and written in
one transaction and its answer is read in a second, so the register's operation is
still pending between the two.

## The runs

| run | instance | shows |
|---|---|---|
| `cache` | 2 threads on 1 key of either kind, seconds 0-2, live and replay; or 3 publications of 2 files | `SingleFlight`, `ReusedIsRecent`, `PayloadMatchesStamp`, `NoLockLeak`, `OneAttemptPerWindow`, `NoLostLock`, `ImplementsMutex`; `AllOrNone`, `NothingLost`, `LeavesNoCopies`, `Ends` |
| `accounts` | 1 user, 2 tabs, 2 request threads, 2 items, versions to 2; or 3 hosts, 3 Google flows by GET or POST; or 2 local owners, 2 windows, 2 saves; or 2 threads, 2 clients, 2 attempts in 2 of 5 instants | `AckedItemsSurvive`, `TabShowsAStoredState`, `ImplementsRegister`; `SignInComesBack`; `ImplementsLocalRegister`; `ThrottleHolds` |
| `guards` | 2 threads, 2 queries, seconds 0-3; or 2 askers, 1 or 3 calls an hour and 2 or 3 a day of which 2 are kept, 3 calls, one failed write, restarts; or 2 students, 2 calls, a token cache of 1, 2 sign-ins | `LiveIsRecent`, `FullSleepsSpace`, `FixturesUntouched`; `WithinLimits`, `LedgerIsComplete`; `TurnedAwayOnlyIfRefused`, `TokenIsTheStudents` |
| `agent` | 3 turns, 3 tool calls, batches of 2, 6 calls, 9 answers, 2 students | `WithinBounds`, `EveryCallAnswered`, `TextIsFromTheTools`, `ReplyIsCoherent`, `Ends` |
| `campus` | the questions of `MCCampus`; a campus of 2 halls, 2 stops; a page of 4 versions under 3 crawls | one property per tool (below), `PlanIsSound`, `ChoiceIsSound`, `CrawlKeepsItsWord` |
| `cache_frozen` | out of replay by a flip | finding: a binary fixture is overwritten |
| `account_shared` | 2 users on 2 tabs | finding: a save lands in the cookie's account |
| `class_search_spacing` | live only | finding: requests bunch up |
| `budget_kept` | 2 stamps kept, 3 allowed an hour, 4 a day | finding: the guard never trips |
| `planner_boarding` | the planner's campus | finding: a plan rides a bus that left before one was at its stop |
| `class_rows` | tables of 2 rows | finding: a section's second meeting is dropped in silence |
| `ask_allergens` | one clause of up to 3 words | finding: an allergen said after "also" is not avoided and not asked about |

What each finding shows, with the line it contradicts, is under "findings" in
`PROJECT.json`.

The tools' properties, each a conjunction of named parts:

- `DiningKeepsItsWord`: a hall is open exactly when a window of today or
  yesterday is under way, and nothing is claimed when the hours that decide cannot
  be read; no row served gets round a diet, an avoided allergen or the calories it
  states; once any nutrition of the day is on file, later searches agree with it.
- `BusesAsTimetabled`: a board is of the day and the route, in order, with nothing
  left out; a ride found is the earliest and arrives when its trip does (trips that
  call nowhere twice), and one is missed only behind as many departures as
  `ride_minutes` looks at; a lateness is told right also after midnight; a name
  means a stop only if no other matches.
- `OwnTimeIsKept`: free windows are the maximal stretches without an entry of the
  day, and what is under way in one began the day before; a
  calendar file that is valid is read whole, with each event's own facts, and its
  meetings are the weeks, days, COUNT and UNTIL of the pattern.
- `WeatherIsNotPlayedDown`: "ok" only if every feed needed was read and is fresh;
  a leg is never safer than an hour that touches it or an alert in effect at some
  time of it, by its severity or as a severe event.
- `EventsKeepTheirWord`: "no match" is said of a whole snapshot only; a calendar
  row is usable; distinct events stay; "no" is the word of a source, and what none
  speaks of is unknown, but for the food of a card that lists other features.
- `ClassesKeepTheirWord`: the newest copy of a section of a term counts (without a
  term, the newest of its CRN), edits stay in their term, a preview and a "next
  class" are what the meetings say, kept rows are the table's.
- `MapKeepsItsWord`: an outage is no "no"; an accessible route leads between the
  nearest accessible doors of the two buildings; doors are the building's; each building
  once; every closure in effect is shown.
- `AskKeepsItsWord`: a listed allergen is avoided whoever answers and whatever the
  assistant proposes; a picked place and the device's position are kept; the diet
  and the strictest ceiling that were said are; the live window is the student's
  when a time was said; prose is left alone.
- `PlanIsSound`, `ChoiceIsSound`: a feasible plan arrives and the meal fits; a
  deadline goes before speed, and Plan B avoids what Plan A was dropped for.
- `CrawlKeepsItsWord`: a row no failure is recorded for is current; a failure is
  no miss; a snapshot is not stamped newer than what it was made of.

Bounds. Two threads race and a third arrives while the entry of the first two
goes; the cache's run has two, for the lock table's theorems hold for any number,
and a waiter whose recheck matters is the second. The windows of the cache are 1
and 2 seconds within three, so that a stamp can be of the same second, fresh, at
its limit and stale. Two bundle files let the second fail after the first is in; a
second run meets what the first left behind, a third what an undone second left.
Two tabs and two versions are a lost update; `MaxItems`, `MaxVersion`, `MaxFlows`
and `MaxSaves` only stop the run. The budget's windows overlap and end within the
run; two askers race for the last call, with limits the file can hold (1, 2) and
limits it cannot (3). `MaxCalls` bounds the calls noted. Three searches are needed
for a slot that is two intervals away: one of the two threads searches again. At
the throttle two threads come with readings up to `Lag` old, and stamps expire
twice within the five instants. A cache of one token makes two students evict
each other. Three tool calls in batches of two meet the limit in the middle of a
batch. The planner's campus has a hall on the way and one nearer the destination,
a trip where the bus wins and one where it loses, a hall that closes during the
meal, and buses early, late and full, alone and together. Three crawls are an
acceptance, a failure and what the third makes of both; version 4 is a page moved
elsewhere, version 2 one that cannot be parsed.

Bounds on data are named in the cfgs: `DayLen`, `TransitDay`, `EventDay` and so on
are the ticks of a day, long enough for a window, a trip or an event to cross
midnight (`IcsDay` is 2: an UNTIL before and after an event's time of day); limits such as `BoardLimit`, `SearchLimit`, `MaxConflicts` and
`ListLimit` are one below what the inputs can fill, so that truncation happens.

`HostedSession` runs with a Supabase that takes a refresh token again within its
grace (`reusable`): one that does not take it can do nothing the other may not,
since a refresh may be refused at any time; the theorems have no such restriction.
`query` of the searches starts the same for all threads: an idle thread has none.

`MealFits` is stated for plans that start now: for a later start the code compares
minutes from now with a budget that runs from the start, and the closing trigger
can stay silent. `Lag` bounds how long a thread waits for a lock after reading its
clock, the ledger's in `GeminiBudget` and the throttle's in `RateLimit`: the one is
only held to read and write a small file, the other to prune queues in memory. In
`ClassSearch` the wait is at most `LockWait` (the lock is held for a memo, or while
a remembered capture goes through its file), a second does not pass while a capture
is written and read back, and no sleeper oversleeps; `LiveIsRecent` is about what
was true when the answer was made, to that accuracy. In `CacheFetch` a second is
the unit too: stamps are cut to it and the clock is not, so at its limit a copy may
count as fresh or not, and `OneAttemptPerWindow` says no more than that.
`RideLimit` is 2, so that a stop with three departures ahead hides a ride. `AckedItemsSurvive` is checked for one user: with two, the
finding `account_shared` breaks it too.

Stopping. Every run switches the deadlock check off: a script is run a bounded
number of times, a plan or an answer is made once, clocks and versions are
bounded, and the system then does stop. That the cache and the assistant do not
get stuck before is what `NoLostLock` and `Ends` say.

Fairness. `MCCache` assumes weak fairness of each cache thread's own step: a
request thread that can run does, a started HTTP request ends (every `urlopen` has
a timeout), and `threading.Lock` wakes some waiter. A waiter is not promised to be
next, and `NoLostLock` says only that a held lock is given back. It assumes weak
fairness of the publication's own steps: the script waits for nobody. A kill is
possible at any moment and never required. `AgentLoop` assumes weak fairness of
its next step: a provider call returns, fails or times out, and so does a tool.
No other specification states fairness, and no other has a liveness property.

## The proofs

Eight modules hold proofs, checked by TLAPS for every value of the constants, from
the ASSUMEs of the modules only; TLC evaluates those ASSUMEs in the runs. A
hypothesis a theorem has beyond them is named below with the reason for it.

*Lock table* (`CacheFetch_proofs`, beginning). `LockInv` is inductive by its five
parts: types; what each stage says of a thread's locals (`StageInv`); who holds an
entry's lock (`OwnerInv`); that a thread between Register and Deregister is using
the entry the table has for its key (`SlotInv`); and that an entry's count is the
number of threads using it (`CountInv`, about the cardinality of a set that a step
changes by one element). Mutual exclusion needs `SlotInv`: two threads at one key
use one entry, and an entry's lock has one owner. `NoLockLeak` needs `CountInv`:
the last user sees a count of one. The refinement maps each action to `Take`,
`Free`, `FreeAll` or a stutter.

*Cache* (its middle). `UsesKeyLock` shows that each step of the cache is a step of
the lock table or leaves it alone, so the table's theorems are the cache's.
`OneFetchPerKey` adds that a thread past the recheck is inside the lock
(`StageOfPc`). `Politeness` adds `RecordsAgree`: what `_attempts` and the files say
of a key whose lock is free is how its last attempt ended. `ReusedCopiesAreRecent`
and `StampsAreHonest` rest on three invariants. `FilesInv`: an envelope is never
newer than its payload, a JSON key has one file for both, and a payload whose
envelope is still to be written is of this second. `StampInv`: between the two reads
of a copy the file may only have become newer, and under the key's lock not even
that. `ReuseInv` carries a copy's age from the freshness test, which needs no lock,
to the read.

*Publication* (`CacheFetch_proofs`, end). `BundleInv` says of every file, by how far
the publication has got, where its old and its new copy are: not reached yet,
moved aside, swapped, put back. `AllOrNone` and `NothingLost` are read off it for
every stage; `LeavesNoCopies` needs that a run that ends cleaned the names it used.

*Hosted accounts* (`AccountStore_proofs`). `AccountInv`: the row of a user is the
last state of its log (`LogIsTheRow`), and a tab, a late answer and a save under
way carry a state that was stored (`TabsAreStored`, `SavesAreStored`). The
refinement then maps a save to the register's `Submit`, its guarded UPDATE to
`Commit` or `Refuse`, its answer to `Answer`, and everything else to a stutter.
`SavedItemsSurvive` is about the behaviours in which a save that starts meets the cookie of its own tab's account (`OwnCookie`): the code does
not ensure it (run `account_shared`), so it is a hypothesis about behaviours and not
an assumption. `ItemInv` says that what is stored, sent or acknowledged for a user
was made for that user, and that a request keeps what was in the version it is based
on unless it was dropped on purpose. `OneAccountSurvives` has no hypothesis but that
there is one account: its cookie is always its own.

*Sign-in* (`SignIn_proofs`). `ThrottleInv`: a queue of `rate_limit` is the end of
the sequence of all stamps, and whatever left it is older than the window even by
the newest reading, while no thread acts on one more than `Lag` old
(`ReadingsAreLate`): the queue an attempt is let into holds all stamps of the
window less `Lag`, and a stretch that ended earlier can only have been joined by
late ones, which the guard had counted. `LocalInv`: a request between its two transactions
belongs to the owner its session named, and rows count what was stored; the
refinement maps a save's UPDATE to the register's steps. `GoogleInv` ties the three
places a flow is known in: the cookie of the host it left from, the flow, and the
history of flows nobody disturbed. Which flows come home is a matter of the host and
of the route (`ComesHome`): by POST the callback is always on the host of `APP_URL`.

*Guards* (`Guards_proofs`). `ClassSearch`: types with `CaptureByPc` (what a thread
holds at each place is a capture younger than the TTL and two waits for the lock)
give `LiveAnswersAreRecent`. `FullSleepsAreSpaced`: while no sleep was cut, the
threads that sleep wake `MinInterval` less `LockWait` apart, from each other and from
the last request, and none wakes later than that wait after the last slot
(`SleepsAreSpaced`). `GeminiBudget`: a reservation reads its clock at most `Lag` before it has the lock (`ClocksAreLate`);
one argument is given for a guard of any span and limit and used for the hour and
the day: the ledger holds every call of the last span (`Complete`), so a stretch
that a new call closes is counted by the guard less the lag (`Limited`).
`LedgerKeepsTheDay` and `CallsStayWithinLimits` hold for any limits and any number
of stamps kept: what they say of the hour or the day is for a limit that is no more
than the file keeps, each for itself, and a call younger than a day is given up only
for a file full of later ones. The code keeps 500 and its defaults allow 600 an hour
and 3000 a day: with them neither guard can trip (`QuotaIsGuarded`, violated in the
run `budget_kept`), and only the clients' limit and the last part of
`LedgerIsComplete` are left. A call whose note cannot be written goes ahead and is in no
count.
`HostedSession`: a refresh token belongs to one student, so every session holding
it, and the access token filed under it, are theirs (`SessionsAreOwned`); what a call
holds at each place either outlives it or was refused a fresh one (`CallsHold`),
which needs `Skew < TokenLife`, as in the code.

*Assistant* (`AgentLoop_proofs`). `AgentInv` is the conversation so far: responses
and their results alternate and agree call by call (`Exchange`), and runs and requests
are counted (`ToolsAreBounded`). `TextsAreFromTheTools` needs `SentInv`: whenever the
model is asked, all the evidence of the executions has been sent to it, so a text that
is kept because it is grounded in that evidence has no figure the model made up. `WithinBounds` also limits how often one call runs:
`RepeatsCount` compares the code's counter of a call with the results of it that
the messages hold, which are counted as a set and change by one element a step.
`RepliesAreCoherent` needs that the primary result is the last of its kind that ran
without error, and `ClarificationAssumption`: only the plan handler asks back.

*Planner* (`Campus_proofs`). `PlannerInv` says by stage what there is: a candidate
is what `_build_itinerary` makes (`CandidatesHold`), Plan A is one of them and in
time if either is, a trigger is about Plan A, Plan B goes another way, and the reply
is about the plan chosen. What a build makes is `Built`, from lemmas on its parts:
each leg starts where and when the one before ended (`Leads`), a meal ends before
its hall closes (`Ate`), and a ride boards and leaves at the stops that are
nearest. Nearest stop, first departure and closing time are least elements, which
exist because numbers are well-founded (`FirstOf`).

*Crawl* (`Campus_proofs`). `CrawlInv` says what the three places a page is known in
hold: no list says more than the site serves (`MapGood`), a raw page is of some crawl
(`BodyGood`), a row nobody missed is no newer than its raw page (`RowGood`), and a
page accepted with a stamp is not behind it (`EntryGood`). Each is written apart from
the others and a crawl may die in between; the steps of a crawl keep each by what was
fetched, kept or failed. A crawl `--from-cache` rebuilds from raw pages of any age,
and from then on `CrawlKeepsItsWord` claims nothing about stamps.

*Tools* (`Tools_proofs`). That an answer is what its tool computes from the question
is a simple invariant; the theorems say that it keeps the tool's word for any data on
file, where the run has small ones. Hypotheses are in the specifications of the tools
(`DiningSpec`, `TransitSpec`, `WeatherSpec`, `EventsSpec`, `GisSpec`, `AskSpec`), and
every question of the run `campus` to these tools satisfies them.

- `DiningAnswersHold`: a window of yesterday can be under way only if it ran past
  midnight, and none does once the day's own hours are enough. Hours are of one day
  and none overlaps the end of the night before (`HoursAssumption`); calories are a
  function of the recipe (`DiningAsked`). The merged file stays on disk whatever was
  missing from it, so a later search reads what an earlier one left (`SearchesAgree`);
  a dish without calories is let through a ceiling, as in the code.
- `BusesAreTrue`: departures are strictly ordered by time, route and trip
  (`DeparturesInOrder`), so exactly `limit` of them have fewer than `limit` before
  them (`FirstOnes`) and none left out is earlier. A ride there is, on a trip
  that calls nowhere twice, is found, unless `RideLimit` departures of the stop (25 in
  the code) are no later than it: the property says so, and no question excludes it. A
  lateness below half a day is closest to 0 of the two days tried.
- `WeatherAnswersHold`: the risk of a leg is a greatest element (`MaxOf`, `LevelsOf`),
  hence none below that of an hour that touches it or of an alert
  in effect at some time of it, with its severity and its event; the status of joined
  feeds is read off which of them are stale, partial or missing (`AggregateTells`).
- `EventsAnswersHold`: collapsing duplicates keeps, of the rows that are alike, the
  richest, which exists among finitely many (`PeakOf`), so no two that stay are alike,
  and a row like no other stays. Rows are of the snapshot's month, an all-day row starts at a midnight (`hokieday/events.py` 892),
  and scores and stamps are integers (`EventsAsked`).
- `MapAnswersHold`: padding changes no canonical id, so what a layer is asked for is
  met by the building's own records and entrances and by no other's, whatever width
  each layer pads its numbers to. The door of a route is at the least distance of those
  that qualify. Numbers are written bare or
  padded to the width of the layer, and the two numbers of a record agree
  (`RecordOK`, `EntranceOK`); a layer is read or it is not ({} or {r}).
- `AsksAreKept`: a word of a list is heard by the parser whatever is in the other
  clauses, and the next time of a clock reading is the same or twelve hours later. What
  the assistant proposes goes through `_merge_prefs` and `_plan_handler`: the student's places and
  times replace its own (`AgentPlaces`, `AgentWindow`) and the ceiling is the least of
  those said (`AgentLimits`). A deadline the student did not give is the assistant's.

`PeakOf`, `FewestPast`, `MaxOf`, `MinOf`, `ImageFinite` and `FirstOnes` are general
lemmas on finite sets: a set with a transitive irreflexive relation has a member none
is past. The relation is a set of pairs, since a lemma with an operator for a
parameter cannot be instantiated.

*The student's own time and classes* (`Student_proofs`). The operators here read a
list entry by entry, and a theorem about them is an invariant of the reading: it
holds before the first entry, every entry keeps it, and after the last it says what
the answer promises. A reading is a function of the place reached; that it has one
(`Readings`) and what holds at every place (`Reached`) follow from the least place at
which it would fail, a first-order argument about a set of numbers. `InOrderOf` shows
that a finite set with a strict total order is listed in that order, each member once.

- `FreeTime`: reading the day's entries in order, `merged` holds stretches apart from
  each other that cover exactly what has been read (`AbsorbIs`, `MergeIs`); walking
  over them, the free windows are the gaps between them (`AvailableIs`), and a gap is a
  stretch that no entry of the day overlaps and that cannot be made longer
  (`GapsAreFree`). An entry lasts a day at most, so what overlaps a free window all the
  same began the day before. Entries are finitely many, begin on a day from 0 on, and the shortest window worth telling of
  is not empty (`ScheduleAsked`); the meal's window is not empty (`ScheduleAssumption`).
- `Calendar`, the lines: `LinesRead` says what the machine knows after each line, of the
  event it is in (where it began, what it was told at its own level, how deep it is
  nested: `OpenEvent`) and of those it has finished (each is one event's lines:
  `CleanEvent`). As long as there was no error, every event begun is finished or open
  (`Whole`). How deep a line is nested is counted by the code as a number that stops at
  0, and by the property as a stretch in which more components begin than end:
  `SubOpenIs` makes them the same. The file is any sequence of the six kinds of line.
- `Calendar`, the meetings: `WalkedTo` says which days of the pattern the walk has met,
  kept and passed over after each day (`SkipKeeps`, `VisitKeeps`); `DaysAre` that the
  walk, which goes by weeks, meets the days the pattern names, which goes by days;
  `TicksAre` that UNTIL is compared by day and then by tick. An event is weekly with an
  interval of at least 1, and its times of day are within a day (`EventAsked`).
- `StudentTime` joins both for `OwnTimeSpec`.
- `Catalogue`: a search has seen, after each capture, all CRNs of the captures read and
  the rows that are the first, hence the newest, copy of theirs (`HitsAre`): of the
  section when a term is asked for, of whatever has its CRN when none is; the rows
  cut at the limit are all of them unless the reply says so. An edit goes on from the
  schedule it was given and repeats nothing (`GoesOn`), and what it added was offered
  for one term (`Edited`). A scan for conflicts that stops at the first meeting after
  the end finds every overlap, because meetings are in order of their start
  (`ConflictsAre`). Captures are of different moments and hold a CRN once (`CapturesOK`;
  `ParseTable` reads each CRN once), a schedule holds no record twice, and the weekly
  pattern of a section exists only for one that has times (`ClassesAsked`). Two captures
  of the same second would be taken in the order of their file names, which the model
  has no names for.

Every question of the run `campus` satisfies `ScheduleAsked`, `IcsAsked` and
`ClassesAsked`.

Every safety invariant and every safety action property of the passing runs is thus
a theorem. Only model-checked: liveness (`NoLostLock`, and `Ends` of the publication
and of the assistant). Liveness under fairness and ENABLED are outside what the prover does. So are the
library's induction theorems, which take an operator as a parameter, and with them
folds and RECURSIVE operators, whose value for every input cannot be stated as a
lemma: no module here declares a RECURSIVE operator or uses a fold, and where a
proof needs an induction it is replaced by a least element of a set of numbers.

To be proved about, two things are modelled as sets that the code keeps as filtered
sequences: the ledger of calls and the queue of a client's questions in
`GeminiBudget` are the set of the calls whose stamps they hold, in the order of a
history sequence. The queue's clock is read before its lock is taken and is modelled
with it, for the lock is held for that alone.

## Where words and code part

Seven disagreements have a run. These have none: the models take what the code does.
Where a property covers the case it says what the code does, never the words.

- `POST /api/auth/google` (`app/server.py` 1767-1772) names no host, so its callback is
  on `APP_URL` and a flow begun on another host cannot come home, although
  `auth.py` 430-437 wants the callback on "the host the browser is on", to keep
  "the cookie and the callback together". `SignInComesBack` claims it of the GET route
  only and denies it of the POST route (`ComesHome`).
- "A language model can never invent a deadline" and "a missing deadline becomes a
  clarification instead of an invented one" (`hokieday/agent_tools.py` 53-56, 396-397;
  likewise `app/server.py` 1183-1185), but line 399 of the former falls back to the
  assistant's own `end`. `LiveWindowIsTheStudents` claims the window only when a time was said.
- In live mode a single deadline that has passed is questioned (`app/server.py`
  556-605), two times of day that have both passed are planned with (608-622).
- `/api/ask` reads a calorie ceiling for the assistant only (`app/server.py` 1201);
  when the provider fails, the parser that takes over (1224) has none.
- A dish whose report leaves its calories out counts as 0 and passes a calorie
  ceiling; `hokieday/dining.py` 1202-1204 says such items are dropped. `RowsAreAllowed`
  is about the calories a row states.
- An entry of the day before that runs past midnight is not looked at: free windows
  are those of the entries that start that day (`hokieday/agent_tools.py` 199-231).
- A ride is looked for among the next 25 departures of the stop
  (`hokieday/tools.py` 510-519) and missed behind them; in a trip that calls twice at a
  stop it is timed by the last call there (505-543).
- A card that lists other features and not free food becomes "no free food"
  (`hokieday/events.py` 685-689), where 940-942 and `docs/EVENTS.md` 44-46 have silence
  mean unknown. The property names this exception.
- A section is its term and CRN (`hokieday/classes.py` 968-972), but a search without a
  term drops a match whose CRN a newer capture of another term has (2614-2620, as the
  assistant's search does, `hokieday/agent_tools.py` 305-307).
- A walking route starts at the nearest entrance (`hokieday/vtgis.py` 1704-1716)
  where the docstring (1668-1670) says "For walking, use the official building
  point"; entrances that could not be read are treated as a building without any,
  and a building whose first record has no coordinates is missing from a search.
- An event that was cancelled for having vanished and is advertised again on an
  unchanged page stays cancelled (`scripts/crawl_events.py` 415-419 takes the
  previous row); `docs/EVENTS.md` 197 has "event still advertised this crawl ->
  `scheduled`".

## Not modelled

Several processes over one `CACHE_DIR` or one ledger (one server process is the
documented deployment); the pruning of `_attempts` above 256 keys; sign-up, e-mail
confirmation and password reset, which are forms passed on to Supabase; reading the
timetable zip (`hokieday/gtfs.py` 98) and fetching captures; parsing of HTML and
feeds, projections, `solve_route` between bare points and `walk_fallback` (only a
smoke script and tests call them), rendering, wording and logging, which are
functions of their input and covered by the repository's tests; the browser UI
beyond its account state; one-shot data scripts and notebooks. Each has its reason
in `PROJECT.json`, "components" and "hazards".

## The plan

1. Done: cache, publication, accounts of both servers, sign-in, sessions, quota,
   class search, assistant, planner, crawl and the tools; theorems for every state
   machine and for every tool.
2. Next models: the endpoints of `transit.py` that browse routes, the home page's
   live loop (`ui/home-live.js`), the extraction of a refreshed timetable. Each is a
   function of its input or one more state machine; none changes what is here.
