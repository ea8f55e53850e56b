------------------------------- MODULE Planner -------------------------------
(***************************************************************************)
(* plan_day of hokieday/tools.py: the candidates with and without a bus,   *)
(* the choice of Plan A, the look at the live buses and at the hall's      *)
(* closing time, Plan B, and the answer.                                   *)
(*                                                                         *)
(* Minutes are small integers.  Places lie on a line, so that walks have   *)
(* the lengths of real ones (symmetric, no shorter by a detour) and the    *)
(* nearest stop is a matter of distance.  The timetable is the set of      *)
(* minutes at which a bus that serves both stops leaves the boarding stop, *)
(* whichever it is; every ride takes Ride minutes.                         *)
(*                                                                         *)
(* The clock is pinned for the request (_REQUEST_NOW), at minute 0: a plan *)
(* may start now or later.  What moves while a plan is made are the live   *)
(* buses, first read when Plan A is there, and the registry of places: an  *)
(* origin that is a device's position (never also the destination) can be  *)
(* evicted by other requests.  It is looked up while nothing but the walk  *)
(* from it has been settled, so an eviction in the middle of building is   *)
(* one before or after.                                                    *)
(*                                                                         *)
(* The menu, the hours and the timetable answer with nothing rather than   *)
(* raise (LocalSource), and answer the same throughout one request.        *)
(***************************************************************************)
EXTENDS Integers, Sequences

CONSTANTS Halls,          \* DINING_PLACES, in its order (a sequence)
          Spot,           \* Spot[p]: where a place lies on the line
          Stops,          \* where the bus stops lie
          Starts, Ends,   \* the windows a student asks for
          HourSets,       \* the sets of opening windows a hall may have
          Timetables,     \* the sets of departures there may be
          Ride,           \* minutes on the bus
          LiveRows,       \* the snapshots of live buses, as sequences of rows
          EatMinutes,     \* EAT_MINUTES
          BoardBuffer,    \* MIN_BOARD_BUFFER_MIN
          None

HallSet == {Halls[i] : i \in DOMAIN Halls}

\* An itinerary: its legs, when and where it has got to, and its meal.
Legs == [type : {"walk", "eat", "bus"}, from : Int, to : Int, start : Nat, minutes : Nat,
         dep : Nat \cup {None}]

Plans == [legs : Seq(Legs), at : Nat, place : DOMAIN Spot, pos : Int, bus : BOOLEAN,
          hall : HallSet \cup {None}, eatStart : Nat \cup {None}]

Causes == {"bus_early", "bus_late", "bus_full", "dining_closing"}

ASSUME PlannerAssumption ==
    /\ Halls \in Seq(HallSet) /\ Len(Halls) > 0
    /\ {"origin", "dest"} \cap HallSet = {}
    /\ None \notin Int \cup HallSet \cup Plans \cup Causes
    /\ DOMAIN Spot = HallSet \cup {"origin", "dest"}
    /\ \A p \in DOMAIN Spot : Spot[p] \in Int
    /\ Stops \subseteq Int /\ Stops # {}
    /\ Starts \subseteq Nat /\ Ends \subseteq Nat
    /\ \A hours \in HourSets : hours \subseteq [open : Nat, close : Nat]
    /\ \A deps \in Timetables : deps \subseteq Nat
    /\ \A snapshot \in LiveRows : snapshot \in Seq([delta : Int \cup {None}, full : BOOLEAN])
    /\ Ride \in Nat \ {0} /\ EatMinutes \in Nat \ {0} /\ BoardBuffer \in Nat

VARIABLES request,  \* start, end, to, the hall to eat at, the preference
          world,    \* what the menu, the hours and the timetable sources answer
          known,    \* config.PLACES still has the origin
          pc,
          cands,    \* the candidates built so far: with a bus, then without
          planA, rows, trigger, planB,
          reply

plannerVars == <<request, world, known, pc, cands, planA, rows, trigger, planB, reply>>

Prefers == {"fastest", "bus", "walk"}

NoPlan == [feasible |-> FALSE, code |-> None, plan |-> None]

PlannerInit ==
    /\ request \in [start : Starts, end : Ends, to : {"origin", "dest"},
                eat : {None, Halls[1]}, prefer : Prefers, device : BOOLEAN]
    /\ world \in [menu : SUBSET HallSet, hours : [HallSet -> HourSets], deps : Timetables]
    /\ request.eat = None => (world.menu = {} /\ \A h \in HallSet : world.hours[h] = {})
    /\ known \in BOOLEAN
    /\ request.device => known /\ request.to = "dest"
    /\ pc = "asked"
    /\ cands = << >>
    /\ planA = None /\ rows = << >> /\ trigger = None /\ planB = None
    /\ reply = NoPlan
-----------------------------------------------------------------------------
Surplus(a, b) == IF a > b THEN a - b ELSE 0
Distance(a, b) == Surplus(a, b) + Surplus(b, a)

First(S) == CHOOSE x \in S : \A y \in S : x <= y

\* _place: only the origin can be unknown, or be forgotten.
Found(p) == p # "origin" \/ known

\* An itinerary under construction: t and where it has got to.
Started == [legs |-> << >>, at |-> request.start, place |-> "origin", pos |-> Spot["origin"],
            bus |-> FALSE, hall |-> None, eatStart |-> None]

Then(plan, type, pos, minutes, dep) ==
    [plan EXCEPT !.legs = Append(@, [type |-> type, from |-> plan.pos, to |-> pos,
                                     start |-> plan.at, minutes |-> minutes, dep |-> dep]),
                 !.at = @ + minutes, !.pos = pos]

Walk(plan, pos) == Then(plan, "walk", pos, Distance(plan.pos, pos), None)

\* _walk_result and the leg made of it; an unknown place is a note and no leg.
WalkTo(plan, p) ==
    IF Found(plan.place) /\ Found(p) THEN [Walk(plan, Spot[p]) EXCEPT !.place = p]
    ELSE plan

OpenAt(h, m) == \E w \in world.hours[h] : w.open <= m /\ m < w.close

\* The meal, if something on the menu fits and the hall is open when one gets
\* there.  The way to the hall is walked in any case.
Eat(plan, h) ==
    IF plan.place = h /\ h \in world.menu /\ OpenAt(h, plan.at)
    THEN Then([plan EXCEPT !.eatStart = plan.at, !.hall = h], "eat", plan.pos, EatMinutes, None)
    ELSE plan

Lunch(plan, h) == IF h = None THEN plan ELSE Eat(WalkTo(plan, h), h)

NearestStop(pos) ==
    CHOOSE s \in Stops : \A u \in Stops : Distance(pos, s) <= Distance(pos, u)

\* The ride src.ride_minutes finds: the first to leave at or after t.
Departures(t) == {d \in world.deps : d >= t}

CanRide(plan, to) ==
    /\ Found(plan.place) /\ Found(to)
    /\ NearestStop(plan.pos) # NearestStop(Spot[to])
    /\ Departures(plan.at) # {}

\* Walk to the stop (if it is any way off), wait and ride, walk on.  The ride is
\* the first after the time at which the walk to the stop begins.
RideTo(plan, to) ==
    LET dep == First(Departures(plan.at))
        sa == NearestStop(plan.pos)
        sd == NearestStop(Spot[to])
        there == IF sa = plan.pos THEN plan ELSE Walk(plan, sa)
        rode == Then([there EXCEPT !.bus = TRUE], "bus", sd, Surplus(dep, there.at) + Ride, dep)
    IN  [Walk(rode, Spot[to]) EXCEPT !.place = to]

\* _build_itinerary
Build(h, skipBus) ==
    LET fed == Lunch(Started, h)
        to == request.to
    IN  IF ~skipBus /\ CanRide(fed, to) THEN RideTo(fed, to)
        ELSE IF fed.place # to THEN WalkTo(fed, to)
        ELSE fed
-----------------------------------------------------------------------------
Usable(plan) == plan.legs # << >>
InWindow(plan) == plan.at <= request.end
MeetsDeadline(plan) == InWindow(plan) /\ Usable(plan)

Answer(a) == reply' = a /\ pc' = "done"

\* The checks of _plan_day_impl before anything is built.
Accept ==
    /\ pc = "asked"
    /\ \/ /\ request.end <= request.start
          /\ Answer([NoPlan EXCEPT !.code = "invalid_window"])
       \/ /\ request.end > request.start /\ ~known
          /\ Answer([NoPlan EXCEPT !.code = "unknown_place"])
       \/ /\ request.end > request.start /\ known
          /\ pc' = "build" /\ UNCHANGED reply
    /\ UNCHANGED <<request, world, known, cands, planA, rows, trigger, planB>>

\* _build(False), then _build(True).
BuildCandidate ==
    /\ pc = "build" /\ Len(cands) < 2
    /\ cands' = Append(cands, Build(request.eat, Len(cands) = 1))
    /\ UNCHANGED <<request, world, known, pc, planA, rows, trigger, planB, reply>>

\* The candidate of a pool that arrives first, the one with the bus on a tie
\* (the smallest total and the largest slack are both the earliest arrival).
Earliest(pool) ==
    CHOOSE i \in pool : \A j \in pool :
        cands[i].at < cands[j].at \/ (cands[i].at = cands[j].at /\ i <= j)

\* Mutant of Pool: speed, or preference, beats feasibility.
PoolOfAll ==
    LET all == DOMAIN cands
        wanted == {i \in all : \/ request.prefer = "fastest"
                               \/ request.prefer = "bus" /\ cands[i].bus
                               \/ request.prefer = "walk" /\ ~cands[i].bus}
    IN  IF wanted # {} THEN wanted ELSE all

\* Feasibility beats preference, preference beats speed.
Pool ==
    LET all == DOMAIN cands
        useful == {i \in all : Usable(cands[i])}
        meeting == {i \in all : MeetsDeadline(cands[i])}
        wanted == {i \in meeting : \/ request.prefer = "fastest"
                                   \/ request.prefer = "bus" /\ cands[i].bus
                                   \/ request.prefer = "walk" /\ ~cands[i].bus}
    IN  IF wanted # {} THEN wanted
        ELSE IF meeting # {} THEN meeting
        ELSE IF useful # {} THEN useful
        ELSE all

Choose ==
    /\ pc = "build" /\ Len(cands) = 2
    /\ planA' = cands[Earliest(Pool)]
    /\ pc' = "check"
    /\ UNCHANGED <<request, world, known, cands, rows, trigger, planB, reply>>

LegOf(plan, type) == CHOOSE i \in DOMAIN plan.legs : plan.legs[i].type = type
Arrives(leg) == leg.start + leg.minutes

\* What one live row says of the bus of a plan: early (by more than the wait for
\* it, less the buffer), else late, else full.
RowCause(bus, row) ==
    IF row.delta # None /\ -row.delta > Surplus(bus.minutes - Ride, BoardBuffer) THEN "bus_early"
    ELSE IF row.delta # None /\ Arrives(bus) + row.delta > request.end THEN "bus_late"
    ELSE IF row.full THEN "bus_full"
    ELSE None

BusCause(plan, snapshot) ==
    LET cause == [i \in DOMAIN snapshot |-> RowCause(plan.legs[LegOf(plan, "bus")], snapshot[i])]
        telling == {i \in DOMAIN snapshot : cause[i] # None}
    IN  IF plan.bus /\ telling # {} THEN cause[First(telling)] ELSE None

ClosingTimes(h, m) == {w.close : w \in {x \in world.hours[h] : x.close >= m}}

\* Minutes from now to the closing time against the minutes the plan takes up to
\* the end of the meal.  (An eaten meal always has a closing time ahead.)
MealCause(plan) ==
    IF /\ plan.eatStart # None
       /\ First(ClosingTimes(plan.hall, plan.eatStart))
            < Arrives(plan.legs[LegOf(plan, "eat")]) - request.start
    THEN "dining_closing" ELSE None

\* _replan_trigger
Trigger(plan, snapshot) ==
    LET bus == BusCause(plan, snapshot) IN IF bus # None THEN bus ELSE MealCause(plan)

Check ==
    /\ pc = "check"
    /\ rows' \in LiveRows
    /\ trigger' = Trigger(planA, rows')
    /\ pc' = IF trigger' = None THEN "answer" ELSE "revise"
    /\ UNCHANGED <<request, world, known, cands, planA, planB, reply>>

\* _alternative_eat_location
Alternative(m) ==
    LET fit == {i \in DOMAIN Halls : /\ Halls[i] # request.eat
                                     /\ ClosingTimes(Halls[i], m) # {}
                                     /\ First(ClosingTimes(Halls[i], m)) - m >= EatMinutes}
    IN  IF fit = {} THEN None ELSE Halls[First(fit)]

\* Plan B: on foot, or somewhere else.
Revise ==
    /\ pc = "revise"
    /\ planB' = IF trigger = "dining_closing" THEN Build(Alternative(planA.eatStart), FALSE)
                ELSE Build(request.eat, TRUE)
    /\ pc' = "answer"
    /\ UNCHANGED <<request, world, known, cands, planA, rows, trigger, reply>>

Chosen == IF planB # None THEN planB ELSE planA

\* Mutant of Respond: feasible is Plan A's.
RespondOfPlanA ==
    /\ pc = "answer"
    /\ Answer(IF ~MeetsDeadline(planA) THEN [NoPlan EXCEPT !.code = "deadline_missed"]
              ELSE [feasible |-> TRUE, code |-> None, plan |-> Chosen])
    /\ UNCHANGED <<request, world, known, cands, planA, rows, trigger, planB>>

\* The top-level feasibility is that of the chosen plan; one without a leg is no
\* plan, one that is late is shown as the closest there is.
Respond ==
    /\ pc = "answer"
    /\ Answer(IF ~Usable(Chosen) THEN [NoPlan EXCEPT !.code = "no_legs"]
              ELSE IF ~InWindow(Chosen)
                   THEN [feasible |-> FALSE, code |-> "deadline_missed", plan |-> Chosen]
              ELSE [feasible |-> TRUE, code |-> None, plan |-> Chosen])
    /\ UNCHANGED <<request, world, known, cands, planA, rows, trigger, planB>>

\* register_dynamic_place of other requests evicts the origin.
Evict ==
    /\ request.device /\ known /\ pc # "done"
    /\ known' = FALSE
    /\ UNCHANGED <<request, world, pc, cands, planA, rows, trigger, planB, reply>>

PlannerNext == Accept \/ BuildCandidate \/ Choose \/ Check \/ Revise \/ Respond \/ Evict

PlannerSpec == PlannerInit /\ [][PlannerNext]_plannerVars
-----------------------------------------------------------------------------
TypeOK ==
    /\ pc \in {"asked", "build", "check", "revise", "answer", "done"}
    /\ Len(cands) <= 2
    /\ \A i \in DOMAIN cands : /\ cands[i] \in Plans
                                /\ cands[i].eatStart = None <=> cands[i].hall = None
    /\ {planA, planB} \subseteq Plans \cup {None}
    /\ trigger \in Causes \cup {None}
    /\ trigger # None => pc \in {"revise", "answer", "done"}
    /\ reply.feasible => reply.code = None /\ reply.plan # None

\* The legs lead from the origin to the destination without a gap in place or
\* time.
Connected(plan) ==
    LET legs == plan.legs
        last == Len(legs)
    IN  /\ legs[1].from = Spot["origin"] /\ legs[1].start = request.start
        /\ \A i \in 1..(last - 1) : /\ legs[i].to = legs[i + 1].from
                                    /\ Arrives(legs[i]) = legs[i + 1].start
        /\ legs[last].to = Spot[request.to] /\ Arrives(legs[last]) = plan.at

\* "Feasible" means there is an itinerary, it leads from the origin to the
\* destination leg by leg, and it is there before the deadline, whether it is
\* Plan A or Plan B and whatever was evicted on the way.
FeasibleAnswerArrives ==
    pc = "done" /\ reply.feasible =>
        /\ Usable(reply.plan) /\ InWindow(reply.plan) /\ Connected(reply.plan)

\* "Feasibility beats speed": if a candidate makes the deadline, Plan A does.
DeadlineBeatsSpeed ==
    planA # None /\ (\E i \in DOMAIN cands : MeetsDeadline(cands[i])) => MeetsDeadline(planA)

\* A plan that starts now and that nothing made the planner change is over with
\* the meal before the hall closes.
MealFits ==
    pc = "done" /\ reply.feasible /\ trigger = None /\ request.start = 0 =>
        LET plan == reply.plan IN
        plan.eatStart # None =>
            \E w \in world.hours[plan.hall] :
                w.open <= plan.eatStart /\ plan.eatStart + EatMinutes <= w.close

\* Plan B does without what Plan A was dropped for: the bus, or the hall that
\* closes too early; and there is a Plan B exactly when there is a cause.
PlanBAvoidsTheCause ==
    pc = "done" =>
        /\ trigger # None <=> planB # None
        /\ trigger \in {"bus_early", "bus_late", "bus_full"} => ~planB.bus
        /\ trigger = "dining_closing" => planB.hall # planA.hall

\* A plan that is called feasible is one, from the walk to the meal.
PlanIsSound == TypeOK /\ FeasibleAnswerArrives /\ MealFits

\* The choice, and the second choice, are made for what they are made for.
ChoiceIsSound == DeadlineBeatsSpeed /\ PlanBAvoidsTheCause

\* "The plan aims to reach the stop `wait_min` before departure": one is at the
\* stop when the bus leaves.
BoardsBeforeDeparture ==
    pc = "done" /\ reply.feasible =>
        \A i \in DOMAIN reply.plan.legs :
            LET leg == reply.plan.legs[i] IN leg.type = "bus" => leg.start <= leg.dep
=============================================================================
