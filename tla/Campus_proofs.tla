---------------------------- MODULE Campus_proofs ----------------------------
(***************************************************************************)
(* Theorems of Planner, for any campus, timetable, hours and live buses:   *)
(* a plan that is called feasible is a route in time, its meal fits, and   *)
(* Plan A and Plan B are what they are chosen for.  Theorems of EventCrawl,*)
(* for any pages and any number of crawls that fail, die or are resumed:   *)
(* the snapshot vouches for nothing that was not read.                     *)
(***************************************************************************)
EXTENDS Planner, EventCrawl, WellFoundedInduction, TLAPS

-----------------------------------------------------------------------------
(* Least elements, nearest stops and closing times.                        *)
LEMMA FirstOf ==
    ASSUME NEW S, S \subseteq Nat, S # {}
    PROVE  First(S) \in S /\ \A y \in S : First(S) <= y
<1>1. PICK x \in S : \A y \in S : <<y, x>> \notin OpToRel(<, Nat)
  BY NatLessThanWellFounded, WFMin
<1>2. \A y \in S : ~(y < x)
  BY <1>1 DEF OpToRel
<1>3. \A y \in S : x <= y
  BY <1>2
<1> QED
  BY <1>3 DEF First

LEMMA DistanceType ==
    ASSUME NEW a \in Int, NEW b \in Int
    PROVE  Surplus(a, b) \in Nat /\ Distance(a, b) \in Nat
  BY DEF Surplus, Distance

LEMMA NearestStopType ==
    ASSUME NEW pos \in Int
    PROVE  NearestStop(pos) \in Stops /\ NearestStop(pos) \in Int
<1>1. Stops \subseteq Int /\ Stops # {}
  BY PlannerAssumption
<1> DEFINE away == {Distance(pos, s) : s \in Stops}
<1>2. away \subseteq Nat /\ away # {}
  BY <1>1, DistanceType
<1>3. First(away) \in away /\ \A d \in away : First(away) <= d
  BY <1>2, FirstOf
<1>4. \E s \in Stops : \A u \in Stops : Distance(pos, s) <= Distance(pos, u)
  BY <1>3
<1> QED
  BY <1>1, <1>4 DEF NearestStop
-----------------------------------------------------------------------------
(* Plans under construction.                                               *)
\* The legs lead, without a gap, from the origin at the start to where and when
\* the plan has got to.
Leads(plan) ==
    /\ plan.legs = << >> => plan.at = request.start /\ plan.pos = Spot["origin"]
    /\ plan.legs # << >> =>
          /\ plan.legs[1].from = Spot["origin"] /\ plan.legs[1].start = request.start
          /\ plan.legs[Len(plan.legs)].to = plan.pos
          /\ Arrives(plan.legs[Len(plan.legs)]) = plan.at
    /\ \A i \in 1..(Len(plan.legs) - 1) :
          /\ plan.legs[i].to = plan.legs[i + 1].from
          /\ Arrives(plan.legs[i]) = plan.legs[i + 1].start

\* A meal in the plan: when, where, and that the hall was open.
Ate(plan) ==
    /\ plan.eatStart = None <=> plan.hall = None
    /\ \A i \in DOMAIN plan.legs : plan.legs[i].type = "eat" =>
          plan.legs[i].start = plan.eatStart /\ plan.legs[i].minutes = EatMinutes
    /\ plan.eatStart # None =>
          /\ \E i \in DOMAIN plan.legs : plan.legs[i].type = "eat"
          /\ OpenAt(plan.hall, plan.eatStart)

\* What the world may answer, and what a request may ask.
RequestOK ==
    /\ request.start \in Nat /\ request.end \in Nat
    /\ request.to \in {"origin", "dest"} /\ request.eat \in HallSet \cup {None}
    /\ request.device => request.to = "dest"
    /\ world.hours \in [HallSet -> SUBSET [open : Nat, close : Nat]]
    /\ world.deps \subseteq Nat
    /\ known \in BOOLEAN

LEMMA SpotType ==
    /\ \A p \in DOMAIN Spot : Spot[p] \in Int
    /\ DOMAIN Spot = HallSet \cup {"origin", "dest"}
    /\ "origin" \notin HallSet /\ "dest" \notin HallSet /\ None \notin HallSet /\ None \notin Nat
    /\ None \notin Plans /\ None \notin Causes
    /\ Ride \in Nat /\ EatMinutes \in Nat
  BY PlannerAssumption

\* One more leg, as a sequence.
LEMMA AppendLeg ==
    ASSUME NEW legs \in Seq(Legs), NEW leg \in Legs
    PROVE  /\ Append(legs, leg) \in Seq(Legs) /\ Append(legs, leg) # << >>
           /\ Len(Append(legs, leg)) = Len(legs) + 1 /\ Len(legs) \in Nat
           /\ DOMAIN Append(legs, leg) = 1..(Len(legs) + 1)
           /\ Append(legs, leg)[Len(legs) + 1] = leg
           /\ \A i \in 1..Len(legs) : Append(legs, leg)[i] = legs[i]
           /\ legs = << >> <=> Len(legs) = 0
  OBVIOUS

\* `next` is the plan with one more leg.
Extended(plan, next, type, pos, minutes) ==
    LET n == Len(plan.legs) IN
    /\ next.pos = pos /\ next.at = plan.at + minutes /\ next.place = plan.place
    /\ next.bus = plan.bus /\ next.hall = plan.hall /\ next.eatStart = plan.eatStart
    /\ DOMAIN next.legs = 1..(n + 1)
    /\ next.legs[n + 1].type = type
    /\ next.legs[n + 1].start = plan.at /\ next.legs[n + 1].minutes = minutes
    /\ \A i \in 1..n : next.legs[i] = plan.legs[i]

\* A leg takes the plan on; what the plan said before stays.
LEMMA ThenLeads ==
    ASSUME NEW plan \in Plans, Leads(plan),
           NEW type \in {"walk", "eat", "bus"}, NEW pos \in Int, NEW minutes \in Nat,
           NEW dep \in Nat \cup {None}
    PROVE  /\ Then(plan, type, pos, minutes, dep) \in Plans
           /\ Leads(Then(plan, type, pos, minutes, dep))
           /\ Then(plan, type, pos, minutes, dep).legs # << >>
           /\ Extended(plan, Then(plan, type, pos, minutes, dep), type, pos, minutes)
<1> DEFINE leg == [type |-> type, from |-> plan.pos, to |-> pos, start |-> plan.at,
                   minutes |-> minutes, dep |-> dep]
           next == Then(plan, type, pos, minutes, dep)
           n == Len(plan.legs)
<1>1. leg \in Legs /\ plan.legs \in Seq(Legs) /\ plan.at \in Nat /\ plan.pos \in Int
  BY DEF Plans, Legs
<1>2. /\ next.legs = Append(plan.legs, leg) /\ next.at = plan.at + minutes /\ next.pos = pos
      /\ next.place = plan.place /\ next.bus = plan.bus
      /\ next.hall = plan.hall /\ next.eatStart = plan.eatStart
  BY DEF Then, Plans
<1>3. /\ next.legs \in Seq(Legs) /\ next.legs # << >> /\ Len(next.legs) = n + 1 /\ n \in Nat
      /\ DOMAIN next.legs = 1..(n + 1) /\ next.legs[n + 1] = leg
      /\ \A i \in 1..n : next.legs[i] = plan.legs[i]
      /\ plan.legs = << >> <=> n = 0
  BY <1>1, <1>2, AppendLeg
<1>4. next \in Plans
  <2>1. next = [plan EXCEPT !.legs = Append(plan.legs, leg), !.at = plan.at + minutes, !.pos = pos]
    BY DEF Then
  <2>2. Append(plan.legs, leg) \in Seq(Legs) /\ plan.at + minutes \in Nat
    BY <1>1, <1>2, <1>3
  <2> QED
    BY <2>1, <2>2 DEF Plans
<1>5. leg.from = plan.pos /\ leg.to = pos /\ leg.start = plan.at /\ Arrives(leg) = plan.at + minutes
      /\ leg.type = type /\ leg.minutes = minutes
  BY DEF Arrives
<1>6. Leads(next)
  <2>1. next.legs[1].from = Spot["origin"] /\ next.legs[1].start = request.start
    <3>1. CASE n = 0
      BY <3>1, <1>3, <1>5 DEF Leads
    <3>2. CASE n # 0
      BY <3>2, <1>3 DEF Leads
    <3> QED
      BY <3>1, <3>2
  <2>2. next.legs[Len(next.legs)].to = next.pos /\ Arrives(next.legs[Len(next.legs)]) = next.at
    BY <1>2, <1>3, <1>5
  <2>3. ASSUME NEW i \in 1..(Len(next.legs) - 1)
        PROVE  next.legs[i].to = next.legs[i + 1].from /\ Arrives(next.legs[i]) = next.legs[i + 1].start
    <3>1. i \in 1..n /\ n # 0
      BY <2>3, <1>3
    <3>2. next.legs[i] = plan.legs[i] /\ plan.legs # << >>
      BY <3>1, <1>3
    <3>3. CASE i = n
      BY <3>1, <3>2, <3>3, <1>3, <1>5 DEF Leads
    <3>4. CASE i # n
      <4>1. n \in Nat
        BY <1>3
      <4> HIDE DEF n
      <4>2. i \in 1..(n - 1) /\ i + 1 \in 1..n
        BY <3>1, <3>4, <4>1
      <4>3. next.legs[i + 1] = plan.legs[i + 1]
        BY <4>2, <1>3
      <4> QED
        BY <4>2, <4>3, <3>2 DEF Leads, n
    <3> QED
      BY <3>3, <3>4
  <2> QED
    BY <2>1, <2>2, <2>3, <1>3 DEF Leads
<1>7. Extended(plan, next, type, pos, minutes)
  BY <1>2, <1>3, <1>5 DEF Extended
<1> QED
  BY <1>3, <1>4, <1>6, <1>7

\* A leg that is no meal leaves the meal as it was.
LEMMA ThenAte ==
    ASSUME NEW plan \in Plans, NEW next \in Plans, Ate(plan),
           NEW type \in {"walk", "bus"}, NEW pos, NEW minutes,
           Extended(plan, next, type, pos, minutes)
    PROVE  Ate(next)
<1> DEFINE n == Len(plan.legs)
<1>1. /\ next.hall = plan.hall /\ next.eatStart = plan.eatStart
      /\ DOMAIN next.legs = 1..(n + 1) /\ next.legs[n + 1].type = type
      /\ \A i \in 1..n : next.legs[i] = plan.legs[i]
  BY DEF Extended
<1>2. n \in Nat /\ DOMAIN plan.legs = 1..n
  BY DEF Plans
<1> HIDE DEF n
<1>3. \A i \in DOMAIN next.legs : next.legs[i].type = "eat" => i \in 1..n
  BY <1>1, <1>2
<1>4. \A i \in DOMAIN plan.legs : i \in DOMAIN next.legs /\ next.legs[i] = plan.legs[i]
  BY <1>1, <1>2
<1>5. \A i \in DOMAIN next.legs : next.legs[i].type = "eat" =>
          next.legs[i].start = next.eatStart /\ next.legs[i].minutes = EatMinutes
  BY <1>1, <1>2, <1>3 DEF Ate
<1>6. next.eatStart # None =>
          /\ \E i \in DOMAIN next.legs : next.legs[i].type = "eat"
          /\ OpenAt(next.hall, next.eatStart)
  BY <1>1, <1>4 DEF Ate
<1> QED
  BY <1>1, <1>5, <1>6 DEF Ate

\* A plan that holds together, and stands at a place.
Holds(plan) == plan \in Plans /\ Leads(plan) /\ Ate(plan)
Placed(plan) == Holds(plan) /\ plan.pos = Spot[plan.place]

LEMMA StartedHolds ==
    ASSUME RequestOK
    PROVE  Placed(Started) /\ Started.legs = << >> /\ Started.place = "origin"
           /\ ~Started.bus /\ Started.hall = None
<1>1. << >> \in Seq(Legs) /\ Len(<< >>) = 0 /\ DOMAIN << >> = {}
  OBVIOUS
<1>2. Started \in Plans
  BY <1>1, SpotType DEF Started, Plans, RequestOK
<1>3. Leads(Started)
  BY <1>1 DEF Leads, Started
<1>4. Ate(Started)
  BY <1>1 DEF Ate, Started
<1> QED
  BY <1>2, <1>3, <1>4 DEF Placed, Holds, Started

\* On foot from wherever the plan is.
LEMMA WalkHolds ==
    ASSUME NEW plan, Holds(plan), NEW pos \in Int
    PROVE  /\ Holds(Walk(plan, pos)) /\ Walk(plan, pos).legs # << >> /\ Walk(plan, pos).pos = pos
           /\ Walk(plan, pos).place = plan.place /\ Walk(plan, pos).bus = plan.bus
           /\ Walk(plan, pos).hall = plan.hall /\ Walk(plan, pos).eatStart = plan.eatStart
<1>1. plan \in Plans /\ Leads(plan) /\ Ate(plan) /\ plan.pos \in Int
  BY DEF Holds, Plans
<1>2. Distance(plan.pos, pos) \in Nat
  BY <1>1, DistanceType
<1> DEFINE minutes == Distance(plan.pos, pos)
<1> HIDE DEF minutes
<1>3. Walk(plan, pos) = Then(plan, "walk", pos, minutes, None) /\ minutes \in Nat
  BY <1>2 DEF Walk, minutes
<1>4. /\ Walk(plan, pos) \in Plans /\ Leads(Walk(plan, pos)) /\ Walk(plan, pos).legs # << >>
      /\ Extended(plan, Walk(plan, pos), "walk", pos, minutes)
  BY <1>1, <1>3, ThenLeads
<1>5. Ate(Walk(plan, pos))
  BY <1>1, <1>4, ThenAte
<1> QED
  BY <1>4, <1>5 DEF Holds, Extended

\* Calling where one stands by its name changes nothing else.
LEMMA PlaceHolds ==
    ASSUME NEW plan, Holds(plan), NEW p \in DOMAIN Spot, plan.pos = Spot[p],
           NEW next, next = [plan EXCEPT !.place = p]
    PROVE  /\ Placed(next) /\ next.legs = plan.legs /\ next.place = p
           /\ next.bus = plan.bus /\ next.hall = plan.hall
<1>1. plan \in Plans
  BY DEF Holds
<1>2. /\ next \in Plans /\ next.legs = plan.legs /\ next.at = plan.at /\ next.pos = plan.pos
      /\ next.place = p /\ next.bus = plan.bus /\ next.hall = plan.hall /\ next.eatStart = plan.eatStart
  BY <1>1 DEF Plans
<1>3. Leads(next)
  BY <1>2 DEF Leads, Holds
<1>4. Ate(next)
  BY <1>2 DEF Ate, Holds
<1>5. Placed(next)
  BY <1>2, <1>3, <1>4 DEF Placed, Holds
<1> QED
  BY <1>2, <1>5

\* _walk_result and its leg: either nothing happens, or one is there.
LEMMA WalkToPlace ==
    ASSUME NEW plan, Placed(plan), NEW p \in DOMAIN Spot
    PROVE  /\ Placed(WalkTo(plan, p))
           /\ WalkTo(plan, p).bus = plan.bus /\ WalkTo(plan, p).hall = plan.hall
           /\ ~(Found(plan.place) /\ Found(p)) => WalkTo(plan, p) = plan
           /\ Found(plan.place) /\ Found(p) =>
                 WalkTo(plan, p).place = p /\ WalkTo(plan, p).legs # << >>
<1> DEFINE walked == Walk(plan, Spot[p])
<1>1. CASE ~(Found(plan.place) /\ Found(p))
  BY <1>1 DEF WalkTo
<1>2. CASE Found(plan.place) /\ Found(p)
  <2>1. Spot[p] \in Int /\ Holds(plan)
    BY SpotType DEF Placed
  <2>2. /\ Holds(walked) /\ walked.legs # << >> /\ walked.pos = Spot[p]
        /\ walked.bus = plan.bus /\ walked.hall = plan.hall
    BY <2>1, WalkHolds
  <2>3. WalkTo(plan, p) = [walked EXCEPT !.place = p]
    BY <1>2 DEF WalkTo
  <2> HIDE DEF walked
  <2> QED
    BY <1>2, <2>2, <2>3, PlaceHolds
<1> QED
  BY <1>1, <1>2

\* The meal, where the plan stands.
LEMMA EatHolds ==
    ASSUME RequestOK, NEW plan, Placed(plan), plan.hall = None, NEW h \in HallSet
    PROVE  /\ Placed(Eat(plan, h)) /\ Eat(plan, h).place = plan.place
           /\ Eat(plan, h).bus = plan.bus /\ Eat(plan, h).hall \in {None, h}
           /\ Eat(plan, h) = plan \/ (plan.place = h /\ Eat(plan, h).legs # << >>)
<1>1. plan \in Plans /\ Leads(plan) /\ Ate(plan) /\ plan.at \in Nat /\ plan.pos \in Int
  BY DEF Placed, Holds, Plans
<1>2. CASE ~(plan.place = h /\ h \in world.menu /\ OpenAt(h, plan.at))
  BY <1>2 DEF Eat
<1>3. CASE plan.place = h /\ h \in world.menu /\ OpenAt(h, plan.at)
  <2> DEFINE sat == [plan EXCEPT !.eatStart = plan.at, !.hall = h]
             fed == Eat(plan, h)
             n == Len(plan.legs)
  <2>1. fed = Then(sat, "eat", plan.pos, EatMinutes, None)
    BY <1>3 DEF Eat
  <2>2. /\ sat \in Plans /\ sat.legs = plan.legs /\ sat.at = plan.at /\ sat.pos = plan.pos
        /\ sat.place = plan.place /\ sat.bus = plan.bus /\ sat.hall = h /\ sat.eatStart = plan.at
    BY <1>1 DEF Plans
  <2> HIDE DEF sat, fed
  <2>3. Leads(sat)
    BY <1>1, <2>2 DEF Leads
  <2>4. EatMinutes \in Nat /\ None \in Nat \cup {None}
    BY SpotType
  <2>5. /\ fed \in Plans /\ Leads(fed) /\ fed.legs # << >>
        /\ Extended(sat, fed, "eat", plan.pos, EatMinutes)
    BY <1>1, <2>1, <2>2, <2>3, <2>4, ThenLeads
  <2>6. /\ fed.pos = plan.pos /\ fed.place = plan.place /\ fed.bus = plan.bus
        /\ fed.hall = h /\ fed.eatStart = plan.at
        /\ DOMAIN fed.legs = 1..(n + 1) /\ fed.legs[n + 1].type = "eat"
        /\ fed.legs[n + 1].start = plan.at /\ fed.legs[n + 1].minutes = EatMinutes
        /\ \A i \in 1..n : fed.legs[i] = plan.legs[i]
    BY <2>2, <2>5 DEF Extended
  <2>7. n \in Nat /\ DOMAIN plan.legs = 1..n
    BY <1>1 DEF Plans
  <2> HIDE DEF n
  <2>8. \A i \in DOMAIN plan.legs : plan.legs[i].type # "eat"
    <3>1. plan.eatStart = None /\ None \notin Nat
      BY <1>1, SpotType DEF Ate
    <3>2. \A i \in DOMAIN plan.legs : plan.legs[i].start \in Nat
      <4>1. plan.legs \in Seq(Legs)
        BY <1>1 DEF Plans
      <4>2. \A i \in DOMAIN plan.legs : plan.legs[i] \in Legs
        BY <4>1
      <4> QED
        BY <4>2 DEF Legs
    <3> QED
      BY <1>1, <3>1, <3>2 DEF Ate
  <2>9. Ate(fed)
    <3>1. \A i \in DOMAIN fed.legs : fed.legs[i].type = "eat" => i = n + 1
      BY <2>6, <2>7, <2>8
    <3>2. fed.eatStart # None /\ fed.hall # None
      BY <1>1, <2>6, SpotType
    <3>3. n + 1 \in DOMAIN fed.legs /\ OpenAt(fed.hall, fed.eatStart)
      BY <1>3, <2>6, <2>7
    <3> QED
      BY <2>6, <3>1, <3>2, <3>3 DEF Ate
  <2> QED
    BY <1>3, <2>5, <2>6, <2>9 DEF Placed, Holds, fed
<1> QED
  BY <1>2, <1>3

\* What a plan is when it has been to the hall, or could not go.
Fed(plan, h) ==
    /\ Placed(plan) /\ ~plan.bus /\ plan.hall \in {None, h}
    /\ \/ plan.place = "origin" /\ plan.legs = << >>
       \/ plan.place \in HallSet /\ plan.legs # << >>

LEMMA LunchFeeds ==
    ASSUME RequestOK, NEW h \in HallSet \cup {None}
    PROVE  Fed(Lunch(Started, h), h)
<1>1. /\ Placed(Started) /\ Started.legs = << >> /\ Started.place = "origin"
      /\ ~Started.bus /\ Started.hall = None
  BY StartedHolds
<1>2. CASE h = None
  BY <1>1, <1>2 DEF Lunch, Fed
<1>3. CASE h # None
  <2> DEFINE there == WalkTo(Started, h)
  <2>1. h \in HallSet /\ h \in DOMAIN Spot /\ h # "origin"
    BY <1>3, SpotType
  <2>2. /\ Placed(there) /\ there.bus = Started.bus /\ there.hall = Started.hall
        /\ \/ there = Started
           \/ there.place = h /\ there.legs # << >>
    BY <1>1, <2>1, WalkToPlace
  <2>3. Lunch(Started, h) = Eat(there, h)
    BY <1>3 DEF Lunch
  <2> HIDE DEF there
  <2>4. /\ Placed(Eat(there, h)) /\ Eat(there, h).place = there.place
        /\ Eat(there, h).bus = there.bus /\ Eat(there, h).hall \in {None, h}
        /\ Eat(there, h) = there \/ (there.place = h /\ Eat(there, h).legs # << >>)
    BY <1>1, <2>1, <2>2, EatHolds
  <2> QED
    BY <1>1, <2>1, <2>2, <2>3, <2>4 DEF Fed
<1> QED
  BY <1>2, <1>3

\* The way by bus: to the stop, with the bus, on to the destination.
LEMMA RideHolds ==
    ASSUME RequestOK, NEW plan, Placed(plan), NEW to \in DOMAIN Spot, CanRide(plan, to)
    PROVE  /\ Placed(RideTo(plan, to)) /\ RideTo(plan, to).legs # << >>
           /\ RideTo(plan, to).place = to /\ RideTo(plan, to).hall = plan.hall
<1> DEFINE dep == First(Departures(plan.at))
           sa == NearestStop(plan.pos)
           sd == NearestStop(Spot[to])
           there == IF sa = plan.pos THEN plan ELSE Walk(plan, sa)
           aboard == [there EXCEPT !.bus = TRUE]
           minutes == Surplus(dep, there.at) + Ride
           rode == Then(aboard, "bus", sd, minutes, dep)
           walked == Walk(rode, Spot[to])
<1>1. RideTo(plan, to) = [walked EXCEPT !.place = to]
  BY DEF RideTo
<1>2. Holds(plan) /\ plan.at \in Nat /\ plan.pos \in Int /\ Spot[to] \in Int
  BY SpotType DEF Placed, Holds, Plans
<1>3. dep \in Nat
  <2>1. Departures(plan.at) \subseteq Nat /\ Departures(plan.at) # {}
    BY DEF CanRide, Departures, RequestOK
  <2> QED
    BY <2>1, FirstOf
<1>4. sa \in Int /\ sd \in Int
  BY <1>2, NearestStopType
<1> HIDE DEF dep, sa, sd
<1>5. Holds(there) /\ there.hall = plan.hall
  BY <1>2, <1>4, WalkHolds
<1> HIDE DEF there
<1>6. /\ aboard \in Plans /\ aboard.legs = there.legs /\ aboard.at = there.at /\ aboard.pos = there.pos
      /\ aboard.hall = there.hall /\ aboard.eatStart = there.eatStart
  BY <1>5 DEF Holds, Plans
<1> HIDE DEF aboard
<1>7. Leads(aboard) /\ Ate(aboard)
  BY <1>5, <1>6 DEF Holds, Leads, Ate
<1>8. minutes \in Nat
  <2>1. there.at \in Nat /\ Ride \in Nat
    BY <1>5, SpotType DEF Holds, Plans
  <2>2. Surplus(dep, there.at) \in Nat
    BY <1>3, <2>1 DEF Surplus
  <2> QED
    BY <2>1, <2>2
<1> HIDE DEF minutes
<1>9. Holds(rode) /\ rode.hall = plan.hall
  <2>1. rode \in Plans /\ Leads(rode) /\ Extended(aboard, rode, "bus", sd, minutes)
    BY <1>3, <1>4, <1>6, <1>7, <1>8, ThenLeads
  <2>2. Ate(rode)
    BY <1>6, <1>7, <2>1, ThenAte
  <2> QED
    BY <1>5, <1>6, <2>1, <2>2 DEF Holds, Extended
<1> HIDE DEF rode
<1>10. Holds(walked) /\ walked.legs # << >> /\ walked.pos = Spot[to] /\ walked.hall = plan.hall
  BY <1>2, <1>9, WalkHolds
<1> HIDE DEF walked
<1> QED
  BY <1>1, <1>10, PlaceHolds

\* What the planner builds: a route to the destination, or no leg at all.
Built(plan, h, skipBus) ==
    /\ Holds(plan) /\ plan.hall \in {None, h}
    /\ skipBus => ~plan.bus
    /\ plan.legs # << >> => plan.pos = Spot[request.to]

LEMMA BuildBuilds ==
    ASSUME RequestOK, request.to = "origin" => known,
           NEW h \in HallSet \cup {None}, NEW skipBus \in BOOLEAN
    PROVE  Built(Build(h, skipBus), h, skipBus)
<1> DEFINE fed == Lunch(Started, h)
           to == request.to
<1>1. Fed(fed, h)
  BY LunchFeeds
<1>2. to \in DOMAIN Spot /\ to \notin HallSet /\ to \in {"origin", "dest"}
  BY SpotType DEF RequestOK
<1>3. Build(h, skipBus) = IF ~skipBus /\ CanRide(fed, to) THEN RideTo(fed, to)
                          ELSE IF fed.place # to THEN WalkTo(fed, to) ELSE fed
  BY DEF Build
<1> HIDE DEF fed, to
<1>4. Placed(fed) /\ fed.hall \in {None, h} /\ ~fed.bus
  BY <1>1 DEF Fed
<1>5. CASE ~skipBus /\ CanRide(fed, to)
  BY <1>2, <1>3, <1>4, <1>5, RideHolds DEF Built, Placed, to
<1>6. CASE ~(~skipBus /\ CanRide(fed, to)) /\ fed.place # to
  <2>1. Build(h, skipBus) = WalkTo(fed, to)
    BY <1>3, <1>6
  <2>2. /\ Placed(WalkTo(fed, to))
        /\ WalkTo(fed, to).bus = fed.bus /\ WalkTo(fed, to).hall = fed.hall
        /\ ~(Found(fed.place) /\ Found(to)) => WalkTo(fed, to) = fed
        /\ Found(fed.place) /\ Found(to) => WalkTo(fed, to).place = to
    BY <1>2, <1>4, WalkToPlace
  <2>3. Found(to)
    BY <1>2 DEF Found, to
  <2>4. ~Found(fed.place) => fed.legs = << >>
    BY <1>1, SpotType DEF Fed, Found
  <2> QED
    BY <1>4, <2>1, <2>2, <2>3, <2>4 DEF Built, Placed, to
<1>7. CASE ~(~skipBus /\ CanRide(fed, to)) /\ fed.place = to
  BY <1>3, <1>4, <1>7 DEF Built, Placed, to
<1> QED
  BY <1>5, <1>6, <1>7
-----------------------------------------------------------------------------
(* The steps of a request.                                                 *)

\* Candidate by candidate, each is what _build_itinerary makes.
CandidatesHold ==
    /\ cands \in Seq(Plans) /\ Len(cands) <= 2
    /\ \A i \in DOMAIN cands : Built(cands[i], request.eat, i = 2)

\* Plan A is one of both candidates, in time if either is.
PlanAHolds ==
    /\ pc \in {"asked", "build"} => planA = None
    /\ pc \in {"check", "revise", "answer"} => planA # None
    /\ planA # None =>
          /\ Built(planA, request.eat, FALSE)
          /\ (\E i \in DOMAIN cands : MeetsDeadline(cands[i])) => MeetsDeadline(planA)

\* What a trigger, or its absence, says of Plan A.
TriggerHolds ==
    /\ trigger \in Causes \cup {None}
    /\ pc \in {"asked", "build", "check"} => trigger = None
    /\ pc = "revise" => trigger # None
    /\ trigger # None => planA # None
    /\ planA # None /\ pc # "check" =>
          /\ trigger = None => MealCause(planA) = None
          /\ trigger = "dining_closing" => planA.eatStart # None

\* Plan B is there exactly when there is a trigger, and goes another way.
PlanBHolds ==
    /\ pc \in {"asked", "build", "check", "revise"} => planB = None
    /\ pc \in {"answer", "done"} => (trigger # None <=> planB # None)
    /\ planB # None =>
          /\ trigger # "dining_closing" => Built(planB, request.eat, TRUE)
          /\ trigger = "dining_closing" =>
                \E h \in HallSet \cup {None} : (h # None => h # request.eat) /\ Built(planB, h, FALSE)

\* The reply is about the plan that was chosen.
ReplyHolds ==
    /\ reply.feasible \in BOOLEAN
    /\ pc # "done" => ~reply.feasible
    /\ reply.feasible => /\ planA # None /\ reply.code = None
                         /\ reply.plan = Chosen /\ MeetsDeadline(Chosen)

PlannerInv ==
    /\ RequestOK
    /\ pc \in {"asked", "build", "check", "revise", "answer", "done"}
    /\ request.to = "origin" /\ pc \notin {"asked", "done"} => known
    /\ CandidatesHold /\ PlanAHolds /\ TriggerHolds /\ PlanBHolds /\ ReplyHolds

LEMMA PlannerInvInit == PlannerInit => PlannerInv
<1> SUFFICES ASSUME PlannerInit PROVE PlannerInv
  OBVIOUS
<1>1. RequestOK
  <2>1. Halls[1] \in HallSet
    BY PlannerAssumption DEF HallSet
  <2>2. Starts \subseteq Nat /\ Ends \subseteq Nat
    BY PlannerAssumption
  <2>3. request.start \in Nat /\ request.end \in Nat /\ request.to \in {"origin", "dest"}
        /\ request.eat \in HallSet \cup {None} /\ (request.device => request.to = "dest")
    BY <2>1, <2>2 DEF PlannerInit
  <2>4. world.hours \in [HallSet -> HourSets] /\ world.deps \in Timetables
    BY DEF PlannerInit
  <2>5. world.hours \in [HallSet -> SUBSET [open : Nat, close : Nat]] /\ world.deps \subseteq Nat
    BY <2>4, PlannerAssumption
  <2> QED
    BY <2>3, <2>5 DEF PlannerInit, RequestOK
<1>2. cands = << >> /\ cands \in Seq(Plans) /\ Len(cands) = 0 /\ DOMAIN cands = {}
  BY DEF PlannerInit
<1> QED
  BY <1>1, <1>2, SpotType DEF PlannerInit, PlannerInv, CandidatesHold, PlanAHolds, TriggerHolds, PlanBHolds,
     ReplyHolds, NoPlan, Causes

\* What was built stays as good, for the request and the world do not change.
LEMMA BuiltStays ==
    ASSUME UNCHANGED <<request, world>>, NEW plan, NEW h, NEW skipBus
    PROVE  Built(plan, h, skipBus)' <=> Built(plan, h, skipBus)
  BY DEF Built, Holds, Leads, Ate, OpenAt, Arrives

LEMMA TriggerSays ==
    ASSUME PlannerInv, NEW snapshot \in LiveRows
    PROVE  /\ Trigger(planA, snapshot) \in Causes \cup {None}
           /\ Trigger(planA, snapshot) = None => MealCause(planA) = None
           /\ Trigger(planA, snapshot) = "dining_closing" => planA.eatStart # None
<1> DEFINE bus == BusCause(planA, snapshot)
<1>1. bus \in {"bus_early", "bus_late", "bus_full", None}
  <2> DEFINE cause == [i \in DOMAIN snapshot |-> RowCause(planA.legs[LegOf(planA, "bus")], snapshot[i])]
             telling == {i \in DOMAIN snapshot : cause[i] # None}
  <2>1. \A i \in DOMAIN snapshot : cause[i] \in {"bus_early", "bus_late", "bus_full", None}
    BY DEF RowCause
  <2>2. telling \subseteq Nat
    BY PlannerAssumption
  <2> HIDE DEF cause
  <2>3. telling # {} => First(telling) \in telling
    BY <2>2, FirstOf
  <2>4. bus = IF planA.bus /\ telling # {} THEN cause[First(telling)] ELSE None
    BY DEF BusCause, cause
  <2> HIDE DEF telling
  <2>5. telling # {} => cause[First(telling)] \in {"bus_early", "bus_late", "bus_full", None}
    BY <2>1, <2>3 DEF telling
  <2> QED
    BY <2>4, <2>5
<1>2. /\ MealCause(planA) \in {"dining_closing", None}
      /\ MealCause(planA) # None => planA.eatStart # None
  BY DEF MealCause
<1>3. Trigger(planA, snapshot) = IF bus # None THEN bus ELSE MealCause(planA)
  BY DEF Trigger
<1> HIDE DEF bus
<1>4. None \notin Causes
  BY SpotType
<1> QED
  BY <1>1, <1>2, <1>3, <1>4 DEF Causes

\* Facts about a plan that holds: it is a plan, and None is not.
LEMMA BuiltIsPlan ==
    ASSUME NEW plan, NEW h, NEW skipBus, Built(plan, h, skipBus)
    PROVE  plan \in Plans /\ plan # None /\ plan.legs \in Seq(Legs) /\ plan.at \in Nat /\ plan.bus \in BOOLEAN
           /\ (plan.eatStart = None <=> plan.hall = None) /\ plan.hall \in {None, h}
  BY SpotType DEF Built, Holds, Plans, Ate

LEMMA AcceptKeeps == PlannerInv /\ Accept => PlannerInv'
<1> SUFFICES ASSUME PlannerInv, Accept PROVE PlannerInv'
  OBVIOUS
<1>1. /\ pc = "asked" /\ UNCHANGED <<request, world, known, cands, planA, rows, trigger, planB>>
      /\ \/ pc' = "done" /\ reply'.feasible = FALSE
         \/ pc' = "build" /\ known /\ UNCHANGED reply
  BY DEF Accept, Answer, NoPlan
<1>2. RequestOK' /\ (request.to = "origin" /\ pc \notin {"asked", "done"} => known)'
  BY <1>1 DEF PlannerInv, RequestOK
<1>3. CandidatesHold'
  BY <1>1, BuiltStays DEF PlannerInv, CandidatesHold
<1>4. PlanAHolds' /\ TriggerHolds' /\ PlanBHolds'
  BY <1>1 DEF PlannerInv, PlanAHolds, TriggerHolds, PlanBHolds
<1>5. ReplyHolds'
  BY <1>1 DEF PlannerInv, ReplyHolds
<1> QED
  BY <1>1, <1>2, <1>3, <1>4, <1>5 DEF PlannerInv

LEMMA BuildKeeps == PlannerInv /\ BuildCandidate => PlannerInv'
<1> SUFFICES ASSUME PlannerInv, BuildCandidate PROVE PlannerInv'
  OBVIOUS
<1> DEFINE n == Len(cands)
           new == Build(request.eat, n = 1)
<1>1. /\ pc = "build" /\ n < 2 /\ cands' = Append(cands, new)
      /\ UNCHANGED <<request, world, known, pc, planA, rows, trigger, planB, reply>>
  BY DEF BuildCandidate
<1>2. cands \in Seq(Plans) /\ n \in Nat
  BY DEF PlannerInv, CandidatesHold
<1>3. Built(new, request.eat, n = 1)
  <2>1. request.eat \in HallSet \cup {None} /\ RequestOK /\ (request.to = "origin" => known)
    BY <1>1 DEF PlannerInv, RequestOK
  <2>2. (n = 1) \in BOOLEAN
    OBVIOUS
  <2> QED
    BY <2>1, <2>2, BuildBuilds
<1> HIDE DEF new
<1>4. new \in Plans
  BY <1>3, BuiltIsPlan
<1>5. /\ cands' \in Seq(Plans) /\ Len(cands') = n + 1 /\ DOMAIN cands' = 1..(n + 1)
      /\ cands'[n + 1] = new /\ \A i \in 1..n : cands'[i] = cands[i]
  BY <1>1, <1>2, <1>4
<1>6. CandidatesHold'
  <2>1. ASSUME NEW i \in DOMAIN cands' PROVE Built(cands'[i], request.eat, i = 2)
    <3>1. CASE i = n + 1 /\ n = 0
      <4>1. (i = 2) = (n = 1)
        BY <3>1
      <4> QED
        BY <3>1, <4>1, <1>3, <1>5 DEF Built
    <3>2. CASE i = n + 1 /\ n = 1
      BY <3>2, <1>3, <1>5 DEF Built
    <3>3. CASE i # n + 1
      BY <3>3, <1>2, <1>5 DEF PlannerInv, CandidatesHold
    <3>4. n = 0 \/ n = 1
      <4>1. n \in Nat /\ n < 2
        BY <1>1, <1>2
      <4> HIDE DEF n
      <4> QED
        BY <4>1
    <3> QED
      BY <3>1, <3>2, <3>3, <3>4
  <2> QED
    BY <1>1, <1>2, <1>5, <2>1, BuiltStays DEF CandidatesHold
<1>7. RequestOK' /\ PlanAHolds' /\ TriggerHolds' /\ PlanBHolds' /\ ReplyHolds'
  BY <1>1 DEF PlannerInv, RequestOK, PlanAHolds, TriggerHolds, PlanBHolds, ReplyHolds
<1> QED
  BY <1>1, <1>6, <1>7 DEF PlannerInv

\* Plan A is the earliest of a pool that keeps the deadline if any plan does.
LEMMA EarliestOfPool ==
    ASSUME CandidatesHold, Len(cands) = 2
    PROVE  /\ Earliest(Pool) \in DOMAIN cands
           /\ (\E i \in DOMAIN cands : MeetsDeadline(cands[i])) => MeetsDeadline(cands[Earliest(Pool)])
<1>1. DOMAIN cands = {1, 2} /\ cands[1].at \in Nat /\ cands[2].at \in Nat
  BY BuiltIsPlan DEF CandidatesHold
<1>2. Pool \subseteq {1, 2} /\ Pool # {}
  BY <1>1 DEF Pool
<1>3. (\E i \in DOMAIN cands : MeetsDeadline(cands[i])) => \A i \in Pool : MeetsDeadline(cands[i])
  BY <1>1 DEF Pool
<1>4. Earliest(Pool) \in Pool
  <2> DEFINE P == Pool
             least(i) == \A j \in P : cands[i].at < cands[j].at \/ (cands[i].at = cands[j].at /\ i <= j)
  <2>1. P = {1} \/ P = {2} \/ P = {1, 2}
    BY <1>2
  <2> HIDE DEF P
  <2>2. \E i \in P : least(i)
    <3>1. CASE P = {1}
      BY <3>1, <1>1
    <3>2. CASE P = {2}
      BY <3>2, <1>1
    <3>3. CASE P = {1, 2}
      <4>1. CASE cands[1].at <= cands[2].at
        BY <3>3, <4>1, <1>1
      <4>2. CASE cands[2].at < cands[1].at
        BY <3>3, <4>2, <1>1
      <4> QED
        BY <4>1, <4>2, <1>1
    <3> QED
      BY <2>1, <3>1, <3>2, <3>3
  <2> QED
    BY <2>2 DEF Earliest, P
<1> QED
  BY <1>1, <1>2, <1>3, <1>4

LEMMA ChooseKeeps == PlannerInv /\ Choose => PlannerInv'
<1> SUFFICES ASSUME PlannerInv, Choose PROVE PlannerInv'
  OBVIOUS
<1>1. /\ pc = "build" /\ Len(cands) = 2 /\ pc' = "check" /\ planA' = cands[Earliest(Pool)]
      /\ UNCHANGED <<request, world, known, cands, rows, trigger, planB, reply>>
  BY DEF Choose
<1>2. CandidatesHold
  BY DEF PlannerInv
<1> DEFINE e == Earliest(Pool)
<1>3. e \in DOMAIN cands /\ ((\E i \in DOMAIN cands : MeetsDeadline(cands[i])) => MeetsDeadline(cands[e]))
  BY <1>1, <1>2, EarliestOfPool
<1> HIDE DEF e
<1>4. Built(planA', request.eat, e = 2) /\ planA' # None
  BY <1>1, <1>2, <1>3, BuiltIsPlan DEF CandidatesHold, e
<1>5. Built(planA', request.eat, FALSE)
  BY <1>4 DEF Built
<1>6. PlanAHolds'
  <2>1. Built(planA, request.eat, FALSE)'
    BY <1>1, <1>5, BuiltStays
  <2>2. ((\E i \in DOMAIN cands : MeetsDeadline(cands[i])) => MeetsDeadline(planA))'
    BY <1>1, <1>3 DEF MeetsDeadline, InWindow, Usable, e
  <2> QED
    BY <1>1, <1>4, <2>1, <2>2 DEF PlanAHolds
<1>7. CandidatesHold'
  BY <1>1, <1>2, BuiltStays DEF CandidatesHold
<1>8. RequestOK' /\ TriggerHolds' /\ PlanBHolds' /\ ReplyHolds'
  BY <1>1 DEF PlannerInv, RequestOK, TriggerHolds, PlanBHolds, ReplyHolds
<1> QED
  BY <1>1, <1>6, <1>7, <1>8 DEF PlannerInv

LEMMA CheckKeeps == PlannerInv /\ Check => PlannerInv'
<1> SUFFICES ASSUME PlannerInv, Check PROVE PlannerInv'
  OBVIOUS
<1>1. /\ pc = "check" /\ rows' \in LiveRows /\ trigger' = Trigger(planA, rows')
      /\ \/ trigger' = None /\ pc' = "answer"
         \/ trigger' # None /\ pc' = "revise"
      /\ UNCHANGED <<request, world, known, cands, planA, planB, reply>>
  BY DEF Check
<1>2. /\ trigger' \in Causes \cup {None}
      /\ trigger' = None => MealCause(planA) = None
      /\ trigger' = "dining_closing" => planA.eatStart # None
  BY <1>1, TriggerSays
<1>3. TriggerHolds'
  <2>1. MealCause(planA)' = MealCause(planA)
    BY <1>1 DEF MealCause, ClosingTimes, Arrives, LegOf
  <2> QED
    BY <1>1, <1>2, <2>1 DEF TriggerHolds, PlannerInv, PlanAHolds
<1>4. RequestOK' /\ CandidatesHold' /\ PlanAHolds'
  <2>1. CandidatesHold'
    BY <1>1, BuiltStays DEF PlannerInv, CandidatesHold
  <2>2. PlanAHolds'
    <3>1. planA # None => Built(planA, request.eat, FALSE)'
      BY <1>1, BuiltStays DEF PlannerInv, PlanAHolds
    <3> QED
      BY <1>1, <3>1 DEF PlannerInv, PlanAHolds, MeetsDeadline, InWindow, Usable
  <2> QED
    BY <1>1, <2>1, <2>2 DEF PlannerInv, RequestOK
<1>5. PlanBHolds' /\ ReplyHolds'
  BY <1>1 DEF PlannerInv, PlanBHolds, ReplyHolds
<1> QED
  BY <1>1, <1>3, <1>4, <1>5 DEF PlannerInv

\* _alternative_eat_location: another hall, or none.
LEMMA AlternativeIsOther ==
    ASSUME NEW m
    PROVE  Alternative(m) \in HallSet \cup {None} /\ (Alternative(m) # None => Alternative(m) # request.eat)
<1> DEFINE fit == {i \in DOMAIN Halls : /\ Halls[i] # request.eat
                                        /\ ClosingTimes(Halls[i], m) # {}
                                        /\ First(ClosingTimes(Halls[i], m)) - m >= EatMinutes}
<1>1. Alternative(m) = IF fit = {} THEN None ELSE Halls[First(fit)]
  BY DEF Alternative
<1>2. fit \subseteq Nat
  BY PlannerAssumption
<1>3. fit # {} => First(fit) \in fit
  BY <1>2, FirstOf
<1>4. \A i \in fit : Halls[i] \in HallSet /\ Halls[i] # request.eat
  BY DEF HallSet
<1> HIDE DEF fit
<1> QED
  BY <1>1, <1>3, <1>4

LEMMA ReviseKeeps == PlannerInv /\ Revise => PlannerInv'
<1> SUFFICES ASSUME PlannerInv, Revise PROVE PlannerInv'
  OBVIOUS
<1> DEFINE other == Alternative(planA.eatStart)
<1>1. /\ pc = "revise" /\ pc' = "answer"
      /\ planB' = IF trigger = "dining_closing" THEN Build(other, FALSE) ELSE Build(request.eat, TRUE)
      /\ UNCHANGED <<request, world, known, cands, planA, rows, trigger, reply>>
  BY DEF Revise
<1>2. RequestOK /\ (request.to = "origin" => known) /\ request.eat \in HallSet \cup {None} /\ trigger # None
  BY <1>1 DEF PlannerInv, RequestOK, TriggerHolds
<1>3. other \in HallSet \cup {None} /\ (other # None => other # request.eat)
  BY AlternativeIsOther
<1> HIDE DEF other
<1>4. PlanBHolds'
  <2>1. CASE trigger = "dining_closing"
    <3>1. PICK h \in HallSet \cup {None} : h = other
      BY <1>3
    <3>2. Built(planB', h, FALSE) /\ (h # None => h # request.eat)
      BY <1>1, <1>2, <1>3, <2>1, <3>1, BuildBuilds
    <3>3. planB' # None
      BY <3>2, BuiltIsPlan
    <3>4. Built(planB, h, FALSE)'
      BY <3>2, <1>1, BuiltStays
    <3> QED
      BY <1>1, <1>2, <2>1, <3>2, <3>3, <3>4 DEF PlanBHolds
  <2>2. CASE trigger # "dining_closing"
    <3>1. Built(planB', request.eat, TRUE)
      BY <1>1, <1>2, <2>2, BuildBuilds
    <3>2. planB' # None
      BY <3>1, BuiltIsPlan
    <3>3. Built(planB, request.eat, TRUE)'
      BY <3>1, <1>1, BuiltStays
    <3> QED
      BY <1>1, <1>2, <2>2, <3>2, <3>3 DEF PlanBHolds
  <2> QED
    BY <2>1, <2>2
<1>5. CandidatesHold' /\ PlanAHolds'
  <2>1. CandidatesHold'
    BY <1>1, BuiltStays DEF PlannerInv, CandidatesHold
  <2>2. planA # None => Built(planA, request.eat, FALSE)'
    BY <1>1, BuiltStays DEF PlannerInv, PlanAHolds
  <2> QED
    BY <1>1, <2>1, <2>2 DEF PlannerInv, PlanAHolds, MeetsDeadline, InWindow, Usable
<1>6. TriggerHolds'
  <2>1. MealCause(planA)' = MealCause(planA)
    BY <1>1 DEF MealCause, ClosingTimes, Arrives, LegOf
  <2> QED
    BY <1>1, <2>1 DEF PlannerInv, TriggerHolds
<1> QED
  BY <1>1, <1>4, <1>5, <1>6 DEF PlannerInv, RequestOK, ReplyHolds

\* A step that touches neither the plans nor the trigger.
LEMMA PlansStay ==
    ASSUME PlannerInv, UNCHANGED <<request, world, cands, planA, trigger, planB>>
    PROVE  /\ CandidatesHold'
           /\ planA # None =>
                 /\ Built(planA, request.eat, FALSE)'
                 /\ ((\E i \in DOMAIN cands : MeetsDeadline(cands[i])) => MeetsDeadline(planA))'
           /\ MealCause(planA)' = MealCause(planA)
           /\ planB # None =>
                 /\ trigger # "dining_closing" => Built(planB, request.eat, TRUE)'
                 /\ trigger = "dining_closing" =>
                      \E h \in HallSet \cup {None} : (h # None => h # request.eat) /\ Built(planB, h, FALSE)'
<1>1. CandidatesHold'
  BY BuiltStays DEF PlannerInv, CandidatesHold
<1>2. planA # None => Built(planA, request.eat, FALSE)'
  BY BuiltStays DEF PlannerInv, PlanAHolds
<1>3. planA # None => ((\E i \in DOMAIN cands : MeetsDeadline(cands[i])) => MeetsDeadline(planA))'
  BY DEF PlannerInv, PlanAHolds, MeetsDeadline, InWindow, Usable
<1>4. MealCause(planA)' = MealCause(planA)
  BY DEF MealCause, ClosingTimes, Arrives, LegOf
<1>5. planB # None /\ trigger # "dining_closing" => Built(planB, request.eat, TRUE)'
  BY BuiltStays DEF PlannerInv, PlanBHolds
<1>6. ASSUME planB # None, trigger = "dining_closing"
      PROVE  \E h \in HallSet \cup {None} : (h # None => h # request.eat) /\ Built(planB, h, FALSE)'
  BY <1>6, BuiltStays DEF PlannerInv, PlanBHolds
<1> QED
  BY <1>1, <1>2, <1>3, <1>4, <1>5, <1>6

LEMMA RespondKeeps == PlannerInv /\ Respond => PlannerInv'
<1> SUFFICES ASSUME PlannerInv, Respond PROVE PlannerInv'
  OBVIOUS
<1>1. /\ pc = "answer" /\ pc' = "done" /\ UNCHANGED <<request, world, known, cands, planA, rows, trigger, planB>>
      /\ \/ reply'.feasible = FALSE
         \/ /\ reply'.feasible = TRUE /\ reply'.code = None /\ reply'.plan = Chosen
            /\ Usable(Chosen) /\ InWindow(Chosen)
  BY DEF Respond, Answer, NoPlan
<1>2. Chosen' = Chosen /\ (MeetsDeadline(Chosen)' <=> MeetsDeadline(Chosen))
  BY <1>1 DEF Chosen, MeetsDeadline, InWindow, Usable
<1>3. ReplyHolds'
  BY <1>1, <1>2 DEF PlannerInv, PlanAHolds, ReplyHolds, MeetsDeadline
<1>4. CandidatesHold' /\ PlanAHolds' /\ TriggerHolds' /\ PlanBHolds'
  BY <1>1, PlansStay DEF PlannerInv, PlanAHolds, TriggerHolds, PlanBHolds
<1> QED
  BY <1>1, <1>3, <1>4 DEF PlannerInv, RequestOK

LEMMA EvictKeeps ==
    ASSUME PlannerInv, Evict \/ UNCHANGED plannerVars
    PROVE  PlannerInv'
<1>1. /\ UNCHANGED <<request, world, pc, cands, planA, rows, trigger, planB, reply>>
      /\ \/ known' = known
         \/ request.device /\ known' = FALSE
  BY DEF Evict, plannerVars
<1>2. CandidatesHold' /\ PlanAHolds' /\ TriggerHolds' /\ PlanBHolds'
  BY <1>1, PlansStay DEF PlannerInv, PlanAHolds, TriggerHolds, PlanBHolds
<1>3. Chosen' = Chosen /\ (MeetsDeadline(Chosen)' <=> MeetsDeadline(Chosen))
  BY <1>1 DEF Chosen, MeetsDeadline, InWindow, Usable
<1>4. ReplyHolds'
  BY <1>1, <1>3 DEF PlannerInv, ReplyHolds
<1>5. RequestOK' /\ (request.to = "origin" /\ pc \notin {"asked", "done"} => known)'
  BY <1>1 DEF PlannerInv, RequestOK
<1> QED
  BY <1>1, <1>2, <1>4, <1>5 DEF PlannerInv

\* The invariant of a request, from its arrival to its answer.
THEOREM PlannerInvariant == PlannerSpec => []PlannerInv
<1>1. PlannerInv /\ [PlannerNext]_plannerVars => PlannerInv'
  BY AcceptKeeps, BuildKeeps, ChooseKeeps, CheckKeeps, ReviseKeeps, RespondKeeps, EvictKeeps DEF PlannerNext
<1> QED
  BY <1>1, PlannerInvInit, PTL DEF PlannerSpec

\* The closing times after a meal has begun: the first is not before any of the
\* hall's windows that is open then ends.
LEMMA MealIsOver ==
    ASSUME PlannerInv, planA # None, MealCause(planA) = None, request.start = 0, planA.eatStart # None
    PROVE  \E w \in world.hours[planA.hall] :
              w.open <= planA.eatStart /\ planA.eatStart + EatMinutes <= w.close
<1> DEFINE closing == ClosingTimes(planA.hall, planA.eatStart)
           eaten == planA.legs[LegOf(planA, "eat")]
<1>1. Ate(planA) /\ planA \in Plans /\ planA.eatStart \in Nat /\ planA.hall \in HallSet
  BY DEF PlannerInv, PlanAHolds, Built, Holds, Ate, Plans
<1>2. PICK w \in world.hours[planA.hall] : w.open <= planA.eatStart /\ planA.eatStart < w.close
  BY <1>1 DEF Ate, OpenAt
<1>3. \A x \in world.hours[planA.hall] : x.open \in Nat /\ x.close \in Nat
  BY <1>1 DEF PlannerInv, RequestOK
<1>4. w.close \in closing /\ closing \subseteq Nat
  BY <1>1, <1>2, <1>3 DEF ClosingTimes
<1>5. First(closing) \in Nat /\ First(closing) <= w.close
  BY <1>4, FirstOf
<1>6. eaten.start = planA.eatStart /\ eaten.minutes = EatMinutes
  BY <1>1 DEF Ate, LegOf
<1>7. ~(First(closing) < Arrives(eaten) - request.start)
  BY <1>1, SpotType DEF MealCause, Causes
<1>8. ~(First(closing) < planA.eatStart + EatMinutes)
  BY <1>1, <1>6, <1>7, SpotType DEF Arrives
<1> HIDE DEF closing
<1>9. planA.eatStart + EatMinutes <= w.close
  BY <1>1, <1>2, <1>3, <1>5, <1>8, SpotType
<1> QED
  BY <1>2, <1>9

LEMMA PlannerInvSound == PlannerInv => PlanIsSound
<1> SUFFICES ASSUME PlannerInv PROVE PlanIsSound
  OBVIOUS
<1>1. /\ planA # None => Built(planA, request.eat, FALSE)
      /\ planB # None => \E h, s : Built(planB, h, s)
  BY DEF PlannerInv, PlanAHolds, PlanBHolds
<1>2. TypeOK
  <2>1. \A i \in DOMAIN cands : cands[i] \in Plans /\ (cands[i].eatStart = None <=> cands[i].hall = None)
    BY BuiltIsPlan DEF PlannerInv, CandidatesHold
  <2>2. {planA, planB} \subseteq Plans \cup {None}
    BY <1>1, BuiltIsPlan
  <2>3. reply.feasible => reply.code = None /\ reply.plan # None
    BY DEF PlannerInv, ReplyHolds, Chosen
  <2> QED
    BY <2>1, <2>2, <2>3 DEF TypeOK, PlannerInv, CandidatesHold, TriggerHolds
<1>3. FeasibleAnswerArrives
  <2> SUFFICES ASSUME pc = "done", reply.feasible
               PROVE  Usable(reply.plan) /\ InWindow(reply.plan) /\ Connected(reply.plan)
    BY DEF FeasibleAnswerArrives
  <2>1. planA # None /\ reply.plan = Chosen /\ MeetsDeadline(Chosen)
    BY DEF PlannerInv, ReplyHolds
  <2>2. Holds(Chosen) /\ (Chosen.legs # << >> => Chosen.pos = Spot[request.to])
    BY <1>1, <2>1 DEF Chosen, Built
  <2>3. Connected(Chosen)
    BY <2>1, <2>2 DEF Connected, Holds, Leads, MeetsDeadline, Usable
  <2> QED
    BY <2>1, <2>3 DEF MeetsDeadline
<1>4. MealFits
  <2> SUFFICES ASSUME pc = "done", reply.feasible, trigger = None, request.start = 0,
                      reply.plan.eatStart # None
               PROVE  \E w \in world.hours[reply.plan.hall] :
                         w.open <= reply.plan.eatStart /\ reply.plan.eatStart + EatMinutes <= w.close
    BY DEF MealFits
  <2>1. planA # None /\ reply.plan = Chosen /\ planB = None
    BY DEF PlannerInv, ReplyHolds, PlanBHolds
  <2>2. reply.plan = planA /\ MealCause(planA) = None
    BY <2>1 DEF Chosen, PlannerInv, TriggerHolds
  <2> QED
    BY <2>1, <2>2, MealIsOver
<1> QED
  BY <1>2, <1>3, <1>4 DEF PlanIsSound

LEMMA PlannerInvChoice == PlannerInv => ChoiceIsSound
<1> SUFFICES ASSUME PlannerInv PROVE ChoiceIsSound
  OBVIOUS
<1>1. DeadlineBeatsSpeed
  BY DEF DeadlineBeatsSpeed, PlannerInv, PlanAHolds
<1>2. PlanBAvoidsTheCause
  <2> SUFFICES ASSUME pc = "done"
               PROVE  /\ trigger # None <=> planB # None
                      /\ trigger \in {"bus_early", "bus_late", "bus_full"} => ~planB.bus
                      /\ trigger = "dining_closing" => planB.hall # planA.hall
    BY DEF PlanBAvoidsTheCause
  <2>1. trigger # None <=> planB # None
    BY DEF PlannerInv, PlanBHolds
  <2>2. trigger \in Causes => trigger # None
    BY SpotType
  <2>3. ASSUME trigger \in {"bus_early", "bus_late", "bus_full"} PROVE ~planB.bus
    <3>1. planB # None /\ trigger # "dining_closing"
      BY <2>1, <2>2, <2>3 DEF Causes
    <3> QED
      BY <3>1 DEF PlannerInv, PlanBHolds, Built
  <2>4. ASSUME trigger = "dining_closing" PROVE planB.hall # planA.hall
    <3>1. planB # None
      BY <2>1, <2>2, <2>4 DEF Causes
    <3>2. PICK h \in HallSet \cup {None} : (h # None => h # request.eat) /\ Built(planB, h, FALSE)
      BY <3>1, <2>4 DEF PlannerInv, PlanBHolds
    <3>3. planB.hall \in {None, h}
      BY <3>2 DEF Built
    <3>4. planA # None /\ planA.hall = request.eat /\ planA.hall # None
      BY <3>1, <2>1, <2>4 DEF PlannerInv, PlanAHolds, TriggerHolds, Built, Holds, Ate
    <3> QED
      BY <3>2, <3>3, <3>4
  <2> QED
    BY <2>1, <2>3, <2>4
<1> QED
  BY <1>1, <1>2 DEF ChoiceIsSound

\* What plan_day calls feasible is a route in time, from the origin's place to
\* the destination's, without a gap, whatever was evicted while it was made; and
\* a meal in a plan that starts now is over before the hall closes.
THEOREM FeasibleMeansARoute == PlannerSpec => []PlanIsSound
  BY PlannerInvariant, PlannerInvSound, PTL

\* Plan A meets the deadline whenever a candidate does, and Plan B, made exactly
\* when something is in Plan A's way, does without it.
THEOREM ChoicesAreSound == PlannerSpec => []ChoiceIsSound
  BY PlannerInvariant, PlannerInvChoice, PTL
-----------------------------------------------------------------------------
(* EventCrawl.  While no crawl was one --from-cache:                       *)
Entries == [lastmod : Nat \cup {Nothing}, sha : Nat \cup {Nothing}, failed : BOOLEAN]

\* No list says more than the site serves.
MapGood(map) ==
    \A p \in Pages : /\ map[p] \in Nat \cup {Nothing, Unlisted}
                     /\ map[p] \in Nat => map[p] <= site[p].body
                     /\ map[p] = Nothing => ~site[p].stamped

\* A raw page is of some crawl up to n.
BodyGood(body, n) == body = Nothing \/ (body \in Bodies /\ body.at <= n)

\* A row that is not missed is no newer than the raw page.
RowGood(row, body, n) ==
    row # Nothing => /\ row \in Rows /\ row.at <= n
                     /\ row.misses = 0 => body # Nothing /\ row.at <= body.at

\* What was accepted, at the stamp it was accepted with, is behind neither the
\* accepted body nor the row.
EntryGood(entry, row, latest) ==
    /\ entry \in Entries
    /\ entry.lastmod # Nothing =>
          /\ entry.lastmod <= latest
          /\ entry.sha # Nothing => entry.lastmod <= entry.sha
          /\ row # Nothing => entry.lastmod <= row.v

CrawlInv ==
    /\ rebuilt \in BOOLEAN /\ crawls \in Nat
    /\ ~rebuilt =>
          /\ site \in [Pages -> [body : 1..LastVersion, stamped : BOOLEAN, on : SUBSET {"sitemap", "listing"}]]
          /\ copies.map # Nothing => MapGood(copies.map)
          /\ snap # Nothing => snap.generated \in Nat /\ snap.generated <= crawls
          /\ \A p \in Pages : /\ BodyGood(copies.body[p], crawls)
                               /\ RowGood(Previous(p), copies.body[p], crawls)
                               /\ EntryGood(accepted[p], Previous(p), site[p].body)

LEMMA CrawlTypes ==
    /\ LastVersion \in Nat /\ MissThreshold \in Nat /\ 1 \in 1..LastVersion
    /\ Nothing # Unlisted /\ Nothing \notin Nat /\ Unlisted \notin Nat
    /\ Nothing \notin Bodies /\ Nothing \notin Rows
    /\ \A v \in 1..LastVersion : Kind[v] \in {"event", "broken", "elsewhere"}
  BY CrawlAssumption

LEMMA LatestOf ==
    ASSUME NEW n \in Nat, NEW S, S \subseteq 0..n, S # {}
    PROVE  Latest(S) \in S /\ \A u \in S : u <= Latest(S)
<1> DEFINE D == {n - s : s \in S}
<1>1. D \subseteq Nat /\ D # {}
  <2>1. \A s \in S : s \in 0..n
    OBVIOUS
  <2>2. \A s \in 0..n : n - s \in Nat
    OBVIOUS
  <2>3. D # {}
    OBVIOUS
  <2> QED
    BY <2>1, <2>2, <2>3
<1>2. First(D) \in D /\ \A d \in D : First(D) <= d
  BY <1>1, FirstOf
<1>3. PICK t \in S : First(D) = n - t
  BY <1>2
<1>4. ASSUME NEW u \in S PROVE u <= t
  <2>1. t \in 0..n /\ u \in 0..n /\ n - u \in D
    OBVIOUS
  <2>2. First(D) <= n - u
    BY <1>2, <2>1
  <2> HIDE DEF D
  <2> QED
    BY <2>1, <2>2, <1>3
<1> QED
  BY <1>4 DEF Latest

LEMMA CrawlInvInit == CrawlInit => CrawlInv
<1> SUFFICES ASSUME CrawlInit PROVE CrawlInv
  OBVIOUS
<1>1. site \in [Pages -> [body : 1..LastVersion, stamped : BOOLEAN, on : SUBSET {"sitemap", "listing"}]]
  BY CrawlTypes DEF CrawlInit
<1>2. copies.map = Nothing /\ snap = Nothing /\ crawls = 0 /\ rebuilt = FALSE
  BY DEF CrawlInit
<1>3. ASSUME NEW p \in Pages
      PROVE  /\ BodyGood(copies.body[p], crawls)
             /\ RowGood(Previous(p), copies.body[p], crawls)
             /\ EntryGood(accepted[p], Previous(p), site[p].body)
  <2>1. copies.body[p] = Nothing /\ Previous(p) = Nothing /\ accepted[p] = NoEntry
    BY <1>2 DEF CrawlInit, Previous
  <2> QED
    BY <2>1 DEF BodyGood, RowGood, EntryGood, Entries, NoEntry
<1> QED
  BY <1>1, <1>2, <1>3 DEF CrawlInv

\* The site only moves on.
LEMMA SiteKeeps == CrawlInv /\ SiteChanges => CrawlInv'
<1> SUFFICES ASSUME CrawlInv, SiteChanges PROVE CrawlInv'
  OBVIOUS
<1>1. UNCHANGED <<copies, accepted, snap, crawls, rebuilt>>
  BY DEF SiteChanges
<1>0. CASE rebuilt
  BY <1>0, <1>1 DEF CrawlInv
<1> SUFFICES ASSUME ~rebuilt PROVE CrawlInv'
  BY <1>0 DEF CrawlInv
<1>2. /\ site' \in [Pages -> [body : 1..LastVersion, stamped : BOOLEAN, on : SUBSET {"sitemap", "listing"}]]
      /\ \A p \in Pages : site'[p].body >= site[p].body /\ site'[p].stamped = site[p].stamped
  <2>1. PICK p \in Pages :
            \/ \E v \in site[p].body + 1..LastVersion : site' = [site EXCEPT ![p].body = v]
            \/ \E s \in SUBSET {"sitemap", "listing"} : site' = [site EXCEPT ![p].on = s]
    BY DEF SiteChanges
  <2>2. site \in [Pages -> [body : 1..LastVersion, stamped : BOOLEAN, on : SUBSET {"sitemap", "listing"}]]
    BY DEF CrawlInv
  <2>3. CASE \E v \in site[p].body + 1..LastVersion : site' = [site EXCEPT ![p].body = v]
    BY <2>2, <2>3, CrawlTypes
  <2>4. CASE \E s \in SUBSET {"sitemap", "listing"} : site' = [site EXCEPT ![p].on = s]
    BY <2>2, <2>4, CrawlTypes
  <2> QED
    BY <2>1, <2>3, <2>4
<1>3. MapGood(copies.map) => MapGood(copies.map)'
  BY <1>1, <1>2, CrawlTypes DEF MapGood, CrawlInv
<1>4. ASSUME NEW p \in Pages
      PROVE  /\ BodyGood(copies.body[p], crawls)' /\ RowGood(Previous(p), copies.body[p], crawls)'
             /\ EntryGood(accepted[p], Previous(p), site[p].body)'
  <2>1. Previous(p)' = Previous(p) /\ site'[p].body \in Nat /\ site[p].body \in Nat
    BY <1>1, <1>2, CrawlTypes DEF Previous, CrawlInv
  <2> QED
    BY <1>1, <1>2, <2>1 DEF CrawlInv, BodyGood, RowGood, EntryGood, Entries
<1> QED
  BY <1>1, <1>2, <1>3, <1>4 DEF CrawlInv

\* What holds of the outcome of a page in a crawl of the live site.
Judged == {"event", "broken", "elsewhere"}
OutGood(out, map, p) ==
    /\ out.was \in Judged \cup {"reused", "unfetched"}
    /\ BodyGood(out.body, crawls + 1)
    /\ copies.body[p] # Nothing => out.body # Nothing /\ copies.body[p].at <= out.body.at
    /\ out.was = "reused" => map[p] \in Nat /\ accepted[p].lastmod = map[p] /\ Previous(p) # Nothing
    /\ out.was \in Judged =>
          /\ out.body # Nothing
          /\ map[p] \in Nat => map[p] <= out.body.v
          /\ map[p] = Nothing => out.body.v = site[p].body
          /\ accepted[p].lastmod # Nothing => accepted[p].lastmod <= out.body.v

LEMMA OutcomeLive ==
    ASSUME CrawlInv, ~rebuilt, NEW down, NEW map, MapGood(map), NEW p \in Pages
    PROVE  OutGood(Outcome(TRUE, down, map, p), map, p)
<1> DEFINE out == Outcome(TRUE, down, map, p)
           same == Unchanged(map, p)
           body == IF same \/ p \in down THEN copies.body[p] ELSE [v |-> site[p].body, at |-> crawls + 1]
           was == CASE same /\ Previous(p) # Nothing -> "reused"
                    [] body = Nothing \/ (~same /\ p \in down) -> "unfetched"
                    [] OTHER -> Kind[body.v]
<1>1. out.was = was /\ out.body = body
  BY DEF Outcome
<1>2. /\ crawls \in Nat /\ site[p].body \in 1..LastVersion /\ site[p].body \in Nat
      /\ BodyGood(copies.body[p], crawls) /\ EntryGood(accepted[p], Previous(p), site[p].body)
      /\ map[p] \in Nat \cup {Nothing, Unlisted}
      /\ map[p] \in Nat => map[p] <= site[p].body
  BY CrawlTypes DEF CrawlInv, MapGood
<1>3. same => /\ map[p] \in Nat /\ accepted[p].lastmod = map[p]
              /\ accepted[p].sha # Nothing
              /\ copies.body[p] # Nothing /\ copies.body[p].v = accepted[p].sha
  BY <1>2 DEF Unchanged
<1>4. BodyGood(body, crawls + 1) /\ (copies.body[p] # Nothing => body # Nothing /\ copies.body[p].at <= body.at)
  <2>1. CASE same \/ p \in down
    BY <1>2, <2>1 DEF BodyGood, Bodies
  <2>2. CASE ~(same \/ p \in down)
    <3>1. body = [v |-> site[p].body, at |-> crawls + 1]
      BY <2>2
    <3>2. body \in Bodies /\ body # Nothing /\ body.at = crawls + 1
      BY <1>2, <3>1, CrawlTypes DEF Bodies
    <3> QED
      BY <1>2, <3>2 DEF BodyGood, Bodies
  <2> QED
    BY <2>1, <2>2
<1>5. CASE same /\ Previous(p) # Nothing
  <2>1. was = "reused"
    BY <1>3, <1>5
  <2> QED
    BY <1>1, <1>3, <1>4, <1>5, <2>1 DEF OutGood, Judged
<1>6. CASE ~(same /\ Previous(p) # Nothing) /\ (body = Nothing \/ (~same /\ p \in down))
  <2>1. was = "unfetched"
    BY <1>6
  <2> QED
    BY <1>1, <1>4, <2>1 DEF OutGood, Judged
<1>7. CASE ~(same /\ Previous(p) # Nothing) /\ ~(body = Nothing \/ (~same /\ p \in down))
  <2>1. was = Kind[body.v]
    BY <1>7
  <2>2. body \in Bodies
    BY <1>4, <1>7 DEF BodyGood
  <2>3. was \in Judged
    BY <2>1, <2>2, CrawlTypes DEF Judged, Bodies
  <2>4. /\ map[p] \in Nat => map[p] <= body.v
        /\ map[p] = Nothing => body.v = site[p].body
        /\ accepted[p].lastmod # Nothing => accepted[p].lastmod <= body.v
    <3>1. CASE same
      BY <1>2, <1>3, <3>1, CrawlTypes DEF EntryGood
    <3>2. CASE ~same
      <4>1. body.v = site[p].body
        BY <1>7, <3>2
      <4> QED
        BY <1>2, <4>1 DEF EntryGood
    <3> QED
      BY <3>1, <3>2
  <2>5. body # Nothing
    BY <1>7
  <2> HIDE DEF body, was, same
  <2> QED
    BY <1>1, <1>4, <2>3, <2>4, <2>5 DEF OutGood, Judged
<1> QED
  BY <1>5, <1>6, <1>7

\* The row a live crawl gives a page it saw.
LEMMA RowLive ==
    ASSUME CrawlInv, ~rebuilt, NEW map, MapGood(map), NEW p \in Pages, NEW out, OutGood(out, map, p),
           NEW lastmod, lastmod = (IF map[p] = Unlisted THEN Nothing ELSE map[p])
    PROVE  /\ RowGood(RowOf(out, p), out.body, crawls + 1)
           /\ EntryGood(accepted[p], RowOf(out, p), site[p].body)
           /\ EntryGood(AcceptPage(TRUE, out, lastmod, p), RowOf(out, p), site[p].body)
<1>1. /\ crawls \in Nat /\ site[p].body \in Nat
      /\ RowGood(Previous(p), copies.body[p], crawls) /\ BodyGood(copies.body[p], crawls)
      /\ EntryGood(accepted[p], Previous(p), site[p].body)
      /\ lastmod \in Nat \cup {Nothing} /\ (lastmod # Nothing => lastmod = map[p] /\ lastmod <= site[p].body)
  BY CrawlTypes DEF CrawlInv, MapGood
<1>2. RowGood(Previous(p), out.body, crawls + 1)
  BY <1>1 DEF OutGood, RowGood, BodyGood, Bodies, Rows
<1>3. CASE out.was = "event"
  <2>1. out.body \in Bodies /\ out.body.at <= crawls + 1
    BY <1>3 DEF OutGood, BodyGood, Judged
  <2>2. RowOf(out, p) = [v |-> out.body.v, misses |-> 0, status |-> "scheduled", at |-> out.body.at]
    BY <1>3 DEF RowOf
  <2>3. RowOf(out, p) \in Rows
    BY <2>1, <2>2 DEF Rows, Bodies
  <2>4. RowGood(RowOf(out, p), out.body, crawls + 1)
    BY <1>3, <2>1, <2>2, <2>3 DEF RowGood, OutGood, Judged, Bodies
  <2>5. AcceptPage(TRUE, out, lastmod, p) = [lastmod |-> lastmod, sha |-> out.body.v, failed |-> FALSE]
    BY <1>3 DEF AcceptPage
  <2>6. out.body.v \in Nat
    BY <2>1, CrawlTypes DEF Bodies
  <2>7. EntryGood(accepted[p], RowOf(out, p), site[p].body)
    BY <1>1, <1>3, <2>2 DEF EntryGood, OutGood, Judged
  <2>8. lastmod # Nothing => lastmod <= out.body.v
    BY <1>1, <1>3 DEF OutGood, Judged
  <2>9. EntryGood(AcceptPage(TRUE, out, lastmod, p), RowOf(out, p), site[p].body)
    <3> DEFINE entry == [lastmod |-> lastmod, sha |-> out.body.v, failed |-> FALSE]
    <3>1. entry \in Entries
      BY <1>1, <2>6 DEF Entries
    <3>2. entry.lastmod = lastmod /\ entry.sha = out.body.v
      OBVIOUS
    <3>4. AcceptPage(TRUE, out, lastmod, p) = entry
      BY <2>5
    <3> HIDE DEF entry
    <3>3. EntryGood(entry, RowOf(out, p), site[p].body)
      BY <1>1, <2>2, <2>8, <3>1, <3>2 DEF EntryGood
    <3> QED
      BY <3>3, <3>4
  <2> QED
    BY <2>4, <2>7, <2>9
<1>4. CASE out.was = "elsewhere"
  <2>1. RowOf(out, p) = Nothing
    BY <1>4 DEF RowOf
  <2>2. AcceptPage(TRUE, out, lastmod, p) = [lastmod |-> lastmod, sha |-> out.body.v, failed |-> FALSE]
    BY <1>4 DEF AcceptPage
  <2>3. out.body \in Bodies /\ out.body.v \in Nat
    BY <1>4, CrawlTypes DEF OutGood, BodyGood, Judged, Bodies
  <2>4. lastmod # Nothing => lastmod <= out.body.v
    BY <1>1, <1>4 DEF OutGood, Judged
  <2>5. EntryGood(AcceptPage(TRUE, out, lastmod, p), RowOf(out, p), site[p].body)
    <3> DEFINE entry == [lastmod |-> lastmod, sha |-> out.body.v, failed |-> FALSE]
    <3>1. entry \in Entries
      BY <1>1, <2>3 DEF Entries
    <3>2. entry.lastmod = lastmod /\ entry.sha = out.body.v
      OBVIOUS
    <3>4. AcceptPage(TRUE, out, lastmod, p) = entry
      BY <2>2
    <3> HIDE DEF entry
    <3>3. EntryGood(entry, RowOf(out, p), site[p].body)
      BY <1>1, <2>1, <2>4, <3>1, <3>2 DEF EntryGood
    <3> QED
      BY <3>3, <3>4
  <2>6. RowGood(RowOf(out, p), out.body, crawls + 1) /\ EntryGood(accepted[p], RowOf(out, p), site[p].body)
    BY <1>1, <2>1 DEF RowGood, EntryGood
  <2> QED
    BY <2>5, <2>6
<1>5. CASE out.was \in {"broken", "reused", "unfetched"}
  <2>1. RowOf(out, p) = Previous(p)
    BY <1>5 DEF RowOf
  <2>2. \/ AcceptPage(TRUE, out, lastmod, p) = accepted[p]
        \/ AcceptPage(TRUE, out, lastmod, p) = [accepted[p] EXCEPT !.failed = TRUE]
        \/ /\ Previous(p) = Nothing
           /\ AcceptPage(TRUE, out, lastmod, p) = [lastmod |-> lastmod, sha |-> Nothing, failed |-> FALSE]
    BY <1>5 DEF AcceptPage
  <2>3. EntryGood(AcceptPage(TRUE, out, lastmod, p), Previous(p), site[p].body)
    <3> DEFINE entry == AcceptPage(TRUE, out, lastmod, p)
    <3>0. entry = AcceptPage(TRUE, out, lastmod, p)
      OBVIOUS
    <3> HIDE DEF entry
    <3>1. CASE entry = accepted[p]
      BY <1>1, <3>0, <3>1
    <3>2. CASE entry = [accepted[p] EXCEPT !.failed = TRUE]
      <4>1. accepted[p] \in Entries
        BY <1>1 DEF EntryGood
      <4>2. /\ entry \in Entries /\ entry.lastmod = accepted[p].lastmod
            /\ entry.sha = accepted[p].sha
        BY <3>2, <4>1 DEF Entries
      <4> QED
        BY <1>1, <3>0, <4>2 DEF EntryGood
    <3>3. CASE Previous(p) = Nothing /\ entry = [lastmod |-> lastmod, sha |-> Nothing, failed |-> FALSE]
      <4>1. entry \in Entries /\ entry.lastmod = lastmod /\ entry.sha = Nothing
        BY <1>1, <3>3 DEF Entries
      <4> QED
        BY <1>1, <3>0, <3>3, <4>1 DEF EntryGood
    <3> QED
      BY <2>2, <3>0, <3>1, <3>2, <3>3
  <2> QED
    BY <1>1, <1>2, <2>1, <2>3
<1> QED
  BY <1>3, <1>4, <1>5 DEF OutGood, Judged

\* A crawl of the live site leaves good pages and a word it can keep.
LEMMA MissedRow ==
    ASSUME NEW row \in Rows, NEW at \in Nat
    PROVE  /\ Missed(row, at) \in Rows /\ Missed(row, at).at = at /\ Missed(row, at).misses # 0
           /\ Missed(row, at).v = row.v
<1> DEFINE status == IF row.misses + 1 >= MissThreshold THEN "cancelled" ELSE "uncertain"
           missed == [row EXCEPT !.misses = row.misses + 1, !.at = at, !.status = status]
<1>1. missed = Missed(row, at)
  BY DEF Missed
<1>2. status \in {"scheduled", "uncertain", "cancelled"}
  OBVIOUS
<1> HIDE DEF status
<1>3. row.misses + 1 \in Nat /\ row.misses + 1 # 0
  BY DEF Rows
<1>4. missed \in Rows /\ missed.at = at /\ missed.misses = row.misses + 1 /\ missed.v = row.v
  BY <1>2, <1>3 DEF Rows
<1> QED
  BY <1>1, <1>3, <1>4

LEMMA CrawlLiveKeeps ==
    ASSUME CrawlInv, ~rebuilt, NEW down, NEW blocked, NEW dies \in Deaths, Crawl(TRUE, down, blocked, dies)
    PROVE  CrawlInv' /\ (Wrote => CleanIsCurrent /\ FailureIsNoMiss /\ StampIsEarned)
<1> DEFINE lists == Lists(TRUE, down)
           seen  == {p \in Pages : lists.map[p] # Unlisted \/ p \in lists.listing} \ blocked
           out   == [p \in seen |-> Outcome(TRUE, down, lists.map, p)]
           times == PageTimes(out, seen)
           at    == IF times # {} THEN Latest(times) ELSE crawls + 1
           gone  == {p \in Pages \ seen : lists.map[p] = Unlisted /\ Previous(p) # Nothing}
           fresh == [events   |-> [p \in Pages |-> IF p \in seen THEN RowOf(out[p], p)
                                                   ELSE IF p \in gone THEN Missed(Previous(p), at) ELSE Nothing],
                     failures |-> {p \in seen : out[p].was \in {"unfetched", "broken"}},
                     at       |-> at,  generated |-> crawls + 1]
           lastmod(p) == IF lists.map[p] = Unlisted THEN Nothing ELSE lists.map[p]
<1>1. /\ lists.map # Nothing
      /\ crawls' = crawls + 1
      /\ copies' = [map |-> lists.map, listing |-> lists.listing,
                    body |-> [p \in Pages |-> IF p \in seen THEN out[p].body ELSE copies.body[p]]]
      /\ snap' = CASE dies = "fetching" -> snap
                   [] dies = "in snapshot" -> Nothing
                   [] OTHER -> fresh
      /\ accepted' = CASE dies = "never" -> [p \in Pages |-> IF p \in seen THEN AcceptPage(TRUE, out[p], lastmod(p), p)
                                                             ELSE accepted[p]]
                       [] dies = "in state" -> [p \in Pages |-> NoEntry]
                       [] OTHER -> accepted
      /\ rebuilt' = rebuilt
      /\ UNCHANGED site
  BY Zenon DEF Crawl, CrawlInv
<1>2. MapGood(lists.map)
  <2>1. lists.map = SiteMap \/ lists.map = copies.map
    BY DEF Lists
  <2>2. MapGood(SiteMap)
    BY CrawlTypes DEF SiteMap, MapGood, CrawlInv
  <2>3. copies.map # Nothing => MapGood(copies.map)
    BY DEF CrawlInv
  <2> HIDE DEF lists
  <2> QED
    BY <1>1, <2>1, <2>2, <2>3
<1>3. seen \subseteq Pages
  OBVIOUS
<1>4. ASSUME NEW p \in seen PROVE OutGood(out[p], lists.map, p)
  <2>1. out[p] = Outcome(TRUE, down, lists.map, p)
    OBVIOUS
  <2> QED
    BY <1>2, <2>1, OutcomeLive
<1>5. crawls \in Nat /\ crawls + 1 \in Nat
  BY DEF CrawlInv
<1>6. times \subseteq 0..(crawls + 1)
  <2> SUFFICES ASSUME NEW t \in times PROVE t \in 0..(crawls + 1)
    OBVIOUS
  <2>1. CASE \E p \in seen : out[p].was \in Judged /\ t = out[p].body.at
    <3>1. PICK p \in seen : out[p].was \in Judged /\ t = out[p].body.at
      BY <2>1
    <3>2. out[p].body \in Bodies /\ out[p].body.at <= crawls + 1
      BY <1>4, <3>1 DEF OutGood, BodyGood
    <3> HIDE DEF out, seen
    <3> QED
      BY <1>5, <3>1, <3>2 DEF Bodies
  <2>2. CASE \E p \in seen : Previous(p) # Nothing /\ t = Previous(p).at
    BY <1>5, <2>2 DEF CrawlInv, RowGood, Rows
  <2> QED
    BY <2>1, <2>2 DEF PageTimes, Judged
<1>7. at \in 0..(crawls + 1) /\ (times # {} => at \in times)
  <2> HIDE DEF times
  <2>1. CASE times = {}
    BY <1>5, <2>1
  <2>2. CASE times # {}
    <3>1. Latest(times) \in times
      BY <1>5, <1>6, <2>2, LatestOf
    <3> QED
      BY <1>6, <2>2, <3>1
  <2> QED
    BY <2>1, <2>2

<1>8. ASSUME NEW p \in Pages
      PROVE  /\ copies'.body[p] = IF p \in seen THEN out[p].body ELSE copies.body[p]
             /\ fresh.events[p] = IF p \in seen THEN RowOf(out[p], p)
                                  ELSE IF p \in gone THEN Missed(Previous(p), at) ELSE Nothing
  BY <1>1
<1>9. /\ fresh.at = at /\ fresh.generated = crawls + 1
      /\ fresh.failures = {p \in seen : out[p].was \in {"unfetched", "broken"}}
      /\ \A p \in gone : p \in Pages \ seen /\ Previous(p) # Nothing
  OBVIOUS
<1>10. ASSUME NEW p \in Pages
       PROVE  lastmod(p) = IF lists.map[p] = Unlisted THEN Nothing ELSE lists.map[p]
  OBVIOUS
<1>20. \A p \in gone : lists.map[p] = Unlisted
  OBVIOUS
<1>21. ASSUME NEW p \in seen
       PROVE  /\ out[p].was \in Judged => out[p].body.at \in times
              /\ out[p].was \in {"reused", "unfetched"} /\ Previous(p) # Nothing => Previous(p).at \in times
  BY DEF PageTimes, Judged
<1>22. ASSUME NEW t \in times
       PROVE  \E p \in seen : \/ out[p].was \in Judged /\ t = out[p].body.at
                              \/ /\ out[p].was \in {"reused", "unfetched"}
                                 /\ Previous(p) # Nothing /\ t = Previous(p).at
  BY DEF PageTimes, Judged
<1> HIDE DEF lists, seen, out, times, at, gone, fresh, lastmod
<1>11. ASSUME NEW p \in Pages
       PROVE  /\ BodyGood(copies.body[p], crawls) /\ RowGood(Previous(p), copies.body[p], crawls)
              /\ EntryGood(accepted[p], Previous(p), site[p].body)
  BY DEF CrawlInv
<1>12. ASSUME NEW p \in Pages
       PROVE  BodyGood(copies'.body[p], crawls + 1) /\ RowGood(Previous(p), copies'.body[p], crawls + 1)
  <2>1. CASE p \in seen
    <3>1. OutGood(out[p], lists.map, p) /\ copies'.body[p] = out[p].body
      BY <1>4, <1>8, <2>1
    <3> QED
      BY <1>5, <1>11, <3>1 DEF OutGood, BodyGood, RowGood, Bodies, Rows
  <2>2. CASE p \notin seen
    BY <1>5, <1>8, <1>11, <2>2 DEF BodyGood, RowGood, Bodies, Rows
  <2> QED
    BY <2>1, <2>2
<1>13. ASSUME NEW p \in Pages
       PROVE  /\ RowGood(fresh.events[p], copies'.body[p], crawls + 1)
              /\ EntryGood(accepted[p], fresh.events[p], site[p].body)
              /\ p \in seen => EntryGood(AcceptPage(TRUE, out[p], lastmod(p), p), fresh.events[p], site[p].body)
  <2>1. CASE p \in seen
    <3>1. OutGood(out[p], lists.map, p) /\ copies'.body[p] = out[p].body /\ fresh.events[p] = RowOf(out[p], p)
      BY <1>4, <1>8, <2>1
    <3>2. lastmod(p) = IF lists.map[p] = Unlisted THEN Nothing ELSE lists.map[p]
      BY <1>10
    <3>3. /\ RowGood(RowOf(out[p], p), out[p].body, crawls + 1)
          /\ EntryGood(accepted[p], RowOf(out[p], p), site[p].body)
          /\ EntryGood(AcceptPage(TRUE, out[p], lastmod(p), p), RowOf(out[p], p), site[p].body)
      BY <1>2, <3>1, <3>2, RowLive
    <3> QED
      BY <3>1, <3>3
  <2>2. CASE p \in gone
    <3>1. fresh.events[p] = Missed(Previous(p), at) /\ Previous(p) # Nothing /\ p \notin seen
      BY <1>8, <1>9, <2>2
    <3>2. Previous(p) \in Rows
      BY <1>11, <3>1 DEF RowGood
    <3>3. /\ fresh.events[p] \in Rows /\ fresh.events[p].at = at /\ fresh.events[p].misses # 0
          /\ fresh.events[p].v = Previous(p).v
      BY <1>5, <1>7, <3>1, <3>2, MissedRow
    <3>4. at <= crawls + 1
      BY <1>5, <1>7
    <3>5. RowGood(fresh.events[p], copies'.body[p], crawls + 1)
      BY <3>3, <3>4 DEF RowGood
    <3>6. EntryGood(accepted[p], fresh.events[p], site[p].body)
      BY <1>11, <3>1, <3>3 DEF EntryGood
    <3> QED
      BY <1>9, <2>2, <3>1, <3>5, <3>6
  <2>3. CASE p \notin seen \cup gone
    <3>1. fresh.events[p] = Nothing
      BY <1>8, <2>3
    <3> QED
      BY <1>11, <2>3, <3>1 DEF RowGood, EntryGood
  <2> QED
    BY <2>1, <2>2, <2>3
<1>14. ASSUME NEW p \in Pages
       PROVE  RowGood(Previous(p)', copies'.body[p], crawls + 1) /\ EntryGood(accepted'[p], Previous(p)', site[p].body)
  <2>1. \/ snap' = snap /\ accepted' = accepted /\ Previous(p)' = Previous(p)
        \/ Previous(p)' = Nothing /\ accepted' = accepted
        \/ /\ Previous(p)' \in {Nothing, fresh.events[p]}
           /\ \/ accepted'[p] = accepted[p]
              \/ accepted'[p] = NoEntry
              \/ p \in seen /\ accepted'[p] = AcceptPage(TRUE, out[p], lastmod(p), p)
    BY <1>1, Zenon DEF Deaths, Previous
  <2>2. ASSUME NEW row, EntryGood(accepted[p], row, site[p].body)
        PROVE  EntryGood(NoEntry, row, site[p].body) /\ EntryGood(accepted[p], Nothing, site[p].body)
    BY <2>2 DEF EntryGood, NoEntry, Entries
  <2>3. p \in seen => EntryGood(AcceptPage(TRUE, out[p], lastmod(p), p), Nothing, site[p].body)
    BY <1>13 DEF EntryGood
  <2>4. RowGood(Nothing, copies'.body[p], crawls + 1)
    BY DEF RowGood
  <2> QED
    BY <1>11, <1>12, <1>13, <2>1, <2>2, <2>3, <2>4
<1>15. CrawlInv'
  <2>1. copies'.map = lists.map
    BY <1>1
  <2>2. snap' # Nothing => snap'.generated \in Nat /\ snap'.generated <= crawls'
    <3>1. snap' \in {snap, Nothing, fresh}
      BY <1>1
    <3>2. fresh.generated = crawls' /\ crawls' = crawls + 1
      BY <1>1, <1>9
    <3>3. snap # Nothing => snap.generated \in Nat /\ snap.generated <= crawls
      BY DEF CrawlInv
    <3> QED
      BY <1>5, <3>1, <3>2, <3>3
  <2>3. MapGood(copies.map)'
    BY <1>1, <1>2, <2>1 DEF MapGood
  <2>4. ASSUME NEW p \in Pages
        PROVE  /\ BodyGood(copies.body[p], crawls)' /\ RowGood(Previous(p), copies.body[p], crawls)'
               /\ EntryGood(accepted[p], Previous(p), site[p].body)'
    BY <1>1, <1>12, <1>14 DEF BodyGood, RowGood, EntryGood
  <2> QED
    BY <1>1, <1>5, <2>2, <2>3, <2>4 DEF CrawlInv
<1> SUFFICES ASSUME Wrote PROVE CleanIsCurrent /\ FailureIsNoMiss /\ StampIsEarned
  BY <1>15
<1>16. snap' = fresh /\ snap' # Nothing
  <2>1. snap' # Nothing /\ snap'.generated = crawls + 1
    BY <1>1 DEF Wrote
  <2>2. snap' \in {snap, Nothing, fresh}
    BY <1>1
  <2> QED
    BY <1>5, <2>1, <2>2 DEF CrawlInv
<1>17. CleanIsCurrent
  <2> SUFFICES ASSUME NEW p \in Pages, fresh.events[p] # Nothing, p \notin fresh.failures,
                      lists.map[p] # Unlisted
               PROVE  IF lists.map[p] = Nothing THEN fresh.events[p].v = site[p].body
                      ELSE fresh.events[p].v >= lists.map[p]
    BY <1>1, <1>16 DEF CleanIsCurrent
  <2>1. p \in seen /\ p \notin gone
    BY <1>8, <1>20
  <2>2. OutGood(out[p], lists.map, p) /\ fresh.events[p] = RowOf(out[p], p)
    BY <1>4, <1>8, <2>1
  <2>3. out[p].was \in {"event", "elsewhere", "reused"}
    BY <1>9, <2>1, <2>2 DEF OutGood, Judged
  <2>4. lists.map[p] \in Nat \cup {Nothing}
    BY <1>2 DEF MapGood
  <2>5. CASE out[p].was \in {"event", "elsewhere"}
    <3>1. out[p].was = "event" /\ fresh.events[p].v = out[p].body.v
      BY <2>2, <2>5 DEF RowOf
    <3>2. out[p].body.v \in Nat
      BY <2>2, <3>1, CrawlTypes DEF OutGood, Judged, BodyGood, Bodies
    <3> QED
      BY <2>2, <2>4, <3>1, <3>2, CrawlTypes DEF OutGood, Judged
  <2>6. CASE out[p].was = "reused"
    <3>1. fresh.events[p] = Previous(p) /\ lists.map[p] \in Nat /\ accepted[p].lastmod = lists.map[p]
      BY <2>2, <2>6 DEF RowOf, OutGood
    <3>2. fresh.events[p].v \in Nat /\ lists.map[p] <= fresh.events[p].v
      BY <1>11, <3>1, CrawlTypes DEF RowGood, EntryGood, Rows
    <3> QED
      BY <3>1, <3>2, CrawlTypes
  <2> QED
    BY <2>3, <2>5, <2>6
<1>18. FailureIsNoMiss
  <2> SUFFICES ASSUME NEW p \in fresh.failures PROVE fresh.events[p] = Previous(p)
    BY <1>16 DEF FailureIsNoMiss
  <2>1. p \in seen /\ out[p].was \in {"unfetched", "broken"}
    BY <1>9
  <2>2. fresh.events[p] = RowOf(out[p], p)
    BY <1>3, <1>8, <2>1
  <2> QED
    BY <2>1, <2>2 DEF RowOf
<1>19. StampIsEarned
  <2> SUFFICES ASSUME NEW r \in Pages, fresh.events[r] # Nothing,
                      \A p \in Pages : fresh.events[p] # Nothing => fresh.events[p].misses = 0
               PROVE  \E p \in Pages : copies'.body[p] # Nothing /\ at <= copies'.body[p].at
    BY <1>9, <1>16 DEF StampIsEarned
  <2>1. ASSUME NEW p \in gone PROVE FALSE
    <3>1. p \in Pages /\ Previous(p) # Nothing /\ fresh.events[p] = Missed(Previous(p), at)
      BY <1>8, <1>9
    <3>2. Previous(p) \in Rows
      BY <1>11, <3>1 DEF RowGood
    <3>3. Missed(Previous(p), at) \in Rows /\ Missed(Previous(p), at).misses # 0
      BY <1>5, <1>7, <3>2, MissedRow
    <3> QED
      BY <3>1, <3>3, CrawlTypes
  <2>2. r \in seen /\ fresh.events[r] = RowOf(out[r], r) /\ OutGood(out[r], lists.map, r)
    BY <1>4, <1>8, <2>1
  <2>3. times # {}
    BY <1>21, <2>2 DEF RowOf, OutGood, Judged
  <2>4. PICK q \in seen : \/ out[q].was \in Judged /\ at = out[q].body.at
                          \/ /\ out[q].was \in {"reused", "unfetched"}
                             /\ Previous(q) # Nothing /\ at = Previous(q).at
    BY <1>7, <1>22, <2>3
  <2>5. q \in Pages /\ copies'.body[q] = out[q].body /\ fresh.events[q] = RowOf(out[q], q) /\ OutGood(out[q], lists.map, q)
    BY <1>3, <1>4, <1>8
  <2>6. CASE out[q].was \in Judged /\ at = out[q].body.at
    BY <1>5, <1>7, <2>5, <2>6 DEF OutGood
  <2>7. CASE out[q].was \in {"reused", "unfetched"} /\ Previous(q) # Nothing /\ at = Previous(q).at
    <3>1. fresh.events[q] = Previous(q)
      BY <2>5, <2>7 DEF RowOf
    <3> QED
      BY <1>13, <2>5, <2>7, <3>1 DEF RowGood
  <2> QED
    BY <2>4, <2>6, <2>7
<1> QED
  BY <1>17, <1>18, <1>19

LEMMA CrawlStep == CrawlInv /\ [CrawlNext]_crawlVars =>
    CrawlInv' /\ (Wrote /\ ~rebuilt' => CleanIsCurrent /\ FailureIsNoMiss /\ StampIsEarned)
<1> SUFFICES ASSUME CrawlInv, [CrawlNext]_crawlVars
             PROVE  CrawlInv' /\ (Wrote /\ ~rebuilt' => CleanIsCurrent /\ FailureIsNoMiss /\ StampIsEarned)
  OBVIOUS
<1>1. CASE SiteChanges
  BY <1>1, SiteKeeps DEF SiteChanges, Wrote
<1>2. CASE CrawlLive
  <2>1. PICK down \in SUBSET (Pages \cup {"sitemap", "listing"}), blocked \in SUBSET Pages, dies \in Deaths :
            Crawl(TRUE, down, blocked, dies)
    BY <1>2 DEF CrawlLive
  <2>2. CASE rebuilt
    <3>1. rebuilt' = TRUE /\ crawls' = crawls + 1
      BY <2>1, <2>2 DEF Crawl
    <3> QED
      BY <3>1 DEF CrawlInv
  <2> QED
    BY <2>1, <2>2, CrawlLiveKeeps
<1>3. CASE FromCache
  <2>1. rebuilt' = TRUE /\ crawls' = crawls + 1
    BY <1>3, Zenon DEF FromCache, Crawl, CrawlInv
  <2> QED
    BY <2>1 DEF CrawlInv
<1>4. CASE UNCHANGED crawlVars
  BY <1>4 DEF crawlVars, CrawlInv, MapGood, BodyGood, RowGood, EntryGood, Previous, Wrote
<1> QED
  BY <1>1, <1>2, <1>3, <1>4 DEF CrawlNext

(* What the page bodies, the rows and the two files of a crawl may hold,     *)
(* wherever earlier crawls died (crawl_events.py).                           *)
THEOREM CrawlInvariant == CrawlSpec => []CrawlInv
<1>1. CrawlInv /\ [CrawlNext]_crawlVars => CrawlInv'
  BY CrawlStep
<1> QED
  BY <1>1, CrawlInvInit, PTL DEF CrawlSpec

\* A crawl of the live site vouches for nothing it did not get: a row without a
\* recorded failure is as new as the site says, a failed page keeps its row, and
\* the snapshot is not stamped newer than what is on disk - whatever was down or
\* disallowed, and wherever earlier crawls died.
THEOREM CrawlsKeepTheirWord == CrawlSpec => CrawlKeepsItsWord
<1>1. CrawlInv /\ [CrawlNext]_crawlVars =>
          [Wrote /\ ~rebuilt' => CleanIsCurrent /\ FailureIsNoMiss /\ StampIsEarned]_crawlVars
  BY CrawlStep
<1> QED
  BY <1>1, CrawlInvariant, PTL DEF CrawlSpec, CrawlKeepsItsWord
=============================================================================
