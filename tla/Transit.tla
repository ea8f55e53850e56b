------------------------------- MODULE Transit -------------------------------
(***************************************************************************)
(* The bus timetable and the live buses (gtfs.py, livebus.py, the bus      *)
(* tools).  A feed is a set of trips [id, route, service, calls]; calls    *)
(* are [stop, time] in order, in ticks from the midnight of the service    *)
(* day, and may be past the day's end.  Days are numbered.                 *)
(***************************************************************************)
EXTENDS Lookup, Integers, Sequences, FiniteSets

CONSTANTS TransitDay,     \* ticks of a day
          ServiceDays,    \* ServiceDays[s]: days added and not removed in calendar_dates.txt
          Feeds,          \* timetables
          BusStops,          \* stops a name may mean
          Horizons, BoardLimit, RideLimit,
          StaleAfter,     \* STALE_LIVE_MINUTES
          NoRide          \* nothing found

ASSUME TransitAssumption ==
    /\ TransitDay \in Nat /\ StaleAfter \in Nat /\ BoardLimit \in Nat /\ RideLimit \in Nat
    /\ IsFiniteSet(BusStops) /\ Horizons \subseteq Nat

StopTimes == [stop : BusStops, time : Int]

\* A timetable: trips with an id each, that call at stops at some time.
Timetable(feed) ==
    /\ IsFiniteSet(feed)
    /\ \A t \in feed : /\ t.id \in Int /\ t.route \in Int
                       /\ t.calls \in Seq(StopTimes)
                       /\ \A u \in feed : t.id = u.id => t = u

ASSUME FeedsAssumption == \A feed \in Feeds : Timetable(feed)

ASSUME NoRideAssumption == NoRide \notin [trip : UNION Feeds, dep : Int, arrive : Int]

Apart(a, b) == IF a >= b THEN a - b ELSE b - a

\* Mutant: a trip of any day counts.
AnyService(trip, day) == TRUE

ActiveOn(trip, day) == day \in ServiceDays[trip.service]

Earlier(d, e) ==
    \/ d.time < e.time
    \/ d.time = e.time /\ (d.trip.route < e.trip.route
                            \/ (d.trip.route = e.trip.route /\ d.trip.id < e.trip.id))

\* A route may be asked for: `route` is {} or has the one asked for.
Routes == {{}} \cup {{t.route} : t \in UNION Feeds}
OnRoute(feed, route) == {t \in feed : route = {} \/ t.route \in route}

\* The departures of a stop that day, from `at` on.
Ahead(feed, stop, day, at, horizon) ==
    {d \in UNION {{[trip |-> t, time |-> t.calls[i].time] : i \in {j \in DOMAIN t.calls : t.calls[j].stop = stop}} :
                      t \in {u \in feed : ActiveOn(u, day)}} :
        at <= d.time /\ d.time <= at + horizon}

Before(S, d) == {e \in S : Earlier(e, d)}

\* gtfs.next_departures: the first `limit` of them.
NextDepartures(feed, stop, day, at, horizon, limit) ==
    LET ahead == Ahead(feed, stop, day, at, horizon)
    IN  {d \in ahead : Cardinality(Before(ahead, d)) < limit}

\* A trip is shown as live only if a bus that reported lately is on it.
Fresh(bus) == bus.age <= StaleAfter

BoardAsks == [of : {"board"}, feed : Feeds, route : Routes, stop : BusStops, day : {0, 1},
              at : 0..TransitDay - 1, horizon : Horizons, bus : [trip : {1, 3}, age : {StaleAfter, StaleAfter + 1}]]

Board ==
    Reply("board", {[trip |-> d.trip, time |-> d.time,
                     realtime |-> d.trip.id = ask.bus.trip /\ Fresh(ask.bus)] :
                        d \in NextDepartures(OnRoute(ask.feed, ask.route), ask.stop, ask.day, ask.at, ask.horizon, BoardLimit)})

\* The call at `stop` is taken to be the last one of the trip there.
CallAt(trip, stop) ==
    LET at == {i \in DOMAIN trip.calls : trip.calls[i].stop = stop}
    IN  IF at = {} THEN 0 ELSE CHOOSE i \in at : \A j \in at : j <= i

RideTime(trip, from, to) ==
    LET a == CallAt(trip, from)
        b == CallAt(trip, to)
    IN  IF a = 0 \/ b <= a THEN 0 ELSE trip.calls[b].time - trip.calls[a].time

RideAsks == [of : {"ride"}, feed : Feeds, route : Routes, from : BusStops, to : BusStops, day : {0, 1},
             at : 0..TransitDay - 1, horizon : Horizons]

\* LocalSource.ride_minutes: the first of RideLimit departures whose trip goes on to `to`.
RideMinutes(q) ==
    LET deps == NextDepartures(OnRoute(q.feed, q.route), q.from, q.day, q.at, q.horizon, RideLimit)
        good == {d \in deps : RideTime(d.trip, q.from, q.to) \in 1..q.horizon}
        best == CHOOSE d \in good : \A e \in good : ~Earlier(e, d)
    IN  IF good = {} \/ q.from = q.to THEN NoRide
        ELSE [trip |-> best.trip, dep |-> best.time,
              arrive |-> best.time + RideTime(best.trip, q.from, q.to)]

TimeRide == Reply("ride", RideMinutes(ask))

\* schedule_delta: against today's and yesterday's run, the smaller lateness.
ScheduleDelta(trip, stop, now) ==
    LET late == {now - (d * TransitDay + trip.calls[i].time) :
                    d \in {0, -1}, i \in {j \in DOMAIN trip.calls : trip.calls[j].stop = stop}}
    IN  IF late = {} THEN NoRide ELSE CHOOSE x \in late : \A y \in late : Apart(x, 0) <= Apart(y, 0)

\* The trip a bus is on, the day it set out and the lateness it really has.
BusAsks == [of : {"bus"}, feed : Feeds, stop : BusStops, now : 0..TransitDay - 1,
            setOut : {0, -1}, matched : BOOLEAN]

LiveBus ==
    ask.of = "bus" /\ \E t \in ask.feed :
        Reply("bus", [trip |-> t, delta |-> IF ask.matched THEN ScheduleDelta(t, ask.stop, ask.now) ELSE NoRide])

\* A name matches a stop's exactly, as its start, or somewhere in it.
NameAsks == {q \in [of : {"stop"}, exact : SUBSET BusStops, start : SUBSET BusStops, within : SUBSET BusStops] :
                q.exact \subseteq q.start /\ q.start \subseteq q.within}

\* The one member of S, if there is one.
OnlyOf(S) == IF Cardinality(S) = 1 THEN S ELSE {}

\* resolve_stop
ResolveStop(q) ==
    IF OnlyOf(q.exact) # {} THEN OnlyOf(q.exact)
    ELSE IF OnlyOf(q.start) # {} THEN OnlyOf(q.start) ELSE OnlyOf(q.within)

Resolve == Reply("stop", ResolveStop(ask))

TransitNext == Board \/ TimeRide \/ LiveBus \/ Resolve
VisitsOnce(trip) == \A i, j \in DOMAIN trip.calls : trip.calls[i].stop = trip.calls[j].stop => i = j

TransitAsked == ask \in BoardAsks \cup RideAsks \cup BusAsks \cup NameAsks

TransitSpec == answer = NoAnswer /\ TransitAsked /\ [][TransitNext]_lookupVars
-----------------------------------------------------------------------------
\* Trip t can be ridden from one stop to the other, boarding at call i.
Rides(q, t, i) ==
    \E j \in DOMAIN t.calls :
        /\ ActiveOn(t, q.day) /\ i < j /\ t.calls[i].stop = q.from /\ t.calls[j].stop = q.to
        /\ q.at <= t.calls[i].time /\ t.calls[i].time <= q.at + q.horizon
        /\ t.calls[j].time - t.calls[i].time \in 1..q.horizon

(* Every row of a board is a departure that happens on that day, on the      *)
(* route if one is asked for, the first ones come first and none is left out *)
(* for a later one, and a row is live only if a bus reported lately          *)
(* (gtfs.py:217-264, tools.py:703-751).                                      *)
BoardIsRight ==
    Told("board") =>
        /\ \A r \in answer :
             /\ ask.day \in ServiceDays[r.trip.service] /\ ask.at <= r.time
             /\ r.trip \in OnRoute(ask.feed, ask.route)
             /\ \E i \in DOMAIN r.trip.calls : r.trip.calls[i] = [stop |-> ask.stop, time |-> r.time]
             /\ r.realtime => ask.bus.age <= StaleAfter
        /\ \A t \in OnRoute(ask.feed, ask.route) : ask.day \in ServiceDays[t.service] => \A i \in DOMAIN t.calls :
             t.calls[i].stop = ask.stop /\ t.calls[i].time \in ask.at..(ask.at + ask.horizon) =>
                 \/ \E r \in answer : r.trip = t /\ r.time = t.calls[i].time
                 \/ Cardinality(answer) = BoardLimit /\ \A r \in answer : r.time <= t.calls[i].time

(* The ride found departs as its trip does, and on a trip that calls nowhere *)
(* twice it arrives as that trip does.  No such trip is left out for a later *)
(* ride; one is missed only behind RideLimit departures no later than it,    *)
(* where the docstring finds every ride in the window (tools.py:508-519).    *)
(* Of a trip that calls twice at a stop the last calls are taken (524-528),  *)
(* so its ride may be missed or be timed by another round.                   *)
RideIsRight ==
    Told("ride") /\ ask.from # ask.to =>
        /\ answer # NoRide =>
             \E i \in DOMAIN answer.trip.calls :
                 /\ answer.trip.calls[i] = [stop |-> ask.from, time |-> answer.dep]
                 /\ ask.day \in ServiceDays[answer.trip.service] /\ ask.at <= answer.dep
                 /\ answer.trip \in OnRoute(ask.feed, ask.route)
                 /\ VisitsOnce(answer.trip) =>
                      /\ Rides(ask, answer.trip, i)
                      /\ \E j \in DOMAIN answer.trip.calls :
                             answer.trip.calls[j] = [stop |-> ask.to, time |-> answer.arrive]
        /\ \A t \in OnRoute(ask.feed, ask.route) : \A i \in DOMAIN t.calls : VisitsOnce(t) /\ Rides(ask, t, i) =>
             IF answer # NoRide THEN answer.dep <= t.calls[i].time
             ELSE Cardinality({d \in Ahead(OnRoute(ask.feed, ask.route), ask.from, ask.day, ask.at, ask.horizon) :
                                   d.time <= t.calls[i].time}) > RideLimit

(* A lateness of less than half a day is told as it is, on the day it set    *)
(* out or after midnight (livebus.py:151-200).                               *)
LatenessIsRight ==
    Told("bus") /\ ask.matched /\ VisitsOnce(answer.trip) =>
        \A i \in DOMAIN answer.trip.calls :
            LET late == ask.now - (ask.setOut * TransitDay + answer.trip.calls[i].time)
            IN  answer.trip.calls[i].stop = ask.stop /\ 2 * Apart(late, 0) < TransitDay => answer.delta = late

(* A name means a stop only if no other stop matches it as well              *)
(* (tools.py:961-986).                                                       *)
NameIsPlain ==
    Told("stop") => \A s \in answer, t \in BusStops :
        /\ (t \in ask.exact => s \in ask.exact) /\ (t \in ask.start /\ s \notin ask.exact => s = t)
        /\ s \notin ask.start => t \notin ask.within \/ t = s

BusesAsTimetabled == BoardIsRight /\ RideIsRight /\ LatenessIsRight /\ NameIsPlain
=============================================================================
