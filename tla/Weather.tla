------------------------------- MODULE Weather -------------------------------
(***************************************************************************)
(* Weather (weather.py): the feeds of the National Weather Service, what   *)
(* the aggregate of several says about their state, and the risk of a leg. *)
(* A feed on file is "fresh", "stale" or "down"; levels are 0 (none) to 4  *)
(* (severe), Unclear for unknown; times are hours.                         *)
(***************************************************************************)
EXTENDS Lookup, Integers, FiniteSets, FiniteSetsExt

CONSTANTS Unclear, Missing   \* the unknown level; a value a period leaves out

ASSUME WeatherAssumption == Unclear \notin Int /\ Missing \notin Int

FeedStates == {"fresh", "stale", "down"}

Source(feed) ==
    [status |-> CASE feed = "fresh" -> "ok" [] feed = "stale" -> "stale" [] OTHER -> "unavailable",
     stale  |-> feed # "fresh"]

Has(sources, status) == \E n \in DOMAIN sources : sources[n].status = status

\* Mutant: a stale feed hides that another is partial or down.
MixedStaleFirst(sources) ==
    IF Has(sources, "stale") THEN "stale"
    ELSE IF Has(sources, "unavailable") \/ Has(sources, "partial") THEN "partial" ELSE "ok"

Mixed(sources) ==
    IF Has(sources, "unavailable") \/ Has(sources, "partial") THEN "partial"
    ELSE IF Has(sources, "stale") THEN "stale" ELSE "ok"

\* _aggregate
Aggregate(sources, primary) ==
    [status |-> IF \/ \A n \in DOMAIN sources : sources[n].status = "unavailable"
                   \/ primary \in DOMAIN sources /\ sources[primary].status = "unavailable"
                THEN "unavailable" ELSE Mixed(sources),
     stale  |-> \E n \in DOMAIN sources : sources[n].stale \/ sources[n].status = "unavailable"]

Named(n, source) == [x \in {n} |-> source]

\* What f says, and what else g says: @@, of which the provers have no definition.
With(f, g) == [x \in DOMAIN f \cup DOMAIN g |-> IF x \in DOMAIN f THEN f[x] ELSE g[x]]

\* A question has the state of every feed, whether the point's metadata links to
\* the others, the alerts each feed lists and the hours the forecast starts at.
\* A feed whose address the point metadata gives.
Linked(q, feed) == IF q.linked THEN Source(feed) ELSE Source("down")

\* hourly_windows, forecast_strip: the first hours that start from now on.
Hourly(q) ==
    LET sources == With(Named("points", Source(q.points)),
                        IF q.points = "down" THEN <<>> ELSE Named("hourly", Linked(q, q.hourly)))
        agg     == Aggregate(sources, "hourly")
        ahead   == {h \in q.starts : q.now <= h}
    IN  [status |-> agg.status, stale |-> agg.stale,
         windows |-> IF agg.status = "unavailable" THEN {}
                     ELSE {h \in ahead : Cardinality({g \in ahead : g < h}) < q.hours}]

\* active_alerts: the alerts of the point and of its zone, each once.
ActiveAlerts(q) ==
    LET zone == IF q.points = "down" THEN Source("down") ELSE Linked(q, q.zoneAlerts)
        read(source, alerts) == IF source.status = "unavailable" THEN {} ELSE alerts
        agg  == Aggregate(With(Named("point", Source(q.pointAlerts)), Named("zone", zone)), "none")
    IN  [status |-> agg.status, stale |-> agg.stale,
         alerts |-> read(Source(q.pointAlerts), q.atPoint) \cup read(zone, q.inZone)]

\* latest_observation, at the station nearest to the point.
Observation(q) ==
    LET stations == With(Named("points", Source(q.points)),
                         IF q.points = "down" THEN <<>> ELSE Named("stations", Linked(q, q.stations)))
        found    == Aggregate(stations, "stations").status # "unavailable"
    IN  Aggregate(With(stations, Named("observation", IF found THEN Source(q.observation) ELSE Source("down"))),
                  "observation")

Forecast == Reply("feeds", [hourly |-> Hourly(ask), alerts |-> ActiveAlerts(ask),
                          observation |-> Observation(ask)])
-----------------------------------------------------------------------------
(* Risk.  A period is [from, to, precip, token, thunder, temp, wind], an     *)
(* alert [from, to, severity, severe]; a leg is [outdoor, from, to].         *)
Bands == [precip |-> <<20, 40, 60>>, heat |-> <<999, 32, 35, 39>>,
          cold |-> <<-999, 0, -10, -18>>, wind |-> <<999, 30, 45, 65>>]
ThunderLevel == 3
SevereEventLevel == 3
SeverityLevel == [Extreme |-> 4, Severe |-> 3, Moderate |-> 2, Minor |-> 1, Unknown |-> 1]

Band(value, bands)     == Max({0} \cup {i \in DOMAIN bands : value >= bands[i]})
BandBelow(value, bands) == Max({0} \cup {i \in DOMAIN bands : value <= bands[i]})

Overlaps(a, b, from, to) == a < to /\ b > from

\* An alert without a time is in effect; so is one that has no end yet.
AlertOverlaps(alert, leg) ==
    (alert.from # Missing => alert.from < leg.to) /\ (alert.to # Missing => alert.to > leg.from)

AlertLevel(alert) ==
    Max({SeverityLevel[alert.severity], IF alert.severe THEN SevereEventLevel ELSE 0})

HasGap(p) == (p.precip = Missing /\ ~p.token) \/ p.temp = Missing \/ p.wind = Missing

\* assess_leg
AssessLeg(leg, periods, alerts) ==
    LET over == {p \in periods : Overlaps(p.from, p.to, leg.from, leg.to)}
        precip == {p.precip : p \in over} \ {Missing}
        temps  == {p.temp : p \in over} \ {Missing}
        winds  == {p.wind : p \in over} \ {Missing}
        levels == {0} \cup (IF precip = {} THEN {} ELSE {Band(Max(precip), Bands.precip)})
                      \cup (IF temps = {} THEN {} ELSE {Band(Max(temps), Bands.heat), BandBelow(Min(temps), Bands.cold)})
                      \cup (IF winds = {} THEN {} ELSE {Band(Max(winds), Bands.wind)})
                      \cup {1 : p \in {x \in over : x.token /\ x.precip = Missing}}
                      \cup {ThunderLevel : p \in {x \in over : x.thunder}}
                      \cup {AlertLevel(a) : a \in {x \in alerts : AlertOverlaps(x, leg)}}
    IN  IF Max(levels) = 0 /\ (over = {} \/ \E p \in over : HasGap(p)) THEN Unclear ELSE Max(levels)

\* plan_risk: indoor legs have no badge.
PlanRisk(q) ==
    LET badge == [i \in DOMAIN q.legs |-> IF q.legs[i].outdoor
                                           THEN AssessLeg(q.legs[i], q.periods, q.alerts) ELSE 0]
        worst == Max({0} \cup {badge[i] : i \in {j \in DOMAIN badge : badge[j] # Unclear}})
    IN  [legs |-> badge, overall |-> IF worst = 0 /\ \E i \in DOMAIN badge : badge[i] = Unclear
                                     THEN Unclear ELSE worst]

Risk == Reply("risk", PlanRisk(ask))

WeatherNext == Forecast \/ Risk

PeriodOK(p) ==
    /\ {p.precip, p.temp, p.wind} \subseteq Int \cup {Missing} /\ {p.from, p.to} \subseteq Int
    /\ p.token \in BOOLEAN /\ p.thunder \in BOOLEAN

AlertOK(a) == {a.from, a.to} \subseteq Int \cup {Missing} /\ a.severity \in DOMAIN SeverityLevel

\* Any number of forecast periods, alerts and legs.
WeatherAsked ==
    /\ ask.of = "feeds" =>
         {ask.points, ask.hourly, ask.pointAlerts, ask.zoneAlerts, ask.stations, ask.observation} \subseteq FeedStates
    /\ ask.of = "risk" =>
         /\ IsFiniteSet(ask.periods) /\ \A p \in ask.periods : PeriodOK(p)
         /\ \A a \in ask.alerts : AlertOK(a)
         /\ \A i \in DOMAIN ask.legs : {ask.legs[i].from, ask.legs[i].to} \subseteq Int

WeatherSpec == answer = NoAnswer /\ WeatherAsked /\ [][WeatherNext]_lookupVars
-----------------------------------------------------------------------------
(* A result says "ok" only when every feed it needed was read and is fresh,  *)
(* has data unless it says it is unavailable, and keeps every alert of a     *)
(* feed that answered even when the other is down (weather.py:377-427,       *)
(* 627-813).                                                                 *)
StatusIsTrue ==
    Told("feeds") =>
        /\ answer.hourly.status = "ok" <=> ask.points = "fresh" /\ ask.linked /\ ask.hourly = "fresh"
        /\ answer.alerts.status = "ok" =>
             {ask.pointAlerts, ask.zoneAlerts} = {"fresh"} /\ ask.linked /\ ask.points # "down"
        /\ answer.observation.status = "ok" =>
             {ask.points, ask.stations, ask.observation} = {"fresh"} /\ ask.linked
        /\ \A r \in {answer.hourly, answer.alerts, answer.observation} : r.status = "ok" => ~r.stale
        /\ "down" \in {ask.pointAlerts, ask.zoneAlerts} => answer.alerts.status \in {"partial", "unavailable"}
        /\ ask.pointAlerts # "down" => ask.atPoint \subseteq answer.alerts.alerts
        /\ ask.zoneAlerts # "down" /\ ask.linked /\ ask.points # "down" => ask.inZone \subseteq answer.alerts.alerts

(* A leg, and the plan, is never called safer than any hour that touches it  *)
(* or than any alert in effect at some time of it, by its severity or as a   *)
(* severe event, and is called free of risk only if some hour was forecast   *)
(* and none of them left a value out (weather.py:1033-1048, 1050-1066,       *)
(* 1215-1272, 1323-1327).                                                    *)
NothingIsMasked ==
    Told("risk") =>
        LET atLeast(level, n) == level # Unclear /\ level >= n
        IN \A i \in DOMAIN ask.legs : ask.legs[i].outdoor =>
            /\ \A p \in {x \in ask.periods : Overlaps(x.from, x.to, ask.legs[i].from, ask.legs[i].to)} :
                 \A n \in 1..4, level \in {answer.legs[i], answer.overall} :
                    \/ p.precip # Missing /\ n <= 3 /\ p.precip >= Bands.precip[n]
                    \/ p.temp # Missing /\ (p.temp >= Bands.heat[n] \/ p.temp <= Bands.cold[n])
                    \/ p.wind # Missing /\ p.wind >= Bands.wind[n]
                    \/ p.thunder /\ n = ThunderLevel
                    => atLeast(level, n)
            /\ \A a \in ask.alerts : \A t \in ask.legs[i].from..(ask.legs[i].to - 1) :
                 (a.from = Missing \/ a.from <= t) /\ (a.to = Missing \/ t < a.to) =>
                     \A level \in {answer.legs[i], answer.overall} :
                         atLeast(level, SeverityLevel[a.severity]) /\ (a.severe => atLeast(level, SevereEventLevel))
            /\ answer.legs[i] = 0 \/ answer.overall = 0 =>
                 LET over == {x \in ask.periods : x.from < ask.legs[i].to /\ ask.legs[i].from < x.to}
                 IN  over # {} /\ \A p \in over : ~HasGap(p) /\ ~p.thunder /\ (p.token => p.precip # Missing)

WeatherIsNotPlayedDown == StatusIsTrue /\ NothingIsMasked
=============================================================================
