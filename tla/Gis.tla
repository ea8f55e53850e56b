-------------------------------- MODULE Gis --------------------------------
(***************************************************************************)
(* Virginia Tech's campus map (vtgis.py and its endpoints in ui_files.py): *)
(* buildings and their entrances, walking and accessible routes, and the   *)
(* construction closures.  Each is read from a layer of a remote service,  *)
(* and every one of these reads may fail while the others succeed.         *)
(*                                                                         *)
(* A number on file is a sequence of digits, <<>> if it is missing; layers *)
(* pad it to widths of their own.  A value that may be missing is the set  *)
(* of what is given, {} or {v}, and so is a layer that may be Unavailable. *)
(* Places lie on a line, times are ticks; a list of rows is a function     *)
(* from their places in the layer.                                         *)
(***************************************************************************)
EXTENDS Lookup, Integers, Sequences, FiniteSets

CONSTANTS
    NumWidth, VtesWidth, EntranceWidth,    \* how wide each layer writes a building's number
    ListLimit,                             \* buildings a search lists
    GisDay                                 \* ticks of a day

ASSUME GisAssumption ==
    {NumWidth, VtesWidth, EntranceWidth, ListLimit, GisDay} \subseteq Nat \ {0}

The(s) == CHOOSE x \in s : TRUE
Foremost(places) == CHOOSE i \in places : \A j \in places : i <= j

(* The numbers of a building.                                              *)
Prefix == 10   \* the "oid:" before the number of a record that has no other

\* canonical_building_id
CanonicalId(id) ==
    LET significant == {i \in DOMAIN id : id[i] # 0}
    IN  IF id = <<>> THEN <<>>
        ELSE IF significant = {} THEN <<0>>
        ELSE SubSeq(id, Foremost(significant), Len(id))

Padded(id, width) == [i \in 1..(width - Len(id)) |-> 0] \o id

\* _building_id_variants
Variants(id) == {id, CanonicalId(id), Padded(CanonicalId(id), NumWidth), Padded(CanonicalId(id), VtesWidth)}
-----------------------------------------------------------------------------
(* Buildings.  A record of the layer is [num, vtes, oid, at]; a building is  *)
(* one that can be told from others.                                         *)
NumberOf(f) ==
    IF CanonicalId(f.num) # <<>> THEN CanonicalId(f.num)
    ELSE IF CanonicalId(f.vtes) # <<>> THEN CanonicalId(f.vtes)
    ELSE IF f.oid # {} THEN <<Prefix>> \o The(f.oid) ELSE <<>>

\* normalize_buildings
Buildings(features) ==
    LET building(f) == [id |-> NumberOf(f), num |-> f.num, vtes |-> f.vtes, at |-> f.at]
    IN  [i \in {j \in DOMAIN features : NumberOf(features[j]) # <<>>} |-> building(features[i])]

\* search_buildings and buildings_endpoint: each building once, by the first of
\* its records, and only what can be put on the map.
SearchBuildings(rows) ==
    LET unique  == {i \in DOMAIN rows : \A k \in DOMAIN rows : k < i => rows[k].id # rows[i].id}
        listed  == {i \in unique : Cardinality({j \in unique : j <= i}) <= ListLimit}
        located == {i \in listed : rows[i].at # {}}
    IN  [status |-> IF located = {} THEN "empty" ELSE "ok", rows |-> located]

FindBuildings ==
    Reply("buildings", IF ask.layer = {} THEN [status |-> "unavailable", rows |-> {}]
                       ELSE SearchBuildings(Buildings(The(ask.layer))))

\* building_by_id: {} if there is none.
BuildingById(layer, id) ==
    LET found == {i \in DOMAIN layer : {layer[i].num, layer[i].vtes} \cap Variants(id) # {}}
        rows  == Buildings([i \in found |-> layer[i]])
        hits  == {i \in DOMAIN rows : CanonicalId(id) \in {CanonicalId(rows[i].num), CanonicalId(rows[i].vtes), rows[i].id}}
    IN  IF hits # {} THEN {rows[Foremost(hits)]} ELSE IF DOMAIN rows # {} THEN {rows[Foremost(DOMAIN rows)]} ELSE {}
-----------------------------------------------------------------------------
(* Entrances, [bldg, type, ada, at] in their layer.                          *)
Accessible(e) == e.type \in {"accessible with automatic door", "accessible"} \/ e.ada

\* Mutant: the numbers are compared as they are written.
EntrancesAsWritten(layer, b) ==
    {e \in layer : e.at # {} /\ e.bldg \in {b.num, b.vtes, b.id} \ {<<>>}}

\* entrances_for_building
EntrancesOf(layer, b) ==
    LET written == {b.num, b.vtes, b.id} \ {<<>>}
        asked   == written \cup {Padded(CanonicalId(w), EntranceWidth) : w \in {x \in written : x[1] # Prefix}}
    IN  {e \in layer : /\ e.at # {} /\ e.bldg \in asked \ {<<>>}
                       /\ CanonicalId(e.bldg) \in {CanonicalId(w) : w \in asked}}

\* Reads of a question, by name; those in q.out fail.
Read(q, name, rows) == IF name \in q.out THEN {} ELSE {rows}

\* building_detail
BuildingDetail(q) ==
    LET b == BuildingById(q.buildings, q.id)
        entrances == EntrancesOf(q.entrances, The(b))
    IN  IF "building" \in q.out THEN [status |-> "unavailable"]
        ELSE IF b = {} THEN [status |-> "unknown"]
        ELSE IF "entrances" \in q.out THEN [status |-> "unavailable"]
        ELSE [status |-> "ok", building |-> b, entrances |-> entrances,
              accessible |-> Cardinality({e \in entrances : Accessible(e)})]

LookUpBuilding == Reply("building", BuildingDetail(ask))
-----------------------------------------------------------------------------
(* Routes.  The service answers a request with [error, found, known, length, *)
(* path]: an error, no feature, a reference system that is not known, or a   *)
(* route and the length of its path.                                         *)
RouteModes == [walking |-> "walking", walk |-> "walking", fastest |-> "walking", least_walking |-> "walking",
               ada |-> "ada_walking", ada_walking |-> "ada_walking", accessible |-> "ada_walking"]

Away(x, y) == IF x > y THEN x - y ELSE y - x

\* _endpoint_for_building: the nearest entrance, if the entrances could be read.
EndpointOf(b, entrances, ada) ==
    LET pool    == {e \in UNION entrances : ada => Accessible(e)}
        far(e)  == Away(The(e.at), The(b.at))
        nearest == CHOOSE e \in pool : \A d \in pool : far(e) <= far(d)
    IN  IF pool = {} THEN [at |-> The(b.at), building |-> b.id, entrance |-> {}]
        ELSE [at |-> The(nearest.at), building |-> b.id, entrance |-> {nearest}]

\* normalize_route of the answer to one request, and route_endpoint's word on it.
Solved(q, mode, from, to) ==
    LET p == q.solve
    IN  IF "solve" \in q.out \/ p.error = "other" THEN [status |-> "unavailable"]
        ELSE IF p.error = "no path" \/ ~p.found THEN [status |-> "no_route"]
        ELSE IF ~p.known THEN [status |-> "unavailable"]
        ELSE [status |-> "ok", mode |-> mode, from |-> from, to |-> to,
              distance |-> IF p.length # {} THEN p.length ELSE p.path,
              path |-> IF q.permit THEN p.path ELSE {}]

\* route_endpoint and route_between_buildings
RouteBetween(q) ==
    LET ends == [e \in {"from", "to"} |-> UNION Read(q, e, BuildingById(q.buildings, q[e]))]
        mode == RouteModes[q.mode]
        endpoint(e) == EndpointOf(The(ends[e]), Read(q, e \o " entrances", EntrancesOf(q.entrances, The(ends[e]))),
                                  mode = "ada_walking")
    IN  IF \E e \in DOMAIN ends : ends[e] = {} THEN [status |-> "unavailable"]
        ELSE IF \E e \in DOMAIN ends : The(ends[e]).at = {} THEN [status |-> "failed"]
        ELSE Solved(q, mode, endpoint("from"), endpoint("to"))

FindRoute ==
    Reply("route", IF ask.mode \in DOMAIN RouteModes THEN RouteBetween(ask) ELSE [status |-> "refused"])
-----------------------------------------------------------------------------
(* Closures, [start, end, drawn], of the current and the scheduled layer.    *)
IsEffectiveAt(c, t) == (\A s \in c.start : s <= t) /\ (\A e \in c.end : t <= e)

\* closures: one layer stands in for both; none with an error is no answer.
Closures(q) ==
    LET read == UNION {q.layers[l] : l \in DOMAIN q.layers \ q.out}
    IN  IF read = {} /\ q.out # {} THEN {} ELSE {read}

\* closures_for_day, effective_closures and the map's overlay
ClosuresTold(q) ==
    LET day == q.at - (q.at % GisDay)
        now == {{c \in rows : IsEffectiveAt(c, q.at)} : rows \in Closures(q)}
    IN  [now   |-> now,
         today |-> {{c \in rows : (\A s \in c.start : s < day + GisDay) /\ (\A e \in c.end : day <= e)} :
                        rows \in Closures(q)},
         onMap |-> {c \in UNION now : c.drawn}]

ListClosures == Reply("closures", ClosuresTold(ask))

GisNext == FindBuildings \/ LookUpBuilding \/ FindRoute \/ ListClosures

\* What is on file: a number is written bare or with the zeros of a width its
\* layers use, and the two numbers of a record are one number.
Number == Seq(0..9)
IsWritten(x, widths) ==
    x \in Number /\ (x = <<>> \/ x \in {CanonicalId(x)} \cup {Padded(CanonicalId(x), w) : w \in widths})
RecordOK(f) ==
    /\ IsWritten(f.num, {NumWidth, VtesWidth}) /\ IsWritten(f.vtes, {NumWidth, VtesWidth})
    /\ f.num # <<>> /\ f.vtes # <<>> => CanonicalId(f.num) = CanonicalId(f.vtes)
    /\ f.at \subseteq Int
EntranceOK(e) == IsWritten(e.bldg, {EntranceWidth}) /\ e.at \subseteq Int
LayerOK(layer) == DOMAIN layer \subseteq Nat /\ \A i \in DOMAIN layer : RecordOK(layer[i])

GisAsked ==
    /\ ask.of = "buildings" /\ ask.layer # {} => LayerOK(The(ask.layer))
    /\ ask.of \in {"building", "route"} => LayerOK(ask.buildings) /\ \A e \in ask.entrances : EntranceOK(e)
    /\ ask.of = "building" => ask.id \in Number \ {<<>>}
    /\ ask.of = "route" => {ask.from, ask.to} \subseteq Number \ {<<>>} /\ ask.solve.error \in {"none", "no path", "other"}
    /\ ask.of = "closures" => ask.at \in Int /\ \A l \in DOMAIN ask.layers : \A c \in ask.layers[l] : c.start \cup c.end \subseteq Int

GisSpec == answer = NoAnswer /\ GisAsked /\ [][GisNext]_lookupVars
-----------------------------------------------------------------------------
(* What the map's answers promise.                                           *)
\* A record of the layer is of the building asked for.
IsOf(f, id) == CanonicalId(id) \in {CanonicalId(f.num), CanonicalId(f.vtes)}
\* An entrance of the layer belongs to it, whatever zeros either is written with.
EntranceOf(e, id) == CanonicalId(e.bldg) = CanonicalId(id) /\ e.at # {}

\* "No route" and "no such building" are said only on the word of the service,
\* never because something could not be read (vtgis.py:310, 1292-1304).
OutageIsNoAnswer ==
    /\ Told("route") /\ answer.status = "no_route" =>
         /\ {"from", "to", "solve"} \cap ask.out = {}
         /\ ask.solve.error = "no path" \/ (ask.solve.error = "none" /\ ~ask.solve.found)
    /\ Told("building") =>
         /\ answer.status = "unknown" <=> "building" \notin ask.out /\ ~\E i \in DOMAIN ask.buildings : IsOf(ask.buildings[i], ask.id)
         /\ answer.status = "ok" => "entrances" \notin ask.out
    /\ Told("closures") => (answer.now = {} => ask.out # {})

\* Door d is the one of them nearest to the building's point on file, and the
\* route's end is there.
NearestDoor(end, d, doors, point) ==
    end.entrance = {d} /\ end.at \in d.at /\ \A o \in doors : Away(end.at, point) <= Away(The(o.at), point)

\* A route is solved in the mode asked for.  An accessible one ends at the nearest
\* accessible entrance of each building wherever one is on file and could be read,
\* and never at one that is not; any other ends at an entrance, the nearest, or at
\* the building's point (vtgis.py:1660-1716, whose docstring has only the point).
AccessibleDoorToDoor ==
    Told("route") /\ answer.status = "ok" =>
        /\ answer.mode = "ada_walking" <=> ask.mode \in {"ada", "ada_walking", "accessible"}
        /\ \A e \in {"from", "to"} :
             LET doors == {d \in ask.entrances : EntranceOf(d, ask[e]) /\ (answer.mode = "ada_walking" => Accessible(d))}
                 points == {ask.buildings[i].at : i \in {j \in DOMAIN ask.buildings : IsOf(ask.buildings[j], ask[e])}}
             IN  /\ answer[e].building = CanonicalId(ask[e])
                 /\ \/ answer[e].entrance = {} /\ \E p \in points : answer[e].at \in p
                    \/ \E d \in doors, p \in points : NearestDoor(answer[e], d, doors, The(p))
                 /\ answer.mode = "ada_walking" /\ (e \o " entrances") \notin ask.out /\ doors # {} =>
                      answer[e].entrance # {}

\* A building's page has every entrance of the building and of no other.
EntrancesAreTheBuildings ==
    Told("building") /\ answer.status = "ok" =>
        answer.entrances = {e \in ask.entrances : EntranceOf(e, ask.id)}

\* A search shows no building twice, and none that the map cannot show.
EachBuildingOnce ==
    Told("buildings") /\ ask.layer # {} =>
        LET rows == Buildings(The(ask.layer))
        IN  \A i, j \in answer.rows : rows[i].at # {} /\ (rows[i].id = rows[j].id => i = j)

\* The map has every closure in effect that a layer which answered lists, also
\* when the other is down; what is in effect now is in effect today.
ClosuresAreShown ==
    Told("closures") =>
        /\ \A c \in UNION {ask.layers[l] : l \in DOMAIN ask.layers \ ask.out} :
             c \in answer.onMap <=> c.drawn /\ ~(\E s \in c.start : s > ask.at) /\ ~(\E e \in c.end : e < ask.at)
        /\ UNION answer.now \subseteq UNION answer.today

MapKeepsItsWord ==
    OutageIsNoAnswer /\ AccessibleDoorToDoor /\ EntrancesAreTheBuildings /\ EachBuildingOnce /\ ClosuresAreShown
=============================================================================
