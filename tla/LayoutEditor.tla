---------------------------- MODULE LayoutEditor ----------------------------
(***************************************************************************)
(* The layout editor of the frontend, apps/frontend/src/app/layouts/       *)
(* page.tsx, with LayoutZoneEditor, the editing part of FactoryPlantMap2D, *)
(* the archive dialog, and lib/layout-diff.ts, which explains to a         *)
(* reviewer what a stored revision changes.                                *)
(*                                                                         *)
(* The plane is a line: a point is a number, and lies in the factory if it *)
(* is no further than the factory is wide.  Stations are neither added nor *)
(* removed.  The backend stores revisions; other users do not edit.        *)
(*                                                                         *)
(* An action is a JavaScript task up to its next await, and the rendering  *)
(* that follows.  A request is sent, served and delivered in three steps.  *)
(***************************************************************************)
EXTENDS Naturals, Sequences, FiniteSets

CONSTANTS
    BatteryBuffer, MarriageStation, ChargingStation,    \* the stations of each type
    Points, Widths,     \* the coordinates and widths that are typed or clicked
    ZoneIds,            \* the zone ids that are typed; generated ones are alike
    MinCorners, MaxCorners,     \* 3 and 100 in the code: the points of a zone
    InitialContent,     \* what "New layout" starts from
    Layouts,            \* numbers of the layouts that are stored
    MaxPath, MaxRoutes, MaxZones,   \* 200, 200, 100 in the schema: bounds of what is drawn
    Budgets             \* how many edits, drawings, requests and failures there are

Stations == BatteryBuffer \cup MarriageStation \cup ChargingStation
RouteKinds == {"DELIVERY", "SUPPORT"}
ZoneKinds == {"no_go_zones", "congestion_zones"}

(* A generated id is the kind and a suffix; the ids that are given have 0, and <<"", 0>>  *)
(* is a zone id that the schema refuses.  The id of a route tells its kind.  *)
RouteId == RouteKinds \X Nat
ZoneId == (ZoneKinds \cup {""}) \X Nat
NoId == <<"", 0>>

Route == [id : RouteId, from : Stations, to : Stations, path : Seq(Nat)]
Zone == [id : ZoneId, points : Seq(Nat), delay : Nat]
Content ==
    [width : Nat, at : [Stations -> Nat], routes : Seq(Route),
     zones : [ZoneKinds -> Seq(Zone)], config : Nat]

ASSUME EditorAssumption ==
    /\ Points \subseteq Nat /\ Widths \subseteq Nat /\ ZoneIds \subseteq ZoneId
    /\ Layouts \subseteq Nat \ {0} /\ MinCorners \in Nat \ {0}
    /\ InitialContent \in Content
    /\ Budgets \subseteq [edits : Nat, drawings : Nat, requests : Nat, failures : Nat]

VARIABLES
    versions,       \* versions[l]: the stored revisions of layout l
    archived,       \* the layouts that are archived
    calls,          \* the requests that are open
    page,
    budget

server == <<versions, archived>>
vars == <<server, calls, page, budget>>

NoVersion == [of |-> 0, version |-> 0]
Version == [of : Nat, version : Nat]
NoDrawing == [kind |-> "", id |-> NoId, points |-> <<>>]

Page ==
    [crashed : BOOLEAN,
     layouts : SUBSET Layouts,                  \* the tabs
     selected : Version,
     named : BOOLEAN,                           \* the name is not blank
     draft : Content,
     busy : BOOLEAN,
     zoneDrawing : [kind : ZoneKinds \cup {""}, id : ZoneId, points : Seq(Nat)],
     routeDrawing : BOOLEAN,
     routeDraft : Seq(Nat),
     route : RouteId,                           \* selectedRouteId
     dragging : SUBSET Stations,                \* draggingStationId of the map
     dialog : BOOLEAN]                          \* archiveConfirmationOpen

CallKinds == {"first", "refresh", "load", "save", "rename", "archive"}
Busying == CallKinds \ {"first"}

(* of is the layout it is about, 0 to create one; number keeps two alike requests apart;  *)
(* live is FALSE once the page that sent it is gone.                       *)
Call ==
    [kind : CallKinds, of : Nat, content : Content \cup {<<>>}, number : Nat, live : BOOLEAN,
     step : {"sent", "answered", "refused"}, got : Version, list : SUBSET Layouts]

TypeOK ==
    /\ versions \in [Layouts -> Seq(Content)]
    /\ archived \subseteq Layouts
    /\ calls \subseteq Call
    /\ page \in Page
    /\ budget \in [edits : Nat, drawings : Nat, requests : Nat, failures : Nat]
    /\ page.selected # NoVersion =>
           page.selected.of \in Layouts /\ page.selected.version \in DOMAIN versions[page.selected.of]

Spend(what) ==
    /\ budget[what] > 0
    /\ budget' = [budget EXCEPT ![what] = @ - 1]

-----------------------------------------------------------------------------
(* Contents.                                                               *)

Elements(seq) == {seq[i] : i \in DOMAIN seq}
Map(seq, Op(_)) == [i \in DOMAIN seq |-> Op(seq[i])]
Without(seq, i) == SubSeq(seq, 1, i - 1) \o SubSeq(seq, i + 1, Len(seq))
Last(seq) == seq[Len(seq)]

Inside(d, points) == \A p \in points : p <= d.width
Distinct(seq) == \A i, j \in DOMAIN seq : seq[i].id = seq[j].id => i = j
AllZones(d) == d.zones["no_go_zones"] \o d.zones["congestion_zones"]
Ids(seq) == {item.id : item \in Elements(seq)}
RoutesOf(d, kind) == {r \in Elements(d.routes) : r.id[1] = kind}

(* layoutVersionContentSchema: ranges and the shape of ids, nothing that relates two parts. *)
Parses(d) == d.width > 0 /\ NoId \notin Ids(AllZones(d))

ZoneError(d) ==
    ~ /\ Distinct(AllZones(d))
      /\ \A z \in Elements(AllZones(d)) : Inside(d, Elements(z.points))

(* factoryLayoutSchema, which the preview's projection must pass, or it throws. *)
Projects(d, named) ==
    /\ named
    /\ Inside(d, Elements(d.at))
    /\ \A r \in Elements(d.routes) : Inside(d, Elements(r.path))
    /\ \A z \in Elements(d.zones["no_go_zones"]) : Inside(d, Elements(z.points))

Joined(d, r) == r.path[1] = d.at[r.from] /\ Last(r.path) = d.at[r.to]

(* What the backend's model accepts; it may refuse more: zones that overlap. *)
Accepts(d) ==
    /\ Projects(d, TRUE) /\ ~ZoneError(d) /\ Distinct(d.routes)
    /\ RoutesOf(d, "DELIVERY") # {}
    /\ \A r \in Elements(d.routes) :
           /\ r.from # r.to /\ Joined(d, r)
           /\ \A i \in 1..(Len(r.path) - 1) : r.path[i] # r.path[i + 1]

(* defaultFactoryLayout, which the backend has stored; the schema wants two points or more. *)
ASSUME InitialAssumption ==
    /\ Accepts(InitialContent)
    /\ \A r \in Elements(InitialContent.routes) : Len(r.path) > 1

(* The least suffix from n on with which no id of that kind is used.       *)
FreeSuffix(kind, n, used) ==
    CHOOSE s \in n..(n + Cardinality(used)) :
        <<kind, s>> \notin used /\ \A t \in n..(s - 1) : <<kind, t>> \in used

-----------------------------------------------------------------------------
(* lib/layout-diff.ts: the changes, as what happened to which id.          *)

(* new Map(...).get: of two of the same id, the later one.                 *)
Entry(seq, id) ==
    seq[CHOOSE i \in DOMAIN seq :
            seq[i].id = id /\ \A j \in DOMAIN seq : seq[j].id = id => j <= i]

AddedRemoved(what, old, new) ==
    {<<what, "added", id>> : id \in Ids(new) \ Ids(old)}
        \cup {<<what, "removed", id>> : id \in Ids(old) \ Ids(new)}

Kept(old, new) == {item \in Elements(new) : item.id \in Ids(old)}

DiffZones(kind, old, new) ==
    AddedRemoved(kind, old, new)
        \cup {<<kind, "reshaped", z.id>> :
                  z \in {k \in Kept(old, new) : Entry(old, k.id).points # k.points}}
        \cup {<<kind, "delay changed", z.id>> :
                  z \in {k \in Kept(old, new) : Entry(old, k.id).delay # k.delay}}

DiffRoutes_EndsOnly(old, new) ==
    AddedRemoved("Route", old, new)
        \cup {<<"Route", "endpoints changed", r.id>> :
                  r \in {k \in Kept(old, new) : Entry(old, k.id).from # k.from \/ Entry(old, k.id).to # k.to}}
DiffRoutes(old, new) ==
    LET moved == {k \in Kept(old, new) : Entry(old, k.id).from # k.from \/ Entry(old, k.id).to # k.to}
    IN AddedRemoved("Route", old, new)
           \cup {<<"Route", "endpoints changed", r.id>> : r \in moved}
           \cup {<<"Route", "rerouted", r.id>> :
                     r \in {k \in Kept(old, new) \ moved : Entry(old, k.id).path # k.path}}

DiffLayoutContent(old, new) ==
    (IF old.width # new.width THEN {<<"Factory footprint", "", NoId>>} ELSE {})
        \cup {<<"Station", "moved", <<s, 0>>>> : s \in {t \in Stations : old.at[t] # new.at[t]}}
        \cup DiffRoutes(old.routes, new.routes)
        \cup (UNION {DiffZones(kind, old.zones[kind], new.zones[kind]) : kind \in ZoneKinds})
        \cup (IF old.config # new.config THEN {<<"config", "", NoId>>} ELSE {})

-----------------------------------------------------------------------------
(* Rendering: an exception takes the page down, and what it held is lost.  *)

NoTools(p) ==
    [p EXCEPT !.zoneDrawing = NoDrawing, !.routeDrawing = FALSE, !.routeDraft = <<>>]

StopRoute(p) == [p EXCEPT !.routeDrawing = FALSE, !.routeDraft = <<>>]

ResetDraft(p) ==
    [NoTools(p) EXCEPT !.selected = NoVersion, !.named = TRUE, !.draft = InitialContent,
                       !.route = <<"DELIVERY", 0>>]

Mounted ==
    [crashed |-> FALSE, layouts |-> {}, selected |-> NoVersion, named |-> TRUE,
     draft |-> InitialContent, busy |-> FALSE, zoneDrawing |-> NoDrawing,
     routeDrawing |-> FALSE, routeDraft |-> <<>>, route |-> <<"DELIVERY", 0>>, dragging |-> {},
     dialog |-> FALSE]

(* A draft that does not parse has no map, and a new map drags nothing.    *)
Rendered(p) ==
    IF ~Parses(p.draft) THEN [p EXCEPT !.dragging = {}]
    ELSE IF Projects(p.draft, p.named) THEN p
    ELSE [Mounted EXCEPT !.crashed = TRUE]

Ask(kind, of, number) ==
    [kind |-> kind, of |-> of, content |-> <<>>, number |-> number, live |-> TRUE,
     step |-> "sent", got |-> NoVersion, list |-> {}]

Here == ~page.crashed /\ ~page.dialog
MapShown == Here /\ Parses(page.draft)

Shows(p) ==
    /\ page' = Rendered(p)
    /\ UNCHANGED <<server, calls>>
Edit(p) == Shows(p) /\ Spend("edits")
Begin(p) == Shows(p) /\ Spend("drawings")
Click(p) == Shows(p) /\ UNCHANGED budget
Draft(d) == Edit([page EXCEPT !.draft = d])

Init ==
    /\ versions = [l \in Layouts |-> IF l = 1 THEN <<InitialContent>> ELSE <<>>]
    /\ archived = {}
    /\ page = Mounted
    /\ calls = {Ask("first", 0, 0)}
    /\ budget \in Budgets

-----------------------------------------------------------------------------
(* Stations and routes.                                                    *)

(* screenToLayout: a point beyond the footprint is one on its edge.        *)
OnMap(p) == IF p > page.draft.width THEN page.draft.width ELSE p

Follow(r, s, p) ==
    [r EXCEPT !.path = [i \in DOMAIN @ |->
        IF (i = 1 /\ r.from = s) \/ (i = Len(r.path) /\ r.to = s) THEN p ELSE @[i]]]

(* The routes that begin or end at a station follow it.                    *)
Moved_PathsStay(d, s, p) == [d EXCEPT !.at[s] = p]
Moved(d, s, p) == [d EXCEPT !.at[s] = p, !.routes = Map(@, LAMBDA r : Follow(r, s, p))]

(* By its fields, which take any number.                                   *)
MoveStation(s, p) == Here /\ Draft(Moved(page.draft, s, p))

SetWidth(w) == Here /\ Draft([page.draft EXCEPT !.width = w])
SetConfig(c) == Here /\ Draft([page.draft EXCEPT !.config = c])
SetName(named) == Here /\ Edit([page EXCEPT !.named = named])

Selected(d, route) == {i \in DOMAIN d.routes : d.routes[i].id = route}

SelectRoute(i) ==
    /\ Here
    /\ Click([page EXCEPT !.route = page.draft.routes[i].id])

StartRouteDrawing_KeepZone ==
    /\ Here /\ Selected(page.draft, page.route) # {}
    /\ Begin([page EXCEPT !.routeDrawing = TRUE, !.routeDraft = <<>>])
StartRouteDrawing ==
    /\ Here /\ Selected(page.draft, page.route) # {}
    /\ Begin([page EXCEPT !.routeDrawing = TRUE, !.routeDraft = <<>>, !.zoneDrawing = NoDrawing])

CancelRouteDrawing ==
    /\ Here /\ page.routeDrawing
    /\ Click(StopRoute(page))

AddRoutePoint(p) ==
    /\ page.routeDraft # <<>>
    /\ Len(page.routeDraft) < MaxPath - 1
    /\ Click([page EXCEPT !.routeDraft = Append(@, p)])

(* The drawing starts and ends at the stations of the route that is selected now. *)
SelectRouteStation(s) ==
    LET p == page.draft.at[s]
        end(r) == [r EXCEPT !.path = Append(page.routeDraft, p)]
    IN \E i \in Selected(page.draft, page.route) :
           LET r == page.draft.routes[i]
           IN \/ /\ page.routeDraft = <<>> /\ s = r.from
                 /\ Click([page EXCEPT !.routeDraft = <<p>>])
              \/ /\ page.routeDraft # <<>> /\ s = r.to
                 /\ Click([StopRoute(page) EXCEPT !.draft.routes[i] = end(@)])

AddRoute(kind) ==
    LET starts == IF kind = "DELIVERY" THEN BatteryBuffer ELSE ChargingStation
        ends == IF kind = "DELIVERY" THEN MarriageStation ELSE BatteryBuffer
        used == {r.to : r \in RoutesOf(page.draft, kind)}
        ids == {r.id : r \in RoutesOf(page.draft, kind)}
        id == <<kind, FreeSuffix(kind, Cardinality(ids) + 1, ids)>>
    IN /\ Here /\ Len(page.draft.routes) < MaxRoutes
       /\ \E from \in starts, to \in IF ends \subseteq used THEN ends ELSE ends \ used :
              LET new == [id |-> id, from |-> from, to |-> to,
                          path |-> <<page.draft.at[from], page.draft.at[to]>>]
              IN Edit([StopRoute(page) EXCEPT !.draft.routes = Append(@, new), !.route = id])

RemoveSelectedRoute_Any ==
    \E i \in Selected(page.draft, page.route) :
        /\ Here /\ Len(page.draft.routes) > 1
        /\ Edit([StopRoute(page) EXCEPT !.draft.routes = Without(@, i),
                                        !.route = Without(page.draft.routes, i)[1].id])
RemoveSelectedRoute ==
    \E i \in Selected(page.draft, page.route) :
        LET remaining == Without(page.draft.routes, i)
        IN /\ Here /\ \E r \in Elements(remaining) : r.id[1] = "DELIVERY"
           /\ Edit([StopRoute(page) EXCEPT !.draft.routes = remaining, !.route = remaining[1].id])

UpdateRouteEndpoint(i, field, s) ==
    LET r == page.draft.routes[i]
        moved == [r EXCEPT ![field] = s,
                           !.path[IF field = "from" THEN 1 ELSE Len(r.path)] = page.draft.at[s]]
    IN Here /\ Draft([page.draft EXCEPT !.routes[i] = moved])

UpdateWaypoint(i, k, p) == Here /\ Draft([page.draft EXCEPT !.routes[i].path[k] = p])

-----------------------------------------------------------------------------
(* Zones.                                                                  *)

StartZoneDrawing(kind) ==
    LET id == <<kind, FreeSuffix(kind, 1, Ids(AllZones(page.draft)))>>
    IN /\ Here /\ page.zoneDrawing = NoDrawing
       /\ Begin([NoTools(page) EXCEPT !.zoneDrawing = [kind |-> kind, id |-> id, points |-> <<>>]])

AddZonePoint(p) ==
    /\ page.zoneDrawing # NoDrawing
    /\ Len(page.zoneDrawing.points) < MaxCorners
    /\ Click([page EXCEPT !.zoneDrawing.points = Append(@, p)])

UndoZonePoint ==
    /\ Here /\ page.zoneDrawing.points # <<>>
    /\ Click([page EXCEPT !.zoneDrawing.points = SubSeq(@, 1, Len(@) - 1)])

CancelZoneDrawing ==
    /\ Here /\ page.zoneDrawing # NoDrawing
    /\ Click([page EXCEPT !.zoneDrawing = NoDrawing])

FinishZoneDrawing ==
    LET z == page.zoneDrawing
        new == [id |-> z.id, points |-> z.points, delay |-> IF z.kind = "congestion_zones" THEN 1 ELSE 0]
        drawn == Append(page.draft.zones[z.kind], new)
    IN /\ Here /\ Len(z.points) >= MinCorners
       /\ Len(AllZones(page.draft)) < MaxZones
       /\ Click([page EXCEPT !.draft.zones[z.kind] = drawn, !.zoneDrawing = NoDrawing])

UpdateZoneId(kind, i, id) == Here /\ Draft([page.draft EXCEPT !.zones[kind][i].id = id])

UpdateZoneDelay(i, delay) ==
    Here /\ Draft([page.draft EXCEPT !.zones["congestion_zones"][i].delay = delay])

(* The coordinate is brought into the footprint.                           *)
UpdateZonePoint(kind, i, k, p) ==
    Here /\ Draft([page.draft EXCEPT !.zones[kind][i].points[k] = OnMap(p)])

RemoveZone(kind, i) ==
    Here /\ Draft([page.draft EXCEPT !.zones[kind] = Without(@, i)])

-----------------------------------------------------------------------------
(* The pointer on the map.  What is dragged is one station at most; the    *)
(* keyboard works meanwhile.                                               *)

(* handlePointerDown: a click goes to one tool, the route before the zone. *)
ClickMap(p) ==
    /\ MapShown /\ page.dragging = {}
    /\ IF page.routeDrawing THEN AddRoutePoint(OnMap(p)) ELSE AddZonePoint(OnMap(p))

(* On a station, by the pointer or a key: it is one of the route that is   *)
(* drawn, or will be dragged.                                              *)
PressStation(s) ==
    /\ MapShown
    /\ IF page.routeDrawing THEN SelectRouteStation(s)
       ELSE page.dragging = {} /\ Begin([page EXCEPT !.dragging = {s}])

DragStation(s, p) ==
    /\ MapShown /\ s \in page.dragging
    /\ Click([page EXCEPT !.draft = Moved(@, s, OnMap(p))])

ReleasePointer ==
    /\ MapShown /\ page.dragging # {}
    /\ Click([page EXCEPT !.dragging = {}])

-----------------------------------------------------------------------------
(* Requests.                                                               *)

NewLayout ==
    /\ Here
    /\ Click(ResetDraft(page))

Request(p, kind, of, content) ==
    /\ Spend("requests")
    /\ page' = Rendered([p EXCEPT !.busy = TRUE])
    /\ calls' = calls \cup {[Ask(kind, of, budget.requests) EXCEPT !.content = content]}
    /\ UNCHANGED server

(* A tab: it is not disabled while something else is under way.            *)
LoadLayout(l) == Here /\ l \in page.layouts /\ Request(page, "load", l, <<>>)

Save_Optimistic ==
    /\ Here /\ ~page.busy
    /\ Parses(page.draft) /\ ~ZoneError(page.draft) /\ page.zoneDrawing = NoDrawing
    /\ Request([page EXCEPT !.selected.version = @ + 1], "save", page.selected.of, page.draft)
Save ==
    /\ Here /\ ~page.busy
    /\ Parses(page.draft) /\ ~ZoneError(page.draft) /\ page.zoneDrawing = NoDrawing
    /\ Request(page, "save", page.selected.of, page.draft)

Rename ==
    /\ Here /\ ~page.busy /\ page.selected # NoVersion
    /\ Request(page, "rename", page.selected.of, <<>>)

OpenArchive ==
    /\ Here /\ ~page.busy /\ page.selected # NoVersion
    /\ Click([page EXCEPT !.dialog = TRUE])

CancelArchive ==
    /\ ~page.crashed /\ page.dialog
    /\ Click([page EXCEPT !.dialog = FALSE])

Archive ==
    /\ ~page.crashed /\ page.dialog /\ page.selected # NoVersion
    /\ Request([page EXCEPT !.dialog = FALSE], "archive", page.selected.of, <<>>)

(* After a crash, or at any time.                                          *)
Reload ==
    /\ Spend("requests")
    /\ page' = Mounted
    /\ calls' = {[c EXCEPT !.live = FALSE] : c \in calls} \cup {Ask("first", 0, budget.requests)}
    /\ UNCHANGED server

-----------------------------------------------------------------------------
(* The backend.                                                            *)

Newest(l) == [of |-> l, version |-> Len(versions[l])]
Active == {l \in Layouts : versions[l] # <<>> /\ l \notin archived}
Answered(c, got, list) == [c EXCEPT !.step = "answered", !.got = got, !.list = list]
Refused(c) == [c EXCEPT !.step = "refused"]

(* The answer reaches the page, or is lost on its way.                     *)
Replies(c, answer) ==
    \/ calls' = (calls \ {c}) \cup {answer} /\ UNCHANGED <<page, budget>>
    \/ calls' = (calls \ {c}) \cup {Refused(c)} /\ Spend("failures") /\ UNCHANGED page

Read(c) ==
    /\ c.step = "sent"
    /\ \/ /\ c.kind \in {"first", "refresh"}
          /\ Replies(c, Answered(c, NoVersion, Active))
       \/ /\ c.kind = "load"
          /\ Replies(c, Answered(c, Newest(c.of), {}))
    /\ UNCHANGED server

Store(c) ==
    /\ c.step = "sent" /\ c.kind = "save" /\ Accepts(c.content)
    /\ \E l \in Layouts :
           /\ IF c.of = 0 THEN versions[l] = <<>> /\ \A m \in Layouts : versions[m] = <<>> => l <= m
              ELSE l = c.of /\ l \in Active
           /\ versions' = [versions EXCEPT ![l] = Append(@, c.content)]
           /\ Replies(c, Answered(c, [of |-> l, version |-> Len(versions[l]) + 1], {}))
    /\ UNCHANGED archived

Change(c) ==
    /\ c.step = "sent" /\ c.kind \in {"rename", "archive"} /\ c.of \in Active
    /\ archived' = IF c.kind = "archive" THEN archived \cup {c.of} ELSE archived
    /\ Replies(c, Answered(c, Newest(c.of), {}))
    /\ UNCHANGED versions

(* What it does not accept: a content, or to change a layout that is archived. *)
Unacceptable(c) ==
    \/ c.kind = "save" /\ ~Accepts(c.content)
    \/ c.kind = "save" /\ c.of = 0 /\ \A l \in Layouts : versions[l] # <<>>
    \/ c.kind \in {"save", "rename", "archive"} /\ c.of # 0 /\ c.of \notin Active

(* It does nothing and says so, then or because of any failure before the change. *)
Refuse(c) ==
    /\ c.step = "sent"
    /\ calls' = (calls \ {c}) \cup {Refused(c)}
    /\ IF Unacceptable(c) THEN UNCHANGED budget ELSE Spend("failures")
    /\ UNCHANGED <<server, page>>

Serve(c) == Read(c) \/ Store(c) \/ Change(c) \/ Refuse(c)

-----------------------------------------------------------------------------
(* What the page does with an answer.                                      *)

Loaded(p, v) ==
    LET d == versions[v.of][v.version]
    IN [NoTools(p) EXCEPT !.selected = v, !.named = TRUE, !.draft = d, !.route = d.routes[1].id,
                          !.busy = FALSE]
Saved(p, v) ==
    [p EXCEPT !.selected = v, !.named = TRUE, !.draft = versions[v.of][v.version]]

Fails_StayBusy(p, c) == p
Fails(p, c) == IF c.kind \in Busying THEN [p EXCEPT !.busy = FALSE] ELSE p

Deliver(c) ==
    LET done == calls \ {c}
        refresh == done \cup {Ask("refresh", 0, c.number)}
    IN /\ c.step # "sent"
       /\ IF page.crashed \/ ~c.live THEN calls' = done /\ UNCHANGED page
          ELSE IF c.step = "refused" THEN page' = Rendered(Fails(page, c)) /\ calls' = done
          ELSE CASE c.kind = "first" /\ c.list = {} -> page' = [page EXCEPT !.layouts = {}] /\ calls' = done
                 [] c.kind = "first" /\ c.list # {} ->
                        LET l == CHOOSE l \in c.list : \A m \in c.list : l <= m
                        IN /\ page' = [page EXCEPT !.layouts = c.list, !.busy = TRUE]
                           /\ calls' = done \cup {Ask("load", l, c.number)}
                 [] c.kind = "refresh" ->
                        page' = [page EXCEPT !.layouts = c.list, !.busy = FALSE] /\ calls' = done
                 [] c.kind = "load" -> page' = Rendered(Loaded(page, c.got)) /\ calls' = done
                 [] c.kind = "save" -> page' = Rendered(Saved(page, c.got)) /\ calls' = refresh
                 [] c.kind = "rename" -> page' = [page EXCEPT !.selected = c.got] /\ calls' = refresh
                 [] c.kind = "archive" -> page' = Rendered(ResetDraft(page)) /\ calls' = refresh
       /\ UNCHANGED <<server, budget>>

-----------------------------------------------------------------------------
EditRoutes ==
    \/ \E s \in Stations, p \in Points : MoveStation(s, p)
    \/ \E kind \in RouteKinds : AddRoute(kind)
    \/ StartRouteDrawing \/ CancelRouteDrawing \/ RemoveSelectedRoute
    \/ \E i \in DOMAIN page.draft.routes :
           \/ SelectRoute(i)
           \/ \E field \in {"from", "to"}, s \in Stations : UpdateRouteEndpoint(i, field, s)
           \/ \E k \in DOMAIN page.draft.routes[i].path, p \in Points : UpdateWaypoint(i, k, p)

EditZones ==
    \/ UndoZonePoint \/ CancelZoneDrawing \/ FinishZoneDrawing
    \/ \E i \in DOMAIN page.draft.zones["congestion_zones"] : \E delay \in 1..2 : UpdateZoneDelay(i, delay)
    \/ \E kind \in ZoneKinds :
           \/ StartZoneDrawing(kind)
           \/ \E i \in DOMAIN page.draft.zones[kind] :
                  \/ RemoveZone(kind, i)
                  \/ \E id \in ZoneIds : UpdateZoneId(kind, i, id)
                  \/ \E k \in DOMAIN page.draft.zones[kind][i].points, p \in Points :
                         UpdateZonePoint(kind, i, k, p)

UseMap ==
    \/ ReleasePointer
    \/ \E p \in Points : ClickMap(p)
    \/ \E s \in Stations :
           PressStation(s) \/ \E p \in Points : DragStation(s, p)

EditRest ==
    \/ \E w \in Widths : SetWidth(w)
    \/ \E config \in 1..2 : SetConfig(config)
    \/ \E named \in BOOLEAN : SetName(named)

Requests ==
    \/ NewLayout \/ Save \/ Rename \/ OpenArchive \/ CancelArchive \/ Archive \/ Reload
    \/ \E l \in Layouts : LoadLayout(l)

Next ==
    \/ EditRoutes \/ EditZones \/ UseMap \/ EditRest \/ Requests
    \/ \E c \in calls : Serve(c) \/ Deliver(c)

Spec == Init /\ [][Next]_vars

-----------------------------------------------------------------------------
(* Properties.                                                             *)

(* "Route and zone drawing are mutually exclusive editor modes"            *)
(* (docs/changes/layout-zone-editor-p1.md), whatever is clicked and        *)
(* whatever answer replaces the draft; and no points of an earlier route   *)
(* drawing are left for the next.                                          *)
OneDrawing ==
    /\ page.routeDrawing => page.zoneDrawing = NoDrawing
    /\ page.routeDraft # <<>> => page.routeDrawing

(* After any sequence of adding, removing and loading, the routes of the   *)
(* draft have different ids, and one of them is a delivery route: edits    *)
(* find a route by its id, and the backend refuses other contents.         *)
RoutesStand == Distinct(page.draft.routes) /\ RoutesOf(page.draft, "DELIVERY") # {}

(* A route that begins and ends at its stations goes on doing so while     *)
(* stations move, routes are added and drawn, ends are chosen and answers  *)
(* arrive.  Only a waypoint that is typed takes it off them, or a drawing  *)
(* whose first point is no longer the start of the route it is for.        *)
Loose == {r.id : r \in {q \in Elements(page.draft.routes) : ~Joined(page.draft, q)}}
StaleDrawing ==
    /\ page.routeDraft # <<>>
    /\ \E r \in Elements(page.draft.routes) :
           r.id = page.route /\ page.draft.at[r.from] # page.routeDraft[1]
TypesWaypoint ==
    \E i \in DOMAIN page.draft.routes : \E k \in DOMAIN page.draft.routes[i].path, p \in Points :
        UpdateWaypoint(i, k, p)
RoutesStayJoined == [][Loose' \subseteq Loose \/ StaleDrawing \/ TypesWaypoint]_page

(* What a reviewer is told about two stored revisions names everything     *)
(* that differs between them and nothing else, whatever was edited on the  *)
(* way; the order of routes and zones is no difference.                    *)
Differs(old, new) ==
    {item.id : item \in (Elements(old) \ Elements(new)) \cup (Elements(new) \ Elements(old))}
Stored == UNION {Elements(versions[l]) : l \in Layouts}
DiffIsExact ==
    \A old, new \in Stored :
        {<<change[1], change[3]>> : change \in DiffLayoutContent(old, new)} =
            (IF old.width # new.width THEN {<<"Factory footprint", NoId>>} ELSE {})
                \cup {<<"Station", <<s, 0>>>> : s \in {t \in Stations : old.at[t] # new.at[t]}}
                \cup {<<"Route", id>> : id \in Differs(old.routes, new.routes)}
                \cup (UNION {{<<kind, id>> : id \in Differs(old.zones[kind], new.zones[kind])} : kind \in ZoneKinds})
                \cup (IF old.config # new.config THEN {<<"config", NoId>>} ELSE {})

(* The buttons are disabled only while an answer that will enable them is  *)
(* under way, however requests overlap and whichever of them fail.         *)
BusyIsAwaited ==
    page.busy => \E c \in calls : c.live /\ c.kind \in Busying
=============================================================================
