------------------------- MODULE LayoutEditor_proofs -------------------------
(* Proofs about LayoutEditor: its tools exclude each other, its buttons do *)
(* not stay disabled, what it edits and stores has its type and routes     *)
(* that stand, and the comparison of two revisions is exact.               *)
EXTENDS LayoutEditor, NumberFacts, FiniteSetTheorems, FunctionTheorems, SequenceTheorems, TLAPS

(* The shape of the records is all that the proofs need of their types.    *)
PageFields ==
    {"crashed", "layouts", "selected", "named", "draft", "busy", "zoneDrawing",
     "routeDrawing", "routeDraft", "route", "dragging", "dialog"}
CallFields == {"kind", "of", "content", "number", "live", "step", "got", "list"}

IsPage(p) == DOMAIN p = PageFields
AreCalls(cs) == \A c \in cs : DOMAIN c = CallFields /\ c.kind \in CallKinds

(* What OneDrawing and BusyIsAwaited say of a page and of the open calls.  *)
Exclusive(p) ==
    /\ p.routeDrawing => p.zoneDrawing = NoDrawing
    /\ p.routeDraft # <<>> => p.routeDrawing

Awaited(cs) == \E c \in cs : c.live /\ c.kind \in Busying

(* A page that has crashed awaits nothing.                                 *)
IInv ==
    /\ IsPage(page) /\ AreCalls(calls)
    /\ Exclusive(page)
    /\ page.busy => Awaited(calls)
    /\ page.crashed => ~page.busy

-----------------------------------------------------------------------------
LEMMA MountedIsPage ==
    /\ IsPage(Mounted) /\ Exclusive(Mounted) /\ ~Mounted.busy /\ ~Mounted.crashed
  BY DEF IsPage, PageFields, Exclusive, Mounted

(* What a new page p must satisfy for its rendering to do so.              *)
Good(p, cs) == IsPage(p) /\ Exclusive(p) /\ (p.busy => Awaited(cs)) /\ ~p.crashed

(* Rendering keeps the tools apart, or takes the page down with them.      *)
LEMMA RenderedIsGood ==
  ASSUME NEW p, NEW cs, Good(p, cs)
  PROVE  /\ IsPage(Rendered(p)) /\ Exclusive(Rendered(p))
         /\ Rendered(p).busy => Awaited(cs)
         /\ Rendered(p).crashed => ~Rendered(p).busy
<1>1. CASE ~Parses(p.draft)
  BY <1>1 DEF Rendered, Good, IsPage, PageFields, Exclusive
<1>2. CASE Parses(p.draft) /\ Projects(p.draft, p.named)
  BY <1>2 DEF Rendered, Good
<1>3. CASE Parses(p.draft) /\ ~Projects(p.draft, p.named)
  <2>1. Rendered(p) = [Mounted EXCEPT !.crashed = TRUE]
    BY <1>3 DEF Rendered
  <2> QED
    BY <2>1, MountedIsPage DEF IsPage, PageFields, Exclusive
<1> QED
  BY <1>1, <1>2, <1>3

(* An action of the user on a page that is shown.                          *)
LEMMA ShowsGood ==
  ASSUME IInv, NEW p, Good(p, calls), Shows(p)
  PROVE  IInv'
<1>1. calls' = calls /\ page' = Rendered(p)
  BY DEF Shows
<1>2. IsPage(page') /\ Exclusive(page') /\ (page'.busy => Awaited(calls)) /\ (page'.crashed => ~page'.busy)
  BY <1>1, RenderedIsGood
<1> QED
  BY <1>1, <1>2 DEF IInv

(* An action that puts away the tools, or leaves them and the rest.        *)
Like(p, q) ==
    /\ IsPage(q)
    /\ q.busy = p.busy /\ q.crashed = p.crashed
    /\ \/ q.zoneDrawing = p.zoneDrawing /\ q.routeDrawing = p.routeDrawing /\ q.routeDraft = p.routeDraft
       \/ q.zoneDrawing = p.zoneDrawing /\ q.routeDrawing = FALSE /\ q.routeDraft = <<>>
       \/ q.zoneDrawing = NoDrawing /\ q.routeDrawing = p.routeDrawing /\ q.routeDraft = p.routeDraft
       \/ q.zoneDrawing = NoDrawing /\ q.routeDrawing = FALSE /\ q.routeDraft = <<>>

LEMMA LikeIsGood ==
  ASSUME IInv, Here, NEW q, Like(page, q)
  PROVE  Good(q, calls)
  BY DEF IInv, Here, Like, Good, Exclusive

(* Such an action, as the buttons and the map make it.                     *)
LEMMA LikeGood ==
  ASSUME IInv, Here, NEW q, Like(page, q), Shows(q)
  PROVE  IInv'
  BY LikeIsGood, ShowsGood

LEMMA DraftGood ==
  ASSUME IInv, Here, NEW d, Draft(d)
  PROVE  IInv'
<1>1. Like(page, [page EXCEPT !.draft = d])
  BY DEF IInv, Like, IsPage, PageFields
<1> QED
  BY <1>1, LikeGood DEF Draft, Edit

-----------------------------------------------------------------------------
(* The buttons and fields of routes.                                       *)

LEMMA EditRoutesGood ==
  ASSUME IInv, EditRoutes
  PROVE  IInv'
<1>1. ASSUME NEW s \in Stations, NEW p \in Points, MoveStation(s, p)
      PROVE  IInv'
  BY <1>1, DraftGood DEF MoveStation
<1>2. ASSUME NEW kind \in RouteKinds, AddRoute(kind)
      PROVE  IInv'
  <2>1. Here
    BY <1>2 DEF AddRoute
  <2>2. PICK new, id : Edit([StopRoute(page) EXCEPT !.draft.routes = Append(@, new), !.route = id])
    BY <1>2 DEF AddRoute
  <2>3. Like(page, [StopRoute(page) EXCEPT !.draft.routes = Append(@, new), !.route = id])
    BY <2>1 DEF StopRoute, IInv, Like, IsPage, PageFields
  <2> QED
    BY <2>1, <2>2, <2>3, LikeGood DEF Edit
<1>3. CASE StartRouteDrawing
  <2> DEFINE q == [page EXCEPT !.routeDrawing = TRUE, !.routeDraft = <<>>, !.zoneDrawing = NoDrawing]
  <2>1. Good(q, calls)
    BY <1>3 DEF StartRouteDrawing, Here, Good, IInv, Exclusive, IsPage, PageFields
  <2> QED
    BY <1>3, <2>1, ShowsGood DEF StartRouteDrawing, Begin
<1>4. CASE CancelRouteDrawing
  <2>1. Like(page, StopRoute(page))
    BY DEF StopRoute, IInv, Like, IsPage, PageFields
  <2> QED
    BY <1>4, <2>1, LikeGood DEF CancelRouteDrawing, Click
<1>5. CASE RemoveSelectedRoute
  <2>1. Here
    BY <1>5 DEF RemoveSelectedRoute
  <2>2. PICK remaining, id : Edit([StopRoute(page) EXCEPT !.draft.routes = remaining, !.route = id])
    BY <1>5 DEF RemoveSelectedRoute
  <2>3. Like(page, [StopRoute(page) EXCEPT !.draft.routes = remaining, !.route = id])
    BY <2>1 DEF StopRoute, IInv, Like, IsPage, PageFields
  <2> QED
    BY <2>1, <2>2, <2>3, LikeGood DEF Edit
<1>6. ASSUME NEW i \in DOMAIN page.draft.routes, SelectRoute(i)
      PROVE  IInv'
  <2>1. Like(page, [page EXCEPT !.route = page.draft.routes[i].id])
    BY DEF IInv, Like, IsPage, PageFields
  <2> QED
    BY <1>6, <2>1, LikeGood DEF SelectRoute, Click
<1>7. ASSUME NEW i, NEW field, NEW s, UpdateRouteEndpoint(i, field, s)
      PROVE  IInv'
  BY <1>7, DraftGood DEF UpdateRouteEndpoint
<1>8. ASSUME NEW i, NEW k, NEW p, UpdateWaypoint(i, k, p)
      PROVE  IInv'
  BY <1>8, DraftGood DEF UpdateWaypoint
<1> QED
  BY <1>1, <1>2, <1>3, <1>4, <1>5, <1>6, <1>7, <1>8 DEF EditRoutes

(* The buttons and fields of zones.                                        *)
LEMMA EditZonesGood ==
  ASSUME IInv, EditZones
  PROVE  IInv'
<1>1. CASE UndoZonePoint
  <2>1. page.zoneDrawing # NoDrawing
    <3>1. NoDrawing.points = <<>>
      BY DEF NoDrawing
    <3> QED
      BY <1>1, <3>1 DEF UndoZonePoint
  <2>2. Shows([page EXCEPT !.zoneDrawing.points = SubSeq(@, 1, Len(@) - 1)])
    BY <1>1 DEF UndoZonePoint, Click
  <2>3. Good([page EXCEPT !.zoneDrawing.points = SubSeq(@, 1, Len(@) - 1)], calls)
    BY <1>1, <2>1 DEF UndoZonePoint, Here, Good, IInv, Exclusive, IsPage, PageFields
  <2> QED
    BY <2>2, <2>3, ShowsGood
<1>2. CASE CancelZoneDrawing
  <2>1. Like(page, [page EXCEPT !.zoneDrawing = NoDrawing])
    BY DEF IInv, Like, IsPage, PageFields
  <2> QED
    BY <1>2, <2>1, LikeGood DEF CancelZoneDrawing, Click
<1>3. CASE FinishZoneDrawing
  <2>1. Here
    BY <1>3 DEF FinishZoneDrawing
  <2>2. PICK kind, drawn :
          Click([page EXCEPT !.draft.zones[kind] = drawn, !.zoneDrawing = NoDrawing])
    BY <1>3 DEF FinishZoneDrawing
  <2>3. Like(page, [page EXCEPT !.draft.zones[kind] = drawn, !.zoneDrawing = NoDrawing])
    BY <2>1 DEF IInv, Like, IsPage, PageFields
  <2> QED
    BY <2>1, <2>2, <2>3, LikeGood DEF Click
<1>4. ASSUME NEW i, NEW delay, UpdateZoneDelay(i, delay)
      PROVE  IInv'
  BY <1>4, DraftGood DEF UpdateZoneDelay
<1>5. ASSUME NEW kind, StartZoneDrawing(kind)
      PROVE  IInv'
  <2>1. Here
    BY <1>5 DEF StartZoneDrawing
  <2>2. PICK id :
          Begin([NoTools(page) EXCEPT !.zoneDrawing = [kind |-> kind, id |-> id, points |-> <<>>]])
    BY <1>5 DEF StartZoneDrawing
  <2> DEFINE q == [NoTools(page) EXCEPT !.zoneDrawing = [kind |-> kind, id |-> id, points |-> <<>>]]
  <2>3. Good(q, calls)
    BY <2>1 DEF NoTools, Here, Good, IInv, Exclusive, IsPage, PageFields
  <2> QED
    BY <2>2, <2>3, ShowsGood DEF Begin
<1>6. ASSUME NEW kind, NEW i, RemoveZone(kind, i)
      PROVE  IInv'
  BY <1>6, DraftGood DEF RemoveZone
<1>7. ASSUME NEW kind, NEW i, NEW id, UpdateZoneId(kind, i, id)
      PROVE  IInv'
  BY <1>7, DraftGood DEF UpdateZoneId
<1>8. ASSUME NEW kind, NEW i, NEW k, NEW p, UpdateZonePoint(kind, i, k, p)
      PROVE  IInv'
  BY <1>8, DraftGood DEF UpdateZonePoint
<1> QED
  BY <1>1, <1>2, <1>3, <1>4, <1>5, <1>6, <1>7, <1>8 DEF EditZones

(* The pointer on the map.                                                 *)
LEMMA UseMapGood ==
  ASSUME IInv, UseMap
  PROVE  IInv'
<1>1. CASE ReleasePointer
  <2>1. Like(page, [page EXCEPT !.dragging = {}])
    BY DEF IInv, Like, IsPage, PageFields
  <2> QED
    BY <1>1, <2>1, LikeGood DEF ReleasePointer, MapShown, Click
<1>2. ASSUME NEW p, ClickMap(p)
      PROVE  IInv'
  <2>1. Here
    BY <1>2 DEF ClickMap, MapShown
  <2>2. CASE page.routeDrawing
    <3>1. PICK draft : Shows([page EXCEPT !.routeDraft = draft])
      BY <1>2, <2>2 DEF ClickMap, AddRoutePoint, Click
    <3>2. Good([page EXCEPT !.routeDraft = draft], calls)
      BY <2>1, <2>2 DEF Here, Good, IInv, Exclusive, IsPage, PageFields
    <3> QED
      BY <3>1, <3>2, ShowsGood
  <2>3. CASE ~page.routeDrawing
    <3>1. Shows([page EXCEPT !.zoneDrawing.points = Append(@, OnMap(p))])
      BY <1>2, <2>3 DEF ClickMap, AddZonePoint, Click
    <3>2. Good([page EXCEPT !.zoneDrawing.points = Append(@, OnMap(p))], calls)
      BY <2>1, <2>3 DEF Here, Good, IInv, Exclusive, IsPage, PageFields
    <3> QED
      BY <3>1, <3>2, ShowsGood
  <2> QED
    BY <2>2, <2>3
<1>3. ASSUME NEW s, PressStation(s), page.routeDrawing
      PROVE  IInv'
  <2>1. Here /\ SelectRouteStation(s)
    BY <1>3 DEF PressStation, MapShown
  <2>2. CASE Click([page EXCEPT !.routeDraft = <<page.draft.at[s]>>])
    <3>1. Good([page EXCEPT !.routeDraft = <<page.draft.at[s]>>], calls)
      BY <2>1, <1>3 DEF Here, Good, IInv, Exclusive, IsPage, PageFields
    <3> QED
      BY <2>2, <3>1, ShowsGood DEF Click
  <2>3. ASSUME NEW i, NEW r, Click([StopRoute(page) EXCEPT !.draft.routes[i] = r])
        PROVE  IInv'
    <3>1. Like(page, [StopRoute(page) EXCEPT !.draft.routes[i] = r])
      BY DEF StopRoute, IInv, Like, IsPage, PageFields
    <3> QED
      BY <2>1, <2>3, <3>1, LikeGood DEF Click
  <2> QED
    BY <2>1, <2>2, <2>3 DEF SelectRouteStation
<1>4. ASSUME NEW s, PressStation(s), ~page.routeDrawing
      PROVE  IInv'
  <2>1. Like(page, [page EXCEPT !.dragging = {s}])
    BY DEF IInv, Like, IsPage, PageFields
  <2> QED
    BY <1>4, <2>1, LikeGood DEF PressStation, MapShown, Begin
<1>5. ASSUME NEW s, NEW p, DragStation(s, p)
      PROVE  IInv'
  <2>1. Like(page, [page EXCEPT !.draft = Moved(@, s, OnMap(p))])
    BY DEF IInv, Like, IsPage, PageFields
  <2> QED
    BY <1>5, <2>1, LikeGood DEF DragStation, MapShown, Click
<1> QED
  BY <1>1, <1>2, <1>3, <1>4, <1>5 DEF UseMap

(* The footprint, the configuration and the name.                          *)
LEMMA EditRestGood ==
  ASSUME IInv, EditRest
  PROVE  IInv'
<1>1. ASSUME NEW w, SetWidth(w)
      PROVE  IInv'
  BY <1>1, DraftGood DEF SetWidth
<1>2. ASSUME NEW config, SetConfig(config)
      PROVE  IInv'
  BY <1>2, DraftGood DEF SetConfig
<1>3. ASSUME NEW named, SetName(named)
      PROVE  IInv'
  <2>1. Like(page, [page EXCEPT !.named = named])
    BY DEF IInv, Like, IsPage, PageFields
  <2> QED
    BY <1>3, <2>1, LikeGood DEF SetName, Edit
<1> QED
  BY <1>1, <1>2, <1>3 DEF EditRest

-----------------------------------------------------------------------------
(* Requests and their answers.                                             *)

(* A request that is sent by a page whose tools are as they were.          *)
LEMMA RequestGood ==
  ASSUME IInv, NEW p, Like(page, p), ~page.crashed,
         NEW kind \in Busying, NEW of, NEW content, Request(p, kind, of, content)
  PROVE  IInv'
<1> DEFINE new == [Ask(kind, of, budget.requests) EXCEPT !.content = content]
           q == [p EXCEPT !.busy = TRUE]
<1>1. page' = Rendered(q) /\ calls' = calls \cup {new}
  BY DEF Request
<1>2. DOMAIN new = CallFields /\ new.live /\ new.kind \in Busying
  BY DEF Ask, CallFields
<1>3. AreCalls(calls') /\ Awaited(calls')
  BY <1>1, <1>2 DEF IInv, AreCalls, Awaited, Busying
<1>4. Good(q, calls')
  BY <1>3 DEF Good, IInv, Like, Exclusive, IsPage, PageFields
<1> QED
  BY <1>1, <1>3, <1>4, RenderedIsGood DEF IInv

LEMMA RequestsGood ==
  ASSUME IInv, Requests
  PROVE  IInv'
<1>1. Like(page, page)
  BY DEF IInv, Like
<1>2. Like(page, ResetDraft(page))
  BY DEF IInv, Like, ResetDraft, NoTools, IsPage, PageFields
<1>3. ASSUME NEW open
      PROVE  Like(page, [page EXCEPT !.dialog = open])
  BY DEF IInv, Like, IsPage, PageFields
<1>4. {"load", "save", "rename", "archive"} \subseteq Busying
  BY DEF Busying, CallKinds
<1>5. CASE NewLayout
  BY <1>5, <1>2, LikeGood DEF NewLayout, Click
<1>6. CASE Save
  BY <1>6, <1>1, <1>4, RequestGood DEF Save, Here
<1>7. CASE Rename
  BY <1>7, <1>1, <1>4, RequestGood DEF Rename, Here
<1>8. CASE OpenArchive
  BY <1>8, <1>3, LikeGood DEF OpenArchive, Click
<1>9. CASE CancelArchive
  <2>1. Good([page EXCEPT !.dialog = FALSE], calls)
    BY <1>3, <1>9 DEF CancelArchive, IInv, Like, Good, Exclusive
  <2> QED
    BY <1>9, <2>1, ShowsGood DEF CancelArchive, Click
<1>10. CASE Archive
  BY <1>10, <1>3, <1>4, RequestGood DEF Archive
<1>11. CASE Reload
  <2>1. page' = Mounted
    BY <1>11 DEF Reload
  <2>2. AreCalls(calls')
    BY <1>11 DEF Reload, IInv, AreCalls, Ask, CallFields, CallKinds
  <2> QED
    BY <2>1, <2>2, MountedIsPage DEF IInv
<1>12. ASSUME NEW l, LoadLayout(l)
       PROVE  IInv'
  BY <1>12, <1>1, <1>4, RequestGood DEF LoadLayout, Here
<1> QED
  BY <1>5, <1>6, <1>7, <1>8, <1>9, <1>10, <1>11, <1>12 DEF Requests

(* The backend: it changes nothing of the page, nor whom a call is for.    *)
LEMMA RepliesGood ==
  ASSUME IInv, NEW c \in calls, NEW answer,
         DOMAIN answer = CallFields, answer.live = c.live, answer.kind = c.kind,
         page' = page, calls' = (calls \ {c}) \cup {answer}
  PROVE  IInv'
<1>1. AreCalls(calls')
  BY DEF IInv, AreCalls
<1>2. Awaited(calls) => Awaited(calls')
  BY DEF Awaited
<1> QED
  BY <1>1, <1>2 DEF IInv

LEMMA ServeGood ==
  ASSUME IInv, NEW c \in calls, Serve(c)
  PROVE  IInv'
<1>1. DOMAIN c = CallFields
  BY DEF IInv, AreCalls
<1>2. ASSUME NEW got, NEW list
      PROVE  /\ DOMAIN Answered(c, got, list) = CallFields
             /\ Answered(c, got, list).live = c.live /\ Answered(c, got, list).kind = c.kind
  BY <1>1 DEF Answered, CallFields
<1>3. DOMAIN Refused(c) = CallFields /\ Refused(c).live = c.live /\ Refused(c).kind = c.kind
  BY <1>1 DEF Refused, CallFields
<1>4. ASSUME NEW got, NEW list, Replies(c, Answered(c, got, list))
      PROVE  IInv'
  <2>1. CASE calls' = (calls \ {c}) \cup {Answered(c, got, list)} /\ page' = page
    BY <2>1, <1>2, RepliesGood
  <2>2. CASE calls' = (calls \ {c}) \cup {Refused(c)} /\ page' = page
    BY <2>2, <1>3, RepliesGood
  <2> QED
    BY <1>4, <2>1, <2>2 DEF Replies
<1>5. CASE Read(c)
  BY <1>4, <1>5 DEF Read
<1>6. CASE Store(c)
  BY <1>4, <1>6 DEF Store
<1>7. CASE Change(c)
  BY <1>4, <1>7 DEF Change
<1>8. CASE Refuse(c)
  BY <1>3, <1>8, RepliesGood DEF Refuse
<1> QED
  BY <1>5, <1>6, <1>7, <1>8 DEF Serve

(* An answer: the one that is awaited enables the buttons or asks again.   *)
LEMMA DeliverGood ==
  ASSUME IInv, NEW c \in calls, Deliver(c)
  PROVE  IInv'
<1> DEFINE done == calls \ {c}
           again == Ask("refresh", 0, c.number)
           load(l) == Ask("load", l, c.number)
<1>1. /\ AreCalls(done) /\ AreCalls(done \cup {again})
      /\ \A l : AreCalls(done \cup {load(l)})
  BY DEF IInv, AreCalls, Ask, CallFields, CallKinds
<1>2. Awaited(done \cup {again}) /\ \A l : Awaited(done \cup {load(l)})
  <2>1. again.live /\ again.kind \in Busying
    BY DEF Ask, Busying, CallKinds
  <2>2. ASSUME NEW l PROVE load(l).live /\ load(l).kind \in Busying
    BY DEF Ask, Busying, CallKinds
  <2> QED
    BY <2>1, <2>2 DEF Awaited
<1>3. ASSUME ~(c.live /\ c.kind \in Busying), Awaited(calls)
      PROVE  Awaited(done)
  BY <1>3 DEF Awaited
<1>4. CASE page.crashed \/ ~c.live
  <2>1. calls' = done /\ page' = page
    BY <1>4 DEF Deliver
  <2> QED
    BY <1>1, <1>3, <1>4, <2>1 DEF IInv
<1>5. ASSUME ~page.crashed, c.live, NEW p, NEW cs, AreCalls(cs),
             IsPage(p), Exclusive(p), p.busy => Awaited(cs), ~p.crashed,
             page' = p \/ page' = Rendered(p), calls' = cs
      PROVE  IInv'
  BY <1>5, RenderedIsGood DEF Good, IInv
<1>6. CASE ~page.crashed /\ c.live /\ c.step = "refused"
  <2>1. page' = Rendered(Fails(page, c)) /\ calls' = done
    BY <1>6 DEF Deliver
  <2>2. CASE c.kind \in Busying
    <3>1. Fails(page, c) = [page EXCEPT !.busy = FALSE]
      BY <2>2 DEF Fails
    <3>2. /\ IsPage(Fails(page, c)) /\ Exclusive(Fails(page, c))
          /\ ~Fails(page, c).busy /\ ~Fails(page, c).crashed
      BY <1>6, <3>1 DEF IInv, IsPage, PageFields, Exclusive
    <3> QED
      BY <1>1, <1>5, <1>6, <2>1, <3>2
  <2>3. CASE c.kind \notin Busying
    <3>1. Fails(page, c) = page
      BY <2>3 DEF Fails
    <3> QED
      BY <1>1, <1>3, <1>5, <1>6, <2>1, <2>3, <3>1 DEF IInv
  <2> QED
    BY <2>2, <2>3
<1>7. CASE ~page.crashed /\ c.live /\ c.step # "refused"
  <2>1. CASE page' = [page EXCEPT !.layouts = {}] /\ calls' = done /\ c.kind = "first"
    <3> DEFINE p == [page EXCEPT !.layouts = {}]
    <3>1. IsPage(p) /\ Exclusive(p) /\ p.busy = page.busy /\ ~p.crashed
      BY <1>7 DEF IInv, IsPage, PageFields, Exclusive
    <3>2. p.busy => Awaited(done)
      BY <1>3, <2>1, <3>1 DEF IInv, Busying
    <3> QED
      BY <1>1, <1>5, <1>7, <2>1, <3>1, <3>2
  <2>2. ASSUME NEW l, page' = [page EXCEPT !.layouts = c.list, !.busy = TRUE],
               calls' = done \cup {load(l)}
        PROVE  IInv'
    <3> DEFINE p == [page EXCEPT !.layouts = c.list, !.busy = TRUE]
    <3>1. IsPage(p) /\ Exclusive(p) /\ ~p.crashed
      BY <1>7 DEF IInv, IsPage, PageFields, Exclusive
    <3> QED
      BY <1>1, <1>2, <1>5, <1>7, <2>2, <3>1
  <2>3. CASE page' = [page EXCEPT !.layouts = c.list, !.busy = FALSE] /\ calls' = done
    <3> DEFINE p == [page EXCEPT !.layouts = c.list, !.busy = FALSE]
    <3>1. IsPage(p) /\ Exclusive(p) /\ ~p.busy /\ ~p.crashed
      BY <1>7 DEF IInv, IsPage, PageFields, Exclusive
    <3> QED
      BY <1>1, <1>5, <1>7, <2>3, <3>1
  <2>4. CASE page' = Rendered(Loaded(page, c.got)) /\ calls' = done
    <3> DEFINE p == Loaded(page, c.got)
    <3>1. IsPage(p) /\ Exclusive(p) /\ ~p.busy /\ ~p.crashed
      BY <1>7 DEF IInv, IsPage, PageFields, Exclusive, Loaded, NoTools
    <3> QED
      BY <1>1, <1>5, <1>7, <2>4, <3>1
  <2>5. CASE page' = Rendered(Saved(page, c.got)) /\ calls' = done \cup {again}
    <3> DEFINE p == Saved(page, c.got)
    <3>1. IsPage(p) /\ Exclusive(p) /\ ~p.crashed
      BY <1>7 DEF IInv, IsPage, PageFields, Exclusive, Saved
    <3> QED
      BY <1>1, <1>2, <1>5, <1>7, <2>5, <3>1
  <2>6. CASE page' = [page EXCEPT !.selected = c.got] /\ calls' = done \cup {again}
    <3> DEFINE p == [page EXCEPT !.selected = c.got]
    <3>1. IsPage(p) /\ Exclusive(p) /\ ~p.crashed
      BY <1>7 DEF IInv, IsPage, PageFields, Exclusive
    <3> QED
      BY <1>1, <1>2, <1>5, <1>7, <2>6, <3>1
  <2>7. CASE page' = Rendered(ResetDraft(page)) /\ calls' = done \cup {again}
    <3> DEFINE p == ResetDraft(page)
    <3>1. IsPage(p) /\ Exclusive(p) /\ ~p.crashed
      BY <1>7 DEF IInv, IsPage, PageFields, Exclusive, ResetDraft, NoTools
    <3> QED
      BY <1>1, <1>2, <1>5, <1>7, <2>7, <3>1
  <2>8. c.kind \in CallKinds
    BY DEF IInv, AreCalls
  <2>9. CASE c.kind = "first" /\ c.list = {}
    <3>1. page' = [page EXCEPT !.layouts = {}] /\ calls' = done
      BY <1>7, <2>9 DEF Deliver
    <3> QED
      BY <2>1, <2>9, <3>1
  <2>10. CASE c.kind = "first" /\ c.list # {}
    <3> DEFINE l == CHOOSE l \in c.list : \A m \in c.list : l <= m
    <3>1. page' = [page EXCEPT !.layouts = c.list, !.busy = TRUE] /\ calls' = done \cup {load(l)}
      BY <1>7, <2>10 DEF Deliver
    <3> QED
      BY <2>2, <3>1
  <2>11. CASE c.kind = "refresh"
    <3>1. page' = [page EXCEPT !.layouts = c.list, !.busy = FALSE] /\ calls' = done
      BY <1>7, <2>11 DEF Deliver
    <3> QED
      BY <2>3, <3>1
  <2>12. CASE c.kind = "load"
    <3>1. page' = Rendered(Loaded(page, c.got)) /\ calls' = done
      BY <1>7, <2>12 DEF Deliver
    <3> QED
      BY <2>4, <3>1
  <2>13. CASE c.kind = "save"
    <3>1. page' = Rendered(Saved(page, c.got)) /\ calls' = done \cup {again}
      BY <1>7, <2>13 DEF Deliver
    <3> QED
      BY <2>5, <3>1
  <2>14. CASE c.kind = "rename"
    <3>1. page' = [page EXCEPT !.selected = c.got] /\ calls' = done \cup {again}
      BY <1>7, <2>14 DEF Deliver
    <3> QED
      BY <2>6, <3>1
  <2>15. CASE c.kind = "archive"
    <3>1. page' = Rendered(ResetDraft(page)) /\ calls' = done \cup {again}
      BY <1>7, <2>15 DEF Deliver
    <3> QED
      BY <2>7, <3>1
  <2> QED
    BY <2>8, <2>9, <2>10, <2>11, <2>12, <2>13, <2>14, <2>15 DEF CallKinds
<1> QED
  BY <1>4, <1>6, <1>7

-----------------------------------------------------------------------------
LEMMA InitGood == Init => IInv
<1> SUFFICES ASSUME Init PROVE IInv
  OBVIOUS
<1>1. page = Mounted /\ calls = {Ask("first", 0, 0)}
  BY DEF Init
<1>2. AreCalls(calls)
  BY <1>1 DEF AreCalls, Ask, CallFields, CallKinds
<1> QED
  BY <1>1, <1>2, MountedIsPage DEF IInv

LEMMA NextGood == IInv /\ [Next]_vars => IInv'
<1> SUFFICES ASSUME IInv, [Next]_vars PROVE IInv'
  OBVIOUS
<1>1. CASE EditRoutes
  BY <1>1, EditRoutesGood
<1>2. CASE EditZones
  BY <1>2, EditZonesGood
<1>3. CASE UseMap
  BY <1>3, UseMapGood
<1>4. CASE EditRest
  BY <1>4, EditRestGood
<1>5. CASE Requests
  BY <1>5, RequestsGood
<1>6. CASE \E c \in calls : Serve(c) \/ Deliver(c)
  BY <1>6, ServeGood, DeliverGood
<1>7. CASE UNCHANGED vars
  BY <1>7 DEF vars, IInv
<1> QED
  BY <1>1, <1>2, <1>3, <1>4, <1>5, <1>6, <1>7 DEF Next

LEMMA Inductive == Spec => []IInv
  BY InitGood, NextGood, PTL DEF Spec

(* Of the two kinds of drawing the editor is in one at most, and nothing   *)
(* of an abandoned route drawing is left, however clicks on the map, keys, *)
(* buttons and late answers follow each other, for every layout, limit and *)
(* number of stations (startRouteDrawing, startZoneDrawing, resetDraft     *)
(* and loadLayout of the page).                                            *)
THEOREM OneDrawingHolds == Spec => []OneDrawing
<1>1. IInv => OneDrawing
  BY DEF IInv, Exclusive, OneDrawing
<1> QED
  BY <1>1, Inductive, PTL

(* Whenever the buttons are disabled, a request of this page is open whose *)
(* end enables them or asks for the one that will: answers may overtake    *)
(* each other, fail, or come after the page has crashed or been left.      *)
THEOREM BusyIsAwaitedHolds == Spec => []BusyIsAwaited
<1>1. IInv => BusyIsAwaited
  BY DEF IInv, Awaited, BusyIsAwaited
<1> QED
  BY <1>1, Inductive, PTL

-----------------------------------------------------------------------------
(* Sequences.                                                              *)

LEMMA WithoutIs ==
  ASSUME NEW S, NEW s \in Seq(S), NEW i \in DOMAIN s
  PROVE  /\ Without(s, i) \in Seq(S)
         /\ Len(Without(s, i)) = Len(s) - 1
         /\ \A j \in 1..(Len(s) - 1) : Without(s, i)[j] = IF j < i THEN s[j] ELSE s[j + 1]
<1> DEFINE a == SubSeq(s, 1, i - 1)
           b == SubSeq(s, i + 1, Len(s))
<1>1. i \in 1..Len(s) /\ Len(s) \in Nat
  OBVIOUS
<1>2. a \in Seq(S) /\ Len(a) = i - 1 /\ \A j \in 1..(i - 1) : a[j] = s[j]
  BY <1>1, SubSeqProperties
<1>3. b \in Seq(S) /\ Len(b) = Len(s) - i /\ \A j \in 1..(Len(s) - i) : b[j] = s[i + j]
  BY <1>1
<1>4. Without(s, i) = a \o b
  BY DEF Without
<1> HIDE DEF a, b
<1>5. /\ a \o b \in Seq(S) /\ Len(a \o b) = Len(s) - 1
      /\ \A j \in 1..(Len(s) - 1) : (a \o b)[j] = IF j <= i - 1 THEN a[j] ELSE b[j - (i - 1)]
  BY <1>1, <1>2, <1>3, ConcatProperties
<1>6. ASSUME NEW j \in 1..(Len(s) - 1)
      PROVE  (a \o b)[j] = IF j < i THEN s[j] ELSE s[j + 1]
  <2>1. CASE j < i
    BY <1>1, <1>2, <1>5, <2>1
  <2>2. CASE ~(j < i)
    <3>1. j - (i - 1) \in 1..(Len(s) - i) /\ i + (j - (i - 1)) = j + 1
      BY <1>1, <2>2
    <3> QED
      BY <1>1, <1>3, <1>5, <2>2, <3>1
  <2> QED
    BY <2>1, <2>2
<1> QED
  BY <1>4, <1>5, <1>6

LEMMA ElementsAre ==
  ASSUME NEW S, NEW s \in Seq(S)
  PROVE  /\ Elements(s) \subseteq S /\ IsFiniteSet(Elements(s))
         /\ s = <<>> <=> Elements(s) = {}
         /\ \A i \in DOMAIN s : s[i] \in Elements(s)
<1>1. Elements(s) \subseteq S /\ \A i \in DOMAIN s : s[i] \in Elements(s)
  BY DEF Elements
<1>2. IsFiniteSet(Elements(s))
  <2>1. s \in Surjection(DOMAIN s, Elements(s))
    BY DEF Surjection, Elements
  <2>2. IsFiniteSet(DOMAIN s)
    BY FS_Interval
  <2> QED
    BY <2>1, <2>2, FS_Surjection
<1>3. s = <<>> <=> Elements(s) = {}
  BY DEF Elements
<1> QED
  BY <1>1, <1>2, <1>3

LEMMA ElementsAppend ==
  ASSUME NEW S, NEW s \in Seq(S), NEW x
  PROVE  Elements(Append(s, x)) = Elements(s) \cup {x}
  BY DEF Elements

LEMMA ElementsWithout ==
  ASSUME NEW S, NEW s \in Seq(S), NEW i \in DOMAIN s
  PROVE  Elements(Without(s, i)) \subseteq Elements(s)
<1>1. Len(s) \in Nat /\ DOMAIN s = 1..Len(s)
  OBVIOUS
<1>2. DOMAIN Without(s, i) = 1..(Len(s) - 1)
  BY WithoutIs
<1>3. ASSUME NEW j \in 1..(Len(s) - 1)
      PROVE  Without(s, i)[j] \in Elements(s)
  <2>1. j \in DOMAIN s /\ j + 1 \in DOMAIN s
    BY <1>1
  <2>2. s[j] \in Elements(s) /\ s[j + 1] \in Elements(s)
    BY <2>1 DEF Elements
  <2> QED
    BY <2>2, WithoutIs
<1> QED
  BY <1>2, <1>3 DEF Elements
-----------------------------------------------------------------------------
(* Contents whose routes stand, and what an edit may do to them.           *)

LooseIn(d) == {r.id : r \in {q \in Elements(d.routes) : ~Joined(d, q)}}

Routed(d) ==
    /\ Distinct(d.routes) /\ RoutesOf(d, "DELIVERY") # {}
    /\ \A r \in Elements(d.routes) : Len(r.path) > 1

Stands(d) == d \in Content /\ Routed(d)
Keeps(d, e) == Stands(e) /\ LooseIn(e) \subseteq LooseIn(d)

LEMMA ContentHas ==
  ASSUME NEW d \in Content
  PROVE  /\ d.width \in Nat /\ d.at \in [Stations -> Nat]
         /\ d.routes \in Seq(Route)
         /\ d.zones \in [ZoneKinds -> Seq(Zone)]
         /\ d.config \in Nat
  BY DEF Content

LEMMA InitialStands == Stands(InitialContent) /\ LooseIn(InitialContent) = {}
<1>1. InitialContent \in Content
  BY EditorAssumption
<1>2. /\ Accepts(InitialContent)
      /\ \A r \in Elements(InitialContent.routes) : Len(r.path) > 1
  BY InitialAssumption
<1> QED
  BY <1>1, <1>2 DEF Stands, Routed, Accepts, LooseIn

(* The same routes, or routes of the same ids.                             *)
LEMMA SameRoutesKeep ==
  ASSUME NEW d, Stands(d), NEW e \in Content, e.routes = d.routes, e.at = d.at
  PROVE  Keeps(d, e)
  BY DEF Keeps, Stands, Routed, LooseIn, RoutesOf, Joined

LEMMA SameIdsStand ==
  ASSUME NEW d, Stands(d), NEW e \in Content,
         DOMAIN e.routes = DOMAIN d.routes,
         \A i \in DOMAIN d.routes : e.routes[i].id = d.routes[i].id /\ Len(e.routes[i].path) > 1
  PROVE  Stands(e)
<1>1. Distinct(e.routes)
  BY DEF Stands, Routed, Distinct
<1>2. RoutesOf(e, "DELIVERY") # {}
  <2>1. PICK i \in DOMAIN d.routes : d.routes[i].id[1] = "DELIVERY"
    BY DEF Stands, Routed, RoutesOf, Elements
  <2> QED
    BY <2>1 DEF RoutesOf, Elements
<1>3. \A r \in Elements(e.routes) : Len(r.path) > 1
  BY DEF Elements
<1> QED
  BY <1>1, <1>2, <1>3 DEF Stands, Routed

(* An edit keeps the routes when each of them stays joined that was.       *)
LEMMA SameIdsKeep ==
  ASSUME NEW d, Stands(d), NEW e \in Content,
         DOMAIN e.routes = DOMAIN d.routes,
         \A i \in DOMAIN d.routes :
             /\ e.routes[i].id = d.routes[i].id /\ Len(e.routes[i].path) > 1
             /\ Joined(d, d.routes[i]) => Joined(e, e.routes[i])
  PROVE  Keeps(d, e)
<1>1. Stands(e)
  BY SameIdsStand
<1>2. ASSUME NEW x \in LooseIn(e) PROVE x \in LooseIn(d)
  <2>1. PICK r \in Elements(e.routes) : ~Joined(e, r) /\ x = r.id
    BY DEF LooseIn
  <2>2. PICK i \in DOMAIN e.routes : r = e.routes[i]
    BY DEF Elements
  <2>3. ~Joined(d, d.routes[i]) /\ x = d.routes[i].id /\ d.routes[i] \in Elements(d.routes)
    BY <2>1, <2>2 DEF Elements
  <2> QED
    BY <2>3 DEF LooseIn
<1> QED
  BY <1>1, <1>2 DEF Keeps

LEMMA RouteHas ==
  ASSUME NEW d, Stands(d), NEW i \in DOMAIN d.routes
  PROVE  /\ d.routes[i] \in Route
         /\ d.routes[i].path \in Seq(Nat)
         /\ Len(d.routes[i].path) \in Nat /\ Len(d.routes[i].path) > 1
         /\ d.routes[i].from \in Stations /\ d.routes[i].to \in Stations
         /\ d.routes[i].id \in RouteId
<1>1. d.routes \in Seq(Route)
  BY ContentHas DEF Stands
<1>2. d.routes[i] \in Route /\ d.routes[i] \in Elements(d.routes)
  BY <1>1 DEF Elements
<1>3. d.routes[i].path \in Seq(Nat)
  BY <1>2 DEF Route
<1>4. Len(d.routes[i].path) > 1
  BY <1>2 DEF Stands, Routed
<1>5. Len(d.routes[i].path) \in Nat
  BY <1>3
<1>6. /\ d.routes[i].from \in Stations /\ d.routes[i].to \in Stations
      /\ d.routes[i].id \in RouteId
  BY <1>2 DEF Route
<1> QED
  BY <1>2, <1>3, <1>4, <1>5, <1>6

LEMMA ContentWith ==
  ASSUME NEW d \in Content, NEW at \in [Stations -> Nat], NEW routes \in Seq(Route)
  PROVE  /\ [d EXCEPT !.at = at, !.routes = routes] \in Content
         /\ [d EXCEPT !.routes = routes] \in Content
         /\ [d EXCEPT !.at = at, !.routes = routes].at = at
         /\ [d EXCEPT !.at = at, !.routes = routes].routes = routes
         /\ [d EXCEPT !.routes = routes].at = d.at
         /\ [d EXCEPT !.routes = routes].routes = routes
  BY DEF Content

LEMMA MovedKeeps ==
  ASSUME NEW d, Stands(d), NEW s \in Stations, NEW p \in Nat
  PROVE  Keeps(d, Moved(d, s, p))
<1> DEFINE e == Moved(d, s, p)
<1>1. d \in Content
  BY DEF Stands
<1>2. /\ d.width \in Nat /\ d.at \in [Stations -> Nat] /\ d.routes \in Seq(Route)
      /\ d.zones \in [ZoneKinds -> Seq(Zone)] /\ d.config \in Nat
  BY <1>1, ContentHas
<1> DEFINE at == [d.at EXCEPT ![s] = p]
           routes == [i \in DOMAIN d.routes |-> Follow(d.routes[i], s, p)]
<1>9. e = [d EXCEPT !.at = at, !.routes = routes]
  BY <1>1, <1>2 DEF Moved, Map, Content
<1>10. at \in [Stations -> Nat] /\ \A t \in Stations : at[t] = IF t = s THEN p ELSE d.at[t]
  BY <1>2
<1>3. e.at = at /\ e.routes = routes
  BY <1>1, <1>9 DEF Content
<1>4. ASSUME NEW i \in DOMAIN d.routes
      PROVE  /\ Follow(d.routes[i], s, p) \in Route
             /\ Follow(d.routes[i], s, p).id = d.routes[i].id
             /\ Len(Follow(d.routes[i], s, p).path) > 1
             /\ Joined(d, d.routes[i]) => Joined(e, Follow(d.routes[i], s, p))
  <2> DEFINE r == d.routes[i]
             path == [k \in DOMAIN r.path |->
                        IF (k = 1 /\ r.from = s) \/ (k = Len(r.path) /\ r.to = s) THEN p ELSE r.path[k]]
  <2>1. /\ r \in Route /\ r.path \in Seq(Nat) /\ Len(r.path) \in Nat /\ Len(r.path) > 1
        /\ r.from \in Stations /\ r.to \in Stations /\ r.id \in RouteId
    BY RouteHas
  <2>2. Follow(r, s, p) = [r EXCEPT !.path = path]
    BY DEF Follow
  <2>9. \A k \in DOMAIN r.path : path[k] \in Nat
    BY <2>1
  <2>11. DOMAIN path = 1..Len(r.path) /\ Len(r.path) \in Nat
    BY <2>1
  <2>12. path \in [1..Len(r.path) -> Nat]
    BY <2>1, <2>9, <2>11
  <2>3. path \in Seq(Nat) /\ Len(path) = Len(r.path)
    BY <2>11, <2>12
  <2>4. path[1] = (IF r.from = s THEN p ELSE r.path[1])
    BY <2>1
  <2>5. path[Len(r.path)] = (IF r.to = s THEN p ELSE r.path[Len(r.path)])
    BY <2>1
  <2> HIDE DEF path, r
  <2>6. /\ Follow(r, s, p) \in Route /\ Follow(r, s, p).path = path /\ Follow(r, s, p).id = r.id
        /\ Follow(r, s, p).from = r.from /\ Follow(r, s, p).to = r.to
    BY <2>1, <2>2, <2>3 DEF Route
  <2>7. \A t \in Stations : e.at[t] = IF t = s THEN p ELSE d.at[t]
    BY <1>3, <1>10
  <2>8. Joined(d, r) => Joined(e, Follow(r, s, p))
    BY <2>1, <2>3, <2>4, <2>5, <2>6, <2>7 DEF Joined, Last
  <2>10. Len(Follow(r, s, p).path) > 1
    BY <2>1, <2>3, <2>6
  <2> QED
    BY <2>6, <2>8, <2>10 DEF r
<1>5. routes \in Seq(Route)
  BY <1>2, <1>4
<1>6. e \in Content
  <2> HIDE DEF at, routes, e
  <2> QED
    BY <1>1, <1>5, <1>9, <1>10, ContentWith
<1> HIDE DEF e
<1>7. DOMAIN e.routes = DOMAIN d.routes /\ \A i \in DOMAIN d.routes : e.routes[i] = Follow(d.routes[i], s, p)
  BY <1>3
<1>8. Keeps(d, e)
  BY <1>4, <1>6, <1>7, SameIdsKeep
<1> QED
  BY <1>8 DEF e
LEMMA ZonesKeep ==
  ASSUME NEW d, Stands(d), NEW zones \in [ZoneKinds -> Seq(Zone)]
  PROVE  Keeps(d, [d EXCEPT !.zones = zones])
<1> DEFINE e == [d EXCEPT !.zones = zones]
<1>1. d \in Content
  BY DEF Stands
<1>2. e \in Content /\ e.routes = d.routes /\ e.at = d.at
  BY <1>1 DEF Content
<1> QED
  BY <1>2, SameRoutesKeep

LEMMA WidthKeeps ==
  ASSUME NEW d, Stands(d), NEW w \in Nat
  PROVE  /\ Keeps(d, [d EXCEPT !.width = w])
         /\ Keeps(d, [d EXCEPT !.config = w])
<1>1. d \in Content
  BY DEF Stands
<1>2. /\ [d EXCEPT !.width = w] \in Content
      /\ [d EXCEPT !.width = w].routes = d.routes /\ [d EXCEPT !.width = w].at = d.at
  BY <1>1 DEF Content
<1>3. /\ [d EXCEPT !.config = w] \in Content
      /\ [d EXCEPT !.config = w].routes = d.routes /\ [d EXCEPT !.config = w].at = d.at
  BY <1>1 DEF Content
<1> QED
  BY <1>2, <1>3, SameRoutesKeep

(* One route is replaced by one of the same id, that is joined if that was. *)
LEMMA ReplacedStands ==
  ASSUME NEW d, Stands(d), NEW i \in DOMAIN d.routes,
         NEW r \in Route, r.id = d.routes[i].id, Len(r.path) > 1
  PROVE  /\ Stands([d EXCEPT !.routes = [@ EXCEPT ![i] = r]])
         /\ (Joined(d, d.routes[i]) => Joined(d, r)) => Keeps(d, [d EXCEPT !.routes = [@ EXCEPT ![i] = r]])
<1> DEFINE routes == [d.routes EXCEPT ![i] = r]
           e == [d EXCEPT !.routes = routes]
<1>1. d \in Content /\ d.routes \in Seq(Route)
  BY ContentHas DEF Stands
<1>2. routes \in Seq(Route) /\ DOMAIN routes = DOMAIN d.routes
      /\ \A j \in DOMAIN d.routes : routes[j] = IF j = i THEN r ELSE d.routes[j]
  BY <1>1, ExceptSeq
<1> HIDE DEF routes
<1>3. e \in Content /\ e.routes = routes /\ e.at = d.at
  BY <1>1, <1>2 DEF Content
<1> HIDE DEF e
<1>4. \A j \in DOMAIN d.routes : routes[j].id = d.routes[j].id /\ Len(routes[j].path) > 1
  BY <1>2, RouteHas
<1>5. Stands(e)
  BY <1>2, <1>3, <1>4, SameIdsStand
<1>6. ASSUME Joined(d, d.routes[i]) => Joined(d, r)
      PROVE  Keeps(d, e)
  <2>1. \A j \in DOMAIN d.routes : Joined(d, d.routes[j]) => Joined(e, routes[j])
    BY <1>2, <1>3, <1>6 DEF Joined
  <2> QED
    BY <1>2, <1>3, <1>4, <2>1, SameIdsKeep
<1> QED
  BY <1>5, <1>6 DEF e, routes

LEMMA AddedKeeps ==
  ASSUME NEW d, Stands(d), NEW r \in Route, Len(r.path) > 1, Joined(d, r),
         r.id \notin Ids(d.routes)
  PROVE  Keeps(d, [d EXCEPT !.routes = Append(@, r)])
<1> DEFINE routes == Append(d.routes, r)
           e == [d EXCEPT !.routes = routes]
<1>1. d \in Content /\ d.routes \in Seq(Route)
  BY ContentHas DEF Stands
<1>2. /\ routes \in Seq(Route) /\ DOMAIN routes = 1..(Len(d.routes) + 1)
      /\ \A j \in DOMAIN d.routes : routes[j] = d.routes[j]
      /\ routes[Len(d.routes) + 1] = r
  BY <1>1
<1>3. Elements(routes) = Elements(d.routes) \cup {r}
  BY <1>1, ElementsAppend
<1> HIDE DEF routes
<1>4. e \in Content /\ e.routes = routes /\ e.at = d.at
  BY <1>1, <1>2 DEF Content
<1> HIDE DEF e
<1>5. \A j \in DOMAIN d.routes : d.routes[j].id # r.id
  BY DEF Ids, Elements
<1>6. Distinct(routes)
  <2>1. Len(d.routes) \in Nat /\ DOMAIN d.routes = 1..Len(d.routes) /\ Distinct(d.routes)
    BY <1>1 DEF Stands, Routed
  <2>2. \A j \in DOMAIN routes : j \in DOMAIN d.routes \/ j = Len(d.routes) + 1
    BY <1>2, <2>1
  <2> QED
    BY <1>2, <1>5, <2>1, <2>2 DEF Distinct
<1>7. RoutesOf(e, "DELIVERY") # {}
  BY <1>3, <1>4 DEF Stands, Routed, RoutesOf
<1>8. \A q \in Elements(e.routes) : Len(q.path) > 1
  BY <1>3, <1>4 DEF Stands, Routed
<1>9. \A q : Joined(e, q) = Joined(d, q)
  BY <1>4 DEF Joined
<1>10. LooseIn(e) \subseteq LooseIn(d)
  BY <1>3, <1>4, <1>9 DEF LooseIn
<1> QED
  BY <1>4, <1>6, <1>7, <1>8, <1>10 DEF Keeps, Stands, Routed, e, routes

LEMMA RemovedKeeps ==
  ASSUME NEW d, Stands(d), NEW i \in DOMAIN d.routes,
         \E r \in Elements(Without(d.routes, i)) : r.id[1] = "DELIVERY"
  PROVE  /\ Keeps(d, [d EXCEPT !.routes = Without(@, i)])
         /\ Without(d.routes, i)[1].id \in RouteId
<1> DEFINE routes == Without(d.routes, i)
           e == [d EXCEPT !.routes = routes]
           n == Len(d.routes)
<1>1. d \in Content /\ d.routes \in Seq(Route) /\ Distinct(d.routes)
  BY ContentHas DEF Stands, Routed
<1>2. n \in Nat /\ DOMAIN d.routes = 1..n /\ i \in 1..n
  BY <1>1
<1>3. /\ routes \in Seq(Route) /\ Len(routes) = n - 1
      /\ \A j \in 1..(n - 1) : routes[j] = IF j < i THEN d.routes[j] ELSE d.routes[j + 1]
  BY <1>1, WithoutIs
<1>4. Elements(routes) \subseteq Elements(d.routes)
  BY <1>1, ElementsWithout
<1>5. routes # <<>>
  BY <1>3, ElementsAre
<1> HIDE DEF routes
<1>6. DOMAIN routes = 1..(n - 1)
  BY <1>3
<1>7. e \in Content /\ e.routes = routes /\ e.at = d.at
  BY <1>1, <1>3 DEF Content
<1> HIDE DEF e, n
<1>8. Distinct(routes)
  <2> SUFFICES ASSUME NEW j \in 1..(n - 1), NEW k \in 1..(n - 1), routes[j].id = routes[k].id
               PROVE  j = k
    BY <1>6 DEF Distinct
  <2> DEFINE J == IF j < i THEN j ELSE j + 1
             K == IF k < i THEN k ELSE k + 1
  <2>1. J \in 1..n /\ K \in 1..n
    BY <1>2
  <2>2. routes[j] = d.routes[J] /\ routes[k] = d.routes[K]
    BY <1>3
  <2>3. d.routes[J].id = d.routes[K].id
    BY <2>2
  <2>4. J = K
    <3> HIDE DEF J, K
    <3> QED
      BY <1>1, <1>2, <2>1, <2>3 DEF Distinct
  <2> QED
    BY <1>2, <2>4
<1>9. RoutesOf(e, "DELIVERY") # {}
  BY <1>7 DEF RoutesOf, routes
<1>10. \A q \in Elements(e.routes) : Len(q.path) > 1
  BY <1>4, <1>7 DEF Stands, Routed
<1>11. \A q : Joined(e, q) = Joined(d, q)
  BY <1>7 DEF Joined
<1>12. LooseIn(e) \subseteq LooseIn(d)
  BY <1>4, <1>7, <1>11 DEF LooseIn
<1>13. routes[1].id \in RouteId
  <2>1. routes[1] \in Route
    BY <1>3, <1>5
  <2> QED
    BY <2>1 DEF Route
<1> QED
  BY <1>7, <1>8, <1>9, <1>10, <1>12, <1>13 DEF Keeps, Stands, Routed, e, routes
(* Of one suffix more than there are ids, one is free.                     *)
LEMMA FreeSuffixIsFree ==
  ASSUME NEW kind, NEW n \in Nat, NEW used, IsFiniteSet(used)
  PROVE  FreeSuffix(kind, n, used) \in Nat /\ <<kind, FreeSuffix(kind, n, used)>> \notin used
<1> DEFINE m == Cardinality(used)
           free == {s \in n..(n + m) : <<kind, s>> \notin used}
<1>1. m \in Nat
  BY FS_CardinalityType
<1>2. free # {}
  <2> SUFFICES ASSUME free = {} PROVE FALSE
    OBVIOUS
  <2>1. \A s \in n..(n + m) : <<kind, s>> \in used
    OBVIOUS
  <2> DEFINE f == [s \in n..(n + m) |-> <<kind, s>>]
  <2>2. f \in [n..(n + m) -> used]
    BY <2>1
  <2>3. IsFiniteSet(n..(n + m)) /\ Cardinality(n..(n + m)) = m + 1
    BY <1>1, FS_Interval
  <2> HIDE DEF f
  <2>4. PICK x, y \in n..(n + m) : x # y /\ f[x] = f[y]
    BY <1>1, <2>2, <2>3, FS_PigeonHole
  <2>5. f[x] = <<kind, x>> /\ f[y] = <<kind, y>>
    BY DEF f
  <2>6. <<kind, x>>[2] = x /\ <<kind, y>>[2] = y
    OBVIOUS
  <2> QED
    BY <2>4, <2>5, <2>6
<1>3. free \in SUBSET Nat
  BY <1>1
<1>4. \A s \in n..(n + m) : s \in free <=> <<kind, s>> \notin used
  OBVIOUS
<1>5. free \subseteq n..(n + m)
  OBVIOUS
<1> HIDE DEF free
<1>6. PICK x \in free : \A y \in free : x <= y
  BY <1>2, <1>3, LeastOf
<1>7. x \in n..(n + m) /\ <<kind, x>> \notin used
  BY <1>4, <1>5, <1>6
<1>8. \A t \in n..(x - 1) : <<kind, t>> \in used
  <2> SUFFICES ASSUME NEW t \in n..(x - 1), <<kind, t>> \notin used PROVE FALSE
    OBVIOUS
  <2>1. t \in n..(n + m) /\ t < x
    BY <1>1, <1>7
  <2> QED
    BY <1>3, <1>4, <1>6, <2>1
<1>9. \E s \in n..(n + m) : <<kind, s>> \notin used /\ \A t \in n..(s - 1) : <<kind, t>> \in used
  BY <1>7, <1>8
<1>10. FreeSuffix(kind, n, used) \in n..(n + m) /\ <<kind, FreeSuffix(kind, n, used)>> \notin used
  BY <1>9 DEF FreeSuffix
<1> QED
  BY <1>1, <1>10

LEMMA IdsAre ==
  ASSUME NEW S, NEW s \in Seq(S)
  PROVE  IsFiniteSet(Ids(s)) /\ \A i \in DOMAIN s : s[i].id \in Ids(s)
<1> DEFINE f == [item \in Elements(s) |-> item.id]
<1>1. IsFiniteSet(Elements(s))
  BY ElementsAre
<1>2. f \in Surjection(Elements(s), Ids(s))
  BY DEF Surjection, Ids
<1>3. \A i \in DOMAIN s : s[i].id \in Ids(s)
  BY DEF Ids, Elements
<1> QED
  BY <1>1, <1>2, <1>3, FS_Surjection

(* The suffix of an added route is not used by any other.                  *)
LEMMA NewRouteIdIsFree ==
  ASSUME NEW d, Stands(d), NEW kind \in RouteKinds
  PROVE  LET ids == {r.id : r \in RoutesOf(d, kind)}
             id == <<kind, FreeSuffix(kind, Cardinality(ids) + 1, ids)>>
         IN  id \in RouteId /\ id \notin Ids(d.routes)
<1> DEFINE ids == {r.id : r \in RoutesOf(d, kind)}
           suffix == FreeSuffix(kind, Cardinality(ids) + 1, ids)
<1>1. d.routes \in Seq(Route)
  BY ContentHas DEF Stands
<1>2. IsFiniteSet(ids)
  <2>1. ids \subseteq Ids(d.routes)
    BY DEF RoutesOf, Ids
  <2> QED
    BY <1>1, <2>1, IdsAre, FS_Subset
<1>3. Cardinality(ids) + 1 \in Nat
  BY <1>2, FS_CardinalityType
<1> HIDE DEF ids
<1>4. suffix \in Nat /\ <<kind, suffix>> \notin ids
  BY <1>2, <1>3, FreeSuffixIsFree
<1> HIDE DEF suffix
<1>5. <<kind, suffix>> \in RouteId
  BY <1>4 DEF RouteId
<1>6. <<kind, suffix>> \notin Ids(d.routes)
  <2> SUFFICES ASSUME NEW r \in Elements(d.routes), r.id = <<kind, suffix>> PROVE FALSE
    BY DEF Ids
  <2>1. r.id[1] = kind
    OBVIOUS
  <2> QED
    BY <1>4, <2>1 DEF ids, RoutesOf
<1> QED
  BY <1>5, <1>6 DEF suffix, ids
-----------------------------------------------------------------------------
(* Everything is what TypeOK says, stored contents are acceptable, and     *)
(* what a request or the page names is there.                              *)

Names(vs, v) == v.of \in Layouts /\ v.version \in DOMAIN vs[v.of]

Stores(vs) ==
    /\ vs \in [Layouts -> Seq(Content)]
    /\ \A l \in Layouts : \A d \in Elements(vs[l]) : Accepts(d) /\ Stands(d)

PageFits(vs, p) ==
    /\ p \in Page
    /\ Stands(p.draft)
    /\ p.selected # NoVersion => Names(vs, p.selected)
    /\ \A l \in p.layouts : vs[l] # <<>>
    /\ p.zoneDrawing.kind = "" => p.zoneDrawing = NoDrawing

CallFits(vs, c) ==
    /\ c \in Call
    /\ c.kind = "save" => Stands(c.content)
    /\ c.kind = "load" => c.of \in Layouts /\ vs[c.of] # <<>>
    /\ \A l \in c.list : vs[l] # <<>>
    /\ c.step = "answered" /\ c.kind \in {"load", "save", "rename", "archive"} => Names(vs, c.got)

Budget == [edits : Nat, drawings : Nat, requests : Nat, failures : Nat]

Fits ==
    /\ Stores(versions) /\ archived \subseteq Layouts
    /\ PageFits(versions, page)
    /\ \A c \in calls : CallFits(versions, c)
    /\ budget \in Budget

(* A step that fits, and takes no route off its stations that was there.   *)
Loosens == Loose' \subseteq Loose \/ StaleDrawing \/ TypesWaypoint
Sound == Fits' /\ Loosens

LEMMA LooseIs == Loose = LooseIn(page.draft) /\ Loose' = LooseIn(page'.draft)
  BY DEF Loose, LooseIn, Joined, Elements, Last

LEMMA PageHas ==
  ASSUME NEW p \in Page
  PROVE  /\ p.crashed \in BOOLEAN /\ p.layouts \subseteq Layouts /\ p.selected \in Version
         /\ p.named \in BOOLEAN /\ p.draft \in Content /\ p.busy \in BOOLEAN
         /\ p.zoneDrawing \in [kind : ZoneKinds \cup {""}, id : ZoneId, points : Seq(Nat)]
         /\ p.routeDrawing \in BOOLEAN /\ p.routeDraft \in Seq(Nat) /\ p.route \in RouteId
         /\ p.dragging \subseteq Stations /\ p.dialog \in BOOLEAN
  BY DEF Page

LEMMA NoneTyped ==
  /\ NoVersion \in Version
  /\ NoDrawing \in [kind : ZoneKinds \cup {""}, id : ZoneId, points : Seq(Nat)]
  /\ NoDrawing.kind = ""
  /\ <<"DELIVERY", 0>> \in RouteId
<1>1. NoVersion \in Version
  BY DEF NoVersion, Version
<1>2. NoId \in ZoneId
  BY DEF NoId, ZoneId
<1>3. NoDrawing \in [kind : ZoneKinds \cup {""}, id : ZoneId, points : Seq(Nat)]
  BY <1>2 DEF NoDrawing
<1>4. <<"DELIVERY", 0>> \in RouteId
  BY DEF RouteId, RouteKinds
<1> QED
  BY <1>1, <1>3, <1>4 DEF NoDrawing

LEMMA MountedFits ==
  ASSUME NEW vs
  PROVE  /\ PageFits(vs, Mounted) /\ Mounted.draft = InitialContent
         /\ PageFits(vs, [Mounted EXCEPT !.crashed = TRUE])
         /\ [Mounted EXCEPT !.crashed = TRUE].draft = InitialContent
<1>1. InitialContent \in Content /\ Stands(InitialContent)
  BY InitialStands DEF Stands
<1>2. Mounted \in Page
  BY <1>1, NoneTyped, EmptySeq, ZenonT(40) DEF Mounted, Page
<1>3. Mounted.draft = InitialContent
  BY DEF Mounted
<1>4. PageFits(vs, Mounted)
  BY <1>1, <1>2 DEF PageFits, Mounted
<1> DEFINE q == [Mounted EXCEPT !.crashed = TRUE]
<1>5. q \in Page
  BY <1>2 DEF Page
<1>6. /\ q.draft = Mounted.draft /\ q.selected = Mounted.selected /\ q.layouts = Mounted.layouts
      /\ q.zoneDrawing = Mounted.zoneDrawing
  BY <1>2 DEF Page
<1> QED
  BY <1>3, <1>4, <1>5, <1>6 DEF PageFits

(* A rendering shows the draft, or what a page starts with.                *)
LEMMA RenderedFits ==
  ASSUME NEW vs, NEW p, PageFits(vs, p)
  PROVE  /\ PageFits(vs, Rendered(p))
         /\ Rendered(p).draft = p.draft \/ Rendered(p).draft = InitialContent
<1>1. CASE ~Parses(p.draft)
  <2> DEFINE q == [p EXCEPT !.dragging = {}]
  <2>1. Rendered(p) = q
    BY <1>1 DEF Rendered
  <2>2. p \in Page
    BY DEF PageFits
  <2>3. q \in Page
    BY <2>2 DEF Page
  <2>4. /\ q.draft = p.draft /\ q.selected = p.selected /\ q.layouts = p.layouts
        /\ q.zoneDrawing = p.zoneDrawing
    BY <2>2 DEF Page
  <2> HIDE DEF q
  <2> QED
    BY <2>1, <2>3, <2>4 DEF PageFits
<1>2. CASE Parses(p.draft) /\ Projects(p.draft, p.named)
  BY <1>2 DEF Rendered
<1>3. CASE Parses(p.draft) /\ ~Projects(p.draft, p.named)
  BY <1>3, MountedFits DEF Rendered
<1> QED
  BY <1>1, <1>2, <1>3

LEMMA SpendFits ==
  ASSUME budget \in Budget, NEW what \in {"edits", "drawings", "requests", "failures"}, Spend(what)
  PROVE  budget' \in Budget
<1>1. budget[what] \in Nat /\ budget[what] > 0
  BY DEF Budget, Spend
<1>2. budget[what] - 1 \in Nat
  BY <1>1
<1>3. budget' = [budget EXCEPT ![what] = budget[what] - 1]
  BY DEF Spend
<1> QED
  BY <1>2, <1>3 DEF Budget

(* What a click shows.                                                     *)
LEMMA ShowsSound ==
  ASSUME Fits, NEW p, PageFits(versions, p), Shows(p), budget' \in Budget,
         \/ LooseIn(p.draft) \subseteq LooseIn(page.draft)
         \/ StaleDrawing
         \/ TypesWaypoint
  PROVE  Sound
<1>1. page' = Rendered(p) /\ versions' = versions /\ archived' = archived /\ calls' = calls
  BY DEF Shows, server
<1>2. PageFits(versions', page')
  BY <1>1, RenderedFits
<1>3. Fits'
  BY <1>1, <1>2 DEF Fits
<1>4. LooseIn(page'.draft) = LooseIn(p.draft) \/ LooseIn(page'.draft) = {}
  BY <1>1, RenderedFits, InitialStands
<1> QED
  BY <1>3, <1>4, LooseIs DEF Sound, Loosens

(* It shows what was there with another draft.                             *)
LEMMA DraftSound ==
  ASSUME Fits, NEW d, Draft(d), Stands(d),
         LooseIn(d) \subseteq LooseIn(page.draft) \/ StaleDrawing \/ TypesWaypoint
  PROVE  Sound
<1> DEFINE p == [page EXCEPT !.draft = d]
<1>1. page \in Page /\ d \in Content
  BY DEF Fits, PageFits, Stands
<1>2. p \in Page
  BY <1>1 DEF Page
<1>3. /\ p.draft = d /\ p.selected = page.selected /\ p.layouts = page.layouts
      /\ p.zoneDrawing = page.zoneDrawing
  BY <1>1 DEF Page
<1>4. Shows(p) /\ budget' \in Budget
  BY SpendFits DEF Draft, Edit, Fits
<1> HIDE DEF p
<1>5. PageFits(versions, p)
  BY <1>2, <1>3 DEF Fits, PageFits
<1> QED
  BY <1>3, <1>4, <1>5, ShowsSound
-----------------------------------------------------------------------------
(* The buttons and fields of routes.                                       *)

LEMMA FitsHas ==
  ASSUME Fits
  PROVE  /\ page \in Page /\ page.draft \in Content /\ Stands(page.draft)
         /\ page.draft.routes \in Seq(Route) /\ page.draft.at \in [Stations -> Nat]
         /\ page.draft.width \in Nat
         /\ page.draft.zones \in [ZoneKinds -> Seq(Zone)]
<1>1. page \in Page /\ Stands(page.draft)
  BY DEF Fits, PageFits
<1>2. page.draft \in Content
  BY <1>1 DEF Stands
<1> QED
  BY <1>1, <1>2, ContentHas

(* A page that shows another draft with the tools for routes put away.     *)
LEMMA StopRouteSound ==
  ASSUME Fits, NEW d, Stands(d), NEW route \in RouteId,
         Shows([StopRoute(page) EXCEPT !.draft = d, !.route = route]), budget' \in Budget,
         LooseIn(d) \subseteq LooseIn(page.draft) \/ StaleDrawing \/ TypesWaypoint
  PROVE  Sound
<1> DEFINE p == [StopRoute(page) EXCEPT !.draft = d, !.route = route]
<1>1. page \in Page /\ d \in Content
  BY FitsHas DEF Stands
<1>2. p = [page EXCEPT !.routeDrawing = FALSE, !.routeDraft = <<>>, !.draft = d, !.route = route]
  BY <1>1 DEF StopRoute, Page
<1>6. <<>> \in Seq(Nat) /\ FALSE \in BOOLEAN
  BY EmptySeq
<1>3. p \in Page
  BY <1>1, <1>2, <1>6 DEF Page
<1>4. /\ p.draft = d /\ p.selected = page.selected /\ p.layouts = page.layouts
      /\ p.zoneDrawing = page.zoneDrawing
  BY <1>1, <1>2 DEF Page
<1> HIDE DEF p
<1>5. PageFits(versions, p)
  BY <1>3, <1>4 DEF Fits, PageFits
<1> QED
  BY <1>4, <1>5, ShowsSound DEF p

(* What is on the page besides the draft.                                  *)
LEMMA ToolsSound ==
  ASSUME Fits, NEW p \in Page, Shows(p), budget' \in Budget,
         p.draft = page.draft, p.layouts = page.layouts,
         p.selected = page.selected \/ p.selected = NoVersion,
         p.zoneDrawing.kind = "" => p.zoneDrawing = NoDrawing
  PROVE  Sound
<1>1. PageFits(versions, p)
  BY DEF Fits, PageFits
<1> QED
  BY <1>1, ShowsSound

LEMMA AddRouteSound ==
  ASSUME Fits, NEW kind \in RouteKinds, AddRoute(kind)
  PROVE  Sound
<1> DEFINE starts == IF kind = "DELIVERY" THEN BatteryBuffer ELSE ChargingStation
           ends == IF kind = "DELIVERY" THEN MarriageStation ELSE BatteryBuffer
           used == {r.to : r \in RoutesOf(page.draft, kind)}
           ids == {r.id : r \in RoutesOf(page.draft, kind)}
           id == <<kind, FreeSuffix(kind, Cardinality(ids) + 1, ids)>>
           new(from, to) == [id |-> id, from |-> from, to |-> to,
                             path |-> <<page.draft.at[from], page.draft.at[to]>>]
<1>1. id \in RouteId /\ id \notin Ids(page.draft.routes)
  BY FitsHas, NewRouteIdIsFree
<1> HIDE DEF id
<1>2. PICK from \in starts, to \in IF ends \subseteq used THEN ends ELSE ends \ used :
        Edit([StopRoute(page) EXCEPT !.draft.routes = Append(@, new(from, to)), !.route = id])
  BY DEF AddRoute, id
<1>3. from \in Stations /\ to \in Stations
  BY DEF Stations
<1>4. page.draft.at[from] \in Nat /\ page.draft.at[to] \in Nat
  BY <1>3, FitsHas
<1> DEFINE r == new(from, to)
           path == <<page.draft.at[from], page.draft.at[to]>>
           d == [page.draft EXCEPT !.routes = Append(@, r)]
<1>5. path \in Seq(Nat) /\ Len(path) = 2 /\ path[1] = page.draft.at[from] /\ path[2] = page.draft.at[to]
  BY <1>4
<1> HIDE DEF path
<1>6. /\ r \in Route /\ r.path = path /\ r.id = id
      /\ r.from = from /\ r.to = to
  <2>1. r = [id |-> id, from |-> from, to |-> to, path |-> path]
    BY DEF path
  <2> QED
    BY <1>1, <1>3, <1>5, <2>1 DEF Route
<1> HIDE DEF r
<1>7. Joined(page.draft, r) /\ Len(r.path) > 1
  <2>1. r.path[1] = page.draft.at[r.from]
    BY <1>5, <1>6
  <2>2. Len(r.path) = 2 /\ r.path[2] = page.draft.at[r.to]
    BY <1>5, <1>6
  <2>3. Last(r.path) = page.draft.at[r.to]
    BY <2>2 DEF Last
  <2> QED
    BY <2>1, <2>2, <2>3 DEF Joined
<1>8. Keeps(page.draft, d)
  BY <1>1, <1>6, <1>7, FitsHas, AddedKeeps
<1>9. [StopRoute(page) EXCEPT !.draft.routes = Append(@, r), !.route = id]
        = [StopRoute(page) EXCEPT !.draft = d, !.route = id]
  BY FitsHas DEF StopRoute, Page
<1>10. Shows([StopRoute(page) EXCEPT !.draft = d, !.route = id]) /\ budget' \in Budget
  BY <1>2, <1>9, SpendFits DEF Edit, Fits, r
<1> HIDE DEF d
<1> QED
  BY <1>1, <1>8, <1>10, StopRouteSound DEF Keeps

LEMMA SelectedIs ==
  ASSUME NEW d, NEW route, NEW i \in Selected(d, route)
  PROVE  i \in DOMAIN d.routes /\ d.routes[i].id = route
  BY DEF Selected

LEMMA RemoveRouteSound ==
  ASSUME Fits, RemoveSelectedRoute
  PROVE  Sound
<1>1. PICK i \in Selected(page.draft, page.route) :
        /\ \E r \in Elements(Without(page.draft.routes, i)) : r.id[1] = "DELIVERY"
        /\ Edit([StopRoute(page) EXCEPT !.draft.routes = Without(page.draft.routes, i),
                                        !.route = Without(page.draft.routes, i)[1].id])
  BY DEF RemoveSelectedRoute
<1> DEFINE routes == Without(page.draft.routes, i)
           d == [page.draft EXCEPT !.routes = routes]
<1>2. Keeps(page.draft, d) /\ routes[1].id \in RouteId
  BY <1>1, SelectedIs, FitsHas, RemovedKeeps
<1>3. [StopRoute(page) EXCEPT !.draft.routes = routes, !.route = routes[1].id]
        = [StopRoute(page) EXCEPT !.draft = d, !.route = routes[1].id]
  BY FitsHas DEF StopRoute, Page
<1>4. Shows([StopRoute(page) EXCEPT !.draft = d, !.route = routes[1].id]) /\ budget' \in Budget
  BY <1>1, <1>3, SpendFits DEF Edit, Fits
<1> HIDE DEF d, routes
<1> QED
  BY <1>2, <1>4, StopRouteSound DEF Keeps

(* An end of a route: its path goes to the station that is chosen.         *)
LEMMA EndpointSound ==
  ASSUME Fits, NEW i \in DOMAIN page.draft.routes, NEW field \in {"from", "to"}, NEW s \in Stations,
         UpdateRouteEndpoint(i, field, s)
  PROVE  Sound
<1> DEFINE d == page.draft
           r == d.routes[i]
           k == IF field = "from" THEN 1 ELSE Len(r.path)
           path == [r.path EXCEPT ![k] = d.at[s]]
           moved == [r EXCEPT ![field] = s, !.path[k] = d.at[s]]
<1>1. /\ r \in Route /\ r.path \in Seq(Nat) /\ Len(r.path) \in Nat /\ Len(r.path) > 1
      /\ r.from \in Stations /\ r.to \in Stations /\ r.id \in RouteId
  BY FitsHas, RouteHas
<1>2. k \in 1..Len(r.path) /\ d.at[s] \in Nat
  BY <1>1, FitsHas
<1>3. /\ path \in Seq(Nat) /\ Len(path) = Len(r.path)
      /\ \A j \in 1..Len(r.path) : path[j] = IF j = k THEN d.at[s] ELSE r.path[j]
  BY <1>1, <1>2, ExceptSeq
<1> HIDE DEF path
<1>4. /\ moved \in Route /\ moved.id = r.id /\ moved.path = path
      /\ moved.from = (IF field = "from" THEN s ELSE r.from)
      /\ moved.to = (IF field = "to" THEN s ELSE r.to)
  <2>1. CASE field = "from"
    <3>1. moved = [r EXCEPT !.from = s, !.path = path]
      BY <1>1, <2>1 DEF Route, path
    <3> QED
      BY <1>1, <1>3, <2>1, <3>1 DEF Route
  <2>2. CASE field = "to"
    <3>1. moved = [r EXCEPT !.to = s, !.path = path]
      BY <1>1, <2>2 DEF Route, path
    <3> QED
      BY <1>1, <1>3, <2>2, <3>1 DEF Route
  <2> QED
    BY <2>1, <2>2
<1>5. Joined(d, r) => Joined(d, moved)
  <2> HIDE DEF d, moved, r
  <2> QED
    BY <1>1, <1>2, <1>3, <1>4 DEF Joined, Last
<1>6. Len(moved.path) > 1
  BY <1>1, <1>3, <1>4
<1>7. Draft([d EXCEPT !.routes[i] = moved])
  BY DEF UpdateRouteEndpoint
<1> HIDE DEF moved
<1>8. Keeps(d, [d EXCEPT !.routes = [@ EXCEPT ![i] = moved]])
  BY <1>4, <1>5, <1>6, FitsHas, ReplacedStands
<1>9. Draft([d EXCEPT !.routes = [@ EXCEPT ![i] = moved]])
  BY <1>7
<1> QED
  BY <1>8, <1>9, DraftSound DEF Keeps

LEMMA WaypointSound ==
  ASSUME Fits, NEW i \in DOMAIN page.draft.routes, NEW k \in DOMAIN page.draft.routes[i].path,
         NEW p \in Points, UpdateWaypoint(i, k, p)
  PROVE  Sound
<1> DEFINE d == page.draft
           r == d.routes[i]
           path == [r.path EXCEPT ![k] = p]
           moved == [r EXCEPT !.path = path]
<1>1. /\ r \in Route /\ r.path \in Seq(Nat) /\ Len(r.path) \in Nat /\ Len(r.path) > 1
      /\ r.id \in RouteId
  BY FitsHas, RouteHas
<1>2. p \in Nat /\ k \in 1..Len(r.path)
  BY <1>1, EditorAssumption
<1>3. path \in Seq(Nat) /\ Len(path) = Len(r.path)
  BY <1>1, <1>2, ExceptSeq
<1> HIDE DEF path
<1>4. moved \in Route /\ moved.id = r.id /\ Len(moved.path) > 1
  BY <1>1, <1>3 DEF Route
<1>5. Stands([d EXCEPT !.routes = [@ EXCEPT ![i] = moved]])
  <2> HIDE DEF moved
  <2> QED
    BY <1>4, FitsHas, ReplacedStands
<1>6. Draft([d EXCEPT !.routes = [@ EXCEPT ![i] = moved]])
  BY DEF UpdateWaypoint, path
<1>7. TypesWaypoint
  BY DEF TypesWaypoint
<1> QED
  BY <1>5, <1>6, <1>7, DraftSound
LEMMA EditRoutesSound ==
  ASSUME Fits, EditRoutes
  PROVE  Sound
<1>0. page \in Page /\ page.draft.routes \in Seq(Route)
  BY FitsHas
<1>1. ASSUME NEW s \in Stations, NEW p \in Points, MoveStation(s, p)
      PROVE  Sound
  <2>1. Keeps(page.draft, Moved(page.draft, s, p))
    BY FitsHas, EditorAssumption, MovedKeeps
  <2> QED
    BY <1>1, <2>1, DraftSound DEF MoveStation, Keeps
<1>2. ASSUME NEW kind \in RouteKinds, AddRoute(kind)
      PROVE  Sound
  BY <1>2, AddRouteSound
<1>3. CASE StartRouteDrawing
  <2> DEFINE p == [page EXCEPT !.routeDrawing = TRUE, !.routeDraft = <<>>, !.zoneDrawing = NoDrawing]
  <2>1. <<>> \in Seq(Nat) /\ TRUE \in BOOLEAN
    BY EmptySeq
  <2>2. p \in Page
    BY <1>0, <2>1, NoneTyped DEF Page
  <2>3. /\ p.draft = page.draft /\ p.layouts = page.layouts /\ p.selected = page.selected
        /\ p.zoneDrawing = NoDrawing
    BY <1>0 DEF Page
  <2>4. Shows(p) /\ budget' \in Budget
    BY <1>3, SpendFits DEF StartRouteDrawing, Begin, Fits
  <2> HIDE DEF p
  <2> QED
    BY <2>2, <2>3, <2>4, ToolsSound
<1>4. CASE CancelRouteDrawing
  <2> DEFINE p == StopRoute(page)
  <2>1. <<>> \in Seq(Nat) /\ FALSE \in BOOLEAN
    BY EmptySeq
  <2>2. p \in Page
    BY <1>0, <2>1 DEF Page, StopRoute
  <2>3. /\ p.draft = page.draft /\ p.layouts = page.layouts /\ p.selected = page.selected
        /\ p.zoneDrawing = page.zoneDrawing
    BY <1>0 DEF Page, StopRoute
  <2>4. Shows(p) /\ budget' \in Budget
    BY <1>4 DEF CancelRouteDrawing, Click, Fits
  <2>5. p.zoneDrawing.kind = "" => p.zoneDrawing = NoDrawing
    BY <2>3 DEF Fits, PageFits
  <2> HIDE DEF p
  <2> QED
    BY <2>2, <2>3, <2>4, <2>5, ToolsSound
<1>5. CASE RemoveSelectedRoute
  BY <1>5, RemoveRouteSound
<1>6. ASSUME NEW i \in DOMAIN page.draft.routes, SelectRoute(i)
      PROVE  Sound
  <2> DEFINE p == [page EXCEPT !.route = page.draft.routes[i].id]
  <2>1. page.draft.routes[i].id \in RouteId
    BY FitsHas, RouteHas
  <2>2. p \in Page
    BY <1>0, <2>1 DEF Page
  <2>3. /\ p.draft = page.draft /\ p.layouts = page.layouts /\ p.selected = page.selected
        /\ p.zoneDrawing = page.zoneDrawing
    BY <1>0 DEF Page
  <2>4. Shows(p) /\ budget' \in Budget
    BY <1>6 DEF SelectRoute, Click, Fits
  <2>5. p.zoneDrawing.kind = "" => p.zoneDrawing = NoDrawing
    BY <2>3 DEF Fits, PageFits
  <2> HIDE DEF p
  <2> QED
    BY <2>2, <2>3, <2>4, <2>5, ToolsSound
<1>7. ASSUME NEW i \in DOMAIN page.draft.routes, NEW field \in {"from", "to"}, NEW s \in Stations,
             UpdateRouteEndpoint(i, field, s)
      PROVE  Sound
  BY <1>7, EndpointSound
<1>8. ASSUME NEW i \in DOMAIN page.draft.routes, NEW k \in DOMAIN page.draft.routes[i].path,
             NEW p \in Points, UpdateWaypoint(i, k, p)
      PROVE  Sound
  BY <1>8, WaypointSound
<1> QED
  BY <1>1, <1>2, <1>3, <1>4, <1>5, <1>6, <1>7, <1>8 DEF EditRoutes

-----------------------------------------------------------------------------
(* The buttons and fields of zones.                                        *)

LEMMA ZonesSound ==
  ASSUME Fits, NEW kind \in ZoneKinds, NEW zones \in Seq(Zone),
         Draft([page.draft EXCEPT !.zones[kind] = zones])
  PROVE  Sound
<1> DEFINE all == [page.draft.zones EXCEPT ![kind] = zones]
<1>1. all \in [ZoneKinds -> Seq(Zone)]
  BY FitsHas
<1>2. Draft([page.draft EXCEPT !.zones = all])
  OBVIOUS
<1> HIDE DEF all
<1>3. Keeps(page.draft, [page.draft EXCEPT !.zones = all])
  BY <1>1, FitsHas, ZonesKeep
<1> QED
  BY <1>2, <1>3, DraftSound DEF Keeps

(* One zone is another, or has another name, delay or corner.              *)
LEMMA ZoneSound ==
  ASSUME Fits, NEW kind \in ZoneKinds, NEW i \in DOMAIN page.draft.zones[kind], NEW zone \in Zone,
         Draft([page.draft EXCEPT !.zones[kind] = [@ EXCEPT ![i] = zone]])
  PROVE  Sound
<1>1. page.draft.zones[kind] \in Seq(Zone)
  BY FitsHas
<1>2. [page.draft.zones[kind] EXCEPT ![i] = zone] \in Seq(Zone)
  BY <1>1, ExceptSeq
<1> QED
  BY <1>2, ZonesSound

LEMMA ZoneHas ==
  ASSUME Fits, NEW kind \in ZoneKinds, NEW i \in DOMAIN page.draft.zones[kind]
  PROVE  /\ page.draft.zones[kind][i] \in Zone
         /\ page.draft.zones[kind][i].points \in Seq(Nat)
<1>1. page.draft.zones[kind] \in Seq(Zone)
  BY FitsHas
<1>2. page.draft.zones[kind][i] \in Zone
  BY <1>1
<1> QED
  BY <1>2 DEF Zone

LEMMA OnMapIs ==
  ASSUME Fits, NEW p \in Points
  PROVE  OnMap(p) \in Nat
<1>1. p \in Nat /\ page.draft.width \in Nat
  BY FitsHas, EditorAssumption
<1> QED
  BY <1>1 DEF OnMap

LEMMA DrawingHas ==
  ASSUME Fits
  PROVE  /\ page.zoneDrawing \in [kind : ZoneKinds \cup {""}, id : ZoneId, points : Seq(Nat)]
         /\ page.zoneDrawing.kind \in ZoneKinds \cup {""} /\ page.zoneDrawing.id \in ZoneId
         /\ page.zoneDrawing.points \in Seq(Nat)
         /\ page.zoneDrawing # NoDrawing => page.zoneDrawing.kind \in ZoneKinds
<1>1. page.zoneDrawing \in [kind : ZoneKinds \cup {""}, id : ZoneId, points : Seq(Nat)]
  BY FitsHas, PageHas
<1>2. page.zoneDrawing.kind = "" => page.zoneDrawing = NoDrawing
  BY DEF Fits, PageFits
<1> QED
  BY <1>1, <1>2

(* Another drawing of a zone.                                              *)
LEMMA DrawingSound ==
  ASSUME Fits, NEW drawing \in [kind : ZoneKinds \cup {""}, id : ZoneId, points : Seq(Nat)],
         drawing.kind = "" => drawing = NoDrawing,
         Shows([page EXCEPT !.zoneDrawing = drawing]), budget' \in Budget
  PROVE  Sound
<1> DEFINE p == [page EXCEPT !.zoneDrawing = drawing]
<1>0. page \in Page
  BY FitsHas
<1>1. p \in Page
  BY <1>0 DEF Page
<1>2. /\ p.draft = page.draft /\ p.layouts = page.layouts /\ p.selected = page.selected
      /\ p.zoneDrawing = drawing
  BY <1>0 DEF Page
<1> HIDE DEF p
<1> QED
  BY <1>1, <1>2, ToolsSound DEF p

LEMMA StartZoneSound ==
  ASSUME Fits, NEW kind \in ZoneKinds, StartZoneDrawing(kind)
  PROVE  Sound
<1> DEFINE used == Ids(AllZones(page.draft))
           id == <<kind, FreeSuffix(kind, 1, used)>>
           new == [kind |-> kind, id |-> id, points |-> <<>>]
           p == [NoTools(page) EXCEPT !.zoneDrawing = new]
           q == [page EXCEPT !.routeDrawing = FALSE, !.routeDraft = <<>>, !.zoneDrawing = new]
<1>0. page \in Page
  BY FitsHas
<1>1. IsFiniteSet(used)
  <2>1. "no_go_zones" \in ZoneKinds /\ "congestion_zones" \in ZoneKinds
    BY DEF ZoneKinds
  <2>2. page.draft.zones["no_go_zones"] \in Seq(Zone) /\ page.draft.zones["congestion_zones"] \in Seq(Zone)
    BY <2>1, FitsHas
  <2>3. AllZones(page.draft) \in Seq(Zone)
    BY <2>2, ConcatProperties DEF AllZones
  <2> QED
    BY <2>3, IdsAre
<1>2. id \in ZoneId
  BY <1>1, FreeSuffixIsFree DEF ZoneId
<1>3. Shows(p) /\ budget' \in Budget
  BY SpendFits DEF StartZoneDrawing, Begin, Fits
<1> HIDE DEF id, used
<1>4. new \in [kind : ZoneKinds \cup {""}, id : ZoneId, points : Seq(Nat)] /\ new.kind # ""
  BY <1>2, EmptySeq DEF ZoneKinds
<1> HIDE DEF new
<1>5. <<>> \in Seq(Nat) /\ FALSE \in BOOLEAN
  BY EmptySeq
<1>6. p = q
  BY <1>0 DEF NoTools, Page
<1>7. q \in Page
  BY <1>0, <1>4, <1>5 DEF Page
<1>8. /\ q.draft = page.draft /\ q.layouts = page.layouts /\ q.selected = page.selected
      /\ q.zoneDrawing.kind # ""
  BY <1>0, <1>4 DEF Page
<1> HIDE DEF p, q
<1> QED
  BY <1>3, <1>6, <1>7, <1>8, ToolsSound
LEMMA FinishZoneSound ==
  ASSUME Fits, FinishZoneDrawing
  PROVE  Sound
<1> DEFINE z == page.zoneDrawing
           new == [id |-> z.id, points |-> z.points, delay |-> IF z.kind = "congestion_zones" THEN 1 ELSE 0]
           drawn == Append(page.draft.zones[z.kind], new)
           zones == [page.draft.zones EXCEPT ![z.kind] = drawn]
           d == [page.draft EXCEPT !.zones = zones]
           p == [page EXCEPT !.draft = d, !.zoneDrawing = NoDrawing]
<1>0. page \in Page /\ page.draft \in Content
  BY FitsHas
<1>1. z.kind \in ZoneKinds
  <2>1. Len(z.points) >= MinCorners /\ MinCorners \in Nat \ {0}
    BY EditorAssumption DEF FinishZoneDrawing
  <2>2. Len(NoDrawing.points) = 0
    BY DEF NoDrawing
  <2>3. z # NoDrawing
    BY <2>1, <2>2
  <2> QED
    BY <2>3, DrawingHas
<1>2. new \in Zone
  BY DrawingHas DEF Zone
<1>3. Shows([page EXCEPT !.draft.zones[z.kind] = drawn, !.zoneDrawing = NoDrawing]) /\ budget' \in Budget
  BY DEF FinishZoneDrawing, Click, Fits
<1>4. Shows(p)
  BY <1>3
<1> HIDE DEF new
<1>5. drawn \in Seq(Zone)
  <2>1. page.draft.zones[z.kind] \in Seq(Zone)
    BY <1>1, FitsHas
  <2> QED
    BY <1>2, <2>1
<1> HIDE DEF drawn
<1>6. zones \in [ZoneKinds -> Seq(Zone)]
  BY <1>1, <1>5, FitsHas
<1> HIDE DEF zones
<1>7. Keeps(page.draft, d)
  BY <1>6, FitsHas, ZonesKeep
<1> HIDE DEF d
<1>8. d \in Content /\ Stands(d) /\ LooseIn(d) \subseteq LooseIn(page.draft)
  BY <1>7 DEF Keeps, Stands
<1>9. p \in Page
  BY <1>0, <1>8, NoneTyped DEF Page
<1>10. /\ p.draft = d /\ p.selected = page.selected /\ p.layouts = page.layouts
       /\ p.zoneDrawing = NoDrawing
  BY <1>0 DEF Page
<1> HIDE DEF p
<1>11. PageFits(versions, p)
  BY <1>8, <1>9, <1>10 DEF Fits, PageFits
<1> QED
  BY <1>3, <1>4, <1>8, <1>10, <1>11, ShowsSound

LEMMA EditZonesSound ==
  ASSUME Fits, EditZones
  PROVE  Sound
<1>1. CASE UndoZonePoint
  <2> DEFINE points == SubSeq(page.zoneDrawing.points, 1, Len(page.zoneDrawing.points) - 1)
             new == [page.zoneDrawing EXCEPT !.points = points]
  <2>1. page.zoneDrawing # NoDrawing
    <3>1. NoDrawing.points = <<>>
      BY DEF NoDrawing
    <3> QED
      BY <1>1, <3>1 DEF UndoZonePoint
  <2>2. points \in Seq(Nat)
    <3>1. page.zoneDrawing.points \in Seq(Nat) /\ page.zoneDrawing.points # <<>>
      BY <1>1, DrawingHas DEF UndoZonePoint
    <3>2. Len(page.zoneDrawing.points) \in Nat \ {0}
      BY <3>1, EmptySeq
    <3> DEFINE all == page.zoneDrawing.points
    <3>3. all \in Seq(Nat) /\ Len(all) \in Nat /\ Len(all) - 1 \in Int
          /\ \A i \in 1..(Len(all) - 1) : all[i] \in Nat
      BY <3>1, <3>2
    <3> HIDE DEF all
    <3>4. SubSeq(all, 1, Len(all) - 1) \in Seq(Nat)
      BY <3>3, SubSeqProperties
    <3> QED
      BY <3>4 DEF all
  <2>3. Shows([page EXCEPT !.zoneDrawing.points = SubSeq(@, 1, Len(@) - 1)]) /\ budget' \in Budget
    BY <1>1 DEF UndoZonePoint, Click, Fits
  <2>4. Shows([page EXCEPT !.zoneDrawing = new])
    BY <2>3
  <2> HIDE DEF points
  <2>5. /\ new \in [kind : ZoneKinds \cup {""}, id : ZoneId, points : Seq(Nat)]
        /\ new.kind = page.zoneDrawing.kind /\ new.kind # ""
    BY <2>1, <2>2, DrawingHas DEF ZoneKinds
  <2> HIDE DEF new
  <2> QED
    BY <2>3, <2>4, <2>5, DrawingSound
<1>2. CASE CancelZoneDrawing
  BY <1>2, NoneTyped, DrawingSound DEF CancelZoneDrawing, Click, Fits
<1>3. CASE FinishZoneDrawing
  BY <1>3, FinishZoneSound
<1>4. ASSUME NEW i \in DOMAIN page.draft.zones["congestion_zones"], NEW delay \in 1..2,
             UpdateZoneDelay(i, delay)
      PROVE  Sound
  <2> DEFINE kind == "congestion_zones"
             new == [page.draft.zones[kind][i] EXCEPT !.delay = delay]
  <2>1. kind \in ZoneKinds
    BY DEF ZoneKinds
  <2>2. new \in Zone
    BY <2>1, ZoneHas DEF Zone
  <2>3. Draft([page.draft EXCEPT !.zones[kind] = [@ EXCEPT ![i] = new]])
    BY <1>4 DEF UpdateZoneDelay
  <2> HIDE DEF new
  <2> QED
    BY <2>1, <2>2, <2>3, ZoneSound
<1>5. ASSUME NEW kind \in ZoneKinds, StartZoneDrawing(kind)
      PROVE  Sound
  BY <1>5, StartZoneSound
<1>6. ASSUME NEW kind \in ZoneKinds, NEW i \in DOMAIN page.draft.zones[kind], RemoveZone(kind, i)
      PROVE  Sound
  <2>1. Without(page.draft.zones[kind], i) \in Seq(Zone)
    BY FitsHas, WithoutIs
  <2>2. Draft([page.draft EXCEPT !.zones[kind] = Without(page.draft.zones[kind], i)])
    BY <1>6 DEF RemoveZone
  <2> QED
    BY <2>1, <2>2, ZonesSound
<1>7. ASSUME NEW kind \in ZoneKinds, NEW i \in DOMAIN page.draft.zones[kind], NEW id \in ZoneIds,
             UpdateZoneId(kind, i, id)
      PROVE  Sound
  <2> DEFINE new == [page.draft.zones[kind][i] EXCEPT !.id = id]
  <2>1. id \in ZoneId
    BY EditorAssumption
  <2>2. new \in Zone
    BY <2>1, ZoneHas DEF Zone
  <2>3. Draft([page.draft EXCEPT !.zones[kind] = [@ EXCEPT ![i] = new]])
    BY <1>7 DEF UpdateZoneId
  <2> HIDE DEF new
  <2> QED
    BY <2>2, <2>3, ZoneSound
<1>8. ASSUME NEW kind \in ZoneKinds, NEW i \in DOMAIN page.draft.zones[kind],
             NEW k \in DOMAIN page.draft.zones[kind][i].points, NEW p \in Points,
             UpdateZonePoint(kind, i, k, p)
      PROVE  Sound
  <2> DEFINE points == [page.draft.zones[kind][i].points EXCEPT ![k] = OnMap(p)]
             new == [page.draft.zones[kind][i] EXCEPT !.points = points]
  <2>1. points \in Seq(Nat)
    BY OnMapIs, ZoneHas, ExceptSeq
  <2>2. Draft([page.draft EXCEPT !.zones[kind] = [@ EXCEPT ![i] = new]])
    BY <1>8 DEF UpdateZonePoint
  <2> HIDE DEF points
  <2>3. new \in Zone
    BY <2>1, ZoneHas DEF Zone
  <2> HIDE DEF new
  <2> QED
    BY <2>2, <2>3, ZoneSound
<1> QED
  BY <1>1, <1>2, <1>3, <1>4, <1>5, <1>6, <1>7, <1>8 DEF EditZones

-----------------------------------------------------------------------------
(* The pointer on the map.                                                 *)

(* The end of a drawing: the route goes where it was drawn, from where the *)
(* drawing began to the station that is pressed.                           *)
LEMMA DrawnSound ==
  ASSUME Fits, NEW s \in Stations, NEW i \in Selected(page.draft, page.route),
         page.routeDraft # <<>>, s = page.draft.routes[i].to, budget' \in Budget,
         Shows([StopRoute(page) EXCEPT !.draft.routes[i] =
                   [@ EXCEPT !.path = Append(page.routeDraft, page.draft.at[s])]])
  PROVE  Sound
<1> DEFINE r == page.draft.routes[i]
           path == Append(page.routeDraft, page.draft.at[s])
           new == [r EXCEPT !.path = path]
           d == [page.draft EXCEPT !.routes = [@ EXCEPT ![i] = new]]
<1>1. /\ i \in DOMAIN page.draft.routes /\ r.id = page.route
      /\ r \in Route /\ r.from \in Stations /\ r.to \in Stations
  BY SelectedIs, FitsHas, RouteHas
<1>2. page.routeDraft \in Seq(Nat) /\ Len(page.routeDraft) \in Nat \ {0} /\ page.draft.at[s] \in Nat
  <2>1. page.routeDraft \in Seq(Nat)
    BY FitsHas, PageHas
  <2> QED
    BY <2>1, FitsHas, EmptySeq
<1>3. /\ path \in Seq(Nat) /\ Len(path) = Len(page.routeDraft) + 1
      /\ path[1] = page.routeDraft[1] /\ path[Len(path)] = page.draft.at[s]
  BY <1>2
<1>4. Len(path) > 1
  BY <1>2, <1>3
<1> HIDE DEF path
<1>5. /\ new \in Route /\ new.id = r.id /\ new.path = path
      /\ new.from = r.from /\ new.to = r.to
  BY <1>1, <1>3 DEF Route
<1>6. /\ page \in Page /\ page.route \in RouteId
  BY FitsHas, PageHas
<1>7. [StopRoute(page) EXCEPT !.draft.routes[i] = [@ EXCEPT !.path = path]]
        = [StopRoute(page) EXCEPT !.draft = d, !.route = page.route]
  BY <1>6 DEF StopRoute, Page
<1>8. Shows([StopRoute(page) EXCEPT !.draft = d, !.route = page.route])
  BY <1>7 DEF path
<1> HIDE DEF new
<1>9. Stands(d) /\ ((Joined(page.draft, r) => Joined(page.draft, new)) => Keeps(page.draft, d))
  BY <1>1, <1>4, <1>5, FitsHas, ReplacedStands
<1> HIDE DEF d
<1>10. CASE page.draft.at[r.from] = page.routeDraft[1]
  <2>1. Joined(page.draft, new)
    BY <1>3, <1>5, <1>10 DEF Joined, Last
  <2> QED
    BY <1>6, <1>8, <1>9, <2>1, StopRouteSound DEF Keeps
<1>11. CASE page.draft.at[r.from] # page.routeDraft[1]
  <2>1. StaleDrawing
    BY <1>1, <1>11 DEF StaleDrawing, Elements
  <2> QED
    BY <1>6, <1>8, <1>9, <2>1, StopRouteSound
<1> QED
  BY <1>10, <1>11

(* The points of a drawing of a route.                                     *)
LEMMA RouteDraftSound ==
  ASSUME Fits, NEW points \in Seq(Nat), budget' \in Budget,
         Shows([page EXCEPT !.routeDraft = points])
  PROVE  Sound
<1> DEFINE p == [page EXCEPT !.routeDraft = points]
<1>0. page \in Page
  BY FitsHas
<1>1. p \in Page
  BY <1>0 DEF Page
<1>2. /\ p.draft = page.draft /\ p.layouts = page.layouts /\ p.selected = page.selected
      /\ p.zoneDrawing = page.zoneDrawing
  BY <1>0 DEF Page
<1>3. p.zoneDrawing.kind = "" => p.zoneDrawing = NoDrawing
  BY <1>2 DEF Fits, PageFits
<1> HIDE DEF p
<1> QED
  BY <1>1, <1>2, <1>3, ToolsSound DEF p

LEMMA DraggingSound ==
  ASSUME Fits, NEW dragging \in SUBSET Stations, budget' \in Budget,
         Shows([page EXCEPT !.dragging = dragging])
  PROVE  Sound
<1> DEFINE p == [page EXCEPT !.dragging = dragging]
<1>0. page \in Page
  BY FitsHas
<1>1. p \in Page
  BY <1>0 DEF Page
<1>2. /\ p.draft = page.draft /\ p.layouts = page.layouts /\ p.selected = page.selected
      /\ p.zoneDrawing = page.zoneDrawing
  BY <1>0 DEF Page
<1>3. p.zoneDrawing.kind = "" => p.zoneDrawing = NoDrawing
  BY <1>2 DEF Fits, PageFits
<1> HIDE DEF p
<1> QED
  BY <1>1, <1>2, <1>3, ToolsSound DEF p

LEMMA UseMapSound ==
  ASSUME Fits, UseMap
  PROVE  Sound
<1>1. CASE ReleasePointer
  BY <1>1, DraggingSound DEF ReleasePointer, Click, Fits
<1>2. ASSUME NEW p \in Points, ClickMap(p)
      PROVE  Sound
  <2>1. OnMap(p) \in Nat
    BY OnMapIs
  <2>2. budget' \in Budget
    BY <1>2 DEF ClickMap, AddRoutePoint, AddZonePoint, Click, Fits
  <2>3. CASE page.routeDrawing
    <3>0. page.routeDraft \in Seq(Nat)
      BY FitsHas, PageHas
    <3>1. Append(page.routeDraft, OnMap(p)) \in Seq(Nat)
      BY <2>1, <3>0
    <3>2. Shows([page EXCEPT !.routeDraft = Append(page.routeDraft, OnMap(p))])
      BY <1>2, <2>3 DEF ClickMap, AddRoutePoint, Click
    <3> QED
      BY <2>2, <3>1, <3>2, RouteDraftSound
  <2>4. CASE ~page.routeDrawing
    <3> DEFINE points == Append(page.zoneDrawing.points, OnMap(p))
               new == [page.zoneDrawing EXCEPT !.points = points]
    <3>0. page.zoneDrawing.points \in Seq(Nat)
      BY DrawingHas
    <3>1. points \in Seq(Nat)
      BY <2>1, <3>0
    <3>2. Shows([page EXCEPT !.zoneDrawing = new]) /\ page.zoneDrawing # NoDrawing
      BY <1>2, <2>4 DEF ClickMap, AddZonePoint, Click
    <3> HIDE DEF points
    <3>3. /\ new \in [kind : ZoneKinds \cup {""}, id : ZoneId, points : Seq(Nat)]
          /\ new.kind = page.zoneDrawing.kind /\ new.kind # ""
      BY <3>1, <3>2, DrawingHas DEF ZoneKinds
    <3> HIDE DEF new
    <3> QED
      BY <2>2, <3>2, <3>3, DrawingSound
  <2> QED
    BY <2>3, <2>4
<1>3. ASSUME NEW s \in Stations, PressStation(s), page.routeDrawing
      PROVE  Sound
  <2>1. budget' \in Budget
    BY <1>3 DEF PressStation, SelectRouteStation, Click, Fits
  <2>2. PICK i \in Selected(page.draft, page.route) :
          \/ Shows([page EXCEPT !.routeDraft = <<page.draft.at[s]>>])
          \/ /\ page.routeDraft # <<>> /\ s = page.draft.routes[i].to
             /\ Shows([StopRoute(page) EXCEPT !.draft.routes[i] =
                          [@ EXCEPT !.path = Append(page.routeDraft, page.draft.at[s])]])
    BY <1>3 DEF PressStation, SelectRouteStation, Click
  <2>3. <<page.draft.at[s]>> \in Seq(Nat)
    BY FitsHas
  <2> QED
    BY <2>1, <2>2, <2>3, RouteDraftSound, DrawnSound
<1>4. ASSUME NEW s \in Stations, PressStation(s), ~page.routeDrawing
      PROVE  Sound
  BY <1>4, SpendFits, DraggingSound DEF PressStation, Begin, Fits
<1>5. ASSUME NEW s \in Stations, NEW p \in Points, DragStation(s, p)
      PROVE  Sound
  <2> DEFINE d == Moved(page.draft, s, OnMap(p))
             q == [page EXCEPT !.draft = d]
  <2>1. Keeps(page.draft, d)
    BY FitsHas, OnMapIs, MovedKeeps
  <2>2. Shows(q) /\ budget' \in Budget
    BY <1>5 DEF DragStation, Click, Fits
  <2> HIDE DEF d
  <2>3. page \in Page /\ d \in Content /\ Stands(d) /\ LooseIn(d) \subseteq LooseIn(page.draft)
    BY <2>1, FitsHas DEF Keeps, Stands
  <2>4. q \in Page
    BY <2>3 DEF Page
  <2>5. /\ q.draft = d /\ q.selected = page.selected /\ q.layouts = page.layouts
        /\ q.zoneDrawing = page.zoneDrawing
    BY <2>3 DEF Page
  <2> HIDE DEF q
  <2>6. PageFits(versions, q)
    BY <2>3, <2>4, <2>5 DEF Fits, PageFits
  <2> QED
    BY <2>2, <2>3, <2>5, <2>6, ShowsSound
<1> QED
  BY <1>1, <1>2, <1>3, <1>4, <1>5 DEF UseMap

(* The footprint, the configuration and the name.                          *)
LEMMA EditRestSound ==
  ASSUME Fits, EditRest
  PROVE  Sound
<1>1. ASSUME NEW w \in Widths, SetWidth(w)
      PROVE  Sound
  <2>1. w \in Nat
    BY EditorAssumption
  <2> QED
    BY <1>1, <2>1, FitsHas, WidthKeeps, DraftSound DEF SetWidth, Keeps
<1>2. ASSUME NEW config \in 1..2, SetConfig(config)
      PROVE  Sound
  <2>1. config \in Nat
    OBVIOUS
  <2> QED
    BY <1>2, <2>1, FitsHas, WidthKeeps, DraftSound DEF SetConfig, Keeps
<1>3. ASSUME NEW named \in BOOLEAN, SetName(named)
      PROVE  Sound
  <2> DEFINE p == [page EXCEPT !.named = named]
  <2>0. page \in Page
    BY FitsHas
  <2>1. p \in Page
    BY <2>0 DEF Page
  <2>2. /\ p.draft = page.draft /\ p.layouts = page.layouts /\ p.selected = page.selected
        /\ p.zoneDrawing = page.zoneDrawing
    BY <2>0 DEF Page
  <2>3. p.zoneDrawing.kind = "" => p.zoneDrawing = NoDrawing
    BY <2>2 DEF Fits, PageFits
  <2>4. Shows(p) /\ budget' \in Budget
    BY <1>3, SpendFits DEF SetName, Edit, Fits
  <2> HIDE DEF p
  <2> QED
    BY <2>1, <2>2, <2>3, <2>4, ToolsSound
<1> QED
  BY <1>1, <1>2, <1>3 DEF EditRest
-----------------------------------------------------------------------------
(* Requests and their answers.                                             *)

LEMMA CallHas ==
  ASSUME NEW c \in Call
  PROVE  /\ c.kind \in CallKinds /\ c.of \in Nat /\ c.content \in Content \cup {<<>>}
         /\ c.number \in Nat /\ c.live \in BOOLEAN
         /\ c.step \in {"sent", "answered", "refused"} /\ c.got \in Version
         /\ c.list \subseteq Layouts
  BY DEF Call

LEMMA AskIs ==
  ASSUME NEW kind \in CallKinds, NEW of \in Nat, NEW number \in Nat
  PROVE  /\ Ask(kind, of, number) \in Call
         /\ Ask(kind, of, number).kind = kind /\ Ask(kind, of, number).of = of
         /\ Ask(kind, of, number).step = "sent" /\ Ask(kind, of, number).list = {}
<1>1. Ask(kind, of, number) \in Call
  BY NoneTyped DEF Ask, Call
<1> QED
  BY <1>1 DEF Ask

LEMMA AskFits ==
  ASSUME NEW vs, NEW kind \in CallKinds, NEW of \in Nat, NEW number \in Nat,
         kind # "save", kind = "load" => of \in Layouts /\ vs[of] # <<>>
  PROVE  CallFits(vs, Ask(kind, of, number))
<1> DEFINE c == Ask(kind, of, number)
<1>1. c \in Call /\ c.kind = kind /\ c.of = of /\ c.step = "sent" /\ c.list = {}
  BY AskIs
<1> HIDE DEF c
<1>2. c.kind # "save" /\ (c.kind = "load" => c.of \in Layouts /\ vs[c.of] # <<>>)
  BY <1>1
<1>3. c.step # "answered"
  BY <1>1
<1>4. CallFits(vs, c)
  BY <1>1, <1>2, <1>3 DEF CallFits
<1> QED
  BY <1>4 DEF c

LEMMA BusyFits ==
  ASSUME NEW vs, NEW p, PageFits(vs, p)
  PROVE  PageFits(vs, [p EXCEPT !.busy = TRUE]) /\ [p EXCEPT !.busy = TRUE].draft = p.draft
<1> DEFINE q == [p EXCEPT !.busy = TRUE]
<1>0. p \in Page
  BY DEF PageFits
<1>1. q \in Page
  BY <1>0 DEF Page
<1>2. /\ q.draft = p.draft /\ q.selected = p.selected /\ q.layouts = p.layouts
      /\ q.zoneDrawing = p.zoneDrawing
  BY <1>0 DEF Page
<1> HIDE DEF q
<1>3. PageFits(vs, q)
  BY <1>1, <1>2 DEF PageFits
<1> QED
  BY <1>2, <1>3 DEF q

LEMMA RequestSound ==
  ASSUME Fits, NEW p, PageFits(versions, p), p.draft = page.draft,
         NEW kind \in CallKinds, NEW of \in Nat, NEW content \in Content \cup {<<>>},
         kind = "save" => Stands(content),
         kind = "load" => of \in Layouts /\ versions[of] # <<>>,
         Request(p, kind, of, content)
  PROVE  Sound
<1> DEFINE c == [Ask(kind, of, budget.requests) EXCEPT !.content = content]
           q == [p EXCEPT !.busy = TRUE]
<1>1. /\ page' = Rendered(q) /\ calls' = calls \cup {c}
      /\ versions' = versions /\ archived' = archived /\ budget' \in Budget
  BY SpendFits DEF Request, server, Fits
<1>2. PageFits(versions, q) /\ q.draft = page.draft
  BY BusyFits
<1> HIDE DEF q
<1>3. budget.requests \in Nat
  BY DEF Fits, Budget
<1>4. LET a == Ask(kind, of, budget.requests)
      IN  /\ a \in Call /\ a.kind = kind /\ a.of = of /\ a.step = "sent" /\ a.list = {}
          /\ c = [a EXCEPT !.content = content]
  BY <1>3, AskIs
<1>5. c \in Call
  BY <1>4 DEF Call
<1>6. c.kind = kind /\ c.of = of /\ c.content = content /\ c.step = "sent" /\ c.list = {}
  BY <1>4 DEF Call
<1> HIDE DEF c
<1>7. CallFits(versions, c)
  BY <1>5, <1>6 DEF CallFits
<1>8. Fits'
  BY <1>1, <1>2, <1>7, RenderedFits DEF Fits
<1>9. LooseIn(page'.draft) \subseteq LooseIn(page.draft)
  BY <1>1, <1>2, RenderedFits, InitialStands
<1> QED
  BY <1>8, <1>9, LooseIs DEF Sound, Loosens

(* The draft that is begun anew.                                           *)
LEMMA ResetFits ==
  ASSUME NEW vs, NEW p, PageFits(vs, p)
  PROVE  PageFits(vs, ResetDraft(p)) /\ ResetDraft(p).draft = InitialContent
<1> DEFINE q == ResetDraft(p)
<1>0. p \in Page /\ InitialContent \in Content /\ Stands(InitialContent)
  BY InitialStands DEF PageFits, Stands
<1>1. q = [p EXCEPT !.zoneDrawing = NoDrawing, !.routeDrawing = FALSE, !.routeDraft = <<>>,
                    !.selected = NoVersion, !.named = TRUE, !.draft = InitialContent,
                    !.route = <<"DELIVERY", 0>>]
  BY <1>0 DEF ResetDraft, NoTools, Page
<1>2. <<>> \in Seq(Nat) /\ TRUE \in BOOLEAN /\ FALSE \in BOOLEAN
  BY EmptySeq
<1>3. q \in Page
  BY <1>0, <1>1, <1>2, NoneTyped DEF Page
<1>4. /\ q.draft = InitialContent /\ q.selected = NoVersion /\ q.layouts = p.layouts
      /\ q.zoneDrawing = NoDrawing
  BY <1>0, <1>1 DEF Page
<1> HIDE DEF q
<1>5. PageFits(vs, q)
  BY <1>0, <1>3, <1>4 DEF PageFits
<1> QED
  BY <1>4, <1>5 DEF q

LEMMA DialogFits ==
  ASSUME NEW vs, NEW p, PageFits(vs, p), NEW open \in BOOLEAN
  PROVE  PageFits(vs, [p EXCEPT !.dialog = open]) /\ [p EXCEPT !.dialog = open].draft = p.draft
<1> DEFINE q == [p EXCEPT !.dialog = open]
<1>0. p \in Page
  BY DEF PageFits
<1>1. q \in Page
  BY <1>0 DEF Page
<1>2. /\ q.draft = p.draft /\ q.selected = p.selected /\ q.layouts = p.layouts
      /\ q.zoneDrawing = p.zoneDrawing
  BY <1>0 DEF Page
<1> HIDE DEF q
<1>3. PageFits(vs, q)
  BY <1>1, <1>2 DEF PageFits
<1> QED
  BY <1>2, <1>3 DEF q

LEMMA RequestsSound ==
  ASSUME Fits, Requests
  PROVE  Sound
<1>1. PageFits(versions, page) /\ page \in Page /\ Stands(page.draft)
  BY FitsHas DEF Fits
<1>2. page.selected.of \in Nat
  BY <1>1, PageHas DEF Version
<1>3. {"load", "save", "rename", "archive"} \subseteq CallKinds /\ <<>> \in Content \cup {<<>>}
  BY DEF CallKinds
<1>4. CASE NewLayout
  <2>1. Shows(ResetDraft(page)) /\ budget' \in Budget
    BY <1>4 DEF NewLayout, Click, Fits
  <2>2. PageFits(versions, ResetDraft(page)) /\ LooseIn(ResetDraft(page).draft) = {}
    BY <1>1, ResetFits, InitialStands
  <2> QED
    BY <2>1, <2>2, ShowsSound
<1>5. CASE Save
  <2>1. Request(page, "save", page.selected.of, page.draft)
    BY <1>5 DEF Save
  <2>2. page.draft \in Content \cup {<<>>} /\ "save" \in CallKinds
    BY <1>3, FitsHas
  <2> QED
    BY <1>1, <1>2, <2>1, <2>2, RequestSound
<1>6. CASE Rename
  <2>1. Request(page, "rename", page.selected.of, <<>>)
    BY <1>6 DEF Rename
  <2> QED
    BY <1>1, <1>2, <1>3, <2>1, RequestSound
<1>7. ASSUME NEW open \in BOOLEAN, Click([page EXCEPT !.dialog = open])
      PROVE  Sound
  <2>1. Shows([page EXCEPT !.dialog = open]) /\ budget' \in Budget
    BY <1>7 DEF Click, Fits
  <2>2. PageFits(versions, [page EXCEPT !.dialog = open]) /\ [page EXCEPT !.dialog = open].draft = page.draft
    BY <1>1, DialogFits
  <2> QED
    BY <2>1, <2>2, ShowsSound
<1>8. CASE OpenArchive
  BY <1>7, <1>8 DEF OpenArchive
<1>9. CASE CancelArchive
  BY <1>7, <1>9 DEF CancelArchive
<1>10. CASE Archive
  <2>1. Request([page EXCEPT !.dialog = FALSE], "archive", page.selected.of, <<>>)
    BY <1>10 DEF Archive
  <2>2. PageFits(versions, [page EXCEPT !.dialog = FALSE]) /\ [page EXCEPT !.dialog = FALSE].draft = page.draft
    BY <1>1, DialogFits
  <2> QED
    BY <1>2, <1>3, <2>1, <2>2, RequestSound
<1>11. CASE Reload
  <2>1. /\ page' = Mounted /\ versions' = versions /\ archived' = archived /\ budget' \in Budget
        /\ calls' = {[c EXCEPT !.live = FALSE] : c \in calls} \cup {Ask("first", 0, budget.requests)}
    BY <1>11, SpendFits DEF Reload, server, Fits
  <2>2. CallFits(versions, Ask("first", 0, budget.requests))
    <3>1. budget.requests \in Nat /\ "first" \in CallKinds
      BY DEF Fits, Budget, CallKinds
    <3> QED
      BY <3>1, AskFits
  <2>3. ASSUME NEW c \in calls
        PROVE  CallFits(versions, [c EXCEPT !.live = FALSE])
    <3> DEFINE b == [c EXCEPT !.live = FALSE]
    <3>1. c \in Call /\ CallFits(versions, c)
      BY DEF Fits, CallFits
    <3>2. b \in Call
      BY <3>1 DEF Call
    <3>3. /\ b.kind = c.kind /\ b.of = c.of /\ b.content = c.content
          /\ b.step = c.step /\ b.got = c.got /\ b.list = c.list
      BY <3>1 DEF Call
    <3> HIDE DEF b
    <3>4. CallFits(versions, b)
      BY <3>1, <3>2, <3>3 DEF CallFits
    <3> QED
      BY <3>4 DEF b
  <2>4. Fits'
    BY <2>1, <2>2, <2>3, MountedFits DEF Fits
  <2>5. LooseIn(page'.draft) = {}
    BY <2>1, MountedFits, InitialStands
  <2> QED
    BY <2>4, <2>5, LooseIs DEF Sound, Loosens
<1>12. ASSUME NEW l \in Layouts, LoadLayout(l)
       PROVE  Sound
  <2>1. Request(page, "load", l, <<>>) /\ l \in Nat /\ versions[l] # <<>>
    BY <1>1, <1>12, EditorAssumption DEF LoadLayout, PageFits
  <2> QED
    BY <1>1, <1>3, <2>1, RequestSound
<1> QED
  BY <1>4, <1>5, <1>6, <1>8, <1>9, <1>10, <1>11, <1>12 DEF Requests
(* Revisions are only added: what was named is still there.                *)
Grown(vs, ws) == \A l \in Layouts : DOMAIN vs[l] \subseteq DOMAIN ws[l] /\ (vs[l] # <<>> => ws[l] # <<>>)

LEMMA GrownFits ==
  ASSUME NEW vs, NEW ws, Grown(vs, ws)
  PROVE  /\ \A p : PageFits(vs, p) => PageFits(ws, p)
         /\ \A c : CallFits(vs, c) => CallFits(ws, c)
<1>1. \A v : Names(vs, v) => Names(ws, v)
  BY DEF Grown, Names
<1>2. ASSUME NEW p, PageFits(vs, p) PROVE PageFits(ws, p)
  <2>1. p.layouts \subseteq Layouts
    BY <1>2, PageHas DEF PageFits
  <2> QED
    BY <1>1, <1>2, <2>1 DEF PageFits, Grown
<1>3. ASSUME NEW c, CallFits(vs, c) PROVE CallFits(ws, c)
  <2>1. c.list \subseteq Layouts
    BY <1>3, CallHas DEF CallFits
  <2>2. c \in Call /\ (c.kind = "save" => Stands(c.content)) /\ \A l \in c.list : ws[l] # <<>>
    BY <1>3, <2>1 DEF CallFits, Grown
  <2>3. c.kind = "load" => c.of \in Layouts /\ ws[c.of] # <<>>
    BY <1>3 DEF CallFits, Grown
  <2>4. c.step = "answered" /\ c.kind \in {"load", "save", "rename", "archive"} => Names(ws, c.got)
    BY <1>1, <1>3 DEF CallFits
  <2> QED
    BY <2>2, <2>3, <2>4 DEF CallFits
<1> QED
  BY <1>2, <1>3

(* An answer names what is stored.                                         *)
LEMMA AnsweredFits ==
  ASSUME NEW vs, NEW c, CallFits(vs, c), NEW got \in Version, NEW list \in SUBSET Layouts,
         \A l \in list : vs[l] # <<>>,
         c.kind \in {"load", "save", "rename", "archive"} => Names(vs, got)
  PROVE  CallFits(vs, Answered(c, got, list))
<1> DEFINE b == Answered(c, got, list)
<1>0. c \in Call
  BY DEF CallFits
<1>1. b \in Call
  BY <1>0 DEF Call, Answered
<1>2. /\ b.kind = c.kind /\ b.of = c.of /\ b.content = c.content
      /\ b.step = "answered" /\ b.got = got /\ b.list = list
  BY <1>0 DEF Call, Answered
<1> HIDE DEF b
<1>3. CallFits(vs, b)
  BY <1>1, <1>2 DEF CallFits
<1> QED
  BY <1>3 DEF b

LEMMA RefusedFits ==
  ASSUME NEW vs, NEW c, CallFits(vs, c)
  PROVE  CallFits(vs, Refused(c))
<1> DEFINE b == Refused(c)
<1>0. c \in Call
  BY DEF CallFits
<1>1. b \in Call
  BY <1>0 DEF Call, Refused
<1>2. /\ b.kind = c.kind /\ b.of = c.of /\ b.content = c.content
      /\ b.step = "refused" /\ b.got = c.got /\ b.list = c.list
  BY <1>0 DEF Call, Refused
<1> HIDE DEF b
<1>3. CallFits(vs, b)
  <2>1. b.step # "answered"
    BY <1>2
  <2> QED
    BY <1>1, <1>2, <2>1 DEF CallFits
<1> QED
  BY <1>3 DEF b

(* The backend answers or refuses: nothing changes on the page.            *)
LEMMA RepliedSound ==
  ASSUME Fits, NEW c \in calls, NEW answer, CallFits(versions', answer),
         Stores(versions'), Grown(versions, versions'), archived' \subseteq Layouts,
         page' = page, budget' \in Budget, calls' = (calls \ {c}) \cup {answer}
  PROVE  Sound
<1>1. PageFits(versions', page') /\ \A b \in calls' : CallFits(versions', b)
  BY GrownFits DEF Fits
<1>2. Fits'
  BY <1>1 DEF Fits
<1> QED
  BY <1>2, LooseIs DEF Sound, Loosens

LEMMA RepliesSound ==
  ASSUME Fits, NEW c \in calls, NEW got \in Version, NEW list \in SUBSET Layouts,
         Stores(versions'), Grown(versions, versions'), archived' \subseteq Layouts,
         \A l \in list : versions'[l] # <<>>,
         c.kind \in {"load", "save", "rename", "archive"} => Names(versions', got),
         Replies(c, Answered(c, got, list))
  PROVE  Sound
<1>1. CallFits(versions', c)
  BY GrownFits DEF Fits
<1>2. CallFits(versions', Answered(c, got, list))
  BY <1>1, AnsweredFits
<1>3. CallFits(versions', Refused(c))
  BY <1>1, RefusedFits
<1>4. page' = page /\ budget' \in Budget
  BY SpendFits DEF Replies, Fits
<1> QED
  BY <1>2, <1>3, <1>4, RepliedSound DEF Replies

LEMMA NewestIs ==
  ASSUME Fits, NEW l \in Layouts, versions[l] # <<>>
  PROVE  Newest(l) \in Version /\ Names(versions, Newest(l))
<1>1. versions[l] \in Seq(Content) /\ l \in Nat
  BY EditorAssumption DEF Fits, Stores
<1>2. Len(versions[l]) \in Nat /\ Len(versions[l]) \in DOMAIN versions[l]
  BY <1>1, EmptySeq
<1> QED
  BY <1>1, <1>2 DEF Newest, Version, Names

LEMMA StoreSound ==
  ASSUME Fits, NEW c \in calls, Store(c)
  PROVE  Sound
<1>1. PICK l \in Layouts :
        /\ versions' = [versions EXCEPT ![l] = Append(@, c.content)]
        /\ Replies(c, Answered(c, [of |-> l, version |-> Len(versions[l]) + 1], {}))
  BY DEF Store
<1>2. Accepts(c.content) /\ Stands(c.content) /\ c.content \in Content
  BY DEF Store, Fits, CallFits, Stands
<1>3. versions \in [Layouts -> Seq(Content)] /\ l \in Nat
  BY EditorAssumption DEF Fits, Stores
<1> DEFINE new == Append(versions[l], c.content)
<1>4. /\ new \in Seq(Content) /\ DOMAIN new = 1..(Len(versions[l]) + 1) /\ Len(versions[l]) \in Nat
      /\ DOMAIN versions[l] \subseteq DOMAIN new /\ new # <<>>
  BY <1>2, <1>3
<1>5. Elements(new) = Elements(versions[l]) \cup {c.content}
  BY <1>3, ElementsAppend
<1> HIDE DEF new
<1>6. versions' \in [Layouts -> Seq(Content)] /\ \A m \in Layouts : versions'[m] = IF m = l THEN new ELSE versions[m]
  BY <1>1, <1>3, <1>4 DEF new
<1>7. Stores(versions')
  BY <1>2, <1>5, <1>6 DEF Fits, Stores
<1>8. Grown(versions, versions')
  BY <1>4, <1>6 DEF Grown
<1> DEFINE got == [of |-> l, version |-> Len(versions[l]) + 1]
<1>9. got \in Version /\ Names(versions', got)
  BY <1>3, <1>4, <1>6 DEF Version, Names
<1>10. archived' \subseteq Layouts
  BY DEF Store, Fits
<1>11. Replies(c, Answered(c, got, {}))
  BY <1>1
<1> HIDE DEF got
<1> QED
  BY <1>7, <1>8, <1>9, <1>10, <1>11, RepliesSound

LEMMA ServeSound ==
  ASSUME Fits, NEW c \in calls, Serve(c)
  PROVE  Sound
<1>0. Stores(versions) /\ Grown(versions, versions) /\ archived \subseteq Layouts /\ CallFits(versions, c)
  BY DEF Fits, Grown
<1>1. Active \subseteq Layouts /\ \A l \in Active : versions[l] # <<>>
  BY DEF Active
<1>2. CASE Read(c)
  <2>1. versions' = versions /\ archived' = archived
    BY <1>2 DEF Read, server
  <2>2. CASE c.kind \in {"first", "refresh"} /\ Replies(c, Answered(c, NoVersion, Active))
    <3>1. c.kind \notin {"load", "save", "rename", "archive"}
      BY <2>2
    <3> QED
      BY <1>0, <1>1, <2>1, <2>2, <3>1, NoneTyped, RepliesSound
  <2>3. CASE c.kind = "load" /\ Replies(c, Answered(c, Newest(c.of), {}))
    <3>1. c.of \in Layouts /\ versions[c.of] # <<>>
      BY <1>0, <2>3 DEF CallFits
    <3>2. Newest(c.of) \in Version /\ Names(versions, Newest(c.of))
      BY <3>1, NewestIs
    <3> QED
      BY <1>0, <2>1, <2>3, <3>2, RepliesSound
  <2> QED
    BY <1>2, <2>2, <2>3 DEF Read
<1>3. CASE Store(c)
  BY <1>3, StoreSound
<1>4. CASE Change(c)
  <2>1. versions' = versions /\ c.of \in Layouts /\ versions[c.of] # <<>>
    BY <1>1, <1>4 DEF Change
  <2>2. archived' \subseteq Layouts
    BY <1>0, <1>4, <2>1 DEF Change
  <2>3. Newest(c.of) \in Version /\ Names(versions, Newest(c.of))
    BY <2>1, NewestIs
  <2>4. Replies(c, Answered(c, Newest(c.of), {}))
    BY <1>4 DEF Change
  <2> QED
    BY <1>0, <2>1, <2>2, <2>3, <2>4, RepliesSound
<1>5. CASE Refuse(c)
  <2>1. /\ versions' = versions /\ archived' = archived /\ page' = page
        /\ calls' = (calls \ {c}) \cup {Refused(c)} /\ budget' \in Budget
    BY <1>5, SpendFits DEF Refuse, server, Fits
  <2>2. CallFits(versions, Refused(c))
    BY <1>0, RefusedFits
  <2> QED
    BY <1>0, <2>1, <2>2, RepliedSound
<1> QED
  BY <1>2, <1>3, <1>4, <1>5 DEF Serve
-----------------------------------------------------------------------------
(* What the page does with an answer.                                      *)

LEMMA LoadedFits ==
  ASSUME Fits, NEW v \in Version, Names(versions, v)
  PROVE  /\ PageFits(versions, Loaded(page, v)) /\ LooseIn(Loaded(page, v).draft) = {}
         /\ PageFits(versions, Saved(page, v)) /\ LooseIn(Saved(page, v).draft) = {}
<1> DEFINE d == versions[v.of][v.version]
           p == Loaded(page, v)
           q == Saved(page, v)
<1>0. page \in Page
  BY FitsHas
<1>1. Accepts(d) /\ Stands(d)
  <2>1. d \in Elements(versions[v.of])
    BY DEF Names, Elements
  <2> QED
    BY <2>1 DEF Fits, Stores, Names
<1>2. d \in Content /\ LooseIn(d) = {}
  BY <1>1 DEF Stands, Accepts, LooseIn
<1>3. d.routes[1].id \in RouteId
  <2>1. d.routes \in Seq(Route) /\ Elements(d.routes) # {}
    BY <1>1, <1>2, ContentHas DEF Stands, Routed, RoutesOf
  <2>2. d.routes # <<>>
    BY <2>1, ElementsAre
  <2>3. 1 \in DOMAIN d.routes
    BY <2>1, <2>2, EmptySeq
  <2> QED
    BY <1>1, <2>3, RouteHas
<1> HIDE DEF d
<1>4. p = [page EXCEPT !.zoneDrawing = NoDrawing, !.routeDrawing = FALSE, !.routeDraft = <<>>,
                       !.selected = v, !.named = TRUE, !.draft = d, !.route = d.routes[1].id, !.busy = FALSE]
  BY <1>0 DEF Loaded, NoTools, Page, d
<1>5. q = [page EXCEPT !.selected = v, !.named = TRUE, !.draft = d]
  BY DEF Saved, d
<1>6. <<>> \in Seq(Nat) /\ TRUE \in BOOLEAN /\ FALSE \in BOOLEAN
  BY EmptySeq
<1> DEFINE id == d.routes[1].id
<1> HIDE DEF id
<1>7. p \in Page
  <2>1. id \in RouteId
    BY <1>3 DEF id
  <2>2. p = [page EXCEPT !.zoneDrawing = NoDrawing, !.routeDrawing = FALSE, !.routeDraft = <<>>,
                         !.selected = v, !.named = TRUE, !.draft = d, !.route = id, !.busy = FALSE]
    BY <1>4 DEF id
  <2> QED
    BY <1>0, <1>2, <1>6, <2>1, <2>2, NoneTyped DEF Page
<1>8. /\ p.draft = d /\ p.selected = v /\ p.layouts = page.layouts /\ p.zoneDrawing = NoDrawing
  BY <1>0, <1>4 DEF Page
<1>9. q \in Page
  BY <1>0, <1>2, <1>5, <1>6 DEF Page
<1>10. /\ q.draft = d /\ q.selected = v /\ q.layouts = page.layouts /\ q.zoneDrawing = page.zoneDrawing
  BY <1>0, <1>5 DEF Page
<1> HIDE DEF p, q
<1>11. PageFits(versions, p) /\ LooseIn(p.draft) = {}
  BY <1>1, <1>2, <1>7, <1>8 DEF Fits, PageFits
<1>12. PageFits(versions, q) /\ LooseIn(q.draft) = {}
  BY <1>1, <1>2, <1>9, <1>10 DEF Fits, PageFits
<1> QED
  BY <1>11, <1>12 DEF p, q

(* The tabs, the buttons or the revision change.                           *)
LEMMA ListFits ==
  ASSUME Fits, NEW list \in SUBSET Layouts, \A l \in list : versions[l] # <<>>, NEW busy \in BOOLEAN
  PROVE  /\ PageFits(versions, [page EXCEPT !.layouts = list, !.busy = busy])
         /\ [page EXCEPT !.layouts = list, !.busy = busy].draft = page.draft
         /\ PageFits(versions, [page EXCEPT !.layouts = list])
         /\ [page EXCEPT !.layouts = list].draft = page.draft
<1> DEFINE p == [page EXCEPT !.layouts = list, !.busy = busy]
           q == [page EXCEPT !.layouts = list]
<1>0. page \in Page
  BY FitsHas
<1>1. p \in Page /\ q \in Page
  BY <1>0 DEF Page
<1>2. /\ p.draft = page.draft /\ p.selected = page.selected /\ p.layouts = list
      /\ p.zoneDrawing = page.zoneDrawing
  BY <1>0 DEF Page
<1>3. /\ q.draft = page.draft /\ q.selected = page.selected /\ q.layouts = list
      /\ q.zoneDrawing = page.zoneDrawing
  BY <1>0 DEF Page
<1> HIDE DEF p, q
<1>4. PageFits(versions, p)
  BY <1>1, <1>2 DEF Fits, PageFits
<1>5. PageFits(versions, q)
  BY <1>1, <1>3 DEF Fits, PageFits
<1> QED
  BY <1>2, <1>3, <1>4, <1>5 DEF p, q

LEMMA RenamedFits ==
  ASSUME Fits, NEW v \in Version, Names(versions, v)
  PROVE  /\ PageFits(versions, [page EXCEPT !.selected = v])
         /\ [page EXCEPT !.selected = v].draft = page.draft
<1> DEFINE p == [page EXCEPT !.selected = v]
<1>0. page \in Page
  BY FitsHas
<1>1. p \in Page
  BY <1>0 DEF Page
<1>2. /\ p.draft = page.draft /\ p.selected = v /\ p.layouts = page.layouts
      /\ p.zoneDrawing = page.zoneDrawing
  BY <1>0 DEF Page
<1> HIDE DEF p
<1>3. PageFits(versions, p)
  BY <1>1, <1>2 DEF Fits, PageFits
<1> QED
  BY <1>2, <1>3 DEF p

LEMMA FailsFits ==
  ASSUME Fits, NEW c
  PROVE  PageFits(versions, Fails(page, c)) /\ Fails(page, c).draft = page.draft
<1>1. CASE c.kind \notin Busying
  BY <1>1 DEF Fails, Fits
<1>2. CASE c.kind \in Busying
  <2> DEFINE p == [page EXCEPT !.busy = FALSE]
  <2>0. page \in Page /\ Fails(page, c) = p
    BY <1>2, FitsHas DEF Fails
  <2>1. p \in Page
    BY <2>0 DEF Page
  <2>2. /\ p.draft = page.draft /\ p.selected = page.selected /\ p.layouts = page.layouts
        /\ p.zoneDrawing = page.zoneDrawing
    BY <2>0 DEF Page
  <2> HIDE DEF p
  <2>3. PageFits(versions, p)
    BY <2>1, <2>2 DEF Fits, PageFits
  <2> QED
    BY <2>0, <2>2, <2>3
<1> QED
  BY <1>1, <1>2

(* The answer is taken, and perhaps another request is sent.               *)
LEMMA TakenSound ==
  ASSUME Fits, NEW p, PageFits(versions, p), p.draft = page.draft \/ LooseIn(p.draft) = {},
         page' = p \/ page' = Rendered(p),
         \A b \in calls' : b \in calls \/ CallFits(versions, b),
         UNCHANGED <<server, budget>>
  PROVE  Sound
<1>1. versions' = versions /\ archived' = archived /\ budget' = budget
  BY DEF server
<1>2. PageFits(versions, page')
  BY RenderedFits
<1>3. Fits'
  BY <1>1, <1>2 DEF Fits
<1>4. LooseIn(page'.draft) = LooseIn(page.draft) \/ LooseIn(page'.draft) = {}
  BY RenderedFits, InitialStands
<1> QED
  BY <1>3, <1>4, LooseIs DEF Sound, Loosens

LEMMA DeliverSound ==
  ASSUME Fits, NEW c \in calls, Deliver(c)
  PROVE  Sound
<1> DEFINE done == calls \ {c}
           again == Ask("refresh", 0, c.number)
<1>0. c \in Call /\ CallFits(versions, c) /\ PageFits(versions, page) /\ UNCHANGED <<server, budget>>
  BY DEF Fits, CallFits, Deliver
<1>1. c.number \in Nat /\ c.got \in Version /\ c.list \in SUBSET Layouts /\ c.kind \in CallKinds
      /\ c.step \in {"sent", "answered", "refused"}
  BY <1>0, CallHas
<1>2. CallFits(versions, again)
  BY <1>1, AskFits DEF CallKinds
<1>3. CASE page.crashed \/ ~c.live
  <2>1. calls' = done /\ page' = page
    BY <1>3 DEF Deliver
  <2> QED
    BY <1>0, <2>1, TakenSound
<1>4. CASE ~page.crashed /\ c.live /\ c.step = "refused"
  <2>1. page' = Rendered(Fails(page, c)) /\ calls' = done
    BY <1>4 DEF Deliver
  <2> QED
    BY <1>0, <2>1, FailsFits, TakenSound
<1>5. CASE ~page.crashed /\ c.live /\ c.step = "answered"
  <2>1. \A l \in c.list : versions[l] # <<>>
    BY <1>0 DEF CallFits
  <2>2. CASE c.kind = "first" /\ c.list = {}
    <3>1. page' = [page EXCEPT !.layouts = {}] /\ calls' = done
      BY <1>5, <2>2 DEF Deliver
    <3>2. PageFits(versions, [page EXCEPT !.layouts = {}]) /\ [page EXCEPT !.layouts = {}].draft = page.draft
      BY ListFits
    <3> QED
      BY <1>0, <3>1, <3>2, TakenSound
  <2>3. CASE c.kind = "first" /\ c.list # {}
    <3> DEFINE l == CHOOSE l \in c.list : \A m \in c.list : l <= m
               p == [page EXCEPT !.layouts = c.list, !.busy = TRUE]
    <3>1. page' = p /\ calls' = done \cup {Ask("load", l, c.number)}
      BY <1>5, <2>3 DEF Deliver
    <3>2. PageFits(versions, p) /\ p.draft = page.draft
      BY <1>1, <2>1, ListFits
    <3>3. l \in c.list
      <4>1. c.list \in SUBSET Nat
        BY <1>1, EditorAssumption
      <4>2. \E x \in c.list : \A y \in c.list : x <= y
        BY <2>3, <4>1, LeastOf
      <4> QED
        BY <4>2
    <3> HIDE DEF l, p
    <3>4. l \in Layouts /\ l \in Nat /\ versions[l] # <<>> /\ "load" \in CallKinds
      BY <1>1, <2>1, <3>3, EditorAssumption DEF CallKinds
    <3>5. CallFits(versions, Ask("load", l, c.number))
      BY <1>1, <3>4, AskFits
    <3> QED
      BY <1>0, <3>1, <3>2, <3>5, TakenSound
  <2>4. CASE c.kind = "refresh"
    <3>1. page' = [page EXCEPT !.layouts = c.list, !.busy = FALSE] /\ calls' = done
      BY <1>5, <2>4 DEF Deliver
    <3>2. /\ PageFits(versions, [page EXCEPT !.layouts = c.list, !.busy = FALSE])
          /\ [page EXCEPT !.layouts = c.list, !.busy = FALSE].draft = page.draft
      BY <1>1, <2>1, ListFits
    <3> QED
      BY <1>0, <3>1, <3>2, TakenSound
  <2>5. CASE c.kind \in {"load", "save", "rename", "archive"}
    <3>1. Names(versions, c.got)
      BY <1>0, <1>5, <2>5 DEF CallFits
    <3>2. CASE c.kind = "load"
      <4>1. page' = Rendered(Loaded(page, c.got)) /\ calls' = done
        BY <1>5, <3>2 DEF Deliver
      <4> QED
        BY <1>0, <1>1, <3>1, <4>1, LoadedFits, TakenSound
    <3>3. CASE c.kind = "save"
      <4>1. page' = Rendered(Saved(page, c.got)) /\ calls' = done \cup {again}
        BY <1>5, <3>3 DEF Deliver
      <4> QED
        BY <1>0, <1>1, <1>2, <3>1, <4>1, LoadedFits, TakenSound
    <3>4. CASE c.kind = "rename"
      <4>1. page' = [page EXCEPT !.selected = c.got] /\ calls' = done \cup {again}
        BY <1>5, <3>4 DEF Deliver
      <4> QED
        BY <1>0, <1>1, <1>2, <3>1, <4>1, RenamedFits, TakenSound
    <3>5. CASE c.kind = "archive"
      <4>1. page' = Rendered(ResetDraft(page)) /\ calls' = done \cup {again}
        BY <1>5, <3>5 DEF Deliver
      <4>2. PageFits(versions, ResetDraft(page)) /\ LooseIn(ResetDraft(page).draft) = {}
        BY <1>0, ResetFits, InitialStands
      <4> QED
        BY <1>0, <1>2, <4>1, <4>2, TakenSound
    <3> QED
      BY <2>5, <3>2, <3>3, <3>4, <3>5
  <2> QED
    BY <1>1, <2>2, <2>3, <2>4, <2>5 DEF CallKinds
<1>6. c.step # "sent"
  BY DEF Deliver
<1> QED
  BY <1>1, <1>3, <1>4, <1>5, <1>6

-----------------------------------------------------------------------------
LEMMA InitFits == Init => Fits
<1> SUFFICES ASSUME Init PROVE Fits
  OBVIOUS
<1>1. /\ versions = [l \in Layouts |-> IF l = 1 THEN <<InitialContent>> ELSE <<>>]
      /\ archived = {} /\ page = Mounted /\ calls = {Ask("first", 0, 0)} /\ budget \in Budget
  BY EditorAssumption DEF Init, Budget
<1>2. InitialContent \in Content /\ Stands(InitialContent) /\ Accepts(InitialContent)
  BY InitialStands, InitialAssumption DEF Stands
<1>3. <<InitialContent>> \in Seq(Content) /\ <<>> \in Seq(Content)
  BY <1>2, EmptySeq
<1>4. Elements(<<InitialContent>>) = {InitialContent} /\ Elements(<<>>) = {}
  BY DEF Elements
<1>5. Stores(versions)
  BY <1>1, <1>2, <1>3, <1>4 DEF Stores
<1>6. CallFits(versions, Ask("first", 0, 0))
  BY AskFits DEF CallKinds
<1> QED
  BY <1>1, <1>5, <1>6, MountedFits DEF Fits

LEMMA NextSound == Fits /\ Next => Sound
<1> SUFFICES ASSUME Fits, Next PROVE Sound
  OBVIOUS
<1>1. CASE \E c \in calls : Serve(c) \/ Deliver(c)
  BY <1>1, ServeSound, DeliverSound
<1> QED
  BY <1>1, EditRoutesSound, EditZonesSound, UseMapSound, EditRestSound, RequestsSound DEF Next

LEMMA FitsInductive == Spec => []Fits
<1>1. Fits /\ [Next]_vars => Fits'
  <2>1. Fits /\ UNCHANGED vars => Fits'
    BY DEF Fits, vars, server
  <2>2. Fits /\ Next => Fits'
    BY NextSound DEF Sound
  <2> QED
    BY <2>1, <2>2
<1> QED
  BY <1>1, InitFits, PTL DEF Spec

(* Everything has its type: the stored revisions, the draft that any edit  *)
(* leaves, the drawings, the open requests and their answers; and the      *)
(* revision that is selected is one that is stored (loadLayout, save,      *)
(* rename, resetDraft of the page).                                        *)
THEOREM TypeCorrect == Spec => []TypeOK
<1>1. Fits => TypeOK
  <2> SUFFICES ASSUME Fits PROVE TypeOK
    OBVIOUS
  <2>1. versions \in [Layouts -> Seq(Content)] /\ archived \subseteq Layouts /\ page \in Page
    BY DEF Fits, Stores, PageFits
  <2>2. calls \subseteq Call
    BY DEF Fits, CallFits
  <2>3. budget \in [edits : Nat, drawings : Nat, requests : Nat, failures : Nat]
    BY DEF Fits, Budget
  <2>4. page.selected # NoVersion =>
          page.selected.of \in Layouts /\ page.selected.version \in DOMAIN versions[page.selected.of]
    BY DEF Fits, PageFits, Names
  <2> QED
    BY <2>1, <2>2, <2>3, <2>4 DEF TypeOK
<1> QED
  BY <1>1, FitsInductive, PTL

(* In every draft the routes have different ids, and one is a delivery     *)
(* route, however they are added, removed, drawn, loaded and reset: the    *)
(* suffix addRoute looks for exists and is free, for any number of routes. *)
THEOREM RoutesStandHolds == Spec => []RoutesStand
<1>1. Fits => RoutesStand
  BY DEF Fits, PageFits, Stands, Routed, RoutesStand
<1> QED
  BY <1>1, FitsInductive, PTL

(* No step but a typed waypoint, or the end of a drawing that was begun    *)
(* elsewhere, takes a route off its stations: not moving a station, not    *)
(* choosing another end, not an answer (moveStation, updateRouteEndpoint,  *)
(* selectRouteStation), for paths of any length.                           *)
THEOREM RoutesStayJoinedHolds == Spec => RoutesStayJoined
<1>1. Fits /\ [Next]_vars => [Loose' \subseteq Loose \/ StaleDrawing \/ TypesWaypoint]_page
  <2>1. Fits /\ Next => (Loose' \subseteq Loose \/ StaleDrawing \/ TypesWaypoint)
    BY NextSound DEF Sound, Loosens
  <2>2. UNCHANGED vars => UNCHANGED page
    BY DEF vars
  <2> QED
    BY <2>1, <2>2
<1> QED
  BY <1>1, FitsInductive, PTL DEF Spec, RoutesStayJoined
-----------------------------------------------------------------------------
(* The comparison of two stored revisions.                                 *)

(* Of different ids, the later of two of the same id is the only one.      *)
LEMMA EntryIs ==
  ASSUME NEW S, NEW seq \in Seq(S), Distinct(seq), NEW item \in Elements(seq)
  PROVE  Entry(seq, item.id) = item
<1>1. PICK i \in DOMAIN seq : seq[i] = item
  BY DEF Elements
<1>2. \A j \in DOMAIN seq : seq[j].id = item.id => j = i
  BY <1>1 DEF Distinct
<1>3. DOMAIN seq = 1..Len(seq) /\ Len(seq) \in Nat
  OBVIOUS
<1> DEFINE Latest(j) == seq[j].id = item.id /\ \A k \in DOMAIN seq : seq[k].id = item.id => k <= j
<1>4. Latest(i)
  BY <1>1, <1>2, <1>3
<1>5. (CHOOSE j \in DOMAIN seq : Latest(j)) = i
  BY <1>2, <1>4
<1> QED
  BY <1>1, <1>5 DEF Entry

LEMMA KeptIs ==
  ASSUME NEW S, NEW old \in Seq(S), NEW new, Distinct(old), NEW k \in Kept(old, new)
  PROVE  \E o \in Elements(old) :
             /\ o.id = k.id /\ Entry(old, k.id) = o
             /\ o # k => k \notin Elements(old)
<1>1. PICK o \in Elements(old) : o.id = k.id
  BY DEF Kept, Ids
<1>2. Entry(old, k.id) = o
  BY <1>1, EntryIs
<1>3. k \in Elements(old) => Entry(old, k.id) = k
  BY EntryIs
<1> QED
  BY <1>1, <1>2, <1>3

LEMMA AddedRemovedDiffer ==
  ASSUME NEW what, NEW old, NEW new, NEW change \in AddedRemoved(what, old, new)
  PROVE  change[1] = what /\ change[3] \in Differs(old, new)
<1>1. CASE \E id \in Ids(new) \ Ids(old) : change = <<what, "added", id>>
  <2>1. PICK id \in Ids(new) \ Ids(old) : change = <<what, "added", id>>
    BY <1>1
  <2>2. PICK item \in Elements(new) : item.id = id /\ item \notin Elements(old)
    BY <2>1 DEF Ids
  <2> QED
    BY <2>1, <2>2 DEF Differs
<1>2. CASE \E id \in Ids(old) \ Ids(new) : change = <<what, "removed", id>>
  <2>1. PICK id \in Ids(old) \ Ids(new) : change = <<what, "removed", id>>
    BY <1>2
  <2>2. PICK item \in Elements(old) : item.id = id /\ item \notin Elements(new)
    BY <2>1 DEF Ids
  <2> QED
    BY <2>1, <2>2 DEF Differs
<1> QED
  BY <1>1, <1>2 DEF AddedRemoved

(* What differs was added, removed, or kept under its id with another content. *)
LEMMA DiffersIs ==
  ASSUME NEW S, NEW old \in Seq(S), NEW new \in Seq(S), Distinct(old), Distinct(new),
         NEW what, NEW id \in Differs(old, new)
  PROVE  \/ \E change \in AddedRemoved(what, old, new) : change[1] = what /\ change[3] = id
         \/ \E k \in Kept(old, new) :
                k.id = id /\ Entry(old, id) \in Elements(old) /\ Entry(old, id).id = id /\ Entry(old, id) # k
<1>1. CASE id \notin Ids(old)
  <2>1. id \in Ids(new)
    BY <1>1 DEF Differs, Ids
  <2>2. <<what, "added", id>> \in AddedRemoved(what, old, new)
    BY <1>1, <2>1 DEF AddedRemoved
  <2> QED
    BY <2>2
<1>2. CASE id \notin Ids(new)
  <2>1. id \in Ids(old)
    BY <1>2 DEF Differs, Ids
  <2>2. <<what, "removed", id>> \in AddedRemoved(what, old, new)
    BY <1>2, <2>1 DEF AddedRemoved
  <2> QED
    BY <2>2
<1>3. CASE id \in Ids(old) /\ id \in Ids(new)
  <2>1. PICK o \in Elements(old), k \in Elements(new) : o.id = id /\ k.id = id
    BY <1>3 DEF Ids
  <2>2. k \in Kept(old, new)
    BY <1>3, <2>1 DEF Kept
  <2>3. Entry(old, id) = o
    BY <2>1, EntryIs
  <2>4. o # k
    <3> SUFFICES ASSUME o = k PROVE FALSE
      OBVIOUS
    <3>1. PICK item \in (Elements(old) \ Elements(new)) \cup (Elements(new) \ Elements(old)) : item.id = id
      BY DEF Differs
    <3>2. CASE item \in Elements(old) \ Elements(new)
      <4>1. Entry(old, id) = item
        BY <3>1, <3>2, EntryIs
      <4> QED
        BY <2>1, <2>3, <3>2, <4>1
    <3>3. CASE item \in Elements(new) \ Elements(old)
      <4>1. Entry(new, id) = item /\ Entry(new, id) = k
        BY <2>1, <3>1, <3>3, EntryIs
      <4> QED
        BY <2>1, <3>3, <4>1
    <3> QED
      BY <3>1, <3>2, <3>3
  <2> QED
    BY <2>1, <2>2, <2>3, <2>4
<1> QED
  BY <1>1, <1>2, <1>3

Shown(changes) == {<<change[1], change[3]>> : change \in changes}

LEMMA ShownIs ==
  ASSUME NEW what, NEW changes, NEW ids,
         \A change \in changes : change[1] = what /\ change[3] \in ids,
         \A id \in ids : \E change \in changes : change[1] = what /\ change[3] = id
  PROVE  Shown(changes) = {<<what, id>> : id \in ids}
<1>1. Shown(changes) \subseteq {<<what, id>> : id \in ids}
  BY DEF Shown
<1>2. ASSUME NEW id \in ids PROVE <<what, id>> \in Shown(changes)
  <2>1. PICK change \in changes : change[1] = what /\ change[3] = id
    OBVIOUS
  <2> QED
    BY <2>1 DEF Shown
<1> QED
  BY <1>1, <1>2

LEMMA SameRoute ==
  ASSUME NEW a \in Route, NEW b \in Route,
         a.id = b.id, a.from = b.from, a.to = b.to, a.path = b.path
  PROVE  a = b
<1>1. a = [id |-> a.id, from |-> a.from, to |-> a.to, path |-> a.path]
  BY DEF Route
<1>2. b = [id |-> b.id, from |-> b.from, to |-> b.to, path |-> b.path]
  BY DEF Route
<1> QED
  BY <1>1, <1>2

LEMMA SameZone ==
  ASSUME NEW a \in Zone, NEW b \in Zone,
         a.id = b.id, a.points = b.points, a.delay = b.delay
  PROVE  a = b
<1>1. a = [id |-> a.id, points |-> a.points, delay |-> a.delay]
  BY DEF Zone
<1>2. b = [id |-> b.id, points |-> b.points, delay |-> b.delay]
  BY DEF Zone
<1> QED
  BY <1>1, <1>2

LEMMA RoutesShown ==
  ASSUME NEW old \in Seq(Route), NEW new \in Seq(Route), Distinct(old), Distinct(new)
  PROVE  Shown(DiffRoutes(old, new)) = {<<"Route", id>> : id \in Differs(old, new)}
<1> DEFINE moved == {k \in Kept(old, new) : Entry(old, k.id).from # k.from \/ Entry(old, k.id).to # k.to}
           redrawn == {k \in Kept(old, new) \ moved : Entry(old, k.id).path # k.path}
<1>0. DiffRoutes(old, new) =
        AddedRemoved("Route", old, new)
          \cup {<<"Route", "endpoints changed", r.id>> : r \in moved}
          \cup {<<"Route", "rerouted", r.id>> : r \in redrawn}
  BY DEF DiffRoutes
<1>1. ASSUME NEW k \in Kept(old, new), Entry(old, k.id) # k
      PROVE  k.id \in Differs(old, new)
  BY <1>1, KeptIs DEF Kept, Differs
<1>2. ASSUME NEW change \in DiffRoutes(old, new)
      PROVE  change[1] = "Route" /\ change[3] \in Differs(old, new)
  <2>1. CASE change \in AddedRemoved("Route", old, new)
    BY <2>1, AddedRemovedDiffer
  <2>2. CASE \E r \in moved : change = <<"Route", "endpoints changed", r.id>>
    <3>1. PICK r \in moved : change = <<"Route", "endpoints changed", r.id>>
      BY <2>2
    <3>2. r \in Kept(old, new) /\ Entry(old, r.id) # r
      OBVIOUS
    <3> QED
      BY <1>1, <3>1, <3>2
  <2>3. CASE \E r \in redrawn : change = <<"Route", "rerouted", r.id>>
    <3>1. PICK r \in redrawn : change = <<"Route", "rerouted", r.id>>
      BY <2>3
    <3>2. r \in Kept(old, new) /\ Entry(old, r.id) # r
      OBVIOUS
    <3> QED
      BY <1>1, <3>1, <3>2
  <2> HIDE DEF moved, redrawn
  <2> QED
    BY <1>0, <2>1, <2>2, <2>3
<1>3. ASSUME NEW id \in Differs(old, new)
      PROVE  \E change \in DiffRoutes(old, new) : change[1] = "Route" /\ change[3] = id
  <2>1. CASE \E change \in AddedRemoved("Route", old, new) : change[1] = "Route" /\ change[3] = id
    BY <1>0, <2>1
  <2>2. CASE \E k \in Kept(old, new) :
               k.id = id /\ Entry(old, id) \in Elements(old) /\ Entry(old, id).id = id /\ Entry(old, id) # k
    <3>1. PICK k \in Kept(old, new) :
            k.id = id /\ Entry(old, id) \in Elements(old) /\ Entry(old, id).id = id /\ Entry(old, id) # k
      BY <2>2
    <3>2. k \in Route /\ Entry(old, id) \in Route
      BY <3>1, ElementsAre DEF Kept
    <3>3. Entry(old, id).from # k.from \/ Entry(old, id).to # k.to \/ Entry(old, id).path # k.path
      <4> DEFINE o == Entry(old, id)
      <4>1. o \in Route /\ o.id = k.id /\ o # k
        BY <3>1, <3>2
      <4> HIDE DEF o
      <4>2. o.from # k.from \/ o.to # k.to \/ o.path # k.path
        BY <3>2, <4>1, SameRoute
      <4> QED
        BY <4>2 DEF o
    <3>4. k \in moved \/ k \in redrawn
      BY <3>1, <3>3
    <3> HIDE DEF moved, redrawn
    <3>5. <<"Route", "endpoints changed", id>> \in DiffRoutes(old, new) \/ <<"Route", "rerouted", id>> \in DiffRoutes(old, new)
      BY <1>0, <3>1, <3>4
    <3> QED
      BY <3>5
  <2> QED
    BY <2>1, <2>2, DiffersIs
<1> QED
  BY <1>2, <1>3, ShownIs

LEMMA ZonesShown ==
  ASSUME NEW kind, NEW old \in Seq(Zone), NEW new \in Seq(Zone), Distinct(old), Distinct(new)
  PROVE  Shown(DiffZones(kind, old, new)) = {<<kind, id>> : id \in Differs(old, new)}
<1> DEFINE reshaped == {k \in Kept(old, new) : Entry(old, k.id).points # k.points}
           delayed == {k \in Kept(old, new) : Entry(old, k.id).delay # k.delay}
<1>0. DiffZones(kind, old, new) =
        AddedRemoved(kind, old, new)
          \cup {<<kind, "reshaped", z.id>> : z \in reshaped}
          \cup {<<kind, "delay changed", z.id>> : z \in delayed}
  BY DEF DiffZones
<1>1. ASSUME NEW k \in Kept(old, new), Entry(old, k.id) # k
      PROVE  k.id \in Differs(old, new)
  BY <1>1, KeptIs DEF Kept, Differs
<1>2. ASSUME NEW change \in DiffZones(kind, old, new)
      PROVE  change[1] = kind /\ change[3] \in Differs(old, new)
  <2>1. CASE change \in AddedRemoved(kind, old, new)
    BY <2>1, AddedRemovedDiffer
  <2>2. CASE \E z \in reshaped : change = <<kind, "reshaped", z.id>>
    <3>1. PICK z \in reshaped : change = <<kind, "reshaped", z.id>>
      BY <2>2
    <3>2. z \in Kept(old, new) /\ Entry(old, z.id) # z
      OBVIOUS
    <3> QED
      BY <1>1, <3>1, <3>2
  <2>3. CASE \E z \in delayed : change = <<kind, "delay changed", z.id>>
    <3>1. PICK z \in delayed : change = <<kind, "delay changed", z.id>>
      BY <2>3
    <3>2. z \in Kept(old, new) /\ Entry(old, z.id) # z
      OBVIOUS
    <3> QED
      BY <1>1, <3>1, <3>2
  <2> HIDE DEF reshaped, delayed
  <2> QED
    BY <1>0, <2>1, <2>2, <2>3
<1>3. ASSUME NEW id \in Differs(old, new)
      PROVE  \E change \in DiffZones(kind, old, new) : change[1] = kind /\ change[3] = id
  <2>1. CASE \E change \in AddedRemoved(kind, old, new) : change[1] = kind /\ change[3] = id
    BY <1>0, <2>1
  <2>2. CASE \E k \in Kept(old, new) :
               k.id = id /\ Entry(old, id) \in Elements(old) /\ Entry(old, id).id = id /\ Entry(old, id) # k
    <3>1. PICK k \in Kept(old, new) :
            k.id = id /\ Entry(old, id) \in Elements(old) /\ Entry(old, id).id = id /\ Entry(old, id) # k
      BY <2>2
    <3>2. k \in Zone /\ Entry(old, id) \in Zone
      BY <3>1, ElementsAre DEF Kept
    <3>3. Entry(old, id).points # k.points \/ Entry(old, id).delay # k.delay
      <4> DEFINE o == Entry(old, id)
      <4>1. o \in Zone /\ o.id = k.id /\ o # k
        BY <3>1, <3>2
      <4> HIDE DEF o
      <4>2. o.points # k.points \/ o.delay # k.delay
        BY <3>2, <4>1, SameZone
      <4> QED
        BY <4>2 DEF o
    <3>4. k \in reshaped \/ k \in delayed
      BY <3>1, <3>3
    <3> HIDE DEF reshaped, delayed
    <3>5. <<kind, "reshaped", id>> \in DiffZones(kind, old, new) \/ <<kind, "delay changed", id>> \in DiffZones(kind, old, new)
      BY <1>0, <3>1, <3>4
    <3> QED
      BY <3>5
  <2> QED
    BY <2>1, <2>2, DiffersIs
<1> QED
  BY <1>2, <1>3, ShownIs

LEMMA ZonesDistinct ==
  ASSUME NEW d \in Content, Accepts(d), NEW kind \in ZoneKinds
  PROVE  d.zones[kind] \in Seq(Zone) /\ Distinct(d.zones[kind])
<1> DEFINE a == d.zones["no_go_zones"]
           b == d.zones["congestion_zones"]
<1>1. kind = "no_go_zones" \/ kind = "congestion_zones"
  BY DEF ZoneKinds
<1>2. a \in Seq(Zone) /\ b \in Seq(Zone)
  BY ContentHas DEF ZoneKinds
<1>3. Distinct(a \o b)
  BY DEF Accepts, ZoneError, AllZones
<1>4. d.zones[kind] = a \/ d.zones[kind] = b
  BY <1>1
<1> HIDE DEF a, b
<1>5. /\ Len(a) \in Nat /\ Len(b) \in Nat /\ DOMAIN a = 1..Len(a) /\ DOMAIN b = 1..Len(b)
      /\ DOMAIN (a \o b) = 1..(Len(a) + Len(b))
      /\ \A i \in 1..(Len(a) + Len(b)) : (a \o b)[i] = IF i <= Len(a) THEN a[i] ELSE b[i - Len(a)]
  BY <1>2, ConcatProperties
<1>6. Distinct(a)
  BY <1>3, <1>5 DEF Distinct
<1>7. Distinct(b)
  <2> SUFFICES ASSUME NEW i \in DOMAIN b, NEW j \in DOMAIN b, b[i].id = b[j].id PROVE i = j
    BY DEF Distinct
  <2>1. /\ i + Len(a) \in DOMAIN (a \o b) /\ (a \o b)[i + Len(a)] = b[i]
        /\ j + Len(a) \in DOMAIN (a \o b) /\ (a \o b)[j + Len(a)] = b[j]
    BY <1>5
  <2>2. i + Len(a) = j + Len(a)
    BY <1>3, <2>1 DEF Distinct
  <2> QED
    BY <1>5, <2>2
<1> QED
  BY <1>2, <1>4, <1>6, <1>7

LEMMA ShownUnion ==
  ASSUME NEW A, NEW B
  PROVE  Shown(A \cup B) = Shown(A) \cup Shown(B)
  BY DEF Shown

LEMMA ShownOne ==
  /\ Shown({}) = {}
  /\ \A a, b : Shown({<<a, "", b>>}) = {<<a, b>>}
<1>1. Shown({}) = {}
  BY DEF Shown
<1>2. ASSUME NEW a, NEW b PROVE Shown({<<a, "", b>>}) = {<<a, b>>}
  <2>1. <<a, "", b>>[1] = a /\ <<a, "", b>>[3] = b
    OBVIOUS
  <2>2. Shown({<<a, "", b>>}) = {<< <<a, "", b>>[1], <<a, "", b>>[3] >>}
    BY DEF Shown
  <2> QED
    BY <2>1, <2>2
<1> QED
  BY <1>1, <1>2

(* Of any two contents the backend accepts.                                *)
LEMMA DiffExact ==
  ASSUME NEW old \in Content, NEW new \in Content, Accepts(old), Accepts(new)
  PROVE  {<<change[1], change[3]>> : change \in DiffLayoutContent(old, new)} =
            (IF old.width # new.width THEN {<<"Factory footprint", NoId>>} ELSE {})
                \cup {<<"Station", <<s, 0>>>> : s \in {t \in Stations : old.at[t] # new.at[t]}}
                \cup {<<"Route", id>> : id \in Differs(old.routes, new.routes)}
                \cup (UNION {{<<kind, id>> : id \in Differs(old.zones[kind], new.zones[kind])} : kind \in ZoneKinds})
                \cup (IF old.config # new.config THEN {<<"config", NoId>>} ELSE {})
<1> DEFINE width == IF old.width # new.width THEN {<<"Factory footprint", "", NoId>>} ELSE {}
           moved == {t \in Stations : old.at[t] # new.at[t]}
           stations == {<<"Station", "moved", <<s, 0>>>> : s \in moved}
           routes == DiffRoutes(old.routes, new.routes)
           zones(kind) == DiffZones(kind, old.zones[kind], new.zones[kind])
           nogo == zones("no_go_zones")
           slow == zones("congestion_zones")
           config == IF old.config # new.config THEN {<<"config", "", NoId>>} ELSE {}
           differ(kind) == {<<kind, id>> : id \in Differs(old.zones[kind], new.zones[kind])}
           changes == UNION {zones(kind) : kind \in ZoneKinds}
           ids == UNION {differ(kind) : kind \in ZoneKinds}
<1>1. Shown(width) = IF old.width # new.width THEN {<<"Factory footprint", NoId>>} ELSE {}
  BY ShownOne
<1>2. Shown(stations) = {<<"Station", <<s, 0>>>> : s \in moved}
  <2>1. \A s \in moved : <<"Station", "moved", <<s, 0>>>> \in stations
    OBVIOUS
  <2>2. \A change \in stations : \E s \in moved : change = <<"Station", "moved", <<s, 0>>>>
    OBVIOUS
  <2> HIDE DEF stations, moved
  <2>3. \A s \in moved : <<"Station", <<s, 0>>>> \in Shown(stations)
    <3> SUFFICES ASSUME NEW s \in moved PROVE <<"Station", <<s, 0>>>> \in Shown(stations)
      OBVIOUS
    <3> DEFINE change == <<"Station", "moved", <<s, 0>>>>
    <3>1. change \in stations /\ change[1] = "Station" /\ change[3] = <<s, 0>>
      BY <2>1
    <3> QED
      BY <3>1 DEF Shown
  <2>4. \A x \in Shown(stations) : \E s \in moved : x = <<"Station", <<s, 0>>>>
    BY <2>2 DEF Shown
  <2> QED
    BY <2>3, <2>4
<1>3. Shown(routes) = {<<"Route", id>> : id \in Differs(old.routes, new.routes)}
  BY ContentHas, RoutesShown DEF Accepts
<1>4. Shown(nogo) = differ("no_go_zones") /\ Shown(slow) = differ("congestion_zones")
  <2>1. "no_go_zones" \in ZoneKinds /\ "congestion_zones" \in ZoneKinds
    BY DEF ZoneKinds
  <2> QED
    BY <2>1, ZonesDistinct, ZonesShown
<1>5. Shown(config) = IF old.config # new.config THEN {<<"config", NoId>>} ELSE {}
  BY ShownOne
<1>6. changes = nogo \cup slow
  BY DEF ZoneKinds
<1>7. ids = differ("no_go_zones") \cup differ("congestion_zones")
  BY DEF ZoneKinds
<1>8. DiffLayoutContent(old, new) =
        width \cup stations \cup routes \cup changes \cup config
  <2>1. DiffLayoutContent(old, new) =
          width \cup stations \cup routes \cup (UNION {zones(kind) : kind \in ZoneKinds}) \cup config
    BY DEF DiffLayoutContent
  <2>2. changes = UNION {zones(kind) : kind \in ZoneKinds}
    OBVIOUS
  <2> HIDE DEF width, stations, routes, zones, changes, config
  <2> QED
    BY <2>1, <2>2
<1>9. Shown(DiffLayoutContent(old, new)) =
        Shown(width) \cup Shown(stations) \cup Shown(routes) \cup (Shown(nogo) \cup Shown(slow)) \cup Shown(config)
  <2> HIDE DEF width, stations, routes, nogo, slow, config, changes
  <2>1. DiffLayoutContent(old, new) = width \cup stations \cup routes \cup (nogo \cup slow) \cup config
    BY <1>6, <1>8
  <2> DEFINE a == width \cup stations
             b == a \cup routes
             c == b \cup (nogo \cup slow)
  <2>2. Shown(a) = Shown(width) \cup Shown(stations)
    BY ShownUnion
  <2>3. Shown(nogo \cup slow) = Shown(nogo) \cup Shown(slow)
    BY ShownUnion
  <2> HIDE DEF a
  <2>4. Shown(b) = Shown(a) \cup Shown(routes)
    BY ShownUnion
  <2> HIDE DEF b
  <2>5. Shown(c) = Shown(b) \cup Shown(nogo \cup slow)
    BY ShownUnion
  <2> HIDE DEF c
  <2>6. Shown(c \cup config) = Shown(c) \cup Shown(config)
    BY ShownUnion
  <2>7. DiffLayoutContent(old, new) = c \cup config
    BY <2>1 DEF a, b, c
  <2> QED
    BY <2>2, <2>3, <2>4, <2>5, <2>6, <2>7
<1>10. Shown(DiffLayoutContent(old, new)) =
         Shown(width) \cup Shown(stations) \cup Shown(routes) \cup ids \cup Shown(config)
  <2>1. ids = Shown(nogo) \cup Shown(slow)
    BY <1>4, <1>7
  <2> HIDE DEF width, stations, routes, nogo, slow, config, ids
  <2> QED
    BY <1>9, <2>1
<1>11. Shown(DiffLayoutContent(old, new)) = {<<change[1], change[3]>> : change \in DiffLayoutContent(old, new)}
  BY DEF Shown
<1>12. ids = UNION {{<<kind, id>> : id \in Differs(old.zones[kind], new.zones[kind])} : kind \in ZoneKinds}
  OBVIOUS
<1> HIDE DEF width, stations, routes, nogo, slow, config, ids
<1> QED
  BY <1>1, <1>2, <1>3, <1>5, <1>10, <1>11, <1>12

(* The changes diffLayoutContent lists between any two stored revisions    *)
(* are about what differs between them, all of it and nothing else.        *)
THEOREM DiffIsExactHolds == Spec => []DiffIsExact
<1>1. Fits => DiffIsExact
  <2> SUFFICES ASSUME Fits PROVE DiffIsExact
    OBVIOUS
  <2>1. \A d \in Stored : d \in Content /\ Accepts(d)
    BY DEF Stored, Fits, Stores, Stands
  <2> QED
    BY <2>1, DiffExact DEF DiffIsExact
<1> QED
  BY <1>1, FitsInductive, PTL
=============================================================================
