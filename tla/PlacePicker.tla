----------------------------- MODULE PlacePicker -----------------------------
(***************************************************************************)
(* The place of an event as its host picks it: the location part of the    *)
(* create and edit forms of both clients, with the text search, the map of *)
(* a POINT event and the way points of a ROUTE event.  Searches, reverse   *)
(* geocoding and road geometry are answered late, in any order, and the    *)
(* host goes on picking meanwhile.  A place stands for its coordinates and *)
(* for the text that names it.                                             *)
(***************************************************************************)
EXTENDS Integers, Sequences, FiniteSets, SequencesExt

CONSTANTS Place, None,
          MaxInput,    \* bound: what the host does on the form
          MaxRoute     \* ROUTE_MAX_POINTS, 50 in the code

RouteMin == 2

VARIABLES
  screen,    \* [client, kind]: which of the four forms this is
  place,     \* the location fields of the form
  shown,     \* the suggestion list: None or the place it offers
  searching, \* isSearchingLocation, locationSearching
  timer,     \* the text waiting for the search debounce, None
  calls,     \* searches and reverse geocodings without an answer
  drawn,     \* routedGeometry: None or the points it runs through
  fetching,  \* the points whose geometry is being fetched, None
  sent,      \* the location part of the request, None before it is made
  inputs,    \* how often the host acted
  picked,    \* history: the place the host picked last, or the address a route was given
  mishaps    \* history: which overlaps and failures happened

vars == <<screen, place, shown, searching, timer, calls, drawn, fetching, sent,
          inputs, picked, mishaps>>

Web == screen.client = "web"
Mobile == screen.client = "mobile"
Editing == screen.kind = "edit"

(* A place stands for any text; the address of a route may also be derived *)
(* from the two ends of that route, or of what it was before.              *)
Address == Place \union {None} \union (Place \X Place)
WayPoint == [at : Place, label : Place \union {None}]
Search == [what : {"search"}, at : Place, index : {0}]
Naming == [what : {"point"}, at : Place, index : {0}]
          \union [what : {"route"}, at : Place, index : 1 .. MaxRoute + 1]

Points(route) == [i \in DOMAIN route |-> route[i].at]

(* deriveRouteAddress: the labels of the first and the last way point, or  *)
(* their coordinates.                                                      *)
ShortLabel(point) == IF point.label = None THEN point.at ELSE point.label
Derived(route) == <<ShortLabel(route[1]), ShortLabel(route[Len(route)])>>

----------------------------------------------------------------------------
(* The form at its start: empty, or filled from the event.                 *)

EmptyPlace == [type |-> "POINT", point |-> None, address |-> None, query |-> None, route |-> <<>>]

(* The points of a route come without labels.                              *)
WebPlaceOf(event) ==
  [type |-> event.type, point |-> IF event.type = "ROUTE" THEN None ELSE event.point,
   address |-> event.address, query |-> event.address,
   route |-> IF event.type = "ROUTE" THEN [i \in DOMAIN event.route |-> [at |-> event.route[i], label |-> None]]
             ELSE <<>>]

MobilePlaceOf(event) == WebPlaceOf(event)

(* The address may be missing; otherwise it is the name of the point, or   *)
(* the one that was derived from the two ends of the route, which differ:  *)
(* a bound.                                                                *)
StoredPoints == { [type |-> "POINT", point |-> p, address |-> a, route |-> <<>>] :
                    p \in Place, a \in Place \union {None} }

StoredRoutes == { [type |-> "ROUTE", point |-> None, address |-> a, route |-> <<p, q>>] :
                    a \in (Place \X Place) \union {None}, p \in Place, q \in Place }

StoredPlaces ==
  {e \in StoredPoints : e.address \in {e.point, None}}
  \union {e \in StoredRoutes : e.route[1] # e.route[2] /\ e.address \in {e.route, None}}

Init ==
  /\ screen \in [client : {"web", "mobile"}, kind : {"create", "edit"}]
  /\ IF screen.kind = "create" THEN place = EmptyPlace
     ELSE \E event \in StoredPlaces :
            place = IF screen.client = "web" THEN WebPlaceOf(event) ELSE MobilePlaceOf(event)
  /\ shown = None /\ searching = FALSE /\ timer = None /\ calls = {}
  /\ drawn = None /\ fetching = None /\ sent = None
  /\ inputs = 0
  /\ picked = IF place.type = "ROUTE" THEN place.address ELSE place.point
  /\ mishaps = IF place.point # None /\ place.address = None THEN {"unnamed"} ELSE {}

----------------------------------------------------------------------------
(* What each form offers.  The parts that ask `disabled` are off once the  *)
(* request is made; suggestions, and the clear button of the create form,  *)
(* do not ask.                                                             *)

Busy == sent # None

Arrows == IF place.route = <<>> THEN {} ELSE {"rows"}
Suggestions(what) == IF shown = None THEN {} ELSE {what}

WebRouteOffers ==
  Suggestions("suggest") \union (IF Busy THEN {} ELSE {"type", "waypoint"} \union Arrows)

MobileRouteOffers ==
  Suggestions("suggest") \union (IF Busy THEN {} ELSE {"type", "waypoint"} \union Arrows)

WebCreateOffers ==
  (IF Busy THEN {} ELSE {"switch"}) \union
  (IF place.type = "ROUTE" THEN WebRouteOffers
   ELSE Suggestions("select") \union (IF Busy THEN {} ELSE {"type", "tap"}))

WebEditOffers ==
  (IF Busy THEN {} ELSE {"switch"}) \union
  (IF place.type = "ROUTE" THEN WebRouteOffers \union (IF Busy THEN {} ELSE {"address"})
   ELSE Suggestions("select") \union (IF Busy THEN {} ELSE {"type", "tap"}))

MobileCreateOffers ==
  (IF Busy THEN {} ELSE {"switch"}) \union
  (IF place.type = "ROUTE" THEN MobileRouteOffers
   ELSE Suggestions("select") \union (IF Busy THEN {} ELSE {"type", "tap"})
        \union (IF place.point = None THEN {} ELSE {"clear"}))

MobileEditOffers ==
  IF place.type = "ROUTE" THEN MobileRouteOffers \union (IF Busy THEN {} ELSE {"switch"})
  ELSE IF Busy THEN {}
  ELSE {"switch", "type", "tap"} \union Suggestions("select")
       \union (IF place.point = None THEN {} ELSE {"clear"})

Offers ==
  IF Web THEN IF Editing THEN WebEditOffers ELSE WebCreateOffers
  ELSE IF Editing THEN MobileEditOffers ELSE MobileCreateOffers

----------------------------------------------------------------------------
(* What the host does.  Every input is one event of the form; it overlaps  *)
(* when a map tap still waits for its name, and so does submitting then.   *)

NamingPoint == \E c \in calls : c.what = "point"
NamingRoute == \E c \in calls : c.what = "route"

Input(what) ==
  /\ what \in Offers
  /\ inputs < MaxInput
  /\ inputs' = inputs + 1
  /\ UNCHANGED <<screen, sent>>

Mishap(new) == mishaps' = mishaps \union new

PointOverlap == IF NamingPoint THEN {"overlap"} ELSE {}
RouteOverlap == IF NamingRoute THEN {"shuffle"} ELSE {}

KeepRouteDrawing == UNCHANGED <<drawn, fetching>>

(* The effect of a change of the way points on the drawn line: the running *)
(* fetch is dropped, and with fewer than two points so is the line.        *)
WebRouteDrawn(route) ==
  /\ drawn' = IF Len(route) < 2 THEN None ELSE drawn
  /\ fetching' = IF Len(route) < 2 THEN None ELSE Points(route)

MobileRouteDrawn(route) ==
  /\ drawn' = IF Len(route) < 2 THEN None ELSE drawn
  /\ fetching' = IF Len(route) < 2 THEN None ELSE Points(route)

RouteDrawn(route) ==
  IF Points(route) = Points(place.route) THEN KeepRouteDrawing
  ELSE IF Web THEN WebRouteDrawn(route) ELSE MobileRouteDrawn(route)

(* handleLocationSearch of the web forms: the place typed over is gone,    *)
(* and so is the address of a route whose next way point is looked for.    *)
WebSearch(q) ==
  /\ place' = [place EXCEPT !.query = q, !.point = None, !.address = None]
  /\ shown' = None
  /\ timer' = q
  /\ picked' = None
  /\ Mishap(PointOverlap)
  /\ UNCHANGED <<searching, calls, drawn, fetching>>

(* The mobile create form keeps the place while another is typed; a text   *)
(* shorter than two letters, None here, only empties the list.             *)
MobileCreateSearch(q) ==
  /\ place' = [place EXCEPT !.query = q]
  /\ timer' = q
  /\ shown' = IF q = None THEN None ELSE shown
  /\ UNCHANGED <<searching, calls, drawn, fetching, picked, mishaps>>

(* The mobile edit form searches at once, without a debounce.              *)
MobileEditSearch(q) ==
  /\ place' = [place EXCEPT !.query = q]
  /\ IF q = None THEN shown' = None /\ UNCHANGED <<searching, calls>>
     ELSE /\ calls' = calls \union {[what |-> "search", at |-> q, index |-> 0]}
          /\ searching' = TRUE
          /\ UNCHANGED shown
  /\ UNCHANGED <<timer, drawn, fetching, picked, mishaps>>

WebEditSearch(q) == WebSearch(q)

Type ==
  /\ Input("type")
  /\ \E q \in Place \union {None} :
       \/ Web /\ ~Editing /\ WebSearch(q)
       \/ Web /\ Editing /\ WebEditSearch(q)
       \/ Mobile /\ ~Editing /\ MobileCreateSearch(q)
       \/ Mobile /\ Editing /\ MobileEditSearch(q)

(* The debounced search is sent when the timer runs out.                   *)
Debounced ==
  /\ timer # None
  /\ timer' = None
  /\ calls' = calls \union {[what |-> "search", at |-> timer, index |-> 0]}
  /\ searching' = TRUE
  /\ UNCHANGED <<screen, place, shown, drawn, fetching, sent, inputs, picked, mishaps>>

(* searchLocation never throws: a failure is an empty list.  No form asks  *)
(* whether the answer is still that of the text shown.                     *)
SearchResults(q) == {q, None}

Searched ==
  \E c \in calls : \E result \in SearchResults(c.at) :
    /\ c.what = "search"
    /\ calls' = calls \ {c}
    /\ shown' = result
    /\ searching' = FALSE
    /\ UNCHANGED <<screen, place, timer, drawn, fetching, sent, inputs, picked, mishaps>>

PickedAt(p) == [place EXCEPT !.point = p, !.address = p, !.query = p]

(* selectLocation of the four forms.                                       *)
WebCreatePick(p) == place' = PickedAt(p) /\ shown' = None
WebEditPick(p) == place' = PickedAt(p) /\ shown' = None
MobileCreatePick(p) == place' = PickedAt(p) /\ shown' = None
MobileEditPick(p) == place' = PickedAt(p) /\ shown' = None

Select ==
  /\ Input("select")
  /\ \/ Web /\ ~Editing /\ WebCreatePick(shown)
     \/ Web /\ Editing /\ WebEditPick(shown)
     \/ Mobile /\ ~Editing /\ MobileCreatePick(shown)
     \/ Mobile /\ Editing /\ MobileEditPick(shown)
  /\ picked' = shown
  /\ Mishap(PointOverlap)
  /\ UNCHANGED <<searching, timer, calls, drawn, fetching>>

(* clearLocation: the button of the mobile forms beside a picked place.    *)
Unpicked == [place EXCEPT !.point = None, !.address = None, !.query = None]

MobileCreateClear == place' = Unpicked /\ shown' = None
MobileEditClear == place' = Unpicked /\ shown' = None

Clear ==
  /\ Input("clear")
  /\ IF Editing THEN MobileEditClear ELSE MobileCreateClear
  /\ picked' = None
  /\ Mishap(PointOverlap)
  /\ UNCHANGED <<searching, timer, calls, drawn, fetching>>

(* setLocationType of the create forms and of the mobile edit form resets  *)
(* what belongs to the mode left, that of the web edit form everything.    *)
SwitchedKeepingAddress(type) ==
  IF type = "ROUTE"
  THEN [place EXCEPT !.type = type, !.point = None, !.query = None]
  ELSE [place EXCEPT !.type = type, !.route = <<>>]

Switched(type) ==
  IF type = "ROUTE" THEN [Unpicked EXCEPT !.type = type]
  ELSE [place EXCEPT !.type = type, !.route = <<>>]

WebCreateSwitched(type) == Switched(type)
MobileCreateSwitched(type) == Switched(type)
MobileEditSwitched(type) == Switched(type)

WebEditSwitched(type) ==
  [Unpicked EXCEPT !.type = type, !.route = IF type = "ROUTE" THEN @ ELSE <<>>]

SwitchedHere(type) ==
  IF Web THEN IF Editing THEN WebEditSwitched(type) ELSE WebCreateSwitched(type)
  ELSE IF Editing THEN MobileEditSwitched(type) ELSE MobileCreateSwitched(type)

SwitchType ==
  /\ Input("switch")
  /\ \E type \in {"POINT", "ROUTE"} \ {place.type} :
       LET next == SwitchedHere(type) IN
       /\ place' = next
       /\ RouteDrawn(next.route)
       /\ picked' = next.point
  /\ shown' = None
  /\ Mishap(PointOverlap \union RouteOverlap)
  /\ UNCHANGED <<searching, timer, calls>>

(* The web edit form lets the host write the address of a route, in words  *)
(* of its own, for which the places stand, or none.                        *)
NameRoute ==
  /\ Input("address")
  /\ \E address \in Place \union {None} :
       place' = [place EXCEPT !.address = address] /\ picked' = address
  /\ UNCHANGED <<shown, searching, timer, calls, drawn, fetching, mishaps>>

(* setPointFromCoordinate of the app, without a name for the tap itself    *)
(* and with it when it comes.                                              *)
PointAt(p, label) ==
  [place EXCEPT !.point = p, !.address = IF label = None THEN @ ELSE label,
                !.query = IF label = None THEN @ ELSE label]

MobileCreatePoint(p, label) == place' = PointAt(p, label) /\ shown' = None
MobileEditPoint(p, label) == place' = PointAt(p, label) /\ UNCHANGED shown

MobilePoint(p, label) ==
  IF Editing THEN MobileEditPoint(p, label) ELSE MobileCreatePoint(p, label)

(* The map of a POINT event: the app takes the coordinates at once and the *)
(* name when it comes, the page takes both when the name comes.            *)
MobileTap(p) == MobilePoint(p, None)
WebTap(p) == UNCHANGED <<place, shown>>

TapMap ==
  /\ Input("tap")
  /\ \E p \in Place :
       /\ IF Mobile THEN MobileTap(p) ELSE WebTap(p)
       /\ calls' = calls \union {[what |-> "point", at |-> p, index |-> 0]}
       /\ picked' = p
  /\ Mishap(PointOverlap)
  /\ UNCHANGED <<searching, timer, drawn, fetching>>

(* Without a name the app does nothing and the page writes the coordinates *)
(* out.                                                                    *)
MobileNamed(p, named) ==
  IF named THEN MobilePoint(p, p) /\ UNCHANGED mishaps
  ELSE Mishap({"unnamed"}) /\ UNCHANGED <<place, shown>>

WebNamed(p) ==
  /\ IF Editing THEN WebEditPick(p) ELSE WebCreatePick(p)
  /\ UNCHANGED mishaps

PointNamed ==
  \E c \in calls : \E named \in BOOLEAN :
    /\ c.what = "point"
    /\ calls' = calls \ {c}
    /\ IF Mobile THEN MobileNamed(c.at, named) ELSE WebNamed(c.at)
    /\ UNCHANGED <<screen, searching, timer, drawn, fetching, sent, inputs, picked>>

----------------------------------------------------------------------------
(* The way points of a ROUTE event.                                        *)

RouteFull == Len(place.route) >= MaxRoute

Routed(route) == place' = [place EXCEPT !.route = route] /\ RouteDrawn(route)

(* A tap adds the point and asks for the name of the one with that index,  *)
(* with a full route too.                                                  *)
WebRouteTapped(p) ==
  IF RouteFull THEN place.route ELSE Append(place.route, [at |-> p, label |-> None])

MobileRouteTapped(p) ==
  IF RouteFull THEN place.route ELSE Append(place.route, [at |-> p, label |-> None])

RouteTap ==
  /\ Input("waypoint")
  /\ \E p \in Place :
       /\ Routed(IF Web THEN WebRouteTapped(p) ELSE MobileRouteTapped(p))
       /\ calls' = calls \union {[what |-> "route", at |-> p, index |-> Len(place.route) + 1]}
  /\ UNCHANGED <<shown, searching, timer, picked, mishaps>>

(* updateRoutePointLabel: an index out of range is ignored.                *)
Labelled(index, label) ==
  IF index \in DOMAIN place.route THEN [place EXCEPT !.route[index].label = label] ELSE place

RouteNamed ==
  \E c \in calls : \E named \in BOOLEAN :
    /\ c.what = "route"
    /\ calls' = calls \ {c}
    /\ place' = IF named THEN Labelled(c.index, c.at) ELSE place
    /\ UNCHANGED <<screen, shown, searching, timer, drawn, fetching, sent, inputs, picked, mishaps>>

(* addRoutePointFromSuggestion: the mobile edit form empties the text also *)
(* when the route is full.                                                 *)
Suggested(p) == Append(place.route, [at |-> p, label |-> p])
WithPoint(p) == [place EXCEPT !.route = Suggested(p), !.query = None]

WebCreateSuggested(p) == IF RouteFull THEN place ELSE WithPoint(p)
WebEditSuggested(p) == IF RouteFull THEN place ELSE WithPoint(p)
MobileCreateSuggested(p) == IF RouteFull THEN place ELSE WithPoint(p)
MobileEditSuggested(p) == IF RouteFull THEN [place EXCEPT !.query = None] ELSE WithPoint(p)

RouteSuggestion ==
  /\ Input("suggest")
  /\ LET next == IF Web THEN IF Editing THEN WebEditSuggested(shown) ELSE WebCreateSuggested(shown)
                 ELSE IF Editing THEN MobileEditSuggested(shown) ELSE MobileCreateSuggested(shown) IN
     place' = next /\ RouteDrawn(next.route)
  /\ shown' = None
  /\ UNCHANGED <<searching, timer, calls, picked, mishaps>>

(* The buttons of a row remove it or move it one up or down; the first     *)
(* cannot go up, the last not down.                                        *)
Shorter(route) == { RemoveAt(route, i) : i \in DOMAIN route }
Moved(route) ==
  { [route EXCEPT ![i] = route[i + 1], ![i + 1] = route[i]] : i \in 1 .. Len(route) - 1 }

WebCreateRows(route) == Shorter(route) \union Moved(route)
WebEditRows(route) == Shorter(route) \union Moved(route)
MobileCreateRows(route) == Shorter(route) \union Moved(route)
MobileEditRows(route) == Shorter(route) \union Moved(route)

Rows(route) ==
  IF Web THEN IF Editing THEN WebEditRows(route) ELSE WebCreateRows(route)
  ELSE IF Editing THEN MobileEditRows(route) ELSE MobileCreateRows(route)

RouteRows ==
  /\ Input("rows")
  /\ \E route \in Rows(place.route) : Routed(route)
  /\ Mishap(RouteOverlap)
  /\ UNCHANGED <<shown, searching, timer, calls, picked>>

(* The road geometry: an answer for points that were changed is dropped;   *)
(* without one the app falls back to straight lines, the page keeps what   *)
(* it drew before.                                                         *)
MobileDrawn(found) == IF found THEN fetching ELSE None
WebDrawn(found) == IF found THEN fetching ELSE drawn

GeometryFetched ==
  /\ fetching # None
  /\ \E found \in BOOLEAN :
       /\ drawn' = IF Mobile THEN MobileDrawn(found) ELSE WebDrawn(found)
       /\ Mishap(IF found THEN {} ELSE {"unrouted"})
  /\ fetching' = None
  /\ UNCHANGED <<screen, place, shown, searching, timer, calls, sent, inputs, picked>>

----------------------------------------------------------------------------
(* The request.                                                            *)

WebPlaceValid ==
  IF place.type = "ROUTE" THEN Len(place.route) >= RouteMin ELSE place.point # None

MobilePlaceValid ==
  IF place.type = "ROUTE" THEN Len(place.route) \in RouteMin .. MaxRoute ELSE place.point # None

(* The web create form derives the address of a route, the others only     *)
(* when the form has none: the edit forms keep the one that was stored,    *)
(* whatever became of the way points.                                      *)
Part(routeAddress) ==
  [type |-> place.type,
   point |-> IF place.type = "POINT" THEN place.point ELSE None,
   address |-> IF place.type = "ROUTE" THEN routeAddress ELSE place.address,
   route |-> IF place.type = "ROUTE" THEN Points(place.route) ELSE <<>>]

OwnAddress == IF place.address = None THEN Derived(place.route) ELSE place.address

WebCreatePart == Part(Derived(place.route))
WebEditPart == Part(OwnAddress)
MobileCreatePart == Part(OwnAddress)
MobileEditPart == Part(OwnAddress)

PlacePart ==
  IF Web THEN IF Editing THEN WebEditPart ELSE WebCreatePart
  ELSE IF Editing THEN MobileEditPart ELSE MobileCreatePart

Submit ==
  /\ sent = None
  /\ IF Web THEN WebPlaceValid ELSE MobilePlaceValid
  /\ sent' = PlacePart
  /\ Mishap(PointOverlap)
  /\ UNCHANGED <<screen, place, shown, searching, timer, calls, drawn, fetching, inputs, picked>>

Next == Type \/ Debounced \/ Searched \/ Select \/ Clear \/ SwitchType \/ NameRoute \/ TapMap \/ PointNamed
        \/ RouteTap \/ RouteNamed \/ RouteSuggestion \/ RouteRows
        \/ GeometryFetched \/ Submit

Spec == Init /\ [][Next]_vars

----------------------------------------------------------------------------
(* Properties.                                                             *)

(* The type invariant of the form and of its outstanding calls.            *)
TypeOK ==
  /\ screen \in [client : {"web", "mobile"}, kind : {"create", "edit"}]
  /\ place.type \in {"POINT", "ROUTE"}
  /\ place.point \in Place \union {None}
  /\ place.address \in Address /\ place.query \in Address
  /\ Len(place.route) \in 0 .. MaxRoute
  /\ \A i \in DOMAIN place.route : place.route[i] \in WayPoint
  /\ shown \in Place \union {None} /\ timer \in Place \union {None}
  /\ searching \in BOOLEAN
  /\ calls \subseteq Search \union Naming
  /\ inputs \in 0 .. MaxInput
  /\ picked \in Address
  /\ mishaps \subseteq {"overlap", "shuffle", "unnamed", "unrouted"}

(* The place on the form is the one the host picked last - by a            *)
(* suggestion, by the map, by clearing or by typing over it - as soon as   *)
(* no map tap waits for its name, unless the host went on while one did:   *)
(* the late name of an older tap moves the pin back to it.  A route keeps  *)
(* the address it was given.                                               *)
PickIsKept ==
  "overlap" \notin mishaps /\ ~NamingPoint =>
    IF place.type = "POINT" THEN place.point = picked ELSE place.address = picked

(* A label names the point it stands at: handleMapClick and handleMapPress *)
(* remember an index, which is right however many taps wait for names,     *)
(* unless rows were moved or removed or the mode was left meanwhile.       *)
LabelNamesItsPoint ==
  "shuffle" \notin mishaps =>
    \A i \in DOMAIN place.route : place.route[i].label \in {None, place.route[i].at}

(* What is sent is one place: the address of a POINT is that of its        *)
(* coordinates, and the address of a ROUTE names the ends of the route     *)
(* that is sent, although the labels it is made of come late and the rows  *)
(* move.  Left out, besides rows that moved under a name that was awaited: *)
(* a host who went on or submitted before the name of a tap came, and a    *)
(* name that never came: the app then sends new coordinates with the old   *)
(* address.  The edit forms do not promise as much: an address the route   *)
(* was stored with, or was given on the form, is sent as it is, though the *)
(* way points may have become others.                                      *)
RequestNamesOnePlace ==
  sent # None /\ mishaps \intersect {"overlap", "unnamed"} = {} =>
    /\ sent.type = "POINT" => sent.address = sent.point
    /\ sent.type = "ROUTE" /\ Editing /\ picked # None => sent.address = picked
    /\ sent.type = "ROUTE" /\ ~(Editing /\ picked # None) /\ "shuffle" \notin mishaps =>
         sent.address = <<sent.route[1], sent.route[Len(sent.route)]>>

(* The line on the map runs through the way points as they are, once       *)
(* nothing is being fetched, unless a fetch failed on the page, which then *)
(* keeps the line of the points before.                                    *)
DrawnRouteIsCurrent ==
  fetching = None /\ ("unrouted" \in mishaps => Mobile) =>
    drawn \in {None, Points(place.route)}

(* The spinner of the search only turns while a search is under way.       *)
SpinnerStops == searching => \E c \in calls : c.what = "search"
=============================================================================
