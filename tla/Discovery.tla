------------------------------ MODULE Discovery ------------------------------
(***************************************************************************)
(* The list of events near a place, the first screen of both clients: the  *)
(* search box, the filters, the choice of the place in the picker and on   *)
(* the map, and the pages of the list.  The place is resolved from the     *)
(* device and the profile while the user already chooses, the app reloads  *)
(* whatever its effects depend on, and answers come in any order or not.   *)
(***************************************************************************)
EXTENDS Naturals, Sequences, SequencesExt

CONSTANTS Favorite, Spot, Tap, \* places: saved, found by a search, touched on the map
          None,
          Pages,       \* how many pages the server has for a query
          Foci,        \* bound: which parts of the screen are used together
          MaxInput,    \* bound: what the user does
          MaxCalls,    \* bound: list calls without an answer
          MaxLost      \* bound: calls that fail

Home == "profile"    \* default_location_* of the profile
Here == "device"     \* what the device or the browser reports
Fallback == "besiktas"
Part == {"text", "filters", "picker", "map", "pages", "session"}
Place == {Home, Here, Fallback} \union Favorite \union Spot \union Tap

ASSUME DiscoveryAssumption ==
  /\ None \notin Place /\ Foci \subseteq SUBSET Part /\ Pages \in Nat \ {0} /\ {MaxInput, MaxCalls, MaxLost} \subseteq Nat
  /\ Tap \intersect (Favorite \union Spot) = {}

VARIABLES
  client,    \* "web" or "mobile", never changes
  restored,  \* the page came back to a stored session, web only, never changes
  focus,     \* the parts of the screen that are used, never changes (a bound)
  search,    \* the box, appliedSearchText or debouncedQ, and the timer between
  filters,   \* appliedFilters, filters
  sheet,     \* filterDraft while the sheet is open, None
  places,    \* the selected, default, stored and browser location
  ready,     \* isLocationContextReady, locationReady
  resolving, \* runs of resolveDefaultLocation, of the location effect
  picker,    \* the location picker: its choice, its text search, and the places
             \* touched on the map since, or without a name then (a record)
  taps,      \* places touched on the map that wait for their name
  locating,  \* browserLocationRequestPending
  delay,     \* the 300 ms before the app loads the list
  calls,     \* list calls without an answer, oldest first
  list,      \* the events shown, the cursor and the flags
  inputs, lost

setting == <<client, restored, focus>>
form == <<search, filters, places, ready>>
work == <<resolving, delay, calls, list>>
vars == <<setting, form, sheet, picker, taps, locating, work, inputs, lost>>

Web == client = "web"
Mobile == client = "mobile"

Short == "a"                      \* fewer than two characters
Text == {"", Short, "ab"}

(* A query takes the audience, the categories and the range of dates; a    *)
(* range is bad when it ends before it begins.                             *)
Filters == [child : BOOLEAN, category : BOOLEAN, range : {"any", "bad"}]
DefaultFilters == [child |-> FALSE, category |-> FALSE, range |-> "any"]

(* The first of the places that is known (the ?? of the code).             *)
Or(p, q) == IF p = None THEN q ELSE p

QueryOf(s, f, p) ==
  [text |-> s.applied, filters |-> f,
   at |-> Or(p.selected, IF Web THEN Fallback ELSE Or(p.default, Fallback))]

Query == QueryOf(search, filters, places)

-----------------------------------------------------------------------------
(* The pages of a query.  The last page holds an event that is under way;  *)
(* the app leaves such events out.                                         *)

Kept(q, n) == IF Mobile /\ n = Pages THEN <<>> ELSE <<[query |-> q, page |-> n]>>

KeptUpTo(q, n) ==
  [k \in 1 .. (IF Mobile /\ n = Pages THEN n - 1 ELSE n) |-> [query |-> q, page |-> k]]

NextPage(q, n) == IF n < Pages THEN [query |-> q, page |-> n + 1] ELSE None

(* The server refuses a range that ends before it begins, and a cursor     *)
(* made for other filters.                                                 *)
Accepts(c) == /\ c.query.filters.range # "bad"
              /\ c.cursor # None => c.cursor.query = c.query

Call(kind, query, cursor, late) == [kind |-> kind, query |-> query, cursor |-> cursor, late |-> late]

(* fetchEvents, loadMore and loadEvents up to their call.                 *)
WebStarted(kind, l) ==
  IF kind = "more" THEN [l EXCEPT !.more = TRUE] ELSE [l EXCEPT !.loading = TRUE, !.failed = FALSE]

MobileStarted(kind, l) ==
  IF kind = "more" THEN [l EXCEPT !.more = TRUE, !.failed = FALSE]
  ELSE [l EXCEPT !.loading = @ \/ kind = "first", !.refreshing = @ \/ kind = "refresh",
                 !.cursor = None, !.failed = FALSE]

Started(kind, l) == IF Web THEN WebStarted(kind, l) ELSE MobileStarted(kind, l)

(* Their finally; silentRefresh has no flag.                               *)
Ended(kind, l) ==
  CASE kind = "first" -> [l EXCEPT !.loading = FALSE]
    [] kind = "refresh" -> [l EXCEPT !.refreshing = FALSE]
    [] kind = "more" -> [l EXCEPT !.more = FALSE]
    [] kind = "silent" -> l

(* A marker whose event is no longer listed is deselected.                 *)
Unmarked(l) == IF l.marker \in ToSet(l.shown) THEN l ELSE [l EXCEPT !.marker = None]

Shows(l, c) ==
  LET page == IF c.kind = "more" THEN c.cursor.page ELSE 1
      kept == Kept(c.query, page)
  IN  Unmarked([l EXCEPT !.shown = IF c.kind = "more" THEN @ \o kept ELSE kept,
                         !.cursor = NextPage(c.query, page),
                         !.astray = IF c.kind = "more" THEN @ \/ c.late ELSE c.late])

-----------------------------------------------------------------------------
(* What the screen's effects do once its state has changed.  The page      *)
(* fetches at once, the app after a delay; the app's focus effect depends  *)
(* on silentRefresh, and so runs again with every new text and filter.     *)

Silent(s, f) == [kind |-> "silent", text |-> s.applied, filters |-> f, current |-> TRUE]

RefreshesOnReload(s, f, fresh) ==
  Mobile /\ (fresh \/ s.applied # search.applied \/ f # filters)

Refreshes(s, f, fresh) == Mobile /\ (s.applied # search.applied \/ f # filters)

ReloadsOnText(s, f, r, fresh) ==
  r /\ (fresh \/ ~ready \/ s.applied # search.applied)

Reloads(s, f, r, fresh) ==
  r /\ (fresh \/ ~ready \/ s.applied # search.applied \/ f # filters)

Render(s, f, p, r, fresh, runs, asked) ==
  /\ search' = s /\ filters' = f /\ places' = p /\ ready' = r
  /\ resolving' = IF Refreshes(s, f, fresh) THEN Append(runs, Silent(s, f)) ELSE runs
  /\ IF Web /\ Reloads(s, f, r, fresh)
     THEN /\ calls' = Append(calls, Call("first", QueryOf(s, f, p), None, FALSE))
          /\ list' = Started("first", list)
     ELSE calls' = calls \o asked /\ UNCHANGED list
  /\ delay' = (Mobile /\ r /\ (delay \/ Reloads(s, f, r, fresh)))

RenderSearch(s) == Render(s, filters, places, ready, FALSE, resolving, <<>>)
RenderFilters(f) == Render(search, f, places, ready, FALSE, resolving, <<>>)
RenderPlaces(p, fresh) == Render(search, filters, p, ready, fresh, resolving, <<>>)

-----------------------------------------------------------------------------
(* What is on the screen.  The picker and the app's filter sheet cover     *)
(* the rest of it.                                                         *)

Covered == picker.open \/ sheet # None

MobileTopOffers == {"text", "filters"}
MobileMapOffers == IF list.loading \/ list.failed THEN {} ELSE {"mark", "area"}
MobileListOffers == IF list.loading THEN {} ELSE {"more", "pull"}
MobilePickerOffers == IF picker.open THEN {"picker"} ELSE {}
MobileSheetOffers == IF sheet # None THEN {"sheet"} ELSE {}

WebTopOffers == {"text"}
WebFilterOffers == {"filters"}
WebMapOffers == {"area", "mark"}
WebListOffers ==
  (IF list.loading THEN {} ELSE {"more"}) \union (IF list.failed THEN {"retry"} ELSE {})
WebPickerOffers == IF picker.open THEN {"picker"} ELSE {}

Offers ==
  {"session"} \union
  IF Web
  THEN WebPickerOffers \union
       (IF Covered THEN {} ELSE WebTopOffers \union WebFilterOffers \union WebMapOffers \union WebListOffers)
  ELSE MobilePickerOffers \union MobileSheetOffers \union
       (IF Covered THEN {} ELSE MobileTopOffers \union MobileMapOffers \union MobileListOffers)

May(part, what) ==
  part \in focus /\ what \in Offers /\ inputs < MaxInput /\ Len(calls) < MaxCalls

Input(part, what) ==
  /\ May(part, what)
  /\ inputs' = inputs + 1
  /\ UNCHANGED <<setting, lost>>

-----------------------------------------------------------------------------
(* The search box.                                                         *)

MobileSearch(text) ==
  [search EXCEPT !.box = text,
                 !.applied = IF text = "" THEN "" ELSE @,
                 !.timer = IF text \in {"", Short} THEN "off" ELSE text]

WebSearch(text) == [search EXCEPT !.box = text, !.timer = text, !.stray = FALSE]

TypeText(text) ==
  /\ Input("text", "text")
  /\ RenderSearch(IF Web THEN WebSearch(text) ELSE MobileSearch(text))
  /\ UNCHANGED <<sheet, picker, taps, locating>>

SubmitSearch ==
  /\ Mobile /\ Input("text", "text")
  /\ RenderSearch([search EXCEPT !.applied = search.box, !.timer = "off"])
  /\ UNCHANGED <<sheet, picker, taps, locating>>

SearchTimer ==
  /\ search.timer # "off" /\ Len(calls) < MaxCalls
  /\ RenderSearch([search EXCEPT !.applied = search.timer, !.timer = "off"])
  /\ UNCHANGED <<setting, sheet, picker, taps, locating, inputs, lost>>

-----------------------------------------------------------------------------
(* The filters: on the page each one counts at once, in the app those of   *)
(* the sheet count when they are applied, the category chips at once.      *)

ChangedAudience(f) == [f EXCEPT !.child = ~@]

ChangedRange(f) == [f EXCEPT !.range = IF @ = "any" THEN "bad" ELSE "any"]

ToggledCategory(f) == [f EXCEPT !.category = ~@]

ToggleCategory ==
  /\ Input("filters", "filters")
  /\ RenderFilters(ToggledCategory(filters))
  /\ UNCHANGED <<sheet, picker, taps, locating>>

UpdateFilter ==
  /\ Web /\ Input("filters", "filters")
  /\ \E f \in {ChangedAudience(filters), ChangedRange(filters)} : RenderFilters(f)
  /\ UNCHANGED <<sheet, picker, taps, locating>>

(* clearFilters leaves the timer of the search running.                    *)
ClearFilters ==
  /\ Web /\ filters # DefaultFilters /\ Input("filters", "filters")
  /\ LET place == Or(places.default, places.browser) IN
     Render([search EXCEPT !.box = "", !.applied = "", !.stray = search.timer # "off"],
            DefaultFilters, [places EXCEPT !.selected = place], ready,
            place # places.selected, resolving, <<>>)
  /\ picker' = [picker EXCEPT !.found = FALSE]
  /\ UNCHANGED <<sheet, taps, locating>>

(* The sheet opens with a copy; a reset fills in the defaults, and a bad   *)
(* range keeps it open.                                                    *)
OpenSheet ==
  /\ Mobile /\ Input("filters", "filters")
  /\ sheet' = filters
  /\ UNCHANGED <<form, picker, taps, locating, work>>

EditSheet ==
  /\ Mobile /\ Input("filters", "sheet")
  /\ sheet' \in {ChangedAudience(sheet), ChangedRange(sheet), ToggledCategory(sheet), DefaultFilters}
  /\ UNCHANGED <<form, picker, taps, locating, work>>

ValidDates(f) == f.range # "bad"

ApplySheet ==
  /\ Mobile /\ Input("filters", "sheet")
  /\ IF ValidDates(sheet) THEN RenderFilters(sheet) /\ sheet' = None
     ELSE UNCHANGED <<form, work, sheet>>
  /\ UNCHANGED <<picker, taps, locating>>

CloseSheet ==
  /\ Mobile /\ Input("filters", "sheet")
  /\ sheet' = None
  /\ UNCHANGED <<form, picker, taps, locating, work>>

-----------------------------------------------------------------------------
(* The picker.                                                             *)

NoPicker == [open |-> FALSE, pending |-> None, timer |-> FALSE, lookups |-> 0, found |-> FALSE,
             touched |-> {}]

MobileOptions == {places.default} \union (IF picker.found THEN Spot ELSE Favorite)

WebOptions ==
  {places.default} \union (IF places.known THEN {places.browser} ELSE {})
  \union Favorite \union (IF picker.found THEN Spot ELSE {})

Options == (IF Web THEN WebOptions ELSE MobileOptions) \ {None}

(* The page asks the browser for the position instead while it may.  What  *)
(* is done in the picker counts, that it is opened does not.               *)
OpenPicker ==
  /\ May("picker", "text")
  /\ picker' = [picker EXCEPT !.open = TRUE, !.found = FALSE,
                              !.pending = IF Web THEN places.selected ELSE None]
  /\ UNCHANGED <<setting, form, sheet, taps, locating, work, inputs, lost>>

(* Less than two characters take the choice back; more start a search, of  *)
(* which a late answer shows in whatever the picker has become.            *)
TypePlace(long) ==
  /\ Input("picker", "picker")
  /\ picker' = IF long THEN [picker EXCEPT !.timer = TRUE]
               ELSE [picker EXCEPT !.timer = FALSE, !.pending = None, !.found = FALSE]
  /\ UNCHANGED <<form, sheet, taps, locating, work>>

PlaceTimer ==
  /\ picker.timer
  /\ picker' = [picker EXCEPT !.timer = FALSE, !.lookups = @ + 1]
  /\ UNCHANGED <<setting, form, sheet, taps, locating, work, inputs, lost>>

PlacesFound ==
  /\ picker.lookups > 0
  /\ \E some \in BOOLEAN : picker' = [picker EXCEPT !.lookups = @ - 1, !.found = some]
  /\ UNCHANGED <<setting, form, sheet, taps, locating, work, inputs, lost>>

(* The app stops the search timer in all of these, the page in none.       *)
Stopped == [picker EXCEPT !.timer = @ /\ Web, !.found = FALSE]

SelectPlace ==
  /\ Input("picker", "picker")
  /\ \E p \in Options : picker' = [Stopped EXCEPT !.pending = p]
  /\ UNCHANGED <<form, sheet, taps, locating, work>>

ResetPicker ==
  /\ Input("picker", "picker") /\ (Web => places.default # None)
  /\ picker' = [Stopped EXCEPT !.pending = IF Web THEN places.default ELSE None]
  /\ UNCHANGED <<form, sheet, taps, locating, work>>

ClosePicker ==
  /\ Input("picker", "picker")
  /\ picker' = [Stopped EXCEPT !.open = FALSE, !.pending = None]
  /\ UNCHANGED <<form, sheet, taps, locating, work>>

(* The app stores the choice unless it is the default place, which it      *)
(* then follows.                                                           *)
MobileChosen(p) ==
  [places EXCEPT !.selected = p, !.custom = IF p = places.default THEN None ELSE p]

WebChosen(p) == [places EXCEPT !.selected = p]

ApplyPlace ==
  /\ Input("picker", "picker") /\ (Mobile => picker.pending # None)
  /\ LET p == IF Web THEN Or(picker.pending, places.default) ELSE picker.pending IN
     RenderPlaces(IF Web THEN WebChosen(p) ELSE MobileChosen(p),
                  p # places.selected \/ (Mobile /\ p # places.default))
  /\ picker' = [picker EXCEPT !.open = FALSE, !.found = FALSE,
                              !.touched = {t.at : t \in ToSet(taps)}]
  /\ UNCHANGED <<sheet, taps, locating>>

-----------------------------------------------------------------------------
(* The map and the position of the browser.                                *)

(* The page moves to the touched place before it knows its name, the app   *)
(* once it does.                                                           *)
SearchArea(p) ==
  /\ Input("map", "area")
  /\ taps' = Append([i \in DOMAIN taps |-> [taps[i] EXCEPT !.latest = FALSE]],
                    [at |-> p, latest |-> TRUE])
  /\ picker' = [picker EXCEPT !.touched = @ \union {p}]
  /\ IF Web THEN RenderPlaces(WebChosen(p), TRUE) ELSE UNCHANGED <<form, work>>
  /\ UNCHANGED <<sheet, locating>>

NameArrives(i) ==
  /\ i \in DOMAIN taps /\ Len(calls) < MaxCalls
  /\ taps' = RemoveAt(taps, i)
  /\ IF Mobile \/ taps[i].latest
     THEN RenderPlaces([places EXCEPT !.selected = taps[i].at], TRUE)
     ELSE UNCHANGED <<form, work>>
  /\ picker' = IF Web THEN [picker EXCEPT !.open = FALSE, !.pending = None, !.found = FALSE]
               ELSE picker
  /\ UNCHANGED <<setting, sheet, locating, inputs, lost>>

RequestPosition ==
  /\ Web /\ ~locating /\ Input("map", "area")
  /\ locating' = TRUE
  /\ UNCHANGED <<form, sheet, picker, taps, work>>

PositionArrives ==
  /\ locating /\ Len(calls) < MaxCalls
  /\ locating' = FALSE
  /\ \/ RenderPlaces([places EXCEPT !.selected = Here, !.browser = Here, !.known = TRUE], TRUE)
     \/ UNCHANGED <<form, work>>
  /\ UNCHANGED <<setting, sheet, picker, taps, inputs, lost>>

-----------------------------------------------------------------------------
(* The place the screen starts from.                                       *)

Context == [kind |-> "context", text |-> "", filters |-> DefaultFilters, current |-> TRUE]

(* syncSelectedLocationWithDefault.                                        *)
Followed(found) == Or(places.custom, found)

(* resolveDefaultLocation: a place of the device or of the profile is a    *)
(* new object, whatever it was before.  silentRefresh goes on to its call, *)
(* with the filters it knew, and without those of the audience.            *)
MobileLocated(i) ==
  /\ Mobile /\ i \in DOMAIN resolving /\ Len(calls) < MaxCalls
  /\ \E found \in {Here, Home, Fallback} :
       LET run == resolving[i]
           p == [places EXCEPT !.default = found, !.selected = Followed(found)]
           r == ready \/ (run.kind = "context" /\ run.current)
           fresh == found # Fallback \/ p # places
           query == [text |-> run.text, filters |-> [run.filters EXCEPT !.child = FALSE],
                     at |-> Followed(found)]
       IN Render(search, filters, p, r, fresh, RemoveAt(resolving, i),
                 IF run.kind = "context" THEN <<>>
                 ELSE <<Call("silent", query, None, query # QueryOf(search, filters, p))>>)
  /\ UNCHANGED <<setting, sheet, picker, taps, locating, inputs, lost>>

(* The location effect of the page: first the profile, then the browser.   *)
WebProfileKnown ==
  /\ Web /\ resolving = <<"profile">> /\ Len(calls) < MaxCalls
  /\ \E home \in {Home, None} :
       Render(search, filters, [places EXCEPT !.default = home], ready, FALSE, <<"device">>, <<>>)
  /\ UNCHANGED <<setting, sheet, picker, taps, locating, inputs, lost>>

WebLocated ==
  /\ Web /\ resolving = <<"device">> /\ Len(calls) < MaxCalls
  /\ \E found \in {Here, None} :
       LET known == [places EXCEPT !.browser = Or(found, @), !.known = found = Here]
           p == IF restored THEN known ELSE [known EXCEPT !.selected = Or(found, places.default)]
       IN  Render(search, filters, p, TRUE, p.selected # places.selected \/ (~restored /\ found = Here),
                  <<>>, <<>>)
  /\ UNCHANGED <<setting, sheet, picker, taps, locating, inputs, lost>>

(* A renewed token starts all of it again.  The page reloads at once as    *)
(* well, and the app refreshes.                                            *)
WebRenewed ==
  /\ places' = [places EXCEPT !.known = FALSE]
  /\ ready' = restored /\ resolving' = <<"profile">>
  /\ IF ready THEN /\ calls' = Append(calls, Call("first", Query, None, FALSE))
                   /\ list' = Started("first", list)
     ELSE UNCHANGED <<calls, list>>
  /\ UNCHANGED <<search, filters, delay>>

MobileRenewed ==
  Render(search, filters, places, FALSE, FALSE,
         [i \in DOMAIN resolving |-> [resolving[i] EXCEPT !.current = FALSE]]
           \o <<Context, Silent(search, filters)>>, <<>>)

RenewToken ==
  /\ Input("session", "session") /\ Len(resolving) < MaxCalls
  /\ IF Web THEN WebRenewed ELSE MobileRenewed
  /\ UNCHANGED <<sheet, picker, taps, locating>>

(* The screen comes back into view.                                        *)
ComeBack ==
  /\ Mobile /\ Input("session", "session") /\ Len(resolving) < MaxCalls
  /\ resolving' = Append(resolving, Silent(search, filters))
  /\ UNCHANGED <<form, sheet, picker, taps, locating, delay, calls, list>>

-----------------------------------------------------------------------------
(* The pages of the list.                                                  *)

Ask(kind) ==
  /\ list' = Started(kind, list)
  /\ calls' = Append(calls, Call(kind, Query, IF kind = "more" THEN list.cursor ELSE None, FALSE))

DelayOver ==
  /\ delay /\ Len(calls) < MaxCalls
  /\ delay' = FALSE
  /\ Ask("first")
  /\ UNCHANGED <<setting, form, sheet, picker, taps, locating, resolving, inputs, lost>>

Pull ==
  /\ \/ Mobile /\ Input("pages", "pull") /\ Ask("refresh")
     \/ Web /\ Input("pages", "retry") /\ Ask("first")
  /\ UNCHANGED <<form, sheet, picker, taps, locating, resolving, delay>>

LoadMore ==
  /\ list.cursor # None /\ ~list.more /\ (Mobile => ~list.refreshing)
  /\ Input("pages", "more")
  /\ Ask("more")
  /\ UNCHANGED <<form, sheet, picker, taps, locating, resolving, delay>>

(* In the app a change of the map's region may draw the marked event into  *)
(* a cluster, which deselects it, as a touch on a cluster does.            *)
MoveMap ==
  /\ Mobile /\ list.marker # None /\ Input("pages", "mark")
  /\ list' = [list EXCEPT !.marker = None]
  /\ UNCHANGED <<form, sheet, picker, taps, locating, resolving, delay, calls>>

Mark ==
  /\ Input("pages", "mark")
  /\ \E item \in ToSet(list.shown) \union {None} : list' = [list EXCEPT !.marker = item]
  /\ UNCHANGED <<form, sheet, picker, taps, locating, resolving, delay, calls>>

(* An answer that shows a first page overtakes the calls made before it,   *)
(* and every page that was asked for the list it replaces.                 *)
Overtaken(i) ==
  [j \in DOMAIN calls |-> [calls[j] EXCEPT !.late = @ \/ j < i \/ calls[j].kind = "more"]]

Answered(i) ==
  LET c == calls[i] IN
  /\ list' = Shows(Ended(c.kind, list), c)
  /\ calls' = RemoveAt(IF c.kind = "more" THEN calls ELSE Overtaken(i), i)

(* So does a reload that fails, but for those pages.                       *)
Outdated(i) ==
  [j \in DOMAIN calls |-> [calls[j] EXCEPT !.late = @ \/ (j < i /\ calls[j].kind # "more")]]

(* A silent refresh fails silently, and so does a page the web could not   *)
(* ask for.                                                                *)
Failed(i, refused) ==
  LET c == calls[i] IN
  /\ list' = [Ended(c.kind, list) EXCEPT
                !.failed = @ \/ ~(c.kind = "silent" \/ (Web /\ c.kind = "more" /\ ~refused))]
  /\ calls' = RemoveAt(IF c.kind \in {"first", "refresh"} THEN Outdated(i) ELSE calls, i)

Answer(i) ==
  /\ i \in DOMAIN calls
  /\ IF Accepts(calls[i]) THEN Answered(i) ELSE Failed(i, TRUE)
  /\ UNCHANGED <<setting, form, sheet, picker, taps, locating, resolving, delay, inputs, lost>>

Lose(i) ==
  /\ i \in DOMAIN calls /\ lost < MaxLost
  /\ lost' = lost + 1
  /\ Failed(i, FALSE)
  /\ UNCHANGED <<setting, form, sheet, picker, taps, locating, resolving, delay, inputs>>

-----------------------------------------------------------------------------
EmptyList == [shown |-> <<>>, cursor |-> None, loading |-> FALSE, more |-> FALSE,
              refreshing |-> FALSE, failed |-> FALSE, astray |-> FALSE, marker |-> None]

Unknown == [selected |-> None, default |-> None, custom |-> None, browser |-> None, known |-> FALSE]

(* The app keeps the stored place for as long as it runs.                  *)
MobileInit ==
  /\ restored = FALSE /\ search = [box |-> "", applied |-> "", timer |-> "off", stray |-> FALSE]
  /\ filters = DefaultFilters
  /\ \E p \in Favorite \union {None} : places = [Unknown EXCEPT !.selected = p, !.custom = p]
  /\ ready = FALSE /\ resolving = <<Context>>
  /\ calls = <<>> /\ list = [EmptyList EXCEPT !.loading = TRUE]

(* A stored session may hold a text that never was searched for.           *)
WebInit ==
  /\ restored \in BOOLEAN /\ ready = restored /\ resolving = <<"profile">>
  /\ \E text \in {"", "ab"}, p \in Favorite \union {None} :
       /\ ~restored => text = "" /\ p = None
       /\ search = [box |-> text, applied |-> "", timer |-> "off", stray |-> text # ""]
       /\ places = [Unknown EXCEPT !.selected = p]
  /\ filters = DefaultFilters
  /\ calls = IF ready THEN <<Call("first", Query, None, FALSE)>> ELSE <<>>
  /\ list = [EmptyList EXCEPT !.loading = ready]

Init ==
  /\ client \in {"web", "mobile"} /\ focus \in Foci
  /\ IF Web THEN WebInit ELSE MobileInit
  /\ sheet = None /\ picker = NoPicker /\ taps = <<>> /\ locating = FALSE /\ delay = FALSE
  /\ inputs = 0 /\ lost = 0

User ==
  \/ \E text \in Text : TypeText(text)
  \/ SubmitSearch \/ ToggleCategory \/ UpdateFilter \/ ClearFilters
  \/ OpenSheet \/ EditSheet \/ ApplySheet \/ CloseSheet
  \/ OpenPicker \/ (\E long \in BOOLEAN : TypePlace(long)) \/ SelectPlace \/ ResetPicker
  \/ ClosePicker \/ ApplyPlace
  \/ (\E p \in Tap : SearchArea(p)) \/ RequestPosition
  \/ RenewToken \/ ComeBack \/ Pull \/ LoadMore \/ Mark \/ MoveMap

System ==
  \/ SearchTimer \/ PlaceTimer \/ PlacesFound \/ PositionArrives \/ WebProfileKnown \/ WebLocated
  \/ DelayOver
  \/ \E i \in DOMAIN taps : NameArrives(i)
  \/ \E i \in DOMAIN resolving : MobileLocated(i)
  \/ \E i \in DOMAIN calls : Answer(i) \/ Lose(i)

Next == User \/ System

(* Timers run out and every call ends, with an answer or an error.         *)
Spec == Init /\ [][Next]_vars /\ WF_vars(System)

-----------------------------------------------------------------------------
TypeOK ==
  /\ search \in [box : Text, applied : Text, timer : Text \union {"off"}, stray : BOOLEAN]
  /\ filters \in Filters /\ sheet \in Filters \union {None}
  /\ DOMAIN places = {"selected", "default", "custom", "browser", "known"}
  /\ {places.selected, places.default, places.custom, places.browser} \subseteq Place \union {None}
  /\ picker.pending \in Place \union {None} /\ picker.lookups \in Nat
  /\ Len(calls) <= MaxCalls + 1 /\ inputs \in 0 .. MaxInput /\ lost \in 0 .. MaxLost

(* The text the box asks for: the app does not search for a short one.     *)
TextAskedFor ==
  IF Mobile /\ search.box = Short THEN search.applied ELSE search.box

AskedFor == [Query EXCEPT !.text = TextAskedFor]

Quiet == search.timer = "off" /\ ~delay /\ ready /\ resolving = <<>> /\ calls = <<>>

(* Once nothing is pending the list holds the first pages of what the box, *)
(* the filters and the place on the screen ask for, one after the other,   *)
(* its cursor continues them, and the marked event is one of them.  Left   *)
(* out: a list that shows an error, one whose last answer came after that  *)
(* of a later reload, or after its failure, or from a refresh with other   *)
(* filters, and a text whose timer the page cleared the filters under.     *)
ListAnswersForm ==
  /\ TypeOK
  /\ list.marker # None => list.marker \in ToSet(list.shown)
  /\ (Quiet /\ ~list.failed /\ ~list.astray /\ ~search.stray) =>
       \E n \in 1 .. Pages : /\ list.shown = KeptUpTo(AskedFor, n)
                             /\ list.cursor = NextPage(AskedFor, n)

(* A place chosen in the app's picker stays selected through refreshes,    *)
(* renewed tokens and whatever the device reports later, until the user    *)
(* chooses another or touches another part of the map.  Only a place that  *)
(* was touched before the choice and got its name after it takes its turn  *)
(* too: searchMapArea does not ask what was chosen meanwhile.              *)
PickedPlaceIsKept ==
  places.custom # None => places.selected \in {places.custom} \union picker.touched

(* The list and the place are the ones that were asked for last.           *)
ScreenShowsWhatWasAsked == ListAnswersForm /\ PickedPlaceIsKept

(* The screen comes to rest: no refresh starts itself again, and nothing   *)
(* keeps spinning.                                                         *)
ListSettles ==
  <>[](Quiet /\ ~list.loading /\ ~list.more /\ ~list.refreshing)
=============================================================================
