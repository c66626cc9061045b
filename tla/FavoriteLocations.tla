-------------------------- MODULE FavoriteLocations --------------------------
(***************************************************************************)
(* The places a user has saved: the list, and the window in which a place  *)
(* is searched, picked, named and added to it.  The user may also change   *)
(* the places elsewhere, on another device.                                *)
(***************************************************************************)
EXTENDS Exchange

CONSTANTS MaxFavorites,     \* MAX_FAVORITE_LOCATIONS: places a user may save
          NumFavorites,     \* bound: places the server ever saves
          MaxFavoriteActs   \* bound: readings, additions and removals

ASSUME FavoriteAssumption == {MaxFavorites, NumFavorites, MaxFavoriteActs} \subseteq Nat

VARIABLES
  favorites,  \* the server: saved places, how many ever were, changes elsewhere
  tab,        \* the list with isLoading, isRefreshing, apiError, removingLocationId
  adding,     \* the window: isAddModalOpen and what is in it
  favActs,    \* readings, additions, removals and changes elsewhere so far
  favMemory   \* what the properties remember

favoriteVars == <<favorites, tab, adding, favActs, favMemory>>

Favorite == 1 .. NumFavorites
ListingFavorites == {"load", "refresh", "sync", "again"}
ChangingFavorites == {"add", "remove"}

Copies(ids) == [f \in Favorite |-> IF f \in ids THEN 1 ELSE 0]
\* A place may be listed more than once.
Listed == Cardinality(UNION {{f} \X (1 .. tab.shown[f]) : f \in Favorite})

(* A call knows how many changes were asked for before it, and whether any *)
(* other reading or change was under way.                                  *)
FavoriteCall(op, f, others) ==
  [op |-> op, id |-> f, acts |-> favMemory.acts,
   alone |-> \A c \in others : c.op = "search"]

OtherCalls(i) == Range(sent) \cup {answers[j].call : j \in DOMAIN answers \ {i}}

FavoriteAct == favActs < MaxFavoriteActs /\ Bounded /\ favActs' = favActs + 1
OneMoreChange == favMemory' = [favMemory EXCEPT !.acts = @ + 1]

-----------------------------------------------------------------------------
(* What the screens let the user do.                                       *)

\* Mobile's tab is replaced by a spinner while it loads, its window too; the window
\* lies over the tab.
MobileTabShown == ~tab.loading /\ ~adding.open
MobileWindowShown == ~tab.loading /\ adding.open

\* A card asks once more before it removes; one removal at a time.
MobileRemovable == {f \in Favorite : MobileTabShown /\ tab.shown[f] > 0 /\ tab.removing = 0}

\* The web's list is hidden by a failure, its button for adding is not.
WebRemovable ==
  {f \in Favorite : /\ ~tab.loading /\ ~tab.failed /\ ~adding.open
                    /\ tab.shown[f] > 0 /\ tab.removing # f}

Removable == IF Web THEN WebRemovable ELSE MobileRemovable
MayAdd == Listed < MaxFavorites /\ IF Web THEN ~adding.open ELSE MobileTabShown

\* The web's inputs are disabled while a place is being saved, its suggestions are not.
WindowShown == IF Web THEN adding.open ELSE MobileWindowShown
Typable == WindowShown /\ (Web => ~adding.saving)
Pickable == WindowShown /\ adding.offered /\ (Mobile => ~adding.picked)
Savable == WindowShown /\ adding.named /\ adding.picked /\ ~adding.saving

-----------------------------------------------------------------------------
(* Reading: when the tab is opened, whenever the access token is renewed,  *)
(* and by the user; mobile's refresh keeps the list on the screen.         *)
LoadFavorites ==
  /\ FavoriteAct
  /\ tab' = [tab EXCEPT !.loading = TRUE, !.failed = FALSE]
  /\ Send(<<FavoriteCall("load", 0, Calls)>>)
  /\ UNCHANGED <<favorites, adding, favMemory>>

RefreshFavorites ==
  /\ FavoriteAct /\ Mobile /\ MobileTabShown /\ ~tab.refreshing
  /\ tab' = [tab EXCEPT !.refreshing = TRUE, !.failed = FALSE]
  /\ Send(<<FavoriteCall("refresh", 0, Calls)>>)
  /\ UNCHANGED <<favorites, adding, favMemory>>

-----------------------------------------------------------------------------
(* The window.                                                             *)

EmptyWindow ==
  [open |-> FALSE, named |-> FALSE, picked |-> FALSE, offered |-> FALSE, timer |-> FALSE,
   saving |-> FALSE]

\* resetAddForm: a place that is being saved goes on.
ResetWindow == [EmptyWindow EXCEPT !.saving = adding.saving]

OpenAdding ==
  /\ MayAdd
  /\ adding' = [ResetWindow EXCEPT !.open = TRUE]
  /\ UNCHANGED <<favorites, tab, favActs, favMemory, exchange>>

(* The web keeps the fields until the window is opened again.              *)
CloseWindowOf(w) ==
  IF Web THEN [w EXCEPT !.open = FALSE, !.timer = FALSE]
  ELSE [EmptyWindow EXCEPT !.saving = w.saving]

CloseAdding ==
  /\ WindowShown
  /\ adding' = CloseWindowOf(adding)
  /\ UNCHANGED <<favorites, tab, favActs, favMemory, exchange>>

NameFavorite ==
  /\ Typable
  /\ \E b \in BOOLEAN : adding' = [adding EXCEPT !.named = b]
  /\ UNCHANGED <<favorites, tab, favActs, favMemory, exchange>>

(* Typing takes back the place that was picked; from two characters on a   *)
(* search follows 300 ms after the last one.                               *)
TypeFavorite ==
  /\ Typable
  /\ \E enough \in BOOLEAN :
       adding' = [adding EXCEPT !.picked = FALSE, !.timer = enough, !.offered = @ /\ enough]
  /\ UNCHANGED <<favorites, tab, favActs, favMemory, exchange>>

SearchTimerFires ==
  /\ adding.timer /\ Bounded
  /\ adding' = [adding EXCEPT !.timer = FALSE]
  /\ Send(<<FavoriteCall("search", 0, {})>>)
  /\ UNCHANGED <<favorites, tab, favActs, favMemory>>

PickFavorite ==
  /\ Pickable
  /\ adding' = [adding EXCEPT !.picked = TRUE, !.offered = FALSE]
  /\ UNCHANGED <<favorites, tab, favActs, favMemory, exchange>>

(* Mobile refuses a place beyond the limit itself.                         *)
SubmitFavorite ==
  /\ FavoriteAct /\ Savable
  /\ Mobile => Listed < MaxFavorites
  /\ adding' = [adding EXCEPT !.saving = TRUE]
  /\ OneMoreChange
  /\ Send(<<FavoriteCall("add", 0, Calls)>>)
  /\ UNCHANGED <<favorites, tab>>

RemoveFavorite(f) ==
  /\ FavoriteAct /\ f \in Removable
  /\ tab' = [tab EXCEPT !.removing = f, !.failed = @ /\ Web]
  /\ OneMoreChange
  /\ Send(<<FavoriteCall("remove", f, Calls)>>)
  /\ UNCHANGED <<favorites, adding>>

-----------------------------------------------------------------------------
(* The server.                                                             *)

FavoriteDone(i, ok, f) ==
  Executed(i, [call |-> sent[i], ok |-> ok, id |-> f, ids |-> favorites'.ids,
               others |-> favorites'.others])

ListFavorites(i) ==
  /\ sent[i].op \in ListingFavorites \cup {"search"}
  /\ UNCHANGED favorites
  /\ FavoriteDone(i, TRUE, 0)
  /\ UNCHANGED <<tab, adding, favActs, favMemory>>

(* The row of the user is locked while the places are counted.             *)
CreateFavorite(i) ==
  LET f == favorites.made + 1
      fits == Cardinality(favorites.ids) < MaxFavorites
  IN  /\ sent[i].op = "add"
      /\ fits => f \in Favorite
      /\ favorites' = IF fits THEN [favorites EXCEPT !.ids = @ \cup {f}, !.made = f] ELSE favorites
      /\ FavoriteDone(i, fits, f)
      /\ UNCHANGED <<tab, adding, favActs, favMemory>>

DeleteFavorite(i) ==
  LET f == sent[i].id
  IN  /\ sent[i].op = "remove"
      /\ favorites' = [favorites EXCEPT !.ids = @ \ {f}]
      /\ FavoriteDone(i, f \in favorites.ids, f)
      /\ UNCHANGED <<tab, adding, favActs, favMemory>>

FavoritesChangeElsewhere ==
  /\ favActs < MaxFavoriteActs /\ favActs' = favActs + 1
  /\ \/ \E f \in favorites.ids :
          favorites' = [favorites EXCEPT !.ids = @ \ {f}, !.others = @ + 1]
     \/ /\ Cardinality(favorites.ids) < MaxFavorites /\ favorites.made < NumFavorites
        /\ favorites' = [ids |-> favorites.ids \cup {favorites.made + 1},
                         made |-> favorites.made + 1, others |-> favorites.others + 1]
  /\ UNCHANGED <<tab, adding, favMemory, exchange>>

-----------------------------------------------------------------------------
(* Answers.                                                                *)

(* A reading ends, also one that follows an addition or a removal: mobile  *)
(* reads again what the server refuses to add or does not know, the web    *)
(* what was added.  A first reading that fails empties mobile's list.      *)
TabAfter(c, ok, ids) ==
  LET removal == c.op = "sync" /\ c.id # 0
  IN  [tab EXCEPT
        !.shown = IF ok THEN Copies(ids) ELSE IF Mobile /\ c.op = "load" THEN Copies({}) ELSE @,
        !.loading = @ /\ c.op \notin {"load", "again"},
        !.refreshing = @ /\ c.op # "refresh",
        !.removing = IF removal THEN 0 ELSE @,
        !.failed = @ \/ removal \/ (~ok /\ c.op # "sync")]

WindowAfter(c) ==
  IF c.op = "again" THEN CloseWindowOf([adding EXCEPT !.saving = FALSE])
  ELSE [adding EXCEPT !.saving = @ /\ ~(c.op = "sync" /\ c.id = 0)]

FavoritesRead(i) ==
  LET a == answers[i]
  IN  /\ a.call.op \in ListingFavorites
      /\ Received(i)
      /\ tab' = TabAfter(a.call, TRUE, a.ids)
      /\ adding' = WindowAfter(a.call)
      /\ favMemory' = [favMemory EXCEPT !.read = TRUE, !.seen = a.others,
                         !.crossed = ~a.call.alone \/ a.call.acts # favMemory.acts]
      /\ UNCHANGED <<favorites, favActs>>

(* Mobile forgets a timer that runs when an earlier search ends: nothing   *)
(* stops its search any more, which is taken as sent.                      *)
PlacesFound(i) ==
  LET a == answers[i]
      strays == Mobile /\ adding.timer
  IN  /\ a.call.op = "search"
      /\ Continued(i, IF strays THEN <<a.call>> ELSE <<>>)
      /\ \E found \in BOOLEAN :
           adding' = [adding EXCEPT !.offered = found, !.timer = @ /\ ~strays]
      /\ UNCHANGED <<favorites, tab, favActs, favMemory>>

(* The place was saved.  Mobile lists it and closes the window, whatever   *)
(* it shows by now; the web reads the list again first.                    *)
FavoriteAdded(i) ==
  LET a == answers[i]
  IN  /\ a.call.op = "add" /\ a.ok
      /\ \/ /\ Mobile
            /\ tab' = [tab EXCEPT !.shown[a.id] = @ + 1, !.failed = FALSE]
            /\ adding' = EmptyWindow
            /\ Received(i)
         \/ /\ Web
            /\ tab' = [tab EXCEPT !.loading = TRUE, !.failed = FALSE]
            /\ Continued(i, <<FavoriteCall("again", 0, OtherCalls(i))>>)
            /\ UNCHANGED adding
      /\ UNCHANGED <<favorites, favActs, favMemory>>

FavoriteRefused(i) ==
  LET a == answers[i]
  IN  /\ a.call.op = "add" /\ ~a.ok
      /\ \/ Mobile /\ Continued(i, <<FavoriteCall("sync", 0, OtherCalls(i))>>) /\ UNCHANGED adding
         \/ Web /\ Received(i) /\ adding' = [adding EXCEPT !.saving = FALSE]
      /\ UNCHANGED <<favorites, tab, favActs, favMemory>>

FavoriteGone(f) ==
  [tab EXCEPT !.shown[f] = 0, !.removing = IF Web \/ @ = f THEN 0 ELSE @]

FavoriteRemoved(i) ==
  /\ answers[i].call.op = "remove" /\ answers[i].ok
  /\ Received(i)
  /\ tab' = FavoriteGone(answers[i].id)
  /\ UNCHANGED <<favorites, adding, favActs, favMemory>>

FavoriteUnknown(i) ==
  LET f == answers[i].id
  IN  /\ answers[i].call.op = "remove" /\ ~answers[i].ok
      /\ \/ Mobile /\ Continued(i, <<FavoriteCall("sync", f, OtherCalls(i))>>) /\ UNCHANGED tab
         \/ Web /\ Received(i) /\ tab' = [tab EXCEPT !.removing = 0, !.failed = TRUE]
      /\ UNCHANGED <<favorites, adding, favActs, favMemory>>

(* Nothing more is heard of a call; a change may have been made or not.    *)
GivesUpFavorite(c, made) ==
  /\ tab' = IF c.op \in ListingFavorites THEN TabAfter(c, FALSE, {})
            ELSE IF c.op = "remove" THEN [tab EXCEPT !.removing = 0, !.failed = TRUE]
            ELSE tab
  /\ adding' = CASE c.op = "add" -> [adding EXCEPT !.saving = FALSE]
                 [] c.op = "search" -> [adding EXCEPT !.offered = FALSE]
                 [] OTHER -> WindowAfter(c)
  /\ favMemory' = [favMemory EXCEPT !.read = @ /\ ~(Mobile /\ c.op = "load"),
                                    !.crossed = @ \/ made]
  /\ UNCHANGED <<favorites, favActs>>

FavoriteCallLost(i) == LoseCall(i, <<>>) /\ GivesUpFavorite(sent[i], FALSE)
FavoriteAnswerLost(i) ==
  LoseAnswer(i, <<>>) /\ GivesUpFavorite(answers[i].call, answers[i].call.op \in ChangingFavorites)

-----------------------------------------------------------------------------
FavoriteInit ==
  /\ \E n \in IF screen = "favorites" THEN 0 .. MaxFavorites ELSE {0} :
       favorites = [ids |-> Favorite \cap 1 .. n, made |-> n, others |-> 0]
  /\ tab = [shown |-> Copies({}), loading |-> TRUE, refreshing |-> FALSE, failed |-> FALSE,
            removing |-> 0]
  /\ adding = EmptyWindow /\ favActs = 0
  /\ favMemory = [read |-> FALSE, crossed |-> FALSE, seen |-> 0, acts |-> 0]

FavoriteNext ==
  \/ LoadFavorites \/ RefreshFavorites \/ OpenAdding \/ CloseAdding \/ NameFavorite
  \/ TypeFavorite \/ SearchTimerFires \/ PickFavorite \/ SubmitFavorite
  \/ FavoritesChangeElsewhere
  \/ \E f \in Favorite : RemoveFavorite(f)
  \/ \E i \in DOMAIN sent :
       ListFavorites(i) \/ CreateFavorite(i) \/ DeleteFavorite(i) \/ FavoriteCallLost(i)
  \/ \E i \in DOMAIN answers :
       \/ FavoritesRead(i) \/ PlacesFound(i) \/ FavoriteAdded(i) \/ FavoriteRefused(i)
       \/ FavoriteRemoved(i) \/ FavoriteUnknown(i) \/ FavoriteAnswerLost(i)

-----------------------------------------------------------------------------
(* Properties.                                                             *)

(* When nothing is under way, the places on the screen are the saved ones, *)
(* each once, and not more than a user may have; and two places are never  *)
(* saved at the same time, however often the window was closed and opened. *)
(* Left out: what was changed elsewhere since the last reading, a reading  *)
(* that was under way together with a change, a change whose answer was    *)
(* lost, and what mobile lists after a first reading that failed.          *)
FavoritesAreShown ==
  /\ Quiet /\ favMemory.read /\ ~favMemory.crossed /\ favMemory.seen = favorites.others
     /\ (Web => ~tab.failed)
       => tab.shown = Copies(favorites.ids) /\ Listed <= MaxFavorites
  /\ ~\E i \in DOMAIN sent, j \in DOMAIN answers : sent[i].op = "add" /\ answers[j].call.op = "add"
  /\ \A i, j \in DOMAIN sent : sent[i].op = "add" /\ sent[j].op = "add" => i = j
=============================================================================
