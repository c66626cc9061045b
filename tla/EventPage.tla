----------------------------- MODULE EventPage -----------------------------
(***************************************************************************)
(* The event page of one signed-in viewer who is not the host, on the      *)
(* phone and on the web, against the server's rules for that viewer.       *)
(*                                                                         *)
(* `srv' is what the database says of the event and of the viewer.  `page' *)
(* is the screen: a snapshot of an earlier `srv', changed by the handlers  *)
(* before the server is asked again, and the flags that hide or disable    *)
(* the controls.  A handler is a task that sends one request, goes on when *)
(* the answer is there, and may load the event again before it ends.       *)
(* Requests overlap, answers get lost, and the host, other people and time *)
(* change `srv' meanwhile.  The start of the event does not move, and      *)
(* the event has no end time.                                              *)
(***************************************************************************)
EXTENDS Naturals, FiniteSets

CONSTANTS Tasks,       \* handlers open at once (a bound)
          MaxTrouble   \* outside changes and lost answers (a bound)

ASSUME PageAssumption == Tasks # {} /\ MaxTrouble \in Nat

VARIABLES platform,  \* "mobile" or "web", never changes
          privacy,   \* event.privacy_level, never changes
          eligible,  \* the viewer meets the age and gender rules, never changes
          srv,       \* the rows of the event and of the viewer
          page,      \* the screen
          task,      \* the handlers that are running
          trouble,   \* how many outside changes and losses have happened
          drift      \* history: what the page cannot know since it was opened:
                     \* "rows" after an outside change, a lost answer, or two handlers
                     \* at once that change the viewer's rows; "heart" after a toggle
                     \* that was lost or overlapped another handler

fixed_vars == <<platform, privacy, eligible>>
vars == <<fixed_vars, srv, page, task, trouble, drift>>

\* The seats: some are free; all are taken or held, some of them by participants who have
\* to reconfirm; all are taken by approved participants.
Seats == {"free", "held", "taken"}
Part == {"NONE", "APPROVED", "PENDING", "LEAVED", "CANCELED"}
Op   == {"load", "join", "leave", "request", "withdraw", "reconfirm", "accept",
         "decline", "favorite", "report", "rate"}

\* The ActionState values of the mobile view model.
MobileBusy == {"joining", "leaving", "requesting", "reconfirming",
               "accepting_invitation", "declining_invitation", "reporting",
               "canceling_request"}
ActionState == MobileBusy \union {"idle", "success_joined", "success_left",
                 "success_requested", "success_reconfirmed", "success_reported"}

NoView == [status |-> "NONE", part |-> "NONE", reconfirm |-> FALSE, req |-> "NONE",
           inv |-> "NONE", fav |-> FALSE, full |-> FALSE]
Missing == [NoView EXCEPT !.status = "MISSING"]
NoTask == [op |-> "load", step |-> "idle", ans |-> "none", got |-> NoView,
           was |-> FALSE]

\* The initial useState values of the two view models.
NewPage == [load |-> "loading", view |-> NoView, shown |-> "NONE", heart |-> FALSE,
            act |-> "idle", busy |-> {}, sheet |-> "none"]

\* What the viewer fills in or confirms first: the sheet of the request or the report,
\* the question whether to leave or to withdraw.
Asked == {"request", "report", "leave", "withdraw"}

\* Type invariant.
TypeOK ==
  /\ platform \in {"mobile", "web"} /\ eligible \in BOOLEAN
  /\ privacy \in {"PUBLIC", "PROTECTED", "PRIVATE"}
  /\ srv.status \in {"ACTIVE", "CANCELED", "COMPLETED"}
  /\ srv.part \in Part /\ (srv.late => srv.part = "LEAVED") /\ srv.seats \in Seats
  /\ srv.req \in {"NONE", "PENDING", "APPROVED", "REJECTED", "CANCELED"}
  /\ srv.inv \in {"NONE", "PENDING", "ACCEPTED", "DECLINED", "CANCELED"}
  /\ page.load \in {"loading", "ready", "missing", "error"}
  /\ page.view.part \in Part \union {"JOINED", "INVITED"}
  /\ page.shown \in (Part \ {"APPROVED"}) \union {"JOINED", "INVITED"}
  /\ page.act \in ActionState /\ page.busy \subseteq Op
  /\ page.sheet \in Asked \union {"none"}
  /\ \A k \in Tasks :
       /\ task[k].op \in Op
       /\ task[k].step \in {"idle", "upload", "resolve", "sent", "answered", "get",
                            "got"}
  /\ trouble \in 0..MaxTrouble /\ drift \subseteq {"rows", "heart"}

-----------------------------------------------------------------------------
(* The server's rules for the viewer. *)

Live     == srv.status \notin {"CANCELED", "COMPLETED"}
CanEnter == srv.part = "NONE" \/ (srv.part = "LEAVED" /\ ~srv.late)
CanJoin  == Live /\ privacy = "PUBLIC" /\ srv.seats = "free" /\ eligible /\ CanEnter
CanLeave == Live /\ srv.part \in {"APPROVED", "PENDING"}
CanRequest == /\ Live /\ privacy = "PROTECTED" /\ eligible /\ CanEnter
              /\ srv.req \in {"NONE", "CANCELED"}
                 \/ (srv.req = "APPROVED" /\ srv.part = "LEAVED")
CanWithdraw  == srv.req = "PENDING"
CanReconfirm == Live /\ srv.part = "PENDING"
CanAccept    == srv.inv = "PENDING" /\ Live /\ srv.seats = "free" /\ eligible /\ CanEnter
CanDecline   == srv.inv = "PENDING"

Accepts(op) ==
  CASE op = "join"      -> CanJoin
    [] op = "leave"     -> CanLeave
    [] op = "request"   -> CanRequest
    [] op = "withdraw"  -> CanWithdraw
    [] op = "reconfirm" -> CanReconfirm
    [] op = "accept"    -> CanAccept
    [] op = "decline"   -> CanDecline
    [] OTHER            -> TRUE

\* The seat the viewer takes may be the last one; the seat left behind is free, unless
\* there were more participants than seats.
Admitted(seats) == [srv EXCEPT !.part = "APPROVED", !.late = FALSE, !.seats = seats]
SeatsLeft == IF srv.seats = "free" THEN {"free"} ELSE Seats
SeatsConfirmed == IF srv.seats = "held" THEN {"held", "taken"} ELSE {srv.seats}

\* What an accepted request leaves behind; `was' is the heart the viewer saw.
Effects(op, was) ==
  CASE op = "join"      -> {Admitted(seats) : seats \in Seats}
    [] op = "leave"     -> {[srv EXCEPT !.part = "LEAVED", !.late = srv.started,
                                        !.seats = seats] : seats \in SeatsLeft}
    [] op = "request"   -> {[srv EXCEPT !.req = "PENDING"]}
    [] op = "withdraw"  -> {[srv EXCEPT !.req = "CANCELED"]}
    [] op = "reconfirm" -> {[srv EXCEPT !.part = "APPROVED", !.seats = seats] :
                              seats \in SeatsConfirmed}
    [] op = "accept"    -> {[Admitted(seats) EXCEPT !.inv = "ACCEPTED"] :
                              seats \in Seats}
    [] op = "decline"   -> {[srv EXCEPT !.inv = "DECLINED"]}
    [] op = "favorite"  -> {[srv EXCEPT !.fav = ~was]}
    [] OTHER            -> {srv}

\* The detail query: who may see the event, the status as the clock has it, and the
\* viewer's own rows.  Both clients compare the approved participants with the capacity,
\* where the server counts those who have to reconfirm as well.
Visible == privacy # "PRIVATE" \/ srv.part # "NONE" \/ srv.inv \in {"ACCEPTED", "PENDING"}
Detail ==
  IF ~Visible THEN Missing
  ELSE [status |-> IF srv.status = "ACTIVE" /\ srv.started THEN "IN_PROGRESS"
                   ELSE srv.status,
        part |-> srv.part, reconfirm |-> srv.part = "PENDING", req |-> srv.req,
        inv |-> srv.inv, fav |-> srv.fav, full |-> srv.seats = "taken"]

-----------------------------------------------------------------------------
(* Requests and their answers. *)

Trouble == trouble < MaxTrouble /\ trouble' = trouble + 1
Concerns(op) == IF op = "favorite" THEN "heart" ELSE "rows"

Quiet == \A k \in Tasks : task[k].step = "idle"
Go(k, step) == task' = [task EXCEPT ![k].step = step]
Done(k)     == task' = [task EXCEPT ![k] = NoTask]

\* Reports, ratings and favorites may be refused for reasons the model leaves out.
Served(k) ==
  LET t == task[k] IN
  /\ t.step = "sent"
  /\ \/ /\ Accepts(t.op)
        /\ srv' \in Effects(t.op, t.was)
        /\ task' = [task EXCEPT ![k].step = "answered", ![k].ans = "ok"]
     \/ /\ ~Accepts(t.op) \/ t.op \in {"report", "rate", "favorite"}
        /\ task' = [task EXCEPT ![k].step = "answered", ![k].ans = "refused"]
        /\ UNCHANGED srv
  /\ UNCHANGED <<fixed_vars, page, trouble, drift>>

\* The request or its answer is lost, or the server fails; an upload may fail too.
Lost(k) ==
  /\ task[k].step \in {"upload", "resolve", "sent", "answered"}
  /\ task[k].ans \in {"none", "ok"}
  /\ task' = [task EXCEPT ![k].step = "answered", ![k].ans = "lost"]
  /\ drift' = drift \union {Concerns(task[k].op)} /\ Trouble
  /\ UNCHANGED <<fixed_vars, srv, page>>

\* The picture of a join request is uploaded before the request is sent.
Uploaded(k) ==
  /\ task[k].step = "upload" /\ Go(k, "sent")
  /\ UNCHANGED <<fixed_vars, srv, page, trouble, drift>>

\* resolveCurrentInvitationID: the invitation is looked up before it is answered.
Resolved(k) ==
  /\ task[k].step = "resolve"
  /\ IF srv.inv = "PENDING" THEN Go(k, "sent")
     ELSE task' = [task EXCEPT ![k].step = "answered", ![k].ans = "refused"]
  /\ UNCHANGED <<fixed_vars, srv, page, trouble, drift>>

DetailServed(k) ==
  /\ task[k].step = "get"
  /\ task' = [task EXCEPT ![k].step = "got", ![k].got = Detail]
  /\ UNCHANGED <<fixed_vars, srv, page, trouble, drift>>

DetailLost(k) ==
  /\ task[k].step = "get"
  /\ task' = [task EXCEPT ![k].step = "got", ![k].got = NoView]
  /\ drift' = drift \union {"rows", "heart"} /\ Trouble
  /\ UNCHANGED <<fixed_vars, srv, page>>

Shut(op) == IF page.sheet = op THEN "none" ELSE page.sheet

-----------------------------------------------------------------------------
(* The mobile view model: one actionState for all handlers, the participation and
   the heart beside the snapshot. *)

\* normalizeEventDetailParticipation
Normalized(v) ==
  IF v.part = "APPROVED" THEN "JOINED"
  ELSE IF v.part # "NONE" THEN v.part
  ELSE IF v.req = "PENDING" THEN "PENDING"
  ELSE IF v.inv = "PENDING" THEN "INVITED"
  ELSE "NONE"

\* fetchEvent(true): a failure leaves the screen as it is.  The page reads the request,
\* the invitation and the heart nowhere else.
SilentFetch(p, v) ==
  IF v.status \in {"NONE", "MISSING"} THEN p
  ELSE [p EXCEPT !.view = [v EXCEPT !.part = Normalized(v), !.req = "NONE",
                                    !.inv = "NONE", !.fav = FALSE],
                 !.shown = Normalized(v), !.heart = v.fav,
                 !.load = IF @ = "loading" THEN @ ELSE "ready"]

\* fetchEvent(): the first load, and retry.
MobileLoaded(k) ==
  LET v == task[k].got IN
  /\ page' = IF v.status = "MISSING" THEN [page EXCEPT !.load = "missing"]
             ELSE IF v.status = "NONE" THEN [page EXCEPT !.load = "error"]
             ELSE [SilentFetch(page, v) EXCEPT !.load = "ready"]
  /\ Done(k)

MobileJoin(k) ==
  IF task[k].step = "answered"
  THEN IF task[k].ans = "ok"
       THEN page' = [page EXCEPT !.act = "success_joined"] /\ Go(k, "get")
       ELSE page' = [page EXCEPT !.act = "idle"] /\ Done(k)
  ELSE page' = SilentFetch(page, task[k].got) /\ Done(k)

\* handleLeaveEvent; `was' says that the viewer left before the start.
MobileLeave(k) ==
  IF task[k].step = "answered"
  THEN IF task[k].ans = "ok"
       THEN page' = [page EXCEPT !.shown = "LEAVED"] /\ Go(k, "get")
       ELSE page' = [page EXCEPT !.act = "idle"] /\ Done(k)
  ELSE /\ page' = [SilentFetch(page, task[k].got) EXCEPT
                     !.act = IF task[k].was THEN "idle" ELSE "success_left"]
       /\ Done(k)

\* handleRequestJoin: the event is not loaded again.
MobileRequest(k) ==
  /\ page' = IF task[k].ans = "ok"
             THEN [page EXCEPT !.view.part = "PENDING", !.shown = "PENDING",
                               !.act = "success_requested", !.sheet = Shut("request")]
             ELSE [page EXCEPT !.act = "idle"]
  /\ Done(k)

\* (mutant) a request that was answered meanwhile leaves the flag set
MobileWithdrawStuck(k) ==
  IF task[k].step = "answered" /\ task[k].ans \in {"ok", "refused"}
  THEN page' = page /\ Go(k, "get")
  ELSE /\ page' = SilentFetch(page, task[k].got)
       /\ Done(k)

\* handleCancelJoinRequest: a 409 means that the request was answered meanwhile.
MobileWithdraw(k) ==
  IF task[k].step = "answered"
  THEN CASE task[k].ans = "ok" ->
              page' = [page EXCEPT !.shown = "NONE"] /\ Go(k, "get")
         [] task[k].ans = "refused" ->
              page' = [page EXCEPT !.act = "idle"] /\ Go(k, "get")
         [] OTHER -> page' = [page EXCEPT !.act = "idle"] /\ Done(k)
  ELSE /\ page' = [SilentFetch(page, task[k].got) EXCEPT
                     !.act = IF task[k].ans = "ok" THEN "idle" ELSE @]
       /\ Done(k)

MobileReconfirm(k) ==
  IF task[k].step = "answered"
  THEN IF task[k].ans = "ok"
       THEN /\ page' = [page EXCEPT !.shown = "JOINED", !.view.part = "JOINED",
                                    !.view.reconfirm = FALSE]
            /\ Go(k, "get")
       ELSE page' = [page EXCEPT !.act = "idle"] /\ Done(k)
  ELSE /\ page' = [SilentFetch(page, task[k].got) EXCEPT !.act = "success_reconfirmed"]
       /\ Done(k)

MobileAccept(k) ==
  IF task[k].step = "answered"
  THEN IF task[k].ans = "ok" THEN page' = page /\ Go(k, "get")
       ELSE page' = [page EXCEPT !.act = "idle"] /\ Done(k)
  ELSE /\ page' = [SilentFetch(page, task[k].got) EXCEPT
                     !.shown = "JOINED", !.act = "success_joined"]
       /\ Done(k)

\* handleDeclineInvitation: the page shows the event no longer.
MobileDecline(k) ==
  /\ page' = IF task[k].ans = "ok"
             THEN [page EXCEPT !.shown = "NONE", !.view = NoView, !.load = "missing",
                               !.act = "idle"]
             ELSE [page EXCEPT !.act = "idle"]
  /\ Done(k)

\* handleToggleFavorite: a failure puts the old heart back.
MobileFavorite(k) ==
  /\ page' = IF task[k].ans = "ok" THEN page ELSE [page EXCEPT !.heart = task[k].was]
  /\ Done(k)

\* handleReportEvent
MobileReport(k) ==
  /\ page' = IF task[k].ans = "ok"
             THEN [page EXCEPT !.act = "success_reported", !.sheet = Shut("report")]
             ELSE [page EXCEPT !.act = "idle"]
  /\ Done(k)

\* handleViewerRatingSubmit
MobileRate(k) ==
  IF task[k].step = "answered" /\ task[k].ans = "ok" THEN page' = page /\ Go(k, "get")
  ELSE page' = [SilentFetch(page, task[k].got) EXCEPT !.busy = @ \ {"rate"}] /\ Done(k)

MobileStep(k) ==
  /\ platform = "mobile"
  /\ task[k].step \in {"answered", "got"}
  /\ CASE task[k].op = "load"      -> MobileLoaded(k)
       [] task[k].op = "join"      -> MobileJoin(k)
       [] task[k].op = "leave"     -> MobileLeave(k)
       [] task[k].op = "request"   -> MobileRequest(k)
       [] task[k].op = "withdraw"  -> MobileWithdraw(k)
       [] task[k].op = "reconfirm" -> MobileReconfirm(k)
       [] task[k].op = "accept"    -> MobileAccept(k)
       [] task[k].op = "decline"   -> MobileDecline(k)
       [] task[k].op = "favorite"  -> MobileFavorite(k)
       [] task[k].op = "report"    -> MobileReport(k)
       [] task[k].op = "rate"      -> MobileRate(k)
  /\ UNCHANGED <<fixed_vars, srv, trouble, drift>>

-----------------------------------------------------------------------------
(* The controls of the mobile page.  renderActionButton returns the first panel
   that applies. *)

\* (mutant) who left before the start cannot come back
MobileLeftPanelAlways == page.shown = "LEAVED" \/ page.act = "success_left"

MobileLeftPanel ==
  (page.shown = "LEAVED" \/ page.act = "success_left") /\ srv.started

MobileReconfirmPanel == page.view.reconfirm /\ page.act # "success_reconfirmed"
MobileReconfirmOffers ==
  IF page.act \in {"reconfirming", "leaving"} THEN {} ELSE {"reconfirm", "leave"}

\* canLeave
MobileCanLeave ==
  page.shown = "JOINED" /\ page.view.status \notin {"CANCELED", "COMPLETED"}
MobileAttendingPanel ==
  page.shown = "JOINED" \/ page.act \in {"success_joined", "success_reconfirmed"}
MobileAttendingOffers ==
  IF MobileCanLeave /\ page.act # "leaving" THEN {"leave"} ELSE {}

MobilePendingPanel == page.shown = "PENDING" \/ page.act = "success_requested"
MobilePendingOffers == IF page.act = "canceling_request" THEN {} ELSE {"withdraw"}

MobileInvitedOffers ==
  IF page.act \in {"accepting_invitation", "declining_invitation"} THEN {}
  ELSE {"accept", "decline"}

\* The age and gender rules come before the level of privacy, and the limit of seats
\* hides only the direct join.
MobileEntryOffers ==
  IF page.view.status # "ACTIVE" \/ ~eligible \/ page.act = "declining_invitation"
  THEN {}
  ELSE {op \in {"join", "request"} :
          \/ /\ op = "join" /\ privacy = "PUBLIC"
             /\ ~page.view.full /\ page.act # "joining"
          \/ op = "request" /\ privacy = "PROTECTED"}

MobileActionBar ==
  IF MobileLeftPanel THEN {}
  ELSE IF MobileReconfirmPanel THEN MobileReconfirmOffers
  ELSE IF MobileAttendingPanel THEN MobileAttendingOffers
  ELSE IF MobilePendingPanel THEN MobilePendingOffers
  ELSE IF page.shown = "INVITED" THEN MobileInvitedOffers
  ELSE MobileEntryOffers

MobileHeaderOffers == {"favorite", "report"}

\* ParticipantRatingSection
MobileRatingOffers ==
  IF /\ page.view.part = "JOINED" /\ page.view.status = "COMPLETED"
     /\ "rate" \notin page.busy
  THEN {"rate"} ELSE {}

MobileOffers ==
  CASE page.load = "loading"              -> {}
    [] page.load \in {"missing", "error"} -> {"load"}
    [] OTHER -> MobileActionBar \union MobileHeaderOffers \union MobileRatingOffers

\* The buttons on the sheets; a question of the system stays whatever is behind it.
MobileFormOffers   == IF page.act = "requesting" THEN {} ELSE {"request", "close"}
MobileReportOffers == {"close"} \union IF page.act = "reporting" THEN {} ELSE {"report"}
MobileSheetOffers ==
  CASE page.sheet = "request" -> MobileFormOffers
    [] page.sheet = "report"  -> MobileReportOffers
    [] OTHER                  -> {page.sheet, "close"}

\* What a handler does before its first request.  `was' remembers the heart, or that
\* the event had not started.
MobileBegins(op) ==
  CASE op = "load"      -> [page EXCEPT !.load = "loading"]
    [] op = "join"      -> [page EXCEPT !.act = "joining"]
    [] op = "leave"     -> [page EXCEPT !.act = "leaving", !.sheet = "none"]
    [] op = "request"   -> [page EXCEPT !.act = "requesting"]
    [] op = "withdraw"  -> [page EXCEPT !.act = "canceling_request", !.sheet = "none"]
    [] op = "reconfirm" -> [page EXCEPT !.act = "reconfirming"]
    [] op = "accept"    -> [page EXCEPT !.act = "accepting_invitation"]
    [] op = "decline"   -> [page EXCEPT !.act = "declining_invitation"]
    [] op = "report"    -> [page EXCEPT !.act = "reporting"]
    [] op = "favorite"  -> [page EXCEPT !.heart = ~@]
    [] op = "rate"      -> [page EXCEPT !.busy = @ \union {"rate"}]

-----------------------------------------------------------------------------
(* The web view model: a loading flag per handler, everything shown is in the
   snapshot. *)

Flag(op) == IF op = "request" THEN "join" ELSE op
Loaded(k) == task[k].got.status \notin {"NONE", "MISSING"}
\* refreshEventDetail; a failure throws and leaves the snapshot as it is.
Refreshed(k) == IF Loaded(k) THEN [page EXCEPT !.view = task[k].got] ELSE page
Free(p, k) == [p EXCEPT !.busy = @ \ {Flag(task[k].op)}]

\* A handler that asks the server and then loads the event again, and adds to the
\* loaded event what it knows; it ends at the first error.
WebLoaded(k) ==
  /\ page' = CASE task[k].got.status = "MISSING" -> [page EXCEPT !.load = "missing"]
               [] task[k].got.status = "NONE"    -> [page EXCEPT !.load = "error"]
               [] OTHER -> [page EXCEPT !.load = "ready", !.view = task[k].got]
  /\ Done(k)

\* markViewerJoined, whatever the loaded event says.
WebJoin(k) ==
  IF task[k].step = "answered" /\ task[k].ans = "ok" THEN page' = page /\ Go(k, "get")
  ELSE /\ page' = IF task[k].step = "answered" THEN Free(page, k)
                  ELSE [Free(Refreshed(k), k) EXCEPT !.view.part = "JOINED",
                                                     !.view.req = "NONE"]
       /\ Done(k)

WebLeave(k) ==
  IF task[k].step = "answered" /\ task[k].ans = "ok" THEN page' = page /\ Go(k, "get")
  ELSE page' = Free(Refreshed(k), k) /\ Done(k)

WebReconfirm(k) ==
  IF task[k].step = "answered" /\ task[k].ans = "ok" THEN page' = page /\ Go(k, "get")
  ELSE /\ page' = IF task[k].step = "answered" \/ ~Loaded(k) THEN Free(page, k)
                  ELSE [Free(Refreshed(k), k) EXCEPT !.view.part = "JOINED",
                          !.view.req = "NONE", !.view.reconfirm = FALSE]
       /\ Done(k)

\* markViewerPendingJoinRequest
WebRequest(k) ==
  IF task[k].step = "answered" /\ task[k].ans = "ok" THEN page' = page /\ Go(k, "get")
  ELSE /\ page' = IF task[k].step = "answered" THEN Free(page, k)
                  ELSE [Free(Refreshed(k), k) EXCEPT !.view.req = "PENDING"]
       /\ Done(k)

\* (mutant) a withdrawn request is left on the page until somebody loads it
WebWithdrawKept(k) ==
  /\ page' = Free(page, k)
  /\ Done(k)

\* handleCancelJoinRequest: a 409 means that the request was answered meanwhile.
WebWithdraw(k) ==
  IF task[k].step = "answered" /\ task[k].ans \in {"ok", "refused"}
  THEN page' = page /\ Go(k, "get")
  ELSE /\ page' = IF task[k].ans = "ok"
                  THEN [Free(Refreshed(k), k) EXCEPT !.view.req = "NONE",
                                                     !.sheet = Shut("withdraw")]
                  ELSE [Free(Refreshed(k), k) EXCEPT !.sheet = Shut("withdraw")]
       /\ Done(k)

\* handleFavoriteToggle
WebFavorite(k) ==
  /\ page' = IF task[k].ans = "ok" THEN Free(page, k)
             ELSE [Free(page, k) EXCEPT !.view.fav = task[k].was]
  /\ Done(k)

\* handleReportEvent; the sheet is closed by a report that was taken.
WebReport(k) ==
  /\ page' = [Free(page, k) EXCEPT
                !.sheet = IF task[k].ans = "ok" THEN Shut("report") ELSE @]
  /\ Done(k)

\* handleViewerRatingSubmit
WebRate(k) ==
  IF task[k].step = "answered" /\ task[k].ans = "ok" THEN page' = page /\ Go(k, "get")
  ELSE page' = Free(Refreshed(k), k) /\ Done(k)

WebStep(k) ==
  /\ platform = "web"
  /\ task[k].step \in {"answered", "got"}
  /\ CASE task[k].op = "load"      -> WebLoaded(k)
       [] task[k].op = "join"      -> WebJoin(k)
       [] task[k].op = "leave"     -> WebLeave(k)
       [] task[k].op = "request"   -> WebRequest(k)
       [] task[k].op = "withdraw"  -> WebWithdraw(k)
       [] task[k].op = "reconfirm" -> WebReconfirm(k)
       [] task[k].op = "favorite"  -> WebFavorite(k)
       [] task[k].op = "report"    -> WebReport(k)
       [] task[k].op = "rate"      -> WebRate(k)
  /\ UNCHANGED <<fixed_vars, srv, trouble, drift>>

-----------------------------------------------------------------------------
(* The controls of the web page. *)

\* getViewerParticipationState
ViewerState(v) ==
  IF v.part \in {"APPROVED", "JOINED"} THEN "JOINED"
  ELSE IF v.part = "PENDING" \/ v.req = "PENDING" THEN "PENDING"
  ELSE IF v.inv = "PENDING" THEN "INVITED"
  ELSE v.part

WebBannerOffers ==
  IF page.view.reconfirm /\ "reconfirm" \notin page.busy THEN {"reconfirm", "leave"}
  ELSE {}

\* JoinActionSection, which says nothing while a reconfirmation is due.  An invitation is
\* answered on the page of the invitations.
WebOpen == page.view.status \notin {"CANCELED", "COMPLETED"}
WebJoinedOffers  == IF WebOpen /\ "leave" \notin page.busy THEN {"leave"} ELSE {}
WebPendingOffers == IF "withdraw" \notin page.busy THEN {"withdraw"} ELSE {}
WebEntryOffers ==
  IF ~WebOpen \/ page.view.full \/ "join" \in page.busy THEN {}
  ELSE {op \in {"join", "request"} :
          privacy = IF op = "join" THEN "PUBLIC" ELSE "PROTECTED"}

WebActionSection ==
  LET state == ViewerState(page.view)
  IN IF page.view.reconfirm \/ state = "INVITED" THEN {}
     ELSE IF state = "JOINED" THEN WebJoinedOffers
     ELSE IF state = "PENDING" THEN WebPendingOffers
     ELSE WebEntryOffers

WebHeaderOffers == {"report"} \union IF "favorite" \in page.busy THEN {} ELSE {"favorite"}

WebRatingOffers ==
  IF /\ ViewerState(page.view) = "JOINED" /\ page.view.status = "COMPLETED"
     /\ "rate" \notin page.busy
  THEN {"rate"} ELSE {}

WebOffers ==
  CASE page.load = "loading" -> {}
    [] page.load = "missing" -> {}
    [] page.load = "error"   -> {"load"}
    [] OTHER -> WebActionSection \union WebBannerOffers \union WebHeaderOffers
                \union WebRatingOffers

\* The form of the request stands in the section and covers nothing; LeaveConfirmModal
\* and CancelRequestConfirmModal cover the page, but are part of the section and
\* disappear with it; the report covers the page.
WebFormOffers   == IF "request" \in WebActionSection THEN {"request", "close"} ELSE {}
WebReportOffers == {"close"} \union IF "report" \in page.busy THEN {} ELSE {"report"}
WebSheetOffers ==
  CASE page.sheet = "request" -> WebFormOffers
    [] page.sheet = "report"  -> WebReportOffers
    [] OTHER -> IF page.sheet \in WebActionSection THEN {page.sheet, "close"} ELSE {}

WebCovers ==
  \/ page.sheet = "report" \/ (page.sheet = "leave" /\ "leave" \in WebActionSection)
  \/ page.sheet = "withdraw" /\ ViewerState(page.view) = "PENDING" /\ ~page.view.reconfirm

\* The form is closed and emptied as the request is sent.
WebBegins(op) ==
  CASE op = "load"     -> [page EXCEPT !.load = "loading"]
    [] op = "favorite" -> [page EXCEPT !.view.fav = ~@, !.busy = @ \union {op}]
    [] op = "request"  -> [page EXCEPT !.sheet = "none", !.busy = @ \union {"join"}]
    [] op = "leave"    -> [page EXCEPT !.sheet = Shut(op), !.busy = @ \union {op}]
    [] OTHER           -> [page EXCEPT !.busy = @ \union {op}]

-----------------------------------------------------------------------------
Offers      == IF platform = "mobile" THEN MobileOffers ELSE WebOffers
SheetOffers == IF page.load # "ready" \/ page.sheet = "none" THEN {}
               ELSE IF platform = "mobile" THEN MobileSheetOffers ELSE WebSheetOffers

\* The sheet or question that covers the page; the form of the web page covers nothing.
Covered == /\ page.load = "ready" /\ page.sheet # "none"
           /\ platform = "web" => WebCovers

\* A control that works at once: on a sheet, or on the page if nothing covers it and
\* nothing has to be asked; the web banner leaves without a question.
Direct(op) ==
  \/ op \in SheetOffers
  \/ /\ op \in Offers /\ ~Covered
     /\ op \in Asked => platform = "web" /\ page.view.reconfirm /\ op = "leave"
Heart  == IF platform = "mobile" THEN page.heart ELSE page.view.fav

FirstStep(op) ==
  CASE op = "load"                -> {"get"}
    [] op = "request"             -> {"upload", "sent"}
    [] op \in {"accept", "decline"} -> {"resolve"}
    [] OTHER                      -> {"sent"}

IdleTask == CHOOSE k \in Tasks : task[k].step = "idle"

\* A report changes no row and loads nothing.
Overlaps(op) ==
  LET others == {task[k].op : k \in {q \in Tasks : task[q].step # "idle"}} \ {"report"}
  IN IF op = "report" \/ others = {} THEN {}
     ELSE IF op = "favorite" \/ others = {"favorite"} THEN {"heart"} ELSE {"rows"}

Press(op) ==
  /\ Direct(op) /\ \E k \in Tasks : task[k].step = "idle"
  /\ page' = IF platform = "mobile" THEN MobileBegins(op) ELSE WebBegins(op)
  /\ \E step \in FirstStep(op) :
       task' = [task EXCEPT ![IdleTask] =
                  [NoTask EXCEPT !.op = op, !.step = step,
                     !.was = IF op = "favorite" THEN Heart
                             ELSE op = "leave" /\ ~srv.started]]
  /\ drift' = drift \union Overlaps(op)
  /\ UNCHANGED <<fixed_vars, srv, trouble>>

\* openJoinRequestModal, setShowReportModal, and the questions before leaving and
\* withdrawing; closeJoinRequestModal and the like.
OpenSheet(op) ==
  /\ op \in Asked \intersect Offers /\ ~Covered /\ ~Direct(op)
  /\ page' = [page EXCEPT !.sheet = op]
  /\ UNCHANGED <<fixed_vars, srv, task, trouble, drift>>

CloseSheet ==
  /\ "close" \in SheetOffers
  /\ page' = [page EXCEPT !.sheet = "none"]
  /\ UNCHANGED <<fixed_vars, srv, task, trouble, drift>>

\* The viewer comes back to the page, which is mounted anew and loads the event.
Reopen ==
  /\ Quiet /\ page.load # "loading"
  /\ page' = NewPage
  /\ task' = [task EXCEPT ![IdleTask] = [NoTask EXCEPT !.step = "get"]]
  /\ drift' = {}
  /\ UNCHANGED <<fixed_vars, srv, trouble>>

-----------------------------------------------------------------------------
(* Outside changes. *)

\* A material edit, before the start: nobody is approved any more.
HostEdits == /\ srv.status = "ACTIVE" /\ ~srv.started /\ srv.part = "APPROVED"
             /\ srv' = [srv EXCEPT !.part = "PENDING",
                                   !.seats = IF @ = "taken" THEN "held" ELSE @]
HostCancels == /\ srv.status = "ACTIVE"
               /\ srv' = [srv EXCEPT !.status = "CANCELED", !.seats = "free",
                             !.part = IF @ \in {"APPROVED", "PENDING"} THEN "CANCELED"
                                      ELSE @]
HostCompletes == Live /\ srv' = [srv EXCEPT !.status = "COMPLETED"]
HostAnswers ==
  /\ srv.req = "PENDING"
  /\ \/ srv' = [srv EXCEPT !.req = "REJECTED"]
     \/ Live /\ srv.seats = "free" /\ CanEnter
        /\ \E seats \in Seats : srv' = [Admitted(seats) EXCEPT !.req = "APPROVED"]
HostInvites ==
  /\ privacy = "PRIVATE" /\ Live /\ srv.seats = "free" /\ CanEnter
  /\ srv.inv \in {"NONE", "CANCELED"}
  /\ srv' = [srv EXCEPT !.inv = "PENDING"]
HostRevokes == srv.inv = "PENDING" /\ srv' = [srv EXCEPT !.inv = "CANCELED"]
\* Others join, leave, reconfirm or have to, and the host changes the capacity.
OthersCome  == Live /\ \E seats \in Seats \ {srv.seats} : srv' = [srv EXCEPT !.seats = seats]
\* The start, at which the job approves those who have not reconfirmed.
EventStarts ==
  /\ ~srv.started
  /\ srv' = IF srv.status # "ACTIVE" THEN [srv EXCEPT !.started = TRUE]
             ELSE [srv EXCEPT !.started = TRUE,
                     !.part = IF @ = "PENDING" THEN "APPROVED" ELSE @,
                     !.seats = IF @ = "held" THEN "taken" ELSE @]

Outside ==
  /\ Trouble
  /\ \/ HostEdits \/ HostCancels \/ HostCompletes \/ HostAnswers
     \/ HostInvites \/ HostRevokes \/ OthersCome \/ EventStarts
  /\ drift' = drift \union {"rows"}
  /\ UNCHANGED <<fixed_vars, page, task>>

-----------------------------------------------------------------------------
\* A viewer without a row, or one who is invited to the PRIVATE event; the rules of age
\* and gender are tried on a PUBLIC event.
Init ==
  /\ platform \in {"mobile", "web"}
  /\ privacy \in {"PUBLIC", "PROTECTED", "PRIVATE"}
  /\ eligible \in BOOLEAN /\ (~eligible => privacy = "PUBLIC")
  /\ \E inv \in {"NONE", "PENDING"} :
       /\ inv = "PENDING" => privacy = "PRIVATE"
       /\ srv = [status |-> "ACTIVE", started |-> FALSE, part |-> "NONE",
                 late |-> FALSE, req |-> "NONE", inv |-> inv, fav |-> FALSE,
                 seats |-> "free"]
  /\ page = NewPage
  /\ task = [[k \in Tasks |-> NoTask] EXCEPT ![CHOOSE k \in Tasks : TRUE].step = "get"]
  /\ trouble = 0 /\ drift = {}

Answer(k) == Served(k) \/ Uploaded(k) \/ Resolved(k) \/ DetailServed(k)
             \/ MobileStep(k) \/ WebStep(k)

Next ==
  \/ \E k \in Tasks : Answer(k) \/ Lost(k) \/ DetailLost(k)
  \/ \E op \in Op : Press(op) \/ OpenSheet(op)
  \/ CloseSheet \/ Reopen \/ Outside

Spec == Init /\ [][Next]_vars

-----------------------------------------------------------------------------
\* An offer the server refuses although the page is up to date: only the gaps named
\* here.  Neither page knows the cooldown of a rejected request, nor that the last seats
\* are held by participants who have to reconfirm; the phone forgets a pending request of
\* a viewer who had left; the web page ignores that a late leaver and an ineligible viewer
\* cannot come back; an invitation to a full event can still be accepted, and a closed
\* event reconfirmed or left.
KnownRefusal(op) ==
  \/ op = "request" /\ srv.req = "REJECTED"
  \/ op = "request" /\ platform = "mobile" /\ srv.part = "LEAVED" /\ srv.req = "PENDING"
  \/ op = "join" /\ srv.seats = "held"
  \/ op \in {"join", "request"} /\ platform = "web"
     /\ (~eligible \/ srv.late)
  \/ op = "accept" /\ (~Live \/ srv.seats # "free" \/ ~eligible)
  \/ op \in {"reconfirm", "leave"} /\ srv.part = "PENDING" /\ ~Live

Settled == Quiet /\ page.load = "ready"
Current == Settled /\ "rows" \notin drift

OffersAreHonoured ==
  Current => \A op \in Offers :
               Accepts(op) \/ KnownRefusal(op)

\* What the server would accept is offered by a page that is up to date, except: the
\* phone offers no way in once the event has started and no way to withdraw a request
\* renewed after leaving; the web page asks for no request when the event is full.
KnownOmission(op) ==
  \/ op \in {"join", "request"} /\ platform = "mobile" /\ srv.started
  \/ op = "withdraw" /\ platform = "mobile" /\ srv.part = "LEAVED"
  \/ op = "request" /\ platform = "web" /\ srv.seats = "taken"

NothingIsWithheld ==
  Current => \A op \in {"join", "leave", "request", "withdraw", "reconfirm"} :
               Accepts(op) => op \in Offers \/ KnownOmission(op)

\* The heart is the server's once nothing runs: after toggles that failed, and after any
\* mix of other handlers, lost answers and outside changes; only a toggle that was lost
\* or overlapped a handler that loads the event can leave it wrong.
HeartIsTrue == Settled /\ "heart" \notin drift => Heart = srv.fav

\* No handler leaves the page busy, whatever the server answers and whichever handlers
\* overlap: once nothing runs, every control is enabled again.
BusyEnds == Quiet => page.act \notin MobileBusy /\ page.busy = {}

\* What is left when the last answer is in: a page that shows the heart the server
\* keeps and can be used again.
PageComesToRest == TypeOK /\ HeartIsTrue /\ BusyEnds
=============================================================================
