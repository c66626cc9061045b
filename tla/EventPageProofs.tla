--------------------------- MODULE EventPageProofs ---------------------------
(***************************************************************************)
(* Proofs about the event page of both clients, for any number of handlers *)
(* open at once and any number of outside changes and losses.              *)
(***************************************************************************)
EXTENDS EventPage, TLAPS

Requests == {"NONE", "PENDING", "APPROVED", "REJECTED", "CANCELED"}
Invited  == {"NONE", "PENDING", "ACCEPTED", "DECLINED", "CANCELED"}
Shown    == {"NONE", "PENDING", "LEAVED", "CANCELED", "JOINED", "INVITED"}
Statuses == {"NONE", "MISSING", "ACTIVE", "CANCELED", "COMPLETED", "IN_PROGRESS"}
Steps    == {"idle", "upload", "resolve", "sent", "answered", "get", "got"}

Views(parts) ==
  [status : Statuses, part : parts, reconfirm : BOOLEAN, req : Requests, inv : Invited,
   fav : BOOLEAN, full : BOOLEAN]
Pages ==
  [load : {"loading", "ready", "missing", "error"}, view : Views(Part \cup {"JOINED", "INVITED"}),
   shown : Shown, heart : BOOLEAN, act : ActionState, busy : SUBSET Op,
   sheet : Asked \cup {"none"}]
Handlers ==
  [op : Op, step : Steps, ans : {"none", "ok", "refused", "lost"}, got : Views(Part),
   was : BOOLEAN]
Rows ==
  [status : {"ACTIVE", "CANCELED", "COMPLETED"}, started : BOOLEAN, part : Part,
   late : BOOLEAN, req : Requests, inv : Invited, fav : BOOLEAN, seats : Seats]

\* The types, with those of the fields.
Typed ==
  /\ platform \in {"mobile", "web"} /\ eligible \in BOOLEAN
  /\ privacy \in {"PUBLIC", "PROTECTED", "PRIVATE"}
  /\ srv \in Rows /\ (srv.late => srv.part = "LEAVED")
  /\ page \in Pages /\ task \in [Tasks -> Handlers]
  /\ trouble \in 0..MaxTrouble /\ drift \subseteq {"rows", "heart"}

Running(t) == t.step # "idle"
Loads(v) == v.status \notin {"NONE", "MISSING"}

\* The course of a handler: it has no answer before its request was sent, and what it
\* loaded is with it only while it ends; reports and favorites load nothing, and the web
\* page answers no invitation.
InCourse ==
  \A k \in Tasks :
    /\ task[k].step # "got" => task[k].got.status = "NONE"
    /\ task[k].step \in {"idle", "upload", "resolve", "sent"} => task[k].ans = "none"
    /\ task[k].op = "load" => task[k].step \in {"idle", "get", "got"}
    /\ task[k].op \in {"report", "favorite"} => task[k].step \in {"sent", "answered"}
    /\ platform = "web" => task[k].op \notin {"accept", "decline"}

\* A handler that holds the mobile page's actionState: until its answer is there, or
\* until it has loaded the event.
Acting == {"join", "leave", "request", "withdraw", "reconfirm", "accept", "decline", "report"}
Holds(t) ==
  /\ Running(t) /\ t.op \in Acting
  /\ t.step \in {"get", "got"} => t.op # "join" /\ (t.op = "withdraw" => t.ans = "ok")

\* A page that is busy has a handler that will end it.
SomebodyEnds ==
  /\ page.act \in MobileBusy => \E k \in Tasks : Holds(task[k])
  /\ \A f \in page.busy : \E k \in Tasks :
       Running(task[k]) /\ task[k].op # "load" /\ Flag(task[k].op) = f
  /\ IF platform = "mobile" THEN page.busy \subseteq {"rate"} ELSE page.act = "idle"

Toggling(t) == Running(t) /\ t.op = "favorite"

\* The heart: a toggle runs alone but for reports, what was loaded has the server's heart,
\* and the page shows it or what the toggle is about to make of it.
HeartFollows ==
  "heart" \notin drift =>
    /\ \A k, q \in Tasks : Toggling(task[k]) /\ Running(task[q]) /\ k # q => task[q].op = "report"
    /\ \A k \in Tasks : Loads(task[k].got) => task[k].got.fav = srv.fav
    /\ page.load = "ready" /\ (\A k \in Tasks : ~Toggling(task[k])) => Heart = srv.fav
    /\ \A k \in Tasks : Toggling(task[k]) =>
         /\ task[k].was = ~Heart /\ task[k].ans # "lost"
         /\ page.load = "ready" =>
              srv.fav = IF task[k].ans = "ok" THEN Heart ELSE task[k].was

PageInv == Typed /\ InCourse /\ SomebodyEnds /\ HeartFollows

-----------------------------------------------------------------------------
\* What a handler does to the screen when an answer is there: it ends or loads the event,
\* it leaves the page busy only if it goes on, and the heart is kept, or the one that was
\* loaded, or what a failed toggle puts back.
Shows(p) == IF platform = "mobile" THEN p.heart ELSE p.view.fav

Handled(k, ends) ==
  /\ page' \in Pages
  /\ IF ends THEN Done(k)
     ELSE Go(k, "get") /\ task[k].step = "answered" /\ task[k].op \notin {"load", "report", "favorite"}
  /\ page'.act \in MobileBusy =>
       /\ page'.act = page.act
       /\ Holds(task[k]) => ~ends /\ task[k].op # "join" /\ (task[k].op = "withdraw" => task[k].ans = "ok")
  /\ page'.busy \subseteq page.busy /\ (platform = "web" => page'.act = page.act)
  /\ ends /\ task[k].op # "load" /\ (platform = "web" \/ task[k].op = "rate") =>
       Flag(task[k].op) \notin page'.busy
  /\ IF task[k].op = "favorite"
     THEN page'.load = page.load /\ Shows(page') = IF task[k].ans = "ok" THEN Shows(page) ELSE task[k].was
     ELSE \/ (page'.load = "ready" => page.load = "ready") /\ Shows(page') = Shows(page)
          \/ Loads(task[k].got) /\ Shows(page') = task[k].got.fav

\* What loading the event silently makes of the mobile page.
LEMMA SilentEffect ==
  ASSUME NEW p \in Pages, NEW v \in Views(Part)
  PROVE  /\ SilentFetch(p, v) \in Pages
         /\ SilentFetch(p, v).act = p.act /\ SilentFetch(p, v).busy = p.busy
         /\ \/ SilentFetch(p, v) = p
            \/ Loads(v) /\ SilentFetch(p, v).heart = v.fav
<1>1. CASE v.status \in {"NONE", "MISSING"}
  BY <1>1 DEF SilentFetch
<1>2. CASE v.status \notin {"NONE", "MISSING"}
  <2> DEFINE w == [v EXCEPT !.part = Normalized(v), !.req = "NONE", !.inv = "NONE", !.fav = FALSE]
  <2>1. Normalized(v) \in Shown
    BY DEF Normalized, Views, Part, Shown
  <2>2. w \in Views(Part \cup {"JOINED", "INVITED"})
    BY <2>1 DEF Views, Shown, Part, Requests, Invited
  <2> DEFINE l == IF p.load = "loading" THEN p.load ELSE "ready"
  <2>3. l \in {"loading", "ready", "missing", "error"}
    OBVIOUS
  <2>4. v.fav \in BOOLEAN
    BY DEF Views
  <2>5. SilentFetch(p, v) = [p EXCEPT !.view = w, !.shown = Normalized(v), !.heart = v.fav, !.load = l]
    BY <1>2 DEF SilentFetch
  <2> HIDE DEF w, l
  <2>6. /\ SilentFetch(p, v) \in Pages
        /\ SilentFetch(p, v).act = p.act /\ SilentFetch(p, v).busy = p.busy
        /\ SilentFetch(p, v).heart = v.fav
    BY <2>1, <2>2, <2>3, <2>4, <2>5 DEF Pages
  <2> QED
    BY <1>2, <2>6 DEF Loads
<1> QED
  BY <1>1, <1>2

\* What setting the mobile page's actionState makes of it.
LEMMA ActEffect ==
  ASSUME NEW p \in Pages, NEW a \in ActionState
  PROVE  /\ [p EXCEPT !.act = a] \in Pages /\ [p EXCEPT !.act = a].act = a
         /\ [p EXCEPT !.act = a].busy = p.busy /\ [p EXCEPT !.act = a].heart = p.heart
         /\ [p EXCEPT !.act = a].load = p.load
BY DEF Pages

\* What the end of a load makes of the page.
LEMMA LoadEffect ==
  ASSUME NEW p \in Pages, NEW l \in {"loading", "missing", "error", "ready"}
  PROVE  /\ [p EXCEPT !.load = l] \in Pages /\ [p EXCEPT !.load = l].act = p.act
         /\ [p EXCEPT !.load = l].busy = p.busy /\ [p EXCEPT !.load = l].heart = p.heart
         /\ [p EXCEPT !.load = l].load = l /\ [p EXCEPT !.load = l].view = p.view
BY DEF Pages

\* The handlers of the mobile page.
LEMMA MobileHandles ==
  ASSUME Typed, InCourse, NEW k \in Tasks, MobileStep(k)
  PROVE  \E ends \in BOOLEAN : Handled(k, ends)
<1>1. /\ platform = "mobile" /\ task[k].step \in {"answered", "got"} /\ task[k] \in Handlers
      /\ page \in Pages
  BY DEF Typed, MobileStep
<1>2. task[k].got \in Views(Part) /\ task[k].was \in BOOLEAN /\ task[k].op \in Op
  BY <1>1 DEF Handlers
<1> DEFINE f == SilentFetch(page, task[k].got)
<1>3. /\ f \in Pages /\ f.act = page.act /\ f.busy = page.busy
      /\ f = page \/ (Loads(task[k].got) /\ f.heart = task[k].got.fav)
  BY <1>1, <1>2, SilentEffect
<1>4. \A p \in Pages : Shows(p) = p.heart
  BY <1>1 DEF Shows
<1>5. {"idle", "success_joined", "success_left", "success_requested", "success_reconfirmed",
       "success_reported"} \subseteq ActionState \ MobileBusy
  BY DEF ActionState, MobileBusy
(* A handler that ends.                                                    *)
<1>6. ASSUME Done(k), NEW a \in ActionState \ MobileBusy, task[k].op \notin {"rate", "favorite"},
             page' = [page EXCEPT !.act = a] \/ page' = [f EXCEPT !.act = a]
      PROVE  Handled(k, TRUE)
  <2>1. /\ page' \in Pages /\ page'.act = a /\ page'.busy = page.busy
        /\ \/ page'.heart = page.heart /\ page'.load = page.load
           \/ Loads(task[k].got) /\ page'.heart = task[k].got.fav
    <3>1. CASE page' = [page EXCEPT !.act = a]
      BY <1>1, <1>6, <3>1, ActEffect
    <3>2. CASE page' = [f EXCEPT !.act = a]
      BY <1>1, <1>3, <1>6, <3>2, ActEffect
    <3> QED
      BY <1>6, <3>1, <3>2
  <2>2. Shows(page') = page'.heart /\ Shows(page) = page.heart
    BY <1>1, <1>4, <2>1
  <2> QED
    BY <1>1, <1>6, <2>1, <2>2 DEF Handled
(* A handler that ends and was heard of before.                            *)
<1>7. ASSUME Done(k), task[k].op # "favorite", ~Holds(task[k]), page' = page \/ page' = f, task[k].op # "rate"
      PROVE  Handled(k, TRUE)
  <2>1. Shows(page') = page'.heart /\ Shows(page) = page.heart /\ page' \in Pages
    BY <1>1, <1>3, <1>4, <1>7
  <2> QED
    BY <1>1, <1>3, <1>7, <2>1 DEF Handled
(* A handler that goes on to load the event.                               *)
<1>8. ASSUME Go(k, "get"), task[k].step = "answered", task[k].op \notin {"load", "rate", "report", "favorite"},
             page' \in Pages, page'.busy = page.busy, page'.heart = page.heart, page'.load = page.load,
             \/ page'.act \notin MobileBusy
             \/ page'.act = page.act /\ task[k].op # "join" /\ (task[k].op = "withdraw" => task[k].ans = "ok")
      PROVE  Handled(k, FALSE)
  BY <1>1, <1>4, <1>8 DEF Handled
<1>9. CASE task[k].op = "load"
  <2>1. Done(k) /\ task[k].step = "got"
    BY <1>1, <1>9 DEF MobileStep, MobileLoaded, InCourse
  <2>2. \/ ~Loads(task[k].got) /\ page' = [page EXCEPT !.load = "missing"]
        \/ ~Loads(task[k].got) /\ page' = [page EXCEPT !.load = "error"]
        \/ Loads(task[k].got) /\ page' = [f EXCEPT !.load = "ready"]
    BY <1>1, <1>9 DEF MobileStep, MobileLoaded, Loads
  <2>3. Loads(task[k].got) => f.heart = task[k].got.fav
    <3>1. CASE f = page /\ Loads(task[k].got)
      BY <3>1, <1>1, <1>2 DEF SilentFetch, Loads, Pages
    <3> QED
      BY <1>3, <3>1
  <2>4. PICK p \in Pages, l \in {"missing", "error", "ready"} :
          /\ page' = [p EXCEPT !.load = l] /\ p.act = page.act /\ p.busy = page.busy
          /\ \/ p.heart = page.heart /\ l # "ready"
             \/ Loads(task[k].got) /\ p.heart = task[k].got.fav
    BY <1>1, <1>3, <2>2, <2>3
  <2>5. /\ page' \in Pages /\ page'.act = page.act /\ page'.busy = page.busy /\ page'.heart = p.heart
        /\ page'.load = l
    <3>1. l \in {"loading", "missing", "error", "ready"}
      BY <2>4
    <3>2. /\ [p EXCEPT !.load = l] \in Pages /\ [p EXCEPT !.load = l].act = p.act
          /\ [p EXCEPT !.load = l].busy = p.busy /\ [p EXCEPT !.load = l].heart = p.heart
          /\ [p EXCEPT !.load = l].load = l
      BY <2>4, <3>1, LoadEffect
    <3> QED
      BY <2>4, <3>2
  <2>6. Shows(page') = page'.heart /\ Shows(page) = page.heart
    BY <1>1, <1>4, <2>5
  <2>7. ~Holds(task[k])
    BY <1>9 DEF Holds, Acting
  <2> QED
    BY <1>9, <2>1, <2>4, <2>5, <2>6, <2>7 DEF Handled
<1>10. CASE task[k].op = "join"
  <2>1. MobileJoin(k)
    BY <1>1, <1>10 DEF MobileStep
  <2>2. CASE task[k].step = "answered" /\ task[k].ans = "ok"
    <3>1. page' = [page EXCEPT !.act = "success_joined"] /\ Go(k, "get")
      BY <2>1, <2>2 DEF MobileJoin
    <3>2. page'.act = "success_joined" /\ page' \in Pages /\ page'.busy = page.busy
          /\ page'.heart = page.heart /\ page'.load = page.load
      BY <1>1, <1>5, <3>1, ActEffect
    <3> QED
      BY <1>5, <1>8, <1>10, <2>2, <3>1, <3>2
  <2>3. CASE task[k].step = "answered" /\ task[k].ans # "ok"
    BY <1>5, <1>6, <1>10, <2>1, <2>3 DEF MobileJoin
  <2>4. CASE task[k].step # "answered"
    <3>1. ~Holds(task[k])
      BY <1>1, <1>10, <2>4 DEF Holds
    <3> QED
      BY <1>7, <1>10, <2>1, <2>4, <3>1 DEF MobileJoin
  <2> QED
    BY <2>2, <2>3, <2>4
<1>11. CASE task[k].op = "leave"
  <2>1. MobileLeave(k)
    BY <1>1, <1>11 DEF MobileStep
  <2>2. CASE task[k].step = "answered" /\ task[k].ans = "ok"
    <3>1. page' = [page EXCEPT !.shown = "LEAVED"] /\ Go(k, "get")
      BY <2>1, <2>2 DEF MobileLeave
    <3>2. /\ page'.act = page.act /\ page' \in Pages /\ page'.busy = page.busy
          /\ page'.heart = page.heart /\ page'.load = page.load
      BY <1>1, <3>1 DEF Pages, Shown
    <3> QED
      BY <1>8, <1>11, <2>2, <3>1, <3>2
  <2>3. CASE task[k].step = "answered" /\ task[k].ans # "ok"
    BY <1>5, <1>6, <1>11, <2>1, <2>3 DEF MobileLeave
  <2>4. CASE task[k].step # "answered"
    BY <1>5, <1>6, <1>11, <2>1, <2>4 DEF MobileLeave
  <2> QED
    BY <2>2, <2>3, <2>4
<1>12. CASE task[k].op = "request"
  <2>1. MobileRequest(k)
    BY <1>1, <1>12 DEF MobileStep
  <2>2. Shut("request") \in Asked \cup {"none"}
    BY <1>1 DEF Shut, Pages
  <2>3. CASE task[k].ans = "ok"
    <3> DEFINE p == [page EXCEPT !.view.part = "PENDING", !.shown = "PENDING",
                                 !.sheet = Shut("request")]
    <3>1. page' = [p EXCEPT !.act = "success_requested"]
      BY <1>1, <2>1, <2>3 DEF MobileRequest, Pages
    <3>2. p \in Pages /\ p.busy = page.busy /\ p.heart = page.heart /\ p.load = page.load
      BY <1>1, <2>2 DEF Pages, Views, Shown, Part
    <3> HIDE DEF p
    <3>3. /\ page'.act = "success_requested" /\ page' \in Pages /\ page'.busy = page.busy
          /\ page'.heart = page.heart /\ page'.load = page.load
      BY <1>5, <3>1, <3>2, ActEffect
    <3>4. Shows(page') = page'.heart /\ Shows(page) = page.heart
      BY <1>1, <1>4, <3>3
    <3> QED
      BY <1>1, <1>5, <1>12, <2>1, <3>3, <3>4 DEF MobileRequest, Handled
  <2>4. CASE task[k].ans # "ok"
    BY <1>5, <1>6, <1>12, <2>1, <2>4 DEF MobileRequest
  <2> QED
    BY <2>3, <2>4
<1>13. CASE task[k].op = "withdraw"
  <2>1. MobileWithdraw(k)
    BY <1>1, <1>13 DEF MobileStep
  <2>2. CASE task[k].step = "answered" /\ task[k].ans = "ok"
    <3>1. page' = [page EXCEPT !.shown = "NONE"] /\ Go(k, "get")
      BY <2>1, <2>2 DEF MobileWithdraw
    <3>2. /\ page'.act = page.act /\ page' \in Pages /\ page'.busy = page.busy
          /\ page'.heart = page.heart /\ page'.load = page.load
      BY <1>1, <3>1 DEF Pages, Shown
    <3> QED
      BY <1>8, <1>13, <2>2, <3>1, <3>2
  <2>3. CASE task[k].step = "answered" /\ task[k].ans = "refused"
    <3>1. page' = [page EXCEPT !.act = "idle"] /\ Go(k, "get")
      BY <2>1, <2>3 DEF MobileWithdraw
    <3>2. /\ page'.act = "idle" /\ page' \in Pages /\ page'.busy = page.busy
          /\ page'.heart = page.heart /\ page'.load = page.load
      BY <1>1, <1>5, <3>1, ActEffect
    <3> QED
      BY <1>5, <1>8, <1>13, <2>3, <3>1, <3>2
  <2>4. CASE task[k].step = "answered" /\ task[k].ans \notin {"ok", "refused"}
    BY <1>5, <1>6, <1>13, <2>1, <2>4 DEF MobileWithdraw
  <2>5. CASE task[k].step # "answered" /\ task[k].ans = "ok"
    BY <1>5, <1>6, <1>13, <2>1, <2>5 DEF MobileWithdraw
  <2>6. CASE task[k].step # "answered" /\ task[k].ans # "ok"
    <3>1. page' = [f EXCEPT !.act = f.act] /\ Done(k)
      BY <2>1, <2>6 DEF MobileWithdraw
    <3>2. page' = f
      BY <1>3, <3>1 DEF Pages
    <3>3. ~Holds(task[k])
      BY <1>1, <1>13, <2>6 DEF Holds
    <3> QED
      BY <1>7, <1>13, <3>1, <3>2, <3>3
  <2> QED
    BY <2>2, <2>3, <2>4, <2>5, <2>6
<1>14. CASE task[k].op = "reconfirm"
  <2>1. MobileReconfirm(k)
    BY <1>1, <1>14 DEF MobileStep
  <2>2. CASE task[k].step = "answered" /\ task[k].ans = "ok"
    <3>1. /\ page' = [page EXCEPT !.shown = "JOINED", !.view.part = "JOINED", !.view.reconfirm = FALSE]
          /\ Go(k, "get")
      BY <2>1, <2>2 DEF MobileReconfirm
    <3>2. /\ page'.act = page.act /\ page' \in Pages /\ page'.busy = page.busy
          /\ page'.heart = page.heart /\ page'.load = page.load
      BY <1>1, <3>1 DEF Pages, Shown, Views
    <3> QED
      BY <1>8, <1>14, <2>2, <3>1, <3>2
  <2>3. CASE task[k].step = "answered" /\ task[k].ans # "ok"
    BY <1>5, <1>6, <1>14, <2>1, <2>3 DEF MobileReconfirm
  <2>4. CASE task[k].step # "answered"
    BY <1>5, <1>6, <1>14, <2>1, <2>4 DEF MobileReconfirm
  <2> QED
    BY <2>2, <2>3, <2>4
<1>15. CASE task[k].op = "accept"
  <2>1. MobileAccept(k)
    BY <1>1, <1>15 DEF MobileStep
  <2>2. CASE task[k].step = "answered" /\ task[k].ans = "ok"
    BY <1>1, <1>8, <1>15, <2>1, <2>2 DEF MobileAccept
  <2>3. CASE task[k].step = "answered" /\ task[k].ans # "ok"
    BY <1>5, <1>6, <1>15, <2>1, <2>3 DEF MobileAccept
  <2>4. CASE task[k].step # "answered"
    <3> DEFINE p == [f EXCEPT !.shown = "JOINED"]
    <3>1. page' = [p EXCEPT !.act = "success_joined"] /\ Done(k)
      BY <1>3, <2>1, <2>4 DEF MobileAccept, Pages
    <3>2. /\ p \in Pages /\ p.busy = page.busy
          /\ \/ p.heart = page.heart /\ p.load = page.load
             \/ Loads(task[k].got) /\ p.heart = task[k].got.fav
      BY <1>3 DEF Pages, Shown
    <3> HIDE DEF p
    <3>3. /\ page'.act = "success_joined" /\ page' \in Pages /\ page'.busy = page.busy
          /\ \/ page'.heart = page.heart /\ page'.load = page.load
             \/ Loads(task[k].got) /\ page'.heart = task[k].got.fav
      BY <1>5, <3>1, <3>2, ActEffect
    <3>4. Shows(page') = page'.heart /\ Shows(page) = page.heart
      BY <1>1, <1>4, <3>3
    <3> QED
      BY <1>1, <1>5, <1>15, <3>1, <3>3, <3>4 DEF Handled
  <2> QED
    BY <2>2, <2>3, <2>4
<1>16. CASE task[k].op = "decline"
  <2>1. MobileDecline(k)
    BY <1>1, <1>16 DEF MobileStep
  <2>2. CASE task[k].ans = "ok"
    <3> DEFINE p == [page EXCEPT !.shown = "NONE", !.view = NoView, !.load = "missing"]
    <3>1. page' = [p EXCEPT !.act = "idle"] /\ Done(k)
      BY <1>1, <2>1, <2>2 DEF MobileDecline, Pages
    <3>2. p \in Pages /\ p.busy = page.busy /\ p.heart = page.heart /\ p.load = "missing"
      BY <1>1 DEF Pages, Views, Shown, NoView, Statuses, Part, Requests, Invited
    <3> HIDE DEF p
    <3>3. /\ page'.act = "idle" /\ page' \in Pages /\ page'.busy = page.busy
          /\ page'.heart = page.heart /\ page'.load = "missing"
      BY <1>5, <3>1, <3>2, ActEffect
    <3>4. Shows(page') = page'.heart /\ Shows(page) = page.heart
      BY <1>1, <1>4, <3>3
    <3> QED
      BY <1>1, <1>5, <1>16, <3>1, <3>3, <3>4 DEF Handled
  <2>3. CASE task[k].ans # "ok"
    BY <1>5, <1>6, <1>16, <2>1, <2>3 DEF MobileDecline
  <2> QED
    BY <2>2, <2>3
<1>17. CASE task[k].op = "favorite"
  <2>1. MobileFavorite(k)
    BY <1>1, <1>17 DEF MobileStep
  <2>2. /\ page' \in Pages /\ page'.act = page.act /\ page'.busy = page.busy /\ page'.load = page.load
        /\ page'.heart = IF task[k].ans = "ok" THEN page.heart ELSE task[k].was
    BY <1>1, <1>2, <2>1 DEF MobileFavorite, Pages
  <2>3. Shows(page') = page'.heart /\ Shows(page) = page.heart
    BY <1>1, <1>4, <2>2
  <2> QED
    BY <1>1, <1>17, <2>1, <2>2, <2>3 DEF Handled, MobileFavorite, Holds, Acting
<1>18. CASE task[k].op = "report"
  <2>1. MobileReport(k)
    BY <1>1, <1>18 DEF MobileStep
  <2>2. Shut("report") \in Asked \cup {"none"}
    BY <1>1 DEF Shut, Pages
  <2>3. CASE task[k].ans = "ok"
    <3> DEFINE p == [page EXCEPT !.sheet = Shut("report")]
    <3>1. page' = [p EXCEPT !.act = "success_reported"]
      BY <1>1, <2>1, <2>3 DEF MobileReport, Pages
    <3>2. p \in Pages /\ p.busy = page.busy /\ p.heart = page.heart /\ p.load = page.load
      BY <1>1, <2>2 DEF Pages
    <3> HIDE DEF p
    <3>3. /\ page'.act = "success_reported" /\ page' \in Pages /\ page'.busy = page.busy
          /\ page'.heart = page.heart /\ page'.load = page.load
      BY <1>5, <3>1, <3>2, ActEffect
    <3>4. Shows(page') = page'.heart /\ Shows(page) = page.heart
      BY <1>1, <1>4, <3>3
    <3> QED
      BY <1>1, <1>5, <1>18, <2>1, <3>3, <3>4 DEF MobileReport, Handled
  <2>4. CASE task[k].ans # "ok"
    BY <1>5, <1>6, <1>18, <2>1, <2>4 DEF MobileReport
  <2> QED
    BY <2>3, <2>4
<1>19. CASE task[k].op = "rate"
  <2>1. MobileRate(k)
    BY <1>1, <1>19 DEF MobileStep
  <2>2. ~Holds(task[k]) /\ Flag(task[k].op) = "rate"
    BY <1>19 DEF Holds, Acting, Flag
  <2>3. CASE task[k].step = "answered" /\ task[k].ans = "ok"
    BY <1>1, <1>19, <2>1, <2>2, <2>3 DEF MobileRate, Handled
  <2>4. CASE ~(task[k].step = "answered" /\ task[k].ans = "ok")
    <3>1. page' = [f EXCEPT !.busy = f.busy \ {"rate"}] /\ Done(k)
      BY <2>1, <2>4 DEF MobileRate
    <3>2. /\ page' \in Pages /\ page'.act = page.act /\ page'.busy = page.busy \ {"rate"}
          /\ \/ page'.heart = page.heart /\ page'.load = page.load
             \/ Loads(task[k].got) /\ page'.heart = task[k].got.fav
      BY <1>3, <3>1 DEF Pages
    <3>3. Shows(page') = page'.heart /\ Shows(page) = page.heart
      BY <1>1, <1>4, <3>2
    <3> QED
      BY <1>1, <1>19, <2>2, <3>1, <3>2, <3>3 DEF Handled
  <2> QED
    BY <2>3, <2>4
<1> QED
  BY <1>2, <1>9, <1>10, <1>11, <1>12, <1>13, <1>14, <1>15, <1>16, <1>17, <1>18, <1>19 DEF Op

\* What clearing a handler's flag makes of the web page.
LEMMA FreeEffect ==
  ASSUME NEW p \in Pages, NEW k
  PROVE  /\ Free(p, k) \in Pages /\ Free(p, k).act = p.act /\ Free(p, k).load = p.load
         /\ Free(p, k).busy = p.busy \ {Flag(task[k].op)} /\ Free(p, k).view = p.view
BY DEF Free, Pages

\* The handlers of the web page.
LEMMA WebHandles ==
  ASSUME Typed, InCourse, NEW k \in Tasks, WebStep(k), page.act = "idle"
  PROVE  \E ends \in BOOLEAN : Handled(k, ends)
<1>1. /\ platform = "web" /\ task[k].step \in {"answered", "got"} /\ task[k] \in Handlers
      /\ page \in Pages
  BY DEF Typed, WebStep
<1>2. task[k].got \in Views(Part) /\ task[k].was \in BOOLEAN /\ task[k].op \in Op
  BY <1>1 DEF Handlers
<1>3. task[k].got \in Views(Part \cup {"JOINED", "INVITED"}) /\ task[k].got.fav \in BOOLEAN
  BY <1>2 DEF Views
<1> DEFINE r == Refreshed(k)
           f == Free(page, k)
           g == Free(r, k)
           flag == Flag(task[k].op)
<1>4. /\ r \in Pages /\ r.act = page.act /\ r.load = page.load /\ r.busy = page.busy
      /\ r = page \/ (Loads(task[k].got) /\ r.view = task[k].got)
  BY <1>1, <1>3 DEF Refreshed, Loaded, Loads, Pages
<1>5. /\ f \in Pages /\ f.act = page.act /\ f.load = page.load /\ f.busy = page.busy \ {flag}
      /\ f.view = page.view
      /\ g \in Pages /\ g.act = page.act /\ g.load = page.load /\ g.busy = page.busy \ {flag}
      /\ g.view.fav = page.view.fav \/ (Loads(task[k].got) /\ g.view.fav = task[k].got.fav)
  BY <1>1, <1>4, FreeEffect
<1> HIDE DEF r, f, g, flag
<1>6. \A p \in Pages : Shows(p) = p.view.fav
  BY <1>1 DEF Shows
<1>7. "idle" \notin MobileBusy
  BY DEF MobileBusy
(* A handler that ends.                                                    *)
<1>8. ASSUME Done(k), task[k].op # "favorite", page' \in Pages, page'.act = page.act,
             page'.load = page.load, page'.busy = page.busy \ {flag},
             \/ page'.view.fav = page.view.fav
             \/ Loads(task[k].got) /\ page'.view.fav = task[k].got.fav
      PROVE  Handled(k, TRUE)
  <2>1. Shows(page') = page'.view.fav /\ Shows(page) = page.view.fav
    BY <1>1, <1>6, <1>8
  <2> QED
    BY <1>7, <1>8, <2>1 DEF Handled, flag
<1>9. ASSUME Done(k), task[k].op # "favorite", page' = f \/ page' = g
      PROVE  Handled(k, TRUE)
  BY <1>5, <1>8, <1>9
(* A handler that goes on to load the event.                               *)
<1>10. ASSUME page' = page, Go(k, "get"), task[k].step = "answered",
              task[k].op \notin {"load", "report", "favorite"}
       PROVE  Handled(k, FALSE)
  BY <1>1, <1>7, <1>10 DEF Handled
<1>11. CASE task[k].op = "load"
  <2>1. Done(k) /\ task[k].step = "got"
    BY <1>1, <1>11 DEF WebStep, WebLoaded, InCourse
  <2>2. \/ page' = [page EXCEPT !.load = "missing"]
        \/ page' = [page EXCEPT !.load = "error"]
        \/ Loads(task[k].got) /\ page' = [page EXCEPT !.load = "ready", !.view = task[k].got]
    BY <1>1, <1>11 DEF WebStep, WebLoaded, Loads
  <2>3. /\ page' \in Pages /\ page'.act = page.act /\ page'.busy = page.busy
        /\ \/ page'.view.fav = page.view.fav /\ page'.load # "ready"
           \/ Loads(task[k].got) /\ page'.view.fav = task[k].got.fav
    <3>1. CASE page' = [page EXCEPT !.load = "missing"]
      BY <1>1, <3>1, LoadEffect
    <3>2. CASE page' = [page EXCEPT !.load = "error"]
      BY <1>1, <3>2, LoadEffect
    <3>3. CASE Loads(task[k].got) /\ page' = [page EXCEPT !.load = "ready", !.view = task[k].got]
      BY <1>1, <1>3, <3>3 DEF Pages
    <3> QED
      BY <2>2, <3>1, <3>2, <3>3
  <2>4. Shows(page') = page'.view.fav /\ Shows(page) = page.view.fav
    BY <1>1, <1>6, <2>3
  <2> QED
    BY <1>7, <1>11, <2>1, <2>3, <2>4 DEF Handled
<1>12. CASE task[k].op = "join"
  <2>1. WebJoin(k)
    BY <1>1, <1>12 DEF WebStep
  <2>2. CASE task[k].step = "answered" /\ task[k].ans = "ok"
    BY <1>10, <1>12, <2>1, <2>2 DEF WebJoin
  <2>3. CASE task[k].step = "answered" /\ task[k].ans # "ok"
    BY <1>9, <1>12, <2>1, <2>3 DEF WebJoin, f
  <2>4. CASE task[k].step # "answered"
    <3>1. page' = [g EXCEPT !.view.part = "JOINED", !.view.req = "NONE"] /\ Done(k)
      BY <2>1, <2>4 DEF WebJoin, g, r
    <3>2. /\ page' \in Pages /\ page'.act = g.act /\ page'.busy = g.busy /\ page'.load = g.load
          /\ page'.view.fav = g.view.fav
      BY <1>5, <3>1 DEF Pages, Views, Requests
    <3> QED
      BY <1>5, <1>8, <1>12, <3>1, <3>2
  <2> QED
    BY <2>2, <2>3, <2>4
<1>13. CASE task[k].op = "leave"
  <2>1. WebLeave(k)
    BY <1>1, <1>13 DEF WebStep
  <2> QED
    BY <1>9, <1>10, <1>13, <2>1 DEF WebLeave, g, r
<1>14. CASE task[k].op = "request"
  <2>1. WebRequest(k)
    BY <1>1, <1>14 DEF WebStep
  <2>2. CASE task[k].step = "answered" /\ task[k].ans = "ok"
    BY <1>10, <1>14, <2>1, <2>2 DEF WebRequest
  <2>3. CASE task[k].step = "answered" /\ task[k].ans # "ok"
    BY <1>9, <1>14, <2>1, <2>3 DEF WebRequest, f
  <2>4. CASE task[k].step # "answered"
    <3>1. page' = [g EXCEPT !.view.req = "PENDING"] /\ Done(k)
      BY <2>1, <2>4 DEF WebRequest, g, r
    <3>2. /\ page' \in Pages /\ page'.act = g.act /\ page'.busy = g.busy /\ page'.load = g.load
          /\ page'.view.fav = g.view.fav
      BY <1>5, <3>1 DEF Pages, Views, Requests
    <3> QED
      BY <1>5, <1>8, <1>14, <3>1, <3>2
  <2> QED
    BY <2>2, <2>3, <2>4
<1>15. CASE task[k].op = "withdraw"
  <2>1. WebWithdraw(k)
    BY <1>1, <1>15 DEF WebStep
  <2>2. CASE task[k].step = "answered" /\ task[k].ans \in {"ok", "refused"}
    BY <1>10, <1>15, <2>1, <2>2 DEF WebWithdraw
  <2>3. CASE ~(task[k].step = "answered" /\ task[k].ans \in {"ok", "refused"})
    <3>1. Shut("withdraw") \in Asked \cup {"none"}
      BY <1>1 DEF Shut, Pages
    <3>2. /\ \/ page' = [g EXCEPT !.view.req = "NONE", !.sheet = Shut("withdraw")]
             \/ page' = [g EXCEPT !.sheet = Shut("withdraw")]
          /\ Done(k)
      BY <2>1, <2>3 DEF WebWithdraw, g, r
    <3>3. /\ page' \in Pages /\ page'.act = g.act /\ page'.busy = g.busy /\ page'.load = g.load
          /\ page'.view.fav = g.view.fav
      <4>1. ASSUME NEW s \in Asked \cup {"none"}, page' = [g EXCEPT !.view.req = "NONE", !.sheet = s]
            PROVE  /\ page' \in Pages /\ page'.act = g.act /\ page'.busy = g.busy
                   /\ page'.load = g.load /\ page'.view.fav = g.view.fav
        BY <1>5, <4>1 DEF Pages, Views, Requests
      <4>2. ASSUME NEW s \in Asked \cup {"none"}, page' = [g EXCEPT !.sheet = s]
            PROVE  /\ page' \in Pages /\ page'.act = g.act /\ page'.busy = g.busy
                   /\ page'.load = g.load /\ page'.view.fav = g.view.fav
        BY <1>5, <4>2 DEF Pages
      <4> QED
        BY <3>1, <3>2, <4>1, <4>2
    <3> QED
      BY <1>5, <1>8, <1>15, <3>2, <3>3
  <2> QED
    BY <2>2, <2>3
<1>16. CASE task[k].op = "reconfirm"
  <2>1. WebReconfirm(k)
    BY <1>1, <1>16 DEF WebStep
  <2>2. CASE task[k].step = "answered" /\ task[k].ans = "ok"
    BY <1>10, <1>16, <2>1, <2>2 DEF WebReconfirm
  <2>3. CASE ~(task[k].step = "answered" /\ task[k].ans = "ok") /\ (task[k].step = "answered" \/ ~Loaded(k))
    BY <1>9, <1>16, <2>1, <2>3 DEF WebReconfirm, f
  <2>4. CASE ~(task[k].step = "answered" \/ ~Loaded(k))
    <3>1. /\ page' = [g EXCEPT !.view.part = "JOINED", !.view.req = "NONE", !.view.reconfirm = FALSE]
          /\ Done(k)
      BY <2>1, <2>4 DEF WebReconfirm, g, r
    <3>2. /\ page' \in Pages /\ page'.act = g.act /\ page'.busy = g.busy /\ page'.load = g.load
          /\ page'.view.fav = g.view.fav
      BY <1>5, <3>1 DEF Pages, Views, Requests
    <3> QED
      BY <1>5, <1>8, <1>16, <3>1, <3>2
  <2> QED
    BY <2>2, <2>3, <2>4
<1>17. CASE task[k].op = "favorite"
  <2>1. WebFavorite(k)
    BY <1>1, <1>17 DEF WebStep
  <2>2. /\ page' = IF task[k].ans = "ok" THEN f ELSE [f EXCEPT !.view.fav = task[k].was]
        /\ Done(k)
    BY <2>1 DEF WebFavorite, f
  <2>3. /\ page' \in Pages /\ page'.act = f.act /\ page'.busy = f.busy /\ page'.load = f.load
        /\ page'.view.fav = IF task[k].ans = "ok" THEN f.view.fav ELSE task[k].was
    BY <1>2, <1>5, <2>2 DEF Pages, Views
  <2>4. Shows(page') = page'.view.fav /\ Shows(page) = page.view.fav
    BY <1>1, <1>6, <2>3
  <2> QED
    BY <1>5, <1>7, <1>17, <2>2, <2>3, <2>4 DEF Handled, flag
<1>18. CASE task[k].op = "report"
  <2>1. WebReport(k)
    BY <1>1, <1>18 DEF WebStep
  <2>2. PICK s \in Asked \cup {"none"} : page' = [f EXCEPT !.sheet = s]
    <3>1. Shut("report") \in Asked \cup {"none"} /\ f.sheet \in Asked \cup {"none"}
      BY <1>1, <1>5 DEF Shut, Pages
    <3> QED
      BY <2>1, <3>1 DEF WebReport, f
  <2>3. /\ page' \in Pages /\ page'.act = f.act /\ page'.busy = f.busy /\ page'.load = f.load
        /\ page'.view.fav = f.view.fav
    BY <1>5, <2>2 DEF Pages
  <2> QED
    BY <1>5, <1>8, <1>18, <2>1, <2>3 DEF WebReport
<1>19. CASE task[k].op = "rate"
  <2>1. WebRate(k)
    BY <1>1, <1>19 DEF WebStep
  <2> QED
    BY <1>9, <1>10, <1>19, <2>1 DEF WebRate, g, r
<1>20. task[k].op \notin {"accept", "decline"}
  BY <1>1 DEF InCourse
<1> QED
  BY <1>2, <1>11, <1>12, <1>13, <1>14, <1>15, <1>16, <1>17, <1>18, <1>19, <1>20 DEF Op

-----------------------------------------------------------------------------
\* A step of one handler that leaves the page, the rows and the history alone and neither
\* begins nor ends it.
LEMMA Proceeds ==
  ASSUME PageInv, NEW k \in Tasks, NEW t \in Handlers, task' = [task EXCEPT ![k] = t],
         UNCHANGED <<fixed_vars, page, srv>>,
         trouble' \in 0..MaxTrouble, drift \subseteq drift', drift' \subseteq {"rows", "heart"},
         Running(task[k]) /\ Running(t), t.op = task[k].op, t.was = task[k].was,
         t.step # "got" => t.got.status = "NONE",
         t.step \in {"idle", "upload", "resolve", "sent"} => t.ans = "none",
         t.op = "load" => t.step \in {"get", "got"},
         t.op \in {"report", "favorite"} => t.step \in {"sent", "answered"},
         Holds(task[k]) => Holds(t),
         "heart" \notin drift' => /\ Loads(t.got) => t.got.fav = srv.fav
                                  /\ t.op = "favorite" => t.ans # "lost" /\ (t.ans = "ok" <=> task[k].ans = "ok")
  PROVE  PageInv'
<1>1. /\ Typed /\ InCourse /\ SomebodyEnds /\ HeartFollows /\ task \in [Tasks -> Handlers]
      /\ \A q \in Tasks : task'[q] = IF q = k THEN t ELSE task[q]
  BY DEF PageInv, Typed
<1>2. Typed'
  BY <1>1 DEF Typed, fixed_vars
<1>3. InCourse'
  BY <1>1 DEF InCourse, fixed_vars
<1>4. SomebodyEnds'
  <2>1. \A q \in Tasks : (Holds(task[q]) => Holds(task'[q])) /\ (Running(task[q]) => Running(task'[q]))
                         /\ task'[q].op = task[q].op
    BY <1>1
  <2> QED
    BY <1>1, <2>1 DEF SomebodyEnds, fixed_vars
<1>5. HeartFollows'
  <2> SUFFICES ASSUME "heart" \notin drift' PROVE HeartFollows'
    BY DEF HeartFollows
  <2>1. "heart" \notin drift /\ Heart' = Heart
    BY DEF Heart, fixed_vars
  <2>2. \A q \in Tasks : /\ Running(task'[q]) <=> Running(task[q])
                         /\ Toggling(task'[q]) <=> Toggling(task[q])
                         /\ task'[q].op = task[q].op /\ task'[q].was = task[q].was
    BY <1>1 DEF Toggling
  <2>3. \A q \in Tasks : Loads(task'[q].got) => task'[q].got.fav = srv.fav
    BY <1>1, <2>1 DEF HeartFollows
  <2>4. \A q \in Tasks : Toggling(task[q]) => task'[q].ans # "lost" /\ (task'[q].ans = "ok" <=> task[q].ans = "ok")
    BY <1>1, <2>1 DEF HeartFollows, Toggling
  <2> QED
    BY <1>1, <2>1, <2>2, <2>3, <2>4 DEF HeartFollows
<1> QED
  BY <1>2, <1>3, <1>4, <1>5 DEF PageInv

\* A handler that uploaded, looked the invitation up, loaded the event or lost an answer.
LEMMA ProceedingStep ==
  ASSUME PageInv, NEW k \in Tasks,
         Uploaded(k) \/ Resolved(k) \/ DetailServed(k) \/ DetailLost(k) \/ Lost(k)
  PROVE  PageInv'
<1>1. /\ Typed /\ InCourse /\ HeartFollows /\ task[k] \in Handlers /\ srv \in Rows
      /\ trouble \in 0..MaxTrouble /\ drift \subseteq {"rows", "heart"}
  BY DEF PageInv, Typed
<1>2. /\ task[k].step # "got" => task[k].got.status = "NONE"
      /\ task[k].step \in {"idle", "upload", "resolve", "sent"} => task[k].ans = "none"
      /\ task[k].op = "load" => task[k].step \in {"idle", "get", "got"}
      /\ task[k].op \in {"report", "favorite"} => task[k].step \in {"sent", "answered"}
  BY <1>1 DEF InCourse
<1>3. Trouble => trouble' \in 0..MaxTrouble
  BY <1>1, PageAssumption DEF Trouble
<1>4. CASE Uploaded(k)
  <2>1. PICK t : t = [task[k] EXCEPT !.step = "sent"]
    OBVIOUS
  <2>2. /\ t \in Handlers /\ t.step = "sent" /\ t.op = task[k].op /\ t.was = task[k].was
        /\ t.got = task[k].got /\ t.ans = task[k].ans
    BY <1>1, <2>1 DEF Handlers, Steps
  <2>3. /\ task[k].step = "upload" /\ task' = [task EXCEPT ![k] = t]
        /\ UNCHANGED <<fixed_vars, page, srv, trouble, drift>>
    BY <1>4, <2>1 DEF Uploaded, Go
  <2> QED
    BY <1>1, <1>2, <2>2, <2>3, Proceeds DEF Running, Holds, Loads
<1>5. CASE Resolved(k)
  <2>1. PICK t : /\ \/ t = [task[k] EXCEPT !.step = "sent"]
                    \/ t = [task[k] EXCEPT !.step = "answered", !.ans = "refused"]
                 /\ task' = [task EXCEPT ![k] = t]
    BY <1>5 DEF Resolved, Go
  <2>2. /\ t \in Handlers /\ t.step \in {"sent", "answered"} /\ t.op = task[k].op /\ t.was = task[k].was
        /\ t.got = task[k].got /\ (t.step = "sent" => t.ans = task[k].ans)
    BY <1>1, <2>1 DEF Handlers, Steps
  <2>3. task[k].step = "resolve" /\ UNCHANGED <<fixed_vars, page, srv, trouble, drift>>
    BY <1>5 DEF Resolved
  <2> QED
    BY <1>1, <1>2, <2>1, <2>2, <2>3, Proceeds DEF Running, Holds, Loads
<1>6. CASE DetailServed(k) \/ DetailLost(k)
  <2>1. PICK v : /\ v \in Views(Part) /\ task' = [task EXCEPT ![k].step = "got", ![k].got = v]
                 /\ \/ drift' = drift /\ trouble' = trouble /\ (Loads(v) => v.fav = srv.fav)
                    \/ "heart" \in drift' /\ drift' = drift \cup {"rows", "heart"} /\ Trouble
    <3>1. Detail \in Views(Part) /\ (Loads(Detail) => Detail.fav = srv.fav)
      <4>1. Missing \in Views(Part) /\ Missing.status = "MISSING"
        BY DEF Missing, NoView, Views, Statuses, Part, Requests, Invited
      <4> QED
        BY <1>1, <4>1 DEF Detail, Views, Statuses, Rows, Loads
    <3>2. NoView \in Views(Part)
      BY DEF NoView, Views, Statuses, Part, Requests, Invited
    <3> QED
      BY <1>6, <3>1, <3>2 DEF DetailServed, DetailLost
  <2>2. PICK t : t = [task[k] EXCEPT !.step = "got", !.got = v]
    OBVIOUS
  <2>3. /\ t \in Handlers /\ t.step = "got" /\ t.op = task[k].op /\ t.was = task[k].was
        /\ t.got = v /\ t.ans = task[k].ans
    BY <1>1, <2>1, <2>2 DEF Handlers, Steps
  <2>4. task' = [task EXCEPT ![k] = t]
    BY <1>1, <2>1, <2>2 DEF Typed
  <2>5. task[k].step = "get" /\ UNCHANGED <<fixed_vars, page, srv>>
    BY <1>6 DEF DetailServed, DetailLost
  <2>6. /\ trouble' \in 0..MaxTrouble /\ drift \subseteq drift' /\ drift' \subseteq {"rows", "heart"}
        /\ "heart" \notin drift' => (Loads(t.got) => t.got.fav = srv.fav)
    BY <1>1, <1>3, <2>1, <2>3
  <2> QED
    BY <1>1, <1>2, <2>3, <2>4, <2>5, <2>6, Proceeds DEF Running, Holds
<1>7. CASE Lost(k)
  <2>1. PICK t : t = [task[k] EXCEPT !.step = "answered", !.ans = "lost"]
    OBVIOUS
  <2>2. /\ t \in Handlers /\ t.step = "answered" /\ t.op = task[k].op /\ t.was = task[k].was
        /\ t.got = task[k].got
    BY <1>1, <2>1 DEF Handlers, Steps
  <2>3. /\ task[k].step \in {"upload", "resolve", "sent", "answered"} /\ task' = [task EXCEPT ![k] = t]
        /\ UNCHANGED <<fixed_vars, page, srv>> /\ Trouble
        /\ drift' = drift \cup {Concerns(task[k].op)}
    BY <1>1, <1>7, <2>1 DEF Lost, Typed
  <2>4. Concerns(task[k].op) = IF task[k].op = "favorite" THEN "heart" ELSE "rows"
    BY DEF Concerns
  <2>5. /\ trouble' \in 0..MaxTrouble /\ drift \subseteq drift' /\ drift' \subseteq {"rows", "heart"}
        /\ "heart" \notin drift' => task[k].op # "favorite"
    BY <1>1, <1>3, <2>3, <2>4
  <2> QED
    BY <1>1, <1>2, <2>2, <2>3, <2>5, Proceeds DEF Running, Holds, Loads
<1> QED
  BY <1>4, <1>5, <1>6, <1>7

\* What a request that was accepted leaves of the rows: only a toggle changes the heart.
LEMMA EffectsTyped ==
  ASSUME Typed, NEW op \in Op, NEW was \in BOOLEAN, Accepts(op), NEW row \in Effects(op, was)
  PROVE  /\ row \in Rows /\ (row.late => row.part = "LEAVED")
         /\ row.fav = IF op = "favorite" THEN ~was ELSE srv.fav
         /\ op = "report" => row = srv
<1>1. srv \in Rows /\ (srv.late => srv.part = "LEAVED")
  BY DEF Typed
<1>2. ASSUME NEW seats \in Seats
      PROVE  /\ Admitted(seats) \in Rows /\ ~Admitted(seats).late
             /\ Admitted(seats).part = "APPROVED" /\ Admitted(seats).fav = srv.fav
  BY <1>1 DEF Admitted, Rows, Part
<1>3. CASE op = "join"
  BY <1>2, <1>3 DEF Effects
<1>4. CASE op = "leave"
  <2>1. PICK seats \in SeatsLeft : row = [srv EXCEPT !.part = "LEAVED", !.late = srv.started,
                                                    !.seats = seats]
    BY <1>4 DEF Effects
  <2>2. seats \in Seats
    BY <1>1 DEF SeatsLeft, Rows, Seats
  <2> QED
    BY <1>1, <1>4, <2>1, <2>2 DEF Rows, Part
<1>5. CASE op = "request"
  <2>1. row = [srv EXCEPT !.req = "PENDING"]
    BY <1>5 DEF Effects
  <2> QED
    BY <1>1, <1>5, <2>1 DEF Rows, Requests
<1>6. CASE op = "withdraw"
  <2>1. row = [srv EXCEPT !.req = "CANCELED"]
    BY <1>6 DEF Effects
  <2> QED
    BY <1>1, <1>6, <2>1 DEF Rows, Requests
<1>7. CASE op = "reconfirm"
  <2>1. PICK seats \in SeatsConfirmed : row = [srv EXCEPT !.part = "APPROVED", !.seats = seats]
    BY <1>7 DEF Effects
  <2>2. srv.part = "PENDING"
    BY <1>7 DEF Accepts, CanReconfirm
  <2>3. seats \in Seats
    BY <1>1 DEF SeatsConfirmed, Rows, Seats
  <2> QED
    BY <1>1, <1>7, <2>1, <2>2, <2>3 DEF Rows, Part
<1>8. CASE op = "accept"
  <2>1. PICK seats \in Seats : row = [Admitted(seats) EXCEPT !.inv = "ACCEPTED"]
    BY <1>8 DEF Effects
  <2> QED
    BY <1>2, <1>8, <2>1 DEF Rows, Invited
<1>9. CASE op = "decline"
  <2>1. row = [srv EXCEPT !.inv = "DECLINED"]
    BY <1>9 DEF Effects
  <2> QED
    BY <1>1, <1>9, <2>1 DEF Rows, Invited
<1>10. CASE op = "favorite"
  <2>1. row = [srv EXCEPT !.fav = ~was]
    BY <1>10 DEF Effects
  <2> QED
    BY <1>1, <1>10, <2>1 DEF Rows
<1>11. CASE op \in {"load", "report", "rate"}
  <2>1. row = srv
    BY <1>11 DEF Effects
  <2> QED
    BY <1>1, <1>11, <2>1
<1> QED
  BY <1>3, <1>4, <1>5, <1>6, <1>7, <1>8, <1>9, <1>10, <1>11 DEF Op

\* The server executes or refuses a request.
LEMMA ServedStep ==
  ASSUME PageInv, NEW k \in Tasks, Served(k)
  PROVE  PageInv'
<1>1. /\ Typed /\ InCourse /\ SomebodyEnds /\ HeartFollows /\ task \in [Tasks -> Handlers]
      /\ task[k] \in Handlers /\ srv \in Rows /\ task[k].step = "sent"
      /\ UNCHANGED <<fixed_vars, page, trouble, drift>>
  BY DEF PageInv, Typed, Served
<1>2. /\ task[k].got.status = "NONE" /\ task[k].ans = "none" /\ task[k].op # "load"
      /\ task[k].op \in Op /\ task[k].was \in BOOLEAN
  BY <1>1 DEF InCourse, Handlers
<1>3. PICK a \in {"ok", "refused"} :
        /\ task' = [task EXCEPT ![k].step = "answered", ![k].ans = a]
        /\ IF a = "ok" THEN Accepts(task[k].op) /\ srv' \in Effects(task[k].op, task[k].was)
           ELSE srv' = srv
  BY DEF Served
<1>4. PICK t : t = [task[k] EXCEPT !.step = "answered", !.ans = a]
  OBVIOUS
<1>5. /\ t \in Handlers /\ t.step = "answered" /\ t.ans = a /\ t.op = task[k].op
      /\ t.was = task[k].was /\ t.got = task[k].got
  BY <1>1, <1>4 DEF Handlers, Steps
<1>6. task' \in [Tasks -> Handlers] /\ \A q \in Tasks : task'[q] = IF q = k THEN t ELSE task[q]
  BY <1>1, <1>3, <1>4, <1>5
<1>7. /\ srv' \in Rows /\ (srv'.late => srv'.part = "LEAVED")
      /\ srv'.fav = IF a = "ok" /\ task[k].op = "favorite" THEN ~task[k].was ELSE srv.fav
  BY <1>1, <1>2, <1>3, EffectsTyped DEF Typed
<1>8. Typed'
  BY <1>1, <1>6, <1>7 DEF Typed, fixed_vars
<1>9. InCourse'
  BY <1>1, <1>2, <1>5, <1>6 DEF InCourse, fixed_vars
<1>10. SomebodyEnds'
  <2>1. \A q \in Tasks : (Holds(task[q]) => Holds(task'[q])) /\ (Running(task[q]) => Running(task'[q]))
                         /\ task'[q].op = task[q].op
    BY <1>1, <1>5, <1>6 DEF Holds, Running
  <2> QED
    BY <1>1, <2>1 DEF SomebodyEnds, fixed_vars
<1>11. HeartFollows'
  <2> SUFFICES ASSUME "heart" \notin drift' PROVE HeartFollows'
    BY DEF HeartFollows
  <2>1. "heart" \notin drift /\ Heart' = Heart /\ page' = page
    BY <1>1 DEF Heart, fixed_vars
  <2>2. \A q \in Tasks : /\ Running(task'[q]) <=> Running(task[q])
                         /\ Toggling(task'[q]) <=> Toggling(task[q])
                         /\ task'[q].op = task[q].op /\ task'[q].was = task[q].was
                         /\ task'[q].got = task[q].got
    BY <1>1, <1>5, <1>6 DEF Toggling, Running
  <2>3. Running(task[k]) /\ ~Loads(task[k].got)
    BY <1>1, <1>2 DEF Running, Loads
  <2>4. ASSUME NEW q \in Tasks, Loads(task[q].got) PROVE task[q].got.fav = srv'.fav
    <3>1. Running(task[q]) /\ q # k /\ task[q].op # "report"
      BY <1>1, <2>3, <2>4 DEF InCourse, Loads, Running
    <3>2. task[k].op # "favorite"
      BY <1>1, <2>1, <2>3, <3>1 DEF HeartFollows, Toggling
    <3> QED
      BY <1>1, <1>7, <2>1, <2>4, <3>2 DEF HeartFollows
  <2>5. page.load = "ready" /\ (\A q \in Tasks : ~Toggling(task[q])) => Heart = srv'.fav
    <3>1. (\A q \in Tasks : ~Toggling(task[q])) => task[k].op # "favorite"
      BY <2>3 DEF Toggling
    <3> QED
      BY <1>1, <1>7, <2>1, <3>1 DEF HeartFollows
  <2>6. ASSUME NEW q \in Tasks, Toggling(task[q])
        PROVE  /\ task[q].was = ~Heart /\ task'[q].ans # "lost"
               /\ page.load = "ready" =>
                    srv'.fav = IF task'[q].ans = "ok" THEN Heart ELSE task[q].was
    <3>1. /\ task[q].was = ~Heart /\ task[q].ans # "lost"
          /\ page.load = "ready" => srv.fav = IF task[q].ans = "ok" THEN Heart ELSE task[q].was
      BY <1>1, <2>1, <2>6 DEF HeartFollows
    <3>2. CASE q = k
      <4>1. task[k].op = "favorite" /\ task'[k].ans = a /\ Heart \in BOOLEAN
        BY <1>1, <1>5, <1>6, <2>6, <3>2 DEF Toggling, Heart, Typed, Pages, Views
      <4> QED
        BY <1>2, <1>7, <3>1, <3>2, <4>1
    <3>3. CASE q # k
      <4>1. task[k].op = "report"
        BY <1>1, <2>1, <2>3, <2>6, <3>3 DEF HeartFollows
      <4> QED
        BY <1>6, <1>7, <3>1, <3>3, <4>1
    <3> QED
      BY <3>2, <3>3
  <2> QED
    BY <1>1, <2>1, <2>2, <2>4, <2>5, <2>6 DEF HeartFollows
<1> QED
  BY <1>8, <1>9, <1>10, <1>11 DEF PageInv

\* A handler goes on with an answer.
LEMMA HandledStep ==
  ASSUME PageInv, NEW k \in Tasks, MobileStep(k) \/ WebStep(k)
  PROVE  PageInv'
<1>1. /\ Typed /\ InCourse /\ SomebodyEnds /\ HeartFollows /\ task \in [Tasks -> Handlers]
      /\ task[k] \in Handlers /\ task[k].step \in {"answered", "got"}
      /\ UNCHANGED <<fixed_vars, srv, trouble, drift>> /\ platform \in {"mobile", "web"}
      /\ page \in Pages
  BY DEF PageInv, Typed, MobileStep, WebStep
<1>2. PICK ends \in BOOLEAN : Handled(k, ends)
  <2>1. platform = "web" => page.act = "idle"
    BY <1>1 DEF SomebodyEnds
  <2> QED
    BY <1>1, <2>1, MobileHandles, WebHandles DEF WebStep
<1>3. PICK t : t = IF ends THEN NoTask ELSE [task[k] EXCEPT !.step = "get"]
  OBVIOUS
<1>4. /\ t \in Handlers /\ t.step = IF ends THEN "idle" ELSE "get"
      /\ ~ends => t.op = task[k].op /\ t.ans = task[k].ans /\ t.got = task[k].got
      /\ ends => t = NoTask
  <2>1. NoTask \in Handlers /\ NoTask.step = "idle"
    BY DEF NoTask, Handlers, Steps, Op, NoView, Views, Statuses, Part, Requests, Invited
  <2>2. CASE ~ends
    BY <1>1, <1>3, <2>2 DEF Handlers, Steps
  <2> QED
    BY <1>3, <2>1, <2>2
<1>5. task' \in [Tasks -> Handlers] /\ \A q \in Tasks : task'[q] = IF q = k THEN t ELSE task[q]
  <2>1. task' = [task EXCEPT ![k] = t]
    BY <1>1, <1>2, <1>3 DEF Handled, Done, Go
  <2> QED
    BY <1>1, <1>4, <2>1
<1>6. ~ends => task[k].step = "answered" /\ task[k].op \notin {"load", "report", "favorite"}
  BY <1>2 DEF Handled
<1>7. Typed'
  BY <1>1, <1>2, <1>5 DEF Typed, Handled, fixed_vars
<1>8. InCourse'
  <2>1. NoTask.got.status = "NONE" /\ NoTask.ans = "none" /\ NoTask.op = "load" /\ NoTask.step = "idle"
    BY DEF NoTask, NoView
  <2>2. ~ends => task[k].got.status = "NONE"
    BY <1>1, <1>6 DEF InCourse
  <2> QED
    BY <1>1, <1>4, <1>5, <1>6, <2>1, <2>2 DEF InCourse, fixed_vars
<1>9. SomebodyEnds'
  <2>1. page'.act \in MobileBusy => \E q \in Tasks : Holds(task'[q])
    <3> SUFFICES ASSUME page'.act \in MobileBusy PROVE \E q \in Tasks : Holds(task'[q])
      OBVIOUS
    <3>1. /\ page'.act = page.act
          /\ Holds(task[k]) => ~ends /\ task[k].op # "join" /\ (task[k].op = "withdraw" => task[k].ans = "ok")
      BY <1>2 DEF Handled
    <3>2. PICK q \in Tasks : Holds(task[q])
      BY <1>1, <3>1 DEF SomebodyEnds
    <3>3. q = k => Holds(t)
      BY <1>4, <3>1, <3>2 DEF Holds, Running
    <3> QED
      BY <1>5, <3>2, <3>3
  <2>2. ASSUME NEW g \in page'.busy
        PROVE  \E q \in Tasks : Running(task'[q]) /\ task'[q].op # "load" /\ Flag(task'[q].op) = g
    <3>1. PICK q \in Tasks : Running(task[q]) /\ task[q].op # "load" /\ Flag(task[q].op) = g
      BY <1>1, <1>2, <2>2 DEF SomebodyEnds, Handled
    <3>2. CASE q # k
      BY <1>5, <3>1, <3>2
    <3>3. CASE q = k /\ ~ends
      BY <1>4, <1>5, <3>1, <3>3 DEF Running
    <3>4. CASE q = k /\ ends
      <4>1. platform = "web" \/ task[k].op = "rate"
        <5>1. platform = "mobile" => Flag(task[k].op) = "rate"
          BY <1>1, <1>2, <2>2, <3>1, <3>4 DEF SomebodyEnds, Handled
        <5> QED
          BY <1>1, <5>1 DEF Flag
      <4>2. Flag(task[k].op) \notin page'.busy
        BY <1>2, <3>1, <3>4, <4>1 DEF Handled
      <4> QED
        BY <2>2, <3>1, <3>4, <4>2
    <3> QED
      BY <3>2, <3>3, <3>4
  <2>3. IF platform' = "mobile" THEN page'.busy \subseteq {"rate"} ELSE page'.act = "idle"
    BY <1>1, <1>2 DEF SomebodyEnds, Handled, fixed_vars
  <2> QED
    BY <2>1, <2>2, <2>3 DEF SomebodyEnds
<1>10. HeartFollows'
  <2> SUFFICES ASSUME "heart" \notin drift' PROVE HeartFollows'
    BY DEF HeartFollows
  <2>1. /\ "heart" \notin drift /\ srv' = srv /\ Heart = Shows(page)
        /\ Heart' = Shows(page')
    BY <1>1 DEF Heart, Shows, fixed_vars
  <2>2. /\ \A p, q \in Tasks : Toggling(task[p]) /\ Running(task[q]) /\ p # q => task[q].op = "report"
        /\ \A q \in Tasks : Loads(task[q].got) => task[q].got.fav = srv.fav
        /\ page.load = "ready" /\ (\A q \in Tasks : ~Toggling(task[q])) => Heart = srv.fav
        /\ \A q \in Tasks : Toggling(task[q]) =>
             /\ task[q].was = ~Heart /\ task[q].ans # "lost"
             /\ page.load = "ready" => srv.fav = IF task[q].ans = "ok" THEN Heart ELSE task[q].was
    BY <1>1, <2>1 DEF HeartFollows
  <2>3. /\ Running(task[k])
        /\ \A q \in Tasks : /\ Running(task'[q]) => Running(task[q]) /\ task'[q].op = task[q].op
                            /\ Loads(task'[q].got) => Loads(task[q].got) /\ task'[q].got = task[q].got
                            /\ Toggling(task'[q]) => q # k /\ Toggling(task[q]) /\ task'[q] = task[q]
                            /\ q # k => task'[q] = task[q]
    <3>1. ~Running(NoTask) /\ ~Loads(NoTask.got)
      BY DEF NoTask, NoView, Running, Loads
    <3> QED
      BY <1>1, <1>4, <1>5, <1>6, <3>1 DEF Running, Toggling
  <2>4. IF task[k].op = "favorite"
        THEN page'.load = page.load /\ Heart' = IF task[k].ans = "ok" THEN Heart ELSE task[k].was
        ELSE \/ (page'.load = "ready" => page.load = "ready") /\ Heart' = Heart
             \/ Loads(task[k].got) /\ Heart' = srv.fav
    BY <1>2, <2>1, <2>2 DEF Handled
  <2>5. page'.load = "ready" /\ (\A q \in Tasks : ~Toggling(task'[q])) => Heart' = srv.fav
    <3> SUFFICES ASSUME page'.load = "ready", \A q \in Tasks : ~Toggling(task'[q])
                 PROVE  Heart' = srv.fav
      OBVIOUS
    <3>1. \A q \in Tasks : q # k => ~Toggling(task[q])
      BY <2>3
    <3>2. CASE task[k].op = "favorite"
      <4>1. Toggling(task[k])
        BY <2>3, <3>2 DEF Toggling
      <4> QED
        BY <2>2, <2>4, <3>2, <4>1
    <3>3. CASE task[k].op # "favorite"
      <4>1. \A q \in Tasks : ~Toggling(task[q])
        BY <3>1, <3>3 DEF Toggling
      <4> QED
        BY <2>2, <2>4, <3>3, <4>1
    <3> QED
      BY <3>2, <3>3
  <2>6. ASSUME NEW q \in Tasks, Toggling(task'[q])
        PROVE  /\ task'[q].was = ~Heart' /\ task'[q].ans # "lost"
               /\ page'.load = "ready" =>
                    srv.fav = IF task'[q].ans = "ok" THEN Heart' ELSE task'[q].was
    <3>1. q # k /\ Toggling(task[q]) /\ task'[q] = task[q]
      BY <2>3, <2>6
    <3>2. task[k].op = "report"
      BY <2>2, <2>3, <3>1
    <3>3. ~Loads(task[k].got)
      BY <1>1, <3>2 DEF InCourse, Loads
    <3> QED
      BY <2>2, <2>4, <3>1, <3>2, <3>3
  <2>7. \A p, q \in Tasks : Toggling(task'[p]) /\ Running(task'[q]) /\ p # q => task'[q].op = "report"
    BY <2>2, <2>3
  <2>8. \A q \in Tasks : Loads(task'[q].got) => task'[q].got.fav = srv.fav
    BY <2>2, <2>3
  <2> QED
    BY <2>1, <2>5, <2>6, <2>7, <2>8 DEF HeartFollows
<1> QED
  BY <1>7, <1>8, <1>9, <1>10 DEF PageInv

\* What a handler does to the page before its first request, on the phone and on the web:
\* it turns the heart over if it is the toggle, and sets the flag it will end.
Begun(op, p) ==
  /\ p \in Pages
  /\ Shows(p) = IF op = "favorite" THEN ~Shows(page) ELSE Shows(page)
  /\ p.load = IF op = "load" THEN "loading" ELSE page.load
  /\ p.act = page.act \/ (platform = "mobile" /\ op \in Acting)
  /\ \A f \in p.busy \ page.busy :
       /\ op # "load" /\ f = Flag(op)
       /\ platform = "mobile" => f = "rate"

\* What the beginning of a handler makes of the phone's page.
LEMMA MobileBeginning ==
  ASSUME Typed, platform = "mobile", NEW op \in Op
  PROVE  Begun(op, MobileBegins(op))
<1>1. page \in Pages /\ page.heart \in BOOLEAN
  BY DEF Typed, Pages
<1>2. \A p \in Pages : Shows(p) = p.heart
  BY DEF Shows
<1>3. ASSUME NEW a \in MobileBusy, op \in Acting, MobileBegins(op) = [page EXCEPT !.act = a]
      PROVE  Begun(op, MobileBegins(op))
  <2>1. a \in ActionState
    BY DEF ActionState
  <2>2. op # "favorite" /\ op # "load"
    BY <1>3 DEF Acting
  <2> DEFINE p == [page EXCEPT !.act = a]
  <2>3. p \in Pages /\ p.busy = page.busy /\ p.heart = page.heart /\ p.load = page.load
    BY <1>1, <2>1, ActEffect
  <2>4. Shows(p) = Shows(page)
    BY <1>1, <1>2, <2>3
  <2> QED
    BY <1>3, <2>2, <2>3, <2>4 DEF Begun
<1>4. ASSUME NEW a \in MobileBusy, op \in Acting,
             MobileBegins(op) = [page EXCEPT !.act = a, !.sheet = "none"]
      PROVE  Begun(op, MobileBegins(op))
  <2>1. a \in ActionState
    BY DEF ActionState
  <2>2. op # "favorite" /\ op # "load"
    BY <1>4 DEF Acting
  <2> DEFINE p == [page EXCEPT !.act = a, !.sheet = "none"]
  <2>3. p \in Pages /\ p.busy = page.busy /\ p.heart = page.heart /\ p.load = page.load
    BY <1>1, <2>1 DEF Pages
  <2>4. Shows(p) = Shows(page)
    BY <1>1, <1>2, <2>3
  <2> QED
    BY <1>4, <2>2, <2>3, <2>4 DEF Begun
<1>5. CASE op = "load"
  <2> DEFINE p == [page EXCEPT !.load = "loading"]
  <2>1. MobileBegins(op) = p
    BY <1>5 DEF MobileBegins
  <2>2. /\ p \in Pages /\ p.busy = page.busy /\ p.heart = page.heart /\ p.load = "loading"
        /\ p.act = page.act
    BY <1>1, LoadEffect
  <2>3. Shows(p) = Shows(page)
    BY <1>1, <1>2, <2>2
  <2> QED
    BY <1>5, <2>1, <2>2, <2>3 DEF Begun
<1>6. CASE op = "favorite"
  <2> DEFINE p == [page EXCEPT !.heart = ~page.heart]
  <2>1. MobileBegins(op) = p
    BY <1>6 DEF MobileBegins
  <2>2. /\ p \in Pages /\ p.busy = page.busy /\ p.heart = ~page.heart /\ p.load = page.load
        /\ p.act = page.act
    BY <1>1 DEF Pages
  <2>3. Shows(p) = ~Shows(page)
    BY <1>1, <1>2, <2>2
  <2> QED
    BY <1>6, <2>1, <2>2, <2>3 DEF Begun
<1>7. CASE op = "rate"
  <2> DEFINE p == [page EXCEPT !.busy = page.busy \cup {"rate"}]
  <2>1. MobileBegins(op) = p
    BY <1>7 DEF MobileBegins
  <2>2. /\ p \in Pages /\ p.busy = page.busy \cup {"rate"} /\ p.heart = page.heart
        /\ p.load = page.load /\ p.act = page.act
    BY <1>1 DEF Pages, Op
  <2>3. Shows(p) = Shows(page)
    BY <1>1, <1>2, <2>2
  <2> QED
    BY <1>7, <2>1, <2>2, <2>3 DEF Begun, Flag
<1>8. CASE op = "join"
  BY <1>3, <1>8 DEF MobileBegins, MobileBusy, Acting
<1>9. CASE op = "leave"
  BY <1>4, <1>9 DEF MobileBegins, MobileBusy, Acting
<1>10. CASE op = "request"
  BY <1>3, <1>10 DEF MobileBegins, MobileBusy, Acting
<1>11. CASE op = "withdraw"
  BY <1>4, <1>11 DEF MobileBegins, MobileBusy, Acting
<1>12. CASE op = "reconfirm"
  BY <1>3, <1>12 DEF MobileBegins, MobileBusy, Acting
<1>13. CASE op = "accept"
  BY <1>3, <1>13 DEF MobileBegins, MobileBusy, Acting
<1>14. CASE op = "decline"
  BY <1>3, <1>14 DEF MobileBegins, MobileBusy, Acting
<1>15. CASE op = "report"
  BY <1>3, <1>15 DEF MobileBegins, MobileBusy, Acting
<1> QED
  BY <1>5, <1>6, <1>7, <1>8, <1>9, <1>10, <1>11, <1>12, <1>13, <1>14, <1>15 DEF Op

\* What the beginning of a handler makes of the web page.
LEMMA WebBeginning ==
  ASSUME Typed, platform = "web", NEW op \in Op
  PROVE  Begun(op, WebBegins(op))
<1>1. page \in Pages /\ page.view.fav \in BOOLEAN
  BY DEF Typed, Pages, Views
<1>2. \A p \in Pages : Shows(p) = p.view.fav
  BY DEF Shows
<1>3. ASSUME NEW p \in Pages, p = WebBegins(op), op # "load", p.busy \subseteq page.busy \cup {Flag(op)},
             p.view.fav = IF op = "favorite" THEN ~page.view.fav ELSE page.view.fav,
             p.load = page.load, p.act = page.act
      PROVE  Begun(op, WebBegins(op))
  <2>1. Shows(p) = p.view.fav /\ Shows(page) = page.view.fav
    BY <1>1, <1>2
  <2> QED
    BY <1>3, <2>1 DEF Begun
<1>4. Shut(op) \in Asked \cup {"none"}
  BY <1>1 DEF Shut, Pages
<1>5. CASE op = "load"
  <2> DEFINE p == [page EXCEPT !.load = "loading"]
  <2>1. WebBegins(op) = p
    BY <1>5 DEF WebBegins
  <2>2. /\ p \in Pages /\ p.busy = page.busy /\ p.view = page.view /\ p.load = "loading"
        /\ p.act = page.act
    BY <1>1, LoadEffect
  <2>3. Shows(p) = Shows(page)
    BY <1>1, <1>2, <2>2
  <2> QED
    BY <1>5, <2>1, <2>2, <2>3 DEF Begun
<1>6. CASE op = "favorite"
  <2> DEFINE p == [page EXCEPT !.view.fav = ~page.view.fav, !.busy = page.busy \cup {op}]
  <2>1. WebBegins(op) = p
    BY <1>6 DEF WebBegins
  <2>2. /\ p \in Pages /\ p.busy = page.busy \cup {op} /\ p.view.fav = ~page.view.fav
        /\ p.load = page.load /\ p.act = page.act
    BY <1>1, <1>6 DEF Pages, Views, Op
  <2>3. Flag(op) = op
    BY <1>6 DEF Flag
  <2> QED
    BY <1>3, <1>6, <2>1, <2>2, <2>3
<1>7. CASE op = "request"
  <2> DEFINE p == [page EXCEPT !.sheet = "none", !.busy = page.busy \cup {"join"}]
  <2>1. WebBegins(op) = p
    BY <1>7 DEF WebBegins
  <2>2. /\ p \in Pages /\ p.busy = page.busy \cup {"join"} /\ p.view = page.view
        /\ p.load = page.load /\ p.act = page.act
    BY <1>1 DEF Pages, Op
  <2>3. Flag(op) = "join"
    BY <1>7 DEF Flag
  <2> QED
    BY <1>3, <1>7, <2>1, <2>2, <2>3
<1>8. CASE op = "leave"
  <2> DEFINE p == [page EXCEPT !.sheet = Shut(op), !.busy = page.busy \cup {op}]
  <2>1. WebBegins(op) = p
    BY <1>8 DEF WebBegins
  <2>2. /\ p \in Pages /\ p.busy = page.busy \cup {op} /\ p.view = page.view
        /\ p.load = page.load /\ p.act = page.act
    BY <1>1, <1>4 DEF Pages
  <2>3. Flag(op) = op
    BY <1>8 DEF Flag
  <2> QED
    BY <1>3, <1>8, <2>1, <2>2, <2>3
<1>9. CASE op \notin {"load", "favorite", "request", "leave"}
  <2> DEFINE p == [page EXCEPT !.busy = page.busy \cup {op}]
  <2>1. WebBegins(op) = p
    BY <1>9 DEF WebBegins
  <2>2. /\ p \in Pages /\ p.busy = page.busy \cup {op} /\ p.view = page.view
        /\ p.load = page.load /\ p.act = page.act
    BY <1>1 DEF Pages
  <2>3. Flag(op) = op
    BY <1>9 DEF Flag
  <2> QED
    BY <1>3, <1>9, <2>1, <2>2, <2>3
<1> QED
  BY <1>5, <1>6, <1>7, <1>8, <1>9

\* What can be pressed: the heart only on a page that is loaded, an invitation only on the
\* phone.
LEMMA PressedIsShown ==
  ASSUME Typed, NEW op \in Op, Direct(op)
  PROVE  /\ op = "favorite" => page.load = "ready"
         /\ op \in {"accept", "decline"} => platform = "mobile"
<1>1. page.load \in {"loading", "ready", "missing", "error"} /\ page.sheet \in Asked \cup {"none"}
      /\ platform \in {"mobile", "web"}
  BY DEF Typed, Pages
<1>2. op \in Offers \/ op \in SheetOffers
  BY DEF Direct
<1>3. op \in SheetOffers => op \in Asked
  <2>1. op # "close"
    BY DEF Op
  <2>2. MobileFormOffers \subseteq {"request", "close"} /\ WebFormOffers \subseteq {"request", "close"}
    BY DEF MobileFormOffers, WebFormOffers
  <2>3. MobileReportOffers \subseteq {"report", "close"} /\ WebReportOffers \subseteq {"report", "close"}
    BY DEF MobileReportOffers, WebReportOffers
  <2>4. page.sheet # "none" => MobileSheetOffers \subseteq Asked \cup {"close"}
    BY <1>1, <2>2, <2>3 DEF MobileSheetOffers, Asked
  <2>5. page.sheet # "none" => WebSheetOffers \subseteq Asked \cup {"close"}
    BY <1>1, <2>2, <2>3 DEF WebSheetOffers, Asked
  <2> QED
    BY <2>1, <2>4, <2>5 DEF SheetOffers
<1>4. op = "favorite" => page.load = "ready"
  <2>1. op = "favorite" => op \in Offers
    BY <1>2, <1>3 DEF Asked
  <2> QED
    BY <1>1, <2>1 DEF Offers, MobileOffers, WebOffers
<1>5. op \in {"accept", "decline"} => platform = "mobile"
  <2>1. SUFFICES ASSUME op \in {"accept", "decline"}, op \in WebOffers PROVE FALSE
    BY <1>1, <1>2, <1>3 DEF Offers, Asked
  <2>2. WebActionSection \subseteq {"leave", "withdraw", "join", "request"}
    BY DEF WebActionSection, WebJoinedOffers, WebPendingOffers, WebEntryOffers
  <2>3. op \notin WebBannerOffers /\ op \notin WebHeaderOffers /\ op \notin WebRatingOffers
    BY <2>1 DEF WebBannerOffers, WebHeaderOffers, WebRatingOffers
  <2> QED
    BY <1>1, <2>1, <2>2, <2>3 DEF WebOffers
<1> QED
  BY <1>4, <1>5

\* A handler is started.
LEMMA PressStep ==
  ASSUME PageInv, NEW op \in Op, Press(op)
  PROVE  PageInv'
<1>1. /\ Typed /\ InCourse /\ SomebodyEnds /\ HeartFollows /\ task \in [Tasks -> Handlers]
      /\ platform \in {"mobile", "web"} /\ page \in Pages /\ srv \in Rows
      /\ UNCHANGED <<fixed_vars, srv, trouble>> /\ drift' = drift \cup Overlaps(op)
  BY DEF PageInv, Typed, Press
<1>2. PICK k \in Tasks : k = IdleTask /\ task[k].step = "idle"
  BY DEF Press, IdleTask
<1>3. Heart = Shows(page) /\ Heart' = Shows(page') /\ Heart \in BOOLEAN
  BY <1>1 DEF Heart, Shows, fixed_vars, Pages, Views
<1>4. Begun(op, page')
  BY <1>1, MobileBeginning, WebBeginning DEF Press
<1>5. (op = "favorite" => page.load = "ready") /\ (op \in {"accept", "decline"} => platform = "mobile")
  <2>1. Direct(op)
    BY DEF Press
  <2> QED
    BY <1>1, <2>1, PressedIsShown
<1>6. PICK s \in FirstStep(op), w \in BOOLEAN :
        /\ task' = [task EXCEPT ![k] = [NoTask EXCEPT !.op = op, !.step = s, !.was = w]]
        /\ op = "favorite" => w = Heart
  <2> DEFINE b == IF op = "favorite" THEN Heart ELSE op = "leave" /\ ~srv.started
  <2>1. b \in BOOLEAN /\ (op = "favorite" => b = Heart)
    BY <1>1, <1>3
  <2>2. \E s \in FirstStep(op) :
          task' = [task EXCEPT ![k] = [NoTask EXCEPT !.op = op, !.step = s, !.was = b]]
    BY <1>2 DEF Press
  <2> HIDE DEF b
  <2> QED
    BY <2>1, <2>2
<1>6a. PICK t : t = [NoTask EXCEPT !.op = op, !.step = s, !.was = w]
  OBVIOUS
<1>7. /\ t \in Handlers /\ t.op = op /\ t.step = s /\ t.was = w /\ t.ans = "none"
      /\ t.got.status = "NONE"
      /\ s \in {"get", "upload", "resolve", "sent"} /\ (op = "load" <=> s = "get")
      /\ op \in {"report", "favorite"} => s = "sent"
  <2>1. s \in {"get", "upload", "resolve", "sent"} /\ (op = "load" <=> s = "get")
        /\ (op \in {"report", "favorite"} => s = "sent")
    BY DEF FirstStep
  <2>2. NoTask \in Handlers /\ NoTask.ans = "none" /\ NoTask.got.status = "NONE"
    BY DEF NoTask, Handlers, Steps, Op, NoView, Views, Statuses, Part, Requests, Invited
  <2> QED
    BY <1>6a, <2>1, <2>2 DEF Handlers, Steps
<1>8. task' \in [Tasks -> Handlers] /\ \A q \in Tasks : task'[q] = IF q = k THEN t ELSE task[q]
  BY <1>6a, <1>1, <1>6, <1>7
<1>9. Overlaps(op) \subseteq {"rows", "heart"}
  BY DEF Overlaps
<1>10. Typed'
  BY <1>1, <1>4, <1>8, <1>9 DEF Typed, Begun, fixed_vars
<1>11. InCourse'
  BY <1>1, <1>5, <1>7, <1>8 DEF InCourse, fixed_vars
<1>12. ~Running(task[k]) /\ Running(t)
  BY <1>2, <1>7 DEF Running
<1>13. SomebodyEnds'
  <2>1. page'.act \in MobileBusy => \E q \in Tasks : Holds(task'[q])
    <3>1. CASE page'.act = page.act
      <4>1. \A q \in Tasks : Holds(task[q]) => Holds(task'[q])
        BY <1>8, <1>12 DEF Holds
      <4> QED
        BY <1>1, <3>1, <4>1 DEF SomebodyEnds
    <3>2. CASE op \in Acting
      <4>1. s \notin {"get", "got"}
        BY <1>7, <3>2 DEF Acting
      <4>2. Holds(t)
        BY <1>7, <1>12, <3>2, <4>1 DEF Holds
      <4> QED
        BY <1>8, <4>2
    <3> QED
      BY <1>4, <3>1, <3>2 DEF Begun
  <2>2. ASSUME NEW f \in page'.busy
        PROVE  \E q \in Tasks : Running(task'[q]) /\ task'[q].op # "load" /\ Flag(task'[q].op) = f
    <3>1. CASE f \in page.busy
      <4>1. PICK q \in Tasks : Running(task[q]) /\ task[q].op # "load" /\ Flag(task[q].op) = f
        BY <1>1, <3>1 DEF SomebodyEnds
      <4> QED
        BY <1>8, <1>12, <4>1
    <3>2. CASE f \notin page.busy
      <4>1. op # "load" /\ f = Flag(op)
        BY <1>4, <2>2, <3>2 DEF Begun
      <4> QED
        BY <1>7, <1>8, <1>12, <4>1
    <3> QED
      BY <3>1, <3>2
  <2>3. IF platform' = "mobile" THEN page'.busy \subseteq {"rate"} ELSE page'.act = "idle"
    <3>1. platform' = platform
      BY <1>1 DEF fixed_vars
    <3> QED
      BY <1>1, <1>4, <3>1 DEF SomebodyEnds, Begun
  <2> QED
    BY <2>1, <2>2, <2>3 DEF SomebodyEnds
<1>14. HeartFollows'
  <2> SUFFICES ASSUME "heart" \notin drift' PROVE HeartFollows'
    BY DEF HeartFollows
  <2>1. "heart" \notin drift /\ "heart" \notin Overlaps(op) /\ srv' = srv
    BY <1>1
  <2>2. /\ \A p, q \in Tasks : Toggling(task[p]) /\ Running(task[q]) /\ p # q => task[q].op = "report"
        /\ \A q \in Tasks : Loads(task[q].got) => task[q].got.fav = srv.fav
        /\ page.load = "ready" /\ (\A q \in Tasks : ~Toggling(task[q])) => Heart = srv.fav
        /\ \A q \in Tasks : Toggling(task[q]) =>
             /\ task[q].was = ~Heart /\ task[q].ans # "lost"
             /\ page.load = "ready" => srv.fav = IF task[q].ans = "ok" THEN Heart ELSE task[q].was
    BY <1>1, <2>1 DEF HeartFollows
  <2>3. \/ op = "report"
        \/ \A q \in Tasks : Running(task[q]) => task[q].op = "report"
        \/ op # "favorite" /\ \A q \in Tasks : ~Toggling(task[q])
    <3> DEFINE others == {task[q].op : q \in {p \in Tasks : task[p].step # "idle"}} \ {"report"}
    <3>1. \/ op = "report" \/ others = {}
          \/ op # "favorite" /\ others # {"favorite"}
      BY <2>1 DEF Overlaps
    <3>2. others = {} => \A q \in Tasks : Running(task[q]) => task[q].op = "report"
      BY DEF Running
    <3>3. ASSUME others # {"favorite"}, NEW q \in Tasks, Toggling(task[q])
          PROVE  FALSE
      <4>1. "favorite" \in others
        BY <3>3 DEF Toggling, Running
      <4>2. PICK x \in others : x # "favorite"
        BY <3>3, <4>1
      <4>3. PICK p \in Tasks : Running(task[p]) /\ task[p].op = x /\ x # "report"
        BY <4>2 DEF Running
      <4> QED
        BY <2>2, <3>3, <4>2, <4>3 DEF Toggling
    <3> QED
      BY <3>1, <3>2, <3>3
  <2>4. Heart' = (IF op = "favorite" THEN ~Heart ELSE Heart)
        /\ (page'.load = "ready" => page.load = "ready")
    BY <1>3, <1>4 DEF Begun
  <2>5. /\ \A q \in Tasks : q # k => task'[q] = task[q]
        /\ Toggling(task'[k]) => op = "favorite"
        /\ task'[k] = t /\ ~Loads(t.got)
    BY <1>7, <1>8 DEF Toggling, Loads
  <2>6. ASSUME NEW p \in Tasks, NEW q \in Tasks, Toggling(task'[p]), Running(task'[q]), p # q
        PROVE  task'[q].op = "report"
    <3>1. CASE p = k
      BY <1>7, <2>3, <2>5, <2>6, <3>1 DEF Toggling
    <3>2. CASE p # k /\ q # k
      BY <2>2, <2>5, <2>6, <3>2
    <3>3. CASE p # k /\ q = k
      <4>1. Toggling(task[p]) /\ task[p].op = "favorite" /\ Running(task[p])
        BY <2>5, <2>6, <3>3 DEF Toggling
      <4> QED
        BY <1>7, <2>3, <2>5, <3>3, <4>1
    <3> QED
      BY <3>1, <3>2, <3>3
  <2>7. \A q \in Tasks : Loads(task'[q].got) => task'[q].got.fav = srv.fav
    BY <2>2, <2>5
  <2>8. ASSUME page'.load = "ready", \A q \in Tasks : ~Toggling(task'[q])
        PROVE  Heart' = srv.fav
    <3>1. op # "favorite"
      BY <1>7, <1>8, <1>12, <2>8 DEF Toggling
    <3>2. \A q \in Tasks : ~Toggling(task[q])
      BY <1>12, <2>5, <2>8 DEF Toggling
    <3> QED
      BY <2>2, <2>4, <2>8, <3>1, <3>2
  <2>9. ASSUME NEW q \in Tasks, Toggling(task'[q])
        PROVE  /\ task'[q].was = ~Heart' /\ task'[q].ans # "lost"
               /\ page'.load = "ready" =>
                    srv.fav = IF task'[q].ans = "ok" THEN Heart' ELSE task'[q].was
    <3>1. CASE q = k
      <4>1. op = "favorite" /\ task'[q] = t
        BY <2>5, <2>9, <3>1
      <4>2. \A p \in Tasks : ~Toggling(task[p])
        BY <2>3, <4>1 DEF Toggling
      <4>3. Heart = srv.fav /\ w = Heart
        BY <1>5, <1>6, <2>2, <4>1, <4>2
      <4> QED
        BY <1>3, <1>7, <2>4, <4>1, <4>3
    <3>2. CASE q # k
      <4>1. task'[q] = task[q] /\ Toggling(task[q]) /\ Running(task[q]) /\ task[q].op = "favorite"
        BY <2>5, <2>9, <3>2 DEF Toggling
      <4>2. op = "report"
        BY <2>3, <4>1
      <4> QED
        BY <2>2, <2>4, <4>1, <4>2
    <3> QED
      BY <3>1, <3>2
  <2> QED
    BY <2>1, <2>6, <2>7, <2>8, <2>9 DEF HeartFollows
<1> QED
  BY <1>10, <1>11, <1>13, <1>14 DEF PageInv

\* The rows change from outside.
LEMMA OutsideStep ==
  ASSUME PageInv, Outside
  PROVE  PageInv'
<1>1. /\ Typed /\ InCourse /\ SomebodyEnds /\ HeartFollows /\ srv \in Rows
      /\ (srv.late => srv.part = "LEAVED") /\ trouble \in 0..MaxTrouble /\ MaxTrouble \in Nat
      /\ UNCHANGED <<fixed_vars, page, task>> /\ Trouble /\ drift' = drift \cup {"rows"}
  BY PageAssumption DEF PageInv, Typed, Outside
<1>2. /\ srv' \in Rows /\ (srv'.late => srv'.part = "LEAVED") /\ srv'.fav = srv.fav
  <2>1. CASE HostEdits
    <3> DEFINE seats == IF srv.seats = "taken" THEN "held" ELSE srv.seats
    <3>1. seats \in Seats
      BY <1>1 DEF Rows, Seats
    <3>2. srv' = [srv EXCEPT !.part = "PENDING", !.seats = seats] /\ srv.part = "APPROVED"
      BY <2>1 DEF HostEdits
    <3> HIDE DEF seats
    <3> QED
      BY <1>1, <3>1, <3>2 DEF Rows, Part
  <2>2. CASE HostCancels
    <3> DEFINE part == IF srv.part \in {"APPROVED", "PENDING"} THEN "CANCELED" ELSE srv.part
    <3>1. part \in Part /\ (srv.late => part = "LEAVED")
      BY <1>1 DEF Rows, Part
    <3>2. srv' = [srv EXCEPT !.status = "CANCELED", !.seats = "free", !.part = part]
      BY <2>2 DEF HostCancels
    <3> HIDE DEF part
    <3> QED
      BY <1>1, <3>1, <3>2 DEF Rows, Seats
  <2>3. CASE HostCompletes
    BY <1>1, <2>3 DEF HostCompletes, Rows
  <2>4. CASE HostAnswers
    <3>1. CASE srv' = [srv EXCEPT !.req = "REJECTED"]
      BY <1>1, <3>1 DEF Rows, Requests
    <3>2. ASSUME NEW seats \in Seats, srv' = [Admitted(seats) EXCEPT !.req = "APPROVED"]
          PROVE  /\ srv' \in Rows /\ (srv'.late => srv'.part = "LEAVED")
                 /\ srv'.fav = srv.fav
      <4>1. /\ Admitted(seats) \in Rows /\ ~Admitted(seats).late /\ Admitted(seats).fav = srv.fav
        BY <1>1 DEF Admitted, Rows, Part
      <4> QED
        BY <3>2, <4>1 DEF Rows, Requests
    <3> QED
      BY <2>4, <3>1, <3>2 DEF HostAnswers
  <2>5. CASE HostInvites
    BY <1>1, <2>5 DEF HostInvites, Rows, Invited
  <2>6. CASE HostRevokes
    BY <1>1, <2>6 DEF HostRevokes, Rows, Invited
  <2>7. CASE OthersCome
    BY <1>1, <2>7 DEF OthersCome, Rows
  <2>8. CASE EventStarts
    <3> DEFINE part == IF srv.part = "PENDING" THEN "APPROVED" ELSE srv.part
               seats == IF srv.seats = "held" THEN "taken" ELSE srv.seats
    <3>1. part \in Part /\ (srv.late => part = "LEAVED") /\ seats \in Seats
      BY <1>1 DEF Rows, Part, Seats
    <3>2. \/ srv' = [srv EXCEPT !.started = TRUE]
          \/ srv' = [srv EXCEPT !.started = TRUE, !.part = part, !.seats = seats]
      BY <2>8 DEF EventStarts
    <3> HIDE DEF part, seats
    <3> QED
      BY <1>1, <3>1, <3>2 DEF Rows
  <2> QED
    BY <2>1, <2>2, <2>3, <2>4, <2>5, <2>6, <2>7, <2>8 DEF Outside
<1>3. trouble' \in 0..MaxTrouble
  BY <1>1 DEF Trouble
<1>4. Typed'
  BY <1>1, <1>2, <1>3 DEF Typed, fixed_vars
<1>5. InCourse' /\ SomebodyEnds'
  BY <1>1 DEF InCourse, SomebodyEnds, fixed_vars
<1>6. HeartFollows'
  <2>1. Heart' = Heart
    BY <1>1 DEF Heart, fixed_vars
  <2> QED
    BY <1>1, <1>2, <2>1 DEF HeartFollows
<1> QED
  BY <1>4, <1>5, <1>6 DEF PageInv

\* A sheet or a question is opened or closed.
LEMMA SheetStep ==
  ASSUME PageInv, NEW s \in Asked \cup {"none"}, page' = [page EXCEPT !.sheet = s],
         UNCHANGED <<fixed_vars, srv, task, trouble, drift>>
  PROVE  PageInv'
<1>1. Typed /\ InCourse /\ SomebodyEnds /\ HeartFollows /\ page \in Pages
  BY DEF PageInv, Typed
<1>2. /\ page' \in Pages /\ page'.act = page.act /\ page'.busy = page.busy /\ page'.load = page.load
      /\ page'.heart = page.heart /\ page'.view = page.view
  BY <1>1 DEF Pages
<1>3. Typed'
  BY <1>1, <1>2 DEF Typed, fixed_vars
<1>4. InCourse' /\ SomebodyEnds'
  BY <1>1, <1>2 DEF InCourse, SomebodyEnds, fixed_vars
<1>5. HeartFollows'
  <2>1. Heart' = Heart
    BY <1>2 DEF Heart, fixed_vars
  <2> QED
    BY <1>1, <1>2, <2>1 DEF HeartFollows
<1> QED
  BY <1>3, <1>4, <1>5 DEF PageInv

\* The page and the handler as they are when the page is opened.
LEMMA Opening ==
  /\ NewPage \in Pages /\ NewPage.load = "loading" /\ NewPage.act = "idle" /\ NewPage.busy = {}
  /\ NoTask \in Handlers /\ NoTask.step = "idle" /\ NoTask.op = "load" /\ NoTask.ans = "none"
  /\ NoTask.got = NoView /\ NoView.status = "NONE" /\ ~Loads(NoView)
  /\ [NoTask EXCEPT !.step = "get"] \in Handlers /\ [NoTask EXCEPT !.step = "get"].op = "load"
  /\ [NoTask EXCEPT !.step = "get"].step = "get" /\ [NoTask EXCEPT !.step = "get"].got = NoView
  /\ [NoTask EXCEPT !.step = "get"].ans = "none"
<1>1. NoView \in Views(Part) /\ NoView \in Views(Part \cup {"JOINED", "INVITED"})
      /\ NoView.status = "NONE" /\ ~Loads(NoView)
  BY DEF NoView, Views, Statuses, Part, Requests, Invited, Loads
<1>2. /\ NewPage \in Pages /\ NewPage.load = "loading" /\ NewPage.act = "idle" /\ NewPage.busy = {}
  BY <1>1 DEF NewPage, Pages, Shown, ActionState
<1>3. NoTask \in Handlers /\ NoTask.step = "idle" /\ NoTask.op = "load" /\ NoTask.ans = "none"
      /\ NoTask.got = NoView
  BY <1>1 DEF NoTask, Handlers, Steps, Op
<1>4. /\ [NoTask EXCEPT !.step = "get"] \in Handlers /\ [NoTask EXCEPT !.step = "get"].op = "load"
      /\ [NoTask EXCEPT !.step = "get"].step = "get" /\ [NoTask EXCEPT !.step = "get"].got = NoView
      /\ [NoTask EXCEPT !.step = "get"].ans = "none"
  BY <1>3 DEF Handlers, Steps
<1> QED
  BY <1>1, <1>2, <1>3, <1>4

\* The viewer comes back to the page.
LEMMA ReopenStep ==
  ASSUME PageInv, Reopen
  PROVE  PageInv'
<1>1. /\ Typed /\ InCourse /\ Quiet /\ task \in [Tasks -> Handlers]
      /\ UNCHANGED <<fixed_vars, srv, trouble>> /\ page' = NewPage /\ drift' = {}
  BY DEF PageInv, Typed, Reopen
<1>2. IdleTask \in Tasks
  BY <1>1, PageAssumption DEF IdleTask, Quiet
<1>3. PICK k \in Tasks : task' = [task EXCEPT ![k] = [NoTask EXCEPT !.step = "get"]]
  BY <1>2 DEF Reopen
<1>4. /\ task' \in [Tasks -> Handlers] /\ task'[k] = [NoTask EXCEPT !.step = "get"]
      /\ \A q \in Tasks : q # k => task'[q] = task[q] /\ task[q].step = "idle"
  BY <1>1, <1>3, Opening DEF Quiet
<1>5. Typed'
  BY <1>1, <1>4, Opening DEF Typed, fixed_vars
<1>6. InCourse'
  <2>1. /\ task'[k].step = "get" /\ task'[k].op = "load" /\ task'[k].ans = "none"
        /\ task'[k].got.status = "NONE" /\ platform' = platform
    BY <1>1, <1>4, Opening DEF fixed_vars
  <2>2. \A q \in Tasks : q # k => task'[q] = task[q]
    BY <1>4
  <2> QED
    BY <1>1, <2>1, <2>2 DEF InCourse
<1>7. SomebodyEnds'
  <2>1. page'.act = "idle" /\ page'.busy = {}
    BY <1>1, Opening
  <2> QED
    BY <2>1 DEF SomebodyEnds, MobileBusy
<1>8. HeartFollows'
  <2>1. page'.load # "ready"
    BY <1>1, Opening
  <2>2. ASSUME NEW q \in Tasks PROVE ~Toggling(task'[q]) /\ ~Loads(task'[q].got)
    <3>1. CASE q = k
      BY <1>4, <3>1, Opening DEF Toggling
    <3>2. CASE q # k
      <4>1. task'[q] = task[q] /\ task[q].step = "idle" /\ task[q].got.status = "NONE"
        BY <1>1, <1>4, <3>2 DEF InCourse
      <4> QED
        BY <4>1 DEF Toggling, Running, Loads
    <3> QED
      BY <3>1, <3>2
  <2> QED
    BY <2>1, <2>2 DEF HeartFollows
<1> QED
  BY <1>5, <1>6, <1>7, <1>8 DEF PageInv

\* The invariant holds in every state the page can be in.
LEMMA PageInvariant == Spec => []PageInv
<1>1. Init => PageInv
  <2> SUFFICES ASSUME Init PROVE PageInv
    OBVIOUS
  <2>1. PICK k \in Tasks : task = [[q \in Tasks |-> NoTask] EXCEPT ![k].step = "get"]
    BY PageAssumption DEF Init
  <2>2. \A q \in Tasks : task[q] = IF q = k THEN [NoTask EXCEPT !.step = "get"] ELSE NoTask
    BY <2>1
  <2>3. task \in [Tasks -> Handlers]
    BY <2>1, <2>2, Opening
  <2>4. page = NewPage /\ trouble = 0 /\ drift = {} /\ MaxTrouble \in Nat
    BY PageAssumption DEF Init
  <2>5. srv \in Rows /\ ~srv.late
    BY DEF Init, Rows, Part, Requests, Invited, Seats
  <2>6. Typed
    BY <2>3, <2>4, <2>5, Opening DEF Typed, Init
  <2>7. \A q \in Tasks : /\ task[q].op = "load" /\ task[q].ans = "none" /\ task[q].got = NoView
                         /\ task[q].step \in {"idle", "get"}
    BY <2>2, Opening
  <2>8. InCourse
    BY <2>7, Opening DEF InCourse
  <2>9. SomebodyEnds
    BY <2>4, Opening DEF SomebodyEnds, MobileBusy
  <2>10. HeartFollows
    BY <2>4, <2>7, Opening DEF HeartFollows, Toggling
  <2> QED
    BY <2>6, <2>8, <2>9, <2>10 DEF PageInv
<1>2. PageInv /\ [Next]_vars => PageInv'
  <2> SUFFICES ASSUME PageInv, [Next]_vars PROVE PageInv'
    OBVIOUS
  <2>1. ASSUME NEW k \in Tasks, Answer(k) \/ Lost(k) \/ DetailLost(k) PROVE PageInv'
    BY <2>1, ProceedingStep, ServedStep, HandledStep DEF Answer
  <2>2. ASSUME NEW op \in Op, Press(op) PROVE PageInv'
    BY <2>2, PressStep
  <2>3. ASSUME NEW op \in Op, OpenSheet(op) PROVE PageInv'
    BY <2>3, SheetStep DEF OpenSheet
  <2>4. CASE CloseSheet
    BY <2>4, SheetStep DEF CloseSheet
  <2>5. CASE Reopen
    BY <2>5, ReopenStep
  <2>6. CASE Outside
    BY <2>6, OutsideStep
  <2>7. CASE UNCHANGED vars
    <3>1. Heart' = Heart
      BY <2>7 DEF Heart, vars, fixed_vars
    <3> QED
      BY <2>7, <3>1 DEF PageInv, Typed, InCourse, SomebodyEnds, HeartFollows, vars, fixed_vars
  <2> QED
    BY <2>1, <2>2, <2>3, <2>4, <2>5, <2>6, <2>7 DEF Next
<1> QED
  BY <1>1, <1>2, PTL DEF Spec

\* Once the last answer is in, the page shows the heart that the server keeps, unless a
\* toggle was lost or overlapped a handler that loads the event, and no control is left
\* disabled: for any number of handlers at once, any losses and any outside changes.
THEOREM PageSettles == Spec => []PageComesToRest
<1>1. PageInv => PageComesToRest
  <2> SUFFICES ASSUME PageInv PROVE PageComesToRest
    OBVIOUS
  <2>1. Typed /\ SomebodyEnds /\ HeartFollows
    BY DEF PageInv
  <2>2. TypeOK
    <3>1. /\ srv.status \in {"ACTIVE", "CANCELED", "COMPLETED"} /\ srv.part \in Part
          /\ srv.req \in Requests /\ srv.inv \in Invited /\ srv.seats \in Seats
      BY <2>1 DEF Typed, Rows
    <3>2. /\ page.load \in {"loading", "ready", "missing", "error"}
          /\ page.view.part \in Part \cup {"JOINED", "INVITED"} /\ page.shown \in Shown
          /\ page.act \in ActionState /\ page.busy \subseteq Op /\ page.sheet \in Asked \cup {"none"}
      BY <2>1 DEF Typed, Pages, Views
    <3>3. \A k \in Tasks : task[k].op \in Op /\ task[k].step \in Steps
      BY <2>1 DEF Typed, Handlers
    <3>4. Shown = (Part \ {"APPROVED"}) \cup {"JOINED", "INVITED"}
      BY DEF Shown, Part
    <3> QED
      BY <2>1, <3>1, <3>2, <3>3, <3>4 DEF TypeOK, Typed, Requests, Invited, Steps
  <2>3. HeartIsTrue
    BY <2>1 DEF HeartIsTrue, Settled, Quiet, HeartFollows, Toggling, Running
  <2>4. BusyEnds
    BY <2>1 DEF BusyEnds, Quiet, SomebodyEnds, Holds, Running
  <2> QED
    BY <2>2, <2>3, <2>4 DEF PageComesToRest
<1> QED
  BY <1>1, PageInvariant, PTL

-----------------------------------------------------------------------------
(* What the page offers.                                                   *)

\* What the ways in leave in the rows of the viewer.
RowsInOrder ==
  /\ (srv.req # "NONE" => privacy = "PROTECTED") /\ (srv.inv # "NONE" => privacy = "PRIVATE")
  /\ srv.part = "CANCELED" => srv.status = "CANCELED"
  /\ srv.late => srv.started
  /\ srv.req = "PENDING" => srv.part \in {"NONE", "LEAVED"}
  /\ srv.req = "APPROVED" => srv.part # "NONE"

\* A handler that asks for something or loads the event, and what was granted to it.
Working(t) == Running(t) /\ t.op \notin {"report", "favorite"}
Outcome(op) ==
  /\ op \in {"join", "accept", "reconfirm"} => srv.part = "APPROVED"
  /\ op = "leave" => srv.part = "LEAVED"
  /\ op = "request" => srv.req = "PENDING"
  /\ op = "withdraw" => srv.req # "PENDING"

\* An event as it was loaded, or as it is on the page, says what the rows say of the event.
SameEvent(v) ==
  /\ v.status = IF srv.status = "ACTIVE" /\ srv.started THEN "IN_PROGRESS" ELSE srv.status
  /\ v.full = (srv.seats = "taken") /\ v.reconfirm = (srv.part = "PENDING")

\* What was loaded is what the server would answer now, but for the heart.
UpToDate(v) ==
  IF Visible THEN SameEvent(v) /\ v.part = srv.part /\ v.req = srv.req /\ v.inv = srv.inv
  ELSE v.status = "MISSING"

\* The page shows the viewer what the rows say of the viewer.
SameViewer ==
  IF platform = "mobile"
  THEN page.shown = Normalized(srv) \/ (page.shown = "PENDING" /\ srv.req = "PENDING")
  ELSE /\ page.view.part = srv.part \/ (page.view.part = "JOINED" /\ srv.part = "APPROVED")
       /\ (page.view.req = "PENDING") = (srv.req = "PENDING")
       /\ page.view.inv = srv.inv

\* A handler whose outcome the page does not show yet.
Unshown(t) == Working(t) /\ (t.step \in {"get", "got"} \/ (t.step = "answered" /\ t.ans = "ok"))

\* The actionState that says an act is done is right.
ActIsTrue ==
  /\ page.act \in {"success_joined", "success_reconfirmed"} => srv.part = "APPROVED"
  /\ page.act = "success_left" => srv.part = "LEAVED"
  /\ page.act = "success_requested" => srv.req = "PENDING"
Successes == {"success_joined", "success_left", "success_requested", "success_reconfirmed"}

\* A handler at work: what it loaded is up to date, what it was granted is in the rows, and
\* until then the page does not claim it.
AtWork(t) ==
  /\ t.step = "got" => UpToDate(t.got)
  /\ t.step = "answered" => t.ans \in {"ok", "refused"}
  /\ t.step \in {"get", "got"} =>
       /\ t.op # "decline" /\ (platform = "mobile" => t.op # "request")
       /\ t.op \in {"load", "withdraw"} \/ t.ans = "ok"
  /\ t.ans = "ok" => Outcome(t.op)
  /\ t.op \in Acting /\ t.step \notin {"get", "got"} => page.act \notin Successes
  /\ page.load = "ready" /\ t.op = "request" /\ t.step = "answered" => SameEvent(page.view)

\* The rows: one handler at a time works on them, and the page follows.
RowsFollow ==
  "rows" \notin drift =>
    /\ \A k, q \in Tasks : Working(task[k]) /\ Working(task[q]) => k = q
    /\ \A k \in Tasks : Working(task[k]) => AtWork(task[k])
    /\ ActIsTrue
    /\ page.load = "ready" /\ (\A k \in Tasks : ~Unshown(task[k])) => SameEvent(page.view) /\ SameViewer
    /\ page.load = "ready" =>
         Visible \/ \E k \in Tasks : Unshown(task[k]) /\ task[k].op = "decline" /\ task[k].step = "answered"

RowsInv == RowsInOrder /\ RowsFollow


\* A page at rest, up to date: what the proofs of both promises start from.
LEMMA AtRest ==
  ASSUME PageInv, RowsInv, Current
  PROVE  /\ RowsInOrder /\ ActIsTrue /\ SameEvent(page.view) /\ SameViewer
         /\ page.act \notin MobileBusy /\ page.busy = {} /\ page.load = "ready"
         /\ platform \in {"mobile", "web"} /\ privacy \in {"PUBLIC", "PROTECTED", "PRIVATE"}
         /\ srv \in Rows /\ (srv.late => srv.part = "LEAVED") /\ eligible \in BOOLEAN
         /\ page \in Pages
<1>1. \A k \in Tasks : ~Running(task[k]) /\ ~Unshown(task[k])
  BY DEF Current, Settled, Quiet, Running, Unshown, Working
<1>2. page.load = "ready" /\ "rows" \notin drift
  BY DEF Current, Settled
<1>3. RowsInOrder /\ ActIsTrue /\ SameEvent(page.view) /\ SameViewer
  BY <1>1, <1>2 DEF RowsInv, RowsFollow
<1>4. page.act \notin MobileBusy /\ page.busy = {}
  BY <1>1 DEF PageInv, SomebodyEnds, Holds
<1> QED
  BY <1>2, <1>3, <1>4 DEF PageInv, Typed

\* The phone: every control that is offered by a page that is up to date is honoured.
LEMMA MobileHonoured ==
  ASSUME PageInv, RowsInv, Current, platform = "mobile", NEW op \in Offers
  PROVE  Accepts(op) \/ KnownRefusal(op)
<1>1. /\ RowsInOrder /\ ActIsTrue /\ SameEvent(page.view) /\ SameViewer
      /\ page.load = "ready" /\ srv \in Rows /\ eligible \in BOOLEAN
      /\ privacy \in {"PUBLIC", "PROTECTED", "PRIVATE"} /\ (srv.late => srv.part = "LEAVED")
  BY AtRest
<1>2. page.shown = Normalized(srv) \/ (page.shown = "PENDING" /\ srv.req = "PENDING")
  BY <1>1 DEF SameViewer
<1>3. op \in MobileActionBar \/ op \in {"favorite", "report", "rate"}
  BY <1>1 DEF Offers, MobileOffers, MobileHeaderOffers, MobileRatingOffers
<1>4. op \in {"favorite", "report", "rate"} => Accepts(op)
  BY DEF Accepts
<1>5. CASE op \in MobileActionBar /\ MobileReconfirmPanel
  <2>1. op \in {"reconfirm", "leave"} /\ srv.part = "PENDING"
    BY <1>1, <1>5 DEF MobileActionBar, MobileReconfirmOffers, MobileReconfirmPanel, SameEvent
  <2> QED
    BY <2>1 DEF Accepts, KnownRefusal, CanLeave, CanReconfirm
<1>6. CASE op \in MobileActionBar /\ ~MobileReconfirmPanel /\ MobileAttendingPanel
  <2>1. op = "leave" /\ MobileCanLeave
    BY <1>6 DEF MobileActionBar, MobileAttendingOffers
  <2>2. srv.part = "APPROVED" /\ Live
    BY <1>1, <1>2, <2>1 DEF MobileCanLeave, Normalized, SameEvent, Live, Rows, Part
  <2> QED
    BY <2>1, <2>2 DEF Accepts, CanLeave
<1>7. CASE op \in MobileActionBar /\ ~MobileReconfirmPanel /\ ~MobileAttendingPanel /\ MobilePendingPanel
  <2>1. op = "withdraw"
    BY <1>7 DEF MobileActionBar, MobilePendingOffers
  <2>2. srv.part = "PENDING" => page.act \in {"success_reconfirmed"}
    BY <1>1, <1>7 DEF MobileReconfirmPanel, SameEvent
  <2>3. srv.part # "PENDING"
    BY <1>1, <2>2 DEF ActIsTrue
  <2>4. srv.req = "PENDING"
    BY <1>1, <1>2, <1>7, <2>3 DEF MobilePendingPanel, ActIsTrue, Normalized
  <2> QED
    BY <2>1, <2>4 DEF Accepts, CanWithdraw
<1>8. CASE op \in MobileActionBar /\ ~MobileReconfirmPanel /\ ~MobileAttendingPanel /\ ~MobilePendingPanel
  <2>1. CASE page.shown = "INVITED"
    <3>1. op \in {"accept", "decline"}
      BY <1>8, <2>1 DEF MobileActionBar, MobileInvitedOffers
    <3>2. srv.part = "NONE" /\ srv.inv = "PENDING"
      BY <1>1, <1>2, <2>1 DEF Normalized, Rows, Part
    <3> QED
      BY <3>1, <3>2 DEF Accepts, CanAccept, CanDecline, CanEnter, KnownRefusal
  <2>2. CASE page.shown # "INVITED"
    <3>1. op \in MobileEntryOffers
      BY <1>8, <2>2 DEF MobileActionBar
    <3>2. /\ op \in {"join", "request"} /\ page.view.status = "ACTIVE" /\ eligible
          /\ op = "join" => privacy = "PUBLIC" /\ ~page.view.full
          /\ op = "request" => privacy = "PROTECTED"
      BY <3>1 DEF MobileEntryOffers
    <3>3. srv.status = "ACTIVE" /\ ~srv.started /\ (srv.seats = "taken") = page.view.full
      BY <1>1, <3>2 DEF SameEvent, Rows
    <3>4. srv.part \in {"NONE", "LEAVED"} /\ ~srv.late /\ CanEnter /\ Live
      <4>1. page.shown \notin {"JOINED", "PENDING"}
        BY <1>8 DEF MobileAttendingPanel, MobilePendingPanel
      <4> QED
        BY <1>1, <1>2, <3>3, <4>1 DEF Normalized, Rows, Part, RowsInOrder, CanEnter, Live
    <3>5. CASE op = "join"
      <4>1. srv.seats \in {"free", "held"}
        BY <1>1, <3>2, <3>3, <3>5 DEF Rows, Seats
      <4> QED
        BY <3>2, <3>4, <3>5, <4>1 DEF Accepts, CanJoin, KnownRefusal
    <3>6. CASE op = "request"
      <4>1. srv.req = "PENDING" => srv.part = "LEAVED"
        BY <1>1, <1>2, <1>8, <2>2, <3>4 DEF Normalized, MobilePendingPanel
      <4>2. srv.req = "APPROVED" => srv.part = "LEAVED"
        BY <1>1, <3>4 DEF RowsInOrder
      <4>3. CASE srv.req \in {"NONE", "CANCELED", "APPROVED"}
        BY <3>2, <3>4, <3>6, <4>2, <4>3 DEF Accepts, CanRequest
      <4>4. CASE srv.req \in {"PENDING", "REJECTED"}
        BY <3>6, <4>1, <4>4 DEF KnownRefusal
      <4> QED
        BY <1>1, <4>3, <4>4 DEF Rows, Requests
    <3> QED
      BY <3>2, <3>5, <3>6
  <2> QED
    BY <2>1, <2>2
<1> QED
  BY <1>3, <1>4, <1>5, <1>6, <1>7, <1>8

\* The web: every control that is offered by a page that is up to date is honoured.
LEMMA WebHonoured ==
  ASSUME PageInv, RowsInv, Current, platform = "web", NEW op \in Offers
  PROVE  Accepts(op) \/ KnownRefusal(op)
<1>1. /\ RowsInOrder /\ SameEvent(page.view) /\ SameViewer
      /\ page.load = "ready" /\ srv \in Rows /\ eligible \in BOOLEAN
      /\ privacy \in {"PUBLIC", "PROTECTED", "PRIVATE"} /\ (srv.late => srv.part = "LEAVED")
  BY AtRest
<1>2. /\ page.view.part = srv.part \/ (page.view.part = "JOINED" /\ srv.part = "APPROVED")
      /\ (page.view.req = "PENDING") = (srv.req = "PENDING") /\ page.view.inv = srv.inv
  BY <1>1 DEF SameViewer
<1>3. op \in WebActionSection \/ op \in WebBannerOffers \/ op \in {"favorite", "report", "rate"}
  BY <1>1 DEF Offers, WebOffers, WebHeaderOffers, WebRatingOffers
<1>4. op \in {"favorite", "report", "rate"} => Accepts(op)
  BY DEF Accepts
<1>5. CASE op \in WebBannerOffers
  <2>1. op \in {"reconfirm", "leave"} /\ srv.part = "PENDING"
    BY <1>1, <1>5 DEF WebBannerOffers, SameEvent
  <2> QED
    BY <2>1 DEF Accepts, KnownRefusal, CanLeave, CanReconfirm
<1>6. CASE op \in WebActionSection
  <2>1. ViewerState(page.view) # "INVITED" /\ srv.part # "PENDING"
    BY <1>1, <1>6 DEF WebActionSection, SameEvent
  <2>2. WebOpen => Live
    BY <1>1 DEF WebOpen, Live, SameEvent, Rows
  <2>3. CASE ViewerState(page.view) = "JOINED"
    <3>1. op = "leave" /\ WebOpen
      BY <1>6, <2>1, <2>3 DEF WebActionSection, WebJoinedOffers
    <3>2. srv.part = "APPROVED"
      BY <1>1, <1>2, <2>3 DEF ViewerState, Rows, Part
    <3> QED
      BY <2>2, <3>1, <3>2 DEF Accepts, CanLeave
  <2>4. CASE ViewerState(page.view) = "PENDING"
    <3>1. op = "withdraw"
      BY <1>6, <2>1, <2>4 DEF WebActionSection, WebPendingOffers
    <3>2. srv.req = "PENDING"
      BY <1>2, <2>1, <2>4 DEF ViewerState
    <3> QED
      BY <3>1, <3>2 DEF Accepts, CanWithdraw
  <2>5. CASE ViewerState(page.view) \notin {"JOINED", "PENDING"}
    <3>1. op \in WebEntryOffers
      BY <1>6, <2>1, <2>5 DEF WebActionSection
    <3>2. /\ op \in {"join", "request"} /\ WebOpen /\ ~page.view.full
          /\ op = "join" => privacy = "PUBLIC"
          /\ op = "request" => privacy = "PROTECTED"
      BY <3>1 DEF WebEntryOffers
    <3>3. Live /\ srv.seats # "taken"
      BY <1>1, <2>2, <3>2 DEF SameEvent
    <3>4. srv.part \in {"NONE", "LEAVED"} /\ srv.req # "PENDING"
      BY <1>1, <1>2, <2>1, <2>5, <3>3 DEF ViewerState, Rows, Part, RowsInOrder, Live
    <3>5. CASE ~eligible \/ srv.late
      BY <3>2, <3>5 DEF KnownRefusal
    <3>6. CASE eligible /\ ~srv.late
      <4>1. CanEnter
        BY <3>4, <3>6 DEF CanEnter
      <4>2. CASE op = "join"
        <5>1. srv.seats \in {"free", "held"}
          BY <1>1, <3>3 DEF Rows, Seats
        <5> QED
          BY <3>2, <3>3, <3>6, <4>1, <4>2, <5>1 DEF Accepts, CanJoin, KnownRefusal
      <4>3. CASE op = "request"
        <5>1. srv.req = "APPROVED" => srv.part = "LEAVED"
          BY <1>1, <3>4 DEF RowsInOrder
        <5>2. CASE srv.req \in {"NONE", "CANCELED", "APPROVED"}
          BY <3>2, <3>3, <3>6, <4>1, <4>3, <5>1, <5>2 DEF Accepts, CanRequest
        <5>3. CASE srv.req = "REJECTED"
          BY <4>3, <5>3 DEF KnownRefusal
        <5> QED
          BY <1>1, <3>4, <5>2, <5>3 DEF Rows, Requests
      <4> QED
        BY <3>2, <4>2, <4>3
    <3> QED
      BY <1>1, <3>5, <3>6
  <2> QED
    BY <2>3, <2>4, <2>5
<1> QED
  BY <1>3, <1>4, <1>5, <1>6


\* The phone: what the server would accept is offered by a page that is up to date.
LEMMA MobileOffersAll ==
  ASSUME PageInv, RowsInv, Current, platform = "mobile",
         NEW op \in {"join", "leave", "request", "withdraw", "reconfirm"}, Accepts(op)
  PROVE  op \in Offers \/ KnownOmission(op)
<1>1. /\ RowsInOrder /\ ActIsTrue /\ SameEvent(page.view) /\ SameViewer
      /\ page.act \notin MobileBusy /\ page.load = "ready" /\ srv \in Rows
  BY AtRest
<1>2. page.shown = Normalized(srv) \/ (page.shown = "PENDING" /\ srv.req = "PENDING")
  BY <1>1 DEF SameViewer
<1>3. SUFFICES ASSUME ~KnownOmission(op) PROVE op \in MobileActionBar
  BY <1>1 DEF Offers, MobileOffers
<1>4. CASE op \in {"leave", "reconfirm"} /\ srv.part = "PENDING"
  <2>1. MobileReconfirmPanel
    BY <1>1, <1>4 DEF MobileReconfirmPanel, SameEvent, ActIsTrue
  <2>2. MobileReconfirmOffers = {"reconfirm", "leave"}
    BY <1>1 DEF MobileReconfirmOffers, MobileBusy
  <2>3. ~MobileLeftPanel
    BY <1>1, <1>2, <1>4 DEF MobileLeftPanel, ActIsTrue, Normalized, RowsInOrder
  <2> QED
    BY <1>4, <2>1, <2>2, <2>3 DEF MobileActionBar
<1>5. CASE op = "leave" /\ srv.part = "APPROVED"
  <2>1. page.shown = "JOINED" /\ MobileAttendingPanel
    BY <1>1, <1>2, <1>5 DEF Normalized, RowsInOrder, MobileAttendingPanel
  <2>2. ~MobileReconfirmPanel /\ ~MobileLeftPanel
    BY <1>1, <1>5, <2>1 DEF MobileReconfirmPanel, SameEvent, MobileLeftPanel, ActIsTrue
  <2>3. MobileCanLeave /\ page.act # "leaving"
    BY <1>1, <1>5, <2>1 DEF MobileCanLeave, SameEvent, MobileBusy, Accepts, CanLeave, Live
  <2> QED
    BY <1>5, <2>1, <2>2, <2>3 DEF MobileActionBar, MobileAttendingOffers
<1>6. CASE op = "withdraw"
  <2>1. srv.req = "PENDING" /\ srv.part = "NONE"
    BY <1>1, <1>3, <1>6 DEF Accepts, CanWithdraw, RowsInOrder, KnownOmission
  <2>2. page.shown = "PENDING" /\ ~page.view.reconfirm
    BY <1>1, <1>2, <2>1 DEF Normalized, SameEvent
  <2>3. ~MobileLeftPanel /\ ~MobileReconfirmPanel /\ ~MobileAttendingPanel /\ MobilePendingPanel
    BY <1>1, <2>1, <2>2 DEF MobileLeftPanel, MobileReconfirmPanel, MobileAttendingPanel,
                            MobilePendingPanel, ActIsTrue
  <2>4. page.act # "canceling_request"
    BY <1>1 DEF MobileBusy
  <2> QED
    BY <1>6, <2>3, <2>4 DEF MobileActionBar, MobilePendingOffers
<1>7. CASE op \in {"join", "request"}
  <2>1. /\ ~srv.started /\ Live /\ CanEnter /\ eligible
        /\ op = "join" => privacy = "PUBLIC" /\ srv.seats # "taken"
        /\ op = "request" => privacy = "PROTECTED" /\ srv.req # "PENDING"
    BY <1>3, <1>7 DEF KnownOmission, Accepts, CanJoin, CanRequest
  <2>2. srv.part \in {"NONE", "LEAVED"} /\ srv.req # "PENDING" /\ srv.inv = "NONE"
    BY <1>1, <1>7, <2>1 DEF CanEnter, RowsInOrder
  <2>3. page.shown \in {"NONE", "LEAVED"} /\ ~page.view.reconfirm
    BY <1>1, <1>2, <2>2 DEF Normalized, SameEvent
  <2>4. ~MobileLeftPanel /\ ~MobileReconfirmPanel /\ ~MobileAttendingPanel /\ ~MobilePendingPanel
    BY <1>1, <2>1, <2>2, <2>3 DEF MobileLeftPanel, MobileReconfirmPanel, MobileAttendingPanel,
                                  MobilePendingPanel, ActIsTrue
  <2>5. MobileActionBar = MobileEntryOffers
    BY <2>3, <2>4 DEF MobileActionBar
  <2>6. page.view.status = "ACTIVE" /\ page.act \notin {"declining_invitation", "joining"}
    BY <1>1, <2>1 DEF SameEvent, Live, Rows, MobileBusy
  <2>7. page.view.full = (srv.seats = "taken")
    BY <1>1 DEF SameEvent
  <2> QED
    BY <1>7, <2>1, <2>5, <2>6, <2>7 DEF MobileEntryOffers
<1> QED
  BY <1>4, <1>5, <1>6, <1>7 DEF Accepts, CanLeave, CanReconfirm

\* The web: what the server would accept is offered by a page that is up to date.
LEMMA WebOffersAll ==
  ASSUME PageInv, RowsInv, Current, platform = "web",
         NEW op \in {"join", "leave", "request", "withdraw", "reconfirm"}, Accepts(op)
  PROVE  op \in Offers \/ KnownOmission(op)
<1>1. /\ RowsInOrder /\ SameEvent(page.view) /\ SameViewer /\ page.busy = {}
      /\ page.load = "ready" /\ srv \in Rows
  BY AtRest
<1>2. /\ page.view.part = srv.part \/ (page.view.part = "JOINED" /\ srv.part = "APPROVED")
      /\ (page.view.req = "PENDING") = (srv.req = "PENDING") /\ page.view.inv = srv.inv
  BY <1>1 DEF SameViewer
<1>3. SUFFICES ASSUME ~KnownOmission(op) PROVE op \in WebActionSection \cup WebBannerOffers
  BY <1>1 DEF Offers, WebOffers
<1>4. CASE op \in {"leave", "reconfirm"} /\ srv.part = "PENDING"
  <2>1. page.view.reconfirm
    BY <1>1, <1>4 DEF SameEvent
  <2> QED
    BY <1>1, <1>4, <2>1 DEF WebBannerOffers
<1>5. Live => WebOpen
  BY <1>1 DEF WebOpen, Live, SameEvent
<1>6. CASE op = "leave" /\ srv.part = "APPROVED"
  <2>1. ViewerState(page.view) = "JOINED" /\ ~page.view.reconfirm
    BY <1>1, <1>2, <1>6 DEF ViewerState, SameEvent
  <2>2. WebOpen
    BY <1>5, <1>6 DEF Accepts, CanLeave
  <2> QED
    BY <1>1, <1>6, <2>1, <2>2 DEF WebActionSection, WebJoinedOffers
<1>7. CASE op = "withdraw"
  <2>1. srv.req = "PENDING" /\ srv.part \in {"NONE", "LEAVED"}
    BY <1>1, <1>7 DEF Accepts, CanWithdraw, RowsInOrder
  <2>2. ViewerState(page.view) = "PENDING" /\ ~page.view.reconfirm
    BY <1>1, <1>2, <2>1 DEF ViewerState, SameEvent
  <2> QED
    BY <1>1, <1>7, <2>2 DEF WebActionSection, WebPendingOffers
<1>8. CASE op \in {"join", "request"}
  <2>1. /\ Live /\ CanEnter /\ srv.seats # "taken"
        /\ op = "join" => privacy = "PUBLIC"
        /\ op = "request" => privacy = "PROTECTED" /\ srv.req # "PENDING"
    BY <1>3, <1>8 DEF KnownOmission, Accepts, CanJoin, CanRequest
  <2>2. srv.part \in {"NONE", "LEAVED"} /\ srv.req # "PENDING" /\ srv.inv = "NONE"
    BY <1>1, <1>8, <2>1 DEF CanEnter, RowsInOrder
  <2>3. ViewerState(page.view) \in {"NONE", "LEAVED"} /\ ~page.view.reconfirm
    BY <1>1, <1>2, <2>2 DEF ViewerState, SameEvent
  <2>4. WebActionSection = WebEntryOffers
    BY <2>3 DEF WebActionSection
  <2>5. WebOpen /\ ~page.view.full
    BY <1>1, <1>5, <2>1 DEF SameEvent
  <2> QED
    BY <1>1, <1>8, <2>1, <2>4, <2>5 DEF WebEntryOffers
<1> QED
  BY <1>4, <1>6, <1>7, <1>8 DEF Accepts, CanLeave, CanReconfirm


\* What an accepted request leaves in the rows: they stay in order, the viewer has what was
\* asked for, and whoever did not decline can see the event as before.
LEMMA ServedRows ==
  ASSUME Typed, RowsInOrder, UNCHANGED privacy, NEW op \in Op, NEW was \in BOOLEAN, Accepts(op),
         srv' \in Effects(op, was)
  PROVE  /\ RowsInOrder' /\ Outcome(op)'
         /\ op \in {"load", "report", "rate"} => srv' = srv
         /\ op = "favorite" => \E f \in BOOLEAN : srv' = [srv EXCEPT !.fav = f]
         /\ op = "request" => srv' = [srv EXCEPT !.req = "PENDING"]
         /\ op # "decline" => (Visible => Visible')
<1>1. srv \in Rows /\ (srv.late => srv.part = "LEAVED") /\ privacy' = privacy
  BY DEF Typed
<1>2. ASSUME NEW seats \in Seats
      PROVE  /\ Admitted(seats).part = "APPROVED" /\ ~Admitted(seats).late
             /\ Admitted(seats).status = srv.status /\ Admitted(seats).started = srv.started
             /\ Admitted(seats).req = srv.req /\ Admitted(seats).inv = srv.inv
             /\ Admitted(seats) \in Rows
  BY <1>1 DEF Admitted, Rows, Part
<1>3. CASE op = "join"
  <2>1. PICK seats \in Seats : srv' = Admitted(seats)
    BY <1>3 DEF Effects
  <2>2. privacy = "PUBLIC" /\ srv.req = "NONE" /\ srv.inv = "NONE"
    BY <1>3 DEF Accepts, CanJoin, RowsInOrder
  <2> QED
    BY <1>1, <1>2, <1>3, <2>1, <2>2 DEF RowsInOrder, Outcome, Visible
<1>4. CASE op = "leave"
  <2>1. PICK seats \in SeatsLeft : srv' = [srv EXCEPT !.part = "LEAVED", !.late = srv.started,
                                                     !.seats = seats]
    BY <1>4 DEF Effects
  <2>2. /\ srv'.part = "LEAVED" /\ srv'.late = srv.started /\ srv'.status = srv.status
        /\ srv'.started = srv.started /\ srv'.req = srv.req /\ srv'.inv = srv.inv
    BY <1>1, <2>1 DEF Rows
  <2> QED
    BY <1>1, <1>4, <2>2 DEF RowsInOrder, Outcome, Visible
<1>5. CASE op = "request"
  <2>1. srv' = [srv EXCEPT !.req = "PENDING"]
    BY <1>5 DEF Effects
  <2>2. /\ srv'.part = srv.part /\ srv'.late = srv.late /\ srv'.status = srv.status
        /\ srv'.started = srv.started /\ srv'.req = "PENDING" /\ srv'.inv = srv.inv
    BY <1>1, <2>1 DEF Rows
  <2>3. privacy = "PROTECTED" /\ srv.part \in {"NONE", "LEAVED"}
    BY <1>5 DEF Accepts, CanRequest, CanEnter
  <2> QED
    BY <1>1, <1>5, <2>1, <2>2, <2>3 DEF RowsInOrder, Outcome, Visible
<1>6. CASE op = "withdraw"
  <2>1. srv' = [srv EXCEPT !.req = "CANCELED"]
    BY <1>6 DEF Effects
  <2>2. /\ srv'.part = srv.part /\ srv'.late = srv.late /\ srv'.status = srv.status
        /\ srv'.started = srv.started /\ srv'.req = "CANCELED" /\ srv'.inv = srv.inv
    BY <1>1, <2>1 DEF Rows
  <2>3. srv.req = "PENDING"
    BY <1>6 DEF Accepts, CanWithdraw
  <2> QED
    BY <1>1, <1>6, <2>2, <2>3 DEF RowsInOrder, Outcome, Visible
<1>7. CASE op = "reconfirm"
  <2>1. PICK seats \in SeatsConfirmed : srv' = [srv EXCEPT !.part = "APPROVED", !.seats = seats]
    BY <1>7 DEF Effects
  <2>2. /\ srv'.part = "APPROVED" /\ srv'.late = srv.late /\ srv'.status = srv.status
        /\ srv'.started = srv.started /\ srv'.req = srv.req /\ srv'.inv = srv.inv
    BY <1>1, <2>1 DEF Rows
  <2>3. srv.part = "PENDING"
    BY <1>7 DEF Accepts, CanReconfirm
  <2> QED
    BY <1>1, <1>7, <2>2, <2>3 DEF RowsInOrder, Outcome, Visible
<1>8. CASE op = "accept"
  <2>1. PICK seats \in Seats : srv' = [Admitted(seats) EXCEPT !.inv = "ACCEPTED"]
    BY <1>8 DEF Effects
  <2>2. /\ srv'.part = "APPROVED" /\ ~srv'.late /\ srv'.status = srv.status
        /\ srv'.started = srv.started /\ srv'.req = srv.req /\ srv'.inv = "ACCEPTED"
    BY <1>2, <2>1 DEF Rows
  <2>3. srv.inv = "PENDING" /\ privacy = "PRIVATE" /\ srv.req = "NONE"
    BY <1>8 DEF Accepts, CanAccept, RowsInOrder
  <2> QED
    BY <1>1, <1>8, <2>2, <2>3 DEF RowsInOrder, Outcome, Visible
<1>9. CASE op = "decline"
  <2>1. srv' = [srv EXCEPT !.inv = "DECLINED"]
    BY <1>9 DEF Effects
  <2>2. /\ srv'.part = srv.part /\ srv'.late = srv.late /\ srv'.status = srv.status
        /\ srv'.started = srv.started /\ srv'.req = srv.req /\ srv'.inv = "DECLINED"
    BY <1>1, <2>1 DEF Rows
  <2>3. srv.inv = "PENDING"
    BY <1>9 DEF Accepts, CanDecline
  <2> QED
    BY <1>1, <1>9, <2>2, <2>3 DEF RowsInOrder, Outcome
<1>10. CASE op = "favorite"
  <2>1. srv' = [srv EXCEPT !.fav = ~was]
    BY <1>10 DEF Effects
  <2>2. /\ srv'.part = srv.part /\ srv'.late = srv.late /\ srv'.status = srv.status
        /\ srv'.started = srv.started /\ srv'.req = srv.req /\ srv'.inv = srv.inv
    BY <1>1, <2>1 DEF Rows
  <2> QED
    BY <1>1, <1>10, <2>1, <2>2 DEF RowsInOrder, Outcome, Visible
<1>11. CASE op \in {"load", "report", "rate"}
  <2>1. srv' = srv
    BY <1>11 DEF Effects
  <2> QED
    BY <1>1, <1>11, <2>1 DEF RowsInOrder, Outcome, Visible
<1> QED
  BY <1>3, <1>4, <1>5, <1>6, <1>7, <1>8, <1>9, <1>10, <1>11 DEF Op

\* Changes from outside leave the rows in order, too.
LEMMA OutsideRows ==
  ASSUME PageInv, RowsInv, Outside
  PROVE  RowsInv'
<1>1. /\ srv \in Rows /\ (srv.late => srv.part = "LEAVED") /\ RowsInOrder /\ privacy' = privacy
      /\ drift' = drift \cup {"rows"}
  BY DEF PageInv, Typed, RowsInv, Outside, fixed_vars
<1>2. RowsFollow'
  BY <1>1 DEF RowsFollow
<1>3. RowsInOrder'
  <2>1. CASE HostEdits
    BY <1>1, <2>1 DEF HostEdits, Rows, RowsInOrder
  <2>2. CASE HostCancels
    BY <1>1, <2>2 DEF HostCancels, Rows, RowsInOrder
  <2>3. CASE HostCompletes
    BY <1>1, <2>3 DEF HostCompletes, Rows, RowsInOrder, Live
  <2>4. CASE HostAnswers
    <3>1. CASE srv' = [srv EXCEPT !.req = "REJECTED"] /\ srv.req = "PENDING"
      BY <1>1, <3>1 DEF Rows, RowsInOrder
    <3>2. ASSUME NEW seats \in Seats, srv' = [Admitted(seats) EXCEPT !.req = "APPROVED"],
                 srv.req = "PENDING"
          PROVE  RowsInOrder'
      <4>1. /\ srv'.part = "APPROVED" /\ ~srv'.late /\ srv'.req = "APPROVED" /\ srv'.inv = srv.inv
        BY <1>1, <3>2 DEF Admitted, Rows
      <4> QED
        BY <1>1, <3>2, <4>1 DEF RowsInOrder
    <3> QED
      BY <2>4, <3>1, <3>2 DEF HostAnswers
  <2>5. CASE HostInvites
    BY <1>1, <2>5 DEF HostInvites, Rows, RowsInOrder
  <2>6. CASE HostRevokes
    BY <1>1, <2>6 DEF HostRevokes, Rows, RowsInOrder
  <2>7. CASE OthersCome
    BY <1>1, <2>7 DEF OthersCome, Rows, RowsInOrder
  <2>8. CASE EventStarts
    BY <1>1, <2>8 DEF EventStarts, Rows, RowsInOrder
  <2> QED
    BY <2>1, <2>2, <2>3, <2>4, <2>5, <2>6, <2>7, <2>8 DEF Outside
<1> QED
  BY <1>2, <1>3 DEF RowsInv


\* Another state of the rows that differs in the heart only, and another state of the page
\* that shows the same of them.
SameRows(row) ==
  /\ row.status = srv.status /\ row.started = srv.started /\ row.part = srv.part
  /\ row.late = srv.late /\ row.req = srv.req /\ row.inv = srv.inv /\ row.seats = srv.seats
ShowsSame(p) ==
  /\ p.shown = page.shown /\ p.view.status = page.view.status /\ p.view.part = page.view.part
  /\ p.view.reconfirm = page.view.reconfirm /\ p.view.req = page.view.req
  /\ p.view.inv = page.view.inv /\ p.view.full = page.view.full

\* What depends on the rows and on what the page shows of them only.
LEMMA SameSight ==
  ASSUME UNCHANGED fixed_vars, SameRows(srv')
  PROVE  /\ RowsInOrder => RowsInOrder'
         /\ Visible' = Visible /\ Normalized(srv)' = Normalized(srv)
         /\ \A op \in Op : Outcome(op)' = Outcome(op)
         /\ page'.act = page.act \/ page'.act \notin Successes => (ActIsTrue => ActIsTrue')
         /\ ShowsSame(page') => (SameEvent(page.view) => SameEvent(page.view)')
         /\ ShowsSame(page') => (SameViewer => SameViewer')
<1>1. /\ srv'.status = srv.status /\ srv'.started = srv.started /\ srv'.part = srv.part
      /\ srv'.late = srv.late /\ srv'.req = srv.req /\ srv'.inv = srv.inv /\ srv'.seats = srv.seats
      /\ platform' = platform /\ privacy' = privacy
  BY DEF SameRows, fixed_vars
<1>2. (RowsInOrder => RowsInOrder') /\ Visible' = Visible /\ Normalized(srv)' = Normalized(srv)
  BY <1>1 DEF RowsInOrder, Visible, Normalized
<1>3. \A op \in Op : Outcome(op)' = Outcome(op)
  BY <1>1 DEF Outcome
<1>4. page'.act = page.act \/ page'.act \notin Successes => (ActIsTrue => ActIsTrue')
  BY <1>1 DEF ActIsTrue, Successes
<1>5. ShowsSame(page') => (SameEvent(page.view) => SameEvent(page.view)')
  BY <1>1 DEF ShowsSame, SameEvent
<1>6. ShowsSame(page') => (SameViewer => SameViewer')
  BY <1>1, <1>2 DEF ShowsSame, SameViewer
<1> QED
  BY <1>2, <1>3, <1>4, <1>5, <1>6

\* A step that touches neither the rows nor what the page shows of them, nor a handler that
\* works on them.
LEMMA AsideStep ==
  ASSUME PageInv, RowsInv, UNCHANGED fixed_vars, SameRows(srv'), ShowsSame(page'),
         page'.load = page.load, page'.act = page.act \/ page'.act \notin Successes,
         "rows" \notin drift' => "rows" \notin drift,
         \A q \in Tasks : /\ Working(task'[q]) => Working(task[q])
                          /\ Working(task[q]) => task'[q] = task[q]
  PROVE  RowsInv'
<1>1. /\ RowsInOrder' /\ Visible' = Visible
      /\ \A op \in Op : Outcome(op)' = Outcome(op)
      /\ ActIsTrue => ActIsTrue'
      /\ SameEvent(page.view) => SameEvent(page.view)'
      /\ SameViewer => SameViewer'
  BY SameSight DEF RowsInv
<1>2. RowsFollow'
  <2> SUFFICES ASSUME "rows" \notin drift' PROVE RowsFollow'
    BY DEF RowsFollow
  <2>1. RowsFollow /\ "rows" \notin drift
    BY DEF RowsInv
  <2>2. \A k \in Tasks : task[k].op \in Op
    BY DEF PageInv, Typed, Handlers
  <2>3. \A k, q \in Tasks : Working(task'[k]) /\ Working(task'[q]) => k = q
    BY <2>1 DEF RowsFollow
  <2>4. ASSUME NEW k \in Tasks, Working(task'[k]) PROVE AtWork(task[k])'
    <3>1. Working(task[k]) /\ task'[k] = task[k]
      BY <2>4
    <3>2. AtWork(task[k])
      BY <2>1, <3>1 DEF RowsFollow
    <3>3. UpToDate(task[k].got) => UpToDate(task[k].got)'
      BY <1>1, <3>1 DEF UpToDate, SameEvent, SameRows
    <3>4. Outcome(task[k].op) => Outcome(task[k].op)'
      BY <3>1 DEF Outcome, SameRows
    <3> QED
      BY <1>1, <3>1, <3>2, <3>3, <3>4 DEF AtWork, fixed_vars
  <2>5. \A k \in Tasks : Unshown(task'[k]) <=> Unshown(task[k])
    BY DEF Unshown
  <2>6. \A k \in Tasks : Unshown(task[k]) => task'[k] = task[k]
    BY DEF Unshown
  <2>7. ActIsTrue'
    BY <1>1, <2>1 DEF RowsFollow
  <2>8. page'.load = "ready" /\ (\A k \in Tasks : ~Unshown(task'[k])) =>
          SameEvent(page.view)' /\ SameViewer'
    BY <1>1, <2>1, <2>5 DEF RowsFollow
  <2>9. page'.load = "ready" =>
          Visible' \/ \E k \in Tasks : Unshown(task'[k]) /\ task'[k].op = "decline" /\ task'[k].step = "answered"
    BY <1>1, <2>1, <2>5, <2>6 DEF RowsFollow
  <2> QED
    BY <2>3, <2>4, <2>7, <2>8, <2>9 DEF RowsFollow
<1> QED
  BY <1>1, <1>2 DEF RowsInv


\* A step of a handler that works on the rows: as long as the page keeps up with them no
\* other does, so that only this one matters.
LEMMA WorkStep ==
  ASSUME PageInv, NEW k \in Tasks, NEW t \in Handlers, task' = [task EXCEPT ![k] = t], RowsInOrder',
         "rows" \notin drift' =>
           /\ \A q \in Tasks : q # k => ~Working(task[q])
           /\ Working(t) => AtWork(t)'
           /\ ActIsTrue'
           /\ page'.load = "ready" /\ ~Unshown(t) => SameEvent(page.view)' /\ SameViewer'
           /\ page'.load = "ready" =>
                Visible' \/ (Unshown(t) /\ t.op = "decline" /\ t.step = "answered")
  PROVE  RowsInv'
<1>1. \A q \in Tasks : task'[q] = IF q = k THEN t ELSE task[q]
  BY DEF PageInv, Typed
<1>2. RowsFollow'
  <2> SUFFICES ASSUME "rows" \notin drift' PROVE RowsFollow'
    BY DEF RowsFollow
  <2>1. \A q \in Tasks : Working(task'[q]) => q = k /\ task'[q] = t
    BY <1>1
  <2>2. task'[k] = t
    BY <1>1
  <2>3. ASSUME NEW q \in Tasks, Working(task'[q]) PROVE AtWork(task[q])'
    <3>1. task'[q] = t /\ Working(t)
      BY <2>1, <2>3
    <3>2. AtWork(t)'
      BY <3>1
    <3> QED
      BY <3>1, <3>2 DEF AtWork, UpToDate, SameEvent, Outcome
  <2>4. \A p, q \in Tasks : Working(task'[p]) /\ Working(task'[q]) => p = q
    BY <2>1
  <2>5. page'.load = "ready" /\ (\A q \in Tasks : ~Unshown(task'[q])) =>
          SameEvent(page.view)' /\ SameViewer'
    BY <2>2
  <2>6. page'.load = "ready" =>
          Visible' \/ \E q \in Tasks : Unshown(task'[q]) /\ task'[q].op = "decline" /\ task'[q].step = "answered"
    BY <2>2
  <2> QED
    BY <2>3, <2>4, <2>5, <2>6 DEF RowsFollow
<1> QED
  BY <1>2 DEF RowsInv

\* What is known of a handler that works on the rows, while the page keeps up with them.
LEMMA WorkKnown ==
  ASSUME RowsInv, NEW k \in Tasks, Working(task[k]), "rows" \notin drift
  PROVE  /\ \A q \in Tasks : q # k => ~Working(task[q])
         /\ AtWork(task[k]) /\ ActIsTrue
         /\ page.load = "ready" /\ ~Unshown(task[k]) => SameEvent(page.view) /\ SameViewer
         /\ page.load = "ready" =>
              Visible \/ (Unshown(task[k]) /\ task[k].op = "decline" /\ task[k].step = "answered")
<1>1. \A q \in Tasks : Working(task[q]) => q = k
  BY DEF RowsInv, RowsFollow
<1>2. \A q \in Tasks : Unshown(task[q]) => q = k
  BY <1>1 DEF Unshown
<1>3. RowsFollow
  BY DEF RowsInv
<1> QED
  BY <1>1, <1>2, <1>3 DEF RowsFollow

\* The picture is uploaded, the invitation looked up, or the server refuses.
LEMMA WaitRows ==
  ASSUME PageInv, RowsInv, NEW k \in Tasks, Working(task[k]), NEW t \in Handlers,
         task[k].step \in {"upload", "resolve", "sent"},
         task' = [task EXCEPT ![k] = t], t.op = task[k].op,
         (t.step = "sent" /\ t.ans = "none") \/ (t.step = "answered" /\ t.ans = "refused"),
         UNCHANGED <<fixed_vars, srv, page, drift>>
  PROVE  RowsInv'
<1>1. RowsInOrder' /\ SameRows(srv') /\ ShowsSame(page')
  BY DEF RowsInv, RowsInOrder, SameRows, ShowsSame, fixed_vars
<1>2. /\ ActIsTrue => ActIsTrue'
      /\ SameEvent(page.view) => SameEvent(page.view)'
      /\ SameViewer => SameViewer'
      /\ Visible' = Visible
  BY <1>1, SameSight
<1>3. ~Unshown(t) /\ ~Unshown(task[k])
  <2>1. task[k].ans = "none"
    BY DEF PageInv, InCourse
  <2> QED
    BY <2>1 DEF Unshown
<1>4. ASSUME "rows" \notin drift'
      PROVE  /\ \A q \in Tasks : q # k => ~Working(task[q])
             /\ AtWork(t)' /\ ActIsTrue'
             /\ page'.load = "ready" => SameEvent(page.view)' /\ SameViewer' /\ Visible'
  <2>1. /\ \A q \in Tasks : q # k => ~Working(task[q])
        /\ AtWork(task[k]) /\ ActIsTrue
        /\ page.load = "ready" => SameEvent(page.view) /\ SameViewer /\ Visible
    BY <1>3, <1>4, WorkKnown
  <2>2. AtWork(t)'
    BY <1>2, <2>1 DEF AtWork
  <2> QED
    BY <1>2, <2>1, <2>2
<1> QED
  BY <1>1, <1>3, <1>4, WorkStep


\* Once the page cannot know the rows, nothing is claimed of it.
LEMMA LeftBehind ==
  ASSUME RowsInv, UNCHANGED <<fixed_vars, srv>>, "rows" \in drift'
  PROVE  RowsInv'
BY DEF RowsInv, RowsInOrder, RowsFollow, fixed_vars

\* The server executes or refuses a request.
LEMMA ServedRowsStep ==
  ASSUME PageInv, RowsInv, NEW k \in Tasks, Served(k)
  PROVE  RowsInv'
<1>1. /\ Typed /\ RowsInOrder /\ task[k] \in Handlers /\ task \in [Tasks -> Handlers]
      /\ task[k].step = "sent" /\ task[k].ans = "none" /\ task[k].op # "load"
      /\ task[k].op \in Op /\ task[k].was \in BOOLEAN
      /\ UNCHANGED <<fixed_vars, page, drift>> /\ privacy' = privacy
  BY DEF PageInv, Typed, InCourse, RowsInv, Served, Handlers, fixed_vars
<1>2. PICK a \in {"ok", "refused"} :
        /\ task' = [task EXCEPT ![k].step = "answered", ![k].ans = a]
        /\ IF a = "ok" THEN Accepts(task[k].op) /\ srv' \in Effects(task[k].op, task[k].was)
           ELSE srv' = srv
  BY DEF Served
<1>3. PICK t : t = [task[k] EXCEPT !.step = "answered", !.ans = a]
  OBVIOUS
<1>4. t \in Handlers /\ t.step = "answered" /\ t.ans = a /\ t.op = task[k].op
  BY <1>1, <1>3 DEF Handlers, Steps
<1>5. task' = [task EXCEPT ![k] = t]
  BY <1>1, <1>2, <1>3
<1>6. Running(task[k]) /\ Running(t)
  BY <1>1, <1>4 DEF Running
<1>7. CASE task[k].op \in {"report", "favorite"}
  <2>1. SameRows(srv')
    <3>1. a = "ok" => srv' = srv \/ \E f \in BOOLEAN : srv' = [srv EXCEPT !.fav = f]
      BY <1>1, <1>2, <1>7, ServedRows
    <3>2. srv \in Rows
      BY <1>1 DEF Typed
    <3> QED
      BY <1>2, <3>1, <3>2 DEF SameRows, Rows
  <2>2. ~Working(task[k]) /\ ~Working(t)
    BY <1>4, <1>7 DEF Working
  <2>3. \A q \in Tasks : /\ Working(task'[q]) => Working(task[q])
                         /\ Working(task[q]) => task'[q] = task[q]
    BY <1>1, <1>5, <2>2
  <2>4. ShowsSame(page')
    BY <1>1 DEF ShowsSame
  <2> QED
    BY <1>1, <2>1, <2>3, <2>4, AsideStep
<1>8. CASE task[k].op \notin {"report", "favorite"} /\ a = "refused"
  <2>1. Working(task[k])
    BY <1>6, <1>8 DEF Working
  <2>2. srv' = srv
    BY <1>2, <1>8
  <2> QED
    BY <1>1, <1>4, <1>5, <1>8, <2>1, <2>2, WaitRows
<1>9. CASE task[k].op \notin {"report", "favorite"} /\ a = "ok"
  <2>1. Working(task[k]) /\ Working(t) /\ Unshown(t) /\ ~Unshown(task[k])
    BY <1>1, <1>4, <1>6, <1>9 DEF Working, Unshown
  <2>2. Accepts(task[k].op) /\ srv' \in Effects(task[k].op, task[k].was)
    BY <1>2, <1>9
  <2>3. PICK c \in Op : c = task[k].op
    BY <1>1
  <2>4. /\ RowsInOrder' /\ Outcome(c)'
        /\ c \in {"load", "report", "rate"} => srv' = srv
        /\ c = "request" => srv' = [srv EXCEPT !.req = "PENDING"]
        /\ c # "decline" => (Visible => Visible')
    BY <1>1, <2>2, <2>3, ServedRows
  <2>5. t.op = c /\ Outcome(t.op)'
    BY <1>4, <2>3, <2>4
  <2>6. ASSUME "rows" \notin drift'
        PROVE  /\ \A q \in Tasks : q # k => ~Working(task[q])
               /\ c \in Acting => page.act \notin Successes
               /\ page.load = "ready" => SameEvent(page.view) /\ Visible
               /\ ActIsTrue
    <3>1. /\ \A q \in Tasks : q # k => ~Working(task[q])
          /\ AtWork(task[k]) /\ ActIsTrue
          /\ page.load = "ready" => SameEvent(page.view) /\ Visible
      BY <1>1, <2>1, <2>6, WorkKnown
    <3> QED
      BY <1>1, <2>3, <3>1 DEF AtWork
  <2>7. ASSUME "rows" \notin drift' PROVE ActIsTrue'
    <3>1. CASE c \in Acting
      BY <1>1, <2>6, <2>7, <3>1 DEF ActIsTrue, Successes
    <3>2. CASE c \notin Acting
      <4>1. srv' = srv
        BY <1>1, <1>9, <2>3, <2>4, <3>2 DEF Acting, Op
      <4> QED
        BY <1>1, <2>6, <2>7, <4>1 DEF ActIsTrue
    <3> QED
      BY <3>1, <3>2
  <2>8. ASSUME "rows" \notin drift', page'.load = "ready", c = "request"
        PROVE  SameEvent(page.view)'
    <3>1. SameEvent(page.view) /\ srv' = [srv EXCEPT !.req = "PENDING"] /\ srv \in Rows
      BY <1>1, <2>4, <2>6, <2>8 DEF Typed
    <3> QED
      BY <1>1, <3>1 DEF SameEvent, Rows
  <2>9. ASSUME "rows" \notin drift', page'.load = "ready"
        PROVE  Visible' \/ c = "decline"
    BY <1>1, <2>4, <2>6, <2>9
  <2>10. ASSUME "rows" \notin drift' PROVE AtWork(t)'
    BY <1>1, <1>4, <2>5, <2>6, <2>8, <2>10 DEF AtWork
  <2> QED
    BY <1>4, <1>5, <2>1, <2>4, <2>5, <2>6, <2>7, <2>9, <2>10, WorkStep
<1> QED
  BY <1>7, <1>8, <1>9, <1>2

\* The event is loaded, or an answer or a load is lost, or the handler goes to its request.
LEMMA ProceedingRows ==
  ASSUME PageInv, RowsInv, NEW k \in Tasks,
         Lost(k) \/ Uploaded(k) \/ Resolved(k) \/ DetailServed(k) \/ DetailLost(k)
  PROVE  RowsInv'
<1>1. /\ Typed /\ RowsInOrder /\ task[k] \in Handlers /\ task \in [Tasks -> Handlers]
      /\ UNCHANGED <<fixed_vars, srv, page>> /\ srv \in Rows
  BY DEF PageInv, Typed, RowsInv, Lost, Uploaded, Resolved, DetailServed, DetailLost
<1>2. CASE Lost(k)
  <2>1. CASE task[k].op # "favorite"
    <3>1. "rows" \in drift'
      BY <1>2, <2>1 DEF Lost, Concerns
    <3> QED
      BY <1>1, <3>1, LeftBehind
  <2>2. CASE task[k].op = "favorite"
    <3>1. drift \subseteq drift' /\ ~Working(task[k])
      BY <1>2, <2>2 DEF Lost, Working
    <3>2. \A q \in Tasks : task'[q].op = task[q].op /\ (q # k => task'[q] = task[q])
      BY <1>1, <1>2 DEF Lost, Handlers
    <3>3. \A q \in Tasks : /\ Working(task'[q]) => Working(task[q])
                           /\ Working(task[q]) => task'[q] = task[q]
      BY <2>2, <3>1, <3>2 DEF Working
    <3>4. SameRows(srv') /\ ShowsSame(page')
      BY <1>1 DEF SameRows, ShowsSame
    <3> QED
      BY <1>1, <3>1, <3>3, <3>4, AsideStep
  <2> QED
    BY <2>1, <2>2
<1>3. CASE DetailLost(k)
  <2>1. "rows" \in drift'
    BY <1>3 DEF DetailLost
  <2> QED
    BY <1>1, <2>1, LeftBehind
<1>4. CASE Uploaded(k) \/ Resolved(k)
  <2>1. /\ task[k].step \in {"upload", "resolve"} /\ task[k].ans = "none"
        /\ task[k].op \notin {"report", "favorite"} /\ drift' = drift
    BY <1>4 DEF Uploaded, Resolved, PageInv, InCourse
  <2>2. PICK t \in Handlers :
          /\ task' = [task EXCEPT ![k] = t] /\ t.op = task[k].op
          /\ (t.step = "sent" /\ t.ans = "none") \/ (t.step = "answered" /\ t.ans = "refused")
    <3>1. CASE Go(k, "sent")
      <4>1. PICK t : t = [task[k] EXCEPT !.step = "sent"]
        OBVIOUS
      <4>2. t \in Handlers /\ t.op = task[k].op /\ t.step = "sent" /\ t.ans = "none"
        BY <1>1, <2>1, <4>1 DEF Handlers, Steps
      <4>3. task' = [task EXCEPT ![k] = t]
        BY <1>1, <3>1, <4>1 DEF Go
      <4> QED
        BY <4>2, <4>3
    <3>2. CASE task' = [task EXCEPT ![k].step = "answered", ![k].ans = "refused"]
      <4>1. PICK t : t = [task[k] EXCEPT !.step = "answered", !.ans = "refused"]
        OBVIOUS
      <4>2. t \in Handlers /\ t.op = task[k].op /\ t.step = "answered" /\ t.ans = "refused"
        BY <1>1, <2>1, <4>1 DEF Handlers, Steps
      <4>3. task' = [task EXCEPT ![k] = t]
        BY <1>1, <3>2, <4>1
      <4> QED
        BY <4>2, <4>3
    <3> QED
      BY <1>4, <3>1, <3>2 DEF Uploaded, Resolved
  <2>3. Working(task[k])
    BY <2>1 DEF Working, Running
  <2> QED
    BY <1>1, <2>1, <2>2, <2>3, WaitRows
<1>5. CASE DetailServed(k)
  <2>1. PICK v : v = Detail
    OBVIOUS
  <2>2. PICK t : t = [task[k] EXCEPT !.step = "got", !.got = v]
    OBVIOUS
  <2>3. v \in Views(Part)
    <3>1. Missing \in Views(Part)
      BY DEF Missing, NoView, Views, Statuses, Part, Requests, Invited
    <3> QED
      BY <1>1, <2>1, <3>1 DEF Detail, Views, Statuses, Rows
  <2>4. t \in Handlers /\ t.step = "got" /\ t.op = task[k].op /\ t.got = v /\ t.ans = task[k].ans
    BY <1>1, <2>2, <2>3 DEF Handlers, Steps
  <2>5. task[k].step = "get" /\ task' = [task EXCEPT ![k] = t] /\ drift' = drift
    BY <1>1, <1>5, <2>1, <2>2 DEF DetailServed
  <2>6. Working(task[k]) /\ Working(t) /\ Unshown(t) /\ Unshown(task[k])
    BY <2>4, <2>5 DEF Working, Running, Unshown, PageInv, InCourse
  <2>7. UpToDate(v)
    BY <1>1, <2>1 DEF UpToDate, Detail, SameEvent, Missing, NoView
  <2>8. RowsInOrder' /\ UpToDate(v)' /\ (ActIsTrue => ActIsTrue') /\ Visible' = Visible
    BY <1>1, <2>7 DEF RowsInOrder, UpToDate, Visible, SameEvent, ActIsTrue, fixed_vars
  <2>9. task[k].ans = "ok" /\ Outcome(task[k].op) => Outcome(t.op)'
    BY <1>1, <2>4 DEF Outcome
  <2>10. ASSUME "rows" \notin drift'
         PROVE  /\ \A q \in Tasks : q # k => ~Working(task[q])
                /\ AtWork(t)' /\ ActIsTrue' /\ (page'.load = "ready" => Visible')
    <3>1. /\ \A q \in Tasks : q # k => ~Working(task[q])
          /\ AtWork(task[k]) /\ ActIsTrue /\ (page.load = "ready" => Visible)
      BY <2>5, <2>6, <2>10, WorkKnown
    <3>2. AtWork(t)'
      BY <1>1, <2>4, <2>5, <2>8, <2>9, <3>1 DEF AtWork, fixed_vars
    <3> QED
      BY <1>1, <2>8, <3>1, <3>2
  <2> QED
    BY <2>4, <2>5, <2>6, <2>8, <2>10, WorkStep
<1> QED
  BY <1>2, <1>3, <1>4, <1>5


\* A handler goes on to load the event.
LEMMA GoOnRows ==
  ASSUME PageInv, RowsInv, NEW k \in Tasks, Working(task[k]), task[k].step = "answered", Go(k, "get"),
         task[k].op # "decline", platform = "mobile" => task[k].op # "request",
         task[k].ans = "ok" \/ task[k].op = "withdraw",
         UNCHANGED <<fixed_vars, srv, drift>>, page'.load = page.load,
         \/ page'.act = page.act \/ page'.act \notin Successes
         \/ page'.act = "success_joined" /\ task[k].op = "join" /\ task[k].ans = "ok"
  PROVE  RowsInv'
<1>1. PICK t : t = [task[k] EXCEPT !.step = "get"]
  OBVIOUS
<1>2. /\ t \in Handlers /\ t.step = "get" /\ t.op = task[k].op /\ t.ans = task[k].ans
      /\ task' = [task EXCEPT ![k] = t]
  BY <1>1 DEF PageInv, Typed, Handlers, Steps, Go
<1>3. RowsInOrder' /\ Visible' = Visible /\ platform' = platform
  BY DEF RowsInv, RowsInOrder, Visible, fixed_vars
<1>4. Working(t) /\ Unshown(t)
  BY <1>2 DEF Unshown, Working, Running
<1>5. ASSUME "rows" \notin drift'
      PROVE  /\ \A q \in Tasks : q # k => ~Working(task[q])
             /\ AtWork(t)' /\ ActIsTrue' /\ (page'.load = "ready" => Visible')
  <2>1. /\ \A q \in Tasks : q # k => ~Working(task[q])
        /\ AtWork(task[k]) /\ ActIsTrue /\ (page.load = "ready" => Visible)
    BY <1>5, WorkKnown
  <2>2. task[k].ans = "ok" => Outcome(task[k].op)
    BY <2>1 DEF AtWork
  <2>3. t.ans = "ok" => Outcome(t.op)'
    BY <1>2, <2>2 DEF Outcome
  <2>4. AtWork(t)'
    BY <1>2, <1>3, <2>3 DEF AtWork
  <2>5. ActIsTrue'
    BY <2>1, <2>2 DEF ActIsTrue, Outcome, Successes
  <2> QED
    BY <1>3, <2>1, <2>4, <2>5
<1> QED
  BY <1>2, <1>3, <1>4, <1>5, WorkStep

\* A handler ends, and the page shows the rows.
LEMMA EndRows ==
  ASSUME PageInv, RowsInv, NEW k \in Tasks, Working(task[k]), Done(k),
         UNCHANGED <<fixed_vars, srv, drift>>,
         "rows" \notin drift /\ AtWork(task[k]) /\ ActIsTrue =>
           /\ ActIsTrue'
           /\ page'.load = "ready" => SameEvent(page.view)' /\ SameViewer' /\ Visible
  PROVE  RowsInv'
<1>1. NoTask \in Handlers /\ ~Working(NoTask) /\ task' = [task EXCEPT ![k] = NoTask]
  BY Opening DEF Working, Running, Done
<1>2. RowsInOrder' /\ Visible' = Visible
  BY DEF RowsInv, RowsInOrder, Visible, fixed_vars
<1>3. ASSUME "rows" \notin drift'
      PROVE  /\ \A q \in Tasks : q # k => ~Working(task[q])
             /\ ActIsTrue'
             /\ page'.load = "ready" => SameEvent(page.view)' /\ SameViewer' /\ Visible'
  BY <1>2, <1>3, WorkKnown
<1> QED
  BY <1>1, <1>2, <1>3, WorkStep

\* A handler that was refused ends, and the page shows what it showed.
LEMMA KeepRows ==
  ASSUME PageInv, RowsInv, NEW k \in Tasks, Working(task[k]), task[k].step = "answered",
         task[k].ans # "ok", Done(k), UNCHANGED <<fixed_vars, srv, drift>>, ShowsSame(page'),
         page'.load = page.load, page'.act = page.act \/ page'.act \notin Successes
  PROVE  RowsInv'
<1>1. SameRows(srv')
  BY DEF SameRows
<1>2. /\ ActIsTrue => ActIsTrue'
      /\ SameEvent(page.view) => SameEvent(page.view)'
      /\ SameViewer => SameViewer'
  BY <1>1, SameSight
<1>3. ~Unshown(task[k])
  BY DEF Unshown
<1>4. ASSUME "rows" \notin drift
      PROVE  page.load = "ready" => SameEvent(page.view) /\ SameViewer /\ Visible
  BY <1>3, <1>4, WorkKnown
<1> QED
  BY <1>2, <1>4, EndRows

\* A handler that does not work on the rows ends.
LEMMA AsideEnds ==
  ASSUME PageInv, RowsInv, NEW k \in Tasks, task[k].op \in {"report", "favorite"}, Done(k),
         UNCHANGED <<fixed_vars, srv, drift>>, ShowsSame(page'),
         page'.load = page.load, page'.act = page.act \/ page'.act \notin Successes
  PROVE  RowsInv'
<1>1. SameRows(srv')
  BY DEF SameRows
<1>2. ~Working(task[k]) /\ ~Working(NoTask)
  BY Opening DEF Working, Running
<1>3. \A q \in Tasks : task'[q] = IF q = k THEN NoTask ELSE task[q]
  BY DEF Done, PageInv, Typed
<1>4. \A q \in Tasks : /\ Working(task'[q]) => Working(task[q])
                       /\ Working(task[q]) => task'[q] = task[q]
  BY <1>2, <1>3
<1> QED
  BY <1>1, <1>4, AsideStep

\* What the phone shows once a handler has loaded the event.
LEMMA SilentRows ==
  ASSUME NEW p \in Pages, NEW v \in Views(Part), UpToDate(v), srv \in Rows
  PROVE  /\ Loads(v) <=> Visible
         /\ ~Loads(v) => SilentFetch(p, v) = p
         /\ Loads(v) => /\ SameEvent(SilentFetch(p, v).view)
                        /\ SilentFetch(p, v).shown = Normalized(srv)
<1>1. Loads(v) <=> Visible
  <2>1. Visible => Loads(v)
    BY DEF UpToDate, Loads, SameEvent, Rows
  <2>2. ~Visible => ~Loads(v)
    BY DEF UpToDate, Loads
  <2> QED
    BY <2>1, <2>2
<1>2. ~Loads(v) => SilentFetch(p, v) = p
  BY DEF Loads, SilentFetch
<1>3. ASSUME Loads(v)
      PROVE  /\ SameEvent(SilentFetch(p, v).view)
             /\ SilentFetch(p, v).shown = Normalized(srv)
  <2> DEFINE w == [v EXCEPT !.part = Normalized(v), !.req = "NONE", !.inv = "NONE", !.fav = FALSE]
             l == IF p.load = "loading" THEN p.load ELSE "ready"
  <2>1. SilentFetch(p, v) = [p EXCEPT !.view = w, !.shown = Normalized(v), !.heart = v.fav, !.load = l]
    BY <1>3 DEF Loads, SilentFetch
  <2>2. SameEvent(v) /\ Normalized(v) = Normalized(srv)
    BY <1>1, <1>3 DEF UpToDate, Normalized
  <2>3. w.status = v.status /\ w.full = v.full /\ w.reconfirm = v.reconfirm
    BY DEF Views
  <2>4. SameEvent(w)
    BY <2>2, <2>3 DEF SameEvent
  <2> HIDE DEF w, l
  <2> QED
    BY <2>1, <2>2, <2>4 DEF Pages
<1> QED
  BY <1>1, <1>2, <1>3


\* The handlers of the phone.
LEMMA MobileRows ==
  ASSUME PageInv, RowsInv, NEW k \in Tasks, MobileStep(k)
  PROVE  RowsInv'
<1>1. /\ platform = "mobile" /\ task[k].step \in {"answered", "got"} /\ task[k] \in Handlers
      /\ page \in Pages /\ srv \in Rows /\ UNCHANGED <<fixed_vars, srv, drift>>
      /\ task[k].got \in Views(Part) /\ task[k].op \in Op /\ Running(task[k])
  BY DEF PageInv, Typed, MobileStep, Handlers, Running
<1> DEFINE f == SilentFetch(page, task[k].got)
<1>2. f \in Pages /\ f.act = page.act
  BY <1>1, SilentEffect
<1>3. task[k].op \notin {"report", "favorite"} => Working(task[k])
  BY <1>1 DEF Working
(* A handler that has loaded the event ends.                               *)
<1>4. ASSUME Working(task[k]), task[k].step = "got", Done(k), page'.view = f.view,
             page'.shown = f.shown \/ (task[k].op = "accept" /\ page'.shown = "JOINED"),
             \/ page'.load = f.load
             \/ task[k].op = "load" /\ (Loads(task[k].got) \/ page'.load # "ready"),
             \/ page'.act \in {page.act, "idle"}
             \/ task[k].op = "leave" /\ page'.act = "success_left"
             \/ task[k].op = "reconfirm" /\ page'.act = "success_reconfirmed"
             \/ task[k].op = "accept" /\ page'.act = "success_joined"
      PROVE  RowsInv'
  <2>1. ASSUME "rows" \notin drift, AtWork(task[k]), ActIsTrue
        PROVE  /\ ActIsTrue'
               /\ page'.load = "ready" => SameEvent(page.view)' /\ SameViewer' /\ Visible
    <3>1. UpToDate(task[k].got) /\ (page.load = "ready" => Visible)
      BY <1>4, <2>1, WorkKnown DEF AtWork
    <3>2. task[k].op \in {"load", "withdraw"} \/ Outcome(task[k].op)
      BY <1>4, <2>1 DEF AtWork
    <3>3. ActIsTrue'
      BY <1>1, <1>4, <2>1, <3>2 DEF ActIsTrue, Outcome
    <3>4. CASE Visible
      <4>1. SameEvent(f.view) /\ f.shown = Normalized(srv)
        BY <1>1, <3>1, <3>4, SilentRows
      <4>2. SameEvent(page.view)'
        BY <1>1, <1>4, <4>1 DEF SameEvent
      <4>3. page'.shown = Normalized(srv)
        BY <1>4, <3>2, <4>1 DEF Outcome, Normalized
      <4>4. SameViewer'
        BY <1>1, <4>3 DEF SameViewer, Normalized, fixed_vars
      <4> QED
        BY <3>3, <3>4, <4>2, <4>4
    <3>5. CASE ~Visible
      <4>1. f = page /\ ~Loads(task[k].got)
        BY <1>1, <3>1, <3>5, SilentRows
      <4> QED
        BY <1>4, <3>1, <3>3, <3>5, <4>1
    <3> QED
      BY <3>4, <3>5
  <2> QED
    BY <1>1, <1>4, <2>1, EndRows
(* A handler that was refused ends.                                        *)
<1>5. ASSUME task[k].op \notin {"report", "favorite"}, task[k].step = "answered", task[k].ans # "ok",
             Done(k), page' = [page EXCEPT !.act = "idle"]
      PROVE  RowsInv'
  <2>1. ShowsSame(page') /\ page'.load = page.load /\ page'.act \notin Successes
    BY <1>1, <1>5 DEF ShowsSame, Pages, Successes, ActionState, MobileBusy
  <2> QED
    BY <1>1, <1>3, <1>5, <2>1, KeepRows
<1>6. CASE task[k].op = "load"
  <2>1. Done(k) /\ task[k].step = "got" /\ Working(task[k])
    BY <1>1, <1>3, <1>6 DEF MobileStep, MobileLoaded, PageInv, InCourse
  <2>2. \/ ~Loads(task[k].got) /\ page' = [page EXCEPT !.load = "missing"]
        \/ ~Loads(task[k].got) /\ page' = [page EXCEPT !.load = "error"]
        \/ Loads(task[k].got) /\ page' = [f EXCEPT !.load = "ready"]
    BY <1>1, <1>6 DEF MobileStep, MobileLoaded, Loads
  <2>3. ~Loads(task[k].got) => f = page
    BY DEF Loads, SilentFetch
  <2>4. PICK l \in {"missing", "error", "ready"} :
          page' = [f EXCEPT !.load = l] /\ (Loads(task[k].got) \/ l # "ready")
    BY <2>2, <2>3
  <2>5. page'.view = f.view /\ page'.shown = f.shown /\ page'.load = l /\ page'.act = page.act
    BY <1>2, <2>4 DEF Pages
  <2> QED
    BY <1>4, <1>6, <2>1, <2>4, <2>5
<1>7. CASE task[k].op = "join"
  <2>1. MobileJoin(k) /\ Working(task[k])
    BY <1>1, <1>3, <1>7 DEF MobileStep
  <2>2. CASE task[k].step = "answered" /\ task[k].ans = "ok"
    <3>1. page' = [page EXCEPT !.act = "success_joined"] /\ Go(k, "get")
      BY <2>1, <2>2 DEF MobileJoin
    <3>2. page'.act = "success_joined" /\ page'.load = page.load
      BY <1>1, <3>1 DEF Pages
    <3> QED
      BY <1>1, <1>7, <2>1, <2>2, <3>1, <3>2, GoOnRows
  <2>3. CASE task[k].step = "answered" /\ task[k].ans # "ok"
    BY <1>5, <1>7, <2>1, <2>3 DEF MobileJoin
  <2>4. CASE task[k].step = "got"
    <3>1. page' = f /\ Done(k)
      BY <2>1, <2>4 DEF MobileJoin
    <3> QED
      BY <1>2, <1>4, <2>1, <2>4, <3>1
  <2> QED
    BY <1>1, <2>2, <2>3, <2>4
<1>8. CASE task[k].op = "leave"
  <2>1. MobileLeave(k) /\ Working(task[k])
    BY <1>1, <1>3, <1>8 DEF MobileStep
  <2>2. CASE task[k].step = "answered" /\ task[k].ans = "ok"
    <3>1. page' = [page EXCEPT !.shown = "LEAVED"] /\ Go(k, "get")
      BY <2>1, <2>2 DEF MobileLeave
    <3>2. page'.act = page.act /\ page'.load = page.load
      BY <1>1, <3>1 DEF Pages
    <3> QED
      BY <1>1, <1>8, <2>1, <2>2, <3>1, <3>2, GoOnRows
  <2>3. CASE task[k].step = "answered" /\ task[k].ans # "ok"
    BY <1>5, <1>8, <2>1, <2>3 DEF MobileLeave
  <2>4. CASE task[k].step = "got"
    <3>1. PICK a \in {"idle", "success_left"} : page' = [f EXCEPT !.act = a] /\ Done(k)
      BY <2>1, <2>4 DEF MobileLeave
    <3>2. page'.view = f.view /\ page'.shown = f.shown /\ page'.load = f.load /\ page'.act = a
      BY <1>2, <3>1 DEF Pages
    <3> QED
      BY <1>4, <1>8, <2>1, <2>4, <3>1, <3>2
  <2> QED
    BY <1>1, <2>2, <2>3, <2>4
<1>9. CASE task[k].op = "request"
  <2>1. MobileRequest(k) /\ Working(task[k])
    BY <1>1, <1>3, <1>9 DEF MobileStep
  <2>2. CASE task[k].ans = "ok"
    <3>1. /\ page' = [page EXCEPT !.view.part = "PENDING", !.shown = "PENDING",
                                  !.act = "success_requested", !.sheet = Shut("request")]
          /\ Done(k)
      BY <2>1, <2>2 DEF MobileRequest
    <3>2. /\ page'.load = page.load /\ page'.act = "success_requested" /\ page'.shown = "PENDING"
          /\ page'.view.status = page.view.status /\ page'.view.full = page.view.full
          /\ page'.view.reconfirm = page.view.reconfirm
      BY <1>1, <3>1 DEF Pages, Views
    <3>3. ASSUME "rows" \notin drift, AtWork(task[k]), ActIsTrue
          PROVE  /\ ActIsTrue'
                 /\ page'.load = "ready" => SameEvent(page.view)' /\ SameViewer' /\ Visible
      <4>1. task[k].step = "answered" /\ srv.req = "PENDING"
        BY <1>1, <1>9, <2>2, <3>3 DEF AtWork, Outcome
      <4>2. page.load = "ready" => SameEvent(page.view)
        BY <1>9, <3>3, <4>1 DEF AtWork
      <4>3. page'.load = "ready" => SameEvent(page.view)'
        BY <1>1, <3>2, <4>2 DEF SameEvent
      <4>4. ActIsTrue' /\ SameViewer'
        BY <1>1, <3>2, <4>1 DEF ActIsTrue, SameViewer, fixed_vars
      <4>5. Visible
        BY <4>1 DEF RowsInv, RowsInOrder, Visible
      <4> QED
        BY <4>3, <4>4, <4>5
    <3> QED
      BY <1>1, <2>1, <3>1, <3>3, EndRows
  <2>3. CASE task[k].ans # "ok" /\ task[k].step = "answered"
    BY <1>5, <1>9, <2>1, <2>3 DEF MobileRequest
  <2>4. CASE task[k].ans # "ok" /\ task[k].step = "got"
    <3>1. Done(k)
      BY <2>1 DEF MobileRequest
    <3>2. "rows" \notin drift => ~AtWork(task[k])
      BY <1>1, <1>9, <2>4 DEF AtWork
    <3> QED
      BY <1>1, <2>1, <3>1, <3>2, EndRows
  <2> QED
    BY <1>1, <2>2, <2>3, <2>4
<1>10. CASE task[k].op = "withdraw"
  <2>1. MobileWithdraw(k) /\ Working(task[k])
    BY <1>1, <1>3, <1>10 DEF MobileStep
  <2>2. CASE task[k].step = "answered" /\ task[k].ans = "ok"
    <3>1. page' = [page EXCEPT !.shown = "NONE"] /\ Go(k, "get")
      BY <2>1, <2>2 DEF MobileWithdraw
    <3>2. page'.act = page.act /\ page'.load = page.load
      BY <1>1, <3>1 DEF Pages
    <3> QED
      BY <1>1, <1>10, <2>1, <2>2, <3>1, <3>2, GoOnRows
  <2>3. CASE task[k].step = "answered" /\ task[k].ans = "refused"
    <3>1. page' = [page EXCEPT !.act = "idle"] /\ Go(k, "get")
      BY <2>1, <2>3 DEF MobileWithdraw
    <3>2. page'.act \notin Successes /\ page'.load = page.load
      BY <1>1, <3>1 DEF Pages, Successes, ActionState
    <3> QED
      BY <1>1, <1>10, <2>1, <2>3, <3>1, <3>2, GoOnRows
  <2>4. CASE task[k].step = "answered" /\ task[k].ans \notin {"ok", "refused"}
    BY <1>5, <1>10, <2>1, <2>4 DEF MobileWithdraw
  <2>5. CASE task[k].step = "got"
    <3>1. PICK a \in {"idle", f.act} : page' = [f EXCEPT !.act = a] /\ Done(k)
      BY <2>1, <2>5 DEF MobileWithdraw
    <3>2. page'.view = f.view /\ page'.shown = f.shown /\ page'.load = f.load /\ page'.act = a
      BY <1>2, <3>1 DEF Pages
    <3> QED
      BY <1>2, <1>4, <2>1, <2>5, <3>1, <3>2
  <2> QED
    BY <1>1, <2>2, <2>3, <2>4, <2>5
<1>11. CASE task[k].op = "reconfirm"
  <2>1. MobileReconfirm(k) /\ Working(task[k])
    BY <1>1, <1>3, <1>11 DEF MobileStep
  <2>2. CASE task[k].step = "answered" /\ task[k].ans = "ok"
    <3>1. /\ page' = [page EXCEPT !.shown = "JOINED", !.view.part = "JOINED", !.view.reconfirm = FALSE]
          /\ Go(k, "get")
      BY <2>1, <2>2 DEF MobileReconfirm
    <3>2. page'.act = page.act /\ page'.load = page.load
      BY <1>1, <3>1 DEF Pages
    <3> QED
      BY <1>1, <1>11, <2>1, <2>2, <3>1, <3>2, GoOnRows
  <2>3. CASE task[k].step = "answered" /\ task[k].ans # "ok"
    BY <1>5, <1>11, <2>1, <2>3 DEF MobileReconfirm
  <2>4. CASE task[k].step = "got"
    <3>1. page' = [f EXCEPT !.act = "success_reconfirmed"] /\ Done(k)
      BY <2>1, <2>4 DEF MobileReconfirm
    <3>2. /\ page'.view = f.view /\ page'.shown = f.shown /\ page'.load = f.load
          /\ page'.act = "success_reconfirmed"
      BY <1>2, <3>1 DEF Pages
    <3> QED
      BY <1>4, <1>11, <2>1, <2>4, <3>1, <3>2
  <2> QED
    BY <1>1, <2>2, <2>3, <2>4
<1>12. CASE task[k].op = "accept"
  <2>1. MobileAccept(k) /\ Working(task[k])
    BY <1>1, <1>3, <1>12 DEF MobileStep
  <2>2. CASE task[k].step = "answered" /\ task[k].ans = "ok"
    <3>1. page' = page /\ Go(k, "get")
      BY <2>1, <2>2 DEF MobileAccept
    <3> QED
      BY <1>1, <1>12, <2>1, <2>2, <3>1, GoOnRows
  <2>3. CASE task[k].step = "answered" /\ task[k].ans # "ok"
    BY <1>5, <1>12, <2>1, <2>3 DEF MobileAccept
  <2>4. CASE task[k].step = "got"
    <3>1. page' = [f EXCEPT !.shown = "JOINED", !.act = "success_joined"] /\ Done(k)
      BY <2>1, <2>4 DEF MobileAccept
    <3>2. /\ page'.view = f.view /\ page'.shown = "JOINED" /\ page'.load = f.load
          /\ page'.act = "success_joined"
      BY <1>2, <3>1 DEF Pages
    <3> QED
      BY <1>4, <1>12, <2>1, <2>4, <3>1, <3>2
  <2> QED
    BY <1>1, <2>2, <2>3, <2>4
<1>13. CASE task[k].op = "decline"
  <2>1. MobileDecline(k) /\ Working(task[k])
    BY <1>1, <1>3, <1>13 DEF MobileStep
  <2>2. CASE task[k].ans = "ok"
    <3>1. /\ page' = [page EXCEPT !.shown = "NONE", !.view = NoView, !.load = "missing", !.act = "idle"]
          /\ Done(k)
      BY <2>1, <2>2 DEF MobileDecline
    <3>2. page'.load = "missing" /\ page'.act = "idle"
      BY <1>1, <3>1 DEF Pages
    <3>3. ActIsTrue'
      BY <3>2 DEF ActIsTrue
    <3> QED
      BY <1>1, <2>1, <3>1, <3>2, <3>3, EndRows
  <2>3. CASE task[k].ans # "ok" /\ task[k].step = "answered"
    BY <1>5, <1>13, <2>1, <2>3 DEF MobileDecline
  <2>4. CASE task[k].ans # "ok" /\ task[k].step = "got"
    <3>1. Done(k)
      BY <2>1 DEF MobileDecline
    <3>2. "rows" \notin drift => ~AtWork(task[k])
      BY <1>1, <1>13, <2>4 DEF AtWork
    <3> QED
      BY <1>1, <2>1, <3>1, <3>2, EndRows
  <2> QED
    BY <1>1, <2>2, <2>3, <2>4
<1>14. CASE task[k].op = "favorite"
  <2>1. MobileFavorite(k)
    BY <1>1, <1>14 DEF MobileStep
  <2>2. Done(k) /\ ShowsSame(page') /\ page'.load = page.load /\ page'.act = page.act
    BY <1>1, <2>1 DEF MobileFavorite, ShowsSame, Pages
  <2> QED
    BY <1>1, <1>14, <2>2, AsideEnds
<1>15. CASE task[k].op = "report"
  <2>1. MobileReport(k)
    BY <1>1, <1>15 DEF MobileStep
  <2>2. Done(k) /\ ShowsSame(page') /\ page'.load = page.load /\ page'.act \notin Successes
    BY <1>1, <2>1 DEF MobileReport, ShowsSame, Pages, Successes
  <2> QED
    BY <1>1, <1>15, <2>2, AsideEnds
<1>16. CASE task[k].op = "rate"
  <2>1. MobileRate(k) /\ Working(task[k])
    BY <1>1, <1>3, <1>16 DEF MobileStep
  <2>2. CASE task[k].step = "answered" /\ task[k].ans = "ok"
    <3>1. page' = page /\ Go(k, "get")
      BY <2>1, <2>2 DEF MobileRate
    <3> QED
      BY <1>1, <1>16, <2>1, <2>2, <3>1, GoOnRows
  <2>3. CASE task[k].step = "answered" /\ task[k].ans # "ok"
    <3>1. f = page
      BY <2>3 DEF SilentFetch, PageInv, InCourse
    <3>2. page' = [page EXCEPT !.busy = page.busy \ {"rate"}] /\ Done(k)
      BY <2>1, <2>3, <3>1 DEF MobileRate
    <3>3. ShowsSame(page') /\ page'.load = page.load /\ page'.act = page.act
      BY <1>1, <3>2 DEF ShowsSame, Pages
    <3> QED
      BY <1>1, <2>1, <2>3, <3>2, <3>3, KeepRows
  <2>4. CASE task[k].step = "got"
    <3>1. page' = [f EXCEPT !.busy = f.busy \ {"rate"}] /\ Done(k)
      BY <2>1, <2>4 DEF MobileRate
    <3>2. /\ page'.view = f.view /\ page'.shown = f.shown /\ page'.load = f.load
          /\ page'.act = page.act
      BY <1>2, <3>1 DEF Pages
    <3> QED
      BY <1>4, <2>1, <2>4, <3>1, <3>2
  <2> QED
    BY <1>1, <2>2, <2>3, <2>4
<1> QED
  BY <1>1, <1>6, <1>7, <1>8, <1>9, <1>10, <1>11, <1>12, <1>13, <1>14, <1>15, <1>16 DEF Op


\* The handlers of the web page.
LEMMA WebRows ==
  ASSUME PageInv, RowsInv, NEW k \in Tasks, WebStep(k)
  PROVE  RowsInv'
<1>1. /\ platform = "web" /\ task[k].step \in {"answered", "got"} /\ task[k] \in Handlers
      /\ page \in Pages /\ srv \in Rows /\ UNCHANGED <<fixed_vars, srv, drift>>
      /\ task[k].got \in Views(Part) /\ task[k].op \in Op /\ Running(task[k])
      /\ task[k].op \notin {"accept", "decline"}
  BY DEF PageInv, Typed, InCourse, WebStep, Handlers, Running
<1> DEFINE v == task[k].got
           r == IF Loads(v) THEN v ELSE page.view
<1>2. task[k].op \notin {"report", "favorite"} => Working(task[k])
  BY <1>1 DEF Working
<1>3. /\ \A p : Free(p, k) = [p EXCEPT !.busy = p.busy \ {Flag(task[k].op)}]
      /\ Loaded(k) <=> Loads(v)
      /\ Refreshed(k) = [page EXCEPT !.view = r]
  BY <1>1 DEF Free, Loaded, Refreshed, Loads, Pages
<1>4. r \in Views(Part \cup {"JOINED", "INVITED"})
  BY <1>1 DEF Views, Pages
(* A handler that goes on to load the event.                               *)
<1>5. ASSUME Working(task[k]), task[k].step = "answered", page' = page /\ Go(k, "get"),
             task[k].ans = "ok" \/ task[k].op = "withdraw"
      PROVE  RowsInv'
  BY <1>1, <1>5, GoOnRows
(* A handler that was refused ends.                                        *)
<1>6. ASSUME Working(task[k]), task[k].step = "answered", task[k].ans # "ok", Done(k),
             page' = Free(page, k) \/ page' = Free(Refreshed(k), k)
      PROVE  RowsInv'
  <2>1. Refreshed(k) = page
    BY <1>6 DEF Refreshed, Loaded, PageInv, InCourse
  <2>2. page' = [page EXCEPT !.busy = page.busy \ {Flag(task[k].op)}]
    BY <1>3, <1>6, <2>1
  <2>3. ShowsSame(page') /\ page'.load = page.load /\ page'.act = page.act
    BY <1>1, <2>2 DEF ShowsSame, Pages
  <2> QED
    BY <1>1, <1>6, <2>3, KeepRows
(* A handler that has loaded the event ends, and marks what it knows.      *)
<1>7. ASSUME Working(task[k]), task[k].step = "got", Done(k),
             page'.load = page.load \/ (task[k].op = "load" /\ (Loads(v) \/ page'.load # "ready")),
             page'.act = page.act,
             Loads(v) =>
               /\ page'.view.status = v.status /\ page'.view.full = v.full /\ page'.view.inv = v.inv
               /\ \/ page'.view.part = v.part /\ page'.view.reconfirm = v.reconfirm
                  \/ page'.view.part = "JOINED" /\ task[k].op = "join" /\ page'.view.reconfirm = v.reconfirm
                  \/ page'.view.part = "JOINED" /\ task[k].op = "reconfirm" /\ ~page'.view.reconfirm
                       /\ page'.view.reconfirm \in BOOLEAN
               /\ \/ page'.view.req = v.req
                  \/ page'.view.req = "NONE" /\ task[k].op \in {"join", "reconfirm", "withdraw"}
                       /\ task[k].ans = "ok"
                  \/ page'.view.req = "PENDING" /\ task[k].op = "request"
      PROVE  RowsInv'
  <2>1. ASSUME "rows" \notin drift, AtWork(task[k]), ActIsTrue
        PROVE  /\ ActIsTrue'
               /\ page'.load = "ready" => SameEvent(page.view)' /\ SameViewer' /\ Visible
    <3>1. UpToDate(v) /\ (page.load = "ready" => Visible)
      BY <1>7, <2>1, WorkKnown DEF AtWork
    <3>2. task[k].op \in {"load", "withdraw"} \/ (task[k].ans = "ok" /\ Outcome(task[k].op))
      BY <1>7, <2>1 DEF AtWork
    <3>3. task[k].ans = "ok" => Outcome(task[k].op)
      BY <2>1 DEF AtWork
    <3>4. ActIsTrue'
      BY <1>1, <1>7, <2>1 DEF ActIsTrue
    <3>5. Loads(v) <=> Visible
      BY <1>1, <3>1, SilentRows
    <3>6. CASE Visible
      <4>1. /\ SameEvent(v) /\ v.part = srv.part /\ v.req = srv.req /\ v.inv = srv.inv
        BY <3>1, <3>6 DEF UpToDate
      <4>2. page'.view.reconfirm = (srv.part = "PENDING")
        BY <1>7, <3>2, <3>5, <3>6, <4>1 DEF SameEvent, Outcome
      <4>3. SameEvent(page.view)'
        BY <1>1, <1>7, <3>5, <3>6, <4>1, <4>2 DEF SameEvent
      <4>4. page'.view.part = srv.part \/ (page'.view.part = "JOINED" /\ srv.part = "APPROVED")
        BY <1>7, <3>2, <3>5, <3>6, <4>1 DEF Outcome
      <4>5. (page'.view.req = "PENDING") = (srv.req = "PENDING")
        BY <1>7, <3>2, <3>3, <3>5, <3>6, <4>1 DEF Outcome, RowsInv, RowsInOrder
      <4>6. SameViewer'
        BY <1>1, <1>7, <3>5, <3>6, <4>1, <4>4, <4>5 DEF SameViewer, fixed_vars
      <4> QED
        BY <3>4, <3>6, <4>3, <4>6
    <3>7. CASE ~Visible
      BY <1>7, <3>1, <3>4, <3>5, <3>7
    <3> QED
      BY <3>6, <3>7
  <2> QED
    BY <1>1, <1>7, <2>1, EndRows
(* The page with the loaded event on it and the flag cleared.              *)
<1>8. PICK q : q = Free(Refreshed(k), k)
  OBVIOUS
<1>8a. q \in Pages /\ q.view = r /\ q.load = page.load /\ q.act = page.act
  <2>1. q = [page EXCEPT !.view = r, !.busy = page.busy \ {Flag(task[k].op)}]
    BY <1>1, <1>3, <1>8 DEF Pages
  <2> HIDE DEF r
  <2> QED
    BY <1>1, <1>4, <2>1 DEF Pages
<1>8b. ASSUME Working(task[k]), task[k].step = "got", Done(k), page' = q
       PROVE  RowsInv'
  BY <1>7, <1>8a, <1>8b
<1>9. CASE task[k].op = "load"
  <2>1. WebLoaded(k) /\ Working(task[k]) /\ task[k].step = "got"
    BY <1>1, <1>2, <1>9 DEF WebStep, PageInv, InCourse
  <2>2. \/ ~Loads(v) /\ page' = [page EXCEPT !.load = "missing"]
        \/ ~Loads(v) /\ page' = [page EXCEPT !.load = "error"]
        \/ Loads(v) /\ page' = [page EXCEPT !.load = "ready", !.view = v]
    BY <2>1 DEF WebLoaded, Loads
  <2>3. /\ page'.act = page.act /\ (Loads(v) \/ page'.load # "ready")
        /\ Loads(v) => page'.view = v
    BY <1>1, <2>2 DEF Pages
  <2>4. Done(k)
    BY <2>1 DEF WebLoaded
  <2> QED
    BY <1>7, <1>9, <2>1, <2>3, <2>4
<1>10. CASE task[k].op = "join"
  <2>1. WebJoin(k) /\ Working(task[k])
    BY <1>1, <1>2, <1>10 DEF WebStep
  <2>2. CASE task[k].step = "answered" /\ task[k].ans = "ok"
    BY <1>5, <2>1, <2>2 DEF WebJoin
  <2>3. CASE task[k].step = "answered" /\ task[k].ans # "ok"
    BY <1>6, <2>1, <2>3 DEF WebJoin
  <2>4. CASE task[k].step = "got"
    <3>1. page' = [q EXCEPT !.view.part = "JOINED", !.view.req = "NONE"] /\ Done(k)
      BY <1>8, <2>1, <2>4 DEF WebJoin
    <3>2. /\ page'.view = [q.view EXCEPT !.part = "JOINED", !.req = "NONE"] /\ page'.load = q.load
          /\ page'.act = q.act
      BY <1>8a, <3>1 DEF Pages, Views
    <3>3. /\ page'.view = [r EXCEPT !.part = "JOINED", !.req = "NONE"] /\ page'.load = page.load
          /\ page'.act = page.act
      BY <1>8a, <3>2
    <3>4. /\ page'.view.part = "JOINED" /\ page'.view.req = "NONE" /\ page'.view.status = r.status
          /\ page'.view.full = r.full /\ page'.view.inv = r.inv /\ page'.view.reconfirm = r.reconfirm
      BY <1>4, <3>3 DEF Views
    <3>5. CASE task[k].ans = "ok"
      BY <1>7, <1>10, <2>1, <2>4, <3>1, <3>3, <3>4, <3>5
    <3>6. CASE task[k].ans # "ok"
      <4>1. "rows" \notin drift => ~AtWork(task[k])
        BY <1>10, <2>4, <3>6 DEF AtWork
      <4> QED
        BY <1>1, <2>1, <3>1, <4>1, EndRows
    <3> QED
      BY <3>5, <3>6
  <2> QED
    BY <1>1, <2>2, <2>3, <2>4
<1>11. CASE task[k].op = "leave"
  <2>1. WebLeave(k) /\ Working(task[k])
    BY <1>1, <1>2, <1>11 DEF WebStep
  <2>2. CASE task[k].step = "answered" /\ task[k].ans = "ok"
    BY <1>5, <2>1, <2>2 DEF WebLeave
  <2>3. CASE task[k].step = "answered" /\ task[k].ans # "ok"
    BY <1>6, <2>1, <2>3 DEF WebLeave
  <2>4. CASE task[k].step = "got"
    BY <1>8, <1>8b, <2>1, <2>4 DEF WebLeave
  <2> QED
    BY <1>1, <2>2, <2>3, <2>4
<1>12. CASE task[k].op = "request"
  <2>1. WebRequest(k) /\ Working(task[k])
    BY <1>1, <1>2, <1>12 DEF WebStep
  <2>2. CASE task[k].step = "answered" /\ task[k].ans = "ok"
    BY <1>5, <2>1, <2>2 DEF WebRequest
  <2>3. CASE task[k].step = "answered" /\ task[k].ans # "ok"
    BY <1>6, <2>1, <2>3 DEF WebRequest
  <2>4. CASE task[k].step = "got"
    <3>1. page' = [q EXCEPT !.view.req = "PENDING"] /\ Done(k)
      BY <1>8, <2>1, <2>4 DEF WebRequest
    <3>2. /\ page'.view = [q.view EXCEPT !.req = "PENDING"] /\ page'.load = q.load
          /\ page'.act = q.act
      BY <1>8a, <3>1 DEF Pages, Views
    <3>3. /\ page'.view = [r EXCEPT !.req = "PENDING"] /\ page'.load = page.load
          /\ page'.act = page.act
      BY <1>8a, <3>2
    <3>4. /\ page'.view.req = "PENDING" /\ page'.view.part = r.part /\ page'.view.status = r.status
          /\ page'.view.full = r.full /\ page'.view.inv = r.inv /\ page'.view.reconfirm = r.reconfirm
      BY <1>4, <3>3 DEF Views
    <3> QED
      BY <1>7, <1>12, <2>1, <2>4, <3>1, <3>3, <3>4
  <2> QED
    BY <1>1, <2>2, <2>3, <2>4
<1>13. CASE task[k].op = "withdraw"
  <2>1. WebWithdraw(k) /\ Working(task[k])
    BY <1>1, <1>2, <1>13 DEF WebStep
  <2>2. CASE task[k].step = "answered" /\ task[k].ans \in {"ok", "refused"}
    BY <1>5, <1>13, <2>1, <2>2 DEF WebWithdraw
  <2>3. CASE task[k].step = "answered" /\ task[k].ans \notin {"ok", "refused"}
    <3>1. Done(k)
      BY <2>1, <2>3 DEF WebWithdraw
    <3>2. "rows" \notin drift => ~AtWork(task[k])
      BY <2>3 DEF AtWork
    <3> QED
      BY <1>1, <2>1, <3>1, <3>2, EndRows
  <2>4. CASE task[k].step = "got"
    <3>1. PICK s : /\ s = Shut("withdraw") /\ Done(k)
                   /\ IF task[k].ans = "ok"
                      THEN page' = [q EXCEPT !.view.req = "NONE", !.sheet = s]
                      ELSE page' = [q EXCEPT !.sheet = s]
      BY <1>8, <2>1, <2>4 DEF WebWithdraw
    <3>2. PICK w : w = IF task[k].ans = "ok" THEN [q.view EXCEPT !.req = "NONE"] ELSE q.view
      OBVIOUS
    <3>3. page'.view = w /\ page'.load = page.load /\ page'.act = page.act
      BY <1>8a, <3>1, <3>2 DEF Pages, Views
    <3>4. /\ w.part = r.part /\ w.status = r.status /\ w.full = r.full /\ w.inv = r.inv
          /\ w.reconfirm = r.reconfirm /\ w.req = IF task[k].ans = "ok" THEN "NONE" ELSE r.req
      BY <1>4, <1>8a, <3>2 DEF Views
    <3> QED
      BY <1>7, <1>13, <2>1, <2>4, <3>1, <3>3, <3>4
  <2> QED
    BY <1>1, <2>2, <2>3, <2>4
<1>14. CASE task[k].op = "reconfirm"
  <2>1. WebReconfirm(k) /\ Working(task[k])
    BY <1>1, <1>2, <1>14 DEF WebStep
  <2>2. CASE task[k].step = "answered" /\ task[k].ans = "ok"
    BY <1>5, <2>1, <2>2 DEF WebReconfirm
  <2>3. CASE task[k].step = "answered" /\ task[k].ans # "ok"
    BY <1>6, <2>1, <2>3 DEF WebReconfirm
  <2>4. CASE task[k].step = "got" /\ ~Loads(v)
    <3>1. page' = [page EXCEPT !.busy = page.busy \ {Flag(task[k].op)}] /\ Done(k)
      BY <1>3, <2>1, <2>4 DEF WebReconfirm
    <3>2. page'.load = page.load /\ page'.act = page.act
      BY <1>1, <3>1 DEF Pages
    <3> QED
      BY <1>7, <2>1, <2>4, <3>1, <3>2
  <2>5. CASE task[k].step = "got" /\ Loads(v)
    <3>1. /\ page' = [q EXCEPT !.view.part = "JOINED", !.view.req = "NONE", !.view.reconfirm = FALSE]
          /\ Done(k)
      BY <1>3, <1>8, <2>1, <2>5 DEF WebReconfirm
    <3>2. /\ page'.view = [q.view EXCEPT !.part = "JOINED", !.req = "NONE", !.reconfirm = FALSE]
          /\ page'.load = q.load /\ page'.act = q.act
      BY <1>8a, <3>1 DEF Pages, Views
    <3>3. /\ page'.view = [r EXCEPT !.part = "JOINED", !.req = "NONE", !.reconfirm = FALSE]
          /\ page'.load = page.load /\ page'.act = page.act
      BY <1>8a, <3>2
    <3>4. /\ page'.view.part = "JOINED" /\ page'.view.req = "NONE" /\ page'.view.status = r.status
          /\ page'.view.full = r.full /\ page'.view.inv = r.inv /\ page'.view.reconfirm = FALSE
      BY <1>4, <3>3 DEF Views
    <3>5. CASE task[k].ans = "ok"
      BY <1>7, <1>14, <2>1, <2>5, <3>1, <3>3, <3>4, <3>5
    <3>6. CASE task[k].ans # "ok"
      <4>1. "rows" \notin drift => ~AtWork(task[k])
        BY <1>14, <2>5, <3>6 DEF AtWork
      <4> QED
        BY <1>1, <2>1, <3>1, <4>1, EndRows
    <3> QED
      BY <3>5, <3>6
  <2> QED
    BY <1>1, <2>2, <2>3, <2>4, <2>5
<1>15. CASE task[k].op = "favorite"
  <2>1. WebFavorite(k)
    BY <1>1, <1>15 DEF WebStep
  <2>2. Done(k) /\ ShowsSame(page') /\ page'.load = page.load /\ page'.act = page.act
    BY <1>1, <2>1 DEF WebFavorite, Free, ShowsSame, Pages, Views
  <2> QED
    BY <1>1, <1>15, <2>2, AsideEnds
<1>16. CASE task[k].op = "report"
  <2>1. WebReport(k)
    BY <1>1, <1>16 DEF WebStep
  <2>2. Done(k) /\ ShowsSame(page') /\ page'.load = page.load /\ page'.act = page.act
    BY <1>1, <2>1 DEF WebReport, Free, ShowsSame, Pages
  <2> QED
    BY <1>1, <1>16, <2>2, AsideEnds
<1>17. CASE task[k].op = "rate"
  <2>1. WebRate(k) /\ Working(task[k])
    BY <1>1, <1>2, <1>17 DEF WebStep
  <2>2. CASE task[k].step = "answered" /\ task[k].ans = "ok"
    BY <1>5, <2>1, <2>2 DEF WebRate
  <2>3. CASE task[k].step = "answered" /\ task[k].ans # "ok"
    BY <1>6, <2>1, <2>3 DEF WebRate
  <2>4. CASE task[k].step = "got"
    BY <1>8, <1>8b, <2>1, <2>4 DEF WebRate
  <2> QED
    BY <1>1, <2>2, <2>3, <2>4
<1> QED
  BY <1>1, <1>9, <1>10, <1>11, <1>12, <1>13, <1>14, <1>15, <1>16, <1>17 DEF Op


\* What the beginning of a handler leaves of the page: it shows the same of the rows, and on
\* the phone it claims no success while it asks for something.
Starts(op, p) ==
  /\ ShowsSame(p) /\ (p.act = page.act \/ p.act \in MobileBusy)
  /\ platform = "mobile" /\ op \in Acting => p.act \in MobileBusy

\* The phone's page as a handler begins.
LEMMA MobileStarts ==
  ASSUME Typed, platform = "mobile", NEW op \in Op
  PROVE  Starts(op, MobileBegins(op))
<1>1. page \in Pages
  BY DEF Typed
<1>2. ASSUME NEW a \in MobileBusy, \/ MobileBegins(op) = [page EXCEPT !.act = a]
                                   \/ MobileBegins(op) = [page EXCEPT !.act = a, !.sheet = "none"]
      PROVE  Starts(op, MobileBegins(op))
  <2>1. MobileBegins(op).act = a /\ ShowsSame(MobileBegins(op))
    BY <1>1, <1>2 DEF Pages, ShowsSame
  <2> QED
    BY <2>1 DEF Starts
<1>3. CASE op \in {"load", "favorite", "rate"}
  <2>1. \/ MobileBegins(op) = [page EXCEPT !.load = "loading"]
        \/ MobileBegins(op) = [page EXCEPT !.heart = ~page.heart]
        \/ MobileBegins(op) = [page EXCEPT !.busy = page.busy \cup {"rate"}]
    BY <1>3 DEF MobileBegins
  <2>2. MobileBegins(op).act = page.act /\ ShowsSame(MobileBegins(op))
    BY <1>1, <2>1 DEF Pages, ShowsSame
  <2> QED
    BY <1>3, <2>2 DEF Starts, Acting
<1>4. CASE op \in {"join", "request", "reconfirm", "accept", "decline", "report"}
  BY <1>2, <1>4 DEF MobileBegins, MobileBusy
<1>5. CASE op \in {"leave", "withdraw"}
  BY <1>2, <1>5 DEF MobileBegins, MobileBusy
<1> QED
  BY <1>3, <1>4, <1>5 DEF Op

\* The web page as a handler begins.
LEMMA WebStarts ==
  ASSUME Typed, platform = "web", NEW op \in Op
  PROVE  Starts(op, WebBegins(op))
<1>1. page \in Pages
  BY DEF Typed
<1>2. CASE op = "favorite"
  <2> DEFINE p == [page EXCEPT !.view.fav = ~page.view.fav, !.busy = page.busy \cup {op}]
  <2>1. WebBegins(op) = p
    BY <1>2 DEF WebBegins
  <2>2. p.act = page.act /\ p.shown = page.shown /\ p.view = [page.view EXCEPT !.fav = ~page.view.fav]
    BY <1>1 DEF Pages
  <2>3. page.view \in Views(Part \cup {"JOINED", "INVITED"})
    BY <1>1 DEF Pages
  <2> HIDE DEF p
  <2>4. ShowsSame(p)
    BY <2>2, <2>3 DEF ShowsSame, Views
  <2> QED
    BY <2>1, <2>2, <2>4 DEF Starts
<1>3. CASE op # "favorite"
  <2>1. \/ WebBegins(op) = [page EXCEPT !.load = "loading"]
        \/ WebBegins(op) = [page EXCEPT !.sheet = "none", !.busy = page.busy \cup {"join"}]
        \/ WebBegins(op) = [page EXCEPT !.sheet = Shut(op), !.busy = page.busy \cup {op}]
        \/ WebBegins(op) = [page EXCEPT !.busy = page.busy \cup {op}]
    BY <1>3 DEF WebBegins
  <2>2. WebBegins(op).act = page.act /\ ShowsSame(WebBegins(op))
    BY <1>1, <2>1 DEF Pages, ShowsSame
  <2> QED
    BY <2>2 DEF Starts
<1> QED
  BY <1>2, <1>3

\* A handler is started.
LEMMA PressRows ==
  ASSUME PageInv, RowsInv, NEW op \in Op, Press(op)
  PROVE  RowsInv'
<1>1. /\ Typed /\ SomebodyEnds /\ task \in [Tasks -> Handlers]
      /\ platform \in {"mobile", "web"} /\ page \in Pages /\ srv \in Rows
      /\ UNCHANGED <<fixed_vars, srv, trouble>> /\ drift' = drift \cup Overlaps(op)
  BY DEF PageInv, Typed, Press
<1>2. PICK k \in Tasks : k = IdleTask /\ task[k].step = "idle"
  BY DEF Press, IdleTask
<1>3. Begun(op, page') /\ Starts(op, page')
  BY <1>1, MobileBeginning, WebBeginning, MobileStarts, WebStarts DEF Press
<1>4. PICK s \in FirstStep(op), w \in BOOLEAN :
        task' = [task EXCEPT ![k] = [NoTask EXCEPT !.op = op, !.step = s, !.was = w]]
  <2> DEFINE b == IF op = "favorite" THEN Heart ELSE op = "leave" /\ ~srv.started
  <2>1. b \in BOOLEAN
    BY <1>1 DEF Heart, Pages, Views
  <2>2. \E s \in FirstStep(op) :
          task' = [task EXCEPT ![k] = [NoTask EXCEPT !.op = op, !.step = s, !.was = b]]
    BY <1>2 DEF Press
  <2> HIDE DEF b
  <2> QED
    BY <2>1, <2>2
<1>5. PICK t : t = [NoTask EXCEPT !.op = op, !.step = s, !.was = w]
  OBVIOUS
<1>6. /\ t \in Handlers /\ t.op = op /\ t.step = s /\ t.ans = "none"
      /\ s \in {"get", "upload", "resolve", "sent"} /\ (op = "load" <=> s = "get")
  <2>1. s \in {"get", "upload", "resolve", "sent"} /\ (op = "load" <=> s = "get")
    BY DEF FirstStep
  <2>2. NoTask \in Handlers /\ NoTask.ans = "none"
    BY Opening
  <2> QED
    BY <1>5, <2>1, <2>2 DEF Handlers, Steps
<1>7. task' = [task EXCEPT ![k] = t] /\ ~Working(task[k])
  BY <1>2, <1>4, <1>5 DEF Working, Running
<1>8. \A q \in Tasks : task'[q] = IF q = k THEN t ELSE task[q]
  BY <1>1, <1>7
<1>9. SameRows(srv') /\ ShowsSame(page')
  BY <1>1, <1>3 DEF SameRows, Starts
<1>10. page'.act = page.act \/ page'.act \notin Successes
  BY <1>3 DEF Starts, MobileBusy, Successes
(* A report or a toggle.                                                   *)
<1>11. CASE op \in {"report", "favorite"}
  <2>1. \A q \in Tasks : /\ Working(task'[q]) => Working(task[q])
                         /\ Working(task[q]) => task'[q] = task[q]
    BY <1>6, <1>7, <1>8, <1>11 DEF Working
  <2>2. page'.load = page.load
    BY <1>3, <1>11 DEF Begun
  <2> QED
    BY <1>1, <1>9, <1>10, <2>1, <2>2, AsideStep
(* A handler that works on the rows: another one would count as an overlap. *)
<1>12. CASE op \notin {"report", "favorite"}
  <2>1. /\ RowsInOrder' /\ Visible' = Visible
        /\ ActIsTrue => ActIsTrue'
        /\ SameEvent(page.view) => SameEvent(page.view)'
        /\ SameViewer => SameViewer'
    BY <1>1, <1>9, <1>10, SameSight DEF RowsInv
  <2>2. ASSUME "rows" \notin drift' PROVE \A q \in Tasks : ~Working(task[q])
    <3> DEFINE others == {task[q].op : q \in {p \in Tasks : task[p].step # "idle"}} \ {"report"}
    <3>1. others = {} \/ others = {"favorite"}
      BY <1>1, <1>12, <2>2 DEF Overlaps
    <3>2. ASSUME NEW q \in Tasks, Working(task[q])
          PROVE  task[q].op \in others /\ task[q].op # "favorite"
      BY <3>2 DEF Working, Running
    <3> QED
      BY <3>1, <3>2
  <2>3. ASSUME "rows" \notin drift'
        PROVE  /\ ActIsTrue
               /\ page.load = "ready" => SameEvent(page.view) /\ SameViewer /\ Visible
    <3>1. \A q \in Tasks : ~Unshown(task[q])
      BY <2>2, <2>3 DEF Unshown
    <3>2. "rows" \notin drift
      BY <1>1, <2>3
    <3> QED
      BY <3>1, <3>2 DEF RowsInv, RowsFollow
  <2>4. AtWork(t)'
    <3>1. op \in Acting => page'.act \notin Successes
      <4>1. CASE platform = "mobile"
        BY <1>3, <4>1 DEF Starts, MobileBusy, Successes
      <4>2. CASE platform = "web"
        BY <1>1, <1>3, <4>2 DEF SomebodyEnds, Begun, Successes
      <4> QED
        BY <1>1, <4>1, <4>2
    <3> QED
      BY <1>6, <3>1 DEF AtWork
  <2>5. page'.load = "ready" => page.load = "ready" /\ ~Unshown(t)
    BY <1>3, <1>6 DEF Begun, Unshown
  <2> QED
    BY <1>6, <1>7, <2>1, <2>2, <2>3, <2>4, <2>5, WorkStep
<1> QED
  BY <1>11, <1>12


\* The viewer comes back to the page.
LEMMA ReopenRows ==
  ASSUME PageInv, RowsInv, Reopen
  PROVE  RowsInv'
<1>1. /\ task \in [Tasks -> Handlers] /\ UNCHANGED <<fixed_vars, srv>> /\ page' = NewPage
      /\ \A q \in Tasks : task[q].step = "idle"
  BY DEF PageInv, Typed, Reopen, Quiet
<1>2. IdleTask \in Tasks
  BY <1>1, PageAssumption DEF IdleTask
<1>3. PICK k \in Tasks : task' = [task EXCEPT ![k] = [NoTask EXCEPT !.step = "get"]]
  BY <1>2 DEF Reopen
<1>4. PICK t : t = [NoTask EXCEPT !.step = "get"]
  OBVIOUS
<1>5. t \in Handlers /\ t.op = "load" /\ t.step = "get" /\ t.ans = "none"
  BY <1>4, Opening
<1>6. page'.load = "loading" /\ page'.act = "idle"
  BY <1>1, Opening
<1>7. RowsInOrder'
  BY <1>1 DEF RowsInv, RowsInOrder, fixed_vars
<1>8. \A q \in Tasks : ~Working(task[q])
  BY <1>1 DEF Working, Running
<1>9. AtWork(t)' /\ ActIsTrue'
  BY <1>5, <1>6 DEF AtWork, ActIsTrue, Acting
<1> QED
  BY <1>3, <1>4, <1>5, <1>6, <1>7, <1>8, <1>9, WorkStep

\* The invariant holds in every state the page can be in.
LEMMA RowsInvariant == Spec => []RowsInv
<1>1. Init => RowsInv
  <2> SUFFICES ASSUME Init PROVE RowsInv
    OBVIOUS
  <2>1. PICK k \in Tasks : task = [[q \in Tasks |-> NoTask] EXCEPT ![k].step = "get"]
    BY PageAssumption DEF Init
  <2>2. \A q \in Tasks : task[q] = IF q = k THEN [NoTask EXCEPT !.step = "get"] ELSE NoTask
    BY <2>1
  <2>3. page.load = "loading" /\ page.act = "idle"
    BY Opening DEF Init
  <2>4. RowsInOrder
    BY DEF Init, RowsInOrder
  <2>5. \A q \in Tasks : Working(task[q]) => q = k
    BY <2>2, Opening DEF Working, Running
  <2>6. \A q \in Tasks : Working(task[q]) => AtWork(task[q])
    <3>1. task[k].op = "load" /\ task[k].step = "get" /\ task[k].ans = "none"
      BY <2>2, Opening
    <3> QED
      BY <2>3, <2>5, <3>1 DEF AtWork, Acting
  <2>7. RowsFollow
    BY <2>3, <2>5, <2>6 DEF RowsFollow, ActIsTrue
  <2> QED
    BY <2>4, <2>7 DEF RowsInv
<1>2. PageInv /\ RowsInv /\ [Next]_vars => RowsInv'
  <2> SUFFICES ASSUME PageInv, RowsInv, [Next]_vars PROVE RowsInv'
    OBVIOUS
  <2>1. ASSUME NEW k \in Tasks, Answer(k) \/ Lost(k) \/ DetailLost(k) PROVE RowsInv'
    BY <2>1, ServedRowsStep, ProceedingRows, MobileRows, WebRows DEF Answer
  <2>2. ASSUME NEW op \in Op, Press(op) PROVE RowsInv'
    BY <2>2, PressRows
  <2>3. ASSUME NEW s, page' = [page EXCEPT !.sheet = s],
               UNCHANGED <<fixed_vars, srv, task, trouble, drift>>
        PROVE  RowsInv'
    <3>1. /\ page'.load = page.load /\ page'.act = page.act /\ ShowsSame(page') /\ SameRows(srv')
      BY <2>3 DEF PageInv, Typed, Pages, ShowsSame, SameRows
    <3> QED
      BY <2>3, <3>1, AsideStep
  <2>4. CASE Reopen
    BY <2>4, ReopenRows
  <2>5. CASE Outside
    BY <2>5, OutsideRows
  <2>6. CASE UNCHANGED vars
    <3>1. ShowsSame(page') /\ SameRows(srv')
      BY <2>6 DEF vars, ShowsSame, SameRows
    <3> QED
      BY <2>6, <3>1, AsideStep DEF vars
  <2>7. ASSUME NEW op \in Op, OpenSheet(op) PROVE RowsInv'
    BY <2>3, <2>7 DEF OpenSheet
  <2>8. CASE CloseSheet
    BY <2>3, <2>8 DEF CloseSheet
  <2> QED
    BY <2>1, <2>2, <2>4, <2>5, <2>6, <2>7, <2>8 DEF Next
<1> QED
  BY <1>1, <1>2, PageInvariant, PTL DEF Spec

\* While a page that is at rest has missed no change of the rows, every control it offers
\* asks for something the server accepts, but for the refusals that are named: however the
\* handlers were started before, on both clients.
THEOREM OffersHonoured == Spec => []OffersAreHonoured
<1>1. PageInv /\ RowsInv => OffersAreHonoured
  <2> SUFFICES ASSUME PageInv, RowsInv, Current, NEW op \in Offers
               PROVE  Accepts(op) \/ KnownRefusal(op)
    BY DEF OffersAreHonoured
  <2> QED
    BY AtRest, MobileHonoured, WebHonoured
<1> QED
  BY <1>1, PageInvariant, RowsInvariant, PTL

\* And what the server would accept of such a viewer is offered, but for the omissions that
\* are named.
THEOREM NothingWithheld == Spec => []NothingIsWithheld
<1>1. PageInv /\ RowsInv => NothingIsWithheld
  <2> SUFFICES ASSUME PageInv, RowsInv, Current,
                      NEW op \in {"join", "leave", "request", "withdraw", "reconfirm"}, Accepts(op)
               PROVE  op \in Offers \/ KnownOmission(op)
    BY DEF NothingIsWithheld
  <2> QED
    BY AtRest, MobileOffersAll, WebOffersAll
<1> QED
  BY <1>1, PageInvariant, RowsInvariant, PTL
===============================================================================
