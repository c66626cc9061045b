------------------------------ MODULE HostLists ------------------------------
(***************************************************************************)
(* The host's side of the event page in both clients: the participants,    *)
(* with the ratings the host gives them, the join requests and the         *)
(* invitations, each a list loaded page by page, oldest row first.  A      *)
(* behaviour follows one of the three lists.  Guests change the rows while *)
(* it is shown, every call is executed and answered in two steps, and      *)
(* answers come in any order or not at all.                                *)
(***************************************************************************)
EXTENDS Integers, Sequences, FiniteSets, SequencesExt, Ordered

CONSTANTS NumRows,     \* bound: rows there can be
          FirstRows,   \* how many there may be at first
          PageSize,    \* hostCollectionPageSize
          MaxActs,     \* bound: what the host does to a row or to the event
          MaxMore,     \* bound: further pages asked for
          MaxWaiting,  \* bound: calls without an answer when the host goes on
          MaxEvents    \* bound: what guests do, calls that fail and renewals of
                       \* the access token, together

VARIABLES
  client,    \* "web" or "mobile", never changes
  kind,      \* "people", "requests" or "invited", never changes
  rows,      \* the server: each row absent, open or closed
  stamp,     \* the server: how often the host has rated each person
  status,    \* the server: the event's status ...
  seen,      \* ... and the client's copy of it
  ready,     \* the page shows the event
  open,      \* the list is on the screen
  list,      \* the rows shown, the cursor and the loading flag
  tally,     \* hostContextSummary: the number of rows
  acting,    \* the row whose buttons wait for a handler, 0 for none
  closing,   \* the handler that cancels or ends the event, 0 for none
  form,      \* the rating editors
  kept,      \* mobile: what loadMoreInvitations has captured
  inviter,   \* mobile: the same as captured by handleInviteUsers
  sent,      \* calls the server has not executed
  answers,   \* answers on their way, in the order of execution
  acts, asked, events, renewals,
  history    \* what the properties remember

server == <<rows, stamp, status>>
screen == <<seen, ready, open, list, tally, acting, closing, form, kept, inviter>>
counters == <<acts, asked, events, renewals>>
vars == <<client, kind, server, screen, sent, answers, counters, history>>

Row == 1 .. NumRows
Web == client = "web"
Mobile == client = "mobile"
People == kind = "people"
Requests == kind = "requests"
Invited == kind = "invited"

-----------------------------------------------------------------------------
(* The server.                                                             *)

(* Invitations stay listed whatever became of them.                        *)
Listed(r) == rows[r] = "open" \/ (Invited /\ rows[r] = "closed")

Item(r) == [id |-> r, st |-> rows[r], stamp |-> stamp[r]]

(* A cursor is the last row of a page, 0 for none.                         *)
PageAfter(cursor) ==
  LET rest == Ascending({r \in Row : Listed(r) /\ r > cursor})
      full == Len(rest) > PageSize
  IN  [items |-> [i \in 1 .. (IF full THEN PageSize ELSE Len(rest)) |-> Item(rest[i])],
       next  |-> IF full THEN rest[PageSize] ELSE 0]

Count == Cardinality({r \in Row : Listed(r)})

Fresh == {r \in Row : rows[r] = "none" /\ \A q \in Row : q < r => rows[q] # "none"}

(* What a guest may do to a row.                                           *)
GuestMoves(r) ==
  IF Invited THEN IF rows[r] = "open" THEN {"closed"} ELSE {}
  ELSE CASE rows[r] = "none" -> IF r \in Fresh THEN {"open"} ELSE {}
         [] rows[r] = "open" -> {"closed"}
         [] OTHER            -> IF People THEN {"open"} ELSE {}

-----------------------------------------------------------------------------
(* Calls.  h numbers the handler that waits for the call, 0 for none; k is *)
(* the loader a handler will run afterwards.                               *)

View(l) == [next |-> l.next, empty |-> l.shown = <<>>, busy |-> l.busy]
NoView == [next |-> 0, empty |-> TRUE, busy |-> FALSE]

Call(op, row, h, k) == [op |-> op, row |-> row, h |-> h, k |-> k]
First(h) == Call("first", 0, h, NoView)
More(cursor) == Call("more", cursor, 0, NoView)
Summary(h) == Call("summary", 0, h, NoView)
Detail == Call("load", 0, 0, NoView)

PageCalls == {"first", "more"}
Acts == {"moderate", "rate", "invite", "inviteSome", "revoke", "cancel", "complete"}

InFlight == Range(sent) \cup {a.call : a \in Range(answers)}
Pending(op) == \E c \in InFlight : c.op = op
Bounded == Len(sent) + Len(answers) <= MaxWaiting

(* Which acts the server may perform; it may refuse others on grounds that *)
(* are not modelled: capacity, the rating window, cooldowns.               *)
Possible(c) ==
  CASE c.op \in {"moderate", "revoke"}   -> rows[c.row] = "open"
    [] c.op = "rate"                     -> status = "COMPLETED" /\ rows[c.row] = "open"
    [] c.op \in {"invite", "inviteSome"} -> status = "ACTIVE" /\ Fresh # {}
    [] c.op = "cancel"                   -> status = "ACTIVE"
    [] c.op = "complete"                 -> status = "IN_PROGRESS"

Perform(c) ==
  /\ rows' = CASE c.op \in {"moderate", "revoke"} -> [rows EXCEPT ![c.row] = "closed"]
               [] c.op \in {"invite", "inviteSome"} ->
                    [r \in Row |-> IF r \in Fresh THEN "open" ELSE rows[r]]
               [] c.op = "cancel" /\ People ->
                    [r \in Row |-> IF rows[r] = "open" THEN "closed" ELSE rows[r]]
               [] OTHER -> rows
  /\ stamp' = IF c.op = "rate" THEN [stamp EXCEPT ![c.row] = @ + 1] ELSE stamp
  /\ status' = CASE c.op = "cancel"   -> "CANCELED"
                 [] c.op = "complete" -> "COMPLETED"
                 [] OTHER             -> status

-----------------------------------------------------------------------------
(* The list on the screen.                                                 *)

NoList == [shown |-> <<>>, next |-> 0, busy |-> FALSE]
NoForm == [open |-> {}, typed |-> {}, error |-> 0]
NoCount == -1

Shown(l) == {l.shown[i].id : i \in DOMAIN l.shown}
ShownOpen == {list.shown[i].id : i \in {j \in DOMAIN list.shown : list.shown[j].st = "open"}}

(* loadMoreInvitations with what it captured; the event it reads beside a  *)
(* first page is left out.                                                 *)
Load(k) ==
  IF k.busy \/ (k.next = 0 /\ ~k.empty) THEN <<>>
  ELSE IF k.next = 0 THEN <<First(0)>> ELSE <<More(k.next)>>

(* A loader that acts on a list that is no longer there.                   *)
Strays(k, l) ==
  \/ Load(k) = <<>> /\ Load(View(l)) # <<>>
  \/ k.next # 0 /\ Load(k) # <<>> /\ Load(View(l)) # Load(k)

Has(calls, op) == \E i \in DOMAIN calls : calls[i].op = op
Busied(l, calls) == [l EXCEPT !.busy = @ \/ Has(calls, "first") \/ Has(calls, "more")]

(* The loader is captured anew when the cursor changes, not when the rows  *)
(* or the flag do.                                                         *)
Recaptured(l, k) == IF l.next # list.next THEN View(l) ELSE k

(* The effect that loads an open list while it is empty.                   *)
Effect(k) == IF Invited THEN Load(k) ELSE <<First(0)>>

Overlap(calls) == \/ Pending("more") /\ Has(calls, "first")
                  \/ Pending("first") /\ Has(calls, "more")

(* One render: the list becomes l, the screen shows it or not, calls are   *)
(* sent with it, and on mobile the effect runs if something it depends on  *)
(* has changed.  k is the loader as captured so far, past the history.     *)
Render(l, isOpen, calls, k, past) ==
  LET began  == Busied(l, calls)
      loader == Recaptured(began, k)
      runs   == /\ Mobile /\ isOpen /\ l.shown = <<>>
                /\ \/ list.shown # <<>> \/ ~open \/ renewals' # renewals
                   \/ Invited /\ l.next # list.next
      extra  == IF runs THEN Effect(loader) ELSE <<>>
  IN  /\ list' = Busied(began, extra)
      /\ open' = isOpen
      /\ kept' = loader
      /\ sent' = sent \o calls \o extra
      /\ history' = [past EXCEPT !.astray = @ \/ Overlap(calls \o extra)
                                              \/ (runs /\ Invited /\ Strays(loader, began))]

(* Sending calls alone.                                                    *)
Send(calls) == Render(list, open, calls, kept, history)

-----------------------------------------------------------------------------
(* What the host does.                                                     *)

Acting == acts < MaxActs /\ Bounded /\ acts' = acts + 1 /\ UNCHANGED <<asked, events, renewals>>
Handler == acts + 1

(* The buttons of a request are disabled on the web only, and only those   *)
(* of the row whose handler began last.                                    *)
WebModerable == ShownOpen \ {acting}
MobileModerable == ShownOpen

Moderate(r) ==
  /\ Acting
  /\ Requests /\ ready /\ open
  /\ r \in IF Web THEN WebModerable ELSE MobileModerable
  /\ acting' = IF Web THEN r ELSE acting
  /\ Send(<<Call("moderate", r, IF Web THEN Handler ELSE 0, NoView)>>)
  /\ UNCHANGED <<client, kind, server, seen, ready, tally, closing, form, inviter, answers>>

MayRate == People /\ ready /\ open /\ seen = "COMPLETED"

(* The web has one editor open, mobile one in every row.                   *)
WebToggled(r) == IF r \in form.open THEN {} ELSE {r}
MobileToggled(r) == IF r \in form.open THEN form.open \ {r} ELSE form.open \cup {r}

ToggleEditor(r) ==
  /\ MayRate /\ r \in Shown(list)
  /\ Mobile => acting # r
  /\ form' = [form EXCEPT !.open = IF Web THEN WebToggled(r) ELSE MobileToggled(r), !.error = 0]
  /\ UNCHANGED <<client, kind, server, seen, ready, open, list, tally, acting, closing, kept,
                 inviter, sent, answers, counters, history>>

(* On the web the text can be changed while the rating is saved.           *)
WebTypable == Shown(list) \cap form.open
MobileTypable == (Shown(list) \cap form.open) \ {acting}

Type(r) ==
  /\ MayRate /\ r \in IF Web THEN WebTypable ELSE MobileTypable
  /\ form' = [form EXCEPT !.typed = @ \cup {r}]
  /\ UNCHANGED <<client, kind, server, seen, ready, open, list, tally, acting, closing, kept,
                 inviter, sent, answers, counters, history>>

(* The editor's cancel button: on the web it only closes the editor.       *)
CancelRating(r) ==
  /\ MayRate /\ r \in Shown(list) \cap form.open /\ acting # r
  /\ form' = [open |-> form.open \ {r}, typed |-> IF Mobile THEN form.typed \ {r} ELSE form.typed,
              error |-> 0]
  /\ UNCHANGED <<client, kind, server, seen, ready, open, list, tally, acting, closing, kept,
                 inviter, sent, answers, counters, history>>

Rate(r) ==
  /\ Acting
  /\ MayRate /\ r \in Shown(list) \cap form.open \cap form.typed /\ acting # r
  /\ acting' = r
  /\ form' = [form EXCEPT !.error = 0]
  /\ Send(<<Call("rate", r, Handler, NoView)>>)
  /\ UNCHANGED <<client, kind, server, seen, ready, tally, closing, inviter, answers>>

WebInvites == seen = "ACTIVE" /\ acting = 0
MobileInvites == open /\ acting = 0

(* Some of the names may be refused.  On mobile the handler runs the       *)
(* loader it has captured, and is captured anew when isInviting changes.   *)
Invite(op) ==
  /\ Acting
  /\ Invited /\ ready /\ IF Web THEN WebInvites ELSE MobileInvites
  /\ acting' = 1
  /\ inviter' = kept
  /\ Send(<<Call(op, 0, Handler, IF Mobile THEN inviter ELSE NoView)>>)
  /\ UNCHANGED <<client, kind, server, seen, ready, tally, closing, form, answers>>

Revocable == IF Mobile /\ Invited THEN ShownOpen ELSE {}

Revoke(r) ==
  /\ Acting
  /\ ready /\ open /\ r \in Revocable
  /\ Send(<<Call("revoke", r, 0, kept)>>)
  /\ UNCHANGED <<client, kind, server, seen, ready, tally, acting, closing, form, inviter, answers>>

(* On mobile the button can be pressed again, and an event that has begun  *)
(* cannot be ended by hand.                                                *)
End(op) ==
  /\ Acting
  /\ ready /\ (Mobile => ~open)
  /\ IF op = "cancel" THEN seen = "ACTIVE" ELSE Web /\ seen = "IN_PROGRESS"
  /\ Web => closing = 0
  /\ closing' = IF Web THEN Handler ELSE 0
  /\ Send(<<Call(op, 0, IF Web THEN Handler ELSE 0, NoView)>>)
  /\ UNCHANGED <<client, kind, server, seen, ready, tally, acting, form, inviter, answers>>

CancelEvent == End("cancel")
CompleteEvent == End("complete")

OpenModal ==
  /\ Bounded /\ Mobile /\ ready /\ ~open
  /\ Invited => seen = "ACTIVE"
  /\ UNCHANGED counters
  /\ Render(list, TRUE, <<>>, kept, history)
  /\ UNCHANGED <<client, kind, server, seen, ready, tally, acting, closing, form, inviter, answers>>

(* The rows are unmounted with the modal, their drafts with them.          *)
CloseModal ==
  /\ Mobile /\ open
  /\ form' = [NoForm EXCEPT !.error = form.error]
  /\ UNCHANGED counters
  /\ Render(list, FALSE, <<>>, kept, history)
  /\ UNCHANGED <<client, kind, server, seen, ready, tally, acting, closing, inviter, answers>>

(* The button for more; mobile invitations run the captured loader.        *)
NextPage == IF list.busy THEN <<>> ELSE <<More(list.next)>>
LoadMoreCalls == IF Mobile /\ Invited THEN Load(kept) ELSE NextPage

LoadMore ==
  /\ asked < MaxMore /\ Bounded /\ ready /\ open /\ list.next # 0
  /\ LoadMoreCalls # <<>>
  /\ asked' = asked + 1 /\ UNCHANGED <<acts, events, renewals>>
  /\ Render(list, open, LoadMoreCalls, kept,
            [history EXCEPT !.astray = @ \/ (Mobile /\ Invited /\ Strays(kept, list))])
  /\ UNCHANGED <<client, kind, server, seen, ready, tally, acting, closing, form, inviter, answers>>

-----------------------------------------------------------------------------
(* The server executes a call; the answer holds what it saw then.          *)

Answer(c, ok) ==
  [call |-> c, ok |-> ok, passed |-> FALSE, status |-> status, count |-> Count,
   page |-> IF c.op \in PageCalls THEN PageAfter(c.row) ELSE PageAfter(NumRows),
   all  |-> IF c.op \in PageCalls THEN {r \in Row : Listed(r)} ELSE {}]

Execute(i) ==
  LET c == sent[i]
  IN  /\ sent' = RemoveAt(sent, i)
      /\ \/ /\ c.op \in Acts /\ Possible(c)
            /\ Perform(c)
            /\ answers' = Append(answers, Answer(c, TRUE))
            /\ history' = [history EXCEPT
                 !.handled = IF c.op \in {"moderate", "revoke"} THEN @ \cup {c.row} ELSE @,
                 !.moved = @ \/ (Mobile /\ c.op = "inviteSome")]
         \/ /\ c.op \in Acts
            /\ answers' = Append(answers, Answer(c, FALSE))
            /\ UNCHANGED <<server, history>>
         \/ /\ c.op \notin Acts
            /\ answers' = Append(answers, Answer(c, TRUE))
            /\ history' = [history EXCEPT !.moved = @ /\ c.op \notin {"summary", "counted"}]
            /\ UNCHANGED server
      /\ UNCHANGED <<client, kind, screen, counters>>

(* A guest joins, asks, answers, leaves or confirms again.                 *)
Guest(r) ==
  /\ events < MaxEvents /\ status \in {"ACTIVE", "IN_PROGRESS"}
  /\ \E st \in GuestMoves(r) : rows' = [rows EXCEPT ![r] = st]
  /\ history' = [history EXCEPT !.moved = TRUE]
  /\ events' = events + 1
  /\ UNCHANGED <<client, kind, stamp, status, screen, sent, answers, acts, asked, renewals>>

-----------------------------------------------------------------------------
(* Answers reach the client.                                               *)

Reads(c) == IF c.op = "counted" THEN "summary" ELSE c.op

(* A later read of the same thing that is applied first passes this one.   *)
Taken(i) ==
  LET a == answers[i]
  IN  RemoveAt([j \in DOMAIN answers |->
        IF j < i /\ Reads(answers[j].call) = Reads(a.call) THEN [answers[j] EXCEPT !.passed = TRUE]
        ELSE answers[j]], i)

Late(a) == a.passed /\ a.call.op # "more"

(* Whether a handler has no other call to wait for.                        *)
Alone(i) ==
  LET h == answers[i].call.h
  IN  /\ \A j \in DOMAIN sent : sent[j].h # h
      /\ \A j \in DOMAIN answers \ {i} : answers[j].call.h # h

(* The handler's flag is cleared; acting belongs to all handlers.          *)
Ends(h, ends) ==
  /\ acting'  = IF ends /\ h # 0 /\ h # closing THEN 0 ELSE acting
  /\ closing' = IF ends /\ h # 0 /\ h = closing THEN 0 ELSE closing

Merged(a) ==
  [shown |-> IF a.call.op = "first" THEN a.page.items ELSE list.shown \o a.page.items,
   next  |-> a.page.next,
   busy  |-> FALSE]

StampOf(l, r) == LET i == CHOOSE j \in DOMAIN l.shown : l.shown[j].id = r IN l.shown[i].stamp

(* The drafts live in the rows: a row that is no longer shown loses its    *)
(* draft, and one whose rating has changed takes over the new rating and   *)
(* closes its editor, unless it is still being saved.                      *)
Gone(l) == Shown(list) \ Shown(l)
\* Mutant: the row listens to the rating object, which every answer makes anew.
RenewedAlways(l) == Shown(list) \cap Shown(l)
Renewed(l) == {r \in Shown(list) \cap Shown(l) : StampOf(list, r) # StampOf(l, r)}

Follow(l) ==
  form' = [form EXCEPT
    !.open  = (@ \ {r \in Renewed(l) : acting' # r /\ form.error # r})
              \ (IF Mobile THEN Gone(l) ELSE {}),
    !.typed = @ \ (Gone(l) \cup Renewed(l))]

PageAnswer(i) ==
  LET a == answers[i]
      l == Merged(a)
  IN  /\ a.call.op \in PageCalls
      /\ answers' = Taken(i)
      /\ UNCHANGED counters
      /\ Ends(a.call.h, Alone(i))
      /\ Follow(l)
      /\ Render(l, open, <<>>, kept,
           [history EXCEPT
              !.late = @ \/ Late(a),
              !.known = IF a.call.op = "first" THEN a.all
                        ELSE {r \in @ : r <= a.call.row} \cup {r \in a.all : r > a.call.row}])
      /\ UNCHANGED <<client, kind, server, seen, ready, tally, inviter>>

SummaryAnswer(i) ==
  LET a == answers[i]
  IN  /\ a.call.op = "summary"
      /\ answers' = Taken(i)
      /\ UNCHANGED counters
      /\ seen' = a.status
      /\ tally' = IF People THEN tally ELSE a.count
      /\ Ends(a.call.h, Alone(i))
      /\ history' = [history EXCEPT !.late = @ \/ Late(a)]
      /\ UNCHANGED <<client, kind, server, ready, open, list, form, kept, inviter, sent>>

(* fetchDetail: the web then loads every list.                             *)
DetailAnswer(i) ==
  LET a == answers[i]
  IN  /\ a.call.op = "load"
      /\ answers' = Taken(i)
      /\ UNCHANGED counters
      /\ seen' = a.status /\ ready' = TRUE
      /\ Render(list, open, IF Web THEN <<Summary(0), First(0)>> ELSE <<Summary(0)>>, kept,
                [history EXCEPT !.late = @ \/ Late(a)])
      /\ UNCHANGED <<client, kind, server, tally, acting, closing, form, inviter>>

(* What a handler reads again once its act has succeeded.                  *)
\* Mutant: only the summary is read again.
RefreshesCountOnly(c) == <<Summary(c.h)>>
Refreshes(c) ==
  IF Mobile /\ c.op = "cancel" THEN <<Summary(0)>> ELSE <<Summary(c.h), First(c.h)>>

ActAnswer(i) ==
  LET a == answers[i]
  IN  /\ a.call.op \in Acts /\ a.ok
      /\ Web \/ a.call.op \notin {"invite", "inviteSome", "revoke"}
      /\ answers' = Taken(i)
      /\ UNCHANGED counters
      /\ Send(Refreshes(a.call))
      /\ UNCHANGED <<client, kind, server, seen, ready, tally, acting, closing, form, inviter>>

(* Mobile empties the list and runs a loader it has captured.              *)
Reloaded(k, calls, late) ==
  LET l == [NoList EXCEPT !.busy = list.busy]
  IN  Render(l, open, calls \o Load(k), kept,
             [history EXCEPT !.astray = @ \/ Strays(k, l) \/ Load(k) = <<>> \/ Pending("more"),
                             !.late = @ \/ late])

MobileInvited(i) ==
  LET a == answers[i]
  IN  /\ Mobile /\ a.ok /\ a.call.op = "invite"
      /\ answers' = Taken(i)
      /\ UNCHANGED counters
      /\ acting' = 0
      /\ Reloaded(a.call.k, <<Summary(0)>>, FALSE)
      /\ inviter' = kept'
      /\ UNCHANGED <<client, kind, server, seen, ready, tally, closing, form>>

MobileRevoked(i) ==
  LET a == answers[i]
  IN  /\ Mobile /\ a.ok /\ a.call.op = "revoke"
      /\ answers' = Taken(i)
      /\ UNCHANGED counters
      /\ Send(<<Call("counted", 0, 0, a.call.k)>>)
      /\ UNCHANGED <<client, kind, server, seen, ready, tally, acting, closing, form, inviter>>

MobileCounted(i) ==
  LET a == answers[i]
  IN  /\ a.call.op = "counted"
      /\ answers' = Taken(i)
      /\ UNCHANGED counters
      /\ tally' = a.count
      /\ Reloaded(a.call.k, <<>>, Late(a))
      /\ UNCHANGED <<client, kind, server, seen, ready, acting, closing, form, inviter>>

(* An act that was refused, or a call that failed: the handler stops, and  *)
(* what it still waits for is applied all the same.                        *)
Orphaned(calls, h) ==
  [j \in DOMAIN calls |-> IF h # 0 /\ calls[j].h = h THEN [calls[j] EXCEPT !.h = 0] ELSE calls[j]]
OrphanedAnswers(as, h) ==
  [j \in DOMAIN as |-> IF h # 0 /\ as[j].call.h = h THEN [as[j] EXCEPT !.call.h = 0] ELSE as[j]]

Stops(c, lost) ==
  /\ Ends(c.h, TRUE)
  /\ form' = IF People /\ c.h # 0 /\ c.h # closing THEN [form EXCEPT !.error = acting] ELSE form
  /\ list' = IF c.op \in PageCalls THEN [list EXCEPT !.busy = FALSE] ELSE list
  /\ inviter' = IF c.op \in {"invite", "inviteSome"} THEN kept ELSE inviter
  /\ history' = [history EXCEPT !.astray = @ \/ (c.op = "first" /\ list.shown = <<>>),
                                !.failed = @ \/ lost]

Refused(i) ==
  LET a == answers[i]
  IN  /\ a.call.op \in Acts
      /\ ~a.ok \/ (Mobile /\ a.call.op = "inviteSome")
      /\ answers' = Taken(i)
      /\ Stops(a.call, FALSE)
      /\ UNCHANGED <<client, kind, server, seen, ready, open, tally, kept, sent, counters>>

Lose == events < MaxEvents /\ events' = events + 1 /\ UNCHANGED <<acts, asked, renewals>>

LoseCall(i) ==
  LET c == sent[i]
  IN  /\ Lose
      /\ sent' = Orphaned(RemoveAt(sent, i), c.h)
      /\ answers' = OrphanedAnswers(answers, c.h)
      /\ Stops(c, TRUE)
      /\ UNCHANGED <<client, kind, server, seen, ready, open, tally, kept>>

LoseAnswer(i) ==
  LET c == answers[i].call
  IN  /\ Lose
      /\ sent' = Orphaned(sent, c.h)
      /\ answers' = OrphanedAnswers(RemoveAt(answers, i), c.h)
      /\ Stops(c, TRUE)
      /\ UNCHANGED <<client, kind, server, seen, ready, open, tally, kept>>

-----------------------------------------------------------------------------
(* The page is loaded anew.                                                *)

(* A renewed token changes every loader; the reset forgets the lists.      *)
Reset(k) ==
  /\ seen' = seen /\ ready' = FALSE /\ tally' = NoCount /\ form' = NoForm
  /\ Render([NoList EXCEPT !.busy = list.busy], open, <<Detail>>, k,
            [history EXCEPT !.astray = @ \/ Pending("more")])
  /\ UNCHANGED <<client, kind, server, acting, closing, answers>>

RenewToken ==
  /\ events < MaxEvents /\ Bounded
  /\ events' = events + 1 /\ renewals' = renewals + 1 /\ UNCHANGED <<acts, asked>>
  /\ inviter' = View(list)
  /\ Reset(View(list))

Retry ==
  /\ ~ready /\ ~Pending("load")
  /\ UNCHANGED counters
  /\ Reset(kept)
  /\ UNCHANGED inviter

Init ==
  /\ client \in {"web", "mobile"} /\ kind \in {"people", "requests", "invited"}
  /\ rows \in {[r \in Row |-> IF r <= n THEN "open" ELSE "none"] : n \in FirstRows}
  /\ stamp = [r \in Row |-> 0]
  /\ status \in IF kind = "people" THEN {"IN_PROGRESS", "COMPLETED"} ELSE {"ACTIVE"}
  /\ seen = status /\ ready = FALSE /\ open = (client = "web")
  /\ list = NoList /\ tally = NoCount /\ acting = 0 /\ closing = 0 /\ form = NoForm
  /\ kept = NoView /\ inviter = NoView
  /\ sent = <<Detail>> /\ answers = <<>>
  /\ acts = 0 /\ asked = 0 /\ events = 0 /\ renewals = 0
  /\ history = [astray |-> FALSE, late |-> FALSE, failed |-> FALSE, known |-> {},
                handled |-> {}, moved |-> FALSE]

HostActs ==
  \/ \E r \in Row : Moderate(r) \/ ToggleEditor(r) \/ Type(r) \/ CancelRating(r)
                    \/ Rate(r) \/ Revoke(r)
  \/ \E op \in {"invite", "inviteSome"} : Invite(op)
  \/ CancelEvent \/ CompleteEvent \/ OpenModal \/ CloseModal \/ LoadMore

Arrives(i) ==
  \/ PageAnswer(i) \/ SummaryAnswer(i) \/ DetailAnswer(i) \/ ActAnswer(i)
  \/ MobileInvited(i) \/ MobileRevoked(i) \/ MobileCounted(i) \/ Refused(i) \/ LoseAnswer(i)

Next ==
  \/ HostActs
  \/ \E r \in Row : Guest(r)
  \/ \E i \in DOMAIN sent : Execute(i) \/ LoseCall(i)
  \/ \E i \in DOMAIN answers : Arrives(i)
  \/ RenewToken \/ Retry

Spec == Init /\ [][Next]_vars

-----------------------------------------------------------------------------
(* Properties.                                                             *)

Quiet == sent = <<>> /\ answers = <<>>

(* Once nothing is under way, every row that was there when its part of    *)
(* the list was last read and is still listed is on the screen or behind   *)
(* the button for more, the rows shown ascend and none is shown twice.     *)
(* A page that fails leaves the list as it was.  Left out: a list that     *)
(* mobile reloaded with an outdated loader, one whose next page was read   *)
(* while its first was read again, and an empty list whose load failed.    *)
ListIsComplete ==
  Quiet /\ ready /\ open /\ ~history.astray =>
    /\ \A r \in history.known :
         Listed(r) => r \in Shown(list) \/ (list.next # 0 /\ r > list.next)
    /\ \A i, j \in DOMAIN list.shown : i < j => list.shown[i].id < list.shown[j].id

(* Once nothing is under way, no request or invitation that the host has   *)
(* settled is shown as open, and the number above the list counts what the *)
(* host has done: both clients read the list and the summary again after   *)
(* an act.  Left out: failed calls, answers that a later read has passed,  *)
(* and invitations of which mobile was told that some were refused.        *)
HandledIsGone ==
  Quiet /\ ready /\ ~history.failed /\ ~history.late /\ ~history.astray =>
    /\ history.handled \cap ShownOpen = {}
    /\ People \/ history.moved \/ tally = Count

(* What the host has typed about one participant outlives everything but   *)
(* that participant's row going off the screen, that participant's rating  *)
(* being saved and, on mobile, the editor's cancel button; on the web not  *)
(* even that takes it away.                                                *)
RatingDraftKept ==
  [][\A r \in Shown(list) : r \in form.typed /\ r \notin form'.typed =>
       \/ r \notin Shown(list') \/ ~open' \/ ~ready'
       \/ StampOf(list, r) # StampOf(list', r)
       \/ Mobile /\ CancelRating(r)]_vars
=============================================================================
