---------------------------- MODULE EventComments ----------------------------
(***************************************************************************)
(* The comments under an event in both clients: the discussion and the     *)
(* reviews, newest first and loaded with the panel, and the replies to one *)
(* comment, oldest first and loaded when they are unfolded.  A behaviour   *)
(* follows one of the three lists.  Others write while it is shown, every  *)
(* call is executed and answered in two steps, answers come in any order   *)
(* or not at all, and the page may be fetched anew under a draft.          *)
(***************************************************************************)
EXTENDS Integers, Sequences, FiniteSets, SequencesExt, Ordered

CONSTANTS PageSize,    \* PAGE_LIMIT, PAGE_SIZE
          MaxOld,      \* bound: comments there are at first
          MaxNew,      \* bound: comments that others add
          MaxInput,    \* bound: what the user does
          MaxCalls,    \* bound: calls without an answer
          MaxLost      \* bound: calls whose answer is lost

VARIABLES
  client,  \* "web" or "mobile", never changes
  kind,    \* the list that is followed, never changes
  role,    \* the viewer: host, member, late leaver or guest, never changes
  stored,  \* event_comment: the rows of the list, oldest first
  status,  \* the event's status on the server ...
  seen,    \* ... and in the event the client has loaded
  list,    \* the comments shown, the cursor and the flags
  draft,   \* the composer, or the form of a reply; left: since what is sent was typed
  calls,   \* calls without an answer, oldest first
  abandoned,  \* what panels that are gone will still post
  inputs, lost

setting == <<client, kind, role>>
vars == <<setting, stored, status, seen, list, draft, calls, abandoned, inputs, lost>>

Web == client = "web"
Mobile == client = "mobile"
Reviews == kind = "reviews"
Replies == kind = "replies"

-----------------------------------------------------------------------------
(* The server.                                                             *)

(* A comment is known by its place among the rows; its text is the number  *)
(* of the input that wrote it, 0 for those of others.                      *)
Comment == [id : Nat, mine : BOOLEAN, text : Nat]

(* A cursor is the last comment of its page, 0 for none.                   *)
Beyond(c, cursor) == cursor = 0 \/ (IF Replies THEN c.id > cursor ELSE c.id < cursor)

Listed(cursor) ==
  LET rest == {i \in DOMAIN stored : Beyond(stored[i], cursor)}
  IN  IF Replies THEN Ascending(rest) ELSE Descending(rest)

PageAfter(cursor) ==
  LET rest == Listed(cursor)
      full == Len(rest) > PageSize
  IN  [items |-> [i \in 1 .. (IF full THEN PageSize ELSE Len(rest)) |-> stored[rest[i]]],
       next  |-> IF full THEN rest[PageSize] ELSE 0]

Qualifies == role \in {"member", "leaver"}

MayDiscuss == status = "ACTIVE" \/ (status = "IN_PROGRESS" /\ (role = "host" \/ Qualifies))
MayReview == status = "COMPLETED" /\ Qualifies

Accepts == IF Reviews THEN MayReview ELSE MayDiscuss

(* A review of the same user is rewritten in place.                        *)
OwnRows == {i \in DOMAIN stored : stored[i].mine}

OwnPlace == IF Reviews /\ OwnRows # {} THEN CHOOSE i \in OwnRows : TRUE ELSE Len(stored) + 1

Own(id, text) == [id |-> id, mine |-> TRUE, text |-> text]

Written(text) ==
  IF OwnPlace \in DOMAIN stored
  THEN [stored EXCEPT ![OwnPlace].text = text]
  ELSE Append(stored, Own(OwnPlace, text))

-----------------------------------------------------------------------------
(* Calls.  The answer to a post is the row as it was stored, at its place  *)
(* id; raced is one that something of the user has overtaken since.        *)
Call(what, text, cursor) ==
  [what |-> what, text |-> text, cursor |-> cursor, done |-> "no", raced |-> FALSE,
   page |-> [items |-> <<>>, next |-> 0], horizon |-> 0, id |-> 0]

Sent(what, text, cursor) == calls' = Append(calls, Call(what, text, cursor))

(* The server executes a call: it reads a page, or writes if it may.       *)
Execute(i) ==
  /\ i \in DOMAIN calls /\ calls[i].done = "no"
  /\ LET c == calls[i] IN
     CASE c.what \in {"first", "more"} ->
            /\ calls' = [calls EXCEPT ![i].done = "yes", ![i].page = PageAfter(c.cursor),
                                      ![i].horizon = Len(stored)]
            /\ UNCHANGED stored
       [] c.what = "upload" -> calls' = [calls EXCEPT ![i].done = "yes"] /\ UNCHANGED stored
       [] c.what = "post" ->
            IF Accepts
            THEN /\ calls' = [calls EXCEPT ![i].done = "yes", ![i].id = OwnPlace]
                 /\ stored' = Written(c.text)
            ELSE calls' = [calls EXCEPT ![i].done = "refused"] /\ UNCHANGED stored
  /\ UNCHANGED <<setting, status, seen, list, draft, abandoned, inputs, lost>>

(* What a panel that is gone still posts: nobody waits for the answer.  It *)
(* may rewrite a review that was written and stored after it.              *)
PostAbandoned(text) ==
  /\ text \in abandoned /\ abandoned' = abandoned \ {text}
  /\ IF Accepts
     THEN /\ stored' = Written(text)
          /\ calls' = [i \in DOMAIN calls |->
                        [calls[i] EXCEPT !.raced = @ \/ (Reviews /\ calls[i].what = "post"
                                                              /\ calls[i].done = "yes")]]
     ELSE UNCHANGED <<stored, calls>>
  /\ UNCHANGED <<setting, status, seen, list, draft, inputs, lost>>

-----------------------------------------------------------------------------
(* What the client shows.                                                  *)

NoList == [shown |-> <<>>, next |-> 0, busy |-> "no", failed |-> FALSE, open |-> FALSE,
           known |-> FALSE, count |-> 0, horizon |-> 0, own |-> {}, astray |-> FALSE]

NoDraft == [open |-> FALSE, text |-> 0, stars |-> 0, image |-> FALSE, sending |-> FALSE, left |-> FALSE]

(* What the form holds: nothing of a text that is being sent when it was   *)
(* left since.                                                             *)
Held == IF draft.left THEN 0 ELSE draft.text

(* The panel loads the discussion and the reviews when it appears; the     *)
(* replies start from the count that came with their comment.              *)
Opened(n) ==
  IF Replies THEN [NoList EXCEPT !.count = n, !.horizon = n] ELSE [NoList EXCEPT !.busy = "first"]

WebMayDiscuss ==
  seen = "ACTIVE" \/ (seen = "IN_PROGRESS" /\ role \in {"host", "member"})

WebMayReview == seen = "COMPLETED" /\ role = "member"

MobileMayDiscuss ==
  seen = "ACTIVE" \/ (seen = "IN_PROGRESS" /\ (role = "host" \/ Qualifies))

MobileMayReview == seen = "COMPLETED" /\ Qualifies

(* Everything that loads or sends is disabled while it does, but for the   *)
(* field an image is dropped into.                                         *)
WebDiscussionForm == IF WebMayDiscuss /\ ~draft.sending THEN {"write"} ELSE {}

WebReplyForm ==
  IF ~WebMayDiscuss \/ draft.sending THEN {}
  ELSE {"reply"} \union (IF draft.open THEN {"write", "cancel"} ELSE {})

WebReviewForm ==
  IF WebMayReview THEN {"image"} \union (IF draft.sending THEN {} ELSE {"write", "rate"}) ELSE {}

WebDiscussionList ==
  CASE list.busy = "first" -> {}
    [] list.busy # "first" /\ list.failed -> {"retry"}
    [] list.busy # "first" /\ ~list.failed ->
         IF list.shown # <<>> /\ list.next # 0 /\ list.busy = "no" THEN {"more"} ELSE {}

WebReviewList == WebDiscussionList

WebReplyList ==
  (IF (list.count > 0 \/ list.open) /\ list.busy = "no" THEN {"toggle"} ELSE {}) \union
  (IF list.open /\ list.next # 0 /\ list.busy = "no" THEN {"more"} ELSE {})

MobileDiscussionForm == IF MobileMayDiscuss /\ ~draft.sending THEN {"write"} ELSE {}

MobileReplyForm ==
  CASE draft.open -> IF draft.sending THEN {} ELSE {"write", "cancel"}
    [] ~draft.open -> IF MobileMayDiscuss THEN {"reply"} ELSE {}

MobileReviewForm == IF MobileMayReview /\ ~draft.sending THEN {"write", "rate"} ELSE {}

MobileDiscussionList == IF list.next # 0 /\ list.busy = "no" THEN {"more"} ELSE {}

MobileReviewList == MobileDiscussionList

MobileReplyList ==
  (IF (IF list.known THEN list.shown # <<>> ELSE list.count > 0) THEN {"toggle"} ELSE {}) \union
  (IF list.open /\ list.next # 0 /\ list.busy = "no" THEN {"more"} ELSE {})

ListOffers ==
  CASE kind = "discussion" -> IF Web THEN WebDiscussionList ELSE MobileDiscussionList
    [] kind = "replies" -> IF Web THEN WebReplyList ELSE MobileReplyList
    [] kind = "reviews" -> IF Web THEN WebReviewList ELSE MobileReviewList

FormOffers ==
  CASE kind = "discussion" -> IF Web THEN WebDiscussionForm ELSE MobileDiscussionForm
    [] kind = "replies" -> IF Web THEN WebReplyForm ELSE MobileReplyForm
    [] kind = "reviews" -> IF Web THEN WebReviewForm ELSE MobileReviewForm

(* The page has no panel under a canceled event.                           *)
PanelHidden == Web /\ seen = "CANCELED"

Offers == IF PanelHidden THEN {} ELSE ListOffers \union FormOffers

Touch(what) == what \in Offers /\ UNCHANGED <<setting, stored, status, seen, abandoned, lost>>

Input(what) == Touch(what) /\ inputs < MaxInput /\ inputs' = inputs + 1

-----------------------------------------------------------------------------
(* Loading.                                                                *)

(* The page shows nothing of the list while it loads.                      *)
Retry ==
  /\ Input("retry")
  /\ list' = [list EXCEPT !.busy = "first", !.failed = FALSE]
  /\ Sent("first", 0, 0)
  /\ UNCHANGED draft

LoadMore ==
  /\ Input("more")
  /\ list' = [list EXCEPT !.busy = "more"]
  /\ Sent("more", 0, list.next)
  /\ UNCHANGED draft

(* The page loads the replies unless it has some, the app unless it ever   *)
(* had an entry for them.                                                  *)
WebFolded ==
  IF list.open \/ list.shown # <<>> \/ list.count = 0
  THEN list' = [list EXCEPT !.open = ~@] /\ UNCHANGED calls
  ELSE list' = [list EXCEPT !.busy = "first"] /\ Sent("first", 0, 0)

MobileFolded ==
  IF list.open \/ list.known
  THEN list' = [list EXCEPT !.open = ~@] /\ UNCHANGED calls
  ELSE /\ list' = [list EXCEPT !.open = TRUE, !.known = TRUE, !.busy = "first"]
       /\ Sent("first", 0, 0)

ToggleReplies ==
  /\ Input("toggle")
  /\ IF Web THEN WebFolded ELSE MobileFolded
  /\ UNCHANGED draft

(* What a page replaces or continues.  A page that was read before an own  *)
(* comment was shown hides it again.                                       *)
FirstPage(c) ==
  [list EXCEPT !.shown = c.page.items, !.next = c.page.next, !.busy = "no", !.failed = FALSE,
               !.open = @ \/ (Web /\ Replies), !.horizon = c.horizon, !.astray = c.raced]

LaterPageAlone(c) ==
  [list EXCEPT !.shown = c.page.items, !.next = c.page.next, !.busy = "no"]

LaterPage(c) ==
  [list EXCEPT !.shown = @ \o c.page.items, !.next = c.page.next, !.busy = "no",
               !.horizon = IF Replies THEN c.horizon ELSE @]

Paged(c) == IF c.what = "first" THEN FirstPage(c) ELSE LaterPage(c)

(* The page keeps what it has and can be asked again; the app forgets the  *)
(* replies, and asks for nothing twice.                                    *)
Unpaged(c) ==
  [list EXCEPT !.busy = "no", !.failed = Web /\ ~Replies /\ c.what = "first",
               !.astray = @ \/ (Mobile /\ c.what = "first"),
               !.shown = IF Mobile /\ Replies /\ c.what = "first" THEN <<>> ELSE @]

-----------------------------------------------------------------------------
(* Writing.                                                                *)

(* The app starts a reply with an empty form, the page with what was there.*)
OpenReply ==
  /\ Input("reply")
  /\ draft' = [draft EXCEPT !.open = ~@, !.text = IF Web THEN @ ELSE 0]
  /\ UNCHANGED <<list, calls>>

CancelReply ==
  /\ Input("cancel")
  /\ draft' = NoDraft
  /\ UNCHANGED <<list, calls>>

Write ==
  /\ Input("write")
  /\ draft' = [draft EXCEPT !.text = inputs']
  /\ UNCHANGED <<list, calls>>

Rate ==
  /\ draft.stars = 0 /\ Touch("rate")
  /\ draft' = [draft EXCEPT !.stars = 1]
  /\ UNCHANGED <<list, calls, inputs>>

(* Only the page attaches images; one of a wrong type or size is left out. *)
ChooseImage ==
  /\ Touch("image")
  /\ draft' = [draft EXCEPT !.image = ~@]
  /\ UNCHANGED <<list, calls, inputs>>

(* To the other tab and back, under an event that is over: the form of the *)
(* review goes with its tab and comes back empty, while the panel sends on *)
(* what it was given.  The discussion can no longer be written to by then. *)
ChangeTabs ==
  /\ Web /\ Reviews /\ seen = "COMPLETED" /\ inputs < MaxInput /\ inputs' = inputs + 1
  /\ draft' = IF draft.sending
              THEN [NoDraft EXCEPT !.text = draft.text, !.sending = TRUE, !.left = TRUE]
              ELSE NoDraft
  /\ UNCHANGED <<setting, stored, status, seen, list, calls, abandoned, lost>>

Complete == draft.text # 0 /\ (Reviews => draft.stars # 0)

Submit ==
  /\ Complete /\ Input("write")
  /\ draft' = [draft EXCEPT !.sending = TRUE]
  /\ Sent(IF draft.image THEN "upload" ELSE "post", draft.text, 0)
  /\ UNCHANGED list

(* The own comment goes to the front, a reply to the end; the page moves a *)
(* review that is shown to the front, the app replaces it in place.        *)
Discussed(c) == <<c>> \o list.shown

Replied(c) == Append(list.shown, c)

WebReviewed(c) == <<c>> \o Kept(list.shown, {k \in DOMAIN list.shown : list.shown[k].id # c.id})

MobileReviewed(c) ==
  IF \E k \in DOMAIN list.shown : list.shown[k].mine
  THEN [k \in DOMAIN list.shown |-> IF list.shown[k].mine THEN c ELSE list.shown[k]]
  ELSE <<c>> \o list.shown

Shown(c) ==
  CASE kind = "discussion" -> Discussed(c)
    [] kind = "replies" -> Replied(c)
    [] kind = "reviews" -> IF Web THEN WebReviewed(c) ELSE MobileReviewed(c)

(* Where this breaks the list: a page that was read before the answer may  *)
(* hold the comment too, a reply is put before replies that are not loaded,*)
(* an old review is shown before its page.                                 *)
Misplaced(c) ==
  \/ Replies /\ (list.next # 0 \/ list.busy # "no" \/ (list.shown = <<>> /\ list.count > 0))
  \/ Reviews /\ list.next # 0 /\ c.id < list.next
  \/ ~Reviews /\ c.id <= list.horizon

Posted(c) ==
  [list EXCEPT !.shown = Shown(c), !.count = @ + 1, !.known = @ \/ Replies,
               !.open = @ \/ (Web /\ Replies), !.own = @ \union {c.id},
               !.astray = @ \/ Misplaced(c)]

(* A form that came back meanwhile keeps what it was given.                *)
Anew == [NoDraft EXCEPT !.image = draft.image]

Cleared == IF draft.left THEN Anew ELSE NoDraft

RefusedAndCleared == NoDraft
Refused == IF draft.left THEN Anew ELSE [draft EXCEPT !.sending = FALSE]

(* An own comment is shown over the page that is under way.                *)
Overtaken(i) ==
  RemoveAt([j \in DOMAIN calls |-> [calls[j] EXCEPT !.raced = @ \/ calls[j].what = "first"]], i)

Answer(i) ==
  /\ i \in DOMAIN calls /\ calls[i].done # "no"
  /\ LET c == calls[i] IN
     CASE c.what \in {"first", "more"} ->
            list' = Paged(c) /\ calls' = RemoveAt(calls, i) /\ UNCHANGED draft
       [] c.what = "upload" ->
            calls' = [calls EXCEPT ![i] = Call("post", c.text, 0)] /\ UNCHANGED <<list, draft>>
       [] c.what = "post" /\ c.done = "yes" ->
            list' = Posted(Own(c.id, c.text)) /\ draft' = Cleared /\ calls' = Overtaken(i)
       [] c.what = "post" /\ c.done = "refused" ->
            draft' = Refused /\ calls' = RemoveAt(calls, i) /\ UNCHANGED list
  /\ UNCHANGED <<setting, stored, status, seen, abandoned, inputs, lost>>

(* A call fails, before or after the server executed it.                   *)
Lose(i) ==
  /\ i \in DOMAIN calls /\ lost < MaxLost
  /\ lost' = lost + 1
  /\ calls' = RemoveAt(calls, i)
  /\ IF calls[i].what \in {"first", "more"} THEN list' = Unpaged(calls[i]) /\ UNCHANGED draft
     ELSE draft' = Refused /\ UNCHANGED list
  /\ UNCHANGED <<setting, stored, status, seen, abandoned, inputs>>

-----------------------------------------------------------------------------
(* The page fetches its event anew, with a renewed token or after an       *)
(* action: the panel is replaced by a spinner and starts again, while what *)
(* it was sending is sent.  The app keeps what it has loaded, and sees the *)
(* new status.                                                             *)
Unposted == {calls[i].text : i \in {k \in DOMAIN calls :
               calls[k].what = "upload" \/ (calls[k].what = "post" /\ calls[k].done = "no")}}

Refetch ==
  /\ inputs < MaxInput /\ inputs' = inputs + 1
  /\ seen' = status
  /\ IF Web
     THEN /\ list' = Opened(Len(stored)) /\ draft' = NoDraft
          /\ calls' = IF Replies THEN <<>> ELSE <<Call("first", 0, 0)>>
          /\ abandoned' = abandoned \union Unposted
     ELSE UNCHANGED <<list, draft, calls, abandoned>>
  /\ UNCHANGED <<setting, stored, status, lost>>

(* The others.                                                             *)
OthersWrite ==
  /\ Len(stored) < MaxOld + MaxNew /\ (status = "COMPLETED" => Reviews)
  /\ stored' = Append(stored, [id |-> Len(stored) + 1, mine |-> FALSE, text |-> 0])
  /\ UNCHANGED <<setting, status, seen, list, draft, calls, abandoned, inputs, lost>>

EventMovesOn ==
  /\ \/ status = "ACTIVE" /\ status' \in {"IN_PROGRESS", "CANCELED"}
     \/ status = "IN_PROGRESS" /\ status' = "COMPLETED"
  /\ UNCHANGED <<setting, stored, seen, list, draft, calls, abandoned, inputs, lost>>

-----------------------------------------------------------------------------
(* The viewer may have reviewed the event long ago.                        *)
Init ==
  /\ client \in {"web", "mobile"} /\ kind \in {"discussion", "replies", "reviews"}
  /\ role \in {"host", "member", "leaver", "guest"}
  /\ \E n \in 0 .. MaxOld, mine \in 0 .. MaxOld :
       /\ mine # 0 => Reviews /\ mine <= n /\ Qualifies
       /\ stored = [i \in 1 .. n |-> [id |-> i, mine |-> i = mine, text |-> 0]]
       /\ list = Opened(n)
  /\ status \in (IF Reviews THEN {"COMPLETED"} ELSE {"ACTIVE", "IN_PROGRESS"})
  /\ seen = status
  /\ draft = NoDraft
  /\ calls = IF Replies THEN <<>> ELSE <<Call("first", 0, 0)>>
  /\ abandoned = {} /\ inputs = 0 /\ lost = 0

User ==
  /\ Len(calls) < MaxCalls
  /\ \/ Retry \/ LoadMore \/ ToggleReplies
     \/ OpenReply \/ CancelReply \/ Write \/ Rate \/ ChooseImage \/ ChangeTabs \/ Submit

System ==
  \/ \E i \in DOMAIN calls : Execute(i) \/ Answer(i) \/ Lose(i)
  \/ \E text \in abandoned : PostAbandoned(text)

Next == User \/ System \/ Refetch \/ OthersWrite \/ EventMovesOn

Spec == Init /\ [][Next]_vars

-----------------------------------------------------------------------------
TypeOK ==
  /\ stored \in Seq(Comment) /\ \A i \in DOMAIN stored : stored[i].id = i
  /\ list.shown \in Seq(Comment) /\ list.next \in Nat /\ list.busy \in {"no", "first", "more"}
  /\ draft.text \in 0 .. MaxInput /\ draft.sending \in BOOLEAN
  /\ inputs \in 0 .. MaxInput /\ lost \in 0 .. MaxLost

IdsShown == {list.shown[k].id : k \in DOMAIN list.shown}

(* What the screen can still bring: by another try, by unfolding replies   *)
(* that never were loaded, or by the next page.                            *)
WithinReach(id) ==
  \/ id \in IdsShown
  \/ "retry" \in ListOffers
  \/ "toggle" \in ListOffers /\ list.shown = <<>>
  \/ "more" \in ListOffers /\ Beyond(stored[id], list.next)
  \/ "toggle" \in ListOffers /\ ~list.open /\ list.next # 0 /\ Beyond(stored[id], list.next)

(* While nothing is under way, every comment there was when the list was   *)
(* last read, and every own one since, is shown or can still be reached,   *)
(* none is shown twice, and those of others are in the server's order.     *)
(* Left out: a list an own comment was put into at the wrong place, one    *)
(* the app failed to load, and the panel of a canceled event.              *)
EverythingCanBeReached ==
  /\ TypeOK
  /\ (calls = <<>> /\ ~list.astray /\ ~PanelHidden) =>
       /\ \A id \in 1 .. list.horizon \union list.own : WithinReach(id)
       /\ Cardinality(IdsShown) = Len(list.shown)
       /\ \A j, k \in DOMAIN list.shown :
            (j < k /\ ~list.shown[j].mine /\ ~list.shown[k].mine) =>
              Beyond(list.shown[k], list.shown[j].id)

(* A draft is gone only when the server has it, when the user rewrites it  *)
(* or opens or discards its form, or in one of two ways the user may not   *)
(* expect: on the website the form of a review goes with its tab, and the  *)
(* page may be fetched anew under any draft.  A review that the server had *)
(* may have been rewritten by what the panel before posted.                *)
DraftSurvives ==
  [][(Held # 0 /\ Held' # Held) =>
       \/ \E i \in DOMAIN stored : stored[i].mine /\ stored[i].text = Held
       \/ \E i \in DOMAIN calls : calls[i].text = Held /\ calls[i].raced
       \/ Write \/ OpenReply \/ CancelReply
       \/ ChangeTabs \/ (Web /\ Refetch)]_vars

(* A comment is stored once, however often and however fast the user       *)
(* presses the button, unless an answer was lost.                          *)
StoredOnce ==
  \A text \in 1 .. MaxInput :
    Cardinality({i \in DOMAIN stored : stored[i].mine /\ stored[i].text = text}) <= 1 + lost
=============================================================================
