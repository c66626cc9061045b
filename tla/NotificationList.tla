--------------------------- MODULE NotificationList ---------------------------
(***************************************************************************)
(* The notifications of one user in both clients: the list, loaded page by *)
(* page with the newest first, and the badge with the number of unread     *)
(* ones.  What the user does to a row shows at once and is taken back when *)
(* the call fails; the badge follows by events on the web and is read      *)
(* again on mobile when the home screen comes back.                        *)
(***************************************************************************)
EXTENDS Exchange, Ordered

CONSTANTS NumNotes,   \* bound: notifications there can be
          FirstNotes, \* how many there may be at first
          NotePage,   \* PAGE_SIZE
          MaxNoteActs \* bound: reads that are started and what the user does to the list

ASSUME NotificationAssumption ==
  /\ {NumNotes, NotePage} \subseteq Nat \ {0}
  /\ FirstNotes \subseteq 0 .. NumNotes
  /\ MaxNoteActs \in Nat

VARIABLES
  stored,    \* the server: each notification absent, unread, read or deleted
  place,     \* the user is at the "list", at an "event" or at "home"
  visit,     \* how often the list has been opened
  notes,     \* the rows the client holds, newest first
  cursor,    \* next_cursor, 0 for none
  loading,   \* isLoading
  fetching,  \* isRefreshing and isLoadingMore
  badge,     \* the number on the bell
  done,      \* what the user has done, and how much of it was executed
  reads,     \* reads started
  recall     \* what the properties remember

noteVars == <<stored, place, visit, notes, cursor, loading, fetching, badge, done, reads, recall>>

Note == 1 .. NumNotes
Newest == Cardinality({n \in Note : stored[n] # "none"})
There(n) == stored[n] \in {"unread", "read"}
Unread == Cardinality({n \in Note : stored[n] = "unread"})

-----------------------------------------------------------------------------
(* Calls and the rows of an answer.                                        *)

Read(op, from) == [op |-> op, note |-> from, visit |-> visit', nr |-> 0, was |-> <<>>, left |-> <<>>]
Act(op, n, left) ==
  [op |-> op, note |-> n, visit |-> visit, nr |-> done'.begun, was |-> notes, left |-> left]

ListReads == {"initial", "refresh", "more"}
ListActs == {"mark", "markAll", "delete", "deleteAll"}

Row(n) == [id |-> n, read |-> stored[n] = "read"]

NotesAfter(from) ==
  LET rest == Descending({n \in Note : There(n) /\ (from = 0 \/ n < from)})
      full == Len(rest) > NotePage
  IN  [items |-> [i \in 1 .. (IF full THEN NotePage ELSE Len(rest)) |-> Row(rest[i])],
       next  |-> IF full THEN rest[NotePage] ELSE 0]

Ids(rows) == {rows[i].id : i \in DOMAIN rows}
UnreadRows(rows) == {rows[i].id : i \in {j \in DOMAIN rows : ~rows[j].read}}

(* Mobile adds only rows it does not hold yet.                             *)
Joined(op, rows) ==
  CASE op # "more" -> rows
    [] Web         -> notes \o rows
    [] OTHER       -> notes \o Kept(rows, {i \in DOMAIN rows : rows[i].id \notin Ids(notes)})

Marked(ns) == [i \in DOMAIN notes |-> IF notes[i].id \in ns THEN [notes[i] EXCEPT !.read = TRUE]
                                      ELSE notes[i]]
Without(n) == Kept(notes, {i \in DOMAIN notes : notes[i].id # n})

-----------------------------------------------------------------------------
(* Opening and leaving.                                                    *)

Mounted == IF Web THEN place = "list" ELSE place # "home"
OnScreen == place = "list" /\ (Web \/ ~loading \/ "refresh" \in fetching)

MayAct == reads + done.begun < MaxNoteActs /\ Bounded
Asking == MayAct /\ reads' = reads + 1

(* The list as it is before its first answer.                              *)
Emptied ==
  /\ visit' = visit + 1
  /\ notes' = <<>> /\ cursor' = 0 /\ fetching' = {}
  /\ recall' = [recall EXCEPT !.top = 0, !.astray = FALSE]

OpenList ==
  /\ Asking /\ ~Mounted
  /\ place' = "list" /\ loading' = TRUE
  /\ Emptied
  /\ Send(<<Read("initial", 0)>>)
  /\ UNCHANGED <<stored, badge, done>>

(* Mobile: the event closes and the list has the focus again.              *)
Return ==
  /\ Asking /\ Mobile /\ place = "event"
  /\ place' = "list" /\ fetching' = fetching \cup {"refresh"}
  /\ UNCHANGED <<stored, visit, notes, cursor, loading, badge, done, recall>>
  /\ Send(<<Read("refresh", 0)>>)

(* The home screen reads the count when it has the focus.                  *)
GoHome ==
  /\ Asking /\ place = "list"
  /\ place' = "home" /\ loading' = FALSE
  /\ Emptied
  /\ Send(IF Mobile THEN <<Read("count", 0)>> ELSE <<>>)
  /\ UNCHANGED <<stored, badge, done>>

Poll ==
  /\ Asking /\ Web
  /\ UNCHANGED <<stored, place, visit, notes, cursor, loading, fetching, badge, done, recall>>
  /\ Send(<<Read("count", 0)>>)

PullToRefresh ==
  /\ Asking /\ Mobile /\ OnScreen
  /\ fetching' = fetching \cup {"refresh"}
  /\ UNCHANGED <<stored, place, visit, notes, cursor, loading, badge, done, recall>>
  /\ Send(<<Read("refresh", 0)>>)

LoadMore ==
  /\ Asking /\ OnScreen /\ cursor # 0 /\ "more" \notin fetching
  /\ fetching' = fetching \cup {"more"}
  /\ UNCHANGED <<stored, place, visit, notes, cursor, loading, badge, done, recall>>
  /\ Send(<<Read("more", cursor)>>)

(* A new access token: the list is loaded, on mobile also refreshed while  *)
(* it has the focus, and the count is read.                                *)
RenewToken ==
  /\ Asking
  /\ loading' = IF Mounted THEN TRUE ELSE loading
  /\ fetching' = IF Mobile /\ place = "list" THEN fetching \cup {"refresh"} ELSE fetching
  /\ UNCHANGED <<stored, place, visit, notes, cursor, badge, done, recall>>
  /\ Send((IF Mounted THEN <<Read("initial", 0)>> ELSE <<>>)
          \o (IF Mobile /\ place = "list" THEN <<Read("refresh", 0)>> ELSE <<>>)
          \o <<Read("count", 0)>>)

-----------------------------------------------------------------------------
(* What the user does to a row or to all of them.                          *)

Lowered(b) == IF b > 0 THEN b - 1 ELSE 0

(* The rows change before the call is sent; recall.blind: the badge is not *)
(* told, or told from rows that are not the server's.                      *)
Does(op, n, rows, number, told) ==
  /\ MayAct
  /\ done' = [done EXCEPT !.begun = @ + 1]
  /\ notes' = rows
  /\ badge' = IF Web THEN number ELSE badge
  /\ recall' = [recall EXCEPT !.blind = @ \/ Mobile \/ ~told \/ recall.astray]
  /\ Send(<<Act(op, n, rows)>>)
  /\ UNCHANGED <<stored, visit, cursor, loading, fetching, reads>>

(* Where a row leads: to an event or nowhere; on the web an invitation     *)
(* opens a window over the list.                                           *)
MobileLeads == {"list", "event"}
WebTarget == [invitation |-> "list", ofAnEvent |-> "event", general |-> "list"]
WebLeads == Range(WebTarget)

(* A row that is clicked: the web marks only unread ones.                  *)
WebMarks(n) == n \in UnreadRows(notes)
MobileMarks(n) == n \in Ids(notes)

MarkRead(n) ==
  /\ OnScreen /\ IF Web THEN WebMarks(n) ELSE MobileMarks(n)
  /\ Does("mark", n, Marked({n}), Lowered(badge), TRUE)
  /\ place' \in IF Web THEN WebLeads \ {"event"} ELSE MobileLeads

(* The same on the web when the row leads away and the list is unmounted.  *)
MarkAndLeave(n) ==
  /\ Web /\ OnScreen /\ WebMarks(n)
  /\ MayAct
  /\ done' = [done EXCEPT !.begun = @ + 1]
  /\ badge' = Lowered(badge)
  /\ place' \in WebLeads \ {"list"} /\ loading' = FALSE
  /\ visit' = visit + 1 /\ notes' = <<>> /\ cursor' = 0 /\ fetching' = {}
  /\ recall' = [top |-> 0, astray |-> FALSE, blind |-> recall.blind \/ recall.astray]
  /\ Send(<<Act("mark", n, Marked({n}))>>)
  /\ UNCHANGED <<stored, reads>>

LoweredBy(n) == IF n \in UnreadRows(notes) THEN Lowered(badge) ELSE badge

DeleteOne(n) ==
  /\ OnScreen /\ n \in Ids(notes)
  /\ Does("delete", n, Without(n), LoweredBy(n), TRUE)
  /\ UNCHANGED place

(* On mobile the button is above the list and stays while it loads.        *)
MarkAllRead ==
  /\ place = "list" /\ UnreadRows(notes) # {}
  /\ Does("markAll", 0, Marked(Ids(notes)), 0, TRUE)
  /\ UNCHANGED place

(* The badge is told only if a row that is loaded was unread.              *)
DeleteAll ==
  /\ Web /\ place = "list" /\ notes # <<>>
  /\ LET told == UnreadRows(notes) # {}
     IN  Does("deleteAll", 0, <<>>, IF told THEN 0 ELSE badge, told)
  /\ UNCHANGED place

-----------------------------------------------------------------------------
(* The server.                                                             *)

Notify ==
  /\ Newest < NumNotes
  /\ stored' = [stored EXCEPT ![Newest + 1] = "unread"]
  /\ recall' = [recall EXCEPT !.blind = TRUE]
  /\ UNCHANGED <<place, visit, notes, cursor, loading, fetching, badge, done, reads, exchange>>

Changed(c) ==
  CASE c.op = "mark"      -> [stored EXCEPT ![c.note] = IF There(c.note) THEN "read" ELSE @]
    [] c.op = "markAll"   -> [n \in Note |-> IF stored[n] = "unread" THEN "read" ELSE stored[n]]
    [] c.op = "delete"    -> [stored EXCEPT ![c.note] = "deleted"]
    [] c.op = "deleteAll" -> [n \in Note |-> IF There(n) THEN "deleted" ELSE stored[n]]
    [] OTHER              -> stored

(* A deleted notification cannot be marked; deleting it again succeeds.    *)
Accepts(c) == c.op = "mark" => There(c.note)

Settled(c) == done' = IF c.op \in ListActs THEN [done EXCEPT !.settled = @ + 1] ELSE done

Answer(c) ==
  IF c.op \in ListActs THEN [call |-> c, ok |-> Accepts(c)]
  ELSE [call |-> c, ok |-> TRUE, newest |-> Newest, settled |-> done.settled,
        page  |-> IF c.op \in ListReads THEN NotesAfter(c.note) ELSE NotesAfter(1),
        count |-> IF c.op = "count" THEN Unread ELSE 0]

Execute(i) ==
  LET c == sent[i]
  IN  /\ stored' = Changed(c)
      /\ Settled(c)
      /\ Executed(i, Answer(c))
      /\ UNCHANGED <<place, visit, notes, cursor, loading, fetching, badge, reads, recall>>

-----------------------------------------------------------------------------
(* Answers.  The list is astray once an answer that is older than what the *)
(* user has done since was put into it, or two reads of it overlapped.     *)

Old(a) == a.settled # done.begun

Ended(op) ==
  /\ loading' = IF op = "initial" THEN FALSE ELSE loading
  /\ fetching' = fetching \ {op}

PageAnswer(i) ==
  LET a == answers[i]
      first == a.call.op # "more"
  IN  /\ a.call.op \in ListReads /\ a.call.visit = visit
      /\ Received(i)
      /\ notes' = Joined(a.call.op, a.page.items)
      /\ cursor' = a.page.next
      /\ Ended(a.call.op)
      /\ recall' = [recall EXCEPT
           !.top = IF first THEN a.newest ELSE @,
           !.astray = IF first THEN Old(a) \/ "more" \in fetching
                      ELSE @ \/ Old(a) \/ UnderWay({"initial", "refresh"})]
      /\ UNCHANGED <<stored, place, visit, badge, done, reads>>

CountAnswer(i) ==
  LET a == answers[i]
  IN  /\ a.call.op = "count"
      /\ Received(i)
      /\ badge' = a.count
      /\ recall' = [recall EXCEPT !.blind = Old(a) \/ a.newest # Newest]
      /\ UNCHANGED <<stored, place, visit, notes, cursor, loading, fetching, done, reads>>

(* A successful act changes nothing more, and what a list that was left    *)
(* has asked for is dropped.                                               *)
NothingToDo(i) ==
  LET a == answers[i]
  IN  /\ \/ a.call.op \in ListActs /\ a.ok
         \/ a.call.op \in ListReads /\ a.call.visit # visit
      /\ Received(i)
      /\ UNCHANGED noteVars

\* Mutant: nothing is taken back.
KeptAsLeft(c) == notes
(* The web takes back the one mark, everything else the whole list.        *)
Restored(c) ==
  IF Web /\ c.op = "mark"
  THEN [i \in DOMAIN notes |-> IF notes[i].id = c.note THEN [notes[i] EXCEPT !.read = FALSE]
                               ELSE notes[i]]
  ELSE c.was

(* The number on the bell after an act was taken back.                     *)
Raised(c) ==
  LET was == UnreadRows(c.was)
  IN  CASE c.op \in {"mark", "delete"} -> IF c.note \in was THEN badge + 1 ELSE badge
        [] OTHER -> IF was # {} THEN Cardinality(was) ELSE badge

(* certain: the server has not performed the act.                          *)
Rollback(c, certain) ==
  /\ notes' = IF c.visit = visit THEN Restored(c) ELSE notes
  /\ badge' = IF Web THEN Raised(c) ELSE badge
  /\ recall' = [recall EXCEPT
       !.astray = @ \/ (c.visit = visit /\ (notes # c.left \/ c.nr # done.begun \/ ~certain)),
       !.blind = @ \/ ~certain \/ c.nr # done.begun \/ c.op \in {"markAll", "deleteAll"}]
  /\ UNCHANGED <<stored, place, visit, cursor, loading, fetching, reads>>

(* A failed read keeps the list, but for the first one on mobile.          *)
ReadFails(c) ==
  /\ IF c.visit = visit /\ c.op \in ListReads THEN Ended(c.op) ELSE UNCHANGED <<loading, fetching>>
  /\ IF Mobile /\ c.visit = visit /\ c.op = "initial"
     THEN notes' = <<>> /\ recall' = [recall EXCEPT !.top = 0, !.astray = cursor # 0]
     ELSE UNCHANGED <<notes, recall>>
  /\ UNCHANGED <<stored, place, visit, cursor, badge, reads>>

Fails(c, certain) == IF c.op \in ListActs THEN Rollback(c, certain) ELSE ReadFails(c)

Refused(i) ==
  /\ ~answers[i].ok
  /\ Received(i)
  /\ Rollback(answers[i].call, FALSE)
  /\ UNCHANGED done

CallLost(i) == LoseCall(i, <<>>) /\ Settled(sent[i]) /\ Fails(sent[i], TRUE)

AnswerLost(i) ==
  /\ LoseAnswer(i, <<>>)
  /\ Fails(answers[i].call, FALSE)
  /\ UNCHANGED done

-----------------------------------------------------------------------------
NoteInit ==
  /\ stored \in {[n \in Note |-> IF n > k THEN "none" ELSE IF n \in s THEN "unread" ELSE "read"] :
                   k \in IF screen = "notifications" THEN FirstNotes ELSE {0},
                   s \in IF screen = "notifications" THEN SUBSET Note ELSE {{}}}
  /\ place = "home" /\ visit = 0
  /\ notes = <<>> /\ cursor = 0 /\ loading = FALSE /\ fetching = {} /\ badge = 0
  /\ done = [begun |-> 0, settled |-> 0] /\ reads = 0
  /\ recall = [top |-> 0, astray |-> FALSE, blind |-> TRUE]

NoteNext ==
  \/ OpenList \/ Return \/ GoHome \/ Poll \/ PullToRefresh \/ LoadMore \/ RenewToken
  \/ \E n \in Note : MarkRead(n) \/ MarkAndLeave(n) \/ DeleteOne(n)
  \/ MarkAllRead \/ DeleteAll \/ Notify
  \/ \E i \in DOMAIN sent : Execute(i) \/ CallLost(i)
  \/ \E i \in DOMAIN answers :
       PageAnswer(i) \/ CountAnswer(i) \/ NothingToDo(i) \/ Refused(i) \/ AnswerLost(i)

-----------------------------------------------------------------------------
(* Properties.                                                             *)

(* Once nothing is under way, the list shows what the server has: every    *)
(* notification that was there when it was read and has not been deleted   *)
(* is a row or behind the cursor, no deleted one is a row, each row is     *)
(* unread exactly if the notification is, the newest first and none twice; *)
(* also after acts that failed and were taken back.  Left out: a list into *)
(* which an answer older than the user's acts was put, two overlapping     *)
(* reads, an act taken back over a list that has changed since, and an act *)
(* the server performed although the client was told that it failed.       *)
ListMatchesServer ==
  Quiet /\ Mounted /\ ~recall.astray =>
    /\ \A n \in 1 .. recall.top :
         There(n) => n \in Ids(notes) \/ (cursor # 0 /\ n < cursor)
    /\ \A i \in DOMAIN notes : notes[i] = Row(notes[i].id) /\ There(notes[i].id)
    /\ \A i, j \in DOMAIN notes : i < j => notes[i].id > notes[j].id

(* Once nothing is under way, the bell shows the number of unread          *)
(* notifications, which the web keeps by small corrections and mobile by   *)
(* reading it again at home.  Left out, until the next read: notifications *)
(* that came since, clearing a list whose loaded rows were all read, a     *)
(* failed mark-all or clear-all, and a list that is astray.                *)
BadgeMatchesServer == Quiet /\ ~recall.blind => badge = Unread
=============================================================================
