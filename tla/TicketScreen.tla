----------------------------- MODULE TicketScreen -----------------------------
(***************************************************************************)
(* Mobile: checking in.  The phone of a participant finds the ticket of an *)
(* event, shows it and asks for a new code again and again; the phone of   *)
(* the host scans the code that is shown.  How the server issues codes is  *)
(* TicketAccess; here are the streams it issues them on, which outlive the *)
(* call of the phone.  A code lives as long as the pause between two polls *)
(* and between two codes of a stream, by the server's clock: the last one  *)
(* may run out at any time.                                                *)
(***************************************************************************)
EXTENDS Exchange

CONSTANTS MaxCodes,      \* bound: codes the server issues
          MaxTicketActs  \* bound: what the participant, the host and others do

ASSUME TicketAssumption == {MaxCodes, MaxTicketActs} \subseteq Nat

VARIABLES
  row,      \* the server: the ticket's status, its last code unless that ran out,
            \* and how many codes were issued
  entry,    \* the screen before: the ticket is found, or of a PUBLIC or other event
  at,       \* the participant is at the "entry" or at the "ticket" screen
  opened,   \* how often the ticket screen was opened
  asks,     \* the participant's calls, with the ticket and the code they got
  pass,     \* ticket, qrToken, isLoading and apiError
  poll,     \* pollingRef, the timers of its loops, ticketStatusIntervalRef
  scan,     \* the host's screen
  acts,     \* what was done so far
  missed    \* the code on the screen need not be the last one, or has run out

ticketVars == <<row, entry, at, opened, asks, pass, poll, scan, acts, missed>>

\* A ticket is ACTIVE, LAPSED (ACTIVE, but its time of access is over), USED or
\* SHUT (PENDING or CANCELED).
OpenTicketState == {"ACTIVE", "LAPSED"}

NotYet == "not yet"
Failed == "failed"
Awaited == -1  \* a code on its way; 0 for none

(* A further call beside those of as; nr tells apart two that are alike.   *)
NewAsk(as, op, time) ==
  [op |-> op, nr |-> CHOOSE n \in 1 .. Cardinality(as) + 1 :
                       /\ \A a \in as : a.op = op => a.nr # n
                       /\ \A m \in 1 .. n - 1 : \E a \in as : a.op = op /\ a.nr = m,
   detail |-> NotYet, code |-> IF op = "poll" THEN Awaited ELSE 0,
   tries |-> 1, alone |-> TRUE, opened |-> time]
With(as, op) == as \cup {NewAsk(as, op, opened)}
Other(a) == asks \ {a}

TicketAct == acts < MaxTicketActs /\ Cardinality(asks) < MaxCalls /\ acts' = acts + 1
StillOpen(a) == at = "ticket" /\ a.opened = opened
Polling == \E a \in asks : a.op = "poll"
Issued(a) == a.code > 0

-----------------------------------------------------------------------------
(* Polling.  A loop finds the place of the phone, reads the ticket and     *)
(* fetches a code, waits ten seconds and starts again; only the timer set  *)
(* last can be canceled.                                                   *)

Off == [on |-> FALSE, timer |-> FALSE, strays |-> 0, watch |-> FALSE]

\* Mutant: the flag of the loop that was stopped stays.
StoppedButOn == [poll EXCEPT !.timer = FALSE, !.watch = FALSE]
Stopped == [poll EXCEPT !.on = FALSE, !.timer = FALSE, !.watch = FALSE]

Scheduled(p) == IF p.timer THEN [p EXCEPT !.strays = @ + 1] ELSE [p EXCEPT !.timer = TRUE]

(* The effect that follows the ticket, after a handler left p and as.      *)
Follows(s, p, as) ==
  IF s = "ACTIVE"
  THEN /\ poll' = [p EXCEPT !.on = TRUE, !.watch = TRUE]
       /\ asks' = IF p.on THEN as ELSE With(as, "locate")
  ELSE /\ poll' = [Stopped EXCEPT !.strays = p.strays]
       /\ asks' = as

TimerFires ==
  /\ poll.timer \/ poll.strays > 0
  /\ Cardinality(asks) < MaxCalls
  /\ poll' = IF poll.timer THEN [poll EXCEPT !.timer = FALSE] ELSE [poll EXCEPT !.strays = @ - 1]
  /\ asks' = IF poll.on THEN With(asks, "locate") ELSE asks
  /\ UNCHANGED <<row, entry, at, opened, pass, scan, acts, missed>>

WatchFires ==
  /\ poll.watch /\ Cardinality(asks) < MaxCalls /\ \A a \in asks : a.op # "status"
  /\ asks' = With(asks, "status")
  /\ UNCHANGED <<row, entry, at, opened, pass, poll, scan, acts, missed>>

(* The calls are made also if polling was stopped meanwhile.  Two polls    *)
(* under way together can bring their codes in either order.               *)
Located(a) ==
  /\ a.op = "locate"
  /\ LET others == {IF b.op = "poll" THEN [b EXCEPT !.alone = FALSE] ELSE b : b \in Other(a)}
     IN  asks' = others \cup {[NewAsk(others, "poll", a.opened) EXCEPT !.alone = ~Polling]}
  /\ UNCHANGED <<row, entry, at, opened, pass, poll, scan, acts, missed>>

(* Without a place the loop waits, also if polling was stopped.            *)
NotLocated(a) ==
  /\ a.op = "locate"
  /\ asks' = Other(a)
  /\ poll' = IF StillOpen(a) THEN Scheduled(poll) ELSE poll
  /\ UNCHANGED <<row, entry, at, opened, pass, scan, acts, missed>>

-----------------------------------------------------------------------------
(* What the participant does.                                              *)

Blank == [shown |-> "none", code |-> 0, loading |-> TRUE, error |-> FALSE]

(* When the screen is opened, and again by the user after a failure.       *)
ReadEntry ==
  /\ at = "entry" /\ entry # "found" /\ asks = {}
  /\ asks' = With({}, "event")
  /\ UNCHANGED <<row, entry, at, opened, pass, poll, scan, acts, missed>>

OpenTicket ==
  /\ TicketAct /\ at = "entry" /\ entry = "found"
  /\ at' = "ticket" /\ opened' = opened + 1
  /\ pass' = Blank /\ poll' = Off
  /\ asks' = asks \cup {NewAsk(asks, "load", opened')}
  /\ UNCHANGED <<row, entry, scan, missed>>

LeaveTicket ==
  /\ at = "ticket"
  /\ at' = "entry" /\ pass' = Blank /\ poll' = Off
  /\ UNCHANGED <<row, entry, opened, asks, scan, acts, missed>>

RefreshTicket ==
  /\ TicketAct /\ at = "ticket" /\ ~pass.loading
  /\ pass.error \/ pass.shown \in OpenTicketState \cup {"none"}
  /\ pass' = Blank /\ poll' = Stopped
  /\ asks' = With(asks, "load")
  /\ UNCHANGED <<row, entry, at, opened, scan, missed>>

(* A new access token: everything stops and starts again.                  *)
RenewTicket ==
  /\ TicketAct /\ at = "ticket"
  /\ pass' = [pass EXCEPT !.loading = TRUE, !.error = FALSE]
  /\ Follows(pass.shown, Stopped, With(asks, "load"))
  /\ UNCHANGED <<row, entry, at, opened, scan, missed>>

-----------------------------------------------------------------------------
(* The server answers the participant's phone.                             *)

ReadTicket(a) ==
  /\ a.detail = NotYet /\ a.op # "locate"
  /\ asks' = Other(a) \cup {[a EXCEPT !.detail = row.status]}
  /\ UNCHANGED <<row, entry, at, opened, pass, poll, scan, acts, missed>>

(* The codes that the phone has or is about to get are no longer good.     *)
CodesAreOld ==
  /\ asks' = {[a EXCEPT !.alone = @ /\ ~Issued(a)] : a \in asks}
  /\ missed' = TRUE

MayIssue == row.status = "ACTIVE" /\ row.issued < MaxCodes
NewCode == [row EXCEPT !.issued = @ + 1, !.code = row.issued + 1]

(* The first code of a stream; the phone hangs up when it has read it.     *)
IssueCode(a) ==
  /\ a.code = Awaited /\ MayIssue
  /\ row' = NewCode
  /\ asks' = Other(a) \cup {[a EXCEPT !.code = row'.code]}
  /\ UNCHANGED <<entry, at, opened, pass, poll, scan, acts, missed>>

(* Every ten seconds a stream that was opened stores a further code before *)
(* it writes it.  The phone reads none of them.  Only a write that fails   *)
(* ends the stream, or a tick at which no code may be issued: how often it *)
(* gets so far is left open.                                               *)
StreamIssues ==
  /\ row.issued > 0 /\ MayIssue
  /\ row' = NewCode
  /\ CodesAreOld
  /\ UNCHANGED <<entry, at, opened, pass, poll, scan, acts>>

CodeRunsOut ==
  /\ row.code # 0
  /\ row' = [row EXCEPT !.code = 0]
  /\ CodesAreOld
  /\ UNCHANGED <<entry, at, opened, pass, poll, scan, acts>>

(* The phone is too far away, or the ticket is not open.                   *)
RefuseCode(a) ==
  /\ a.code = Awaited
  /\ asks' = Other(a) \cup {[a EXCEPT !.code = 0]}
  /\ UNCHANGED <<row, entry, at, opened, pass, poll, scan, acts, missed>>

AskLost(a) ==
  /\ Lose
  /\ \/ a.op # "locate" /\ a.detail = NotYet
        /\ asks' = Other(a) \cup {[a EXCEPT !.detail = Failed]} /\ UNCHANGED missed
     \/ Issued(a)
        /\ asks' = Other(a) \cup {[a EXCEPT !.code = 0]} /\ missed' = TRUE
  /\ UNCHANGED <<row, entry, at, opened, pass, poll, scan, acts>>

-----------------------------------------------------------------------------
(* Answers.                                                                *)

Answered(a, op) == a.op = op /\ a.detail # NotYet /\ a.code # Awaited

(* The tickets are read up to three times if the ticket of a PUBLIC event  *)
(* is missing; a list that cannot be read counts as empty.                 *)
EventAnswer(a) ==
  /\ Answered(a, "event")
  /\ asks' = IF a.detail = Failed THEN Other(a) ELSE With(Other(a), "list")
  /\ UNCHANGED <<row, entry, at, opened, pass, poll, scan, acts, missed>>

TicketsAnswer(a) ==
  /\ Answered(a, "list")
  /\ LET failed == a.detail = Failed
         again == failed /\ entry = "PUBLIC" /\ a.tries < 3
     IN  /\ asks' = IF again THEN Other(a) \cup {[a EXCEPT !.detail = NotYet, !.tries = @ + 1]}
                    ELSE Other(a)
         /\ entry' = IF failed THEN entry ELSE "found"
  /\ UNCHANGED <<row, at, opened, pass, poll, scan, acts, missed>>

(* The ticket has come; that the event is read next, for its picture, is   *)
(* left out.                                                               *)
LoadAnswer(a) ==
  /\ Answered(a, "load") /\ StillOpen(a)
  /\ IF a.detail = Failed
     THEN /\ pass' = [pass EXCEPT !.loading = FALSE, !.error = TRUE]
          /\ asks' = Other(a) /\ UNCHANGED poll
     ELSE /\ pass' = [pass EXCEPT !.shown = a.detail, !.loading = FALSE]
          /\ Follows(a.detail, poll, Other(a))
  /\ UNCHANGED <<row, entry, at, opened, scan, acts, missed>>

StatusAnswer(a) ==
  /\ Answered(a, "status") /\ StillOpen(a)
  /\ IF a.detail = Failed
     THEN asks' = Other(a) /\ UNCHANGED <<pass, poll>>
     ELSE /\ pass' = [pass EXCEPT !.shown = a.detail,
                        !.code = IF a.detail \in OpenTicketState THEN @ ELSE 0]
          /\ Follows(a.detail, poll, Other(a))
  /\ UNCHANGED <<row, entry, at, opened, scan, acts, missed>>

(* Both calls of a poll have ended.  A ticket that is not ACTIVE ends the  *)
(* loop; otherwise the code is shown and the next poll is scheduled.       *)
PollAnswer(a) ==
  LET ends == a.detail \notin OpenTicketState \cup {Failed}
      shows == Issued(a) /\ ~ends
      next == IF poll.on /\ ~ends THEN Scheduled(poll) ELSE poll
  IN  /\ Answered(a, "poll") /\ StillOpen(a)
      /\ pass' = [pass EXCEPT !.shown = IF a.detail = Failed THEN @ ELSE a.detail,
                              !.code = IF shows THEN a.code ELSE @]
      /\ missed' = IF shows THEN ~a.alone ELSE missed \/ Issued(a)
      /\ IF a.detail = Failed
         THEN poll' = next /\ asks' = Other(a)
         ELSE Follows(a.detail, next, Other(a))
      /\ UNCHANGED <<row, entry, at, opened, scan, acts>>

(* The screen that asked is gone.                                          *)
ScreenGone(a) ==
  /\ a.op \in {"load", "status", "poll"} /\ Answered(a, a.op)
  /\ ~StillOpen(a)
  /\ asks' = Other(a)
  /\ missed' = (missed \/ Issued(a))
  /\ UNCHANGED <<row, entry, at, opened, pass, poll, scan, acts>>

-----------------------------------------------------------------------------
(* The host's phone.                                                       *)

NoScan == [paused |-> FALSE, busy |-> FALSE, calls |-> <<>>, result |-> "none", sure |-> FALSE]

CodeIsShown ==
  at = "ticket" /\ ~pass.loading /\ ~pass.error /\ pass.shown \in OpenTicketState /\ pass.code # 0

\* Mutant: the camera goes on while a code is being checked.
MayScanStill == scan.result = "none"
MayScan == ~scan.paused /\ ~scan.busy /\ scan.result = "none"

(* sure: the ticket is open, and the code is the last one as far as the    *)
(* participant's phone can know.                                           *)
ScanCode ==
  /\ acts < MaxTicketActs /\ acts' = acts + 1
  /\ MayScan /\ CodeIsShown /\ Len(scan.calls) < MaxCalls
  /\ scan' = [scan EXCEPT !.paused = TRUE, !.busy = TRUE, !.result = "none",
       !.calls = Append(@, [code |-> pass.code, last |-> row.code, outcome |-> NotYet,
                            sure |-> row.status = "ACTIVE" /\ ~missed /\ ~Polling])]
  /\ UNCHANGED <<row, entry, at, opened, asks, pass, poll, missed>>

CheckCode(j) ==
  LET c == scan.calls[j]
      ok == row.status = "ACTIVE" /\ c.code = row.code
  IN  /\ c.outcome = NotYet
      /\ row' = IF ok THEN [row EXCEPT !.status = "USED"] ELSE row
      /\ scan' = [scan EXCEPT
           !.calls[j].outcome = IF ok THEN "accepted" ELSE "rejected",
           !.calls[j].sure = @ /\ row.status \in {"ACTIVE", "USED"} /\ c.last = row.code]
      /\ UNCHANGED <<entry, at, opened, asks, pass, poll, acts, missed>>

ScanLost(j) ==
  /\ Lose /\ scan.calls[j].outcome # Failed
  /\ scan' = [scan EXCEPT !.calls[j].outcome = Failed]
  /\ UNCHANGED <<row, entry, at, opened, asks, pass, poll, acts, missed>>

(* An error does not replace a code that was accepted.                     *)
ScanAnswer(j) ==
  LET c == scan.calls[j]
  IN  /\ c.outcome # NotYet
      /\ scan' = [scan EXCEPT !.busy = FALSE, !.calls = RemoveAt(@, j), !.sure = c.sure,
           !.result = IF c.outcome = Failed /\ @ = "accepted" THEN @ ELSE c.outcome]
      /\ UNCHANGED <<row, entry, at, opened, asks, pass, poll, acts, missed>>

ScanAnother ==
  /\ scan.result # "none" /\ ~scan.busy
  /\ scan' = [NoScan EXCEPT !.calls = scan.calls]
  /\ UNCHANGED <<row, entry, at, opened, asks, pass, poll, acts, missed>>

-----------------------------------------------------------------------------
(* The event is edited and reconfirmed, canceled and joined again, or over *)
(* (EventLifecycle).  A ticket that opens again has no code.               *)
TicketChanges ==
  /\ acts < MaxTicketActs /\ acts' = acts + 1
  /\ \/ row.status = "ACTIVE"
        /\ \E s \in {"LAPSED", "SHUT"} : row' = [row EXCEPT !.status = s]
        /\ UNCHANGED <<asks, missed>>
     \/ row.status = "SHUT"
        /\ row' = [row EXCEPT !.status = "ACTIVE", !.code = 0]
        /\ missed' = TRUE
        /\ asks' = {[a EXCEPT !.alone = FALSE] : a \in asks}
  /\ UNCHANGED <<entry, at, opened, pass, poll, scan>>

TicketInit ==
  /\ row = [status |-> "ACTIVE", code |-> 0, issued |-> 0]
  /\ entry \in IF screen = "tickets" THEN {"PUBLIC", "other"} ELSE {"other"}
  /\ at = "entry" /\ opened = 0 /\ pass = Blank /\ poll = Off
  /\ asks = {} /\ scan = NoScan /\ acts = 0 /\ missed = FALSE

TicketNext ==
  /\ \/ /\ UNCHANGED lost
        /\ \/ ReadEntry \/ OpenTicket \/ LeaveTicket \/ RefreshTicket \/ RenewTicket
           \/ TimerFires \/ WatchFires \/ TicketChanges \/ ScanCode \/ ScanAnother
           \/ StreamIssues \/ CodeRunsOut
           \/ \E a \in asks :
                \/ Located(a) \/ NotLocated(a) \/ ReadTicket(a) \/ IssueCode(a) \/ RefuseCode(a)
                \/ EventAnswer(a) \/ TicketsAnswer(a) \/ LoadAnswer(a) \/ StatusAnswer(a)
                \/ PollAnswer(a) \/ ScreenGone(a)
           \/ \E j \in DOMAIN scan.calls : CheckCode(j) \/ ScanAnswer(j)
     \/ \E a \in asks : AskLost(a)
     \/ \E j \in DOMAIN scan.calls : ScanLost(j)
  /\ UNCHANGED <<sent, answers>>

-----------------------------------------------------------------------------
(* Properties.                                                             *)

(* A ticket that is shown as open keeps asking for codes and for what has  *)
(* become of it: polling is on and some loop is alive, in a call or        *)
(* waiting, whatever was refreshed, renewed, lost or answered late, and    *)
(* however many loops of earlier turns go on beside it.                    *)
Looping ==
  \/ \E a \in asks : a.op \in {"locate", "poll"} /\ StillOpen(a)
  \/ poll.timer
  \/ poll.strays > 0

OpenTicketKeepsAsking ==
  at = "ticket" /\ pass.shown = "ACTIVE" => poll.on /\ poll.watch /\ Looping

(* A code that the host scans while the ticket is open and no poll is      *)
(* under way is accepted, and the host is told so: the code on the screen  *)
(* is the last one issued, and nothing scans it a second time meanwhile.   *)
(* Left out: an answer with a code that was lost, polls that overlapped, a *)
(* code issued on a stream that the phone no longer reads, a code that ran *)
(* out before the check, and a ticket that changes or gets a new code      *)
(* before it.                                                              *)
GoodCodeIsAccepted == scan.result = "rejected" => ~scan.sure
=============================================================================
