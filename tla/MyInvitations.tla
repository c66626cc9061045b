---------------------------- MODULE MyInvitations ----------------------------
(***************************************************************************)
(* The invitations a user has received: the list of cards (a page on both  *)
(* clients, a preview on mobile's profile) and the web's window over the   *)
(* notifications, which shows one invitation.  The host may take an        *)
(* invitation back meanwhile.                                              *)
(***************************************************************************)
EXTENDS Exchange

CONSTANTS NumInvitations,  \* bound: invitations the user has
          MaxSteps         \* bound: reads and acts the user starts

ASSUME InvitationAssumption == NumInvitations \in Nat \ {0} /\ MaxSteps \in Nat

VARIABLES
  face,      \* "page", web "window" or mobile "profile", "event" once left
  invited,   \* the server: the status of each invitation
  cards,     \* the cards of the list, "none" for no card
  pressed,   \* isActionLoading: the card whose buttons are disabled, 0 for none
  window,    \* the web's window
  steps,     \* reads and acts started
  memory     \* what the properties remember

invitationVars == <<face, invited, cards, pressed, window, steps, memory>>

Invitation == 1 .. NumInvitations
Status == {"PENDING", "ACCEPTED", "DECLINED", "CANCELED"}
Answering == {"accept", "decline"}
Lists == {"page", "profile"}

NoCards == [v \in Invitation |-> "none"]
Closed == [id |-> 0, shown |-> 0, status |-> "none", loading |-> FALSE, busy |-> FALSE]

Ask(op, v) == [op |-> op, id |-> v]

Stepping == steps < MaxSteps /\ Bounded /\ steps' = steps + 1

-----------------------------------------------------------------------------
(* What the user does.                                                     *)

(* Mobile refreshes the profile whenever it has the focus, and both lists  *)
(* when they are pulled; the web reads when its access token is renewed.   *)
ReadCards ==
  /\ Stepping /\ face \in Lists
  /\ Send(<<Ask("list", 0)>>)
  /\ UNCHANGED <<face, invited, cards, pressed, window, memory>>

(* A card has buttons while it is pending and not the one acted upon.      *)
Pressable == {v \in Invitation : cards[v] = "PENDING"} \ {pressed}

Press(op, v) ==
  /\ Stepping /\ face \in Lists /\ v \in Pressable
  /\ pressed' = v
  /\ Send(<<Ask(op, v)>>)
  /\ UNCHANGED <<face, invited, cards, window, memory>>

\* Mutant: the window keeps the invitation it has shown before.
OpeningKept(v) == [window EXCEPT !.id = v, !.loading = TRUE]
Opening(v) == [window EXCEPT !.id = v, !.loading = TRUE, !.shown = 0, !.status = "none"]

(* The window lies over the list: it is closed before another is opened.   *)
OpenWindow(v) ==
  /\ Stepping /\ face = "window" /\ window.id = 0
  /\ window' = Opening(v)
  /\ memory' = [memory EXCEPT !.mixed = \E c \in Calls : c.id # v]
  /\ Send(<<Ask("get", v)>>)
  /\ UNCHANGED <<face, invited, cards, pressed>>

CloseWindow ==
  /\ face = "window" /\ window.id # 0
  /\ window' = Closed
  /\ UNCHANGED <<face, invited, cards, pressed, steps, memory, exchange>>

CanAct == ~window.loading /\ ~window.busy /\ window.status = "PENDING"

(* The handlers act upon the invitation the window was opened for.         *)
PressInWindow(op) ==
  /\ Stepping /\ face = "window" /\ window.id # 0 /\ CanAct
  /\ window' = [window EXCEPT !.busy = TRUE]
  /\ Send(<<Ask(op, window.id)>>)
  /\ UNCHANGED <<face, invited, cards, pressed, memory>>

-----------------------------------------------------------------------------
(* The server.                                                             *)

TakeBack(v) ==
  /\ invited[v] = "PENDING"
  /\ invited' = [invited EXCEPT ![v] = "CANCELED"]
  /\ UNCHANGED <<face, cards, pressed, window, steps, memory, exchange>>

Outcome(op) == IF op = "accept" THEN "ACCEPTED" ELSE "DECLINED"

(* Accepting may be refused on grounds that are not modelled: a full or    *)
(* canceled event.                                                         *)
Answers(i) ==
  LET c == sent[i]
  IN  /\ c.op \in Answering
      /\ \/ /\ invited[c.id] = "PENDING"
            /\ invited' = [invited EXCEPT ![c.id] = Outcome(c.op)]
            /\ Executed(i, [call |-> c, ok |-> TRUE, status |-> NoCards])
         \/ /\ invited[c.id] # "PENDING" \/ c.op = "accept"
            /\ UNCHANGED invited
            /\ Executed(i, [call |-> c, ok |-> FALSE, status |-> NoCards])
      /\ UNCHANGED <<face, cards, pressed, window, steps, memory>>

(* Invitations that were taken back are not listed.                        *)
Listing == [v \in Invitation |-> IF invited[v] = "CANCELED" THEN "none" ELSE invited[v]]

Reads(i) ==
  LET c == sent[i]
  IN  /\ c.op \notin Answering
      /\ Executed(i, [call |-> c, ok |-> TRUE, status |-> IF c.op = "list" THEN Listing ELSE invited])
      /\ UNCHANGED invitationVars

-----------------------------------------------------------------------------
(* Answers.                                                                *)

(* Mobile shows only pending cards.                                        *)
Cards(status) ==
  [v \in Invitation |-> IF Mobile /\ status[v] # "PENDING" THEN "none" ELSE status[v]]

(* An answer from before the user's own act has taken effect on screen.    *)
Overtaken(a, vs) == \E v \in memory.told \cap vs : a.status[v] = "PENDING"

ListAnswer(i) ==
  LET a == answers[i]
  IN  /\ face \in Lists /\ a.call.op = "list"
      /\ Received(i)
      /\ cards' = Cards(a.status)
      /\ pressed' = IF a.call.id # 0 THEN 0 ELSE pressed
      /\ memory' = [memory EXCEPT !.crossed = Overtaken(a, Invitation)]
      /\ UNCHANGED <<face, invited, window, steps>>

(* The first answer of a window, and later ones that replace what it       *)
(* shows; after an act the buttons wait for them.                          *)
GetAnswer(i) ==
  LET a == answers[i]
      v == a.call.id
  IN  /\ face = "window" /\ a.call.op \in {"get", "check", "again"}
      /\ Received(i)
      /\ window' = IF a.call.op = "get"
                   THEN [window EXCEPT !.shown = v, !.status = a.status[v], !.loading = FALSE]
                   ELSE [window EXCEPT !.shown = v, !.status = a.status[v], !.busy = FALSE]
      /\ memory' = [memory EXCEPT !.crossed = Overtaken(a, {v})]
      /\ UNCHANGED <<face, invited, cards, pressed, steps>>

SettledCard(c) ==
  [cards EXCEPT ![c.id] = IF @ = "none" \/ Mobile THEN "none" ELSE Outcome(c.op)]

(* The profile is read again after an invitation was accepted, and the     *)
(* buttons wait for it; the web's page leads to the event.                 *)
CardSettled(i) ==
  LET c == answers[i].call
      again == face = "profile" /\ c.op = "accept"
  IN  /\ face \in Lists /\ c.op \in Answering /\ answers[i].ok
      /\ Continued(i, IF again THEN <<Ask("list", c.id)>> ELSE <<>>)
      /\ cards' = SettledCard(c)
      /\ pressed' = IF again THEN pressed ELSE 0
      /\ memory' = [memory EXCEPT !.told = @ \cup {c.id}]
      /\ face' = IF Web /\ c.op = "accept" THEN "event" ELSE face
      /\ UNCHANGED <<invited, window, steps>>

CardRefused(i) ==
  /\ face \in Lists /\ ~answers[i].ok
  /\ Received(i)
  /\ pressed' = 0
  /\ UNCHANGED <<face, invited, cards, window, steps, memory>>

(* Accepting in the window closes it and leads to the event; declining     *)
(* reads the invitation again, and so does a failure.                      *)
WindowAccepted(i) ==
  LET c == answers[i].call
  IN  /\ face = "window" /\ c.op = "accept" /\ answers[i].ok
      /\ Received(i)
      /\ window' = Closed
      /\ face' = "event"
      /\ memory' = [memory EXCEPT !.told = @ \cup {c.id}]
      /\ UNCHANGED <<invited, cards, pressed, steps>>

WindowDeclined(i) ==
  LET c == answers[i].call
  IN  /\ face = "window" /\ c.op = "decline" /\ answers[i].ok
      /\ Continued(i, <<Ask("check", c.id)>>)
      /\ memory' = [memory EXCEPT !.told = @ \cup {c.id}]
      /\ UNCHANGED <<face, invited, cards, pressed, window, steps>>

WindowRefused(i) ==
  /\ face = "window" /\ ~answers[i].ok
  /\ Continued(i, <<Ask("again", answers[i].call.id)>>)
  /\ UNCHANGED invitationVars

(* What comes for a page that has been left is dropped.                    *)
TooLate(i) ==
  /\ face = "event"
  /\ Received(i)
  /\ UNCHANGED invitationVars

(* A call of which the client hears nothing more: the window reads the     *)
(* invitation again, but once; the profile drops its cards.                *)
Retries(c) ==
  IF face = "window" /\ c.op \in Answering \cup {"check"} THEN <<Ask("again", c.id)>> ELSE <<>>

GivesUp(c) ==
  /\ pressed' = IF c.op \in Answering \/ c.id # 0 THEN 0 ELSE pressed
  /\ cards' = IF face = "profile" /\ c.op = "list" THEN NoCards ELSE cards
  /\ window' = [window EXCEPT !.loading = @ /\ c.op # "get", !.busy = @ /\ c.op # "again"]
  /\ memory' = [memory EXCEPT !.crossed = @ \/ c.op = "again"]
  /\ UNCHANGED <<face, invited, steps>>

InvitationCallLost(i) == LoseCall(i, Retries(sent[i])) /\ GivesUp(sent[i])
InvitationAnswerLost(i) == LoseAnswer(i, Retries(answers[i].call)) /\ GivesUp(answers[i].call)

-----------------------------------------------------------------------------
InvitationInit ==
  /\ face \in IF screen # "invitations" THEN {"page"}
              ELSE IF Web THEN {"page", "window"} ELSE {"page", "profile"}
  /\ invited = [v \in Invitation |-> "PENDING"]
  /\ cards = NoCards /\ pressed = 0 /\ window = Closed /\ steps = 0
  /\ memory = [told |-> {}, mixed |-> FALSE, crossed |-> FALSE]

InvitationNext ==
  \/ ReadCards \/ CloseWindow
  \/ \E v \in Invitation : OpenWindow(v) \/ TakeBack(v)
  \/ \E op \in Answering : PressInWindow(op) \/ \E v \in Invitation : Press(op, v)
  \/ \E i \in DOMAIN sent : Answers(i) \/ Reads(i) \/ InvitationCallLost(i)
  \/ \E i \in DOMAIN answers :
       \/ ListAnswer(i) \/ GetAnswer(i) \/ CardSettled(i) \/ CardRefused(i)
       \/ WindowAccepted(i) \/ WindowDeclined(i) \/ WindowRefused(i) \/ TooLate(i)
       \/ InvitationAnswerLost(i)

-----------------------------------------------------------------------------
(* Properties.                                                             *)

(* Once nothing is under way, no invitation whose acceptance or refusal    *)
(* was confirmed to the user is still offered, on a card or in the window. *)
(* Left out: an answer read before the user's act and applied after its    *)
(* confirmation, and a window that could not read the invitation again.    *)
ConfirmedIsNotOffered ==
  Quiet /\ ~memory.crossed =>
    \A v \in memory.told :
      /\ face \in Lists => cards[v] # "PENDING"
      /\ face = "window" /\ window.id # 0 /\ window.shown = v => window.status # "PENDING"

(* The buttons of the window act upon the invitation the user sees in it.  *)
(* Left out: a window opened while a call about another one was under way, *)
(* whose answer is shown in the new window.                                *)
ActsOnWhatIsShown ==
  [][window'.busy /\ ~window.busy => window.shown = window.id \/ memory.mixed]_invitationVars
=============================================================================
