----------------------------- MODULE EventPanels -----------------------------
(***************************************************************************)
(* The panels under an event in both clients: the comments of everybody    *)
(* (EventComments) and the lists its host works on (HostLists).  Each has  *)
(* view-model state of its own and they meet on the server only, so that a *)
(* behaviour follows one of them; the variables of the other keep the      *)
(* values they have on a page without it.                                  *)
(***************************************************************************)
EXTENDS Integers, Sequences

CONSTANTS
  PageSize,                                                    \* of both
  MaxOld, MaxNew, MaxInput, MaxCalls, MaxLost,                 \* of EventComments
  NumRows, FirstRows, MaxActs, MaxMore, MaxWaiting, MaxEvents  \* of HostLists

ASSUME PanelsAssumption ==
  /\ FirstRows \subseteq 0 .. NumRows
  /\ {PageSize, NumRows} \subseteq Nat \ {0}
  /\ {MaxOld, MaxNew, MaxInput, MaxCalls, MaxLost,
      MaxActs, MaxMore, MaxWaiting, MaxEvents} \subseteq Nat

VARIABLES
  panel,                             \* "comments" or "host", never changes
  client, kind, status, seen, list,  \* of both
  role, stored, draft, calls, abandoned, inputs, lost,
  rows, stamp, ready, open, tally, acting, closing, form, kept, inviter,
  sent, answers, acts, asked, events, renewals, history

commentVars == <<role, stored, draft, calls, abandoned, inputs, lost>>
hostVars == <<rows, stamp, ready, open, tally, acting, closing, form, kept, inviter,
              sent, answers, acts, asked, events, renewals, history>>
vars == <<panel, client, kind, status, seen, list, commentVars, hostVars>>

Comments == INSTANCE EventComments
Host == INSTANCE HostLists

-----------------------------------------------------------------------------
NoComments ==
  /\ role = "none" /\ stored = <<>> /\ draft = Comments!NoDraft /\ calls = <<>>
  /\ abandoned = {} /\ inputs = 0 /\ lost = 0

NoHost ==
  /\ rows = <<>> /\ stamp = <<>> /\ ready = FALSE /\ open = FALSE /\ tally = Host!NoCount
  /\ acting = 0 /\ closing = 0 /\ form = Host!NoForm
  /\ kept = Host!NoView /\ inviter = Host!NoView /\ sent = <<>> /\ answers = <<>>
  /\ acts = 0 /\ asked = 0 /\ events = 0 /\ renewals = 0 /\ history = "none"

Init ==
  \/ panel = "comments" /\ Comments!Init /\ NoHost
  \/ panel = "host" /\ Host!Init /\ NoComments

Next ==
  /\ \/ panel = "comments" /\ Comments!Next /\ UNCHANGED hostVars
     \/ panel = "host" /\ Host!Next /\ UNCHANGED commentVars
  /\ UNCHANGED panel

Spec == Init /\ [][Next]_vars

-----------------------------------------------------------------------------
(* The properties of the panels, each stated in full in its module.        *)

(* Every comment that was read is shown once, in order, or within reach,   *)
(* and no comment or review was stored twice for one that was written.     *)
EverythingCanBeReached ==
  panel = "comments" => Comments!StoredOnce /\ Comments!EverythingCanBeReached

(* What was written under the event is lost only to those who discard it,  *)
(* who turn from it to the other tab of the web, or whose page is fetched  *)
(* anew.                                                                   *)
DraftSurvives == Comments!DraftSurvives

(* The host's list shows every row that was read, once, or keeps it within *)
(* reach; what the host settled is no longer offered and no longer counted.*)
HostListIsCurrent == panel = "host" => Host!ListIsComplete /\ Host!HandledIsGone

(* The host's half-written rating outlives whatever else happens.          *)
RatingDraftKept == Host!RatingDraftKept
=============================================================================
