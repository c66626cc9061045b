--------------------------- MODULE EventLifecycle ---------------------------
(***************************************************************************)
(* One event of the backend, with everything that decides who may attend   *)
(* it: the event row, the participation, ticket, join_request and          *)
(* invitation rows of its users, the clock and the status-transition job.  *)
(*                                                                         *)
(* A database transaction (UnitOfWork.RunInTx) is one step.  The reads the *)
(* handlers make BEFORE they open their transaction are steps of their     *)
(* own: JoinEvent, LeaveEvent, RequestJoin and ApproveJoinRequest look at  *)
(* the event first, and what they saw may be stale when they write.  What  *)
(* interleaves inside transactions is the subject of SeatCounting.         *)
(*                                                                         *)
(* The host is not a member of Users: the host's own participation row is  *)
(* excluded from the counters, gets no ticket, and no handler lets the     *)
(* host join or leave.                                                     *)
(***************************************************************************)
EXTENDS Naturals, FiniteSets

CONSTANTS
  Users,            \* everybody except the host
  Eligible,         \* the users who meet the event's age and gender limits
  PrivacyLevels,    \* the levels an event may be created with
  Starts, Ends, Capacities,    \* what the host may choose
  NoEnd, NoLimit,              \* NULL end_time, NULL capacity
  HardStale, SoftStale, Quiet, \* 60 days, 30 days, 7 days
  RequestCooldown,             \* 72 hours
  DeclineCooldown,             \* 14 days
  MaxTime, MaxVersion,         \* bounds of the clock and of version_no
  MaxInflight                  \* bound of the calls under way at once

ASSUME UsersAssumption == IsFiniteSet(Users) /\ Eligible \subseteq Users
ASSUME PrivacyAssumption == PrivacyLevels \subseteq {"PUBLIC", "PROTECTED", "PRIVATE"}
ASSUME ChoiceAssumption ==
  /\ Starts \subseteq Nat /\ Ends \subseteq Nat /\ Capacities \subseteq Nat \ {0}
  /\ NoEnd \notin Nat /\ NoLimit \notin Nat
ASSUME DurationAssumption ==
  /\ HardStale \in Nat /\ SoftStale \in Nat /\ Quiet \in Nat
  /\ RequestCooldown \in Nat /\ DeclineCooldown \in Nat
  /\ MaxTime \in Nat /\ MaxVersion \in Nat /\ MaxInflight \in Nat

VARIABLES
  now,
  privacy,        \* event.privacy_level, never changed after creation
  status,         \* event.status
  version,        \* event.version_no
  start, end,     \* event.start_time, event.end_time
  capacity,       \* event.capacity
  touched,        \* event.updated_at
  part,           \* participation.status, "NONE" when there is no row
  confirmed,      \* participation.last_confirmed_event_version
  leftAt,         \* participation.updated_at of a LEAVED row
  ticket,         \* ticket.status, "NONE" when there is no row
  request,        \* join_request.status, "NONE" when there is no row
  rejectedAt,     \* join_request.updated_at of a REJECTED row
  invitation,     \* invitation.status, "NONE" when there is no row
  declinedAt,     \* invitation.updated_at of a DECLINED row
  inflight,       \* calls between their first read and their transaction
  terms           \* history: the version of the last material change

eventVars  == <<privacy, status, version, start, end, capacity, touched, terms>>
memberVars == <<part, confirmed, leftAt, ticket>>
offerVars  == <<request, rejectedAt, invitation, declinedAt>>
vars == <<now, eventVars, memberVars, offerVars, inflight>>

EventStatus      == {"ACTIVE", "IN_PROGRESS", "CANCELED", "COMPLETED"}
PartStatus       == {"NONE", "APPROVED", "PENDING", "CANCELED", "LEAVED"}
TicketStatus     == {"NONE", "ACTIVE", "PENDING", "EXPIRED", "USED", "CANCELED"}
RequestStatus    == {"NONE", "PENDING", "APPROVED", "REJECTED", "CANCELED"}
\* The code declares EXPIRED invitations too and never writes one.
InvitationStatus == {"NONE", "PENDING", "ACCEPTED", "DECLINED", "CANCELED"}
Call == [op : {"join", "leave", "request", "approve"}, user : Users]

-----------------------------------------------------------------------------
\* What the handlers compute from the rows they read.

Live == status \notin {"CANCELED", "COMPLETED"}

Seated   == {u \in Users : part[u] \in {"APPROVED", "PENDING"}}
Approved == {u \in Users : part[u] = "APPROVED"}

\* Mutant: those who have not reconfirmed yet are forgotten.
RoomBesideApproved == capacity # NoLimit => Cardinality(Approved) < capacity
HasRoom == capacity # NoLimit => Cardinality(Seated) < capacity

\* Mutant: the time of leaving is not compared with the start.
ReactivatableAnyTime(u) == part[u] = "LEAVED"
\* A participant who left before the start may come back on the same row.
Reactivatable(u) == part[u] = "LEAVED" /\ leftAt[u] < start
CanEnter(u)      == part[u] = "NONE" \/ Reactivatable(u)

\* What the bulk statements do to one ticket or participation.
\* Mutants: a misspelt status; a filter without PENDING.
ClosedMisspelt(t)   == IF t \in {"ACTIVE", "PENDING"} THEN "CANCELLED" ELSE t
ClosedActiveOnly(t) == IF t = "ACTIVE" THEN "CANCELED" ELSE t
Closed(t) == IF t \in {"ACTIVE", "PENDING"} THEN "CANCELED" ELSE t
\* Mutant: only the tickets that wait for a confirmation expire.
ExpiredWaitingOnly(t) == IF t = "PENDING" THEN "EXPIRED" ELSE t
Expired(t) == IF t \in {"ACTIVE", "PENDING"} THEN "EXPIRED" ELSE t
\* Mutant: the job starts the event and leaves its participants alone.
AutoApprovedNever(p) == p
AutoApproved(p) == IF p = "PENDING" THEN "APPROVED" ELSE p

\* Mutant: a reactivated row keeps the version confirmed before.
AdmitKeepingVersion(u) ==
  /\ CanEnter(u)
  /\ part'      = [part EXCEPT ![u] = "APPROVED"]
  /\ confirmed' = [confirmed EXCEPT ![u] = IF @ = 0 THEN version ELSE @]
  /\ leftAt'    = [leftAt EXCEPT ![u] = 0]
  /\ ticket'    = [ticket EXCEPT ![u] = "ACTIVE"]

\* Insert or reactivate the participation and its ticket.
Admit(u) ==
  /\ CanEnter(u)
  /\ part'      = [part EXCEPT ![u] = "APPROVED"]
  /\ confirmed' = [confirmed EXCEPT ![u] = version]
  /\ leftAt'    = [leftAt EXCEPT ![u] = 0]
  /\ ticket'    = [ticket EXCEPT ![u] = "ACTIVE"]

\* The two halves of a call.  One that is refused, canceled by the client or cut
\* off by a restart is a call whose second half never happens.
Receive(o, u) ==
  /\ [op |-> o, user |-> u] \notin inflight
  /\ Cardinality(inflight) < MaxInflight
  /\ inflight' = inflight \cup {[op |-> o, user |-> u]}
  /\ UNCHANGED <<now, eventVars, memberVars, offerVars>>

Finish(o, u) ==
  /\ [op |-> o, user |-> u] \in inflight
  /\ inflight' = inflight \ {[op |-> o, user |-> u]}

-----------------------------------------------------------------------------
\* The moment after CreateEvent: version 1, no participant but the host.
Init ==
  /\ now = 0
  /\ privacy \in PrivacyLevels
  /\ status = "ACTIVE" /\ version = 1 /\ terms = 1 /\ touched = 0
  /\ start \in {s \in Starts : s > 0}
  /\ end \in {e \in Ends : e > start} \cup {NoEnd}
  /\ capacity \in Capacities \cup {NoLimit}
  /\ part       = [u \in Users |-> "NONE"]
  /\ confirmed  = [u \in Users |-> 0]
  /\ leftAt     = [u \in Users |-> 0]
  /\ ticket     = [u \in Users |-> "NONE"]
  /\ request    = [u \in Users |-> "NONE"]
  /\ rejectedAt = [u \in Users |-> 0]
  /\ invitation = [u \in Users |-> "NONE"]
  /\ declinedAt = [u \in Users |-> 0]
  /\ inflight   = {}

Tick ==
  /\ now < MaxTime
  /\ now' = now + 1
  /\ UNCHANGED <<eventVars, memberVars, offerVars, inflight>>

-----------------------------------------------------------------------------
\* Direct joins of a PUBLIC event, and leaving.

JoinCheck(u) ==
  /\ Live /\ privacy = "PUBLIC"
  /\ capacity # NoLimit => Cardinality(Approved) < capacity
  /\ u \in Eligible
  /\ Receive("join", u)

JoinEvent(u) ==
  /\ Finish("join", u)
  /\ HasRoom
  /\ Admit(u)
  /\ UNCHANGED <<now, eventVars, offerVars>>

LeaveCheck(u) ==
  /\ Live /\ (end # NoEnd => now < end)
  /\ Receive("leave", u)

LeaveEvent(u) ==
  /\ Finish("leave", u)
  /\ u \in Seated
  /\ part'   = [part EXCEPT ![u] = "LEAVED"]
  /\ leftAt' = [leftAt EXCEPT ![u] = now]
  /\ ticket' = [ticket EXCEPT ![u] = Closed(@)]
  /\ UNCHANGED <<now, eventVars, offerVars, confirmed>>

ReconfirmParticipation(u) ==
  /\ Live
  /\ part[u] = "PENDING"
  /\ part'      = [part EXCEPT ![u] = "APPROVED"]
  /\ confirmed' = [confirmed EXCEPT ![u] = version]
  /\ ticket'    = [ticket EXCEPT ![u] = "ACTIVE"]
  /\ UNCHANGED <<now, eventVars, offerVars, leftAt, inflight>>

-----------------------------------------------------------------------------
\* Join requests for a PROTECTED event.

RequestCheck(u) ==
  /\ Live /\ privacy = "PROTECTED"
  /\ u \in Eligible
  /\ Receive("request", u)

MayRequestAgain(u) ==
  CASE request[u] = "NONE"     -> TRUE
    [] request[u] = "PENDING"  -> FALSE
    [] request[u] = "APPROVED" -> Reactivatable(u)
    [] request[u] = "REJECTED" -> now >= rejectedAt[u] + RequestCooldown
    [] request[u] = "CANCELED" -> TRUE

\* Mutant: somebody who already takes part may ask again.
RequestJoinUnchecked(u) ==
  /\ Finish("request", u)
  /\ MayRequestAgain(u) \/ request[u] = "APPROVED"
  /\ request'    = [request EXCEPT ![u] = "PENDING"]
  /\ rejectedAt' = [rejectedAt EXCEPT ![u] = 0]
  /\ UNCHANGED <<now, eventVars, memberVars, invitation, declinedAt>>

RequestJoin(u) ==
  /\ Finish("request", u)
  /\ CanEnter(u) /\ MayRequestAgain(u)
  /\ request'    = [request EXCEPT ![u] = "PENDING"]
  /\ rejectedAt' = [rejectedAt EXCEPT ![u] = 0]
  /\ UNCHANGED <<now, eventVars, memberVars, invitation, declinedAt>>

ApproveCheck(u) ==
  /\ Live
  /\ request[u] # "NONE"
  /\ Receive("approve", u)

ApproveJoinRequest(u) ==
  /\ Finish("approve", u)
  /\ request[u] = "PENDING"
  /\ HasRoom
  /\ Admit(u)
  /\ request' = [request EXCEPT ![u] = "APPROVED"]
  /\ UNCHANGED <<now, eventVars, rejectedAt, invitation, declinedAt>>

RejectJoinRequest(u) ==
  /\ request[u] = "PENDING"
  /\ request'    = [request EXCEPT ![u] = "REJECTED"]
  /\ rejectedAt' = [rejectedAt EXCEPT ![u] = now]
  /\ UNCHANGED <<now, eventVars, memberVars, invitation, declinedAt, inflight>>

CancelJoinRequest(u) ==
  /\ request[u] = "PENDING"
  /\ request' = [request EXCEPT ![u] = "CANCELED"]
  /\ UNCHANGED <<now, eventVars, memberVars, rejectedAt, invitation, declinedAt,
                 inflight>>

-----------------------------------------------------------------------------
\* Invitations to a PRIVATE event.

Invitable(u) ==
  /\ HasRoom
  /\ CanEnter(u)
  /\ \/ invitation[u] \in {"NONE", "CANCELED"}
     \/ invitation[u] = "DECLINED" /\ now >= declinedAt[u] + DeclineCooldown

\* Of the names in one request, those that pass are invited.
CreateInvitations(S) ==
  /\ privacy = "PRIVATE" /\ Live
  /\ S # {} /\ \A u \in S : Invitable(u)
  /\ invitation' = [u \in Users |-> IF u \in S THEN "PENDING" ELSE invitation[u]]
  /\ declinedAt' = [u \in Users |-> IF u \in S THEN 0 ELSE declinedAt[u]]
  /\ UNCHANGED <<now, eventVars, memberVars, request, rejectedAt, inflight>>

\* Mutant: the event is not read again under the invitation's lock.
AcceptInvitationUnchecked(u) ==
  /\ invitation[u] = "PENDING"
  /\ HasRoom /\ u \in Eligible
  /\ Admit(u)
  /\ invitation' = [invitation EXCEPT ![u] = "ACCEPTED"]
  /\ UNCHANGED <<now, eventVars, request, rejectedAt, declinedAt, inflight>>

AcceptInvitation(u) ==
  /\ invitation[u] = "PENDING"
  /\ Live /\ HasRoom /\ u \in Eligible
  /\ Admit(u)
  /\ invitation' = [invitation EXCEPT ![u] = "ACCEPTED"]
  /\ UNCHANGED <<now, eventVars, request, rejectedAt, declinedAt, inflight>>

DeclineInvitation(u) ==
  /\ invitation[u] = "PENDING"
  /\ invitation' = [invitation EXCEPT ![u] = "DECLINED"]
  /\ declinedAt' = [declinedAt EXCEPT ![u] = now]
  /\ UNCHANGED <<now, eventVars, memberVars, request, rejectedAt, inflight>>

RevokeInvitation(u) ==
  /\ invitation[u] = "PENDING"
  /\ invitation' = [invitation EXCEPT ![u] = "CANCELED"]
  /\ UNCHANGED <<now, eventVars, memberVars, request, rejectedAt, declinedAt,
                 inflight>>

-----------------------------------------------------------------------------
\* The host edits, cancels, completes and checks in.

\* A material edit sends every approved participant back to PENDING.
UpdateEvent(s, e, c, text) ==
  /\ status = "ACTIVE" /\ now < start
  /\ version < MaxVersion
  /\ s > now
  /\ e # NoEnd => e > s
  /\ c \notin {capacity, NoLimit} => c >= Cardinality(Seated)
  /\ <<s, e, c>> # <<start, end, capacity>> \/ text # "same"
  /\ start' = s /\ end' = e /\ capacity' = c
  /\ version' = version + 1
  /\ touched' = now
  /\ IF <<s, e>> # <<start, end>> \/ text = "material"
     THEN /\ terms'  = version'
          /\ part'   = [u \in Users |-> IF part[u] = "APPROVED"
                                        THEN "PENDING" ELSE part[u]]
          /\ ticket' = [u \in Users |->
               IF Approved # {} /\ part'[u] = "PENDING" /\ ticket[u] = "ACTIVE"
               THEN "PENDING" ELSE ticket[u]]
     ELSE UNCHANGED <<terms, part, ticket>>
  /\ UNCHANGED <<now, privacy, status, confirmed, leftAt, offerVars, inflight>>

CancelEvent ==
  /\ status = "ACTIVE"
  /\ status' = "CANCELED"
  /\ part'   = [u \in Users |-> IF part[u] \in {"NONE", "LEAVED"}
                                THEN part[u] ELSE "CANCELED"]
  /\ ticket' = [u \in Users |-> Closed(ticket[u])]
  /\ UNCHANGED <<now, privacy, version, start, end, capacity, touched, terms,
                 confirmed, leftAt, offerVars, inflight>>

\* A confirmed cover image counts as maintenance of the event.
ConfirmEventImageUpload ==
  /\ touched' = now
  /\ UNCHANGED <<now, privacy, status, version, start, end, capacity, terms,
                 memberVars, offerVars, inflight>>

CompleteEvent ==
  /\ Live
  /\ status'  = "COMPLETED"
  /\ touched' = now
  /\ ticket'  = [u \in Users |-> Expired(ticket[u])]
  /\ UNCHANGED <<now, privacy, version, start, end, capacity, terms,
                 part, confirmed, leftAt, offerVars, inflight>>

ScanTicket(u) ==
  /\ Live
  /\ ticket[u] = "ACTIVE" /\ part[u] = "APPROVED"
  /\ ticket' = [ticket EXCEPT ![u] = "USED"]
  /\ UNCHANGED <<now, eventVars, part, confirmed, leftAt, offerVars, inflight>>

-----------------------------------------------------------------------------
\* The job that runs every minute.

EndPassed == end # NoEnd /\ end < now
\* Mutant: only an event nobody touches is closed without an end.
FinishedWhenQuiet ==
  EndPassed \/ (start + SoftStale < now /\ touched + Quiet < now)
Finished ==
  \/ EndPassed
  \/ start + HardStale < now
  \/ start + SoftStale < now /\ touched + Quiet < now

TransitionEventStatuses ==
  /\ Live
  /\ start < now \/ EndPassed
  /\ IF Finished
     THEN /\ status' = "COMPLETED"
          /\ ticket' = [u \in Users |-> Expired(ticket[u])]
          /\ UNCHANGED part
     ELSE /\ status' = "IN_PROGRESS"
          /\ part'   = [u \in Users |-> AutoApproved(part[u])]
          /\ ticket' = [u \in Users |-> IF part'[u] = "APPROVED" /\ ticket[u] = "PENDING"
                                        THEN "ACTIVE" ELSE ticket[u]]
  /\ UNCHANGED <<now, privacy, version, start, end, capacity, touched, terms,
                 confirmed, leftAt, offerVars, inflight>>

-----------------------------------------------------------------------------
UserStep(u) ==
  \/ JoinCheck(u) \/ JoinEvent(u)
  \/ LeaveCheck(u) \/ LeaveEvent(u)
  \/ ReconfirmParticipation(u)
  \/ RequestCheck(u) \/ RequestJoin(u) \/ CancelJoinRequest(u)
  \/ ApproveCheck(u) \/ ApproveJoinRequest(u) \/ RejectJoinRequest(u)
  \/ AcceptInvitation(u) \/ DeclineInvitation(u) \/ RevokeInvitation(u)
  \/ ScanTicket(u)

EditEvent ==
  \E s \in Starts, e \in Ends \cup {NoEnd}, c \in Capacities \cup {NoLimit},
     text \in {"same", "minor", "material"} : UpdateEvent(s, e, c, text)

Next ==
  \/ Tick
  \/ \E u \in Users : UserStep(u)
  \/ \E S \in SUBSET Users : CreateInvitations(S)
  \/ EditEvent
  \/ CancelEvent
  \/ CompleteEvent
  \/ ConfirmEventImageUpload
  \/ TransitionEventStatuses

Spec == Init /\ [][Next]_vars

\* Time passes and the job, which the container restarts with the server, is
\* run again and again; nobody is obliged to do anything.
FairSpec == Spec /\ WF_vars(Tick) /\ WF_vars(TransitionEventStatuses)

-----------------------------------------------------------------------------
\* Every variable holds what its column or the code's enumeration allows.
TypeOK ==
  /\ now \in Nat
  /\ privacy \in PrivacyLevels
  /\ status \in EventStatus
  /\ version \in Nat /\ terms \in Nat /\ touched \in Nat
  /\ start \in Nat /\ end \in Nat \cup {NoEnd} /\ capacity \in Nat \cup {NoLimit}
  /\ part \in [Users -> PartStatus]
  /\ confirmed \in [Users -> Nat]
  /\ leftAt \in [Users -> Nat]
  /\ ticket \in [Users -> TicketStatus]
  /\ request \in [Users -> RequestStatus]
  /\ rejectedAt \in [Users -> Nat]
  /\ invitation \in [Users -> InvitationStatus]
  /\ declinedAt \in [Users -> Nat]
  /\ inflight \subseteq Call

\* The tickets a participation may own.  Six code paths write participations
\* and each writes tickets in a statement of its own, filtered by status; a
\* path that forgot one of them would leave an entrance open to somebody who
\* left, or shut it on somebody approved.
TicketsFor(p) ==
  CASE p = "NONE"     -> {"NONE"}
    [] p = "APPROVED" -> {"ACTIVE", "USED", "EXPIRED"}
    [] p = "PENDING"  -> {"PENDING", "USED", "EXPIRED"}
    [] p = "LEAVED"   -> {"CANCELED", "USED", "EXPIRED"}
    [] p = "CANCELED" -> {"CANCELED", "USED"}

TicketMatchesParticipation ==
  \A u \in Users :
    /\ ticket[u] \in TicketsFor(part[u])
    /\ ticket[u] = "EXPIRED" => status = "COMPLETED"

\* Until the event starts, nobody counts as approved who has not accepted the
\* last material version of it: a join, an approval, an invitation or a
\* reconfirmation that records an older version would break this.  For direct
\* joins it needs the transactions to be serial, as they are here;
\* SeatCounting says what is left when they overlap.
NoApprovalOnStaleTerms ==
  status = "ACTIVE" => \A u \in Approved : confirmed[u] >= terms

\* The seats taken, waiting participants included, never exceed the capacity,
\* whatever the host does with the capacity while people come and go: the rules
\* are right when transactions are serial, as they are here.  What the unlocked
\* counters make of them otherwise is what SeatCounting is about.
SeatsWithinCapacity == capacity # NoLimit => Cardinality(Seated) <= capacity

\* When the job has started the event nobody is left waiting to reconfirm:
\* the status, the participations and the tickets move together.
NobodyWaitsInProgress ==
  status = "IN_PROGRESS" => \A u \in Users : part[u] # "PENDING" /\ ticket[u] # "PENDING"

\* A pending request or invitation can still be honoured: the user is not a
\* participant by another path, nor barred by having left after the start,
\* even when the host moved the start in between.
OpenOfferCanBeHonoured ==
  \A u \in Users :
    request[u] = "PENDING" \/ invitation[u] = "PENDING" => CanEnter(u)

\* Whoever leaves once the event has started stays out, on every path in.
LeftAfterStart(u) == part[u] = "LEAVED" /\ leftAt[u] >= start
LateLeaverStaysOut ==
  [][\A u \in Users : LeftAfterStart(u) => LeftAfterStart(u)']_vars

-----------------------------------------------------------------------------
\* What all of this is for: seats and doors, as Attendance knows them.
SeatOf == [u \in Users |-> CASE part[u] = "APPROVED" -> "in"
                             [] part[u] = "PENDING"  -> "waiting"
                             [] OTHER                -> "none"]

DoorOf == [u \in Users |-> CASE ticket[u] = "ACTIVE" -> "open"
                             [] ticket[u] = "USED"   -> "passed"
                             [] OTHER                -> "shut"]

KeptOut == {u \in Users : part[u] = "CANCELED" \/ LeftAfterStart(u)}

Promise == INSTANCE Attendance
  WITH seat <- SeatOf, door <- DoorOf, barred <- KeptOut, seats <- capacity, over <- ~Live

\* The lifecycle implements Attendance: however joins, approvals, invitations,
\* edits, the host and the job interleave, every step gives or takes one seat,
\* checks one user in, or moves everybody at once, with the doors that belong
\* to the seats; nobody loses a seat to an edit, and the event never ends
\* with a door left open for those who were seated.
AttendanceIsKept == Promise!Spec

\* Once the start has passed the event is closed at last, also one without an
\* end and one whose host keeps it fresh for ever.
StartedEventCloses == start < now ~> ~Live

\* ticket-system.md: canceling an event cancels its non-terminal tickets,
\* completing it expires them.
ClosedEventHasNoOpenTicket ==
  ~Live => \A u \in Users : ticket[u] \notin {"ACTIVE", "PENDING"}

\* The same of a PRIVATE event, where every way in takes the event's lock.
ClosedPrivateEventHasNoOpenTicket ==
  privacy = "PRIVATE" => ClosedEventHasNoOpenTicket
=============================================================================
