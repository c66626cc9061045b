------------------------- MODULE TicketAccessProofs -------------------------
(***************************************************************************)
(* Proofs about the lifecycle of an event and the access to its tickets.   *)
(* The first part is about EventLifecycle, for any finite set of users,    *)
(* any choice of dates and capacities, and any bound: its invariants and   *)
(* action properties, and that it implements Attendance.  The steps of     *)
(* TicketAccess are steps of EventLifecycle that also say what happens to  *)
(* the ticket's expiry and its tokens, so what is proved of the lifecycle  *)
(* holds there too, and the new columns are all that is left to argue      *)
(* about in the second part.                                               *)
(***************************************************************************)
EXTENDS TicketAccess, FiniteSetTheorems, TLAPS


-----------------------------------------------------------------------------
(* The lifecycle of an event.                                              *)

\* A new event has the types of its columns.
LEMMA InitTyped == Init => TypeOK
BY ChoiceAssumption DEF Init, TypeOK, EventStatus, PartStatus, TicketStatus, RequestStatus,
       InvitationStatus, Call

\* No step of the lifecycle breaks the types.
LEMMA TypePreserved == TypeOK /\ [Next]_vars => TypeOK'
<1> SUFFICES ASSUME TypeOK, [Next]_vars PROVE TypeOK'
  OBVIOUS
<1> USE DEF TypeOK, EventStatus, PartStatus, TicketStatus, RequestStatus, InvitationStatus, Call
<1>1. CASE Tick
  BY <1>1 DEF Tick, eventVars, memberVars, offerVars
<1>2. ASSUME NEW u \in Users, UserStep(u) PROVE TypeOK'
  <2> USE DEF eventVars, memberVars, offerVars
  <2>1. CASE JoinCheck(u) \/ LeaveCheck(u) \/ RequestCheck(u) \/ ApproveCheck(u)
    BY <2>1 DEF JoinCheck, LeaveCheck, RequestCheck, ApproveCheck, Receive
  <2>2. CASE JoinEvent(u) \/ ApproveJoinRequest(u) \/ AcceptInvitation(u)
    BY <2>2 DEF JoinEvent, ApproveJoinRequest, AcceptInvitation, Admit, Finish
  <2>3. CASE LeaveEvent(u)
    BY <2>3 DEF LeaveEvent, Finish, Closed
  <2>4. CASE ReconfirmParticipation(u)
    BY <2>4 DEF ReconfirmParticipation
  <2>5. CASE RequestJoin(u) \/ CancelJoinRequest(u) \/ RejectJoinRequest(u)
    BY <2>5 DEF RequestJoin, CancelJoinRequest, RejectJoinRequest, Finish
  <2>6. CASE DeclineInvitation(u) \/ RevokeInvitation(u)
    BY <2>6 DEF DeclineInvitation, RevokeInvitation
  <2>7. CASE ScanTicket(u)
    BY <2>7 DEF ScanTicket
  <2> QED
    BY <1>2, <2>1, <2>2, <2>3, <2>4, <2>5, <2>6, <2>7 DEF UserStep
<1>3. ASSUME NEW S \in SUBSET Users, CreateInvitations(S) PROVE TypeOK'
  BY <1>3 DEF CreateInvitations, eventVars, memberVars
<1>4. CASE EditEvent
  BY <1>4, ChoiceAssumption DEF EditEvent, UpdateEvent, offerVars
<1>5. CASE CancelEvent
  BY <1>5 DEF CancelEvent, offerVars, Closed
<1>6. CASE CompleteEvent
  BY <1>6 DEF CompleteEvent, offerVars, Expired
<1>7. CASE ConfirmEventImageUpload
  BY <1>7 DEF ConfirmEventImageUpload, memberVars, offerVars
<1>8. CASE TransitionEventStatuses
  BY <1>8 DEF TransitionEventStatuses, offerVars, Expired, AutoApproved
<1>9. CASE UNCHANGED vars
  BY <1>9 DEF vars, eventVars, memberVars, offerVars
<1> QED
  BY <1>1, <1>2, <1>3, <1>4, <1>5, <1>6, <1>7, <1>8, <1>9 DEF Next

\* Every variable of the lifecycle keeps its type, whatever the handlers and
\* the job do and in whatever order.
THEOREM TypeCorrect == Spec => []TypeOK
BY InitTyped, TypePreserved, PTL DEF Spec

-----------------------------------------------------------------------------
\* Versions and times only refer to the past: the last material change has a
\* version the event has reached, and whoever left did so by now.
PastOnly ==
  /\ terms <= version
  /\ \A u \in Users : leftAt[u] <= now

\* No handler records a version or a time that is still to come.
LEMMA PastOnlyCorrect == Spec => []PastOnly
<1>1. Init => PastOnly
  BY DEF Init, PastOnly
<1>2. TypeOK /\ PastOnly /\ [Next]_vars => PastOnly'
  <2> SUFFICES ASSUME TypeOK, PastOnly, [Next]_vars PROVE PastOnly'
    OBVIOUS
  <2> USE DEF PastOnly, TypeOK
  <2>1. CASE Tick
    BY <2>1 DEF Tick, eventVars, memberVars
  <2>2. ASSUME NEW u \in Users, UserStep(u) PROVE PastOnly'
    <3> USE DEF eventVars, memberVars
    <3>1. CASE JoinEvent(u) \/ ApproveJoinRequest(u) \/ AcceptInvitation(u)
      BY <3>1 DEF JoinEvent, ApproveJoinRequest, AcceptInvitation, Admit
    <3>2. CASE LeaveEvent(u)
      BY <3>2 DEF LeaveEvent
    <3>3. CASE ReconfirmParticipation(u) \/ ScanTicket(u)
      BY <3>3 DEF ReconfirmParticipation, ScanTicket
    <3>4. CASE UNCHANGED <<now, eventVars, memberVars>>
      BY <3>4
    <3> QED
      BY <2>2, <3>1, <3>2, <3>3, <3>4
         DEF UserStep, JoinCheck, LeaveCheck, RequestCheck, ApproveCheck, Receive,
             RequestJoin, CancelJoinRequest, RejectJoinRequest, DeclineInvitation,
             RevokeInvitation
  <2>3. CASE EditEvent
    BY <2>3 DEF EditEvent, UpdateEvent
  <2>4. CASE UNCHANGED <<now, version, terms, leftAt>>
    BY <2>4
  <2> QED
    BY <2>1, <2>2, <2>3, <2>4
       DEF Next, vars, eventVars, memberVars, CreateInvitations, CancelEvent,
           CompleteEvent, ConfirmEventImageUpload, TransitionEventStatuses
<1> QED
  BY <1>1, <1>2, TypeCorrect, PTL DEF Spec

\* Each privacy level has its own way in: direct joins belong to PUBLIC events,
\* requests to PROTECTED ones, invitations to PRIVATE ones.
OwnWayIn ==
  /\ \A u \in Users : request[u] # "NONE" => privacy = "PROTECTED"
  /\ \A u \in Users : invitation[u] # "NONE" => privacy = "PRIVATE"
  /\ \A k \in inflight : k.op = "join" => privacy = "PUBLIC"
  /\ \A k \in inflight : k.op = "request" => privacy = "PROTECTED"

\* The privacy level never changes, so neither does the way in.
LEMMA OwnWayInCorrect == Spec => []OwnWayIn
<1>1. Init => OwnWayIn
  BY DEF Init, OwnWayIn
<1>2. TypeOK /\ OwnWayIn /\ [Next]_vars => OwnWayIn'
  <2> SUFFICES ASSUME TypeOK, OwnWayIn, [Next]_vars PROVE OwnWayIn'
    OBVIOUS
  <2> USE DEF OwnWayIn, TypeOK
  <2>1. ASSUME NEW u \in Users, UserStep(u) PROVE OwnWayIn'
    <3> USE DEF eventVars, offerVars
    <3>1. CASE JoinCheck(u) \/ LeaveCheck(u) \/ RequestCheck(u) \/ ApproveCheck(u)
      BY <3>1 DEF JoinCheck, LeaveCheck, RequestCheck, ApproveCheck, Receive
    <3>2. CASE RequestJoin(u)
      BY <3>2 DEF RequestJoin, Finish
    <3>3. CASE CancelJoinRequest(u) \/ RejectJoinRequest(u)
      BY <3>3 DEF CancelJoinRequest, RejectJoinRequest
    <3>4. CASE ApproveJoinRequest(u)
      BY <3>4 DEF ApproveJoinRequest, Finish
    <3>5. CASE AcceptInvitation(u) \/ DeclineInvitation(u) \/ RevokeInvitation(u)
      BY <3>5 DEF AcceptInvitation, DeclineInvitation, RevokeInvitation
    <3>6. CASE JoinEvent(u) \/ LeaveEvent(u)
      BY <3>6 DEF JoinEvent, LeaveEvent, Finish
    <3>7. CASE ReconfirmParticipation(u) \/ ScanTicket(u)
      BY <3>7 DEF ReconfirmParticipation, ScanTicket
    <3> QED
      BY <2>1, <3>1, <3>2, <3>3, <3>4, <3>5, <3>6, <3>7 DEF UserStep
  <2>2. ASSUME NEW S \in SUBSET Users, CreateInvitations(S) PROVE OwnWayIn'
    BY <2>2 DEF CreateInvitations, eventVars
  <2>3. CASE UNCHANGED <<privacy, request, invitation, inflight>>
    BY <2>3
  <2> QED
    BY <2>1, <2>2, <2>3
       DEF Next, vars, eventVars, offerVars, Tick, EditEvent, UpdateEvent, CancelEvent,
           CompleteEvent, ConfirmEventImageUpload, TransitionEventStatuses
<1> QED
  BY <1>1, <1>2, TypeCorrect, PTL DEF Spec

-----------------------------------------------------------------------------
\* The steps that leave the members and the status of the event alone.
Bystander == UNCHANGED <<status, part, ticket>>

\* First reads, requests and refusals touch no member and no event column.
LEMMA QuietSteps ==
  ASSUME NEW u \in Users,
         \/ JoinCheck(u) \/ LeaveCheck(u) \/ RequestCheck(u) \/ ApproveCheck(u)
         \/ RequestJoin(u) \/ CancelJoinRequest(u) \/ RejectJoinRequest(u)
         \/ DeclineInvitation(u) \/ RevokeInvitation(u)
  PROVE  UNCHANGED <<now, eventVars, memberVars>>
BY DEF JoinCheck, LeaveCheck, RequestCheck, ApproveCheck, Receive, RequestJoin,
       CancelJoinRequest, RejectJoinRequest, DeclineInvitation, RevokeInvitation

\* The ticket of a participation is one the participation may own, on every
\* path that writes one of the two, and tickets expire only with the event.
THEOREM TicketsFollowParticipations == Spec => []TicketMatchesParticipation
<1>1. Init => TicketMatchesParticipation
  BY DEF Init, TicketMatchesParticipation, TicketsFor
<1>2. TypeOK /\ TicketMatchesParticipation /\ [Next]_vars => TicketMatchesParticipation'
  <2> SUFFICES ASSUME TypeOK, TicketMatchesParticipation, [Next]_vars
               PROVE  TicketMatchesParticipation'
    OBVIOUS
  <2> USE DEF TicketMatchesParticipation, TicketsFor, TypeOK, PartStatus, TicketStatus
  <2>1. ASSUME NEW u \in Users, UserStep(u) PROVE TicketMatchesParticipation'
    <3>1. CASE JoinEvent(u) \/ ApproveJoinRequest(u) \/ AcceptInvitation(u)
      BY <3>1 DEF JoinEvent, ApproveJoinRequest, AcceptInvitation, Admit, eventVars
    <3>2. CASE LeaveEvent(u)
      BY <3>2 DEF LeaveEvent, Seated, Closed, eventVars
    <3>3. CASE ReconfirmParticipation(u)
      BY <3>3 DEF ReconfirmParticipation, eventVars
    <3>4. CASE ScanTicket(u)
      BY <3>4 DEF ScanTicket, eventVars
    <3>5. CASE Bystander
      BY <3>5 DEF Bystander
    <3> QED
      BY <2>1, <3>1, <3>2, <3>3, <3>4, <3>5, QuietSteps
         DEF UserStep, Bystander, eventVars, memberVars
  <2>2. CASE EditEvent
    BY <2>2 DEF EditEvent, UpdateEvent, Approved
  <2>3. CASE CancelEvent
    BY <2>3 DEF CancelEvent, Closed
  <2>4. CASE CompleteEvent
    BY <2>4 DEF CompleteEvent, Expired
  <2>5. CASE TransitionEventStatuses
    BY <2>5 DEF TransitionEventStatuses, Expired, AutoApproved, Live
  <2>6. CASE Bystander
    BY <2>6 DEF Bystander
  <2> QED
    BY <2>1, <2>2, <2>3, <2>4, <2>5, <2>6
       DEF Next, Bystander, vars, eventVars, memberVars, Tick, CreateInvitations,
           ConfirmEventImageUpload
<1> QED
  BY <1>1, <1>2, TypeCorrect, PTL DEF Spec

\* While the event is ACTIVE whoever is approved has accepted its last material
\* version: with serial transactions no edit slips past a participant.
THEOREM ApprovalIsCurrent == Spec => []NoApprovalOnStaleTerms
<1>1. Init => NoApprovalOnStaleTerms
  BY DEF Init, NoApprovalOnStaleTerms, Approved
<1>2. TypeOK /\ PastOnly /\ NoApprovalOnStaleTerms /\ [Next]_vars => NoApprovalOnStaleTerms'
  <2> SUFFICES ASSUME TypeOK, PastOnly, NoApprovalOnStaleTerms, [Next]_vars
               PROVE  NoApprovalOnStaleTerms'
    OBVIOUS
  <2> USE DEF NoApprovalOnStaleTerms, Approved, TypeOK
  <2>1. ASSUME NEW u \in Users, UserStep(u) PROVE NoApprovalOnStaleTerms'
    <3> USE DEF eventVars
    <3>1. CASE JoinEvent(u) \/ ApproveJoinRequest(u) \/ AcceptInvitation(u)
      BY <3>1 DEF JoinEvent, ApproveJoinRequest, AcceptInvitation, Admit, PastOnly
    <3>2. CASE LeaveEvent(u)
      BY <3>2 DEF LeaveEvent
    <3>3. CASE ReconfirmParticipation(u)
      BY <3>3 DEF ReconfirmParticipation, PastOnly
    <3>4. CASE ScanTicket(u)
      BY <3>4 DEF ScanTicket
    <3>5. CASE UNCHANGED <<eventVars, memberVars>>
      BY <3>5 DEF memberVars
    <3> QED
      BY <2>1, <3>1, <3>2, <3>3, <3>4, <3>5, QuietSteps DEF UserStep
  <2>2. CASE EditEvent
    BY <2>2 DEF EditEvent, UpdateEvent
  <2>3. CASE status' # "ACTIVE"
    BY <2>3
  <2>4. CASE UNCHANGED <<status, terms, part, confirmed>>
    BY <2>4
  <2> QED
    BY <2>1, <2>2, <2>3, <2>4
       DEF Next, vars, eventVars, memberVars, Tick, CreateInvitations, CancelEvent,
           CompleteEvent, ConfirmEventImageUpload, TransitionEventStatuses
<1> QED
  BY <1>1, <1>2, TypeCorrect, PastOnlyCorrect, PTL DEF Spec

\* Once the job has started the event nobody waits to reconfirm, and nobody
\* becomes a waiting participant again.
THEOREM StartReleasesEverybody == Spec => []NobodyWaitsInProgress
<1>1. Init => NobodyWaitsInProgress
  BY DEF Init, NobodyWaitsInProgress
<1>2. TypeOK /\ TicketMatchesParticipation /\ NobodyWaitsInProgress /\ [Next]_vars
        => NobodyWaitsInProgress'
  <2> SUFFICES ASSUME TypeOK, TicketMatchesParticipation, NobodyWaitsInProgress, [Next]_vars
               PROVE  NobodyWaitsInProgress'
    OBVIOUS
  <2> USE DEF NobodyWaitsInProgress, TypeOK
  <2>1. ASSUME NEW u \in Users, UserStep(u) PROVE NobodyWaitsInProgress'
    <3> USE DEF eventVars
    <3>1. CASE JoinEvent(u) \/ ApproveJoinRequest(u) \/ AcceptInvitation(u)
      BY <3>1 DEF JoinEvent, ApproveJoinRequest, AcceptInvitation, Admit
    <3>2. CASE LeaveEvent(u)
      BY <3>2 DEF LeaveEvent, Closed
    <3>3. CASE ReconfirmParticipation(u)
      BY <3>3 DEF ReconfirmParticipation
    <3>4. CASE ScanTicket(u)
      BY <3>4 DEF ScanTicket
    <3>5. CASE Bystander
      BY <3>5 DEF Bystander
    <3> QED
      BY <2>1, <3>1, <3>2, <3>3, <3>4, <3>5, QuietSteps
         DEF UserStep, Bystander, memberVars
  <2>2. CASE TransitionEventStatuses
    BY <2>2 DEF TransitionEventStatuses, AutoApproved, TicketMatchesParticipation,
                TicketsFor, PartStatus
  <2>3. CASE status' # "IN_PROGRESS"
    BY <2>3
  <2>4. CASE Bystander
    BY <2>4 DEF Bystander
  <2> QED
    BY <2>1, <2>2, <2>3, <2>4
       DEF Next, Bystander, vars, eventVars, memberVars, Tick, CreateInvitations, EditEvent,
           UpdateEvent, CancelEvent, CompleteEvent, ConfirmEventImageUpload
<1> QED
  BY <1>1, <1>2, TypeCorrect, TicketsFollowParticipations, PTL DEF Spec

-----------------------------------------------------------------------------
\* One more user is one more seat at most, and dropping users frees seats.
LEMMA SeatsOfUsers ==
  ASSUME NEW S \in SUBSET Users, NEW T \in SUBSET Users
  PROVE  /\ Cardinality(S) \in Nat
         /\ T \subseteq S => Cardinality(T) <= Cardinality(S)
         /\ \A u \in Users : T = S \cup {u} => Cardinality(T) <= Cardinality(S) + 1
<1>1. IsFiniteSet(S) /\ IsFiniteSet(T)
  BY UsersAssumption, FS_Subset
<1>2. ASSUME NEW u \in Users, T = S \cup {u} PROVE Cardinality(T) <= Cardinality(S) + 1
  BY <1>1, <1>2, FS_AddElement, FS_CardinalityType
<1> QED
  BY <1>1, <1>2, FS_Subset, FS_CardinalityType

\* The seats taken never exceed the capacity, also when the host lowers it while
\* people join, leave and reconfirm, each in a transaction of its own.
THEOREM CapacityRespected == Spec => []SeatsWithinCapacity
<1>1. Init => SeatsWithinCapacity
  <2> SUFFICES ASSUME Init, capacity # NoLimit PROVE Cardinality(Seated) <= capacity
    BY DEF SeatsWithinCapacity
  <2>1. Seated = {}
    BY DEF Init, Seated
  <2> QED
    BY <2>1, FS_EmptySet, ChoiceAssumption DEF Init
<1>2. TypeOK /\ SeatsWithinCapacity /\ [Next]_vars => SeatsWithinCapacity'
  <2> SUFFICES ASSUME TypeOK, SeatsWithinCapacity, [Next]_vars PROVE SeatsWithinCapacity'
    OBVIOUS
  <2>1. Seated \in SUBSET Users /\ Seated' \in SUBSET Users
    BY DEF Seated
  <2>2. ASSUME Seated' \subseteq Seated, capacity' = capacity PROVE SeatsWithinCapacity'
    BY <2>1, <2>2, SeatsOfUsers DEF SeatsWithinCapacity, TypeOK
  <2>3. ASSUME NEW u \in Users, UserStep(u) PROVE SeatsWithinCapacity'
    <3>1. CASE JoinEvent(u) \/ ApproveJoinRequest(u) \/ AcceptInvitation(u)
      <4>1. HasRoom /\ Seated' = Seated \cup {u} /\ capacity' = capacity
        BY <3>1 DEF JoinEvent, ApproveJoinRequest, AcceptInvitation, Admit, Seated,
                    TypeOK, eventVars
      <4> QED
        BY <4>1, <2>1, SeatsOfUsers DEF HasRoom, SeatsWithinCapacity, TypeOK
    <3>2. CASE LeaveEvent(u) \/ ReconfirmParticipation(u)
      BY <3>2, <2>2 DEF LeaveEvent, ReconfirmParticipation, Seated, TypeOK, eventVars
    <3>3. CASE UNCHANGED <<part, capacity>>
      BY <3>3, <2>2 DEF Seated
    <3> QED
      BY <2>3, <3>1, <3>2, <3>3, QuietSteps DEF UserStep, ScanTicket, eventVars, memberVars
  <2>4. CASE EditEvent
    <3>1. PICK c \in Capacities \cup {NoLimit} :
            /\ c \notin {capacity, NoLimit} => c >= Cardinality(Seated)
            /\ capacity' = c
            /\ Seated' = Seated
      BY <2>4 DEF EditEvent, UpdateEvent, Seated, TypeOK
    <3> QED
      BY <3>1, <2>1, SeatsOfUsers DEF SeatsWithinCapacity, TypeOK
  <2>5. CASE CancelEvent
    BY <2>5, <2>2 DEF CancelEvent, Seated, TypeOK
  <2>6. CASE TransitionEventStatuses
    BY <2>6, <2>2 DEF TransitionEventStatuses, AutoApproved, Seated, TypeOK
  <2>7. CASE UNCHANGED <<part, capacity>>
    BY <2>7, <2>2 DEF Seated
  <2> QED
    BY <2>3, <2>4, <2>5, <2>6, <2>7
       DEF Next, vars, eventVars, memberVars, Tick, CreateInvitations,
           CompleteEvent, ConfirmEventImageUpload
<1> QED
  BY <1>1, <1>2, TypeCorrect, PTL DEF Spec

-----------------------------------------------------------------------------
\* A pending request or invitation is never overtaken: neither by another way
\* into the event nor by an edit that moves the start.
THEOREM OffersCanBeHonoured == Spec => []OpenOfferCanBeHonoured
<1>1. Init => OpenOfferCanBeHonoured
  BY DEF Init, OpenOfferCanBeHonoured
<1>2. /\ TypeOK /\ PastOnly /\ OwnWayIn /\ OpenOfferCanBeHonoured /\ [Next]_vars
      => OpenOfferCanBeHonoured'
  <2> SUFFICES ASSUME TypeOK, PastOnly, OwnWayIn, OpenOfferCanBeHonoured, [Next]_vars
               PROVE  OpenOfferCanBeHonoured'
    OBVIOUS
  <2> USE DEF OpenOfferCanBeHonoured, CanEnter, Reactivatable, TypeOK
  <2>1. ASSUME NEW u \in Users, UserStep(u) PROVE OpenOfferCanBeHonoured'
    <3> USE DEF eventVars, memberVars, offerVars
    <3>1. CASE JoinEvent(u)
      BY <3>1 DEF JoinEvent, Finish, Admit, OwnWayIn
    <3>2. CASE ApproveJoinRequest(u) \/ AcceptInvitation(u)
      BY <3>2 DEF ApproveJoinRequest, AcceptInvitation, Admit, OwnWayIn
    <3>3. CASE LeaveEvent(u) \/ ReconfirmParticipation(u)
      BY <3>3 DEF LeaveEvent, ReconfirmParticipation, Seated
    <3>4. CASE RequestJoin(u)
      BY <3>4 DEF RequestJoin
    <3>5. CASE CancelJoinRequest(u) \/ RejectJoinRequest(u)
      BY <3>5 DEF CancelJoinRequest, RejectJoinRequest
    <3>6. CASE DeclineInvitation(u) \/ RevokeInvitation(u)
      BY <3>6 DEF DeclineInvitation, RevokeInvitation
    <3>7. CASE JoinCheck(u) \/ LeaveCheck(u) \/ RequestCheck(u) \/ ApproveCheck(u) \/ ScanTicket(u)
      BY <3>7 DEF JoinCheck, LeaveCheck, RequestCheck, ApproveCheck, Receive, ScanTicket
    <3> QED
      BY <2>1, <3>1, <3>2, <3>3, <3>4, <3>5, <3>6, <3>7 DEF UserStep
  <2>2. ASSUME NEW S \in SUBSET Users, CreateInvitations(S) PROVE OpenOfferCanBeHonoured'
    BY <2>2 DEF CreateInvitations, Invitable, eventVars, memberVars
  <2>3. CASE EditEvent
    BY <2>3, ChoiceAssumption DEF EditEvent, UpdateEvent, PastOnly, offerVars
  <2>4. CASE CancelEvent
    BY <2>4 DEF CancelEvent, offerVars
  <2>5. CASE TransitionEventStatuses
    BY <2>5 DEF TransitionEventStatuses, AutoApproved, offerVars
  <2>6. CASE UNCHANGED <<start, part, leftAt, request, invitation>>
    BY <2>6
  <2> QED
    BY <2>1, <2>2, <2>3, <2>4, <2>5, <2>6
       DEF Next, vars, eventVars, memberVars, offerVars, Tick, CompleteEvent,
           ConfirmEventImageUpload
<1> QED
  BY <1>1, <1>2, TypeCorrect, PastOnlyCorrect, OwnWayInCorrect, PTL DEF Spec

\* Nobody who left after the start comes back, and the start cannot be moved
\* behind their back.
THEOREM LeavingLateIsFinal == Spec => LateLeaverStaysOut
<1>1. TypeOK /\ PastOnly /\ [Next]_vars
        => [\A u \in Users : LeftAfterStart(u) => LeftAfterStart(u)']_vars
  <2> SUFFICES ASSUME TypeOK, PastOnly, [Next]_vars, NEW v \in Users, LeftAfterStart(v)
               PROVE  LeftAfterStart(v)'
    OBVIOUS
  <2> USE DEF LeftAfterStart, TypeOK
  <2>1. ASSUME NEW u \in Users, UserStep(u) PROVE LeftAfterStart(v)'
    <3> USE DEF eventVars, memberVars
    <3>1. CASE JoinEvent(u) \/ ApproveJoinRequest(u) \/ AcceptInvitation(u)
      BY <3>1 DEF JoinEvent, ApproveJoinRequest, AcceptInvitation, Admit, CanEnter,
                  Reactivatable
    <3>2. CASE LeaveEvent(u) \/ ReconfirmParticipation(u)
      BY <3>2 DEF LeaveEvent, ReconfirmParticipation, Seated
    <3>3. CASE UNCHANGED <<start, part, leftAt>>
      BY <3>3
    <3> QED
      BY <2>1, <3>1, <3>2, <3>3, QuietSteps DEF UserStep, ScanTicket
  <2>2. CASE EditEvent
    BY <2>2 DEF EditEvent, UpdateEvent, PastOnly
  <2>3. CASE CancelEvent
    BY <2>3 DEF CancelEvent
  <2>4. CASE TransitionEventStatuses
    BY <2>4 DEF TransitionEventStatuses, AutoApproved
  <2>5. CASE UNCHANGED <<start, part, leftAt>>
    BY <2>5
  <2> QED
    BY <2>1, <2>2, <2>3, <2>4, <2>5
       DEF Next, vars, eventVars, memberVars, Tick, CreateInvitations, CompleteEvent,
           ConfirmEventImageUpload
<1> QED
  BY <1>1, TypeCorrect, PastOnlyCorrect, PTL DEF Spec, LateLeaverStaysOut

\* A PRIVATE event that is over has no ticket left that would open its door.
THEOREM PrivateEventClosesItsTickets == Spec => []ClosedPrivateEventHasNoOpenTicket
<1>1. Init => ClosedPrivateEventHasNoOpenTicket
  BY DEF Init, ClosedPrivateEventHasNoOpenTicket, ClosedEventHasNoOpenTicket
<1>2. TypeOK /\ OwnWayIn /\ ClosedPrivateEventHasNoOpenTicket /\ [Next]_vars
        => ClosedPrivateEventHasNoOpenTicket'
  <2> SUFFICES ASSUME TypeOK, OwnWayIn, ClosedPrivateEventHasNoOpenTicket, [Next]_vars
               PROVE  ClosedPrivateEventHasNoOpenTicket'
    OBVIOUS
  <2> USE DEF ClosedPrivateEventHasNoOpenTicket, ClosedEventHasNoOpenTicket, Live, TypeOK,
              TicketStatus
  <2>1. ASSUME NEW u \in Users, UserStep(u) PROVE ClosedPrivateEventHasNoOpenTicket'
    <3> USE DEF eventVars
    <3>1. CASE JoinEvent(u)
      BY <3>1 DEF JoinEvent, Finish, OwnWayIn
    <3>2. CASE ApproveJoinRequest(u)
      BY <3>2 DEF ApproveJoinRequest, OwnWayIn
    <3>3. CASE AcceptInvitation(u) \/ ReconfirmParticipation(u)
      BY <3>3 DEF AcceptInvitation, ReconfirmParticipation
    <3>4. CASE LeaveEvent(u)
      BY <3>4 DEF LeaveEvent, Closed
    <3>5. CASE ScanTicket(u)
      BY <3>5 DEF ScanTicket
    <3>6. CASE UNCHANGED <<eventVars, memberVars>>
      BY <3>6 DEF memberVars
    <3> QED
      BY <2>1, <3>1, <3>2, <3>3, <3>4, <3>5, <3>6, QuietSteps DEF UserStep
  <2>2. CASE CancelEvent
    BY <2>2 DEF CancelEvent, Closed
  <2>3. CASE CompleteEvent
    BY <2>3 DEF CompleteEvent, Expired
  <2>4. CASE TransitionEventStatuses
    BY <2>4 DEF TransitionEventStatuses, Expired
  <2>5. CASE status' = "ACTIVE"
    BY <2>5
  <2>6. CASE UNCHANGED <<privacy, status, ticket>>
    BY <2>6
  <2> QED
    BY <2>1, <2>2, <2>3, <2>4, <2>5, <2>6
       DEF Next, vars, eventVars, memberVars, Tick, CreateInvitations, EditEvent,
           UpdateEvent, ConfirmEventImageUpload
<1> QED
  BY <1>1, <1>2, TypeCorrect, OwnWayInCorrect, PTL DEF Spec

-----------------------------------------------------------------------------
(* EventLifecycle implements Attendance.                                   *)

\* What the earlier theorems say of a state, and of the state after it.
Known == TypeOK /\ PastOnly /\ TicketMatchesParticipation /\ SeatsWithinCapacity

\* Both modules count alike.
LEMMA SameCount == ASSUME NEW S PROVE Promise!Cardinality(S) = Cardinality(S)
  BY DEF Cardinality, Promise!Cardinality

\* The mapping reads the two columns of each user, and the same seats.
LEMMA MappedState ==
  /\ Promise!Seated = Seated
  /\ \A u \in Users : u \in KeptOut <=> part[u] = "CANCELED" \/ LeftAfterStart(u)
<1>1. \A u \in Users : SeatOf[u] # "none" <=> part[u] \in {"APPROVED", "PENDING"}
  BY DEF SeatOf
<1> QED
  BY <1>1 DEF Promise!Seated, Seated, KeptOut

\* A join, an approval or an accepted invitation is one user entering.
LEMMA EveryWayInEnters ==
  ASSUME Known, NEW u \in Users, HasRoom, Admit(u), UNCHANGED <<now, eventVars>>
  PROVE  Promise!Enter(u)
<1> USE DEF Known, TypeOK, Admit, eventVars
<1>1. part[u] \in {"NONE", "LEAVED"} /\ ~LeftAfterStart(u)
  BY DEF CanEnter, Reactivatable, LeftAfterStart
<1>2. SeatOf[u] = "none" /\ u \notin KeptOut
  BY <1>1, MappedState DEF SeatOf
<1>3. SeatOf' = [SeatOf EXCEPT ![u] = "in"]
  BY DEF SeatOf
<1>4. DoorOf' = [DoorOf EXCEPT ![u] = "open"]
  BY DEF DoorOf
<1>5. KeptOut' = KeptOut
  BY <1>1 DEF KeptOut, LeftAfterStart
<1> QED
  BY <1>2, <1>3, <1>4, <1>5, MappedState, SameCount DEF HasRoom, Promise!Enter, Live

\* Nothing but the columns the mapping reads can move a seat or a door.
LEMMA NothingMapped ==
  ASSUME UNCHANGED <<status, start, capacity, part, leftAt, ticket>>
  PROVE  UNCHANGED <<SeatOf, DoorOf, KeptOut, capacity, ~Live>>
  BY DEF SeatOf, DoorOf, KeptOut, LeftAfterStart, Live

\* What users do to themselves: leaving, agreeing again, being checked in.
LEMMA UsersActOnThemselves ==
  ASSUME Known, NEW u \in Users,
         LeaveEvent(u) \/ ReconfirmParticipation(u) \/ ScanTicket(u)
  PROVE  Promise!Leave(u) \/ Promise!Agree(u) \/ Promise!CheckIn(u)
<1> USE DEF Known, TypeOK, eventVars
<1>1. CASE LeaveEvent(u)
  <2> USE <1>1 DEF LeaveEvent
  <2>1. SeatOf[u] # "none" /\ SeatOf' = [SeatOf EXCEPT ![u] = "none"]
    BY DEF SeatOf, Seated
  <2>2. DoorOf' = [DoorOf EXCEPT ![u] = IF @ = "open" THEN "shut" ELSE @]
    BY DEF DoorOf, Closed, TicketStatus
  <2>3. KeptOut' \in {KeptOut, KeptOut \cup {u}}
    <3>1. \A v \in Users \ {u} : v \in KeptOut' <=> v \in KeptOut
      BY DEF KeptOut, LeftAfterStart
    <3>2. u \notin KeptOut /\ KeptOut \in SUBSET Users /\ KeptOut' \in SUBSET Users
      BY DEF KeptOut, LeftAfterStart, Seated
    <3>3. u \in KeptOut' => KeptOut' = KeptOut \cup {u}
      BY <3>1, <3>2
    <3>4. u \notin KeptOut' => KeptOut' = KeptOut
      BY <3>1, <3>2
    <3> QED
      BY <3>3, <3>4
  <2> QED
    BY <2>1, <2>2, <2>3 DEF Promise!Leave, Live
<1>2. CASE ReconfirmParticipation(u)
  <2> USE <1>2 DEF ReconfirmParticipation
  <2>1. SeatOf[u] = "waiting" /\ SeatOf' = [SeatOf EXCEPT ![u] = "in"]
    BY DEF SeatOf
  <2>2. DoorOf' = [DoorOf EXCEPT ![u] = "open"]
    BY DEF DoorOf
  <2>3. KeptOut' = KeptOut
    BY DEF KeptOut, LeftAfterStart
  <2> QED
    BY <2>1, <2>2, <2>3 DEF Promise!Agree, Live
<1>3. CASE ScanTicket(u)
  <2> USE <1>3 DEF ScanTicket
  <2>1. SeatOf[u] = "in" /\ DoorOf[u] = "open" /\ SeatOf' = SeatOf
    BY DEF SeatOf, DoorOf
  <2>2. DoorOf' = [DoorOf EXCEPT ![u] = "passed"]
    BY DEF DoorOf
  <2>3. KeptOut' = KeptOut
    BY DEF KeptOut, LeftAfterStart
  <2> QED
    BY <2>1, <2>2, <2>3 DEF Promise!CheckIn, Live
<1> QED
  BY <1>1, <1>2, <1>3

\* An edit leaves every seat to its owner, asks everybody again or nobody, and
\* offers no fewer seats than are taken.  Nobody has left after a start that
\* is still to come, so moving it keeps nobody else out.
LEMMA EditsAskEverybody == ASSUME Known, EditEvent PROVE Promise!Change
<1> USE DEF Known, TypeOK
<1>1. PICK s \in Starts, e \in Ends \cup {NoEnd}, c \in Capacities \cup {NoLimit},
           text \in {"same", "minor", "material"} : UpdateEvent(s, e, c, text)
  BY DEF EditEvent
<1>2. Live /\ Live' /\ capacity' = c /\ (c # NoLimit => Cardinality(Seated) <= c)
  BY <1>1 DEF UpdateEvent, Live, SeatsWithinCapacity
<1>3. KeptOut' = KeptOut
  <2> SUFFICES ASSUME NEW u \in Users PROVE u \in KeptOut' <=> u \in KeptOut
    BY DEF KeptOut
  <2>1. /\ start \in Nat /\ start' \in Nat /\ leftAt[u] \in Nat /\ leftAt' = leftAt
        /\ leftAt[u] < start /\ leftAt[u] < start'
    BY <1>1, ChoiceAssumption DEF UpdateEvent, PastOnly
  <2>2. part'[u] = "CANCELED" <=> part[u] = "CANCELED"
    BY <1>1 DEF UpdateEvent
  <2>3. ~LeftAfterStart(u) /\ ~LeftAfterStart(u)'
    BY <2>1 DEF LeftAfterStart
  <2> QED
    BY <2>2, <2>3 DEF KeptOut
<1>4. CASE UNCHANGED <<part, ticket>>
  BY <1>2, <1>3, <1>4, MappedState, SameCount DEF Promise!Change, SeatOf, DoorOf
<1>5. CASE /\ part'   = [u \in Users |-> IF part[u] = "APPROVED" THEN "PENDING" ELSE part[u]]
           /\ ticket' = [u \in Users |->
                IF Approved # {} /\ part'[u] = "PENDING" /\ ticket[u] = "ACTIVE"
                THEN "PENDING" ELSE ticket[u]]
  <2>1. SeatOf' = [u \in Users |-> IF SeatOf[u] = "in" THEN "waiting" ELSE SeatOf[u]]
    BY <1>5 DEF SeatOf
  <2>2. \A u \in Users : ticket[u] = "ACTIVE" => u \in Approved /\ part'[u] = "PENDING"
    BY <1>5 DEF TicketMatchesParticipation, TicketsFor, Approved, PartStatus
  <2>3. DoorOf' = [u \in Users |-> IF DoorOf[u] = "open" THEN "shut" ELSE DoorOf[u]]
    BY <1>5, <2>2 DEF DoorOf
  <2> QED
    BY <1>2, <1>3, <2>1, <2>3, MappedState, SameCount DEF Promise!Change, Promise!DoorsShut
<1> QED
  BY <1>1, <1>4, <1>5 DEF UpdateEvent

\* The end of an event, by the host or by the job, shuts every door.
LEMMA EndingsShutTheDoors ==
  ASSUME Known, CompleteEvent \/ CancelEvent \/ TransitionEventStatuses
  PROVE  Promise!Complete \/ Promise!Cancel \/ Promise!Start
<1> USE DEF Known, TypeOK
<1>1. Live
  BY DEF CompleteEvent, CancelEvent, TransitionEventStatuses, Live
<1>2. ASSUME status' = "COMPLETED", ticket' = [u \in Users |-> Expired(ticket[u])],
             UNCHANGED <<start, capacity, part, leftAt>>
      PROVE  Promise!Complete
  <2>1. UNCHANGED <<SeatOf, KeptOut>>
    BY <1>2 DEF SeatOf, KeptOut, LeftAfterStart
  <2>2. DoorOf' = [u \in Users |-> IF DoorOf[u] = "open" THEN "shut" ELSE DoorOf[u]]
    BY <1>2 DEF DoorOf, Expired, TicketStatus
  <2> QED
    BY <1>1, <1>2, <2>1, <2>2 DEF Promise!Complete, Promise!DoorsShut, Live
<1>3. CASE CancelEvent
  <2> USE <1>3 DEF CancelEvent
  <2>1. SeatOf' = [u \in Users |-> "none"]
    BY DEF SeatOf, PartStatus
  <2>2. DoorOf' = [u \in Users |-> IF DoorOf[u] = "open" THEN "shut" ELSE DoorOf[u]]
    BY DEF DoorOf, Closed, TicketStatus
  <2>3. KeptOut' = KeptOut \cup Seated
    BY DEF KeptOut, LeftAfterStart, Seated, PartStatus
  <2> QED
    BY <1>1, <2>1, <2>2, <2>3, MappedState DEF Promise!Cancel, Promise!DoorsShut, Live
<1>4. CASE TransitionEventStatuses /\ ~Finished
  <2> USE <1>4 DEF TransitionEventStatuses
  <2>1. SeatOf' = [u \in Users |-> IF SeatOf[u] = "waiting" THEN "in" ELSE SeatOf[u]]
    BY DEF SeatOf, AutoApproved
  <2>2. \A u \in Users : ticket[u] = "PENDING" <=>
                           part[u] = "PENDING" /\ ticket[u] \notin {"ACTIVE", "USED"}
    BY <1>1 DEF TicketMatchesParticipation, TicketsFor, PartStatus, Live
  <2>3. DoorOf' = [u \in Users |-> IF SeatOf[u] = "waiting" /\ DoorOf[u] = "shut"
                                   THEN "open" ELSE DoorOf[u]]
    BY <2>2 DEF DoorOf, SeatOf, AutoApproved
  <2>4. KeptOut' = KeptOut
    BY DEF KeptOut, LeftAfterStart, AutoApproved
  <2> QED
    BY <1>1, <2>1, <2>3, <2>4 DEF Promise!Start, Live
<1> QED
  BY <1>2, <1>3, <1>4 DEF CompleteEvent, TransitionEventStatuses

-----------------------------------------------------------------------------
\* The handlers and the job keep the promise of Attendance to every user: each
\* step is one user's own move, one move of everybody, or nothing to them.
THEOREM AttendanceImplemented == Spec => AttendanceIsKept
<1>1. Init => Promise!Init
  BY DEF Init, Promise!Init, SeatOf, DoorOf, KeptOut, LeftAfterStart, Live
<1>2. Known /\ [Next]_vars => [Promise!Next]_Promise!vars
  <2> SUFFICES ASSUME Known, [Next]_vars PROVE Promise!Next \/ UNCHANGED Promise!vars
    OBVIOUS
  <2>1. ASSUME UNCHANGED <<status, start, capacity, part, leftAt, ticket>>
        PROVE  UNCHANGED Promise!vars
    BY <2>1, NothingMapped DEF Promise!vars
  <2>2. ASSUME NEW u \in Users, UserStep(u) PROVE Promise!Next \/ UNCHANGED Promise!vars
    <3>1. CASE JoinEvent(u) \/ ApproveJoinRequest(u) \/ AcceptInvitation(u)
      BY <3>1, EveryWayInEnters
         DEF JoinEvent, ApproveJoinRequest, AcceptInvitation, Promise!Next, eventVars
    <3>2. CASE LeaveEvent(u) \/ ReconfirmParticipation(u) \/ ScanTicket(u)
      BY <3>2, UsersActOnThemselves DEF Promise!Next
    <3>3. CASE UNCHANGED <<eventVars, memberVars>>
      BY <3>3, <2>1 DEF eventVars, memberVars
    <3> QED
      BY <2>2, <3>1, <3>2, <3>3, QuietSteps DEF UserStep
  <2>3. CASE EditEvent
    BY <2>3, EditsAskEverybody DEF Promise!Next
  <2>4. CASE CompleteEvent \/ CancelEvent \/ TransitionEventStatuses
    BY <2>4, EndingsShutTheDoors DEF Promise!Next
  <2>5. CASE UNCHANGED <<status, start, capacity, part, leftAt, ticket>>
    BY <2>5, <2>1
  <2> QED
    BY <2>2, <2>3, <2>4, <2>5
       DEF Next, vars, eventVars, memberVars, Tick, CreateInvitations,
           ConfirmEventImageUpload
<1>3. Spec => []Known
  BY TypeCorrect, PastOnlyCorrect, TicketsFollowParticipations, CapacityRespected, PTL
     DEF Known
<1> QED
  BY <1>1, <1>2, <1>3, PTL DEF Spec, AttendanceIsKept, Promise!Spec

-----------------------------------------------------------------------------
(* The access to the tickets.                                              *)


allVars == <<vars, accessVars>>
AccessTyped == TypeOK /\ AccessTypeOK

-----------------------------------------------------------------------------
\* What a step with tokens does to the lifecycle is a step of it, or nothing.
LEMMA AccessSteps == AccessTypeOK /\ [AccessNext]_allVars => [Next]_vars
<1> SUFFICES ASSUME AccessTypeOK, AccessNext PROVE [Next]_vars
  BY DEF allVars
<1>1. CASE Elsewhere
  BY <1>1 DEF Elsewhere, Next, UserStep
<1>2. ASSUME NEW u \in Users, Activate(u) PROVE Next
  BY <1>2 DEF Activate, Next, UserStep
<1>3. ASSUME NEW u \in Users, NEW d \in Devices,
             ReadAccess(u, d) \/ StoreToken(u, d) \/ GiveUp(u, d)
      PROVE  UNCHANGED vars
  BY <1>3 DEF ReadAccess, StoreToken, GiveUp
<1>4. ASSUME NEW k \in tokens, ScanToken(k) PROVE Next
  BY <1>4 DEF ScanToken, AccessTypeOK, Token, Next, UserStep
<1> QED
  BY <1>1, <1>2, <1>3, <1>4 DEF AccessNext

\* No step breaks the types of the rows, the tokens and the history.
LEMMA AccessTypePreserved == AccessTyped /\ [AccessNext]_allVars => AccessTyped'
<1> SUFFICES ASSUME AccessTyped, [AccessNext]_allVars PROVE AccessTypeOK'
  BY AccessSteps, TypePreserved DEF AccessTyped
<1> USE DEF AccessTypeOK
<1>1. AccessTypeOK /\ AccessEnd \in Nat /\ now \in Nat
  BY AccessAssumption DEF AccessTyped, AccessEnd, TypeOK
<1>2. ASSUME NEW u \in Users, Activate(u) PROVE AccessTypeOK'
  BY <1>1, <1>2 DEF Activate, NoToken
<1>3. ASSUME NEW u \in Users, NEW d \in Devices, ReadAccess(u, d) \/ GiveUp(u, d)
      PROVE  AccessTypeOK'
  <2>1. qr[u].version \in Nat
    BY <1>1
  <2>2. PICK r \in Nat \cup {Idle} : reading' = [reading EXCEPT ![u][d] = r]
    BY <1>3, <2>1 DEF ReadAccess, GiveUp
  <2>3. reading' \in [Users -> [Devices -> Nat \cup {Idle}]]
    BY <1>1, <2>2
  <2> QED
    BY <1>1, <1>3, <2>3 DEF ReadAccess, GiveUp
<1>4. ASSUME NEW u \in Users, NEW d \in Devices, StoreToken(u, d) PROVE AccessTypeOK'
  <2>1. reading[u][d] + 1 \in Nat
    BY <1>1, <1>4 DEF StoreToken, Idle
  <2>2. qr' \in [Users -> [version : Nat, at : Nat]] /\ tokens' \subseteq Token
    BY <1>1, <1>4, <2>1 DEF StoreToken, Token
  <2> QED
    BY <1>1, <1>4, <2>2 DEF StoreToken
<1>5. ASSUME NEW k \in tokens, ScanToken(k) PROVE AccessTypeOK'
  BY <1>1, <1>5 DEF ScanToken, Token
<1>6. CASE UNCHANGED accessVars
  BY <1>1, <1>6 DEF accessVars
<1> QED
  BY <1>2, <1>3, <1>4, <1>5, <1>6 DEF AccessNext, Elsewhere, allVars

\* The tickets with their tokens implement the lifecycle: whatever devices and
\* scans do, the rows move as EventLifecycle lets them, so its theorems hold.
THEOREM AccessImplementsLifecycle == AccessSpec => Spec /\ []AccessTyped
<1>1. AccessInit => Init /\ AccessTyped
  <2> SUFFICES ASSUME AccessInit PROVE AccessTyped
    BY DEF AccessInit
  <2>1. TypeOK
    BY InitTyped DEF AccessInit
  <2> QED
    BY <2>1 DEF AccessInit, AccessTyped, AccessTypeOK, NoToken
<1> QED
  BY <1>1, AccessSteps, AccessTypePreserved, PTL DEF AccessSpec, Spec, AccessTyped, allVars

-----------------------------------------------------------------------------
\* A ticket that can still be scanned, now or after a reconfirmation, has not
\* been scanned since it was activated.
Unspent == \A u \in Users : ticket[u] \in {"ACTIVE", "PENDING"} => admitted[u] = 0

\* A ticket opens the door at most once for each time it was activated: a scan
\* spends it for good, and whatever makes it valid again starts a new count.
THEOREM OneAdmissionHolds == AccessSpec => []OneAdmission
<1> DEFINE Inv == Unspent /\ OneAdmission
<1>1. AccessInit => Inv
  BY DEF AccessInit, Init, Unspent, OneAdmission, AccessTypeOK, NoToken
<1>2. AccessTyped /\ Inv /\ [AccessNext]_allVars => Inv'
  <2> SUFFICES ASSUME AccessTyped, Inv, [AccessNext]_allVars PROVE Inv'
    OBVIOUS
  <2> USE DEF Unspent
  <2>1. AccessTypeOK' /\ AccessTypeOK /\ TypeOK
    BY AccessTypePreserved DEF AccessTyped
  <2> SUFFICES Unspent' /\ \A u \in Users : admitted'[u] <= 1
    BY <2>1 DEF OneAdmission
  <2>2. /\ ticket \in [Users -> TicketStatus] /\ admitted \in [Users -> Nat]
        /\ \A u \in Users : admitted[u] <= 1
    BY <2>1 DEF OneAdmission, TypeOK, AccessTypeOK
  <2>3. ASSUME NEW u \in Users, Activate(u)
        PROVE  Unspent' /\ \A v \in Users : admitted'[v] <= 1
    <3>1. ticket' = [ticket EXCEPT ![u] = "ACTIVE"]
      BY <2>3 DEF Activate, JoinEvent, ApproveJoinRequest, AcceptInvitation, Admit,
                  ReconfirmParticipation
    <3> QED
      BY <2>2, <2>3, <3>1 DEF Activate
  <2>4. ASSUME NEW k \in tokens, ScanToken(k)
        PROVE  Unspent' /\ \A v \in Users : admitted'[v] <= 1
    BY <2>1, <2>2, <2>4 DEF ScanToken, ScanTicket, AccessTypeOK, Token
  <2>5. CASE Elsewhere
    <3>1. ASSUME NEW v \in Users, ticket'[v] \in {"ACTIVE", "PENDING"}
          PROVE  ticket[v] \in {"ACTIVE", "PENDING"}
      <4>1. CASE \E u \in Users : LeaveEvent(u)
        BY <2>2, <3>1, <4>1 DEF LeaveEvent, Closed
      <4>2. CASE EditEvent
        BY <2>2, <3>1, <4>2 DEF EditEvent, UpdateEvent
      <4>3. CASE CancelEvent \/ CompleteEvent
        BY <2>2, <3>1, <4>3 DEF CancelEvent, CompleteEvent, Closed, Expired
      <4>4. CASE TransitionEventStatuses
        BY <2>2, <3>1, <4>4 DEF TransitionEventStatuses, Expired
      <4>5. CASE ticket' = ticket
        BY <3>1, <4>5
      <4> QED
        BY <2>5, <4>1, <4>2, <4>3, <4>4, <4>5, QuietSteps
           DEF Elsewhere, memberVars, Tick, CreateInvitations, ConfirmEventImageUpload
    <3> QED
      BY <2>2, <2>5, <3>1 DEF Elsewhere, accessVars
  <2>6. CASE UNCHANGED <<ticket, admitted>>
    BY <2>2, <2>6
  <2> QED
    BY <2>3, <2>4, <2>5, <2>6
       DEF AccessNext, ReadAccess, StoreToken, GiveUp, allVars, vars, memberVars, accessVars
<1> QED
  BY <1>1, <1>2, AccessImplementsLifecycle, PTL DEF AccessSpec, allVars

-----------------------------------------------------------------------------
\* Every step that changes an expiry, the announced times or who holds a valid
\* ticket keeps them together: an edit of the times takes all approvals away,
\* and a way back in writes the expiry anew.
THEOREM ApprovedTicketLasts == AccessSpec => []ApprovedTicketLastsToEnd
<1>1. AccessInit => ApprovedTicketLastsToEnd
  BY DEF AccessInit, Init, ApprovedTicketLastsToEnd
<1>2. AccessTyped /\ ApprovedTicketLastsToEnd /\ [AccessNext]_allVars
        => ApprovedTicketLastsToEnd'
  <2> SUFFICES ASSUME AccessTyped, ApprovedTicketLastsToEnd, [AccessNext]_allVars
               PROVE  ApprovedTicketLastsToEnd'
    OBVIOUS
  <2> USE DEF ApprovedTicketLastsToEnd
  <2>1. /\ part \in [Users -> PartStatus] /\ ticket \in [Users -> TicketStatus]
        /\ expires \in [Users -> Nat]
    BY DEF AccessTyped, TypeOK, AccessTypeOK
  <2>2. ASSUME NEW u \in Users, Activate(u) PROVE ApprovedTicketLastsToEnd'
    <3>1. UNCHANGED <<status, start, end>>
      BY <2>2 DEF Activate, JoinEvent, ApproveJoinRequest, AcceptInvitation,
                  ReconfirmParticipation, eventVars
    <3>2. /\ part' = [part EXCEPT ![u] = "APPROVED"]
          /\ ticket' = [ticket EXCEPT ![u] = "ACTIVE"]
      BY <2>2 DEF Activate, JoinEvent, ApproveJoinRequest, AcceptInvitation, Admit,
                  ReconfirmParticipation
    <3> QED
      BY <2>1, <2>2, <3>1, <3>2 DEF Activate, AccessEnd
  <2>3. ASSUME expires' = expires, UNCHANGED <<status, start, end>>,
               \A v \in Users : /\ part'[v] = "APPROVED" => part[v] = "APPROVED"
                                /\ ticket'[v] = "ACTIVE" => ticket[v] = "ACTIVE"
        PROVE  ApprovedTicketLastsToEnd'
    BY <2>3 DEF AccessEnd
  <2>4. CASE Elsewhere
    <3>1. CASE EditEvent
      <4>1. CASE \A v \in Users : part'[v] # "APPROVED"
        BY <4>1
      <4>2. CASE UNCHANGED <<status, start, end, part, ticket>>
        BY <2>3, <2>4, <4>2 DEF Elsewhere, accessVars
      <4> QED
        BY <2>1, <3>1, <4>1, <4>2 DEF EditEvent, UpdateEvent
    <3>2. CASE status' # "ACTIVE"
      BY <3>2
    <3>3. ASSUME NEW u \in Users, LeaveEvent(u) PROVE ApprovedTicketLastsToEnd'
      BY <2>1, <2>3, <2>4, <3>3 DEF Elsewhere, LeaveEvent, Closed, eventVars, accessVars
    <3>4. CASE UNCHANGED <<eventVars, memberVars>>
      BY <2>3, <2>4, <3>4 DEF Elsewhere, eventVars, memberVars, accessVars
    <3>5. CASE ConfirmEventImageUpload
      BY <2>3, <2>4, <3>5 DEF Elsewhere, ConfirmEventImageUpload, memberVars, accessVars
    <3> QED
      BY <2>4, <3>1, <3>2, <3>3, <3>4, <3>5, QuietSteps
         DEF Elsewhere, Tick, CreateInvitations, CancelEvent, CompleteEvent,
             TransitionEventStatuses
  <2>5. ASSUME NEW k \in tokens, ScanToken(k) PROVE ApprovedTicketLastsToEnd'
    BY <2>1, <2>3, <2>5 DEF ScanToken, ScanTicket, eventVars
  <2>6. CASE UNCHANGED <<vars, expires>>
    BY <2>3, <2>6 DEF vars, eventVars, memberVars
  <2> QED
    BY <2>2, <2>4, <2>5, <2>6
       DEF AccessNext, ReadAccess, StoreToken, GiveUp, allVars, accessVars
<1> QED
  BY <1>1, <1>2, AccessImplementsLifecycle, PTL DEF AccessSpec, allVars
=============================================================================
