---------------------------- MODULE TicketAccess ----------------------------
(***************************************************************************)
(* The rest of the ticket row, on top of EventLifecycle: until when the    *)
(* ticket gives access, and the short-lived QR tokens that show it at the  *)
(* door.  Every step of EventLifecycle is a step here, extended with what  *)
(* it does to these columns.                                               *)
(*                                                                         *)
(* A device asks for a token again and again (the QR stream); each time    *)
(* one transaction reads the ticket WITHOUT a lock and later stores the    *)
(* next version, so the streams of two devices and everything else may     *)
(* come between.  A scan locks the ticket and is one step.                 *)
(***************************************************************************)
EXTENDS EventLifecycle, Integers

CONSTANTS
  Devices,     \* the devices a participant shows the ticket on
  OpenEnded,   \* 60 days: access to an event without an end
  TokenTTL,    \* ticket.Settings.QRTokenTTL
  MaxTokens    \* bound of qr_token_version

ASSUME AccessAssumption == OpenEnded \in Nat /\ TokenTTL \in Nat /\ MaxTokens \in Nat

VARIABLES
  expires,   \* ticket.expires_at
  qr,        \* ticket.qr_token_version and the token whose hash is stored
  tokens,    \* the tokens handed to devices
  reading,   \* the version each device's transaction has read, or Idle
  admitted   \* history: scans accepted since the ticket was last activated

accessVars == <<expires, qr, tokens, reading, admitted>>

Idle    == -1
NoToken == [version |-> 0, at |-> 0]
Token   == [user : Users, version : Nat, at : Nat]
AccessEnd == IF end = NoEnd THEN start + OpenEnded ELSE end

AccessInit ==
  /\ Init
  /\ expires  = [u \in Users |-> 0]
  /\ qr       = [u \in Users |-> NoToken]
  /\ tokens   = {}
  /\ reading  = [u \in Users |-> [d \in Devices |-> Idle]]
  /\ admitted = [u \in Users |-> 0]

-----------------------------------------------------------------------------
\* Mutant: an existing ticket row keeps the expiry it was created with.
ActivateKeepingExpiry(u) ==
  /\ JoinEvent(u) \/ ApproveJoinRequest(u) \/ AcceptInvitation(u) \/ ReconfirmParticipation(u)
  /\ expires'  = [expires EXCEPT ![u] = IF @ = 0 THEN AccessEnd ELSE @]
  /\ qr'       = [qr EXCEPT ![u] = NoToken]
  /\ admitted' = [admitted EXCEPT ![u] = 0]
  /\ UNCHANGED <<tokens, reading>>

\* CreateTicketForParticipation, in every transaction that approves somebody.
Activate(u) ==
  /\ JoinEvent(u) \/ ApproveJoinRequest(u) \/ AcceptInvitation(u) \/ ReconfirmParticipation(u)
  /\ expires'  = [expires EXCEPT ![u] = AccessEnd]
  /\ qr'       = [qr EXCEPT ![u] = NoToken]
  /\ admitted' = [admitted EXCEPT ![u] = 0]
  /\ UNCHANGED <<tokens, reading>>

\* The steps that leave these columns as they are, also when they change the
\* ticket's status.
Elsewhere ==
  /\ \/ Tick
     \/ \E u \in Users : JoinCheck(u) \/ LeaveCheck(u) \/ LeaveEvent(u)
     \/ \E u \in Users : RequestCheck(u) \/ RequestJoin(u) \/ CancelJoinRequest(u)
     \/ \E u \in Users : ApproveCheck(u) \/ RejectJoinRequest(u)
     \/ \E u \in Users : DeclineInvitation(u) \/ RevokeInvitation(u)
     \/ \E S \in SUBSET Users : CreateInvitations(S)
     \/ EditEvent \/ CancelEvent \/ CompleteEvent \/ ConfirmEventImageUpload
     \/ TransitionEventStatuses
  /\ UNCHANGED accessVars

-----------------------------------------------------------------------------
\* IssueQRToken: the access check ...
ReadAccess(u, d) ==
  /\ reading[u][d] = Idle
  /\ ticket[u] = "ACTIVE" /\ part[u] = "APPROVED" /\ Live
  /\ expires[u] > now
  /\ reading' = [reading EXCEPT ![u][d] = qr[u].version]
  /\ UNCHANGED <<vars, expires, qr, tokens, admitted>>

\* ... and the write of the next version, whatever happened in between.
\* Mutant: storing a token makes the ticket ACTIVE.
StoreTokenActivating(u, d) ==
  /\ reading[u][d] # Idle /\ reading[u][d] < MaxTokens
  /\ LET next == reading[u][d] + 1
     IN  /\ qr'     = [qr EXCEPT ![u] = [version |-> next, at |-> now]]
         /\ tokens' = tokens \cup {[user |-> u, version |-> next, at |-> now]}
  /\ reading' = [reading EXCEPT ![u][d] = Idle]
  /\ ticket'  = [ticket EXCEPT ![u] = "ACTIVE"]
  /\ UNCHANGED <<now, eventVars, part, confirmed, leftAt, offerVars, inflight>>
  /\ UNCHANGED <<expires, admitted>>

StoreToken(u, d) ==
  /\ reading[u][d] # Idle /\ reading[u][d] < MaxTokens
  /\ LET next == reading[u][d] + 1
     IN  /\ qr'     = [qr EXCEPT ![u] = [version |-> next, at |-> now]]
         /\ tokens' = tokens \cup {[user |-> u, version |-> next, at |-> now]}
  /\ reading' = [reading EXCEPT ![u][d] = Idle]
  /\ UNCHANGED <<vars, expires, admitted>>

\* The transaction fails or the device goes away.
GiveUp(u, d) ==
  /\ reading[u][d] # Idle
  /\ reading' = [reading EXCEPT ![u][d] = Idle]
  /\ UNCHANGED <<vars, expires, qr, tokens, admitted>>

\* The version AND the hash stored on the ticket must be the token's.
Latest(k) == qr[k.user] = [version |-> k.version, at |-> k.at]

ScanToken(k) ==
  /\ now <= k.at + TokenTTL
  /\ Latest(k)
  /\ ScanTicket(k.user)
  /\ admitted' = [admitted EXCEPT ![k.user] = @ + 1]
  /\ UNCHANGED <<expires, qr, tokens, reading>>

-----------------------------------------------------------------------------
AccessNext ==
  \/ Elsewhere
  \/ \E u \in Users : Activate(u)
  \/ \E u \in Users, d \in Devices : ReadAccess(u, d) \/ StoreToken(u, d) \/ GiveUp(u, d)
  \/ \E k \in tokens : ScanToken(k)

AccessSpec == AccessInit /\ [][AccessNext]_<<vars, accessVars>>

-----------------------------------------------------------------------------
\* Every variable holds what its column allows.
AccessTypeOK ==
  /\ expires \in [Users -> Nat]
  /\ qr \in [Users -> [version : Nat, at : Nat]]
  /\ tokens \subseteq Token
  /\ reading \in [Users -> [Devices -> Nat \cup {Idle}]]
  /\ admitted \in [Users -> Nat]

\* A ticket opens the door at most once for each time it was activated, with
\* any number of devices issuing tokens for it while the host scans.
OneAdmission == AccessTypeOK /\ \A u \in Users : admitted[u] <= 1

\* Until the event starts, whoever is approved holds a ticket that lasts to the
\* end of the event as it is announced now: every edit that moves the end takes
\* the approval away, and getting it back refreshes the ticket.
ApprovedTicketLastsToEnd ==
  status = "ACTIVE" =>
    \A u \in Users : part[u] = "APPROVED" /\ ticket[u] = "ACTIVE" => expires[u] = AccessEnd
=============================================================================
