---------------------------- MODULE SeatCounting ----------------------------
(***************************************************************************)
(* The statements inside the transactions that EventLifecycle takes as     *)
(* atomic, for the part of them that decides who gets a seat.              *)
(*                                                                         *)
(* The database runs at READ COMMITTED: every statement reads the rows     *)
(* committed when it starts, and its own transaction's writes.  A trigger  *)
(* on participation recounts the participants of the event and writes the  *)
(* two counters on the event row; when that row is locked the statement    *)
(* waits, and then writes the count it took BEFORE it waited.              *)
(*                                                                         *)
(* A direct join reads the counters and inserts without a lock on the      *)
(* event; its foreign key check takes FOR KEY SHARE, which FOR UPDATE      *)
(* excludes and the counters' UPDATE does not.  An approval, an accepted   *)
(* invitation and an edit take FOR UPDATE first.                           *)
(*                                                                         *)
(* The clock, tickets and the offers themselves are left to                *)
(* EventLifecycle: here the event has not started.                         *)
(***************************************************************************)
EXTENDS Naturals, FiniteSets

CONSTANTS
  Users,         \* everybody except the host
  Host,          \* the host's transaction
  PrivacyLevels, \* the levels an event may be created with
  Capacities,    \* the capacities the host may choose
  MaxVersion     \* bound of version_no

ASSUME UsersAssumption == IsFiniteSet(Users) /\ Host \notin Users
ASSUME PrivacyAssumption == PrivacyLevels \subseteq {"PUBLIC", "PROTECTED", "PRIVATE"}
ASSUME NumbersAssumption == Capacities \subseteq Nat \ {0} /\ MaxVersion \in Nat

Tx == Users \cup {Host}

VARIABLES
  privacy, capacity, version,  \* committed columns of the event row
  counter,    \* committed approved_ and pending_participant_count
  part,       \* committed participation.status, "NONE" when there is no row
  accepted,   \* committed participation.last_confirmed_event_version
  op, pc,     \* what a transaction does and the statement it has finished
  dirty,      \* the participation rows a transaction has written
  seen,       \* the version_no a transaction read
  tally,      \* the counters a transaction has computed or read
  draft,      \* the edit's new capacity, and whether it is material
  terms,      \* history: the version of the last material change
  lowered,    \* history: the host has lowered the capacity
  alone       \* history: no other transaction has overlapped this one

committed == <<privacy, capacity, version, counter, part, accepted, terms, lowered>>
vars == <<committed, op, pc, dirty, seen, tally, draft, alone>>

PartStatus == {"NONE", "APPROVED", "PENDING", "LEAVED"}
Counters   == [approved : Nat, pending : Nat]
Clean      == [u \in Users |-> "CLEAN"]

-----------------------------------------------------------------------------
\* What the transactions hold and what they wait for.

Active(t) == pc[t] # "idle"

HoldsUpdate(t) == Active(t) /\ op[t] \in {"admit", "edit"}
HoldsNoKey(t)  == pc[t] = "written"
HoldsShare(t)  == op[t] = "join" /\ pc[t] \in {"checked", "counted", "written"}

Others(t) == Tx \ {t}
CanShare(t)  == \A s \in Others(t) : ~HoldsUpdate(s)
\* Mutant: the counters belong to a key, and writing them excludes KEY SHARE.
CanWriteKey(t) == \A s \in Others(t) : ~HoldsUpdate(s) /\ ~HoldsNoKey(s) /\ ~HoldsShare(s)
CanNoKey(t)  == \A s \in Others(t) : ~HoldsUpdate(s) /\ ~HoldsNoKey(s)
\* Mutant: the event is read without FOR UPDATE.
CanRead(t)   == TRUE
CanUpdate(t) == \A s \in Others(t) : ~HoldsUpdate(s) /\ ~HoldsNoKey(s) /\ ~HoldsShare(s)
RowFree(u, t) == \A s \in Others(t) : dirty[s][u] = "CLEAN"

\* The rows a new statement of t sees.
Visible(t) == [u \in Users |-> IF dirty[t][u] = "CLEAN" THEN part[u] ELSE dirty[t][u]]
NoSeats  == [approved |-> 0, pending |-> 0]
Count(p) == [approved |-> Cardinality({u \in Users : p[u] = "APPROVED"}),
             pending  |-> Cardinality({u \in Users : p[u] = "PENDING"})]
Seats(c) == c.approved + c.pending

Begin(t, o, next) ==
  /\ ~Active(t)
  /\ op' = [op EXCEPT ![t] = o]
  /\ pc' = [pc EXCEPT ![t] = next]
  /\ alone' = [s \in Tx |-> s = t /\ \A r \in Others(t) : ~Active(r)]
  /\ UNCHANGED committed

Advance(t, next) ==
  /\ pc' = [pc EXCEPT ![t] = next]
  /\ UNCHANGED <<committed, op, alone>>

-----------------------------------------------------------------------------
Init ==
  /\ privacy \in PrivacyLevels /\ capacity \in Capacities
  /\ version = 1 /\ terms = 1 /\ lowered = FALSE
  /\ part = [u \in Users |-> "NONE"] /\ accepted = [u \in Users |-> 0]
  /\ counter = NoSeats
  /\ op = [t \in Tx |-> "none"] /\ pc = [t \in Tx |-> "idle"]
  /\ dirty = [t \in Tx |-> Clean]
  /\ seen = [t \in Tx |-> 0]
  /\ tally = [t \in Tx |-> NoSeats]
  /\ draft = [capacity |-> 0, material |-> FALSE]
  /\ alone = [t \in Tx |-> FALSE]

\* JoinEvent: one statement reads the event as committed and inserts the row, or
\* takes up the row of somebody who left, which no foreign key is checked for.
JoinRow(u) ==
  /\ privacy = "PUBLIC"
  /\ Seats(counter) < capacity
  /\ \/ part[u] = "NONE" /\ Begin(u, "join", "inserted")
     \/ part[u] = "LEAVED" /\ Begin(u, "rejoin", "checked")
  /\ dirty' = [dirty EXCEPT ![u][u] = "APPROVED"]
  /\ seen'  = [seen EXCEPT ![u] = version]
  /\ UNCHANGED <<tally, draft>>

\* The foreign key check of the inserted row.
ForeignKeyCheck(u) ==
  /\ pc[u] = "inserted" /\ CanShare(u)
  /\ Advance(u, "checked")
  /\ UNCHANGED <<dirty, seen, tally, draft>>

\* LeaveEvent: the participant's own row.
LeaveRow(u) ==
  /\ part[u] \in {"APPROVED", "PENDING"}
  /\ RowFree(u, u)
  /\ Begin(u, "leave", "checked")
  /\ dirty' = [dirty EXCEPT ![u][u] = "LEAVED"]
  /\ UNCHANGED <<seen, tally, draft>>

\* ApproveJoinRequest and AcceptInvitation: SELECT ... FOR UPDATE, then insert.
AdmitLock(u) ==
  /\ privacy # "PUBLIC"
  /\ part[u] \in {"NONE", "LEAVED"}
  /\ CanUpdate(u)
  /\ Seats(counter) < capacity
  /\ Begin(u, "admit", "locked")
  /\ seen' = [seen EXCEPT ![u] = version]
  /\ UNCHANGED <<dirty, tally, draft>>

\* ReconfirmParticipation: the same lock, and no seat is needed.
ReconfirmLock(u) ==
  /\ part[u] = "PENDING"
  /\ CanUpdate(u)
  /\ Begin(u, "admit", "locked")
  /\ seen' = [seen EXCEPT ![u] = version]
  /\ UNCHANGED <<dirty, tally, draft>>

AdmitRow(u) ==
  /\ op[u] = "admit" /\ pc[u] = "locked"
  /\ dirty' = [dirty EXCEPT ![u][u] = "APPROVED"]
  /\ Advance(u, "checked")
  /\ UNCHANGED <<seen, tally, draft>>

\* UpdateEvent: FOR UPDATE, the event row, then the approved participations.
EditLock(c, material) ==
  /\ version < MaxVersion
  /\ CanUpdate(Host)
  /\ c # capacity => c >= Seats(counter)
  /\ c # capacity \/ material
  /\ Begin(Host, "edit", IF material THEN "locked" ELSE "written")
  /\ draft' = [capacity |-> c, material |-> material]
  /\ tally' = [tally EXCEPT ![Host] = counter]
  /\ UNCHANGED <<dirty, seen>>

\* The statement waits for the rows another transaction has written; nobody
\* else can commit one while the event is locked.
ApprovedRows == {u \in Users : part[u] = "APPROVED"}
MarkApprovedPending ==
  /\ op[Host] = "edit" /\ pc[Host] = "locked"
  /\ \A u \in ApprovedRows : RowFree(u, Host)
  /\ dirty' = [dirty EXCEPT ![Host] =
                 [u \in Users |-> IF u \in ApprovedRows THEN "PENDING" ELSE "CLEAN"]]
  /\ Advance(Host, IF ApprovedRows = {} THEN "written" ELSE "checked")
  /\ UNCHANGED <<seen, tally, draft>>

\* The trigger: count, then write when the event row can be had.
\* Mutant: the trigger counts what was committed and not its own row.
RecountCommitted(t) ==
  /\ pc[t] = "checked"
  /\ tally' = [tally EXCEPT ![t] = Count(part)]
  /\ Advance(t, "counted")
  /\ UNCHANGED <<dirty, seen, draft>>

Recount(t) ==
  /\ pc[t] = "checked"
  /\ tally' = [tally EXCEPT ![t] = Count(Visible(t))]
  /\ Advance(t, "counted")
  /\ UNCHANGED <<dirty, seen, draft>>

WriteCounters(t) ==
  /\ pc[t] = "counted" /\ CanNoKey(t)
  /\ Advance(t, "written")
  /\ UNCHANGED <<dirty, seen, tally, draft>>

Close(t) ==
  /\ pc'    = [pc EXCEPT ![t] = "idle"]
  /\ op'    = [op EXCEPT ![t] = "none"]
  /\ dirty' = [dirty EXCEPT ![t] = Clean]
  /\ seen'  = [seen EXCEPT ![t] = 0]
  /\ tally' = [tally EXCEPT ![t] = NoSeats]
  /\ draft' = IF t = Host THEN [capacity |-> 0, material |-> FALSE] ELSE draft
  /\ alone' = [alone EXCEPT ![t] = FALSE]
  /\ UNCHANGED privacy

Commit(t) ==
  /\ pc[t] = "written"
  /\ Close(t)
  /\ part'     = Visible(t)
  /\ counter'  = tally[t]
  /\ accepted' = [u \in Users |-> IF dirty[t][u] = "APPROVED" THEN seen[t] ELSE accepted[u]]
  /\ IF t = Host
     THEN /\ version'  = version + 1
          /\ capacity' = draft.capacity
          /\ terms'    = IF draft.material THEN version + 1 ELSE terms
          /\ lowered'  = (lowered \/ draft.capacity < capacity)
     ELSE UNCHANGED <<version, capacity, terms, lowered>>

\* The client gives up, the server stops, or the database breaks a deadlock.
Rollback(t) ==
  /\ Active(t)
  /\ Close(t)
  /\ UNCHANGED <<capacity, version, counter, part, accepted, terms, lowered>>

Step(t) == Recount(t) \/ WriteCounters(t) \/ Commit(t)
UserStep(u) == ForeignKeyCheck(u) \/ AdmitRow(u) \/ Step(u)
HostStep == MarkApprovedPending \/ Step(Host)

Next ==
  \/ \E u \in Users : JoinRow(u) \/ LeaveRow(u) \/ AdmitLock(u) \/ ReconfirmLock(u)
  \/ \E u \in Users : UserStep(u)
  \/ \E c \in Capacities, material \in BOOLEAN : EditLock(c, material)
  \/ HostStep
  \/ \E t \in Tx : Rollback(t)

Spec == Init /\ [][Next]_vars

-----------------------------------------------------------------------------
\* Every variable holds what its column or the transaction's progress allows.
TypeOK ==
  /\ privacy \in PrivacyLevels /\ capacity \in Capacities
  /\ version \in Nat /\ terms \in Nat /\ lowered \in BOOLEAN
  /\ counter \in Counters /\ tally \in [Tx -> Counters]
  /\ part \in [Users -> PartStatus] /\ accepted \in [Users -> Nat]
  /\ op \in [Tx -> {"none", "join", "rejoin", "leave", "admit", "edit"}]
  /\ pc \in [Tx -> {"idle", "inserted", "locked", "checked", "counted", "written"}]
  /\ dirty \in [Tx -> [Users -> PartStatus \cup {"CLEAN"}]]
  /\ seen \in [Tx -> Nat] /\ alone \in [Tx -> BOOLEAN]
  /\ draft \in [capacity : Capacities \cup {0}, material : BOOLEAN]

InSync == counter = Count(part)

\* A transaction that locked the event before it counted leaves exact counters
\* behind, whatever the unlocked transactions around it are doing; and counters
\* that have drifted are put right by the next change that nothing overlaps.
RecountIsExact ==
  [][\A t \in Tx : (HoldsUpdate(t) \/ alone[t]) /\ dirty[t] # Clean /\ Commit(t) => InSync']_vars

\* participation-access.md: capacity is not exceeded.
Seated == {u \in Users : part[u] \in {"APPROVED", "PENDING"}}
SeatsWithinCapacity == Cardinality(Seated) <= capacity

\* While nobody can join directly and the host has not lowered the capacity the
\* seats never exceed it, although the counters drift: every stale count was
\* written by somebody who left.
GuardedSeatsWithinCapacity == privacy # "PUBLIC" /\ ~lowered => SeatsWithinCapacity

\* While nobody can join directly every approved participant has accepted the
\* last material version of the event, also those let in during an edit.
ApprovedOnCurrentTerms ==
  \A u \in Users : part[u] = "APPROVED" => accepted[u] >= terms
GuardedApprovedOnCurrentTerms == privacy # "PUBLIC" => ApprovedOnCurrentTerms

\* While nobody can join directly and the host has not lowered the capacity, a
\* free seat is never refused for good: when no transaction is under way the
\* counters, drifted or not, leave room whenever there is room.
FreeSeatIsOffered ==
  (\A t \in Tx : ~Active(t)) /\ Cardinality(Seated) < capacity => Seats(counter) < capacity
GuardedFreeSeatIsOffered == privacy # "PUBLIC" /\ ~lowered => FreeSeatIsOffered

\* The locks of joins, approvals and leaves never form a circle: with no edit
\* under way, some transaction can always go on.
Waiting(t) ==
  \/ pc[t] = "inserted" /\ ~CanShare(t)
  \/ pc[t] = "counted" /\ ~CanNoKey(t)
UsersNeverDeadlock ==
  /\ TypeOK
  /\ ~Active(Host) /\ (\E u \in Users : Active(u)) =>
       \E u \in Users : Active(u) /\ ~Waiting(u)
=============================================================================
