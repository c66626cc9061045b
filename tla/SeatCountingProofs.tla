-------------------------- MODULE SeatCountingProofs --------------------------
(***************************************************************************)
(* Proofs about SeatCounting, for any finite set of users, any capacities  *)
(* and any bound on the versions.                                          *)
(*                                                                         *)
(* The argument has three layers.  Shape: what a transaction has written   *)
(* follows from what it does and how far it has come.  Locks: whoever      *)
(* holds the event FOR UPDATE is alone with it, so nothing it has read     *)
(* changes before it commits.  On top of these, each property needs one    *)
(* more fact about the counters.                                           *)
(***************************************************************************)
EXTENDS SeatCounting, FiniteSetTheorems, TLAPS

UserMoves(u) == JoinRow(u) \/ LeaveRow(u) \/ AdmitLock(u) \/ ReconfirmLock(u)
                \/ ForeignKeyCheck(u) \/ AdmitRow(u)
HostMoves == (\E c \in Capacities, m \in BOOLEAN : EditLock(c, m)) \/ MarkApprovedPending
AnyMoves(t) == Recount(t) \/ WriteCounters(t) \/ Commit(t) \/ Rollback(t)

-----------------------------------------------------------------------------
\* Every step is one statement of one transaction.
LEMMA EveryStep ==
  ASSUME [Next]_vars
  PROVE  \/ \E u \in Users : UserMoves(u)
         \/ HostMoves
         \/ \E t \in Tx : AnyMoves(t)
         \/ UNCHANGED vars
BY DEF Next, UserMoves, HostMoves, AnyMoves, UserStep, HostStep, Step, Tx

\* A count of rows is a pair of numbers.
LEMMA CountTyped ==
  ASSUME NEW p PROVE Count(p) \in Counters
<1>1. /\ IsFiniteSet({u \in Users : p[u] = "APPROVED"})
      /\ IsFiniteSet({u \in Users : p[u] = "PENDING"})
  BY UsersAssumption, FS_Subset
<1> QED
  BY <1>1, FS_CardinalityType DEF Count, Counters

\* A statement sees committed rows and the rows its own transaction wrote.
LEMMA VisibleTyped ==
  ASSUME TypeOK, NEW t \in Tx PROVE Visible(t) \in [Users -> PartStatus]
BY DEF TypeOK, Visible, PartStatus

\* Who begins a transaction is alone if nobody else is active, and nobody else is.
LEMMA BeginsAlone ==
  ASSUME NEW t, NEW o, NEW next, Begin(t, o, next)
  PROVE  /\ alone' \in [Tx -> BOOLEAN]
         /\ \A s \in Tx : alone'[s] => s = t /\ \A r \in Others(t) : ~Active(r)
<1> DEFINE single(s) == s = t /\ \A r \in Others(t) : ~Active(r)
<1>1. alone' = [s \in Tx |-> single(s)]
  BY DEF Begin
<1>2. \A s \in Tx : single(s) \in BOOLEAN
  BY Zenon
<1>3. alone' \in [Tx -> BOOLEAN] /\ \A s \in Tx : alone'[s] = single(s)
  <2> HIDE DEF single
  <2> QED
    BY <1>1, <1>2, Zenon
<1>4. \A s \in Tx : alone'[s] => s = t /\ \A r \in Others(t) : ~Active(r)
  BY <1>3, Zenon
<1> QED
  BY <1>3, <1>4

\* Beginning a transaction, as far as the columns and the statements go.
Begun(t, o, next) ==
  /\ pc[t] = "idle"
  /\ op' = [op EXCEPT ![t] = o] /\ pc' = [pc EXCEPT ![t] = next]
  /\ alone' \in [Tx -> BOOLEAN]
  /\ UNCHANGED <<privacy, capacity, version, counter, part, accepted, terms, lowered>>

\* The statements that begin a transaction, each with what it will do.
LEMMA Beginnings ==
  ASSUME NEW u \in Users
  PROVE  /\ JoinRow(u) => Begun(u, "join", "inserted") \/ Begun(u, "rejoin", "checked")
         /\ LeaveRow(u) => Begun(u, "leave", "checked")
         /\ AdmitLock(u) \/ ReconfirmLock(u) => Begun(u, "admit", "locked")
<1>1. ASSUME NEW t, NEW o, NEW next, Begin(t, o, next) PROVE Begun(t, o, next)
  BY <1>1, BeginsAlone DEF Begin, Begun, committed, Active
<1> QED
  BY <1>1 DEF JoinRow, LeaveRow, AdmitLock, ReconfirmLock

\* The same of the host's edit.
LEMMA EditBegins ==
  ASSUME NEW c, NEW m, EditLock(c, m)
  PROVE  Begun(Host, "edit", IF m THEN "locked" ELSE "written")
BY BeginsAlone DEF EditLock, Begin, Begun, committed, Active

\* While the host edits, the new capacity is one that may be chosen.
DraftMeant == Active(Host) => draft.capacity \in Capacities
Typed == TypeOK /\ DraftMeant

\* Every row, lock and counter keeps its type.
LEMMA TypePreserved == Typed /\ [Next]_vars => Typed'
<1> SUFFICES ASSUME Typed, [Next]_vars PROVE Typed'
  OBVIOUS
<1> USE DEF Typed, TypeOK, DraftMeant, Active, committed, Counters
<1>1. ASSUME NEW u \in Users, UserMoves(u) PROVE Typed'
  <2> u \in Tx /\ Host \in Tx /\ u # Host
    BY UsersAssumption DEF Tx
  <2>1. CASE JoinRow(u)
    BY <2>1, Beginnings DEF JoinRow, Begun, PartStatus
  <2>2. CASE LeaveRow(u)
    BY <2>2, Beginnings DEF LeaveRow, Begun, PartStatus
  <2>3. CASE AdmitLock(u) \/ ReconfirmLock(u)
    <3>1. seen' = [seen EXCEPT ![u] = version] /\ UNCHANGED <<dirty, tally, draft>>
      BY <2>3 DEF AdmitLock, ReconfirmLock
    <3>2. Begun(u, "admit", "locked")
      BY <2>3, Beginnings
    <3> QED
      BY <3>1, <3>2 DEF Begun
  <2>4. CASE ForeignKeyCheck(u)
    BY <2>4 DEF ForeignKeyCheck, Advance
  <2>5. CASE AdmitRow(u)
    BY <2>5 DEF AdmitRow, Advance, PartStatus
  <2> QED
    BY <1>1, <2>1, <2>2, <2>3, <2>4, <2>5 DEF UserMoves
<1>2. CASE HostMoves
  <2> Host \in Tx
    BY DEF Tx
  <2>1. ASSUME NEW c \in Capacities, NEW m \in BOOLEAN, EditLock(c, m) PROVE Typed'
    <3>1. /\ draft' = [capacity |-> c, material |-> m] /\ tally' = [tally EXCEPT ![Host] = counter]
          /\ UNCHANGED <<dirty, seen>>
      BY <2>1 DEF EditLock
    <3>2. PICK n \in {"locked", "written"} : Begun(Host, "edit", n)
      BY <2>1, EditBegins
    <3> QED
      BY <3>1, <3>2 DEF Begun
  <2>2. CASE MarkApprovedPending
    BY <2>2 DEF MarkApprovedPending, Advance, PartStatus
  <2> QED
    BY <1>2, <2>1, <2>2 DEF HostMoves
<1>3. ASSUME NEW t \in Tx, AnyMoves(t) PROVE Typed'
  <2> Host \in Tx
    BY DEF Tx
  <2>1. CASE Recount(t)
    BY <2>1, CountTyped DEF Recount, Advance
  <2>2. CASE WriteCounters(t)
    BY <2>2 DEF WriteCounters, Advance
  <2>3. CASE Commit(t)
    <3>1. draft' \in [capacity : Capacities \cup {0}, material : BOOLEAN]
      BY <2>3 DEF Commit, Close
    <3>2. t = Host => draft.capacity \in Capacities
      BY <2>3 DEF Commit
    <3>3. accepted' \in [Users -> Nat]
      BY <2>3 DEF Commit
    <3>4. part' \in [Users -> PartStatus]
      BY <2>3, VisibleTyped DEF Commit
    <3>5. dirty' \in [Tx -> [Users -> PartStatus \cup {"CLEAN"}]]
      BY <2>3 DEF Commit, Close, Clean
    <3>6. alone' \in [Tx -> BOOLEAN]
      BY <2>3 DEF Commit, Close
    <3>7. /\ version' \in Nat /\ terms' \in Nat /\ lowered' \in BOOLEAN
          /\ capacity' \in Capacities
      <4>1. lowered' \in BOOLEAN
        BY <2>3 DEF Commit, Close
      <4>2. version' \in Nat /\ terms' \in Nat
        BY <2>3 DEF Commit, Close
      <4>3. capacity' \in Capacities
        BY <2>3, <3>2 DEF Commit, Close
      <4> QED
        BY <4>1, <4>2, <4>3
    <3>8. seen' \in [Tx -> Nat] /\ tally' \in [Tx -> Counters] /\ counter' \in Counters
      BY <2>3 DEF Commit, Close, NoSeats
    <3>9. /\ privacy' = privacy
          /\ op' \in [Tx -> {"none", "join", "rejoin", "leave", "admit", "edit"}]
          /\ pc' \in [Tx -> {"idle", "inserted", "locked", "checked", "counted", "written"}]
      BY <2>3 DEF Commit, Close
    <3>10. DraftMeant'
      BY <2>3 DEF Commit, Close
    <3> QED
      BY <3>1, <3>3, <3>4, <3>5, <3>6, <3>7, <3>8, <3>9, <3>10
  <2>4. CASE Rollback(t)
    BY <2>4 DEF Rollback, Close, NoSeats, Clean
  <2> QED
    BY <1>3, <2>1, <2>2, <2>3, <2>4 DEF AnyMoves
<1>4. CASE UNCHANGED vars
  BY <1>4 DEF vars
<1> QED
  BY <1>1, <1>2, <1>3, <1>4, EveryStep

\* A new event, with no transaction under way, has the right types.
LEMMA TypedInitially == Init => Typed
<1> SUFFICES ASSUME Init PROVE Typed
  OBVIOUS
<1>1. alone \in [Tx -> BOOLEAN]
  BY Zenon DEF Init
<1>2. dirty \in [Tx -> [Users -> PartStatus \cup {"CLEAN"}]]
  BY DEF Init, Clean
<1>3. draft \in [capacity : Capacities \cup {0}, material : BOOLEAN]
  BY DEF Init
<1>4. tally \in [Tx -> Counters] /\ counter \in Counters
  BY DEF Init, NoSeats, Counters
<1>5. ~Active(Host)
  BY DEF Init, Active, Tx
<1> QED
  BY <1>1, <1>2, <1>3, <1>4, <1>5, NumbersAssumption
     DEF Init, Typed, TypeOK, DraftMeant, PartStatus

-----------------------------------------------------------------------------
\* What the locks exclude: FOR UPDATE everything else, a written event row
\* another written event row.
Locks ==
  \A t \in Tx, s \in Tx : s # t =>
    /\ HoldsUpdate(t) => ~HoldsUpdate(s) /\ ~HoldsNoKey(s) /\ ~HoldsShare(s)
    /\ HoldsNoKey(t) => ~HoldsNoKey(s)

\* No statement gets a lock that another transaction's lock excludes.
LEMMA LocksPreserved == Typed /\ Locks /\ [Next]_vars => Locks'
<1> SUFFICES ASSUME Typed, Locks, [Next]_vars PROVE Locks'
  OBVIOUS
<1> USE DEF HoldsUpdate, HoldsNoKey, HoldsShare, Active
<1>1. op \in [Tx -> {"none", "join", "rejoin", "leave", "admit", "edit"}] /\ DOMAIN pc = Tx
  BY DEF Typed, TypeOK
<1>2. Host \in Tx /\ Users \subseteq Tx
  BY DEF Tx
<1>3. ASSUME NEW t \in Tx, NEW o, NEW n,
             op' = [op EXCEPT ![t] = o], pc' = [pc EXCEPT ![t] = n],
             n # "idle" /\ o \in {"admit", "edit"} => CanUpdate(t) \/ HoldsUpdate(t),
             n = "written" => CanNoKey(t) \/ HoldsUpdate(t) \/ HoldsNoKey(t),
             o = "join" /\ n \in {"checked", "counted", "written"} =>
               CanShare(t) \/ HoldsShare(t)
      PROVE  Locks'
  BY <1>1, <1>3 DEF Locks, CanUpdate, CanNoKey, CanShare, Others
<1>4. ASSUME NEW u \in Users, UserMoves(u) PROVE Locks'
  <2>1. CASE JoinRow(u) \/ LeaveRow(u)
    BY <1>2, <1>3, <2>1, Beginnings DEF Begun
  <2>2. CASE AdmitLock(u) \/ ReconfirmLock(u)
    <3>1. Begun(u, "admit", "locked") /\ CanUpdate(u)
      BY <2>2, Beginnings DEF AdmitLock, ReconfirmLock
    <3> QED
      BY <1>2, <1>3, <3>1 DEF Begun
  <2>3. CASE ForeignKeyCheck(u)
    <3>1. pc' = [pc EXCEPT ![u] = "checked"] /\ op' = [op EXCEPT ![u] = op[u]]
      BY <1>1, <2>3 DEF ForeignKeyCheck, Advance
    <3> QED
      BY <1>2, <1>3, <2>3, <3>1 DEF ForeignKeyCheck
  <2>4. CASE AdmitRow(u)
    <3>1. pc' = [pc EXCEPT ![u] = "checked"] /\ op' = [op EXCEPT ![u] = op[u]]
      BY <1>1, <2>4 DEF AdmitRow, Advance
    <3> QED
      BY <1>2, <1>3, <2>4, <3>1 DEF AdmitRow
  <2> QED
    BY <1>4, <2>1, <2>2, <2>3, <2>4 DEF UserMoves
<1>5. CASE HostMoves
  <2>1. ASSUME NEW c \in Capacities, NEW m \in BOOLEAN, EditLock(c, m) PROVE Locks'
    <3>1. PICK n \in {"locked", "written"} : Begun(Host, "edit", n)
      BY <2>1, EditBegins
    <3>2. CanUpdate(Host) /\ CanNoKey(Host)
      BY <2>1 DEF EditLock, CanUpdate, CanNoKey
    <3> QED
      BY <1>2, <1>3, <3>1, <3>2 DEF Begun
  <2>2. CASE MarkApprovedPending
    <3>1. PICK n \in {"checked", "written"} :
            pc' = [pc EXCEPT ![Host] = n] /\ op' = [op EXCEPT ![Host] = op[Host]]
      BY <1>1, <2>2 DEF MarkApprovedPending, Advance
    <3> QED
      BY <1>2, <1>3, <2>2, <3>1 DEF MarkApprovedPending
  <2> QED
    BY <1>5, <2>1, <2>2 DEF HostMoves
<1>6. ASSUME NEW t \in Tx, AnyMoves(t) PROVE Locks'
  <2>1. CASE Recount(t)
    <3>1. pc' = [pc EXCEPT ![t] = "counted"] /\ op' = [op EXCEPT ![t] = op[t]]
      BY <1>1, <2>1 DEF Recount, Advance
    <3> QED
      BY <1>3, <2>1, <3>1 DEF Recount
  <2>2. CASE WriteCounters(t)
    <3>1. pc' = [pc EXCEPT ![t] = "written"] /\ op' = [op EXCEPT ![t] = op[t]]
      BY <1>1, <2>2 DEF WriteCounters, Advance
    <3> QED
      BY <1>3, <2>2, <3>1 DEF WriteCounters
  <2>3. CASE Commit(t) \/ Rollback(t)
    BY <1>3, <2>3 DEF Commit, Rollback, Close
  <2> QED
    BY <1>6, <2>1, <2>2, <2>3 DEF AnyMoves
<1>7. CASE UNCHANGED vars
  BY <1>7 DEF vars, Locks
<1> QED
  BY <1>4, <1>5, <1>6, <1>7, EveryStep

-----------------------------------------------------------------------------
\* What a user's transaction has written, from what it does and how far it is.
Written(u) ==
  IF pc[u] \in {"idle", "locked"} THEN "CLEAN"
  ELSE IF op[u] = "leave" THEN "LEAVED" ELSE "APPROVED"

UserShape(u) ==
  /\ op[u] # "edit"
  /\ pc[u] = "idle" <=> op[u] = "none"
  /\ pc[u] = "inserted" => op[u] = "join"
  /\ pc[u] = "locked" => op[u] = "admit"
  /\ dirty[u] = [v \in Users |-> IF v = u THEN Written(u) ELSE "CLEAN"]

\* The edit marks rows PENDING only when it is material, and goes to the
\* trigger only when it has marked one.
HostShape ==
  /\ op[Host] = IF Active(Host) THEN "edit" ELSE "none"
  /\ pc[Host] # "inserted"
  /\ dirty[Host] \in [Users -> {"CLEAN", "PENDING"}]
  /\ pc[Host] \in {"idle", "locked"} => dirty[Host] = Clean
  /\ pc[Host] \in {"checked", "counted"} => dirty[Host] # Clean
  /\ Active(Host) /\ (pc[Host] = "locked" \/ dirty[Host] # Clean) => draft.material

Shape == HostShape /\ \A u \in Users : UserShape(u)

\* What the transactions have written always follows from where they are.
LEMMA ShapePreserved == Typed /\ Shape /\ [Next]_vars => Shape'
<1> SUFFICES ASSUME Typed, Shape, [Next]_vars PROVE Shape'
  OBVIOUS
<1> USE DEF Shape, Active
<1>1. /\ op \in [Tx -> {"none", "join", "rejoin", "leave", "admit", "edit"}]
      /\ pc \in [Tx -> {"idle", "inserted", "locked", "checked", "counted", "written"}]
      /\ dirty \in [Tx -> [Users -> PartStatus \cup {"CLEAN"}]]
  BY DEF Typed, TypeOK
<1>2. Host \in Tx /\ Users \subseteq Tx /\ Host \notin Users
  BY UsersAssumption DEF Tx
<1>3. ASSUME NEW u \in Users, NEW o, NEW n, NEW r,
             op' = [op EXCEPT ![u] = o], pc' = [pc EXCEPT ![u] = n],
             dirty' = [dirty EXCEPT ![u] = r], UNCHANGED draft, UserShape(u)'
      PROVE  Shape'
  <2>1. HostShape'
    BY <1>1, <1>2, <1>3 DEF HostShape
  <2>2. ASSUME NEW v \in Users, v # u PROVE UserShape(v)'
    BY <1>1, <1>2, <1>3, <2>2 DEF UserShape, Written
  <2> QED
    BY <1>3, <2>1, <2>2
<1>4. ASSUME NEW o, NEW n, NEW r,
             op' = [op EXCEPT ![Host] = o], pc' = [pc EXCEPT ![Host] = n],
             dirty' = [dirty EXCEPT ![Host] = r], HostShape'
      PROVE  Shape'
  BY <1>1, <1>2, <1>4 DEF UserShape, Written
<1>5. ASSUME NEW u \in Users, UserMoves(u) PROVE Shape'
  <2>1. CASE JoinRow(u)
    <3>1. PICK o \in {"join", "rejoin"}, n \in {"inserted", "checked"} :
            Begun(u, o, n) /\ (n = "inserted" => o = "join")
      BY <2>1, Beginnings
    <3>2. dirty' = [dirty EXCEPT ![u][u] = "APPROVED"] /\ UNCHANGED draft
      BY <2>1 DEF JoinRow
    <3>3. dirty' = [dirty EXCEPT ![u] = [@ EXCEPT ![u] = "APPROVED"]]
      BY <3>2
    <3>4. UserShape(u)'
      BY <1>1, <1>2, <3>1, <3>3 DEF Begun, UserShape, Written
    <3> QED
      BY <1>3, <3>1, <3>2, <3>3, <3>4 DEF Begun
  <2>2. CASE LeaveRow(u)
    <3>1. Begun(u, "leave", "checked")
      BY <2>2, Beginnings
    <3>2. dirty' = [dirty EXCEPT ![u] = [@ EXCEPT ![u] = "LEAVED"]] /\ UNCHANGED draft
      BY <2>2 DEF LeaveRow
    <3>3. UserShape(u)'
      BY <1>1, <1>2, <3>1, <3>2 DEF Begun, UserShape, Written
    <3> QED
      BY <1>3, <3>1, <3>2, <3>3 DEF Begun
  <2>3. CASE AdmitLock(u) \/ ReconfirmLock(u)
    <3>1. Begun(u, "admit", "locked")
      BY <2>3, Beginnings
    <3>2. dirty' = [dirty EXCEPT ![u] = dirty[u]] /\ UNCHANGED draft
      BY <1>1, <2>3 DEF AdmitLock, ReconfirmLock
    <3>3. UserShape(u)'
      BY <1>1, <1>2, <3>1, <3>2 DEF Begun, UserShape, Written
    <3> QED
      BY <1>3, <3>1, <3>2, <3>3 DEF Begun
  <2>4. CASE ForeignKeyCheck(u)
    <3>1. /\ pc' = [pc EXCEPT ![u] = "checked"] /\ op' = [op EXCEPT ![u] = op[u]]
          /\ dirty' = [dirty EXCEPT ![u] = dirty[u]] /\ UNCHANGED draft
          /\ pc[u] = "inserted"
      BY <1>1, <2>4 DEF ForeignKeyCheck, Advance
    <3>2. UserShape(u)'
      BY <1>1, <1>2, <3>1 DEF UserShape, Written
    <3> QED
      BY <1>3, <3>1, <3>2
  <2>5. CASE AdmitRow(u)
    <3>1. /\ pc' = [pc EXCEPT ![u] = "checked"] /\ op' = [op EXCEPT ![u] = op[u]]
          /\ dirty' = [dirty EXCEPT ![u] = [@ EXCEPT ![u] = "APPROVED"]] /\ UNCHANGED draft
          /\ op[u] = "admit"
      BY <1>1, <2>5 DEF AdmitRow, Advance
    <3>2. UserShape(u)'
      BY <1>1, <1>2, <3>1 DEF UserShape, Written
    <3> QED
      BY <1>3, <3>1, <3>2
  <2> QED
    BY <1>5, <2>1, <2>2, <2>3, <2>4, <2>5 DEF UserMoves
<1>6. CASE HostMoves
  <2>1. ASSUME NEW c \in Capacities, NEW m \in BOOLEAN, EditLock(c, m) PROVE Shape'
    <3>1. /\ Begun(Host, "edit", IF m THEN "locked" ELSE "written")
          /\ draft' = [capacity |-> c, material |-> m]
          /\ dirty' = [dirty EXCEPT ![Host] = dirty[Host]]
      BY <1>1, <2>1, EditBegins DEF EditLock
    <3>2. HostShape'
      BY <1>1, <1>2, <3>1 DEF Begun, HostShape
    <3> QED
      BY <1>4, <3>1, <3>2 DEF Begun
  <2>2. CASE MarkApprovedPending
    <3>1. /\ pc' = [pc EXCEPT ![Host] = IF ApprovedRows = {} THEN "written" ELSE "checked"]
          /\ op' = [op EXCEPT ![Host] = op[Host]] /\ UNCHANGED draft
          /\ dirty' = [dirty EXCEPT ![Host] =
                         [u \in Users |-> IF u \in ApprovedRows THEN "PENDING" ELSE "CLEAN"]]
          /\ op[Host] = "edit" /\ pc[Host] = "locked"
      BY <1>1, <2>2 DEF MarkApprovedPending, Advance
    <3>2. (ApprovedRows = {}) <=> dirty'[Host] = Clean
      BY <1>1, <1>2, <3>1 DEF Clean, ApprovedRows
    <3>3. HostShape'
      BY <1>1, <1>2, <3>1, <3>2 DEF HostShape
    <3> QED
      BY <1>4, <3>1, <3>3
  <2> QED
    BY <1>6, <2>1, <2>2 DEF HostMoves
<1>7. ASSUME NEW t \in Tx, AnyMoves(t) PROVE Shape'
  <2>1. CASE Recount(t) \/ WriteCounters(t)
    <3>1. PICK n \in {"counted", "written"} :
            /\ pc[t] \in {"checked", "counted"}
            /\ pc' = [pc EXCEPT ![t] = n] /\ op' = [op EXCEPT ![t] = op[t]]
            /\ dirty' = [dirty EXCEPT ![t] = dirty[t]] /\ UNCHANGED draft
      BY <1>1, <2>1 DEF Recount, WriteCounters, Advance
    <3>2. CASE t = Host
      <4>1. HostShape'
        BY <1>1, <1>2, <3>1, <3>2 DEF HostShape
      <4> QED
        BY <1>4, <3>1, <3>2, <4>1
    <3>3. CASE t \in Users
      <4>1. UserShape(t)'
        BY <1>1, <1>2, <3>1, <3>3 DEF UserShape, Written
      <4> QED
        BY <1>3, <3>1, <3>3, <4>1
    <3> QED
      BY <3>2, <3>3 DEF Tx
  <2>2. CASE Commit(t) \/ Rollback(t)
    <3>1. /\ pc' = [pc EXCEPT ![t] = "idle"] /\ op' = [op EXCEPT ![t] = "none"]
          /\ dirty' = [dirty EXCEPT ![t] = Clean] /\ (t # Host => UNCHANGED draft)
      BY <2>2 DEF Commit, Rollback, Close
    <3>2. CASE t = Host
      <4>1. HostShape'
        BY <1>1, <1>2, <3>1, <3>2 DEF HostShape, Clean
      <4> QED
        BY <1>4, <3>1, <3>2, <4>1
    <3>3. CASE t \in Users
      <4>1. UserShape(t)'
        BY <1>1, <1>2, <3>1, <3>3 DEF UserShape, Written, Clean
      <4> QED
        BY <1>2, <1>3, <3>1, <3>3, <4>1
    <3> QED
      BY <3>2, <3>3 DEF Tx
  <2> QED
    BY <1>7, <2>1, <2>2 DEF AnyMoves
<1>8. CASE UNCHANGED vars
  BY <1>8 DEF vars, UserShape, Written, HostShape
<1> QED
  BY <1>5, <1>6, <1>7, <1>8, EveryStep

-----------------------------------------------------------------------------
\* Who is marked as alone is alone.
Solitary == \A t \in Tx, s \in Tx : alone[t] /\ s # t => pc[s] = "idle"

\* Nobody stays marked as alone when somebody else begins.
LEMMA SolitaryPreserved == Typed /\ Solitary /\ [Next]_vars => Solitary'
<1> SUFFICES ASSUME Typed, Solitary, [Next]_vars PROVE Solitary'
  OBVIOUS
<1> USE DEF Solitary
<1>1. pc \in [Tx -> {"idle", "inserted", "locked", "checked", "counted", "written"}]
  BY DEF Typed, TypeOK
<1>2. Host \in Tx /\ Users \subseteq Tx
  BY DEF Tx
<1>3. ASSUME NEW x \in Tx, NEW o, NEW n, Begin(x, o, n) PROVE Solitary'
  <2>1. \A t \in Tx : alone'[t] => t = x /\ \A r \in Others(x) : ~Active(r)
    BY <1>3, BeginsAlone
  <2>2. pc' = [pc EXCEPT ![x] = n]
    BY <1>3 DEF Begin
  <2> QED
    BY <1>1, <2>1, <2>2 DEF Others, Active
<1>4. ASSUME NEW x \in Tx, NEW n, pc[x] # "idle", Advance(x, n) PROVE Solitary'
  BY <1>1, <1>4 DEF Advance
<1>5. ASSUME NEW x \in Tx, Close(x) PROVE Solitary'
  <2>1. \A t \in Tx : alone'[t] => alone[t]
    BY <1>5 DEF Close, Typed, TypeOK
  <2> QED
    BY <1>1, <1>5, <2>1 DEF Close
<1>6. ASSUME NEW u \in Users, UserMoves(u) PROVE Solitary'
  BY <1>2, <1>3, <1>4, <1>6
     DEF UserMoves, JoinRow, LeaveRow, AdmitLock, ReconfirmLock, ForeignKeyCheck, AdmitRow
<1>7. CASE HostMoves
  BY <1>2, <1>3, <1>4, <1>7 DEF HostMoves, EditLock, MarkApprovedPending
<1>8. ASSUME NEW t \in Tx, AnyMoves(t) PROVE Solitary'
  BY <1>4, <1>5, <1>8 DEF AnyMoves, Recount, WriteCounters, Commit, Rollback
<1>9. CASE UNCHANGED vars
  BY <1>9 DEF vars
<1> QED
  BY <1>6, <1>7, <1>8, <1>9, EveryStep

-----------------------------------------------------------------------------
Sound == Typed /\ Locks /\ Shape /\ Solitary

\* Types, locks, shapes and solitude hold in every state.
LEMMA SoundHolds == Spec => []Sound
<1>1. Init => Sound
  <2> SUFFICES ASSUME Init PROVE Locks /\ Shape /\ Solitary
    BY TypedInitially DEF Sound
  <2>1. Host \in Tx /\ Users \subseteq Tx
    BY DEF Tx
  <2> QED
    BY <2>1 DEF Init, Locks, HoldsUpdate, HoldsNoKey, Active, Shape, HostShape, UserShape,
                Written, Clean, Solitary
<1>2. Sound /\ [Next]_vars => Sound'
  BY TypePreserved, LocksPreserved, ShapePreserved, SolitaryPreserved DEF Sound
<1> QED
  BY <1>1, <1>2, PTL DEF Spec

\* While somebody holds the event FOR UPDATE, or is alone, nobody else commits.
LEMMA NobodyElseCommits ==
  ASSUME Sound, NEW t \in Tx, HoldsUpdate(t) \/ alone[t], NEW s \in Tx, Commit(s)
  PROVE  s = t
BY DEF Sound, Locks, Solitary, HoldsNoKey, Commit

\* What such a transaction counted is what is there when it commits.
CountIsExact(t) ==
  (HoldsUpdate(t) \/ alone[t]) /\ dirty[t] # Clean /\ pc[t] \in {"counted", "written"} =>
    tally[t] = Count(Visible(t))
CountsAreExact == \A t \in Tx : CountIsExact(t)

\* No step of another transaction touches what it counted.
LEMMA CountsPreserved == Sound /\ CountsAreExact /\ [Next]_vars => CountsAreExact'
<1> SUFFICES ASSUME Sound, CountsAreExact, [Next]_vars, NEW t \in Tx PROVE CountIsExact(t)'
  BY DEF CountsAreExact
<1> USE DEF CountIsExact, HoldsUpdate, Active
<1>1. /\ op \in [Tx -> {"none", "join", "rejoin", "leave", "admit", "edit"}]
      /\ pc \in [Tx -> {"idle", "inserted", "locked", "checked", "counted", "written"}]
      /\ DOMAIN dirty = Tx /\ DOMAIN tally = Tx
      /\ CountIsExact(t) /\ Shape
  BY DEF Sound, Typed, TypeOK, CountsAreExact
<1>2. Host \in Tx /\ Users \subseteq Tx
  BY DEF Tx
<1>3. ASSUME UNCHANGED <<op[t], pc[t], dirty[t], tally[t], part>>, alone'[t] => alone[t]
      PROVE  CountIsExact(t)'
  <2>1. Visible(t)' = Visible(t)
    BY <1>3 DEF Visible
  <2> QED
    BY <1>1, <1>3, <2>1 DEF Count
<1>4. ASSUME pc'[t] \notin {"counted", "written"} PROVE CountIsExact(t)'
  BY <1>4
<1>5. ASSUME NEW x \in Tx, NEW o, NEW n, Begin(x, o, n), n \notin {"counted", "written"},
             UNCHANGED tally, x # t => UNCHANGED dirty[t]
      PROVE  CountIsExact(t)'
  <2>1. CASE x = t
    BY <1>1, <1>4, <1>5, <2>1 DEF Begin
  <2>2. CASE x # t
    <3>1. ~alone'[t]
      BY <1>5, <2>2, BeginsAlone
    <3>2. UNCHANGED <<op[t], pc[t], part>>
      BY <1>1, <1>5, <2>2 DEF Begin, committed
    <3> QED
      BY <1>3, <1>5, <2>2, <3>1, <3>2
  <2> QED
    BY <2>1, <2>2
<1>6. ASSUME NEW u \in Users, UserMoves(u) PROVE CountIsExact(t)'
  <2>1. CASE JoinRow(u)
    BY <1>1, <1>2, <1>5, <2>1 DEF JoinRow
  <2>2. CASE LeaveRow(u)
    BY <1>1, <1>2, <1>5, <2>2 DEF LeaveRow
  <2>3. CASE AdmitLock(u) \/ ReconfirmLock(u)
    BY <1>1, <1>2, <1>5, <2>3 DEF AdmitLock, ReconfirmLock
  <2>4. CASE ForeignKeyCheck(u)
    BY <1>1, <1>2, <1>3, <1>4, <2>4 DEF ForeignKeyCheck, Advance, committed
  <2>5. CASE AdmitRow(u)
    BY <1>1, <1>2, <1>3, <1>4, <2>5 DEF AdmitRow, Advance, committed
  <2> QED
    BY <1>6, <2>1, <2>2, <2>3, <2>4, <2>5 DEF UserMoves
<1>7. CASE HostMoves
  <2>1. CASE t = Host
    <3>1. pc'[Host] \in {"counted", "written"} => dirty'[Host] = Clean
      <4>1. ASSUME NEW c \in Capacities, NEW m \in BOOLEAN, EditLock(c, m) PROVE dirty'[Host] = Clean
        BY <1>1, <4>1 DEF EditLock, Begin, Shape, HostShape
      <4>2. CASE MarkApprovedPending
        BY <1>1, <1>2, <4>2 DEF MarkApprovedPending, Advance, Clean
      <4> QED
        BY <1>7, <4>1, <4>2 DEF HostMoves
    <3> QED
      BY <2>1, <3>1 DEF Clean
  <2>2. CASE t # Host
    <3>1. ASSUME NEW c \in Capacities, NEW m \in BOOLEAN, EditLock(c, m) PROVE CountIsExact(t)'
      <4>1. ~alone'[t]
        BY <1>2, <2>2, <3>1, BeginsAlone DEF EditLock
      <4>2. UNCHANGED <<op[t], pc[t], dirty[t], tally[t], part>>
        BY <1>1, <1>2, <2>2, <3>1 DEF EditLock, Begin, committed
      <4> QED
        BY <1>3, <4>1, <4>2
    <3>2. CASE MarkApprovedPending
      BY <1>1, <1>2, <1>3, <2>2, <3>2 DEF MarkApprovedPending, Advance, committed
    <3> QED
      BY <1>7, <3>1, <3>2 DEF HostMoves
  <2> QED
    BY <2>1, <2>2
<1>8. ASSUME NEW x \in Tx, AnyMoves(x) PROVE CountIsExact(t)'
  <2>1. CASE Recount(x)
    <3>1. CASE x = t
      <4>1. tally'[t] = Count(Visible(t)) /\ UNCHANGED <<part, dirty>>
        BY <1>1, <2>1, <3>1 DEF Recount, Advance, committed
      <4> QED
        BY <4>1 DEF Visible, Count
    <3>2. CASE x # t
      BY <1>1, <1>3, <2>1, <3>2 DEF Recount, Advance, committed
    <3> QED
      BY <3>1, <3>2
  <2>2. CASE WriteCounters(x)
    <3>1. UNCHANGED <<op, dirty, tally, part, alone>> /\ pc' = [pc EXCEPT ![x] = "written"]
          /\ pc[x] = "counted"
      BY <2>2 DEF WriteCounters, Advance, committed
    <3>2. Visible(t)' = Visible(t)
      BY <3>1 DEF Visible
    <3> QED
      BY <1>1, <3>1, <3>2 DEF Count
  <2>3. CASE Commit(x) \/ Rollback(x)
    <3>1. CASE x = t
      BY <1>1, <1>4, <2>3, <3>1 DEF Commit, Rollback, Close
    <3>2. CASE x # t
      <4>1. /\ UNCHANGED <<op[t], pc[t], dirty[t], tally[t]>>
            /\ alone' = [alone EXCEPT ![x] = FALSE]
            /\ Commit(x) \/ UNCHANGED part
        BY <1>1, <2>3, <3>2 DEF Commit, Rollback, Close
      <4>2. alone'[t] = alone[t]
        BY <3>2, <4>1 DEF Sound, Typed, TypeOK
      <4>3. CASE UNCHANGED part
        BY <1>3, <4>1, <4>2, <4>3
      <4>4. CASE ~(HoldsUpdate(t) \/ alone[t])
        BY <4>1, <4>2, <4>4
      <4> QED
        BY <3>2, <4>1, <4>3, <4>4, NobodyElseCommits
    <3> QED
      BY <3>1, <3>2
  <2> QED
    BY <1>8, <2>1, <2>2, <2>3 DEF AnyMoves
<1>9. CASE UNCHANGED vars
  BY <1>3, <1>9 DEF vars, committed
<1> QED
  BY <1>6, <1>7, <1>8, <1>9, EveryStep

\* Whoever locked the event before counting, or was alone with it, leaves exact
\* counters behind, whatever the unlocked transactions around are doing.
THEOREM LockedCountsAreExact == Spec => RecountIsExact
<1>1. Init => CountsAreExact
  BY DEF Init, CountsAreExact, CountIsExact
<1>2. ASSUME Sound, CountsAreExact, NEW t \in Tx,
             HoldsUpdate(t) \/ alone[t], dirty[t] # Clean, Commit(t)
      PROVE  InSync'
  <2>1. tally[t] = Count(Visible(t))
    BY <1>2 DEF CountsAreExact, CountIsExact, Commit
  <2> QED
    BY <1>2, <2>1 DEF Commit, InSync, Count
<1>3. Sound /\ CountsAreExact =>
        [\A t \in Tx : (HoldsUpdate(t) \/ alone[t]) /\ dirty[t] # Clean /\ Commit(t)
                         => InSync']_vars
  BY <1>2
<1> QED
  BY <1>1, <1>3, SoundHolds, CountsPreserved, PTL DEF Spec, RecountIsExact

-----------------------------------------------------------------------------
\* Of all waiting transactions somebody would have to wait for a transaction
\* that has written, or for two that exclude each other.
THEOREM UsersCanGoOn == Spec => []UsersNeverDeadlock
<1>1. Sound => UsersNeverDeadlock
  <2> SUFFICES ASSUME Sound, ~Active(Host), NEW u \in Users, Active(u),
                      \A v \in Users : Active(v) => Waiting(v)
               PROVE  FALSE
    BY DEF UsersNeverDeadlock, Sound, Typed
  <2> USE DEF Waiting, Active, HoldsUpdate, HoldsNoKey, HoldsShare
  <2>1. \A t \in Tx : pc[t] # "written"
    BY DEF Tx
  <2>2. ASSUME NEW t \in Tx, HoldsUpdate(t) PROVE FALSE
    <3>1. t \in Users /\ op[t] = "admit" /\ Waiting(t)
      BY <2>2 DEF Tx, Sound, Shape, UserShape
    <3>2. ~CanNoKey(t)
      BY <3>1 DEF Sound, Shape, UserShape
    <3> QED
      BY <2>1, <2>2, <3>2 DEF CanNoKey, Others, Sound, Locks
  <2>3. CanShare(u) /\ CanNoKey(u)
    BY <2>1, <2>2 DEF CanShare, CanNoKey, Others
  <2> QED
    BY <2>3
<1> QED
  BY <1>1, SoundHolds, PTL

-----------------------------------------------------------------------------
\* Only a commit changes what others can read.
LEMMA OnlyCommitsShow ==
  ASSUME [Next]_vars PROVE UNCHANGED committed \/ \E t \in Tx : Commit(t)
BY EveryStep
   DEF vars, committed, UserMoves, JoinRow, LeaveRow, AdmitLock, ReconfirmLock,
       ForeignKeyCheck, AdmitRow, HostMoves, EditLock, MarkApprovedPending, AnyMoves, Recount,
       WriteCounters, Rollback, Begin, Advance, Close

\* What the commit of a user's transaction does to the rows.
LEMMA UserCommits ==
  ASSUME Sound, NEW u \in Users, Commit(u)
  PROVE  /\ op[u] \in {"join", "rejoin", "leave", "admit"}
         /\ part' = [part EXCEPT ![u] = IF op[u] = "leave" THEN "LEAVED" ELSE "APPROVED"]
         /\ accepted' = IF op[u] = "leave" THEN accepted ELSE [accepted EXCEPT ![u] = seen[u]]
         /\ dirty[u] # Clean
         /\ UNCHANGED <<privacy, version, capacity, terms, lowered, draft>>
<1>1. u # Host /\ u \in Tx
  BY UsersAssumption DEF Tx
<1>2. /\ op[u] \in {"join", "rejoin", "leave", "admit"}
      /\ dirty[u] = [v \in Users |-> IF v # u THEN "CLEAN"
                                     ELSE IF op[u] = "leave" THEN "LEAVED" ELSE "APPROVED"]
  BY <1>1 DEF Sound, Typed, TypeOK, Shape, UserShape, Written, Commit
<1>3. part \in [Users -> PartStatus] /\ accepted \in [Users -> Nat]
  BY DEF Sound, Typed, TypeOK
<1>4. part' = [part EXCEPT ![u] = IF op[u] = "leave" THEN "LEAVED" ELSE "APPROVED"]
  BY <1>2, <1>3 DEF Commit, Visible
<1>5. accepted' = IF op[u] = "leave" THEN accepted ELSE [accepted EXCEPT ![u] = seen[u]]
  BY <1>2, <1>3 DEF Commit
<1>6. dirty[u] # Clean
  BY <1>2 DEF Clean
<1> QED
  BY <1>1, <1>2, <1>4, <1>5, <1>6 DEF Commit, Close

\* What the commit of an edit does to them.
LEMMA EditCommits ==
  ASSUME Sound, Commit(Host)
  PROVE  /\ part' = [u \in Users |-> IF dirty[Host][u] = "PENDING" THEN "PENDING" ELSE part[u]]
         /\ accepted' = accepted
         /\ ~draft.material => dirty[Host] = Clean
         /\ HoldsUpdate(Host)
         /\ UNCHANGED privacy
<1>1. /\ dirty[Host] \in [Users -> {"CLEAN", "PENDING"}]
      /\ op[Host] = "edit" /\ (dirty[Host] # Clean => draft.material)
  BY DEF Sound, Shape, HostShape, Commit, Active
<1>2. part \in [Users -> PartStatus] /\ accepted \in [Users -> Nat]
  BY DEF Sound, Typed, TypeOK
<1>3. accepted' = accepted
  BY <1>1, <1>2 DEF Commit
<1>4. part' = [u \in Users |-> IF dirty[Host][u] = "PENDING" THEN "PENDING" ELSE part[u]]
  BY <1>1 DEF Commit, Visible
<1> QED
  BY <1>1, <1>3, <1>4 DEF Commit, Close, HoldsUpdate, Active

-----------------------------------------------------------------------------
\* Without direct joins: who is being admitted has read the current version, and
\* a material edit that has passed the participations has marked them all.
InviteOnly == privacy # "PUBLIC" => \A u \in Users : op[u] \notin {"join", "rejoin"}
TermsKept ==
  privacy # "PUBLIC" =>
    /\ terms <= version
    /\ \A u \in Users : op[u] = "admit" => seen[u] = version
    /\ draft.material /\ pc[Host] \in {"checked", "counted", "written"} =>
         \A u \in Users : part[u] = "APPROVED" => dirty[Host][u] = "PENDING"
    /\ ApprovedOnCurrentTerms

\* The way in never changes.
LEMMA InviteOnlyPreserved == Sound /\ InviteOnly /\ [Next]_vars => InviteOnly'
<1> SUFFICES ASSUME Sound, InviteOnly, [Next]_vars PROVE InviteOnly'
  OBVIOUS
<1>1. op \in [Tx -> {"none", "join", "rejoin", "leave", "admit", "edit"}] /\ Users \subseteq Tx
  BY DEF Sound, Typed, TypeOK, Tx
<1>2. ASSUME NEW u \in Users, UserMoves(u) PROVE InviteOnly'
  BY <1>1, <1>2
     DEF InviteOnly, UserMoves, JoinRow, LeaveRow, AdmitLock, ReconfirmLock, ForeignKeyCheck,
         AdmitRow, Begin, Advance, committed
<1>3. CASE HostMoves
  BY <1>1, <1>3, UsersAssumption
     DEF InviteOnly, HostMoves, EditLock, MarkApprovedPending, Begin, Advance, committed
<1>4. ASSUME NEW t \in Tx, AnyMoves(t) PROVE InviteOnly'
  BY <1>1, <1>4
     DEF InviteOnly, AnyMoves, Recount, WriteCounters, Commit, Rollback, Close, Advance, committed
<1>5. CASE UNCHANGED vars
  BY <1>5 DEF vars, committed, InviteOnly
<1> QED
  BY <1>2, <1>3, <1>4, <1>5, EveryStep

\* No admission and no edit slips past the terms while both take the event's lock.
LEMMA TermsPreserved == Sound /\ InviteOnly /\ TermsKept /\ [Next]_vars => TermsKept'
<1> SUFFICES ASSUME Sound, InviteOnly, TermsKept, [Next]_vars, (privacy # "PUBLIC")'
             PROVE  TermsKept'
  BY DEF TermsKept
<1> USE DEF TermsKept, ApprovedOnCurrentTerms
<1>1. /\ op \in [Tx -> {"none", "join", "rejoin", "leave", "admit", "edit"}]
      /\ pc \in [Tx -> {"idle", "inserted", "locked", "checked", "counted", "written"}]
      /\ DOMAIN dirty = Tx /\ seen \in [Tx -> Nat] /\ version \in Nat /\ terms \in Nat
      /\ part \in [Users -> PartStatus] /\ accepted \in [Users -> Nat]
  BY DEF Sound, Typed, TypeOK
<1>2. Host \in Tx /\ Users \subseteq Tx /\ Host \notin Users
  BY UsersAssumption DEF Tx
<1>3. ASSUME NEW u \in Users, UserMoves(u) PROVE TermsKept'
  <2>1. UNCHANGED <<committed, draft, pc[Host], dirty[Host]>>
    BY <1>1, <1>2, <1>3
       DEF UserMoves, JoinRow, LeaveRow, AdmitLock, ReconfirmLock, ForeignKeyCheck, AdmitRow,
           Begin, Advance
  <2>2. \A v \in Users : op'[v] = "admit" =>
          \/ op[v] = "admit" /\ seen'[v] = seen[v]
          \/ seen'[v] = version
    BY <1>1, <1>2, <1>3
       DEF UserMoves, JoinRow, LeaveRow, AdmitLock, ReconfirmLock, ForeignKeyCheck, AdmitRow,
           Begin, Advance
  <2> QED
    BY <2>1, <2>2 DEF committed
<1>4. CASE HostMoves
  <2>1. ASSUME NEW c \in Capacities, NEW m \in BOOLEAN, EditLock(c, m) PROVE TermsKept'
    <3>1. /\ UNCHANGED <<committed, seen, dirty>> /\ op' = [op EXCEPT ![Host] = "edit"]
          /\ draft'.material = m /\ pc'[Host] = IF m THEN "locked" ELSE "written"
      BY <1>1, <1>2, <2>1 DEF EditLock, Begin
    <3> QED
      BY <1>1, <1>2, <3>1 DEF committed
  <2>2. CASE MarkApprovedPending
    BY <1>1, <1>2, <2>2 DEF MarkApprovedPending, ApprovedRows, Advance, committed
  <2> QED
    BY <1>4, <2>1, <2>2 DEF HostMoves
<1>5. ASSUME NEW t \in Tx, Recount(t) \/ WriteCounters(t) \/ Rollback(t) PROVE TermsKept'
  <2>1. CASE Recount(t) \/ WriteCounters(t)
    BY <1>1, <1>2, <2>1 DEF Recount, WriteCounters, Advance, committed
  <2>2. CASE Rollback(t)
    BY <1>1, <1>2, <2>2 DEF Rollback, Close
  <2> QED
    BY <1>5, <2>1, <2>2
<1>6. ASSUME NEW u \in Users, Commit(u) PROVE TermsKept'
  <2>1. ~Active(Host)
    BY <1>2, <1>6, NobodyElseCommits DEF Sound, Shape, HostShape, HoldsUpdate
  <2>2. /\ UNCHANGED pc[Host] /\ \A v \in Users : op'[v] = "admit" => op[v] = "admit" /\ UNCHANGED seen[v]
    BY <1>1, <1>2, <1>6 DEF Commit, Close
  <2>3. op[u] \in {"leave", "admit"}
    BY <1>6, UserCommits DEF InviteOnly
  <2> QED
    BY <1>1, <1>2, <1>6, <2>1, <2>2, <2>3, UserCommits DEF Active
<1>7. CASE Commit(Host)
  <2>1. \A u \in Users : op[u] # "admit"
    BY <1>2, <1>7, NobodyElseCommits DEF Sound, Shape, UserShape, HoldsUpdate, Active
  <2>2. /\ version' = version + 1 /\ terms' = IF draft.material THEN version + 1 ELSE terms
        /\ pc'[Host] = "idle" /\ \A u \in Users : op'[u] # "admit"
    BY <1>1, <1>2, <1>7, <2>1 DEF Commit, Close
  <2>3. ASSUME NEW u \in Users, part'[u] = "APPROVED" PROVE accepted'[u] >= terms'
    BY <1>1, <1>7, <2>2, <2>3, EditCommits DEF Commit
  <2> QED
    BY <1>1, <1>2, <1>7, <2>2, <2>3, EditCommits
<1>8. CASE UNCHANGED vars
  BY <1>8 DEF vars, committed
<1> QED
  BY <1>3, <1>4, <1>5, <1>6, <1>7, <1>8, EveryStep DEF AnyMoves, Tx

\* While nobody can join directly, every approved participant has accepted the
\* last material version, also those let in while the host was editing.
THEOREM InvitedAcceptTerms == Spec => []GuardedApprovedOnCurrentTerms
<1>1. Init => InviteOnly /\ TermsKept
  BY DEF Init, InviteOnly, TermsKept, ApprovedOnCurrentTerms, Tx
<1>2. InviteOnly /\ TermsKept => GuardedApprovedOnCurrentTerms
  BY DEF TermsKept, GuardedApprovedOnCurrentTerms
<1> QED
  BY <1>1, <1>2, SoundHolds, InviteOnlyPreserved, TermsPreserved, PTL DEF Spec

-----------------------------------------------------------------------------
\* The seats a list of participations takes.
Holders(p) == {u \in Users : p[u] \in {"APPROVED", "PENDING"}}

\* Both counters together count the seats.
LEMMA SeatsOfCount ==
  ASSUME NEW p PROVE Seats(Count(p)) = Cardinality(Holders(p)) /\ Seats(Count(p)) \in Nat
<1> DEFINE A == {u \in Users : p[u] = "APPROVED"}
           P == {u \in Users : p[u] = "PENDING"}
<1>1. IsFiniteSet(A) /\ IsFiniteSet(P)
  BY UsersAssumption, FS_Subset
<1>2. A \cap P = {} /\ Holders(p) = A \cup P
  BY DEF Holders
<1>3. Cardinality(A \cap P) = 0
  BY <1>2, FS_EmptySet
<1>4. Cardinality(A) \in Nat /\ Cardinality(P) \in Nat
  BY <1>1, FS_CardinalityType
<1>5. Cardinality(A \cup P) = Cardinality(A) + Cardinality(P)
  <2> HIDE DEF A, P
  <2>1. Cardinality(A \cup P) = Cardinality(A) + Cardinality(P) - Cardinality(A \cap P)
    BY <1>1, FS_Union
  <2> QED
    BY <1>3, <1>4, <2>1
<1> QED
  BY <1>2, <1>4, <1>5 DEF Seats, Count

\* One user more or less is one seat more or less.
LEMMA OneSeat ==
  ASSUME NEW S \in SUBSET Users, NEW u \in Users
  PROVE  /\ Cardinality(S) \in Nat
         /\ u \notin S => Cardinality(S \cup {u}) = Cardinality(S) + 1
         /\ u \in S => Cardinality(S \ {u}) = Cardinality(S) - 1
BY UsersAssumption, FS_Subset, FS_CardinalityType, FS_AddElement, FS_RemoveElement

-----------------------------------------------------------------------------
\* Row locks: who leaves still has the seat until the commit, and nobody works
\* on a row the edit has marked.
RowsKept ==
  \A u \in Users :
    /\ op[u] = "leave" => u \in Seated
    /\ dirty[Host][u] # "CLEAN" => part[u] = "APPROVED" /\ op[u] = "none"

\* The row locks hold until their transactions end.
LEMMA RowsPreserved == Sound /\ RowsKept /\ [Next]_vars => RowsKept'
<1> SUFFICES ASSUME Sound, RowsKept, [Next]_vars PROVE RowsKept'
  OBVIOUS
<1> USE DEF RowsKept, Seated
<1>1. /\ op \in [Tx -> {"none", "join", "rejoin", "leave", "admit", "edit"}]
      /\ dirty \in [Tx -> [Users -> PartStatus \cup {"CLEAN"}]]
      /\ part \in [Users -> PartStatus] /\ DOMAIN pc = Tx
  BY DEF Sound, Typed, TypeOK
<1>2. Host \in Tx /\ Users \subseteq Tx /\ Host \notin Users
  BY UsersAssumption DEF Tx
<1>3. ASSUME NEW v \in Users, dirty[Host][v] # "CLEAN" PROVE HoldsUpdate(Host)
  BY <1>3 DEF Sound, Shape, HostShape, HoldsUpdate, Active, Clean
<1>4. ASSUME NEW u \in Users, UserMoves(u) PROVE RowsKept'
  <2>1. /\ UNCHANGED <<part, dirty[Host]>> /\ \A v \in Users : v # u => op'[v] = op[v]
        /\ op'[u] = "leave" => op[u] = "leave" \/ u \in Seated
    BY <1>1, <1>2, <1>4
       DEF UserMoves, JoinRow, LeaveRow, AdmitLock, ReconfirmLock, ForeignKeyCheck, AdmitRow,
           Begin, Advance, committed
  <2>2. ASSUME dirty[Host][u] # "CLEAN" PROVE op'[u] = "none"
    <3>1. ~JoinRow(u) /\ ~LeaveRow(u) /\ ~AdmitLock(u) /\ ~ReconfirmLock(u)
      BY <1>2, <1>3, <2>2
         DEF JoinRow, LeaveRow, RowFree, AdmitLock, ReconfirmLock, CanUpdate, Others
    <3> QED
      BY <1>4, <2>2, <3>1 DEF UserMoves, ForeignKeyCheck, AdmitRow, Advance
  <2> QED
    BY <1>1, <2>1, <2>2
<1>5. CASE HostMoves
  <2>1. ASSUME NEW c \in Capacities, NEW m \in BOOLEAN, EditLock(c, m) PROVE RowsKept'
    BY <1>1, <1>2, <2>1 DEF EditLock, Begin, committed
  <2>2. CASE MarkApprovedPending
    <3>1. /\ UNCHANGED <<op, part>> /\ HoldsUpdate(Host)
          /\ dirty'[Host] = [u \in Users |-> IF u \in ApprovedRows THEN "PENDING" ELSE "CLEAN"]
      BY <1>1, <1>2, <2>2 DEF MarkApprovedPending, Advance, committed, HoldsUpdate, Active
    <3>2. ASSUME NEW u \in ApprovedRows PROVE part[u] = "APPROVED" /\ op[u] = "none"
      <4>1. dirty[u][u] = "CLEAN" /\ u \in Users /\ part[u] = "APPROVED"
        BY <1>2, <2>2 DEF MarkApprovedPending, RowFree, Others, ApprovedRows
      <4>2. pc[u] \in {"idle", "locked"} /\ ~HoldsUpdate(u)
        BY <1>2, <3>1, <4>1 DEF Sound, Shape, UserShape, Written, Locks
      <4> QED
        BY <4>1, <4>2 DEF Sound, Shape, UserShape, HoldsUpdate, Active
    <3> QED
      BY <3>1, <3>2
  <2> QED
    BY <1>5, <2>1, <2>2 DEF HostMoves
<1>6. ASSUME NEW t \in Tx, Recount(t) \/ WriteCounters(t) \/ Rollback(t) PROVE RowsKept'
  <2>1. CASE Recount(t) \/ WriteCounters(t)
    BY <2>1 DEF Recount, WriteCounters, Advance, committed
  <2>2. CASE Rollback(t)
    BY <1>1, <1>2, <2>2 DEF Rollback, Close, Clean
  <2> QED
    BY <1>6, <2>1, <2>2
<1>7. ASSUME NEW u \in Users, Commit(u) PROVE RowsKept'
  <2>1. ~Active(Host)
    BY <1>2, <1>7, NobodyElseCommits DEF Sound, Shape, HostShape, HoldsUpdate
  <2>2. \A v \in Users : dirty'[Host][v] = "CLEAN"
    BY <1>1, <1>2, <1>7, <2>1 DEF Commit, Close, Sound, Shape, HostShape, Active, Clean
  <2>3. op' = [op EXCEPT ![u] = "none"] /\ \A v \in Users : v # u => part'[v] = part[v]
    BY <1>1, <1>7, UserCommits DEF Commit, Close
  <2> QED
    BY <1>1, <1>2, <2>2, <2>3
<1>8. CASE Commit(Host)
  <2>1. \A v \in Users : op'[v] = op[v] /\ dirty'[Host][v] = "CLEAN"
    BY <1>1, <1>2, <1>8 DEF Commit, Close, Clean
  <2> QED
    BY <1>1, <1>8, <2>1, EditCommits
<1>9. CASE UNCHANGED vars
  BY <1>9 DEF vars, committed
<1> QED
  BY <1>4, <1>5, <1>6, <1>7, <1>8, <1>9, EveryStep DEF AnyMoves, Tx

-----------------------------------------------------------------------------
\* Why drifting counters do no harm without direct joins: they may be wrong about
\* how many seats are taken, never about whether all of them are.  A stale count
\* is written by somebody who leaves, which frees a seat.
Taken == Cardinality(Seated)
FullIsKnown ==
  privacy # "PUBLIC" /\ ~lowered =>
    /\ Taken <= capacity /\ Seats(counter) <= capacity
    /\ Taken = capacity <=> Seats(counter) = capacity
    /\ \A u \in Users :
         /\ op[u] = "admit" /\ u \notin Seated => Taken < capacity
         /\ op[u] = "leave" /\ pc[u] \in {"counted", "written"} => Seats(tally[u]) < capacity
    /\ pc[Host] \in {"locked", "written"} /\ dirty[Host] = Clean => tally[Host] = counter

Known == Sound /\ InviteOnly /\ RowsKept /\ CountsAreExact

\* A leaver counts everybody's seats but the one given up.
LEMMA LeaverCounts ==
  ASSUME Known, NEW u \in Users, op[u] = "leave", pc[u] = "checked"
  PROVE  Seats(Count(Visible(u))) = Taken - 1
<1>1. dirty[u] = [v \in Users |-> IF v = u THEN "LEAVED" ELSE "CLEAN"]
  BY DEF Known, Sound, Shape, UserShape, Written
<1>2. Visible(u) = [v \in Users |-> IF v = u THEN "LEAVED" ELSE part[v]]
  BY <1>1 DEF Visible
<1>3. Holders(Visible(u)) = Seated \ {u} /\ u \in Seated /\ Seated \in SUBSET Users
  BY <1>2 DEF Holders, Seated, Known, RowsKept
<1> QED
  BY <1>3, SeatsOfCount, OneSeat DEF Taken

\* A user's commit keeps the counters right about a full event.
LEMMA UserCommitKeepsFull ==
  ASSUME Known, FullIsKnown, NEW u \in Users, Commit(u), privacy # "PUBLIC", ~lowered
  PROVE  /\ Taken' <= capacity /\ Seats(counter') <= capacity
         /\ Taken' = capacity <=> Seats(counter') = capacity
<1> USE DEF Known
<1>1. /\ op[u] \in {"leave", "admit"} /\ pc[u] = "written" /\ counter' = tally[u]
      /\ part \in [Users -> PartStatus] /\ capacity \in Nat /\ u \in Tx
      /\ Seated \in SUBSET Users
  BY UserCommits, NumbersAssumption DEF InviteOnly, Commit, Sound, Typed, TypeOK, Tx, Seated
<1>2. CASE op[u] = "leave"
  <2>1. Seated' = Seated \ {u} /\ u \in Seated
    BY <1>1, <1>2, UserCommits DEF Seated, RowsKept
  <2>2. Taken' = Taken - 1 /\ Taken \in Nat
    BY <1>1, <2>1, OneSeat DEF Taken
  <2>3. Seats(tally[u]) < capacity /\ Seats(tally[u]) \in Nat
    BY <1>1, <1>2 DEF FullIsKnown, Seats, Sound, Typed, TypeOK, Counters
  <2> QED
    BY <1>1, <2>2, <2>3 DEF FullIsKnown
<1>3. CASE op[u] = "admit"
  <2>1. counter' = Count(part')
    BY <1>1, <1>3, UserCommits DEF CountsAreExact, CountIsExact, HoldsUpdate, Active, Commit
  <2>2. Seats(counter') = Taken'
    BY <2>1, SeatsOfCount DEF Holders, Seated, Taken
  <2>3. Seated' = Seated \cup {u}
    BY <1>1, <1>3, UserCommits DEF Seated
  <2>4. Taken' <= capacity
    <3>1. CASE u \in Seated
      <4>1. Seated' = Seated
        BY <2>3, <3>1
      <4> QED
        BY <4>1 DEF Taken, FullIsKnown
    <3>2. CASE u \notin Seated
      BY <1>1, <1>3, <2>3, <3>2, OneSeat DEF Taken, FullIsKnown
    <3> QED
      BY <3>1, <3>2
  <2> QED
    BY <2>2, <2>4
<1> QED
  BY <1>1, <1>2, <1>3

\* So does the commit of an edit, which takes no seat from anybody.
LEMMA EditCommitKeepsFull ==
  ASSUME Known, FullIsKnown, Commit(Host), privacy # "PUBLIC", ~lowered'
  PROVE  /\ Taken' <= capacity' /\ Seats(counter') <= capacity'
         /\ Taken' = capacity' <=> Seats(counter') = capacity'
         /\ capacity <= capacity' /\ ~lowered
<1> USE DEF Known
<1>1. /\ Host \in Tx /\ pc[Host] = "written" /\ counter' = tally[Host]
      /\ part \in [Users -> PartStatus] /\ Seated \in SUBSET Users
  BY DEF Commit, Sound, Typed, TypeOK, Tx, Seated
<1>2. capacity \in Nat /\ Seats(counter) \in Nat /\ draft.capacity \in Nat
  <2>1. counter \in Counters /\ capacity \in Capacities /\ draft.capacity \in Capacities
    BY <1>1 DEF Sound, Typed, TypeOK, DraftMeant, Active
  <2>2. Seats(counter) \in Nat
    BY <2>1 DEF Seats, Counters
  <2> QED
    BY <2>1, <2>2, NumbersAssumption
<1>3. capacity' = draft.capacity /\ capacity <= capacity' /\ ~lowered
  <2>1. capacity' = draft.capacity /\ lowered' = (lowered \/ draft.capacity < capacity)
    BY DEF Commit
  <2>2. ~lowered /\ ~(draft.capacity < capacity)
    BY <2>1, Zenon
  <2> QED
    BY <1>2, <2>1, <2>2
<1>4. Seated' = Seated
  BY <1>1, EditCommits DEF Seated, RowsKept
<1>5. Taken' = Taken /\ Taken \in Nat
  BY <1>1, <1>4, UsersAssumption, FS_Subset, FS_CardinalityType DEF Taken
<1>6. CASE dirty[Host] = Clean
  BY <1>1, <1>2, <1>3, <1>5, <1>6 DEF FullIsKnown
<1>7. CASE dirty[Host] # Clean
  <2>1. counter' = Count(part')
    BY <1>1, <1>7, EditCommits DEF CountsAreExact, CountIsExact, Commit
  <2>2. Seats(counter') = Taken'
    BY <2>1, SeatsOfCount DEF Holders, Seated, Taken
  <2> QED
    BY <1>1, <1>2, <1>3, <1>5, <2>2 DEF FullIsKnown
<1> QED
  BY <1>3, <1>6, <1>7

\* No step makes the counters wrong about whether the event is full.
LEMMA FullPreserved == Known /\ FullIsKnown /\ [Next]_vars => FullIsKnown'
<1> SUFFICES ASSUME Known, FullIsKnown, [Next]_vars, (privacy # "PUBLIC" /\ ~lowered)'
             PROVE  FullIsKnown'
  BY DEF FullIsKnown
<1>1. /\ op \in [Tx -> {"none", "join", "rejoin", "leave", "admit", "edit"}]
      /\ pc \in [Tx -> {"idle", "inserted", "locked", "checked", "counted", "written"}]
      /\ DOMAIN dirty = Tx /\ DOMAIN tally = Tx
      /\ part \in [Users -> PartStatus] /\ capacity \in Nat
  BY NumbersAssumption DEF Known, Sound, Typed, TypeOK
<1>2. Host \in Tx /\ Users \subseteq Tx /\ Host \notin Users
  BY UsersAssumption DEF Tx
<1>3. Taken \in Nat
  BY UsersAssumption, FS_Subset, FS_CardinalityType DEF Taken, Seated
<1>4. ASSUME UNCHANGED committed,
             UNCHANGED <<pc[Host], dirty[Host], tally[Host]>>
               \/ pc'[Host] \notin {"locked", "written"} \/ dirty'[Host] # Clean
               \/ tally'[Host] = counter,
             \A u \in Users :
               /\ op'[u] = "admit" => op[u] = "admit" \/ u \in Seated \/ Taken < capacity
               /\ op'[u] = "leave" /\ pc'[u] \in {"counted", "written"} =>
                    \/ Seats(tally'[u]) < capacity
                    \/ op[u] = "leave" /\ pc[u] \in {"counted", "written"} /\ UNCHANGED tally[u]
      PROVE  FullIsKnown'
  <2>1. Seated' = Seated /\ Taken' = Taken
    BY <1>4 DEF committed, Seated, Taken
  <2> QED
    BY <1>4, <2>1 DEF committed, FullIsKnown, Seats
<1>5. ASSUME NEW u \in Users, UserMoves(u) PROVE FullIsKnown'
  <2>1. /\ UNCHANGED <<committed, pc[Host], dirty[Host], tally>>
        /\ \A v \in Users : v # u => UNCHANGED <<op[v], pc[v]>>
        /\ op'[u] = "leave" => pc'[u] \notin {"counted", "written"}
    BY <1>1, <1>2, <1>5
       DEF UserMoves, JoinRow, LeaveRow, AdmitLock, ReconfirmLock, ForeignKeyCheck, AdmitRow,
           Begin, Advance
  <2>2. op'[u] = "admit" => op[u] = "admit" \/ u \in Seated \/ Seats(counter) < capacity
    BY <1>1, <1>2, <1>5
       DEF UserMoves, JoinRow, LeaveRow, AdmitLock, ReconfirmLock, ForeignKeyCheck, AdmitRow,
           Begin, Advance, Seated
  <2>3. Seats(counter) < capacity => Taken < capacity
    BY <1>1, <1>3, <2>1 DEF FullIsKnown, committed
  <2> QED
    BY <1>1, <1>2, <1>4, <2>1, <2>2, <2>3
<1>6. CASE HostMoves
  <2>1. ASSUME NEW c \in Capacities, NEW m \in BOOLEAN, EditLock(c, m) PROVE FullIsKnown'
    <3>1. /\ UNCHANGED committed /\ tally' = [tally EXCEPT ![Host] = counter]
          /\ \A u \in Users : UNCHANGED <<op[u], pc[u]>>
      BY <1>1, <1>2, <2>1 DEF EditLock, Begin
    <3> QED
      BY <1>1, <1>2, <1>4, <3>1
  <2>2. CASE MarkApprovedPending
    <3>1. /\ UNCHANGED <<committed, tally, op>> /\ \A u \in Users : UNCHANGED pc[u]
          /\ pc[Host] = "locked" /\ dirty[Host] = Clean
      BY <1>1, <1>2, <2>2 DEF MarkApprovedPending, Advance, Known, Sound, Shape, HostShape
    <3>2. tally[Host] = counter
      BY <3>1 DEF FullIsKnown, committed
    <3> QED
      BY <1>1, <1>2, <1>4, <3>1, <3>2
  <2> QED
    BY <1>6, <2>1, <2>2 DEF HostMoves
<1>7. ASSUME NEW t \in Tx, Recount(t) PROVE FullIsKnown'
  <2>1. /\ UNCHANGED <<committed, op, dirty>> /\ pc' = [pc EXCEPT ![t] = "counted"]
        /\ tally' = [tally EXCEPT ![t] = Count(Visible(t))] /\ pc[t] = "checked"
    BY <1>7 DEF Recount, Advance
  <2>2. t \in Users /\ op[t] = "leave" => Seats(tally'[t]) < capacity
    BY <1>1, <1>3, <2>1, LeaverCounts DEF FullIsKnown, committed
  <2> QED
    BY <1>1, <1>2, <1>4, <2>1, <2>2
<1>8. ASSUME NEW t \in Tx, WriteCounters(t) PROVE FullIsKnown'
  <2>1. /\ UNCHANGED <<committed, op, dirty, tally>> /\ pc' = [pc EXCEPT ![t] = "written"]
        /\ pc[t] = "counted"
    BY <1>8 DEF WriteCounters, Advance
  <2>2. t = Host => dirty'[Host] # Clean
    BY <2>1 DEF Known, Sound, Shape, HostShape
  <2> QED
    BY <1>1, <1>2, <1>4, <2>1, <2>2
<1>9. ASSUME NEW t \in Tx, Rollback(t) PROVE FullIsKnown'
  <2>1. /\ UNCHANGED committed /\ op' = [op EXCEPT ![t] = "none"]
        /\ pc' = [pc EXCEPT ![t] = "idle"] /\ dirty' = [dirty EXCEPT ![t] = Clean]
        /\ tally' = [tally EXCEPT ![t] = NoSeats]
    BY <1>9 DEF Rollback, Close, committed
  <2> QED
    BY <1>1, <1>2, <1>4, <2>1
<1>10. ASSUME NEW t \in Tx, Commit(t)
       PROVE  /\ \A u \in Users : op'[u] # "admit"
              /\ \A u \in Users : op'[u] = "leave" => op[u] = "leave" /\ UNCHANGED <<pc[u], tally[u]>>
              /\ pc'[Host] = "idle"
  <2>1. op' = [op EXCEPT ![t] = "none"] /\ pc' = [pc EXCEPT ![t] = "idle"]
        /\ tally' = [tally EXCEPT ![t] = NoSeats]
    BY <1>10 DEF Commit, Close
  <2>2. ASSUME NEW s \in Tx, HoldsUpdate(s) PROVE s = t
    BY <1>10, <2>2, NobodyElseCommits DEF Known
  <2>3. \A u \in Users : op[u] = "admit" => HoldsUpdate(u)
    BY <1>2 DEF HoldsUpdate, Active, Known, Sound, Shape, UserShape
  <2>4. pc[Host] # "idle" => HoldsUpdate(Host)
    BY <1>2 DEF HoldsUpdate, Active, Known, Sound, Shape, HostShape
  <2> QED
    BY <1>1, <1>2, <2>1, <2>2, <2>3, <2>4
<1>11. ASSUME NEW u \in Users, Commit(u) PROVE FullIsKnown'
  <2>1. UNCHANGED <<privacy, capacity, lowered>>
    BY <1>11, UserCommits DEF Known
  <2>2. \A v \in Users :
          op'[v] = "leave" /\ pc'[v] \in {"counted", "written"} => Seats(tally'[v]) < capacity
    BY <1>2, <1>10, <1>11, <2>1 DEF FullIsKnown, Seats
  <2> QED
    BY <1>2, <1>10, <1>11, <2>1, <2>2, UserCommitKeepsFull DEF FullIsKnown, Seats
<1>12. CASE Commit(Host)
  <2>1. privacy # "PUBLIC"
    BY <1>12, EditCommits DEF Known
  <2>2. \A v \in Users :
          op'[v] = "leave" /\ pc'[v] \in {"counted", "written"} => Seats(tally'[v]) < capacity'
    <3>1. ASSUME NEW v \in Users, op'[v] = "leave", pc'[v] \in {"counted", "written"}
          PROVE  Seats(tally'[v]) < capacity'
      <4>1. Seats(tally[v]) < capacity /\ tally'[v] = tally[v]
        BY <1>2, <1>10, <1>12, <2>1, <3>1, EditCommitKeepsFull DEF FullIsKnown
      <4>2. tally[v] \in Counters /\ capacity' \in Nat
        BY <1>2, <3>1, TypePreserved, NumbersAssumption DEF Known, Sound, Typed, TypeOK
      <4> QED
        BY <1>1, <1>12, <2>1, <4>1, <4>2, EditCommitKeepsFull DEF Seats, Counters
    <3> QED
      BY <3>1
  <2> QED
    BY <1>2, <1>10, <1>12, <2>1, <2>2, EditCommitKeepsFull DEF FullIsKnown, Seats
<1>13. CASE UNCHANGED vars
  BY <1>4, <1>13 DEF vars
<1> QED
  BY <1>5, <1>6, <1>7, <1>8, <1>9, <1>11, <1>12, <1>13, EveryStep DEF AnyMoves, Tx

\* All of it holds in every state.
LEMMA FullHolds == Spec => [](Known /\ FullIsKnown)
<1>1. Init => InviteOnly /\ RowsKept /\ CountsAreExact /\ FullIsKnown
  <2> SUFFICES ASSUME Init PROVE InviteOnly /\ RowsKept /\ FullIsKnown
    BY DEF Init, CountsAreExact, CountIsExact
  <2>1. Seated = {} /\ Host \in Tx /\ Users \subseteq Tx
    BY DEF Init, Seated, Tx
  <2>2. Taken = 0 /\ Seats(counter) = 0 /\ capacity \in Nat \ {0}
    BY <2>1, FS_EmptySet, NumbersAssumption DEF Taken, Init, Seats, NoSeats
  <2>3. InviteOnly /\ RowsKept
    BY <2>1 DEF Init, InviteOnly, RowsKept, Clean
  <2> QED
    BY <2>1, <2>2, <2>3 DEF Init, FullIsKnown
<1>2. Known /\ FullIsKnown /\ Sound' /\ [Next]_vars => Known' /\ FullIsKnown'
  BY InviteOnlyPreserved, RowsPreserved, CountsPreserved, FullPreserved DEF Known
<1>3. Sound /\ InviteOnly /\ RowsKept /\ CountsAreExact => Known
  BY DEF Known
<1> QED
  BY <1>1, <1>2, <1>3, SoundHolds, PTL DEF Spec

\* While nobody can join directly and the host has not lowered the capacity, the
\* seats never exceed it, although the counters drift.
THEOREM InvitedFitTheCapacity == Spec => []GuardedSeatsWithinCapacity
<1>1. FullIsKnown => GuardedSeatsWithinCapacity
  BY DEF FullIsKnown, GuardedSeatsWithinCapacity, SeatsWithinCapacity, Taken
<1> QED
  BY <1>1, FullHolds, PTL

\* Nor is a free seat ever refused for good, and not even while transactions are
\* under way.
THEOREM FreeSeatsAreOffered == Spec => []GuardedFreeSeatIsOffered
<1>1. Known /\ FullIsKnown => GuardedFreeSeatIsOffered
  <2> SUFFICES ASSUME Known, FullIsKnown, privacy # "PUBLIC", ~lowered, Taken < capacity
               PROVE  Seats(counter) < capacity
    BY DEF GuardedFreeSeatIsOffered, FreeSeatIsOffered, Taken
  <2>1. counter \in Counters /\ capacity \in Nat /\ Taken \in Nat
    BY NumbersAssumption, UsersAssumption, FS_Subset, FS_CardinalityType
       DEF Known, Sound, Typed, TypeOK, Taken, Seated
  <2> QED
    BY <2>1 DEF FullIsKnown, Seats, Counters
<1> QED
  BY <1>1, FullHolds, PTL
=============================================================================
