------------------------------ MODULE Attendance ------------------------------
(***************************************************************************)
(* What an event promises to those who attend it, whatever its privacy     *)
(* level: no clock, no versions, no requests, no invitations and no calls  *)
(* under way.  Each user has a seat or none, and a place before the door.  *)
(* The detailed lifecycle implements this.                                 *)
(***************************************************************************)
EXTENDS Naturals, FiniteSets

CONSTANTS
  Users,
  Capacities, NoLimit

VARIABLES
  seat,    \* "none", "in", or "waiting" to agree to the terms again
  door,    \* "shut", "open", or "passed" by those who were checked in
  barred,  \* the users who may not come back
  seats,   \* how many there are
  over     \* the event was canceled or completed

vars == <<seat, door, barred, seats, over>>

Seated == {u \in Users : seat[u] # "none"}

Init ==
  /\ seat = [u \in Users |-> "none"] /\ door = [u \in Users |-> "shut"]
  /\ barred = {} /\ over = FALSE
  /\ seats \in Capacities \cup {NoLimit}

-----------------------------------------------------------------------------
(* One user takes a free seat and finds the door open.  A join that was    *)
(* checked before the event ended may still do so after it.                *)
Enter(u) ==
  /\ seat[u] = "none" /\ u \notin barred
  /\ seats # NoLimit => Cardinality(Seated) < seats
  /\ seat' = [seat EXCEPT ![u] = "in"]
  /\ door' = [door EXCEPT ![u] = "open"]
  /\ UNCHANGED <<barred, seats, over>>

(* One user gives the seat back, and may be kept out from then on.         *)
Leave(u) ==
  /\ seat[u] # "none"
  /\ seat' = [seat EXCEPT ![u] = "none"]
  /\ door' = [door EXCEPT ![u] = IF @ = "open" THEN "shut" ELSE @]
  /\ barred' \in {barred, barred \cup {u}}
  /\ UNCHANGED <<seats, over>>

Agree(u) ==
  /\ ~over /\ seat[u] = "waiting"
  /\ seat' = [seat EXCEPT ![u] = "in"]
  /\ door' = [door EXCEPT ![u] = "open"]
  /\ UNCHANGED <<barred, seats, over>>

CheckIn(u) ==
  /\ ~over /\ seat[u] = "in" /\ door[u] = "open"
  /\ door' = [door EXCEPT ![u] = "passed"]
  /\ UNCHANGED <<seat, barred, seats, over>>

(* What happens to all of them happens in one step, to each or to nobody.  *)
DoorsShut == [u \in Users |-> IF door[u] = "open" THEN "shut" ELSE door[u]]

(* The host never takes a seat away, but may ask everybody again.          *)
Change ==
  /\ ~over
  /\ seats' \in Capacities \cup {NoLimit}
  /\ seats' # NoLimit => Cardinality(Seated) <= seats'
  /\ \/ UNCHANGED <<seat, door>>
     \/ /\ seat' = [u \in Users |-> IF seat[u] = "in" THEN "waiting" ELSE seat[u]]
        /\ door' = DoorsShut
  /\ UNCHANGED <<barred, over>>

(* Whoever still waits when the event starts is let in.                    *)
Start ==
  /\ ~over
  /\ seat' = [u \in Users |-> IF seat[u] = "waiting" THEN "in" ELSE seat[u]]
  /\ door' = [u \in Users |-> IF seat[u] = "waiting" /\ door[u] = "shut"
                              THEN "open" ELSE door[u]]
  /\ UNCHANGED <<barred, seats, over>>

Complete ==
  /\ ~over /\ over' = TRUE
  /\ door' = DoorsShut
  /\ UNCHANGED <<seat, barred, seats>>

Cancel ==
  /\ ~over /\ over' = TRUE
  /\ seat' = [u \in Users |-> "none"]
  /\ door' = DoorsShut
  /\ barred' = barred \cup Seated
  /\ UNCHANGED seats

-----------------------------------------------------------------------------
Next ==
  \/ \E u \in Users : Enter(u) \/ Leave(u) \/ Agree(u) \/ CheckIn(u)
  \/ Change \/ Start \/ Complete \/ Cancel

Spec == Init /\ [][Next]_vars
=============================================================================
