--------------------------- MODULE MCSeatCounting ---------------------------
(***************************************************************************)
(* Instances of SeatCounting for TLC: the users are interchangeable.       *)
(***************************************************************************)
EXTENDS SeatCounting, TLC

Symmetry == Permutations(Users)
=============================================================================
