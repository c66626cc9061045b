--------------------------- MODULE MCTicketAccess ---------------------------
(***************************************************************************)
(* Instances of TicketAccess for TLC: the devices are interchangeable.     *)
(***************************************************************************)
EXTENDS TicketAccess, TLC

Symmetry == Permutations(Devices)
=============================================================================
