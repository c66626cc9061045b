-------------------------- MODULE MCEventLifecycle --------------------------
(***************************************************************************)
(* Instances of EventLifecycle for TLC.  The users are interchangeable     *)
(* when all of them are eligible.                                          *)
(***************************************************************************)
EXTENDS EventLifecycle, TLC

Symmetry == Permutations(Users)
=============================================================================
