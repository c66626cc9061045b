----------------------------- MODULE MCEventPage -----------------------------
(* Instance of EventPage for TLC: handlers are interchangeable. *)
EXTENDS EventPage, TLC

Symmetry == Permutations(Tasks)
==============================================================================
