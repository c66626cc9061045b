----------------------------- MODULE MCEventForms -----------------------------
(***************************************************************************)
(* Instances of EventForms for TLC.  Places are interchangeable, and so    *)
(* are devices.                                                            *)
(***************************************************************************)
EXTENDS EventForms, TLC

Symmetry == Permutations(Place) \union Permutations(Device)
=============================================================================
