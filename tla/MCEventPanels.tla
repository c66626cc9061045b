---------------------------- MODULE MCEventPanels ----------------------------
(***************************************************************************)
(* Instances of EventPanels for TLC.                                       *)
(***************************************************************************)
EXTENDS EventPanels
=============================================================================
