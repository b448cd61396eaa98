------------------------------ MODULE MCEventD ------------------------------
(***************************************************************************)
(* The instance of EventD for TLC: one event type and two listeners.       *)
(***************************************************************************)
EXTENDS EventD

CONSTANTS e1, o1, o2
=============================================================================
