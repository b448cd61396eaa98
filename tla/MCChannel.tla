----------------------------- MODULE MCChannel -----------------------------
(***************************************************************************)
(* Instances of Channel for TLC: o1 is an object that can be loaded and has *)
(* the channel n1 of channeld.init, o2 a player and archwizard.             *)
(***************************************************************************)
EXTENDS Channel

CONSTANTS o1, o2, n1

MCDefaults == [n \in {n1} |-> [creator |-> o1, fixed |-> TRUE]]

=============================================================================
