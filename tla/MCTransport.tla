---------------------------- MODULE MCTransport ----------------------------
(***************************************************************************)
(* Instances of Transport for TLC.                                         *)
(***************************************************************************)
EXTENDS Transport

CONSTANTS harbour, island, lighthouse

\* three stops, with a message on the way
TravelRoute == <<harbour, Message, island, lighthouse>>

\* a stop between the first and the last
LongRoute == <<harbour, island, lighthouse>>
=============================================================================
