------------------------------ MODULE MCInetd -------------------------------
(***************************************************************************)
(* Instances of Inetd for TLC.                                             *)
(***************************************************************************)
EXTENDS Inetd, TLC

Symmetry == Permutations(MUD)

\* No daemon is reloaded (MaxRestarts = 0).
SteadySpec == Init /\ [][Work]_vars
=============================================================================
