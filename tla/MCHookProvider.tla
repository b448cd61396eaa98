--------------------------- MODULE MCHookProvider ---------------------------
(***************************************************************************)
(* Instances of HookProvider for TLC: arrays of two entries at most, and   *)
(* what callbacks are allowed to do.                                       *)
(***************************************************************************)
EXTENDS HookProvider, TLC

MCMaxCount == <<1, 2, 2, 2>>
Watched == {Surveyor, HookModifier}
Listening == {Listener}

Meek == [fn \in Fn |-> IF fn = "command" THEN Operation ELSE {}]

\* Callbacks of a flow register (which cleans up first), unregister and destruct
\* anybody, superseded ones may unregister.  Surveyors may destruct whom they are
\* asked about, or themselves, and clean up when they are asked for leave.
Storming ==
  [Meek EXCEPT !["command"] = {"register", "unregister", "expire", "flow"},
               !["flow"] = {"register", "unregister", "destruct"},
               !["allow"] = {"destruct", "clean"},
               !["superseded"] = {"unregister"},
               !["register"] = {"destruct"}]

Symmetry == Permutations(CONSUMER)
=============================================================================
