----------------------------- MODULE RemoteCall -----------------------------
(***************************************************************************)
(* What a request over intermud promises the one who makes it: it is run   *)
(* as a new request at most once, and it ends once, with the answer or     *)
(* with a time-out.  A time-out says nothing about whether it was, or will *)
(* be, run.                                                                *)
(***************************************************************************)
EXTENDS Naturals

CONSTANT CALL

VARIABLES
  call,  \* "new", "open", "answered" or "timedout"
  ran    \* how often a call was run as new

rvars == <<call, ran>>

Init == call = [c \in CALL |-> "new"] /\ ran = [c \in CALL |-> 0]

Make(c) == call[c] = "new" /\ call' = [call EXCEPT ![c] = "open"] /\ ran' = ran

Run(c) ==
  /\ call[c] # "new" /\ ran[c] = 0
  /\ ran' = [ran EXCEPT ![c] = 1]
  /\ call' = call

Answer(c) ==
  /\ call[c] = "open" /\ ran[c] = 1
  /\ call' = [call EXCEPT ![c] = "answered"]
  /\ ran' = ran

TimeOut(c) ==
  /\ call[c] = "open"
  /\ call' = [call EXCEPT ![c] = "timedout"]
  /\ ran' = ran

Next == \E c \in CALL : Make(c) \/ Run(c) \/ Answer(c) \/ TimeOut(c)

Spec == Init /\ [][Next]_rvars
=============================================================================
