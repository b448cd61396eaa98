------------------------------ MODULE EventBus ------------------------------
(***************************************************************************)
(* What the event dispatcher promises: events are dispatched one at a time *)
(* in the order in which they were accepted.  An event is owed to everyone *)
(* who is subscribed when its dispatch begins, is delivered to each of     *)
(* them at most once and only while they are subscribed, and is finished   *)
(* when it is owed to no one.  Only the loss of the whole bus loses        *)
(* events.                                                                 *)
(***************************************************************************)
EXTENDS Naturals, Sequences

CONSTANTS EID, OBJ, Id

VARIABLES
  queue,        \* accepted events, the one being dispatched first
  subs,         \* subs[e]: the subscribers of e
  dispatching,  \* the head of the queue is being dispatched
  owed,         \* whom the head is still owed to
  done          \* to whom the head was delivered

bvars == <<queue, subs, dispatching, owed, done>>

Quiet == queue = <<>> /\ dispatching = FALSE /\ owed = {} /\ done = {}
Init == Quiet /\ subs = [e \in EID |-> {}]

Subscribe(e, o) ==
  /\ subs' = [subs EXCEPT ![e] = @ \cup {o}]
  /\ UNCHANGED <<queue, dispatching, owed, done>>

\* What is not delivered yet is not owed any more.
Unsubscribe(e, o) ==
  /\ subs' = [subs EXCEPT ![e] = @ \ {o}]
  /\ owed' = IF dispatching /\ Head(queue).eid = e THEN owed \ {o} ELSE owed
  /\ UNCHANGED <<queue, dispatching, done>>

Accept(e) ==
  /\ \E id \in Id : queue' = Append(queue, [id |-> id, eid |-> e])
  /\ UNCHANGED <<subs, dispatching, owed, done>>

Begin ==
  /\ ~dispatching /\ queue # <<>>
  /\ dispatching' = TRUE
  /\ owed' = subs[Head(queue).eid]
  /\ UNCHANGED <<queue, subs, done>>

Deliver(o) ==
  /\ dispatching
  /\ o \in owed /\ o \in subs[Head(queue).eid] /\ o \notin done
  /\ owed' = owed \ {o}
  /\ done' = done \cup {o}
  /\ UNCHANGED <<queue, subs, dispatching>>

\* A subscriber that does not exist any more.
Forget(o) ==
  /\ dispatching
  /\ o \in owed
  /\ owed' = owed \ {o}
  /\ subs' = [subs EXCEPT ![Head(queue).eid] = @ \ {o}]
  /\ UNCHANGED <<queue, dispatching, done>>

Finish ==
  /\ dispatching
  /\ owed = {}
  /\ queue' = Tail(queue)
  /\ dispatching' = FALSE
  /\ done' = {}
  /\ UNCHANGED <<subs, owed>>

\* A reload of the daemon keeps the subscriptions, a reboot drops them.
Lose == Quiet' /\ subs' \in {subs, [e \in EID |-> {}]}

Next ==
  \/ \E e \in EID : Accept(e)
  \/ \E e \in EID, o \in OBJ : Subscribe(e, o) \/ Unsubscribe(e, o)
  \/ Begin \/ Finish \/ Lose
  \/ \E o \in OBJ : Deliver(o) \/ Forget(o)

Spec == Init /\ [][Next]_bvars
=============================================================================
