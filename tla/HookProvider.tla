---------------------------- MODULE HookProvider ----------------------------
(***************************************************************************)
(* One hook of a /std/hook_provider.c object.                              *)
(*                                                                         *)
(* Consumers register for the hook with a type and a priority; HookFlow()  *)
(* calls surveyors, hook modifiers, data modifiers and listeners, in this  *)
(* order and within a type by priority.  All of it happens in one thread,  *)
(* but each call of a consumer is a callback: before it returns, anybody   *)
(* may register, unregister, be destructed or trigger the hook again.      *)
(*                                                                         *)
(* LPC arrays are references.  A loop holds the array it started with: it  *)
(* sees what is written into that array, but not the array that replaces   *)
(* it in the hook.  Structs are references, too: an entry is known by its  *)
(* number, and what happens to it is seen wherever it is held.             *)
(***************************************************************************)
EXTENDS Naturals, Sequences, FiniteSets, SequencesExt

CONSTANTS
  CONSUMER,    \* the closures that may register, each of an object of its own
  Prios,       \* the priorities they use; the lower, the earlier
  MaxCount,    \* MAX_HOOK_COUNTS: how many entries a type may have
  Uses,        \* the types consumers register for
  Allowed,     \* Allowed[fn]: what may be done as a command, or in a callback of fn
  MaxEntries,  \* bound: registrations
  MaxDepth     \* bound: nested callbacks

Type == 1 .. 4
Surveyor == 1
HookModifier == 2
DataModifier == 3
Listener == 4
Fn == {"command", "flow", "register", "allow", "superseded"}
Operation == {"register", "unregister", "destruct", "expire", "clean", "flow"}

ASSUME ConstantsAssumption ==
  /\ Prios \subseteq Nat /\ MaxEntries \in Nat /\ MaxDepth \in Nat
  /\ MaxCount \in [Type -> Nat \ {0}]
  /\ Uses \subseteq Type
  /\ Allowed \in [Fn -> SUBSET Operation]

VARIABLES
  alive,     \* the consumers that have not been destructed
  entries,   \* the hook_entry_s structs ever made
  cleared,   \* the entries with cl = 0 since they were unregistered
  expired,   \* the entries with endtime < time()
  lists,     \* the consumer arrays of the hook_s struct; 0 is a zeroed element
  cleanup,   \* is a call_out of CleanHookMapping() pending?
  stack,     \* the callbacks going on, the innermost last
  standing,  \* ghost: the entries that HRegisterToHook() accepted and that
             \* were not unregistered, destructed, expired or superseded since
  broken     \* ghost: the entries in the hook whose registration an error ended

vars == <<alive, entries, cleared, expired, lists, cleanup, stack, standing,
          broken>>

Entry == [who : CONSUMER, prio : Prios, type : Type]
Ids == 1 .. MaxEntries
Arrays == Seq(Ids \cup {0})
None == 0

\* A callback in a loop over the array vec; live: vec is still the hook's own.
\* A flow has the entries that stood at its start in due, and those it called;
\* entry is the one that is being registered.
FlowFrame == [fn : {"flow"}, type : Type, vec : Arrays, live : BOOLEAN,
              pos : Nat, due : SUBSET Ids, called : Seq(Ids)]
AskFrame == [fn : {"register"}, type : {Surveyor}, vec : Arrays,
             live : BOOLEAN, pos : Nat, new : Entry]
AllowFrame == [fn : {"allow"}, type : {Surveyor}, vec : Arrays,
               live : BOOLEAN, pos : Nat, cancel : BOOLEAN]
OverFrame == [fn : {"superseded"}, type : Type, vec : Arrays, live : BOOLEAN,
              entry : Ids]
Frame == FlowFrame \cup AskFrame \cup AllowFrame \cup OverFrame

Init ==
  /\ alive = CONSUMER
  /\ entries = <<>> /\ cleared = {} /\ expired = {}
  /\ standing = {} /\ broken = {}
  /\ lists = [t \in Type |-> <<>>]
  /\ cleanup = FALSE
  /\ stack = <<>>

\* Is the closure of an entry still there?
HasClosure(e) == e \notin cleared /\ entries[e].who \in alive

\* Mutant: nobody looks at the closure.
ValidInTime(e) == e # None /\ e \notin expired

\* closurep(h->cl) && h->endtime >= time()
Valid(e) == e # None /\ HasClosure(e) /\ e \notin expired

Elements(v) == {v[i] : i \in DOMAIN v}
Top == stack[Len(stack)]
Below == SubSeq(stack, 1, Len(stack) - 1)

\* Steps are commands of their own, or are done in a callback.
May(op) == op \in Allowed[IF stack = <<>> THEN "command" ELSE Top.fn]

\* A runtime error ends everything up to the command that started it.
Abort == stack' = <<>>
-----------------------------------------------------------------------------
(***************************************************************************)
(* CleanHookMapping().  The array is zeroed in place, where loops see it,  *)
(* and then the hook gets an array without the zeros.                      *)
(***************************************************************************)
\* The n-th position of S, and the elements of an array at the positions of S.
Nth(S, n) == CHOOSE i \in S : Cardinality({j \in S : j <= i}) = n
Picked(v, S) == [n \in 1 .. Cardinality(S) |-> v[Nth(S, n)]]

\* Mutant: the elements behind move up, also for the loops.
ZeroedMovedUp(v) == Picked(v, {i \in DOMAIN v : Valid(v[i])})

Zeroed(v) == [i \in DOMAIN v |-> IF Valid(v[i]) THEN v[i] ELSE None]

\* Mutant: the first stale entry ends the loop.
KeptUntilStale(v) ==
  Picked(v, {i \in DOMAIN v : \A j \in 1 .. i : Valid(v[j])})

Kept(v) == Picked(v, {i \in DOMAIN v : Valid(v[i])})

\* An array of the hook that holds a zero makes h->cl fail (117).
Cleanable == \A t \in Type : None \notin Elements(lists[t])

CleanedLists == [t \in Type |-> Kept(lists[t])]

\* The frames once the arrays of the hook were cleaned.
Cleaned(st) ==
  [i \in DOMAIN st |->
     LET f == st[i]
     IN IF f.live /\ \E e \in Elements(f.vec) : ~Valid(e)
          THEN [f EXCEPT !.vec = Zeroed(@), !.live = FALSE] ELSE f]

\* The frames when the array of type t gets element e at its end in place.
WithLast(st, t, e) ==
  [i \in DOMAIN st |->
     IF st[i].live /\ st[i].type = t
       THEN [st[i] EXCEPT !.vec[Len(st[i].vec)] = e] ELSE st[i]]

\* The frames when the hook gets another array for type t.
Detached(st, t) ==
  [i \in DOMAIN st |->
     IF st[i].type = t THEN [st[i] EXCEPT !.live = FALSE] ELSE st[i]]

\* HHasConsumers(), and the beginning of HRegisterToHook().
HHasConsumers ==
  /\ May("clean")
  /\ IF Cleanable
       THEN lists' = CleanedLists /\ stack' = Cleaned(stack)
       ELSE Abort /\ lists' = lists
  /\ UNCHANGED <<alive, entries, cleared, expired, cleanup, standing, broken>>

\* The call_out that HookFlow() started.
CleanHookMapping ==
  /\ stack = <<>> /\ cleanup
  /\ cleanup' = FALSE
  /\ lists' = IF Cleanable THEN CleanedLists ELSE lists
  /\ UNCHANGED <<alive, entries, cleared, expired, stack, standing, broken>>
-----------------------------------------------------------------------------
(***************************************************************************)
(* Registering and unregistering.                                          *)
(***************************************************************************)
\* Mutant: a closure is never found.
InfoNone(ls, c) == {}

\* The entries of a closure; hookConsumerInfo() has them by type and position.
Info(ls, c) ==
  {e \in UNION {Elements(ls[t]) : t \in Type} : Valid(e) /\ entries[e].who = c}

\* Is d found before e (195-201)?
FoundBefore(ls, d, e) ==
  \E t \in Type : \E i \in DOMAIN ls[t] :
    /\ ls[t][i] = d
    /\ \A u \in 1 .. t : \A j \in DOMAIN ls[u] : ls[u][j] = e => u = t /\ i < j

\* The next element of a loop over v that is not skipped.
Stops(v, pos) == {i \in DOMAIN v : i > pos /\ (v[i] = None \/ Valid(v[i]))}
Stop(v, pos) == CHOOSE i \in Stops(v, pos) : \A j \in Stops(v, pos) : i <= j

\* Mutant: the wrong order.
SortedBackwards(es, v) ==
  \A i, j \in DOMAIN v : i < j => es[v[i]].prio >= es[v[j]].prio

\* sort_array() of a copy; it promises no order among equals (351-353).
Sorted(es, v) ==
  \A i, j \in DOMAIN v : i < j => es[v[i]].prio <= es[v[j]].prio

\* Mutant: the array is left as it is.
SortingsNone(es, v) == {v}

Sortings(es, v) ==
  {w \in [DOMAIN v -> Elements(v)] :
     Sorted(es, w) /\ \A e \in Elements(v) :
       Cardinality({i \in DOMAIN v : v[i] = e})
         = Cardinality({i \in DOMAIN v : w[i] = e})}

\* The array of the new entry's type is full: its last entry gives way (338).
GivesWay(e, new) == ~HasClosure(e) \/ entries[e].prio > new.prio

\* Mutant: one entry too many.
HasRoomForOneMore(v, t) == Len(v) <= MaxCount[t]

\* Is the array of type t not full yet (321)?
HasRoom(v, t) == Len(v) < MaxCount[t]

\* HRegisterToHook() from line 308 on: what is left of it when the surveyors,
\* whose frame is gone from st, have agreed.  An array of the hook holds a zero
\* only if it is full with one element (OnlyFullZero), so there is none to sort.
Insert(new, ls, st) ==
  LET t == new.type
      v == ls[t]
      e == Len(entries) + 1
      es == Append(entries, new)
      last == v[Len(v)]
      \* a surveyor may have destructed it
      accepted == IF new.who \in alive THEN {e} ELSE {}
  IN IF HasRoom(v, t)
       THEN /\ \E w \in Sortings(es, Append(v, e)) : lists' = [ls EXCEPT ![t] = w]
            /\ stack' = Detached(st, t)
            /\ entries' = es
            /\ standing' = standing \cup accepted /\ broken' = broken
     ELSE IF last = None
       THEN Abort /\ lists' = ls /\ UNCHANGED <<entries, standing, broken>>
     ELSE IF GivesWay(last, new)
       THEN /\ lists' = [ls EXCEPT ![t][Len(v)] = e]
            /\ entries' = es
            /\ IF HasClosure(last)
                 THEN /\ Len(st) < MaxDepth
                      /\ stack' = Append(WithLast(st, t, e),
                           [fn |-> "superseded", type |-> t, vec |-> lists'[t],
                            live |-> TRUE, entry |-> e])
                      /\ standing' = (standing \ {last}) \cup accepted
                      /\ broken' = broken
                 \* there is no object to tell: call_other() fails
                 ELSE Abort /\ standing' = standing /\ broken' = broken \cup {e}
     ELSE /\ lists' = ls /\ stack' = st
          /\ UNCHANGED <<entries, standing, broken>>

\* HRegisterToHook(): one entry per closure; the surveyors are asked first.
Register(new) ==
  LET ls == CleanedLists
      st == Cleaned(stack)
      v == ls[Surveyor]
  IN /\ May("register")
     /\ Len(entries) < MaxEntries
     /\ new.who \in alive
     /\ IF ~Cleanable
          THEN Abort /\ UNCHANGED <<entries, lists, standing, broken>>
        ELSE IF Info(ls, new.who) # {}
          THEN lists' = ls /\ stack' = st /\ UNCHANGED <<entries, standing, broken>>
        ELSE IF v # <<>>
          THEN /\ Len(st) < MaxDepth
               /\ lists' = ls
               /\ stack' = Append(st, [fn |-> "register", type |-> Surveyor,
                             vec |-> v, live |-> TRUE, pos |-> 1, new |-> new])
               /\ UNCHANGED <<entries, standing, broken>>
        ELSE Insert(new, ls, st)
     /\ UNCHANGED <<alive, cleared, expired, cleanup>>

\* HookRegistrationCallback() returns; the next surveyor is asked.
RegisterReturn(ok) ==
  /\ stack # <<>> /\ Top.fn = "register"
  /\ IF ~ok
       THEN stack' = Below /\ UNCHANGED <<entries, lists, standing, broken>>
     ELSE IF Stops(Top.vec, Top.pos) = {}
       THEN Len(entries) < MaxEntries /\ Insert(Top.new, lists, Below)
     ELSE /\ IF Top.vec[Stop(Top.vec, Top.pos)] = None
               THEN Abort
               ELSE stack' = [stack EXCEPT ![Len(stack)].pos =
                                Stop(Top.vec, Top.pos)]
          /\ UNCHANGED <<entries, lists, standing, broken>>
  /\ UNCHANGED <<alive, cleared, expired, cleanup>>

\* superseededHook() returns: the array HRegisterToHook() worked on is sorted
\* and becomes the hook's, whatever has become of the hook meanwhile (351).
SupersededReturn ==
  /\ stack # <<>> /\ Top.fn = "superseded"
  /\ IF None \in Elements(Top.vec) /\ Len(Top.vec) > 1
       THEN Abort /\ lists' = lists
       ELSE /\ \E w \in Sortings(entries, Top.vec) :
                 lists' = [lists EXCEPT ![Top.type] = w]
            /\ stack' = Detached(Below, Top.type)
  /\ UNCHANGED <<alive, entries, cleared, expired, cleanup, standing, broken>>

\* The entries of the registrations that wait for superseededHook() to return.
HalfDone == {stack[i].entry : i \in {j \in DOMAIN stack : stack[j].fn = "superseded"}}

\* A callback ends with a runtime error.  No caller catches it: the registrations
\* that are going on end, with the new entry in the array and the array unsorted.
CallbackFails ==
  /\ stack # <<>> /\ Abort
  /\ standing' = standing \ HalfDone
  /\ broken' = broken \cup HalfDone
  /\ UNCHANGED <<alive, entries, cleared, expired, lists, cleanup>>

\* The arrays stay as they are, the entry is cleaned up later (228).
Drop(e) == UNCHANGED <<lists, stack>>

\* HUnregisterFromHook() of a closure that is registered.
Unregister(c) ==
  /\ May("unregister")
  /\ IF ~Cleanable
       THEN Abort /\ UNCHANGED <<cleared, standing, lists>>
       ELSE \E e \in Info(lists, c) :
              /\ \A d \in Info(lists, c) : ~FoundBefore(lists, d, e)
              /\ cleared' = cleared \cup {e}
              /\ standing' = standing \ {e}
              /\ Drop(e)
  /\ UNCHANGED <<alive, entries, expired, cleanup, broken>>

Destruct(c) ==
  /\ May("destruct")
  /\ c \in alive
  /\ alive' = alive \ {c}
  /\ standing' = {e \in standing : entries[e].who # c}
  /\ UNCHANGED <<entries, cleared, expired, lists, cleanup, stack, broken>>

\* time() goes on between commands.
Expire(e) ==
  /\ stack = <<>> /\ May("expire")
  /\ e \in standing
  /\ expired' = expired \cup {e}
  /\ standing' = standing \ {e}
  /\ UNCHANGED <<alive, entries, cleared, lists, cleanup, stack, broken>>
-----------------------------------------------------------------------------
(***************************************************************************)
(* HookFlow().                                                             *)
(***************************************************************************)
\* The array a flow that is at f has for type t, and from where on.
ArrayOf(f, t) == IF t = f.type THEN f.vec ELSE lists[t]

\* Mutant: the loop does not go on.
FromStart(f, t) == 0

From(f, t) == IF t = f.type THEN f.pos ELSE 0

\* The types that still have something for the flow.
Waiting(f) == {t \in f.type .. Listener : Stops(ArrayOf(f, t), From(f, t)) # {}}

\* Elements the flow steps over before type t, position i.
SkipsStale(f, t, i) ==
  \/ \E u \in f.type .. t - 1 : \E j \in DOMAIN ArrayOf(f, u) : j > From(f, u)
  \/ \E j \in DOMAIN ArrayOf(f, t) : From(f, t) < j /\ j < i

\* The flow f, with st below it, goes on to its next consumer, or ends.
Advance(f, st) ==
  IF Waiting(f) = {}
    THEN /\ stack' = st
         /\ cleanup' = (cleanup \/ SkipsStale(f, Listener, Len(ArrayOf(f, Listener)) + 1))
    ELSE LET t == CHOOSE u \in Waiting(f) : \A x \in Waiting(f) : u <= x
             v == ArrayOf(f, t)
             i == Stop(v, From(f, t))
         IN /\ cleanup' = (cleanup \/ SkipsStale(f, t, i))
            \* a zeroed element has no ->cl
            /\ IF v[i] = None THEN Abort
               ELSE stack' = Append(st,
                 [f EXCEPT !.type = t, !.vec = v, !.pos = i,
                           !.live = IF t = f.type THEN @ ELSE TRUE,
                           !.called = Append(@, v[i])])

HookFlow ==
  /\ May("flow")
  /\ Len(stack) < MaxDepth
  /\ Advance([fn |-> "flow", type |-> Surveyor, vec |-> lists[Surveyor],
              live |-> TRUE, pos |-> 0, due |-> standing, called |-> <<>>],
             stack)
  /\ UNCHANGED <<alive, entries, cleared, expired, lists, standing, broken>>

\* The surveyors are asked about the consumer that was called, if it is still
\* there.  h keeps the entry although its place in the array may be zeroed.
NeedsLeave(f, ret) ==
  /\ HasClosure(Last(f.called))
  /\ \/ f.type = HookModifier /\ ret \in {"cancelled", "altered"}
     \/ f.type = DataModifier /\ ret = "altered"

\* A consumer returns.  A surveyor may end the flow; a modifier needs leave of
\* the surveyors to end it or to change the data.
FlowReturn(ret) ==
  /\ stack # <<>> /\ Top.fn = "flow"
  /\ UNCHANGED <<alive, entries, cleared, expired, lists, standing, broken>>
  /\ IF Top.type = Surveyor /\ ret = "cancelled"
       THEN stack' = Below /\ cleanup' = cleanup
     ELSE IF ~NeedsLeave(Top, ret)
       THEN Advance(Top, Below)
     ELSE LET v == lists[Surveyor]
          IN IF Stops(v, 0) = {}
               THEN IF ret = "cancelled"
                      THEN stack' = Below /\ cleanup' = cleanup
                      ELSE Advance(Top, Below)
             ELSE IF v[Stop(v, 0)] = None
               THEN Abort /\ cleanup' = cleanup
             ELSE /\ Len(stack) < MaxDepth
                  /\ stack' = Append(stack, [fn |-> "allow", type |-> Surveyor,
                       vec |-> v, live |-> TRUE, pos |-> Stop(v, 0),
                       cancel |-> (ret = "cancelled")])
                  /\ cleanup' = cleanup

\* A surveyor was asked for leave and returns.
AllowReturn(ok) ==
  /\ stack # <<>> /\ Top.fn = "allow"
  /\ UNCHANGED <<alive, entries, cleared, expired, lists, standing, broken>>
  /\ LET flow == Below[Len(Below)]
         rest == SubSeq(Below, 1, Len(Below) - 1)
     IN IF ok /\ Stops(Top.vec, Top.pos) # {}
          THEN /\ cleanup' = cleanup
               /\ IF Top.vec[Stop(Top.vec, Top.pos)] = None THEN Abort
                  ELSE stack' = [stack EXCEPT ![Len(stack)].pos =
                                   Stop(Top.vec, Top.pos)]
        ELSE IF ok /\ Top.cancel
          THEN stack' = rest /\ cleanup' = cleanup
        ELSE Advance(flow, rest)
-----------------------------------------------------------------------------
Next ==
  \/ \E c \in CONSUMER, p \in Prios, t \in Uses :
       Register([who |-> c, prio |-> p, type |-> t])
  \/ \E ok \in BOOLEAN : RegisterReturn(ok) \/ AllowReturn(ok)
  \/ SupersededReturn
  \/ CallbackFails
  \/ \E c \in CONSUMER : Unregister(c) \/ Destruct(c)
  \/ \E e \in Ids : Expire(e)
  \/ HHasConsumers
  \/ CleanHookMapping
  \/ HookFlow
  \/ \E ret \in {"no_mod", "altered", "cancelled"} : FlowReturn(ret)

Spec == Init /\ [][Next]_vars
-----------------------------------------------------------------------------
(***************************************************************************)
(* Properties.                                                             *)
(***************************************************************************)
OnlyFullZero(v, t) == None \in Elements(v) => Len(v) = 1 /\ MaxCount[t] = 1

\* The types of the variables; no array outgrows MAX_HOOK_COUNTS, however
\* registrations are nested, and an array of the hook holds a zero only where
\* it is a full array of one element (what Insert relies on).
TypeOK ==
  /\ alive \in SUBSET CONSUMER
  /\ entries \in Seq(Entry) /\ Len(entries) <= MaxEntries
  /\ cleared \in SUBSET Ids /\ expired \in SUBSET Ids
  /\ standing \in SUBSET Ids /\ broken \in SUBSET Ids
  /\ lists \in [Type -> Arrays]
  /\ \A t \in Type : Len(lists[t]) <= MaxCount[t] /\ OnlyFullZero(lists[t], t)
  /\ cleanup \in BOOLEAN
  /\ stack \in Seq(Frame) /\ Len(stack) <= MaxDepth

Flows == {i \in DOMAIN stack : stack[i].fn = "flow"}
Superseding(t) == \E i \in DOMAIN stack : stack[i].fn = "superseded" /\ stack[i].type = t

\* The array is sorted with the highest priorities at its end, the last entry is
\* the one to give way (331).
ListsSorted ==
  \A t \in Type : Superseding(t) \/ Sorted(entries, lists[t])

\* The accepted entries stand in order of priority, whatever callbacks do and
\* wherever errors end a registration; HRegisterToHook() has not yet accepted
\* those it is telling others about.
AcceptedSorted ==
  \A t \in Type : \A i, j \in DOMAIN lists[t] :
    i < j /\ {lists[t][i], lists[t][j]} \subseteq standing \ HalfDone
      => entries[lists[t][i]].prio <= entries[lists[t][j]].prio

\* A closure is registered once.
RegisteredOnce ==
  \A i, j \in {e \in Ids : \E t \in Type : e \in Elements(lists[t]) /\ Valid(e)} :
    entries[i].who = entries[j].who => i = j

\* What HRegisterToHook() accepted stays until it is unregistered, destructed,
\* expired, or told of by superseededHook().
RegistrationLasts ==
  \A e \in standing : e \in Elements(lists[entries[e].type])

\* Every entry that stands from the start of a flow on has been called or is
\* still to come.
NobodyMissed ==
  \A i \in Flows : \A e \in stack[i].due \cap standing :
    \/ e \in Elements(stack[i].called)
    \/ \E t \in stack[i].type .. Listener :
         \E j \in DOMAIN ArrayOf(stack[i], t) :
           j > From(stack[i], t) /\ ArrayOf(stack[i], t)[j] = e

\* No entry is called twice in a flow.
NobodyTwice == \A i \in Flows : IsInjective(stack[i].called)

Before(d, e) == \/ entries[d].type < entries[e].type
                \/ /\ entries[d].type = entries[e].type
                   /\ entries[d].prio <= entries[e].prio

\* The entries that were there when the flow began are called by type, and
\* within a type by priority.
CalledInOrder ==
  \A i \in Flows : LET c == stack[i].called
                    IN \A j, k \in DOMAIN c :
                         j < k /\ {c[j], c[k]} \subseteq stack[i].due
                           => Before(c[j], c[k])

\* Whoever is called is registered at that moment.  A registration that an error
\* ended counts, and on an array that is not the hook's any more, so does an
\* entry that the hook has replaced since.
Calls(i) == /\ i \in DOMAIN stack' /\ stack'[i].fn = "flow"
            /\ \/ i \notin DOMAIN stack
               \/ stack[i].fn # "flow"
               \/ Len(stack'[i].called) > Len(stack[i].called)
CallsStanding ==
  [][\A i \in 1 .. MaxDepth :
       Calls(i) => LET f == stack'[i]
                       e == Last(f.called)
                   IN \/ e \in standing \cup broken
                      \/ ~f.live /\ e \notin Elements(lists[f.type])]_vars
=============================================================================
