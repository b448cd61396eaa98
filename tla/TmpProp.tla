------------------------------ MODULE TmpProp ------------------------------
(***************************************************************************)
(* Temporary properties, /p/daemon/tmp_prop_master.c.                      *)
(*                                                                         *)
(* SetTmpProp() gives a property of an object another value for some       *)
(* seconds; do_update(), run from a call_out, ends what is due.  The value *)
(* is set by a query method, with a set method that ends it when somebody  *)
(* else sets the property, or, with the flag sp, by SetProp(), which runs  *)
(* the code of the object: in the middle of do_update() that code may set  *)
(* and remove other temporary properties and destruct objects.             *)
(*                                                                         *)
(* One property per object is modelled, so that INDEX(ob, prop) is the     *)
(* name of the object.  All times are relative to time().                  *)
(***************************************************************************)
EXTENDS Integers, Sequences, FiniteSets

CONSTANTS
  NAME,      \* names of objects
  None,      \* no entry, and: no SetProp() is running
  Own,       \* values of properties
  Tmp,       \* the temporary value; others may happen to set it, too
  Times,     \* the seconds for which a property is set; 0 stands for an
             \* absolute time that is now
  Soon,      \* seconds to an update that is overdue (call_next_update)
  Safety,    \* seconds to the update that do_update() orders first
  MaxSets,   \* bound: calls of SetTmpProp() and restarts in a behaviour
  MaxTimers  \* bound: timers in a list that PlaceRight looks at

Value == Own \cup {Tmp}
Entry == [there : BOOLEAN, old : Value, sp : BOOLEAN, until : Int,
          cut : BOOLEAN]

ASSUME ConstantsAssumption ==
  /\ Own # {} /\ Tmp \notin Own
  /\ Times \subseteq Nat
  /\ Soon \in Nat \ {0} /\ Safety \in Nat \ {0}
  /\ MaxSets \in Nat /\ MaxTimers \in Nat
  /\ None \notin NAME /\ None \notin Entry

VARIABLES
  reset_times,  \* the timers, [t, key]
  in_progress,  \* in_progress[key]: the entry, or None; there is FALSE when
                \* its object is gone.  Ghosts: until, when it is to end, and
                \* cut, that a later SetTmpProp() did not come to its end
  callout,      \* seconds to the call_out of do_update, or NoCallOut
  pc,           \* do_update() is "idle" or in its "loop"
  i, max,       \* its local variables
  index,        \* the object whose SetProp() do_update() runs, or None
  alive,        \* the objects that exist
  prop,         \* the property of each object: its value, and whether it has
                \* the query and the set method of the master
  base,         \* ghost: what others have last set the property to
  mistaken,     \* ghost: names with a value that the master cannot tell from
                \* its own, or has left behind
  spoilt,       \* ghost: names with a timer that no entry belongs to
  sets          \* number of calls of SetTmpProp() and of restarts

locals == <<pc, i, max, index>>
vars == <<reset_times, in_progress, callout, locals, alive, prop, base,
          mistaken, spoilt, sets>>

NoCallOut == -1
Timer == [t : Int, key : NAME]
Property == [value : Value, query : BOOLEAN, set : BOOLEAN]
Fresh == [value |-> CHOOSE v \in Own : TRUE, query |-> FALSE, set |-> FALSE]

InOrder(ts) == \A m, n \in DOMAIN ts : m <= n => ts[m].t <= ts[n].t
KeysOf(ts) == {ts[n].key : n \in DOMAIN ts}

\* The names of the timers that the loop of do_update() has gone through
PassedKeys == {reset_times[n].key : n \in (1 .. i) \cap DOMAIN reset_times}

\* The master has a temporary value for the object that bears the name now.
Running(k) == in_progress[k] # None /\ in_progress[k].there

Init ==
  /\ reset_times = <<>> /\ in_progress = [k \in NAME |-> None]
  /\ callout = NoCallOut
  /\ pc = "idle" /\ i = 0 /\ max = 0 /\ index = None
  /\ alive = NAME
  /\ prop = [k \in NAME |-> Fresh]
  /\ base = [k \in NAME |-> Fresh.value]
  /\ mistaken = {} /\ spoilt = {} /\ sets = 0
-----------------------------------------------------------------------------
\* Mutant: a value that somebody else has set is overwritten.
EndedAnyway(k) ==
  LET e == in_progress[k]
      p == prop[k] IN
  IF e.sp THEN [p EXCEPT !.value = e.old]
          ELSE [p EXCEPT !.query = FALSE, !.set = FALSE]

\* Mutant: the set method stays.
EndedHalf(k) ==
  LET e == in_progress[k]
      p == prop[k] IN
  IF ~e.sp THEN [p EXCEPT !.query = FALSE]
  ELSE IF p.value = Tmp THEN [p EXCEPT !.value = e.old] ELSE p

\* The property of k when its temporary value has ended: the old value again,
\* unless the property has changed meanwhile, or neither method.
Ended(k) ==
  LET e == in_progress[k]
      p == prop[k] IN
  IF ~e.sp THEN [p EXCEPT !.query = FALSE, !.set = FALSE]
  ELSE IF p.value = Tmp THEN [p EXCEPT !.value = e.old] ELSE p

\* Mutant: all goes by the first timer of that name.
WithoutFirst(k, ts) ==
  LET ns == {n \in DOMAIN ts : ts[n].key = k}
      first == CHOOSE n \in ns : \A m \in ns : n <= m IN
  IF ns = {} THEN ts
  ELSE SubSeq(ts, 1, first - 1) \o SubSeq(ts, first + 1, Len(ts))

\* The timers without the last one of that name (204-208, 271-276).
Without(k, ts) ==
  LET ns == {n \in DOMAIN ts : ts[n].key = k}
      last == CHOOSE n \in ns : \A m \in ns : m <= n IN
  IF ns = {} THEN ts
  ELSE SubSeq(ts, 1, last - 1) \o SubSeq(ts, last + 1, Len(ts))

\* Mutant: a timer goes before those that are due at the same time.
FoundBefore(tm, ts) ==
  LET n == Len(ts)
      search[b \in (0 .. n) \X (-1 .. n - 1)] ==
        LET pos == (b[1] + b[2]) \div 2 IN
        IF b[1] >= b[2] THEN b[2]
        ELSE search[IF tm <= ts[pos + 1].t THEN <<b[1], pos - 1>>
                                           ELSE <<pos + 1, b[2]>>]
  IN search[<<0, n - 1>>]

\* Where the binary search ends: pos is r then, counted from 0 (316-326).
Found(tm, ts) ==
  LET n == Len(ts)
      search[b \in (0 .. n) \X (-1 .. n - 1)] ==
        LET pos == (b[1] + b[2]) \div 2 IN
        IF b[1] >= b[2] THEN b[2]
        ELSE search[IF tm < ts[pos + 1].t THEN <<b[1], pos - 1>>
                                           ELSE <<pos + 1, b[2]>>]
  IN search[<<0, n - 1>>]

\* How many timers stay before a new one (313-330).
Place(tm, ts) ==
  LET back[p \in -1 .. Len(ts) - 1] ==
        IF p >= 0 /\ tm < ts[p + 1].t THEN back[p - 1] ELSE p
  IN IF ts = <<>> THEN 0 ELSE back[Found(tm, ts)] + 1

\* Mutant: a new timer goes behind all others.
Appended(k, tm, ts) == Append(ts, [t |-> tm, key |-> k])

Inserted(k, tm, ts) ==
  SubSeq(ts, 1, Place(tm, ts)) \o <<[t |-> tm, key |-> k]>>
    \o SubSeq(ts, Place(tm, ts) + 1, Len(ts))

\* Mutant: an update that is overdue is not ordered again.
NextUpdateUnlessDue(ts) ==
  IF ts = <<>> \/ Head(ts).t <= 0 THEN NoCallOut ELSE Head(ts).t

\* The only call_out after call_next_update().
NextUpdate(ts) ==
  IF ts = <<>> THEN NoCallOut
  ELSE IF Head(ts).t <= 0 THEN Soon ELSE Head(ts).t

\* Other objects act, in commands of their own, or from the set method of the
\* property that do_update() restores.  That one does not set or remove the
\* same property anew.
OthersAct(k) == alive' = alive /\ (pc = "idle" \/ index # None) /\ k # index

\* The object has its temporary value by SetProp(), which is to be called again
\* to end it.
CallsSetProp(k) == Running(k) /\ in_progress[k].sp /\ prop[k].value = Tmp

\* A running temporary value of k ends first (245-277).
Cleared(k) == IF Running(k) THEN Ended(k) ELSE prop[k]
TimersOfOthers(k) ==
  IF Running(k) THEN Without(k, reset_times) ELSE reset_times

SetTmpProp(k, tm, sp) ==
  LET p == Cleared(k) IN
  /\ k \in alive /\ OthersAct(k)
  /\ sets < MaxSets /\ sets' = sets + 1
  /\ prop' = [prop EXCEPT ![k] =
        IF sp THEN [p EXCEPT !.value = Tmp]
              ELSE [p EXCEPT !.query = TRUE, !.set = TRUE]]
  /\ in_progress' = [in_progress EXCEPT ![k] =
        [there |-> TRUE, old |-> IF sp THEN p.value ELSE Tmp, sp |-> sp,
         until |-> tm, cut |-> FALSE]]
  /\ reset_times' = Inserted(k, tm, TimersOfOthers(k))
  /\ callout' = NextUpdate(reset_times')
  /\ UNCHANGED <<locals, base, mistaken, spoilt>>

\* SetTmpProp() ends the running value and starts none: its time is past (282),
\* or a set method fails (287, 308), maybe after it has set the value.  The old
\* entry stays, without its timer.  Not so for a property that do_update() is
\* through with.
SetTmpPropCut(k, sp) ==
  LET p == Cleared(k) IN
  /\ k \in alive /\ OthersAct(k) /\ k \notin PassedKeys
  /\ sets < MaxSets /\ sets' = sets + 1
  /\ IF sp THEN /\ prop' = [prop EXCEPT ![k] = [p EXCEPT !.value = Tmp]]
                /\ mistaken' = mistaken \cup {k}
           ELSE /\ prop' = [prop EXCEPT ![k] = p]
                /\ UNCHANGED mistaken
  /\ reset_times' = TimersOfOthers(k)
  /\ in_progress' = IF Running(k) THEN [in_progress EXCEPT ![k].cut = TRUE]
                                  ELSE in_progress
  /\ UNCHANGED <<callout, locals, base, spoilt>>

\* SetTmpProp() or RemoveTmpProp() sets the property back, and the set method
\* fails after it has done so (188, 255): nothing else is done.
EndFails(k) ==
  /\ k \in alive /\ OthersAct(k)
  /\ CallsSetProp(k)
  /\ prop' = [prop EXCEPT ![k] = Ended(k)]
  /\ UNCHANGED <<reset_times, in_progress, callout, locals, base, mistaken,
                 spoilt, sets>>

\* RemoveTmpProp(), called by the object itself, with value for its property.
Remove(k, p) ==
  /\ prop' = [prop EXCEPT ![k] = p]
  /\ reset_times' = Without(k, reset_times)
  /\ in_progress' = [in_progress EXCEPT ![k] = None]
  /\ spoilt' = spoilt \cap KeysOf(reset_times')

RemoveTmpProp(k) ==
  /\ k \in alive /\ OthersAct(k)
  /\ in_progress[k] # None
  /\ Remove(k, Cleared(k))
  /\ UNCHANGED <<callout, locals, base, mistaken, sets>>

\* SetProp() of somebody else.  The set method of the master removes the
\* temporary value and calls SetProp() again; without an entry it would call
\* itself, until SetProp() catches the error and deletes the method.  With the
\* flag sp the master does not notice, and takes a value that is equal to the
\* temporary one for its own (119).
SetProp(k, v) ==
  /\ k \in alive /\ OthersAct(k)
  /\ base' = [base EXCEPT ![k] = v]
  /\ mistaken' = IF v = Tmp /\ Running(k) /\ in_progress[k].sp
                   THEN mistaken \cup {k} ELSE mistaken \ {k}
  /\ IF prop[k].set /\ in_progress[k] # None
       THEN Remove(k, [Cleared(k) EXCEPT !.value = v])
       ELSE /\ prop' = [prop EXCEPT ![k] =
                  IF @.set THEN [@ EXCEPT !.set = FALSE]
                           ELSE [@ EXCEPT !.value = v]]
            /\ UNCHANGED <<reset_times, in_progress, spoilt>>
  /\ UNCHANGED <<callout, locals, sets>>
-----------------------------------------------------------------------------
\* do_update() up to its loop.
DoUpdate ==
  /\ pc = "idle" /\ callout = 0
  /\ callout' = Safety
  /\ pc' = IF reset_times = <<>> THEN "idle" ELSE "loop"
  /\ max' = Len(reset_times) /\ i' = 0
  /\ UNCHANGED <<reset_times, in_progress, index, alive, prop, base, mistaken,
                 spoilt, sets>>

AtTimer == pc = "loop" /\ index = None /\ i < max

\* Mutant: what is due in a second counts as due.
DueSoon == AtTimer /\ i < Len(reset_times) /\ reset_times[i + 1].t <= 1

\* The loop has come to a timer that is due.
Due == AtTimer /\ i < Len(reset_times) /\ reset_times[i + 1].t <= 0

UpdateEnd ==
  /\ Due
  /\ LET k == reset_times[i + 1].key IN
     /\ ~CallsSetProp(k)
     /\ prop' = IF Running(k) THEN [prop EXCEPT ![k] = Ended(k)] ELSE prop
     /\ in_progress' = [in_progress EXCEPT ![k] = None]
  /\ i' = i + 1
  /\ UNCHANGED <<reset_times, callout, pc, max, index, alive, base, mistaken,
                 spoilt, sets>>

UpdateSetProp ==
  /\ Due
  /\ LET k == reset_times[i + 1].key IN
     /\ CallsSetProp(k)
     /\ prop' = [prop EXCEPT ![k] = Ended(k)]
     /\ index' = k
  /\ UNCHANGED <<reset_times, in_progress, callout, pc, i, max, alive, base,
                 mistaken, spoilt, sets>>

UpdateReturn ==
  /\ index # None
  /\ in_progress' = [in_progress EXCEPT ![index] = None]
  /\ index' = None
  /\ i' = i + 1
  /\ UNCHANGED <<reset_times, callout, pc, max, alive, prop, base, mistaken,
                 spoilt, sets>>

\* A runtime error ends do_update().  The entry of the timer that it is busy
\* with stays, and the timers that it has gone through stay in the list.
Aborts ==
  /\ pc' = "idle" /\ i' = 0 /\ max' = 0 /\ index' = None
  /\ spoilt' = spoilt \cup PassedKeys
  /\ UNCHANGED <<reset_times, in_progress, callout, alive, prop, base,
                 mistaken, sets>>

\* The set method fails, before or after it has set the value (121).
UpdateSetPropFails == Due /\ CallsSetProp(reset_times[i + 1].key) /\ Aborts
UpdateReturnFails == index # None /\ Aborts

\* The timers after those the loop has gone through (139).
Rest == SubSeq(reset_times, i + 1, Len(reset_times))

UpdateDone ==
  /\ pc = "loop" /\ index = None
  /\ i = max \/ (i < Len(reset_times) /\ reset_times[i + 1].t > 0)
  /\ reset_times' = Rest
  /\ callout' = NextUpdate(reset_times')
  /\ spoilt' = spoilt \cap KeysOf(reset_times')
  /\ pc' = "idle" /\ i' = 0 /\ max' = 0
  /\ UNCHANGED <<in_progress, index, alive, prop, base, mistaken, sets>>

\* Timers were removed meanwhile, so that there is no timer i: an error, too.
UpdateError ==
  /\ AtTimer /\ i >= Len(reset_times)
  /\ Aborts
-----------------------------------------------------------------------------
\* The objects of an entry and of its closures go; the entry and its timer
\* stay, for whoever gets the name next.
Destruct(k) ==
  /\ pc = "idle" \/ index # None
  /\ k \in alive
  /\ alive' = alive \ {k}
  /\ in_progress' = [in_progress EXCEPT ![k] =
       IF @ = None THEN None ELSE [@ EXCEPT !.there = FALSE]]
  /\ prop' = [prop EXCEPT ![k] = Fresh]
  /\ base' = [base EXCEPT ![k] = Fresh.value]
  /\ mistaken' = mistaken \ {k}
  /\ spoilt' = spoilt \cup ({k} \cap KeysOf(reset_times))
  /\ UNCHANGED <<reset_times, callout, locals, sets>>

Load(k) ==
  /\ pc = "idle" \/ index # None
  /\ k \notin alive
  /\ alive' = alive \cup {k}
  /\ UNCHANGED <<reset_times, in_progress, callout, locals, prop, base,
                 mistaken, spoilt, sets>>

\* remove() saves and destructs the master, create() restores what it saved:
\* all but the objects of the entries.  The set methods were closures of the
\* master and go with it; the temporary values stay for good.
Restart ==
  /\ pc = "idle"
  /\ sets < MaxSets /\ sets' = sets + 1
  /\ in_progress' = [k \in NAME |->
       IF in_progress[k] = None THEN None
       ELSE [in_progress[k] EXCEPT !.there = FALSE]]
  /\ prop' = [k \in NAME |-> [prop[k] EXCEPT !.set = FALSE]]
  /\ mistaken' = mistaken \cup {k \in NAME : CallsSetProp(k)}
  /\ spoilt' = KeysOf(reset_times)
  /\ callout' = NextUpdate(reset_times)
  /\ UNCHANGED <<reset_times, locals, alive, base>>

\* A second later.  How long something is overdue makes no difference.
Later(t) == IF t > -Safety THEN t - 1 ELSE t

\* A second passes.  Call_outs that are due have run.
Tick ==
  /\ pc = "idle" /\ callout # 0
  /\ callout' = IF callout = NoCallOut THEN NoCallOut ELSE callout - 1
  /\ reset_times' = [n \in DOMAIN reset_times |->
                       [reset_times[n] EXCEPT !.t = Later(@)]]
  /\ in_progress' = [k \in NAME |->
       IF in_progress[k] = None THEN None
       ELSE [in_progress[k] EXCEPT !.until = Later(@)]]
  /\ UNCHANGED <<locals, alive, prop, base, mistaken, spoilt, sets>>

Fails == UpdateSetPropFails \/ UpdateReturnFails

Step == DoUpdate \/ UpdateEnd \/ UpdateSetProp \/ UpdateReturn \/ UpdateDone
          \/ UpdateError \/ Fails

Objects ==
  \E k \in NAME :
    \/ \E tm \in Times, sp \in BOOLEAN : SetTmpProp(k, tm, sp)
    \/ \E sp \in BOOLEAN : SetTmpPropCut(k, sp)
    \/ RemoveTmpProp(k) \/ EndFails(k)
    \/ \E v \in Value : SetProp(k, v)
    \/ Destruct(k) \/ Load(k)

Next == Objects \/ Step \/ Restart \/ Tick

Spec == Init /\ [][Next]_vars

\* Time passes, and the driver runs call_outs that are due to their end.
Fairness == WF_vars(Tick) /\ WF_vars(Step)
FairSpec == Spec /\ Fairness
-----------------------------------------------------------------------------
\* Every variable has its type; the timers are in the order of their times, on
\* which do_update() relies when it stops at the first that is not due.
TypeOK ==
  /\ reset_times \in Seq(Timer)
  /\ InOrder(reset_times)
  /\ in_progress \in [NAME -> Entry \cup {None}]
  /\ callout \in {NoCallOut} \cup Nat
  /\ pc \in {"idle", "loop"} /\ i \in 0 .. max /\ max \in Nat
  /\ index \in NAME \cup {None}
  /\ alive \subseteq NAME
  /\ prop \in [NAME -> Property]
  /\ base \in [NAME -> Value]
  /\ mistaken \subseteq NAME /\ spoilt \subseteq NAME
  /\ sets \in 0 .. MaxSets

\* Lists of timers, longer than the behaviours of an instance get
SortedLists ==
  {ts \in UNION {[1 .. n -> [t : 0 .. 3, key : NAME]] : n \in 0 .. MaxTimers} : InOrder(ts)}

\* The binary search of SetTmpProp() puts a new timer behind all that are due
\* before it or with it, and before all others.  (The same in every state;
\* checked in those without a call of SetTmpProp().)
PlaceRight == sets = 0 =>
  \A ts \in SortedLists, tm \in -1 .. 4 :
    Place(tm, ts) = Cardinality({n \in DOMAIN ts : ts[n].t <= tm})

\* Every entry has the timer it was set with, also in the middle of
\* do_update(), where it is not among the timers that are cut off at the end:
\* an entry without a timer would never end.  Only a SetTmpProp() that does not
\* come to its end leaves one behind.
EntryTimed ==
  \A k \in NAME : in_progress[k] # None /\ ~in_progress[k].cut =>
    \E n \in i + 1 .. Len(reset_times) :
      reset_times[n] = [t |-> in_progress[k].until, key |-> k]

\* The set method of the master is on an object just as long as the master
\* has an entry for it: otherwise SetProp() on that object would recurse
\* without end, or the temporary value would survive the next SetProp().
MethodHasEntry ==
  \A k \in NAME :
    prop[k].set <=> Running(k) /\ ~in_progress[k].sp /\ ~in_progress[k].cut

\* What somebody sets with SetProp() while a temporary value is there is not
\* lost when that one ends, and the old value comes back otherwise: whatever
\* fails, unless others set the very temporary value, a set method fails after
\* it has set it, or the master is restarted meanwhile.
ValueKept ==
  \A k \in alive \ mistaken :
    IF CallsSetProp(k) THEN in_progress[k].old = base[k]
                       ELSE prop[k].value = base[k]

\* do_update() ends a temporary value before its time only through a timer
\* that belonged to another entry of the same name.
EndsNotBefore ==
  [][\A k \in NAME :
       i' > i /\ Running(k) /\ ~Running(k)' /\ k \notin spoilt
         => in_progress[k].until <= 0]_vars

\* A property is set for the time that SetTmpProp() was given, and not shorter.
EndsInTime ==
  [][\A k \in NAME :
       i' > i /\ Running(k) /\ ~Running(k)' => in_progress[k].until <= 0]_vars

\* The master has a temporary value that is to end
Ending(k) == Running(k) /\ ~in_progress[k].cut

\* Every temporary value ends, as soon as no more are set and do_update() does
\* not run into failing set methods for ever.
EveryPropEnds ==
  <>[][~Fails]_vars => \A k \in NAME : Ending(k) ~> ~Ending(k)
=============================================================================
