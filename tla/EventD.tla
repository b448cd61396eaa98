------------------------------- MODULE EventD -------------------------------
(***************************************************************************)
(* The event dispatcher /p/daemon/eventd.c.                                *)
(*                                                                         *)
(* Objects register for event types, other objects trigger events, and     *)
(* process_events(), run from a call_out, calls every listener of an event *)
(* in turn.  The driver is single-threaded, so concurrency here is         *)
(* re-entrancy: a listener called in the middle of the foreach of          *)
(* process_events() may register, unregister, trigger, destruct objects    *)
(* and ask for an update of the daemon, and a run of process_events() that *)
(* is short of eval ticks stops in the middle of an event and goes on in   *)
(* the next call_out.                                                      *)
(*                                                                         *)
(* The mapping events (eid -> obname -> fun;closure;object) is the set     *)
(* eids of its keys and the function events, which gives for an event type *)
(* and an object name the state of the entry:                              *)
(*    "absent"  no entry                                                   *)
(*    "live"    an entry whose closure belongs to an existing object       *)
(*    "stale"   an entry whose closure the driver zeroed, because its      *)
(*              object was destructed or the entry was restored from disk  *)
(***************************************************************************)
EXTENDS Naturals, Sequences

CONSTANTS
  EID,          \* event types
  OBJ,          \* names of the objects that listen
  None,         \* active == ({}), and: no callback is running
  MaxPending,   \* __MAX_ARRAY_SIZE__ / 5
  MaxTicks,     \* callbacks one run of process_events() has ticks for
  MaxEvents,    \* bound: events triggered in a behaviour
  MaxBoots      \* bound: boots of the driver

ASSUME ConstantsAssumption ==
  /\ MaxPending \in Nat
  /\ MaxTicks \in Nat \ {0}
  /\ MaxEvents \in Nat
  /\ MaxBoots \in Nat
  /\ None \notin OBJ
  /\ None \notin [id : Nat, eid : EID]

VARIABLES
  eids,       \* the keys of events
  events,     \* events[eid][obname], as above
  pending,    \* the events not yet begun
  active,     \* the event being dispatched, or None
  listeners,  \* active[A_LISTENERS]: the listeners it still has to call
  updateme,   \* the daemon is to be reloaded once it is idle
  callouts,   \* scheduled call_outs of process_events
  pc,         \* where process_events() is
  current,    \* the object whose callback is running, or None
  ticks,      \* callbacks the running process_events() has ticks for
  up,         \* the daemon is loaded
  saved,      \* the save file STORE
  lastboot,   \* the boot in which events was filled
  boot,       \* __BOOT_TIME__
  objs,       \* the objects: "gone", "alive", or "lame" (loaded, but without
              \* the function it registered)
  nextId,     \* ghost: number of the next event
  called      \* ghost: objects called so far for the active event

daemon == <<eids, events, pending, active, listeners, updateme, callouts,
            lastboot>>
run == <<pc, current, ticks>>
disk == <<saved, up, boot>>
vars == <<daemon, run, disk, objs, nextId, called>>

Entry == {"absent", "live", "stale"}
Event == [id : Nat, eid : EID]
ObjState == {"gone", "alive", "lame"}

NoListeners == [o \in OBJ |-> "absent"]
NoEvents == [e \in EID |-> NoListeners]

\* The names in a mapping of callback infos.
Names(l) == {o \in OBJ : l[o] # "absent"}

\* What an entry becomes when its closure is lost.
Stale(entry) == IF entry = "live" THEN "stale" ELSE entry

\* The entries as save_object() writes them: objects and closures of other
\* objects are not saved.
Written(evs) == [e \in EID |-> [o \in OBJ |-> Stale(evs[e][o])]]

\* Somebody else's code runs: between two call_outs, or inside a callback.
OthersRun == up /\ pc \in {"idle", "call"}

Init ==
  /\ eids = {} /\ events = NoEvents
  /\ pending = <<>> /\ active = None /\ listeners = NoListeners
  /\ updateme = FALSE /\ callouts = 0
  /\ pc = "idle" /\ current = None /\ ticks = 0
  /\ up = TRUE
  /\ saved = [eids |-> {}, events |-> NoEvents, lastboot |-> 0]
  /\ lastboot = 1 /\ boot = 1
  /\ objs = [o \in OBJ |-> "alive"]
  /\ nextId = 1 /\ called = {}
-----------------------------------------------------------------------------
(***************************************************************************)
(* The interface: RegisterEvent, UnregisterEvent, TriggerEvent, UpdateMe.  *)
(***************************************************************************)

\* symbol_function(fun, ob) yields a closure only if ob has the function
\* (line 133); an entry that exists already is overwritten.  The snapshot of
\* an active event is a deep copy and does not change.
RegisterEvent(e, o) ==
  /\ OthersRun
  /\ objs[o] = "alive"
  /\ eids' = eids \cup {e}
  /\ events' = [events EXCEPT ![e][o] = "live"]
  /\ UNCHANGED <<pending, active, listeners, updateme, callouts, lastboot,
                 run, disk, objs, nextId, called>>

\* Mutant: the active event is not looked at.
UnlistNothing(e, o) == listeners

\* The rest of an active event of type e without the listener o (162-165).
Unlist(e, o) ==
  IF active # None /\ active.eid = e
    THEN [listeners EXCEPT ![o] = "absent"] ELSE listeners

\* Mutant: the event type goes with its first listener.
KeysWithoutAny(e, o) == eids \ {e}

\* The keys of events once the entry of o for e is gone: an event type
\* without listeners is deleted (159-160).
KeysWithout(e, o) ==
  IF Names(events[e]) \subseteq {o} THEN eids \ {e} ELSE eids

UnregisterEvent(e, o) ==
  /\ OthersRun
  /\ objs[o] # "gone"
  /\ e \in eids
  /\ events[e][o] # "absent"
  /\ events' = [events EXCEPT ![e][o] = "absent"]
  /\ eids' = KeysWithout(e, o)
  /\ listeners' = Unlist(e, o)
  /\ UNCHANGED <<pending, active, updateme, callouts, lastboot, run, disk,
                 objs, nextId, called>>

\* call_out() unless one is already there (184-185).
EnsureCallOut(n) == IF n = 0 THEN 1 ELSE n

Full == Len(pending) > MaxPending

TriggerEvent(e) ==
  /\ OthersRun
  /\ e \in eids
  /\ ~Full
  /\ nextId <= MaxEvents
  /\ pending' = Append(pending, [id |-> nextId, eid |-> e])
  /\ callouts' = EnsureCallOut(callouts)
  /\ nextId' = nextId + 1
  /\ UNCHANGED <<eids, events, active, listeners, updateme, lastboot, run,
                 disk, objs, called>>

\* remove(): save, then destruct.  What is nosave is lost, and a destructed
\* object has no call_outs.
Remove ==
  /\ up' = FALSE
  /\ saved' = [eids |-> eids, events |-> Written(events),
               lastboot |-> lastboot]
  /\ eids' = {} /\ events' = NoEvents /\ lastboot' = 0
  /\ pending' = <<>> /\ active' = None /\ listeners' = NoListeners
  /\ updateme' = FALSE /\ callouts' = 0
  /\ called' = {}
  /\ UNCHANGED <<boot, objs, nextId>>

\* Mutant: only the active event counts.
IdleBetweenEvents(act, pend) == act = None

\* Nothing to do: the condition of reset() and of the end of process_events().
Idle(act, pend) == act = None /\ pend = <<>>

\* UpdateMe() resets at once only if no call_out is under way (330-331);
\* otherwise process_events() or the driver's reset() finds the flag.
UpdateMe(flag) ==
  /\ OthersRun
  /\ IF flag /\ callouts = 0 /\ Idle(active, pending)
       THEN Remove
       ELSE /\ updateme' = flag
            /\ UNCHANGED <<eids, events, pending, active, listeners, callouts,
                           lastboot, disk, objs, nextId, called>>
  /\ UNCHANGED run

\* The driver's reset() of the daemon.
Reset ==
  /\ up /\ pc = "idle"
  /\ updateme /\ Idle(active, pending)
  /\ Remove
  /\ UNCHANGED run

\* remove() called from outside, as the update command of a wizard does.
ForcedRemove ==
  /\ up /\ pc = "idle"
  /\ Remove
  /\ UNCHANGED run
-----------------------------------------------------------------------------
(***************************************************************************)
(* process_events(), one action per point where it branches.               *)
(***************************************************************************)

\* The call_out fires.  It is gone then, and process_events() enters the next
\* one before it does anything else (193).  TICK_RESERVE is far below the
\* driver's limit, so that there are ticks for one callback at least.
ProcessEvents ==
  /\ up /\ pc = "idle" /\ callouts > 0
  /\ callouts' = (callouts - 1) + 1
  /\ pc' = "loop"
  /\ ticks' \in 1 .. MaxTicks
  /\ UNCHANGED <<eids, events, pending, active, listeners, updateme, lastboot,
                 current, disk, objs, nextId, called>>

\* The end of process_events(): the update that was asked for (270-273).
Leave ==
  /\ pc' = "idle" /\ ticks' = 0
  /\ UNCHANGED current

LoopEnd ==
  /\ pc = "loop" /\ ticks = 0
  /\ Leave
  /\ IF updateme /\ Idle(active, pending)
       THEN Remove
       ELSE UNCHANGED <<daemon, disk, objs, nextId, called>>

\* Mutant: the loop ends without a look at the update flag.
LoopIdleReturns ==
  /\ pc = "loop" /\ ticks > 0
  /\ Idle(active, pending)
  /\ Leave
  /\ callouts' = callouts - 1
  /\ UNCHANGED <<eids, events, pending, active, listeners, updateme,
                 lastboot, disk, objs, nextId, called>>

\* Nothing left: the call_out is removed, and the loop ends (199-203).
LoopIdle ==
  /\ pc = "loop" /\ ticks > 0
  /\ Idle(active, pending)
  /\ Leave
  /\ IF updateme
       THEN Remove
       ELSE /\ callouts' = callouts - 1
            /\ UNCHANGED <<eids, events, pending, active, listeners, updateme,
                           lastboot, disk, objs, nextId, called>>

\* The callback infos of the event, copied when the event is begun (209).  An
\* event type that was deleted meanwhile has none.
Snapshot(e) == events[e]

LoopTake ==
  /\ pc = "loop" /\ ticks > 0
  /\ active = None /\ pending # <<>>
  /\ active' = Head(pending)
  /\ listeners' = Snapshot(Head(pending).eid)
  /\ pending' = Tail(pending)
  /\ pc' = "each"
  /\ UNCHANGED <<eids, events, updateme, callouts, lastboot, current, ticks,
                 disk, objs, nextId, called>>

\* An event that the last run left unfinished.
LoopResume ==
  /\ pc = "loop" /\ ticks > 0
  /\ active # None
  /\ pc' = "each"
  /\ UNCHANGED <<daemon, current, ticks, disk, objs, nextId, called>>

\* The foreach, short of ticks: the rest of the event waits (231-233).
EachBreak ==
  /\ pc = "each" /\ ticks = 0
  /\ Names(listeners) # {}
  /\ pc' = "idle"
  /\ UNCHANGED <<daemon, current, ticks, disk, objs, nextId, called>>

\* The closure of o can be called, or found again (236-238).
Callable(o) == listeners[o] = "live" \/ objs[o] = "alive"

\* events, once the closure of o was found again (240-241).
Relink(o) ==
  IF listeners[o] = "stale"
    THEN [events EXCEPT ![active.eid][o] = "live"] ELSE events

EachCall(o) ==
  /\ pc = "each" /\ ticks > 0
  /\ o \in Names(listeners)
  /\ Callable(o)
  /\ events' = Relink(o)
  /\ pc' = "call" /\ current' = o
  /\ ticks' = ticks - 1
  /\ called' = called \cup {o}
  /\ UNCHANGED <<eids, pending, active, listeners, updateme, callouts,
                 lastboot, disk, objs, nextId>>

\* Mutant: the listener goes from the snapshot only.
ForgetNothing(e, o) == events

\* events without a listener that is neither there nor found again: its entry
\* goes, the event type stays, even if that was its last listener (247).
Forget(e, o) == [events EXCEPT ![e][o] = "absent"]

EachForget(o) ==
  /\ pc = "each" /\ ticks > 0
  /\ o \in Names(listeners)
  /\ ~Callable(o)
  /\ listeners' = [listeners EXCEPT ![o] = "absent"]
  /\ events' = Forget(active.eid, o)
  /\ ticks' = ticks - 1
  /\ UNCHANGED <<eids, pending, active, updateme, callouts, lastboot, pc,
                 current, disk, objs, nextId, called>>

\* Mutant: the listener stays in the snapshot.
DoneNothing(o) == listeners

\* What is left to call once the callback of o is over (255).
Done(o) == [listeners EXCEPT ![o] = "absent"]

\* The callback returns, or limited() or catch() ends it: the code makes no
\* difference (253-255).
CallReturn ==
  /\ pc = "call"
  /\ listeners' = Done(current)
  /\ current' = None
  /\ pc' = "each"
  /\ UNCHANGED <<eids, events, pending, active, updateme, callouts, lastboot,
                 ticks, disk, objs, nextId, called>>

\* Every listener was called or forgotten: the event is finished (263).
EachDone ==
  /\ pc = "each"
  /\ Names(listeners) = {}
  /\ active' = None
  /\ called' = {}
  /\ pc' = "loop"
  /\ UNCHANGED <<eids, events, pending, listeners, updateme, callouts,
                 lastboot, current, ticks, disk, objs, nextId>>
-----------------------------------------------------------------------------
(***************************************************************************)
(* The world: objects are destructed and loaded, the daemon is loaded when *)
(* somebody calls it, the driver reboots.                                  *)
(***************************************************************************)

Destruct(o) ==
  /\ pc \in {"idle", "call"}
  /\ objs[o] # "gone"
  /\ objs' = [objs EXCEPT ![o] = "gone"]
  /\ events' = [e \in EID |-> [events[e] EXCEPT ![o] = Stale(@)]]
  /\ listeners' = [listeners EXCEPT ![o] = Stale(@)]
  /\ UNCHANGED <<eids, pending, active, updateme, callouts, lastboot, run,
                 disk, nextId, called>>

Load(o) ==
  /\ pc \in {"idle", "call"}
  /\ objs[o] = "gone"
  /\ \E s \in {"alive", "lame"} : objs' = [objs EXCEPT ![o] = s]
  /\ UNCHANGED <<daemon, run, disk, nextId, called>>

\* create(): what was saved before this boot is thrown away (279-285).
Create ==
  /\ ~up
  /\ up' = TRUE
  /\ lastboot' = boot
  /\ IF saved.lastboot = boot
       THEN eids' = saved.eids /\ events' = saved.events
       ELSE eids' = {} /\ events' = NoEvents
  /\ UNCHANGED <<pending, active, listeners, updateme, callouts, run, saved,
                 boot, objs, nextId, called>>

\* The driver goes down and comes up with no object but those it preloads;
\* the daemon is one of them.  Only the save file survives.
Reboot ==
  /\ pc = "idle"
  /\ boot < MaxBoots
  /\ up' = FALSE
  /\ boot' = boot + 1
  /\ eids' = {} /\ events' = NoEvents /\ lastboot' = 0
  /\ pending' = <<>> /\ active' = None /\ listeners' = NoListeners
  /\ updateme' = FALSE /\ callouts' = 0
  /\ objs' = [o \in OBJ |-> "gone"]
  /\ called' = {}
  /\ UNCHANGED <<run, saved, nextId>>
-----------------------------------------------------------------------------
Interface ==
  \/ \E e \in EID : TriggerEvent(e)
  \/ \E e \in EID, o \in OBJ : RegisterEvent(e, o) \/ UnregisterEvent(e, o)
  \/ \E flag \in BOOLEAN : UpdateMe(flag)

Step ==
  \/ ProcessEvents
  \/ LoopEnd \/ LoopIdle \/ LoopTake \/ LoopResume
  \/ EachBreak \/ EachDone
  \/ \E o \in OBJ : EachCall(o) \/ EachForget(o)
  \/ CallReturn

World ==
  \/ \E o \in OBJ : Destruct(o) \/ Load(o)
  \/ Create \/ Reset \/ ForcedRemove \/ Reboot

Next == Interface \/ Step \/ World

Spec == Init /\ [][Next]_vars

\* The driver runs call_outs that are due, runs what it has begun to its end,
\* and reloads the daemon at the next call of EVENTD->...
Fairness == WF_vars(Step) /\ WF_vars(Create)
FairSpec == Spec /\ Fairness
-----------------------------------------------------------------------------
(***************************************************************************)
(* Properties.                                                             *)
(***************************************************************************)

\* Every variable has its type; at most one call_out of process_events is
\* scheduled, although three places schedule one.
TypeOK ==
  /\ eids \in SUBSET EID
  /\ events \in [EID -> [OBJ -> Entry]]
  /\ pending \in Seq(Event)
  /\ active \in Event \cup {None}
  /\ listeners \in [OBJ -> Entry]
  /\ updateme \in BOOLEAN /\ up \in BOOLEAN
  /\ callouts \in 0 .. 1
  /\ pc \in {"idle", "loop", "each", "call"}
  /\ current \in OBJ \cup {None}
  /\ ticks \in 0 .. MaxTicks
  /\ saved \in [eids : SUBSET EID, events : [EID -> [OBJ -> Entry]],
                lastboot : Nat]
  /\ lastboot \in Nat /\ boot \in Nat
  /\ objs \in [OBJ -> ObjState]
  /\ nextId \in Nat \ {0}
  /\ called \in SUBSET OBJ

\* Whoever the active event still has to call is registered for it, whatever
\* the callbacks did meanwhile: lines 240, 241 and 247 write events[eid]
\* [obname] without looking, which would fail or leave an entry without a
\* function if the mapping or the entry were gone.
SnapshotRegistered ==
  \A o \in OBJ : listeners[o] # "absent" =>
    /\ active # None
    /\ active.eid \in eids
    /\ events[active.eid][o] # "absent"

\* While there is an event to dispatch, a call_out that will do it is
\* scheduled, also during a run of process_events() that may break off.
Woken == active # None \/ pending # <<>> => callouts > 0

\* A callback runs only in an object that is registered for the event at that
\* moment, and that this event has not called before: neither after an
\* UnregisterEvent() by another listener, nor again after the run was broken
\* off for lack of ticks and resumed.
CallsRegisteredOnce ==
  [][current' # None /\ current' # current =>
       /\ active.eid \in eids
       /\ events[active.eid][current'] # "absent"
       /\ objs[current'] = "alive"
       /\ current' \notin called]_vars

\* Every event accepted by TriggerEvent() is finished, or lost with the
\* daemon.
Queued(id) ==
  \/ active # None /\ active.id = id
  \/ \E i \in DOMAIN pending : pending[i].id = id

EventsFinish == \A id \in 1 .. MaxEvents : Queued(id) ~> ~Queued(id)

\* An update that was asked for takes place (or is called off), also when it
\* was asked for by a callback or in the middle of an event, as soon as no
\* more events are triggered.
UpdateHappens == updateme ~> ~updateme
\* The inductive invariant behind the safety properties.  A run of
\* process_events() has a loaded daemon and its own successor in the call_out
\* table, and works on an active event; whatever is not in memory is empty;
\* what is in memory was registered in this boot;
\* an event type without a key has no entries, in memory and in the save
\* file; a live closure belongs to an object that is there, and none is in the
\* save file; whom the event has called is out of the snapshot, save for the
\* object whose callback is running.
Running ==
  /\ pc # "idle" => up /\ callouts = 1
  /\ pc \in {"each", "call"} => active # None
  /\ pc = "call" <=> current # None

Unloaded ==
  ~up => /\ pending = <<>> /\ active = None
         /\ ~updateme /\ callouts = 0

Boots ==
  /\ up => lastboot = boot
  /\ saved.lastboot <= boot

KeysCover ==
  \A e \in EID, o \in OBJ :
    /\ e \notin eids => events[e][o] = "absent"
    /\ e \notin saved.eids => saved.events[e][o] = "absent"

LiveIsAlive ==
  \A o \in OBJ :
    /\ listeners[o] = "live" => objs[o] = "alive"
    /\ \A e \in EID : /\ events[e][o] = "live" => objs[o] = "alive"
                      /\ saved.events[e][o] # "live"

CalledIsOut ==
  /\ active = None => called = {}
  /\ \A o \in called : listeners[o] = "absent" \/ o = current

IInv ==
  /\ TypeOK
  /\ SnapshotRegistered /\ Woken
  /\ Running /\ Unloaded /\ Boots /\ KeysCover /\ LiveIsAlive /\ CalledIsOut
-----------------------------------------------------------------------------
(***************************************************************************)
(* The daemon implements a bus that delivers each event to everyone who    *)
(* was registered when its dispatch began and stayed registered.           *)
(***************************************************************************)
AbsQueue == IF active = None THEN pending ELSE <<active>> \o pending
AbsSubs ==
  [e \in EID |->
     IF up THEN Names(events[e])
     ELSE IF saved.lastboot = boot THEN Names(saved.events[e]) ELSE {}]
AbsOwed == Names(listeners) \ {current}

Bus == INSTANCE EventBus
         WITH Id <- 1 .. MaxEvents, queue <- AbsQueue, subs <- AbsSubs, owed <- AbsOwed,
              dispatching <- active # None, done <- called

\* Every behaviour of the daemon is one of the bus.
ImplementsBus == Bus!Spec
=============================================================================
