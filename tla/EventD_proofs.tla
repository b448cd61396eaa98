---------------------------- MODULE EventD_proofs ----------------------------
(***************************************************************************)
(* The safety properties of EventD hold for every choice of its constants. *)
(***************************************************************************)
EXTENDS EventD, SequenceTheorems, TLAPS

\* The parts of IInv that speak of control.
Control == Running /\ Unloaded /\ Boots /\ Woken

\* The parts of IInv that speak of the listeners.
Data == SnapshotRegistered /\ KeysCover /\ LiveIsAlive /\ CalledIsOut

LEMMA IInvSplit == IInv <=> TypeOK /\ Control /\ Data
BY DEF IInv, Control, Data

LEMMA InitIInv == Init => IInv
<1> SUFFICES ASSUME Init PROVE IInv  OBVIOUS
<1> USE DEF Init
<1>1. NoListeners \in [OBJ -> Entry] /\ NoEvents \in [EID -> [OBJ -> Entry]]
  BY DEF NoListeners, NoEvents, Entry
<1>2. TypeOK
  <2>1. saved \in [eids : SUBSET EID, events : [EID -> [OBJ -> Entry]],
                  lastboot : Nat]
    BY <1>1
  <2>2. updateme \in BOOLEAN /\ up \in BOOLEAN  OBVIOUS
  <2>3. callouts \in 0 .. 1 /\ ticks \in 0 .. MaxTicks
    BY ConstantsAssumption
  <2>4. pending \in Seq(Event) /\ objs \in [OBJ -> ObjState]
    BY DEF ObjState
  <2> QED  BY <1>1, <2>1, <2>2, <2>3, <2>4 DEF TypeOK
<1>3. Control  BY DEF Control, Running, Unloaded, Boots,
     Woken
<1>4. Data
  BY DEF Data, SnapshotRegistered, KeysCover, LiveIsAlive, CalledIsOut,
     NoEvents, NoListeners
<1> QED  BY <1>2, <1>3, <1>4, IInvSplit

LEMMA RegisterStep ==
  ASSUME IInv, NEW e \in EID, NEW o \in OBJ, RegisterEvent(e, o)
  PROVE  IInv'
<1> USE DEF RegisterEvent, OthersRun, run, disk
<1>1. TypeOK'  BY DEF IInv, TypeOK, Entry
<1>2. Control'  BY DEF IInv, Control, Running, Unloaded, Boots,
     Woken
<1>3. Data'
  BY DEF IInv, TypeOK, Data, SnapshotRegistered, KeysCover, LiveIsAlive,
     CalledIsOut
<1> QED  BY <1>1, <1>2, <1>3 DEF IInv, Control, Data

LEMMA UnregisterStep ==
  ASSUME IInv, NEW e \in EID, NEW o \in OBJ, UnregisterEvent(e, o)
  PROVE  IInv'
<1> USE DEF UnregisterEvent, OthersRun, run, disk
<1>1. TypeOK'  BY DEF IInv, TypeOK, Entry, KeysWithout, Unlist
<1>2. Control'  BY DEF IInv, Control, Running, Unloaded, Boots,
     Woken
<1>3. Data'
  BY DEF IInv, TypeOK, Data, SnapshotRegistered, KeysCover, LiveIsAlive,
     CalledIsOut, KeysWithout, Unlist, Names, Event
<1> QED  BY <1>1, <1>2, <1>3 DEF IInv, Control, Data

LEMMA TriggerStep ==
  ASSUME IInv, NEW e \in EID, TriggerEvent(e)
  PROVE  IInv'
<1> USE DEF TriggerEvent, OthersRun, run, disk, daemon
<1>1. TypeOK'  BY ConstantsAssumption DEF IInv, TypeOK, Entry, Event,
     EnsureCallOut
<1>2. Control'  BY DEF IInv, TypeOK, Control, Running, Unloaded, Boots,
     Woken, EnsureCallOut
<1>3. Data'
  BY DEF IInv, TypeOK, Data, SnapshotRegistered, KeysCover, LiveIsAlive,
     CalledIsOut, Running
<1> QED  BY <1>1, <1>2, <1>3 DEF IInv, Control, Data

\* Whoever calls remove() with nothing running.
LEMMA RemoveStep ==
  ASSUME IInv, up, Remove, pc' = "idle", current' = None, ticks' \in 0 .. MaxTicks
  PROVE  IInv'
<1> USE DEF Remove
<1>1. NoListeners \in [OBJ -> Entry] /\ NoEvents \in [EID -> [OBJ -> Entry]]
  BY DEF NoListeners, NoEvents, Entry
<1>2. Written(events) \in [EID -> [OBJ -> Entry]]
  BY DEF IInv, TypeOK, Written, Stale, Entry
<1>3. TypeOK'
  <2>1. saved' \in [eids : SUBSET EID, events : [EID -> [OBJ -> Entry]],
                   lastboot : Nat]
    BY <1>2 DEF IInv, TypeOK
  <2>2. updateme' \in BOOLEAN /\ up' \in BOOLEAN  OBVIOUS
  <2>3. callouts' \in 0 .. 1 /\ pending' \in Seq(Event)  OBVIOUS
  <2>4. called' \in SUBSET OBJ /\ eids' \in SUBSET EID  OBVIOUS
  <2> QED  BY <1>1, <2>1, <2>2, <2>3, <2>4 DEF IInv, TypeOK
<1>4. Control'  BY DEF IInv, TypeOK, Control, Running, Unloaded, Boots,
     Woken
<1>5. Data'
  BY DEF IInv, TypeOK, Data, SnapshotRegistered, KeysCover, LiveIsAlive,
     CalledIsOut, NoListeners, NoEvents, Written, Stale
<1> QED  BY <1>3, <1>4, <1>5 DEF IInv, Control, Data

LEMMA UpdateMeStep ==
  ASSUME IInv, NEW flag \in BOOLEAN, UpdateMe(flag)
  PROVE  IInv'
<1> USE DEF UpdateMe, OthersRun, run, disk
<1>1. CASE flag /\ callouts = 0 /\ Idle(active, pending)
  <2>1. pc = "idle" /\ current = None
    BY <1>1 DEF IInv, Running
  <2> QED  BY <1>1, <2>1, RemoveStep DEF IInv, TypeOK
<1>2. CASE ~(flag /\ callouts = 0 /\ Idle(active, pending))
  <2>1. TypeOK'  BY <1>2 DEF IInv, TypeOK
  <2>2. Control'  BY <1>2 DEF IInv, Control, Running, Unloaded, Boots,
     Woken
  <2>3. UNCHANGED <<eids, events, active, listeners, saved, objs, called,
                    current>>
    BY <1>2
  <2>4. Data'
    BY <2>3 DEF IInv, Data, SnapshotRegistered, KeysCover, LiveIsAlive,
       CalledIsOut
  <2> QED  BY <2>1, <2>2, <2>4 DEF IInv, Control, Data
<1> QED  BY <1>1, <1>2

LEMMA ResetStep ==
  ASSUME IInv, Reset \/ ForcedRemove
  PROVE  IInv'
<1>1. up /\ Remove /\ pc' = "idle" /\ current' = None /\ ticks' \in 0 .. MaxTicks
  BY DEF Reset, ForcedRemove, run, IInv, TypeOK, Running
<1> QED  BY <1>1, RemoveStep

LEMMA ProcessStep ==
  ASSUME IInv, ProcessEvents
  PROVE  IInv'
<1> USE DEF ProcessEvents, run, disk, daemon
<1>1. TypeOK'  BY ConstantsAssumption DEF IInv, TypeOK, Entry
<1>2. Control'  BY DEF IInv, TypeOK, Control, Running, Unloaded, Boots,
     Woken
<1>3. Data'
  BY DEF IInv, TypeOK, Data, SnapshotRegistered, KeysCover, LiveIsAlive,
     CalledIsOut, Running
<1> QED  BY <1>1, <1>2, <1>3 DEF IInv, Control, Data

LEMMA LoopEndStep ==
  ASSUME IInv, LoopEnd
  PROVE  IInv'
<1> USE DEF LoopEnd, Leave
<1>1. up /\ current = None  BY DEF IInv, Running
<1>2. CASE updateme /\ Idle(active, pending)
  BY <1>1, <1>2, RemoveStep, ConstantsAssumption
<1>3. CASE ~(updateme /\ Idle(active, pending))
  <2> USE <1>3 DEF daemon, disk
  <2>1. TypeOK'  BY ConstantsAssumption DEF IInv, TypeOK
  <2>2. Control'  BY <1>1 DEF IInv, Control, Running, Unloaded, Boots,
     Woken
  <2>3. Data'
    BY DEF IInv, Data, SnapshotRegistered, KeysCover, LiveIsAlive, CalledIsOut
  <2> QED  BY <2>1, <2>2, <2>3 DEF IInv, Control, Data
<1> QED  BY <1>2, <1>3

LEMMA LoopIdleStep ==
  ASSUME IInv, LoopIdle
  PROVE  IInv'
<1> USE DEF LoopIdle, Leave
<1>1. up /\ current = None  BY DEF IInv, Running
<1>2. CASE updateme
  BY <1>1, <1>2, RemoveStep, ConstantsAssumption
<1>3. CASE ~updateme
  <2> USE <1>3 DEF daemon, disk
  <2>1. TypeOK'  BY ConstantsAssumption DEF IInv, TypeOK, Running
  <2>2. Control'
    BY <1>1 DEF IInv, Control, Running, Unloaded, Boots,
     Woken, Idle
  <2>3. Data'
    BY DEF IInv, Data, SnapshotRegistered, KeysCover, LiveIsAlive, CalledIsOut
  <2> QED  BY <2>1, <2>2, <2>3 DEF IInv, Control, Data
<1> QED  BY <1>2, <1>3

LEMMA LoopTakeStep ==
  ASSUME IInv, LoopTake
  PROVE  IInv'
<1> USE DEF LoopTake, Snapshot, run, disk, daemon
<1>0. /\ Head(pending) \in Event /\ Tail(pending) \in Seq(Event)
      /\ Head(pending).eid \in EID /\ Head(pending) # None
  <2>1. Head(pending) \in Event /\ Tail(pending) \in Seq(Event)
    BY DEF IInv, TypeOK
  <2> QED  BY <2>1, ConstantsAssumption DEF Event
<1>1. TypeOK'  BY <1>0 DEF IInv, TypeOK, Entry, Event
<1>2. Control'  BY <1>0 DEF IInv, TypeOK, Control, Running, Unloaded, Boots,
     Woken
<1>3. Data'
  BY <1>0 DEF IInv, TypeOK, Data, SnapshotRegistered, KeysCover, LiveIsAlive,
     CalledIsOut, Running, Event
<1> QED  BY <1>1, <1>2, <1>3 DEF IInv, Control, Data

LEMMA LoopResumeStep ==
  ASSUME IInv, LoopResume
  PROVE  IInv'
<1> USE DEF LoopResume, run, disk, daemon
<1>1. TypeOK'  BY ConstantsAssumption DEF IInv, TypeOK, Entry
<1>2. Control'  BY DEF IInv, TypeOK, Control, Running, Unloaded, Boots,
     Woken
<1>3. Data'
  BY DEF IInv, TypeOK, Data, SnapshotRegistered, KeysCover, LiveIsAlive,
     CalledIsOut, Running
<1> QED  BY <1>1, <1>2, <1>3 DEF IInv, Control, Data

LEMMA EachBreakStep ==
  ASSUME IInv, EachBreak
  PROVE  IInv'
<1> USE DEF EachBreak, run, disk, daemon
<1>1. TypeOK'  BY ConstantsAssumption DEF IInv, TypeOK, Entry
<1>2. Control'  BY DEF IInv, TypeOK, Control, Running, Unloaded, Boots,
     Woken
<1>3. Data'
  BY DEF IInv, TypeOK, Data, SnapshotRegistered, KeysCover, LiveIsAlive,
     CalledIsOut, Running
<1> QED  BY <1>1, <1>2, <1>3 DEF IInv, Control, Data

LEMMA EachCallStep ==
  ASSUME IInv, NEW o \in OBJ, EachCall(o)
  PROVE  IInv'
<1> USE DEF EachCall, Relink, run, disk, daemon
<1>0. active \in Event /\ active.eid \in EID /\ o # None
  BY ConstantsAssumption DEF IInv, TypeOK, Running, Event
<1>1. TypeOK'
  <2>1. events' \in [EID -> [OBJ -> Entry]]
    BY <1>0 DEF IInv, TypeOK, Entry
  <2>2. ticks' \in 0 .. MaxTicks  BY ConstantsAssumption DEF IInv, TypeOK
  <2> QED  BY <1>0, <2>1, <2>2 DEF IInv, TypeOK
<1>2. Control'  BY <1>0 DEF IInv, TypeOK, Control, Running, Unloaded, Boots,
     Woken, Names
<1>3. Data'
  <2>0. listeners[o] = "stale" => objs[o] = "alive"
    BY DEF Callable
  <2>1. SnapshotRegistered'
    BY <1>0 DEF IInv, TypeOK, SnapshotRegistered
  <2>2. KeysCover'
    BY <1>0 DEF IInv, TypeOK, SnapshotRegistered, KeysCover, Names
  <2>3. LiveIsAlive'  BY <1>0, <2>0 DEF IInv, TypeOK, LiveIsAlive
  <2>4. CalledIsOut'
    BY <1>0, ConstantsAssumption DEF IInv, TypeOK, CalledIsOut, Running
  <2> QED  BY <2>1, <2>2, <2>3, <2>4 DEF Data
<1> QED  BY <1>1, <1>2, <1>3 DEF IInv, Control, Data

LEMMA EachForgetStep ==
  ASSUME IInv, NEW o \in OBJ, EachForget(o)
  PROVE  IInv'
<1> USE DEF EachForget, Forget, run, disk, daemon
<1>0. active \in Event /\ active.eid \in EID /\ o # None
  BY ConstantsAssumption DEF IInv, TypeOK, Running, Event
<1>1. TypeOK'
  <2>1. events' \in [EID -> [OBJ -> Entry]] /\ listeners' \in [OBJ -> Entry]
    BY <1>0 DEF IInv, TypeOK, Entry
  <2>2. ticks' \in 0 .. MaxTicks  BY ConstantsAssumption DEF IInv, TypeOK
  <2> QED  BY <1>0, <2>1, <2>2 DEF IInv, TypeOK
<1>2. Control'  BY <1>0 DEF IInv, TypeOK, Control, Running, Unloaded, Boots,
     Woken
<1>3. Data'
  BY <1>0 DEF IInv, TypeOK, Data, SnapshotRegistered, KeysCover, LiveIsAlive,
     CalledIsOut, Running, Names, Event
<1> QED  BY <1>1, <1>2, <1>3 DEF IInv, Control, Data

LEMMA CallReturnStep ==
  ASSUME IInv, CallReturn
  PROVE  IInv'
<1> USE DEF CallReturn, Done, run, disk, daemon
<1>1. TypeOK'  BY ConstantsAssumption DEF IInv, TypeOK, Entry
<1>2. Control'  BY DEF IInv, TypeOK, Control, Running, Unloaded, Boots,
     Woken
<1>3. Data'
  BY DEF IInv, TypeOK, Data, SnapshotRegistered, KeysCover, LiveIsAlive,
     CalledIsOut, Running
<1> QED  BY <1>1, <1>2, <1>3 DEF IInv, Control, Data

LEMMA EachDoneStep ==
  ASSUME IInv, EachDone
  PROVE  IInv'
<1> USE DEF EachDone, run, disk, daemon
<1>1. TypeOK'  BY ConstantsAssumption DEF IInv, TypeOK, Entry
<1>2. Control'  BY DEF IInv, TypeOK, Control, Running, Unloaded, Boots,
     Woken
<1>3. Data'
  BY DEF IInv, TypeOK, Data, SnapshotRegistered, KeysCover, LiveIsAlive,
     CalledIsOut, Running, Names
<1> QED  BY <1>1, <1>2, <1>3 DEF IInv, Control, Data

LEMMA DestructStep ==
  ASSUME IInv, NEW o \in OBJ, Destruct(o)
  PROVE  IInv'
<1> USE DEF Destruct, Stale, run, disk, daemon
<1>1. TypeOK'  BY ConstantsAssumption DEF IInv, TypeOK, Entry, ObjState
<1>2. Control'  BY DEF IInv, TypeOK, Control, Running, Unloaded, Boots,
     Woken
<1>3. Data'
  BY DEF IInv, TypeOK, Data, SnapshotRegistered, KeysCover, LiveIsAlive,
     CalledIsOut, Running
<1> QED  BY <1>1, <1>2, <1>3 DEF IInv, Control, Data

LEMMA LoadStep ==
  ASSUME IInv, NEW o \in OBJ, Load(o)
  PROVE  IInv'
<1> USE DEF Load, run, disk, daemon
<1>1. TypeOK'  BY ConstantsAssumption DEF IInv, TypeOK, Entry, ObjState
<1>2. Control'  BY DEF IInv, TypeOK, Control, Running, Unloaded, Boots,
     Woken
<1>3. Data'
  BY DEF IInv, TypeOK, Data, SnapshotRegistered, KeysCover, LiveIsAlive,
     CalledIsOut, Running
<1> QED  BY <1>1, <1>2, <1>3 DEF IInv, Control, Data

LEMMA CreateStep ==
  ASSUME IInv, Create
  PROVE  IInv'
<1> USE DEF Create, NoEvents, NoListeners, run, disk, daemon
<1>1. TypeOK'  BY ConstantsAssumption DEF IInv, TypeOK, Entry
<1>2. Control'  BY DEF IInv, TypeOK, Control, Running, Unloaded, Boots,
     Woken
<1>3. Data'
  BY DEF IInv, TypeOK, Data, SnapshotRegistered, KeysCover, LiveIsAlive,
     CalledIsOut, Unloaded
<1> QED  BY <1>1, <1>2, <1>3 DEF IInv, Control, Data

LEMMA RebootStep ==
  ASSUME IInv, Reboot
  PROVE  IInv'
<1> USE DEF Reboot, NoEvents, NoListeners, run, disk, daemon
<1>0. NoListeners \in [OBJ -> Entry] /\ NoEvents \in [EID -> [OBJ -> Entry]]
  BY DEF NoListeners, NoEvents, Entry
<1>1. TypeOK'
  <2>1. updateme' \in BOOLEAN /\ up' \in BOOLEAN  OBVIOUS
  <2>2. callouts' \in 0 .. 1 /\ pending' \in Seq(Event)  OBVIOUS
  <2>3. called' \in SUBSET OBJ /\ eids' \in SUBSET EID  OBVIOUS
  <2>4. objs' \in [OBJ -> ObjState]  BY DEF ObjState
  <2> QED  BY <1>0, <2>1, <2>2, <2>3, <2>4 DEF IInv, TypeOK
<1>2. Control'  BY DEF IInv, TypeOK, Control, Running, Unloaded, Boots,
     Woken
<1>3. Data'
  BY DEF IInv, TypeOK, Data, SnapshotRegistered, KeysCover, LiveIsAlive,
     CalledIsOut, Running
<1> QED  BY <1>1, <1>2, <1>3 DEF IInv, Control, Data

LEMMA StutterStep ==
  ASSUME IInv, UNCHANGED vars
  PROVE  IInv'
<1> USE DEF vars, daemon, run, disk
<1>1. TypeOK'  BY DEF IInv, TypeOK
<1>2. Control'  BY DEF IInv, Control, Running, Unloaded, Boots,
     Woken
<1>3. Data'
  BY DEF IInv, Data, SnapshotRegistered, KeysCover, LiveIsAlive, CalledIsOut
<1> QED  BY <1>1, <1>2, <1>3 DEF IInv, Control, Data

\* The invariant is inductive: no operation of the interface, no step of
\* process_events() and nothing that happens around the daemon breaks it.
THEOREM NextIInv == IInv /\ [Next]_vars => IInv'
<1> SUFFICES ASSUME IInv, [Next]_vars PROVE IInv'  OBVIOUS
<1>1. CASE Interface
  BY <1>1, RegisterStep, UnregisterStep, TriggerStep, UpdateMeStep
  DEF Interface
<1>2. CASE Step
  BY <1>2, ProcessStep, LoopEndStep, LoopIdleStep, LoopTakeStep,
     LoopResumeStep, EachBreakStep, EachCallStep, EachForgetStep,
     CallReturnStep, EachDoneStep
  DEF Step
<1>3. CASE World
  BY <1>3, DestructStep, LoadStep, CreateStep, ResetStep, RebootStep
  DEF World
<1>4. CASE UNCHANGED vars  BY <1>4, StutterStep
<1> QED  BY <1>1, <1>2, <1>3, <1>4 DEF Next

\* The inductive invariant holds in every reachable state.
THEOREM Invariance == Spec => []IInv
BY InitIInv, NextIInv, PTL DEF Spec

\* Every variable keeps its type; in particular process_events() is never
\* scheduled twice.
THEOREM TypeCorrect == Spec => []TypeOK
<1>1. IInv => TypeOK  BY DEF IInv
<1> QED  BY <1>1, Invariance, PTL

\* Whoever the active event still has to call is registered for it: the
\* unchecked writes to events[eid][obname] in process_events() are safe.
THEOREM SnapshotSafe == Spec => []SnapshotRegistered
<1>1. IInv => SnapshotRegistered  BY DEF IInv
<1> QED  BY <1>1, Invariance, PTL

\* No event is left without a call_out that dispatches it.
THEOREM AlwaysWoken == Spec => []Woken
<1>1. IInv => Woken  BY DEF IInv
<1> QED  BY <1>1, Invariance, PTL

\* Every callback runs in an object that is there, is registered for the event
\* and has not been called for it.
THEOREM CallsSafe == Spec => CallsRegisteredOnce
<1> DEFINE Call == current' # None /\ current' # current
           Safe == /\ active.eid \in eids
                   /\ events[active.eid][current'] # "absent"
                   /\ objs[current'] = "alive"
                   /\ current' \notin called
<1>1. ASSUME IInv, Next, Call PROVE \E o \in OBJ : EachCall(o)
  BY <1>1 DEF Next, Interface, Step, World, RegisterEvent, UnregisterEvent,
     TriggerEvent, UpdateMe, Reset, ForcedRemove, ProcessEvents, Leave,
     LoopEnd, LoopIdle, LoopTake, LoopResume, EachBreak, EachForget,
     CallReturn, EachDone, Destruct, Load, Create, Reboot, run
<1>2. ASSUME IInv, NEW o \in OBJ, EachCall(o) PROVE Safe
  <2>1. listeners[o] # "absent" /\ current' = o /\ Callable(o)
    BY <1>2 DEF EachCall, Names
  <2>2. active.eid \in eids /\ events[active.eid][o] # "absent"
    BY <1>2, <2>1 DEF IInv, SnapshotRegistered
  <2>3. objs[o] = "alive"
    BY <1>2, <2>1 DEF IInv, LiveIsAlive, Callable
  <2>4. o \notin called
    BY <1>2, <2>1, ConstantsAssumption
    DEF IInv, CalledIsOut, Running, EachCall
  <2> QED  BY <2>1, <2>2, <2>3, <2>4
<1>3. IInv /\ [Next]_vars => [Call => Safe]_vars
  BY <1>1, <1>2
<1> QED  BY <1>3, Invariance, PTL DEF Spec, CallsRegisteredOnce
-----------------------------------------------------------------------------
(***************************************************************************)
(* The daemon implements EventBus, for every choice of its constants.      *)
(***************************************************************************)
\* What the refinement mapping is computed from.
AbsUnchanged ==
  UNCHANGED <<AbsQueue, AbsSubs, AbsOwed, active # None, called>>

LEMMA StutterMaps == AbsUnchanged => UNCHANGED Bus!bvars
BY DEF AbsUnchanged, Bus!bvars

\* The queue of the bus when its head is being dispatched.
LEMMA QueueHead ==
  ASSUME TypeOK, active # None
  PROVE  /\ AbsQueue \in Seq(Event)
         /\ AbsQueue # <<>>
         /\ Head(AbsQueue) = active
         /\ Tail(AbsQueue) = pending
<1>1. active \in Event /\ pending \in Seq(Event)  BY DEF TypeOK
<1> QED  BY <1>1 DEF AbsQueue

LEMMA InitMaps == Init => Bus!Init
BY ConstantsAssumption DEF Init, Bus!Init, Bus!Quiet, AbsQueue, AbsSubs, AbsOwed, NoEvents,
   NoListeners, Names

LEMMA TriggerMaps ==
  ASSUME IInv, NEW e \in EID, TriggerEvent(e)
  PROVE  Bus!Accept(e)
<1> USE DEF TriggerEvent, run, disk
<1> DEFINE ev == [id |-> nextId, eid |-> e]
<1>1. ev \in Event /\ pending \in Seq(Event) /\ nextId \in 1 .. MaxEvents
  BY ConstantsAssumption DEF IInv, TypeOK, Event
<1>2. AbsQueue' = Append(AbsQueue, ev)
  <2>1. CASE active = None  BY <2>1 DEF AbsQueue
  <2>2. CASE active # None
    <3>1. active \in Event  BY <2>2 DEF IInv, TypeOK
    <3> QED  BY <1>1, <2>2, <3>1 DEF AbsQueue
  <2> QED  BY <2>1, <2>2
<1>3. UNCHANGED <<AbsSubs, AbsOwed, active # None, called>>
  BY DEF AbsSubs, AbsOwed
<1> QED  BY <1>1, <1>2, <1>3 DEF Bus!Accept

\* The subscribers, as long as the daemon is loaded.
LEMMA SubsUp ==
  /\ up => AbsSubs = [e \in EID |-> Names(events[e])]
  /\ up' => AbsSubs' = [e \in EID |-> Names(events'[e])]
BY DEF AbsSubs

LEMMA RegisterMaps ==
  ASSUME IInv, NEW e \in EID, NEW o \in OBJ, RegisterEvent(e, o)
  PROVE  Bus!Subscribe(e, o)
<1> USE DEF RegisterEvent, OthersRun, run, disk
<1>1. AbsSubs' = [AbsSubs EXCEPT ![e] = @ \cup {o}]
  <2>1. \A x \in EID : Names(events'[x]) =
          IF x = e THEN Names(events[x]) \cup {o} ELSE Names(events[x])
    BY DEF Names, IInv, TypeOK
  <2> QED  BY <2>1, SubsUp
<1>2. UNCHANGED <<AbsQueue, AbsOwed, active # None, called>>
  BY DEF AbsQueue, AbsOwed
<1> QED  BY <1>1, <1>2 DEF Bus!Subscribe

LEMMA UnregisterMaps ==
  ASSUME IInv, NEW e \in EID, NEW o \in OBJ, UnregisterEvent(e, o)
  PROVE  Bus!Unsubscribe(e, o)
<1> USE DEF UnregisterEvent, OthersRun, run, disk
<1>1. AbsSubs' = [AbsSubs EXCEPT ![e] = @ \ {o}]
  <2>1. \A x \in EID : Names(events'[x]) =
          IF x = e THEN Names(events[x]) \ {o} ELSE Names(events[x])
    BY DEF Names, IInv, TypeOK
  <2> QED  BY <2>1, SubsUp
<1>2. UNCHANGED <<AbsQueue, active # None, called>>
  BY DEF AbsQueue
<1>3. AbsOwed' = IF active # None /\ Head(AbsQueue).eid = e
                   THEN AbsOwed \ {o} ELSE AbsOwed
  BY QueueHead DEF AbsOwed, Unlist, Names, IInv, TypeOK
<1> QED  BY <1>1, <1>2, <1>3 DEF Bus!Unsubscribe

LEMMA RemoveMaps ==
  ASSUME IInv, up, Remove, current = None, current' = None
  PROVE  Bus!Lose
<1> USE DEF Remove
<1>1. Bus!Quiet'
  BY DEF Bus!Quiet, AbsQueue, AbsOwed, NoListeners, Names
<1>2. AbsSubs' \in {AbsSubs, [e \in EID |-> {}]}
  <2>1. \A e \in EID : Names(Written(events)[e]) = Names(events[e])
    BY DEF Names, Written, Stale, IInv, TypeOK
  <2> QED  BY <2>1, SubsUp DEF AbsSubs
<1> QED  BY <1>1, <1>2 DEF Bus!Lose

LEMMA TakeMaps ==
  ASSUME IInv, LoopTake
  PROVE  Bus!Begin
<1> USE DEF LoopTake, Snapshot, run, disk
<1>1. /\ Head(pending) \in Event /\ Tail(pending) \in Seq(Event)
      /\ Head(pending) # None /\ Head(pending).eid \in EID
  <2>1. Head(pending) \in Event /\ Tail(pending) \in Seq(Event)
    BY DEF IInv, TypeOK
  <2> QED  BY <2>1, ConstantsAssumption DEF Event
<1>2. AbsQueue = pending /\ AbsQueue' = <<Head(pending)>> \o Tail(pending)
  BY <1>1 DEF AbsQueue
<1>3. AbsQueue' = AbsQueue
  BY <1>1, <1>2 DEF IInv, TypeOK
<1>4. AbsOwed' = AbsSubs[Head(AbsQueue).eid]
  BY <1>1, <1>2, SubsUp, ConstantsAssumption
  DEF AbsOwed, IInv, Running, TypeOK, Names
<1>5. UNCHANGED <<AbsSubs, called>>  BY DEF AbsSubs
<1> QED  BY <1>1, <1>2, <1>3, <1>4, <1>5 DEF Bus!Begin

LEMMA EachCallMaps ==
  ASSUME IInv, NEW o \in OBJ, EachCall(o)
  PROVE  Bus!Deliver(o)
<1> USE DEF EachCall, run, disk
<1>1. /\ active # None /\ current = None /\ o # None /\ up
      /\ active.eid \in EID
  BY ConstantsAssumption DEF IInv, TypeOK, Running, Event
<1>2. /\ o \in AbsOwed /\ o \notin called
      /\ events[active.eid][o] # "absent"
  BY <1>1, ConstantsAssumption
  DEF AbsOwed, IInv, SnapshotRegistered, CalledIsOut, Names
<1>3. AbsSubs' = AbsSubs
  <2>1. \A e \in EID : Names(events'[e]) = Names(events[e])
    BY <1>1, <1>2 DEF Names, Relink, IInv, TypeOK
  <2> QED  BY <2>1, <1>1, SubsUp
<1>4. o \in AbsSubs[Head(AbsQueue).eid]
  BY <1>1, <1>2, QueueHead, SubsUp DEF IInv, Names
<1>5. AbsOwed' = AbsOwed \ {o}
  BY <1>1, ConstantsAssumption DEF AbsOwed, Names
<1>6. UNCHANGED <<AbsQueue, active # None>>  BY DEF AbsQueue
<1> QED  BY <1>1, <1>2, <1>3, <1>4, <1>5, <1>6 DEF Bus!Deliver

LEMMA EachForgetMaps ==
  ASSUME IInv, NEW o \in OBJ, EachForget(o)
  PROVE  Bus!Forget(o)
<1> USE DEF EachForget, run, disk
<1>1. /\ active # None /\ current = None /\ o # None /\ up
      /\ active.eid \in EID
  BY ConstantsAssumption DEF IInv, TypeOK, Running, Event
<1>2. o \in AbsOwed
  BY <1>1, ConstantsAssumption DEF AbsOwed, Names
<1>3. AbsSubs' = [AbsSubs EXCEPT ![Head(AbsQueue).eid] = @ \ {o}]
  <2>1. \A e \in EID : Names(events'[e]) =
          IF e = active.eid THEN Names(events[e]) \ {o} ELSE Names(events[e])
    BY <1>1 DEF Names, Forget, IInv, TypeOK
  <2>2. Head(AbsQueue) = active  BY <1>1, QueueHead DEF IInv
  <2>3. AbsSubs = [e \in EID |-> Names(events[e])] /\
        AbsSubs' = [e \in EID |-> Names(events'[e])]
    BY <1>1, SubsUp
  <2> QED  BY ONLY <2>1, <2>2, <2>3, <1>1
<1>4. AbsOwed' = AbsOwed \ {o}
  BY <1>1 DEF AbsOwed, Names, IInv, TypeOK
<1>5. UNCHANGED <<AbsQueue, active # None, called>>  BY DEF AbsQueue
<1> QED  BY <1>1, <1>2, <1>3, <1>4, <1>5 DEF Bus!Forget

LEMMA DoneMaps ==
  ASSUME IInv, EachDone
  PROVE  Bus!Finish
<1> USE DEF EachDone, run, disk
<1>1. active # None  BY DEF IInv, Running
<1>2. AbsOwed = {} /\ AbsOwed' = {}  BY DEF AbsOwed
<1>3. AbsQueue' = Tail(AbsQueue)
  <2>1. AbsQueue' = pending  BY DEF AbsQueue
  <2> QED  BY <2>1, <1>1, QueueHead DEF IInv
<1>4. UNCHANGED AbsSubs  BY DEF AbsSubs
<1> QED  BY <1>1, <1>2, <1>3, <1>4 DEF Bus!Finish

LEMMA RebootMaps ==
  ASSUME IInv, Reboot
  PROVE  Bus!Lose
<1> USE DEF Reboot, run
<1>1. current = None  BY DEF IInv, Running
<1>2. Bus!Quiet'
  BY <1>1 DEF Bus!Quiet, AbsQueue, AbsOwed, NoListeners, Names
<1>3. AbsSubs' \in {AbsSubs, [e \in EID |-> {}]}
  <2>1. saved.lastboot # boot'  BY DEF IInv, TypeOK, Boots
  <2> QED  BY <2>1 DEF AbsSubs
<1> QED  BY <1>2, <1>3 DEF Bus!Lose

\* The steps that the bus does not see.
LEMMA SilentMaps ==
  ASSUME IInv,
         \/ ProcessEvents \/ LoopResume \/ EachBreak \/ CallReturn
         \/ \E o \in OBJ : Destruct(o) \/ Load(o)
         \/ Create \/ UNCHANGED vars
  PROVE  AbsUnchanged
<1>1. CASE ProcessEvents \/ LoopResume \/ EachBreak \/ UNCHANGED vars
  BY <1>1 DEF ProcessEvents, LoopResume, EachBreak, vars, daemon, run, disk,
     AbsUnchanged, AbsQueue, AbsSubs, AbsOwed
<1>2. CASE CallReturn
  <2>1. AbsOwed' = AbsOwed
    BY <1>2, ConstantsAssumption
    DEF CallReturn, Done, AbsOwed, Names, IInv, TypeOK, Running
  <2> QED  BY <1>2, <2>1
    DEF CallReturn, disk, AbsUnchanged, AbsQueue, AbsSubs
<1>3. ASSUME NEW o \in OBJ, Destruct(o) PROVE AbsUnchanged
  <2>1. Names(listeners') = Names(listeners)
    BY <1>3 DEF Destruct, Names, Stale, IInv, TypeOK
  <2>2. \A e \in EID : Names(events'[e]) = Names(events[e])
    BY <1>3 DEF Destruct, Names, Stale, IInv, TypeOK
  <2>3. AbsSubs' = AbsSubs  BY <1>3, <2>2 DEF Destruct, disk, AbsSubs
  <2> QED  BY <1>3, <2>1, <2>3
    DEF Destruct, run, AbsUnchanged, AbsQueue, AbsOwed
<1>4. ASSUME NEW o \in OBJ, Load(o) PROVE AbsUnchanged
  BY <1>4 DEF Load, daemon, run, disk, AbsUnchanged, AbsQueue, AbsSubs, AbsOwed
<1>5. CASE Create
  <2>1. AbsSubs' = AbsSubs
    BY <1>5 DEF Create, AbsSubs, NoEvents, NoListeners, Names
  <2> QED  BY <1>5, <2>1
    DEF Create, run, AbsUnchanged, AbsQueue, AbsOwed
<1> QED  BY <1>1, <1>2, <1>3, <1>4, <1>5

\* The steps that may end in remove().
LEMMA MayRemoveMaps ==
  ASSUME IInv,
         \/ \E flag \in BOOLEAN : UpdateMe(flag)
         \/ LoopEnd \/ LoopIdle \/ Reset \/ ForcedRemove
  PROVE  Bus!Lose \/ AbsUnchanged
<1>1. CASE LoopEnd \/ LoopIdle \/ Reset \/ ForcedRemove
  <2>1. up /\ current = None /\ current' = None
    BY <1>1 DEF LoopEnd, LoopIdle, Leave, Reset, ForcedRemove, run, IInv, Running
  <2>2. Remove \/ UNCHANGED <<pending, active, listeners, events, up, saved,
                              boot, called>>
    BY <1>1 DEF LoopEnd, LoopIdle, Reset, ForcedRemove, daemon, disk
  <2> QED  BY <2>1, <2>2, RemoveMaps
    DEF AbsUnchanged, AbsQueue, AbsSubs, AbsOwed
<1>2. ASSUME NEW flag \in BOOLEAN, UpdateMe(flag)
      PROVE  Bus!Lose \/ AbsUnchanged
  <2>1. CASE flag /\ callouts = 0 /\ Idle(active, pending)
    <3>1. up /\ Remove /\ current = None /\ current' = None
      BY <1>2, <2>1 DEF UpdateMe, OthersRun, run, IInv, Running
    <3> QED  BY <3>1, RemoveMaps
  <2>2. CASE ~(flag /\ callouts = 0 /\ Idle(active, pending))
    BY <1>2, <2>2 DEF UpdateMe, run, disk, AbsUnchanged, AbsQueue, AbsSubs,
       AbsOwed
  <2> QED  BY <2>1, <2>2
<1> QED  BY <1>1, <1>2

\* Every step of the daemon is a step of the bus or leaves it unchanged.
LEMMA NextMaps == IInv /\ [Next]_vars => [Bus!Next]_Bus!bvars
<1> SUFFICES ASSUME IInv, [Next]_vars PROVE [Bus!Next]_Bus!bvars  OBVIOUS
<1>1. CASE Interface
  BY <1>1, TriggerMaps, RegisterMaps, UnregisterMaps, MayRemoveMaps,
     StutterMaps
  DEF Interface, Bus!Next
<1>2. CASE Step
  BY <1>2, TakeMaps, EachCallMaps, EachForgetMaps, DoneMaps, SilentMaps,
     MayRemoveMaps, StutterMaps
  DEF Step, Bus!Next
<1>3. CASE World
  BY <1>3, RebootMaps, SilentMaps, MayRemoveMaps, StutterMaps
  DEF World, Bus!Next
<1>4. CASE UNCHANGED vars  BY <1>4, SilentMaps, StutterMaps
<1> QED  BY <1>1, <1>2, <1>3, <1>4 DEF Next

\* The daemon implements the bus: every accepted event is dispatched in its
\* turn, to everyone who was registered when its dispatch began and stayed
\* registered, at most once, and is lost only with the daemon.
THEOREM Implementation == Spec => ImplementsBus
BY InitMaps, NextMaps, Invariance, PTL DEF Spec, ImplementsBus, Bus!Spec
=============================================================================
