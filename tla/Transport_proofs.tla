-------------------------- MODULE Transport_proofs --------------------------
(***************************************************************************)
(* Proofs about the transporter, for every route and any number of players.*)
(***************************************************************************)
EXTENDS Transport, TLAPS

USE DEF TIMER

PLACE == STOP \cup {Ship, Away}

\* What an arrival may begin and end with
Scene ==
  [roomCode : STOP \cup {None}, at : STOP, recent : BOOLEAN, marked : BOOLEAN,
   loc : [PLAYER -> PLACE], info : [PLAYER -> Journey \cup {None}]]
SceneOK(s) == s \in Scene /\ s.roomCode \in {None, s.at}

Course ==
  /\ rpos \in DOMAIN ROUTE
  /\ timers \in [TIMER -> 0..2] /\ timers["changeHp"] + timers["disconnect"] <= 2

Rest ==
  /\ continuing \in BOOLEAN
  /\ hooked \subseteq loaded /\ loaded \subseteq STOP
  /\ Running => hooked = {}

Shells ==
  /\ ndead \in [PLAYER -> STOP \cup {Ship, None}]
  /\ fighting \subseteq Traveller /\ online \subseteq PLAYER

LEMMA NowParts ==
  SceneOK(Now) <=>
    /\ roomCode \in {None, at} /\ at \in STOP
    /\ recent \in BOOLEAN /\ marked \in BOOLEAN
    /\ loc \in [PLAYER -> PLACE]
    /\ info \in [PLAYER -> Journey \cup {None}]
BY DEF SceneOK, Scene, Now

LEMMA TypeParts ==
  TypeOK <=> Course /\ SceneOK(Now) /\ Rest /\ Shells /\ overlooked \subseteq PLAYER
BY NowParts DEF TypeOK, Course, Rest, Shells, PLACE

LEMMA BecomesNow ==
  ASSUME NEW s, SceneOK(s), Becomes(s)
  PROVE  SceneOK(Now)'
BY DEF Becomes, SceneOK, Scene, Now

\* The entries of the route (AddRoute(), AddMsg(), AddFun()).
LEMMA RouteEntries ==
  /\ \A i \in DOMAIN ROUTE : ROUTE[i] = Message \/ ROUTE[i] \in STOP
  /\ 1 \in DOMAIN ROUTE /\ ROUTE[1] \in STOP
  /\ DOMAIN ROUTE = 1..Len(ROUTE) /\ Len(ROUTE) \in Nat
  /\ {Ship, Away, None} \cap STOP = {} /\ Ship # Away
<1>1. ROUTE \in Seq(STOP \cup {Message}) /\ ROUTE # <<>> /\ ROUTE[1] # Message
  BY RouteAssumption DEF RouteAssumption
<1>2. DOMAIN ROUTE = 1..Len(ROUTE) /\ Len(ROUTE) \in Nat
  BY <1>1
<1>3. \A i \in DOMAIN ROUTE : ROUTE[i] \in STOP \cup {Message}
  BY <1>1
<1>4. 1 \in DOMAIN ROUTE
  BY <1>1
<1>5. {Ship, Away, None} \cap STOP = {} /\ Ship # Away
  BY RouteAssumption DEF RouteAssumption
<1> QED
  BY <1>1, <1>2, <1>3, <1>4, <1>5

LEMMA FlippedOK ==
  ASSUME NEW s, SceneOK(s), NEW calls
  PROVE  SceneOK(Flipped(s, calls)) /\ Flipped(s, calls).loc = s.loc
BY DEF SceneOK, Scene, Flipped

\* connect() leaves the state well typed, and moves nobody who is elsewhere.
LEMMA ReachedOK ==
  ASSUME NEW i \in DOMAIN ROUTE, NEW s, SceneOK(s), NEW t \in Reached(ROUTE[i], s)
  PROVE  /\ SceneOK(t)
         /\ \A p \in PLAYER : s.loc[p] \notin STOP \cup {Ship} => t.loc[p] = s.loc[p]
<1> DEFINE r == ROUTE[i]
<1>1. r = Message \/ r \in STOP
  BY RouteEntries
<1>2. CASE r = Message
  BY <1>2 DEF Reached
<1>3. ASSUME r \in STOP, NEW seen PROVE SceneOK(Meet(s, seen)) /\ Meet(s, seen).loc = s.loc
  BY <1>3 DEF SceneOK, Scene, Meet
<1>4. ASSUME r \in STOP, t \in Failed(r, s) PROVE SceneOK(t) /\ t.loc = s.loc
  <2>1. CASE t = [s EXCEPT !.roomCode = None]
    BY <2>1 DEF SceneOK, Scene
  <2>2. ASSUME NEW seen, t = [Meet(s, seen) EXCEPT !.roomCode = None, !.at = r]
        PROVE  SceneOK(t) /\ t.loc = s.loc
    <3> DEFINE u == Meet(s, seen)
    <3>1. SceneOK(u) /\ u.loc = s.loc
      BY <1>3, <1>4
    <3> HIDE DEF u
    <3> QED
      BY <1>4, <2>2, <3>1 DEF SceneOK, Scene, u
  <2> QED
    BY <1>4, <2>1, <2>2 DEF Failed
<1>5. ASSUME r \in STOP, NEW out \in SUBSET GettingOff(r, s), NEW on \in GettingOn(r, s, out),
             t = Exchange(r, s, out, on)
      PROVE  /\ SceneOK(t)
             /\ \A p \in PLAYER : s.loc[p] \notin STOP \cup {Ship} => t.loc[p] = s.loc[p]
  <2> DEFINE u == Meet(s, {p \in PLAYER : s.loc[p] = r} \cup out)
             where == [p \in PLAYER |-> IF p \in on THEN Ship ELSE IF p \in out THEN r ELSE u.loc[p]]
             told == [p \in PLAYER |-> IF p \in on THEN [u.info[p] EXCEPT !.from = Ship]
                        ELSE IF p \in GettingOff(r, s) THEN None ELSE u.info[p]]
  <2>1. SceneOK(u) /\ u.loc = s.loc /\ u.info = s.info
    BY <1>3, <1>5 DEF Meet, SceneOK, Scene
  <2>2. on \subseteq {p \in PLAYER : s.loc[p] = r /\ s.info[p] # None}
    BY DEF GettingOn
  <2>3. out \subseteq Inside(s)
    BY DEF GettingOff
  <2>4. where \in [PLAYER -> PLACE]
    BY <1>5, <2>1 DEF SceneOK, Scene, PLACE
  <2>5. \A p \in on : [s.info[p] EXCEPT !.from = Ship] \in Journey
    BY <2>2 DEF SceneOK, Scene, Journey
  <2>6. told \in [PLAYER -> Journey \cup {None}]
    BY <2>1, <2>5 DEF SceneOK, Scene
  <2>7. t = [u EXCEPT !.roomCode = r, !.at = r, !.loc = where, !.info = told]
    BY <1>5 DEF Exchange
  <2> HIDE DEF u, told
  <2>8. SceneOK(t) /\ t.loc = where
    <3> HIDE DEF where
    <3> QED
      BY <1>5, <2>1, <2>4, <2>6, <2>7 DEF SceneOK, Scene
  <2> QED
    BY <1>5, <2>1, <2>2, <2>3, <2>8 DEF Inside
<1> QED
  BY <1>1, <1>2, <1>4, <1>5 DEF Reached, Connected

\* changeHp() calls one more function out.
LEMMA ArriveTypes ==
  ASSUME NEW i \in DOMAIN ROUTE,
         NEW others \in [TIMER -> 0..1], others["changeHp"] + others["disconnect"] <= 1,
         NEW s, SceneOK(s), Arrive(i, others, s)
  PROVE  (Course /\ SceneOK(Now) /\ Running)'
<1>1. PICK t \in Reached(ROUTE[i], s) : Becomes(t)
  BY DEF Arrive
<1>2. SceneOK(Now)'
  BY <1>1, ReachedOK, BecomesNow
<1>3. rpos' = i /\ timers' = [others EXCEPT ![Call(i)] = @ + 1] /\ Call(i) \in TIMER
  BY DEF Arrive, Call
<1>4. Course' /\ Running'
  BY <1>3 DEF Course, Running, Halted
<1> QED
  BY <1>2, <1>4, PTL

LEMMA HaltedTypes ==
  Halted \in [TIMER -> 0..1] /\ Halted["changeHp"] + Halted["disconnect"] <= 1
BY DEF Halted

LEMMA ResumeTypes ==
  ASSUME TypeOK, NEW calls, NEW s, SceneOK(s), Resume(calls, s)
  PROVE  (Course /\ SceneOK(Now) /\ Running)' /\ hooked' = {} /\ loaded' = STOP
<1>1. SceneOK(Flipped(s, calls)) /\ rpos \in DOMAIN ROUTE
  BY FlippedOK DEF TypeOK
<1>2. Arrive(rpos, Halted, Flipped(s, calls))
  BY DEF Resume
<1>3. (Course /\ SceneOK(Now) /\ Running)'
  BY <1>1, <1>2, HaltedTypes, ArriveTypes
<1> QED
  BY <1>3 DEF Resume

\* A player comes to a place outside.
LEMMA ComeTypes ==
  ASSUME TypeOK, NEW p \in PLAYER, NEW r \in STOP \cup {Away}, Come(p, r),
         info' \in [PLAYER -> Journey \cup {None}]
  PROVE  /\ (Course /\ SceneOK(Now) /\ Rest)' /\ Running' = Running
         /\ continuing' = (continuing \/ r \in hooked)
         /\ hooked' = hooked /\ loaded' = loaded /\ loc' = [loc EXCEPT ![p] = r]
<1>1. /\ roomCode' \in {None, at'} /\ at' \in STOP
      /\ recent' \in BOOLEAN /\ marked' \in BOOLEAN
      /\ loc' \in [PLAYER -> PLACE]
  BY DEF TypeOK, Come, PLACE
<1>2. SceneOK(Now)'
  BY <1>1 DEF SceneOK, Scene, Now
<1>3. Running' = Running
  BY DEF Come, Running
<1>4. /\ continuing' = (continuing \/ r \in hooked)
      /\ hooked' = hooked /\ loaded' = loaded /\ loc' = [loc EXCEPT ![p] = r]
  BY DEF Come, stops
<1>5. Course' /\ Rest'
  BY <1>3, <1>4 DEF TypeOK, Course, Rest, Come
<1> QED
  BY <1>2, <1>3, <1>4, <1>5, PTL

\* A player comes inside.
LEMMA BoardTypes ==
  ASSUME TypeOK, NEW p \in PLAYER, NEW told \in [PLAYER -> Journey \cup {None}],
         Board(p, told)
  PROVE  (Course /\ SceneOK(Now) /\ Rest)' /\ (Running' \/ continuing')
<1> DEFINE within == [Now EXCEPT !.loc[p] = Ship, !.info = told, !.recent = TRUE, !.marked = FALSE]
<1>1. SceneOK(within)
  <2>1. SceneOK(Now)
    BY TypeParts
  <2> QED
    BY <2>1 DEF SceneOK, Scene, Now, PLACE
<1> HIDE DEF within
<1>2. continuing' = continuing /\ continuing \in BOOLEAN
  BY DEF Board, TypeOK
<1>3. CASE (Running \/ continuing) /\ Becomes(within) /\ UNCHANGED <<rpos, timers, stops>>
  <2>1. SceneOK(Now)'
    BY <1>1, <1>3, BecomesNow
  <2>2. Course' /\ Rest' /\ Running' = Running
    BY <1>2, <1>3 DEF TypeOK, Course, Rest, Running, stops
  <2> QED
    BY <1>2, <1>3, <2>1, <2>2
<1>4. CASE Resume(1 + Cardinality(Unloaded), within)
  <2>1. (Course /\ SceneOK(Now) /\ Running)' /\ hooked' = {} /\ loaded' = STOP
    BY <1>1, <1>4, ResumeTypes
  <2>2. Rest'
    BY <1>2, <2>1 DEF Rest
  <2> QED
    BY <2>1, <2>2, PTL
<1> QED
  BY <1>3, <1>4 DEF Board, within
-----------------------------------------------------------------------------
(***************************************************************************)
(* Type correctness.                                                       *)
(***************************************************************************)

\* What a step leaves: all but the history
Typed == Course /\ SceneOK(Now) /\ Rest /\ Shells

LEMMA InitTypes == Init => TypeOK
<1> SUFFICES ASSUME Init PROVE TypeOK
  OBVIOUS
<1>1. timers \in [TIMER -> 0..2] /\ timers["changeHp"] + timers["disconnect"] <= 2
  BY DEF Init, Halted
<1>2. rpos \in DOMAIN ROUTE /\ roomCode \in {None, at} /\ at \in STOP
  BY RouteEntries DEF Init
<1> QED
  BY <1>1, <1>2 DEF Init, TypeOK

\* The pause, which may be refused after the route has gone on.
LEMMA PauseTypes ==
  ASSUME TypeOK, NEW others \in [TIMER -> 0..1],
         others["changeHp"] + others["disconnect"] <= 1,
         PauseNow(others) \/ PauseRefused(others)
  PROVE  /\ (Course /\ SceneOK(Now))'
         /\ hooked' \subseteq STOP /\ loaded' = STOP
         /\ Running' => hooked' = {}
<1>1. SceneOK(Now) /\ rpos \in DOMAIN ROUTE /\ 1 \in DOMAIN ROUTE
  BY TypeParts, RouteEntries DEF Course
<1> DEFINE s == Flipped(Now, Cardinality(Unloaded))
<1>2. SceneOK(s)
  BY <1>1, FlippedOK
<1>3. ASSUME NEW t \in Reached(ROUTE[rpos], s) PROVE SceneOK(t)
  BY <1>1, <1>2, <1>3, ReachedOK
<1> HIDE DEF s
<1>4. CASE PauseNow(others)
  <2>1. Subscribed(others) \subseteq STOP
    BY RouteEntries DEF Subscribed
  <2>2. SceneOK(Now)'
    BY <1>1, <1>3, <1>4, BecomesNow DEF PauseNow, s
  <2>3. Course' /\ ~Running'
    BY <1>1, <1>4 DEF PauseNow, Course, Running, Halted
  <2> QED
    BY <1>4, <2>1, <2>2, <2>3 DEF PauseNow
<1>5. CASE PauseRefused(others)
  <2>1. CASE Arrive(1, others, Now)
    BY <1>1, <1>5, <2>1, ArriveTypes DEF PauseRefused
  <2>2. CASE Reloading(others) /\ \E t \in Reached(ROUTE[rpos], s) :
                Arrive(1, [others EXCEPT ![Call(rpos)] = 1], t)
    <3> DEFINE called == [others EXCEPT ![Call(rpos)] = 1]
    <3>1. called \in [TIMER -> 0..1] /\ called["changeHp"] + called["disconnect"] <= 1
      BY <2>2 DEF Reloading, Halted, Call
    <3>2. PICK t \in Reached(ROUTE[rpos], s) : Arrive(1, called, t)
      BY <2>2
    <3> HIDE DEF called
    <3>3. (Course /\ SceneOK(Now))'
      BY <1>1, <1>3, <3>1, <3>2, ArriveTypes
    <3> QED
      BY <1>5, <3>3 DEF PauseRefused
  <2> QED
    BY <1>5, <2>1, <2>2 DEF PauseRefused, s
<1> QED
  BY <1>4, <1>5

\* The three call_outs
LEMMA CallOutTypes ==
  ASSUME TypeOK, CallOut
  PROVE  Typed'
<1>1. SceneOK(Now) /\ Shells /\ Rest /\ Course
  BY TypeParts
<1>2. UNCHANGED shells
  BY DEF CallOut, ChangeHp, Disconnect, ContinueFires
<1>3. Shells'
  BY <1>1, <1>2 DEF Shells, shells
<1>4. CASE ChangeHp
  <2> DEFINE others == [timers EXCEPT !["changeHp"] = @ - 1]
  <2>1. /\ others \in [TIMER -> 0..1] /\ others["changeHp"] + others["disconnect"] <= 1
        /\ hooked = {} /\ continuing' = continuing
    BY <1>1, <1>4 DEF ChangeHp, Course, Rest, Running, Halted
  <2>2. SceneOK([Now EXCEPT !.marked = FALSE])
    BY <1>1 DEF SceneOK, Scene, Now
  <2>3. ASSUME NEW i \in DOMAIN ROUTE, NEW s, SceneOK(s), Arrive(i, others, s),
               loaded' = loaded \cup ({ROUTE[i]} \ {Message}), hooked' = hooked
        PROVE  Typed'
    <3> HIDE DEF others
    <3>1. (Course /\ SceneOK(Now) /\ Running)'
      BY <2>1, <2>3, ArriveTypes
    <3>2. Rest'
      BY <1>1, <2>1, <2>3, RouteEntries DEF Rest
    <3> QED
      BY <1>3, <3>1, <3>2 DEF Typed
  <2>4. CASE PauseNow(others) \/ PauseRefused(others)
    <3> HIDE DEF others
    <3>1. /\ (Course /\ SceneOK(Now))' /\ hooked' \subseteq STOP /\ loaded' = STOP
          /\ Running' => hooked' = {}
      BY <2>1, <2>4, PauseTypes
    <3>2. Rest'
      BY <1>1, <2>1, <3>1 DEF Rest
    <3> QED
      BY <1>3, <3>1, <3>2 DEF Typed
  <2>5. rpos < Len(ROUTE) => rpos + 1 \in DOMAIN ROUTE
    BY <1>1, RouteEntries DEF Course
  <2> HIDE DEF others
  <2>6. \/ rpos < Len(ROUTE) /\ Arrive(rpos + 1, others, Now)
           /\ loaded' = loaded \cup ({ROUTE[rpos + 1]} \ {Message}) /\ hooked' = hooked
        \/ Arrive(1, others, [Now EXCEPT !.marked = FALSE])
           /\ loaded' = loaded \cup ({ROUTE[1]} \ {Message}) /\ hooked' = hooked
        \/ PauseNow(others) \/ PauseRefused(others)
    BY <1>4 DEF ChangeHp, others
  <2> QED
    BY <1>1, <2>2, <2>3, <2>4, <2>5, <2>6, RouteEntries
<1>5. CASE Disconnect
  BY <1>1, <1>3, <1>5 DEF Disconnect, Typed, Course, SceneOK, Scene, Now, Rest, people, stops,
                        Running, Halted
<1>6. CASE ContinueFires
  <2>1. CASE Running /\ UNCHANGED <<course, stops, people, recent>>
    BY <1>1, <1>3, <1>6, <2>1 DEF ContinueFires, Typed, Course, SceneOK, Scene, Now, Rest,
                        course, people, stops, Running
  <2>2. CASE Resume(1 + Cardinality(Unloaded), Now)
    <3>1. (Course /\ SceneOK(Now) /\ Running)' /\ hooked' = {} /\ loaded' = STOP
      BY <1>1, <2>2, ResumeTypes
    <3> QED
      BY <1>3, <1>6, <3>1 DEF ContinueFires, Rest, Typed
  <2> QED
    BY <1>6, <2>1, <2>2 DEF ContinueFires
<1> QED
  BY <1>4, <1>5, <1>6 DEF CallOut

\* Time and the stops
LEMMA StopTypes ==
  ASSUME TypeOK, NEW r \in STOP, TimePasses \/ Load(r) \/ Update(r) \/ Passing(r)
  PROVE  Typed'
<1>1. SceneOK(Now) /\ Shells /\ Rest /\ Course
  BY TypeParts
<1>2. UNCHANGED shells
  BY DEF TimePasses, Load, Update, Passing
<1>3. Shells'
  BY <1>1, <1>2 DEF Shells, shells
<1>4. CASE TimePasses \/ Update(r) \/ Passing(r)
  BY <1>1, <1>3, <1>4 DEF TimePasses, Update, Passing, Typed, Course, SceneOK, Scene, Now, Rest,
                        course, stops, people, Running
<1>5. CASE Load(r)
  <2>1. CASE Running /\ loaded' = loaded \cup {r} /\ UNCHANGED <<course, people, recent, hooked>>
    BY <1>1, <1>3, <1>5, <2>1 DEF Load, Typed, Course, SceneOK, Scene, Now, Rest, course, people,
                        Running
  <2>2. CASE Resume(Cardinality(Unloaded), Now)
    <3>1. (Course /\ SceneOK(Now) /\ Running)' /\ hooked' = {} /\ loaded' = STOP
      BY <1>1, <2>2, ResumeTypes
    <3> QED
      BY <1>1, <1>3, <1>5, <3>1 DEF Load, Rest, Typed
  <2> QED
    BY <1>5, <2>1, <2>2 DEF Load
<1> QED
  BY <1>4, <1>5

\* A step in which nobody moves
LEMMA StayTypes ==
  ASSUME TypeOK, UNCHANGED <<course, stops, loc, continuing, recent>>,
         info' \in [PLAYER -> Journey \cup {None}], Shells'
  PROVE  Typed'
<1>1. SceneOK(Now) /\ Rest /\ Course
  BY TypeParts
<1> QED
  BY <1>1 DEF Typed, Course, SceneOK, Scene, Now, Rest, course, stops, Running

\* reise(): the journey is set.
LEMMA SetOutTypes ==
  ASSUME TypeOK, NEW p \in PLAYER, NEW d \in STOP \cup {None},
         loc[p] \in STOP \cup {Ship}, SetOut(p, d), UNCHANGED shells
  PROVE  /\ Typed'
         /\ Running' \/ continuing' \/ UNCHANGED <<course, stops, loc, continuing, recent>>
<1>1. /\ [info EXCEPT ![p] = [from |-> Ship, to |-> d]] \in [PLAYER -> Journey \cup {None}]
      /\ [info EXCEPT ![p] = [from |-> loc[p], to |-> d]] \in [PLAYER -> Journey \cup {None}]
  BY DEF TypeOK, Journey
<1>2. Shells'
  BY TypeParts DEF Shells, shells
<1>3. CASE Board(p, [info EXCEPT ![p] = [from |-> Ship, to |-> d]])
  <2>1. (Course /\ SceneOK(Now) /\ Rest)' /\ (Running' \/ continuing')
    BY <1>1, <1>3, BoardTypes
  <2> QED
    BY <1>2, <2>1 DEF Typed
<1>4. CASE /\ info' = [info EXCEPT ![p] = [from |-> loc[p], to |-> d]]
           /\ UNCHANGED <<course, stops, loc, continuing, recent>>
  BY <1>1, <1>2, <1>4, StayTypes
<1> QED
  BY <1>3, <1>4 DEF SetOut

\* Leave() moves the player, or only ends the journey.
LEMMA LeaveTypes ==
  ASSUME TypeOK, NEW p \in PLAYER, Leave(p)
  PROVE  /\ Typed'
         /\ Come(p, at) \/ UNCHANGED <<course, stops, loc, continuing, recent>>
<1>1. info' \in [PLAYER -> Journey \cup {None}] /\ at \in STOP
  BY DEF TypeOK, Leave
<1>2. Shells'
  BY TypeParts DEF Shells, shells, Leave
<1>3. CASE Come(p, at)
  BY <1>1, <1>2, <1>3, ComeTypes DEF Typed
<1>4. CASE UNCHANGED <<course, stops, loc, continuing, recent>>
  BY <1>1, <1>2, <1>4, StayTypes
<1> QED
  BY <1>3, <1>4 DEF Leave

\* Where a player may come to, or that he stays
Moves(p) ==
  \/ \E r \in STOP \cup {Away} : Come(p, r)
  \/ UNCHANGED stops /\ UNCHANGED <<timers, continuing>> /\ loc' = [loc EXCEPT ![p] = Away]
  \/ UNCHANGED <<course, stops, loc, continuing, recent>>
  \/ Running' \/ continuing'

\* What people do
LEMMA PeopleTypes ==
  ASSUME TypeOK, NEW p \in PLAYER,
         \/ \E r \in STOP \cup {Away} : Walk(p, r)
         \/ Enter(p) \/ Leave(p) \/ Drop(p) \/ NetDead(p) \/ Reconnect(p)
         \/ /\ p \in Traveller
            /\ (\E d \in STOP : ReiseNach(p, d)) \/ ReiseMit(p) \/ ReiseNicht(p) \/ Fight(p)
  PROVE  Typed' /\ Moves(p)
<1>1. /\ info \in [PLAYER -> Journey \cup {None}] /\ loc \in [PLAYER -> PLACE]
      /\ at \in STOP /\ Course /\ SceneOK(Now) /\ Rest /\ Shells
  BY TypeParts DEF TypeOK, PLACE
<1>2. UNCHANGED shells => Shells'
  BY <1>1 DEF Shells, shells
<1>3. ASSUME NEW r \in STOP \cup {Away}, Walk(p, r) PROVE Typed' /\ Moves(p)
  BY <1>1, <1>2, <1>3, ComeTypes DEF Walk, Typed, Moves
<1>4. CASE Enter(p)
  BY <1>1, <1>2, <1>4, BoardTypes DEF Enter, Typed, Moves
<1>5. CASE Leave(p)
  BY <1>1, <1>5, LeaveTypes DEF Moves
<1>6. CASE Drop(p) \/ (Fight(p) /\ p \in Traveller)
  <2>1. Shells'
    BY <1>1, <1>6 DEF Drop, Fight, Shells
  <2>2. UNCHANGED <<course, stops, loc, continuing, recent>> /\ info' = info
    BY <1>6 DEF Drop, Fight, people
  <2> QED
    BY <1>1, <2>1, <2>2, StayTypes DEF Moves
<1>7. CASE NetDead(p)
  <2>1. Shells'
    <3>1. loc[p] \in STOP \cup {Ship}
      BY <1>1, <1>7 DEF NetDead, PLACE
    <3> QED
      BY <1>1, <1>7, <3>1 DEF NetDead, Shells
  <2>2. loc' \in [PLAYER -> PLACE]
    BY <1>1, <1>7 DEF NetDead, PLACE
  <2> QED
    BY <1>1, <1>7, <2>1, <2>2 DEF NetDead, Typed, Course, SceneOK, Scene, Now, Rest, course, stops,
                        Running, Moves
<1>8. CASE Reconnect(p)
  <2>1. Shells'
    BY <1>1, <1>8 DEF Reconnect, Shells
  <2>2. CASE UNCHANGED <<course, stops, people, continuing, recent>>
    BY <1>1, <2>1, <2>2, StayTypes DEF people, Moves
  <2>3. CASE ndead[p] \in STOP /\ Come(p, ndead[p]) /\ UNCHANGED info
    BY <1>1, <2>1, <2>3, ComeTypes DEF Typed, Moves
  <2>4. CASE Board(p, info)
    BY <1>1, <2>1, <2>4, BoardTypes DEF Typed, Moves
  <2> QED
    BY <1>8, <2>2, <2>3, <2>4 DEF Reconnect
<1>9. ASSUME NEW d \in STOP, ReiseNach(p, d) PROVE Typed' /\ Moves(p)
  <2>1. CASE SetOut(p, d) /\ UNCHANGED shells
    BY <1>9, <2>1, SetOutTypes DEF ReiseNach, Moves
  <2>2. CASE Leave(p)
    BY <1>1, <2>2, LeaveTypes DEF Moves
  <2> QED
    BY <1>9, <2>1, <2>2 DEF ReiseNach
<1>10. CASE ReiseMit(p)
  <2> DEFINE d == IF info[p] = None THEN None ELSE info[p].to
  <2>1. d \in STOP \cup {None}
    BY <1>1 DEF Journey
  <2>2. SetOut(p, d) /\ loc[p] \in STOP \cup {Ship} /\ UNCHANGED shells
    BY <1>10 DEF ReiseMit
  <2> HIDE DEF d
  <2> QED
    BY <2>1, <2>2, SetOutTypes DEF Moves
<1>11. CASE ReiseNicht(p)
  <2>1. info' \in [PLAYER -> Journey \cup {None}] /\ Shells'
    BY <1>1, <1>2, <1>11 DEF ReiseNicht
  <2> QED
    BY <1>11, <2>1, StayTypes DEF ReiseNicht, Moves
<1> QED
  BY <1>3, <1>4, <1>5, <1>6, <1>7, <1>8, <1>9, <1>10, <1>11

LEMMA TypedHistory ==
  ASSUME TypeOK, Overlooks, Typed' PROVE TypeOK'
<1>1. overlooked' \subseteq PLAYER
  BY DEF Overlooks, TypeOK
<1>2. (Course /\ SceneOK(Now) /\ Rest /\ Shells /\ overlooked \subseteq PLAYER)'
  BY <1>1 DEF Typed
<1> QED
  BY <1>2, TypeParts, PTL

LEMMA NextTypes == TypeOK /\ [Next]_vars => TypeOK'
<1> SUFFICES ASSUME TypeOK, [Next]_vars PROVE TypeOK'
  OBVIOUS
<1>1. CASE UNCHANGED vars
  BY <1>1 DEF vars, TypeOK, course, stops, people, shells, Running
<1>2. CASE Next
  <2>1. CASE CallOut \/ TimePasses \/ \E r \in STOP : Load(r) \/ Update(r) \/ Passing(r)
    <3>1. Typed'
      BY <2>1, CallOutTypes, StopTypes, RouteEntries
    <3> QED
      BY <1>2, <3>1, TypedHistory DEF Next
  <2>2. CASE \E p \in PLAYER : \/ \E r \in STOP \cup {Away} : Walk(p, r)
                \/ Enter(p) \/ Leave(p) \/ Drop(p) \/ NetDead(p) \/ Reconnect(p)
    <3>1. Typed'
      BY <2>2, PeopleTypes
    <3> QED
      BY <1>2, <3>1, TypedHistory DEF Next
  <2>3. CASE \E p \in Traveller : \/ \E d \in STOP : ReiseNach(p, d)
                                  \/ ReiseMit(p) \/ ReiseNicht(p) \/ Fight(p)
    <3>1. Typed'
      BY <2>3, PeopleTypes, RouteAssumption DEF RouteAssumption
    <3> QED
      BY <1>2, <3>1, TypedHistory DEF Next
  <2> QED
    BY <1>2, <2>1, <2>2, <2>3 DEF Next
<1> QED
  BY <1>1, <1>2

\* The types, and with them that a transporter that is under way listens to no
\* stop and that Continue() and a refused registration never start more than
\* two series of call_outs (Continue(), subscribe_init(), changeHp()).
THEOREM TypeCorrect == Spec => []TypeOK
<1> QED
  BY InitTypes, NextTypes, PTL DEF Spec
-----------------------------------------------------------------------------
(***************************************************************************)
(* The pause.                                                              *)
(***************************************************************************)

\* A step out of the pause, or one in which nobody comes inside or to a stop it
\* listens to
LEMMA LeftAlone ==
  ASSUME TypeOK, NobodyLeft, Overlooks,
         Running' \/ continuing' \/
           (/\ ~Running /\ ~continuing /\ hooked' \subseteq hooked
            /\ \A p \in PLAYER : loc'[p] = loc[p] \/ loc'[p] \notin hooked \cup {Ship})
  PROVE  NobodyLeft'
BY DEF NobodyLeft, Pausing, Overlooks

\* The pause begins: maybe_pause() has met nobody who is interactive().
LEMMA PauseLeaves ==
  ASSUME TypeOK, Overlooks, Running, UNCHANGED shells, NEW others, ~Needed, PauseNow(others)
  PROVE  NobodyLeft'
<1>1. overlooked' = {p \in PLAYER \ online : loc'[p] # Away}
  BY DEF Overlooks, PauseNow, Running, Halted
<1>2. hooked' \subseteq STOP
  BY RouteEntries DEF PauseNow, Subscribed
<1>3. SceneOK(Now) /\ rpos \in DOMAIN ROUTE /\ loc \in [PLAYER -> PLACE]
  BY TypeParts DEF Course, TypeOK, PLACE
<1>4. \A p \in PLAYER : loc[p] \notin STOP \cup {Ship} => loc'[p] = loc[p]
  <2>1. CASE Becomes(Now)
    BY <2>1 DEF Becomes, Now
  <2>2. CASE \E t \in Reached(ROUTE[rpos], Flipped(Now, Cardinality(Unloaded))) : Becomes(t)
    <3> DEFINE s == Flipped(Now, Cardinality(Unloaded))
    <3>1. SceneOK(s) /\ s.loc = loc
      BY <1>3, FlippedOK DEF Now
    <3> HIDE DEF s
    <3>2. PICK t \in Reached(ROUTE[rpos], s) : Becomes(t)
      BY <2>2 DEF s
    <3>3. \A p \in PLAYER : loc[p] \notin STOP \cup {Ship} => t.loc[p] = loc[p]
      BY <1>3, <3>1, ReachedOK
    <3> QED
      BY <3>2, <3>3 DEF Becomes
  <2> QED
    BY <2>1, <2>2 DEF PauseNow
<1>5. \A p \in online : loc[p] = Away /\ loc[p] \notin STOP \cup {Ship}
  BY <1>3, RouteEntries DEF Needed, TypeOK, PLACE
<1>6. ASSUME NEW p \in PLAYER, loc'[p] \in hooked' \cup {Ship} PROVE p \in overlooked'
  BY <1>1, <1>2, <1>4, <1>5, <1>6, RouteEntries
<1> QED
  BY <1>6 DEF NobodyLeft

LEMMA LeftKept == TypeOK /\ NobodyLeft /\ [Next]_vars => NobodyLeft'
<1> SUFFICES ASSUME TypeOK, NobodyLeft, [Next]_vars PROVE NobodyLeft'
  OBVIOUS
<1>1. CASE UNCHANGED vars
  BY <1>1 DEF vars, stops, people, course, NobodyLeft, Pausing, Running
<1>2. CASE Next
  <2>1. Overlooks /\ TypeOK' /\ SceneOK(Now) /\ Rest /\ Course
    BY <1>2, NextTypes, TypeParts DEF Next
  <2>2. ASSUME NEW calls, Resume(calls, Now) PROVE NobodyLeft'
    BY <2>1, <2>2, ResumeTypes, LeftAlone
  <2>3. CASE ChangeHp
    <3> DEFINE others == [timers EXCEPT !["changeHp"] = @ - 1]
    <3>1. /\ others \in [TIMER -> 0..1] /\ others["changeHp"] + others["disconnect"] <= 1
          /\ Running /\ UNCHANGED shells
      BY <2>1, <2>3 DEF ChangeHp, Course, Running, Halted
    <3>2. SceneOK([Now EXCEPT !.marked = FALSE])
      BY <2>1 DEF SceneOK, Scene, Now
    <3>3. rpos < Len(ROUTE) => rpos + 1 \in DOMAIN ROUTE
      BY <2>1, RouteEntries DEF Course
    <3> HIDE DEF others
    <3>4. ASSUME NEW i \in DOMAIN ROUTE, NEW s, SceneOK(s), Arrive(i, others, s)
          PROVE  NobodyLeft'
      BY <2>1, <3>1, <3>4, ArriveTypes, LeftAlone
    <3>5. CASE PauseRefused(others)
      <4>1. SceneOK(Flipped(Now, Cardinality(Unloaded)))
        BY <2>1, FlippedOK
      <4>2. CASE Arrive(1, others, Now)
        BY <2>1, <3>4, <4>2, RouteEntries
      <4>3. ASSUME Reloading(others),
                   NEW t \in Reached(ROUTE[rpos], Flipped(Now, Cardinality(Unloaded))),
                   Arrive(1, [others EXCEPT ![Call(rpos)] = 1], t)
            PROVE  NobodyLeft'
        <5> DEFINE called == [others EXCEPT ![Call(rpos)] = 1]
        <5>1. called \in [TIMER -> 0..1] /\ called["changeHp"] + called["disconnect"] <= 1
          BY <4>3 DEF Reloading, Halted, Call
        <5>2. SceneOK(t)
          BY <2>1, <4>1, <4>3, ReachedOK DEF Course
        <5> HIDE DEF called
        <5>3. Running'
          BY <4>3, <5>1, <5>2, ArriveTypes, RouteEntries DEF called
        <5> QED
          BY <2>1, <5>3, LeftAlone
      <4> QED
        BY <3>5, <4>2, <4>3 DEF PauseRefused
    <3>6. CASE ~Needed /\ PauseNow(others)
      BY <2>1, <3>1, <3>6, PauseLeaves
    <3>7. \/ rpos < Len(ROUTE) /\ Arrive(rpos + 1, others, Now)
          \/ Arrive(1, others, [Now EXCEPT !.marked = FALSE])
          \/ ~Needed /\ PauseNow(others)
          \/ PauseRefused(others)
      BY <2>3 DEF ChangeHp, others
    <3> QED
      BY <2>1, <3>2, <3>3, <3>4, <3>5, <3>6, <3>7, RouteEntries
  <2>4. CASE Disconnect
    <3>1. Running'
      BY <2>1, <2>4 DEF Disconnect, Course, Running, Halted
    <3> QED
      BY <2>1, <3>1, LeftAlone
  <2>5. CASE ContinueFires
    <3>1. Running' => NobodyLeft'
      BY <2>1, LeftAlone
    <3> QED
      BY <2>2, <2>5, <3>1 DEF ContinueFires, course, Running
  <2>6. CASE TimePasses
    BY <2>1, <2>6, LeftAlone DEF TimePasses, course, stops, people, Running
  <2>7. ASSUME NEW r \in STOP, Load(r) \/ Update(r) \/ Passing(r) PROVE NobodyLeft'
    <3>1. CASE Load(r)
      <4>1. Running' => NobodyLeft'
        BY <2>1, LeftAlone
      <4> QED
        BY <2>2, <3>1, <4>1 DEF Load, course, Running
    <3>2. CASE Update(r)
      <4>1. UNCHANGED <<timers, continuing, loc>> /\ hooked' = hooked \ {r}
        BY <3>2 DEF Update, course, people
      <4> QED
        BY <2>1, <4>1, LeftAlone DEF Running, Rest
    <3>3. CASE Passing(r)
      BY <2>1, <3>3, LeftAlone DEF Passing
    <3> QED
      BY <2>7, <3>1, <3>2, <3>3
  <2>8. ASSUME NEW p \in PLAYER, Moves(p) PROVE NobodyLeft'
    <3>1. CASE \E r \in STOP \cup {Away} : Come(p, r)
      <4>1. PICK r \in STOP \cup {Away} : Come(p, r)
        BY <3>1
      <4>2. /\ timers' = timers /\ continuing' = (continuing \/ r \in hooked) /\ hooked' = hooked
            /\ loc' = [loc EXCEPT ![p] = r] /\ loc \in [PLAYER -> PLACE]
        BY <4>1 DEF Come, stops, TypeOK, PLACE
      <4> QED
        BY <2>1, <4>2, RouteEntries, LeftAlone DEF Running, Rest
    <3>2. CASE UNCHANGED stops /\ UNCHANGED <<timers, continuing>> /\ loc' = [loc EXCEPT ![p] = Away]
      <4>1. loc \in [PLAYER -> PLACE] /\ hooked' = hooked /\ Away \notin hooked \cup {Ship}
        BY <2>1, <3>2, RouteEntries DEF TypeOK, PLACE, stops, Rest
      <4> QED
        BY <2>1, <3>2, <4>1, LeftAlone DEF Running, Rest
    <3>3. CASE UNCHANGED <<course, stops, loc, continuing, recent>>
      BY <2>1, <3>3, LeftAlone DEF course, stops, Running, Rest
    <3>4. CASE Running' \/ continuing'
      BY <2>1, <3>4, LeftAlone
    <3> QED
      BY <2>8, <3>1, <3>2, <3>3, <3>4 DEF Moves
  <2>9. CASE \E p \in PLAYER : \/ \E r \in STOP \cup {Away} : Walk(p, r)
                \/ Enter(p) \/ Leave(p) \/ Drop(p) \/ NetDead(p) \/ Reconnect(p)
    BY <2>8, <2>9, PeopleTypes
  <2>10. CASE \E p \in Traveller : \/ \E d \in STOP : ReiseNach(p, d)
                                  \/ ReiseMit(p) \/ ReiseNicht(p) \/ Fight(p)
    BY <2>8, <2>10, PeopleTypes, RouteAssumption DEF RouteAssumption
  <2> QED
    BY <1>2, <2>3, <2>4, <2>5, <2>6, <2>7, <2>9, <2>10 DEF Next, CallOut
<1> QED
  BY <1>1, <1>2

\* Whatever its route, and whatever is updated meanwhile, a transporter that
\* pauses has left nobody behind inside, nor at a stop that it listens to, but
\* for those who had lost the connection when it paused (maybe_pause(), Pause(),
\* Continue(), init(), InitHookCallback()).
THEOREM NobodyIsLeft == Spec => []NobodyLeft
<1>1. Init => NobodyLeft
  BY DEF Init, NobodyLeft, Pausing, Running, Halted
<1> QED
  BY <1>1, LeftKept, TypeCorrect, PTL DEF Spec
=============================================================================
