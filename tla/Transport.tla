----------------------------- MODULE Transport -----------------------------
(***************************************************************************)
(* A transporter (/std/transport.c) and those who travel with it.          *)
(*                                                                         *)
(* It goes along its route by call_outs: changeHp() takes the next entry,  *)
(* at a stop the transporter is open until disconnect().  If it has met no *)
(* player for two rounds it pauses at the end of the route: then nothing   *)
(* is called out, but each stop tells it of a living that enters (hook     *)
(* H_HOOK_INIT), and so does a stop that is loaded anew (create() of       *)
(* /std/room/exits.c).  Whoever has set P_TRAVEL_INFO ("reise") boards and *)
(* leaves by himself when the transporter arrives, unless he fights or the *)
(* move fails.  Who loses his connection stays where he is until his       *)
(* heart_beat moves him away, and may come back before or after that.      *)
(***************************************************************************)
EXTENDS Naturals, Sequences, FiniteSets

CONSTANTS
  ROUTE,     \* the entries of the route: a stop, or Message
  Message,   \* HP_MSG, or HP_FUN with a function that leaves the route alone
  Ship,      \* the inside of the transporter
  Away,      \* any other place, the one of the netdead included
  PLAYER,    \* players
  Traveller, \* those who use "reise"; the others only get on and off
  None,      \* no stop, no journey
  Capacity,  \* P_MAX_PASSENGERS
  Shaky      \* stops where the arrival may fail, because they do not load

STOP == {ROUTE[i] : i \in DOMAIN ROUTE} \ {Message}
TIMER == {"changeHp", "disconnect"}
Journey == [from : STOP \cup {Ship}, to : STOP \cup {None}]

ASSUME RouteAssumption ==
  /\ ROUTE \in Seq(STOP \cup {Message}) /\ ROUTE # <<>> /\ ROUTE[1] # Message
  /\ STOP \cap {Ship, Away, None} = {} /\ Ship \notin {Away, None} /\ Away # None
  /\ None \notin Journey
  /\ Traveller \subseteq PLAYER
  /\ Capacity \in Nat \ {0}
  /\ Shaky \subseteq STOP

VARIABLES
  rpos,       \* the entry of the route it has reached
  roomCode,   \* the stop it is open at, or None while it travels
  at,         \* its environment, also while it travels
  timers,     \* timers[f]: call_outs of f
  continuing, \* a call_out of Continue(), started by InitHookCallback()
  recent,     \* it has met a player within the last two rounds
  marked,     \* meet_last_player < 0: it is not to pause after this round
  hooked,     \* stops whose H_HOOK_INIT it listens to
  loaded,     \* stops that are loaded
  loc,        \* where the players are
  info,       \* P_TRAVEL_INFO: where a journey begins and ends, or None
  fighting,   \* those who are InFight()
  online,     \* those who are interactive()
  ndead,      \* ndead_location of those that were moved away, or None
  overlooked  \* (history) those it did not wait for when it paused

course == <<rpos, roomCode, at, timers, marked>>
stops == <<hooked, loaded>>
people == <<loc, info>>
shells == <<fighting, online, ndead>>
vars == <<course, stops, people, shells, continuing, recent, overlooked>>

Halted == [f \in TIMER |-> 0]
Running == timers # Halted
Unloaded == STOP \ loaded

Init ==
  /\ rpos = 1 /\ roomCode = ROUTE[1] /\ at = ROUTE[1]
  /\ timers = [Halted EXCEPT !["disconnect"] = 1]
  /\ continuing = FALSE /\ recent = FALSE /\ marked = FALSE
  /\ hooked = {} /\ loaded = STOP
  /\ loc = [p \in PLAYER |-> Away]
  /\ info = [p \in PLAYER |-> None]
  /\ fighting = {} /\ online = PLAYER /\ overlooked = {}
  /\ ndead = [p \in PLAYER |-> None]
-----------------------------------------------------------------------------
(***************************************************************************)
(* The arrival at an entry of the route.                                   *)
(***************************************************************************)

\* What an arrival changes
Now == [roomCode |-> roomCode, at |-> at, recent |-> recent, marked |-> marked,
        loc |-> loc, info |-> info]
Becomes(s) ==
  /\ roomCode' = s.roomCode /\ at' = s.at /\ recent' = s.recent
  /\ marked' = s.marked /\ loc' = s.loc /\ info' = s.info

Inside(s) == {p \in PLAYER : s.loc[p] = Ship}

\* connect() calls Leave() for who is inside and travels to r, unless he fights;
\* that ends the journey, also if the move fails ...
GettingOff(r, s) ==
  {p \in Inside(s) : s.info[p] = [from |-> Ship, to |-> r]} \ fighting

\* ... then Enter() for those whose journey begins here and who do not fight, in
\* any order, as long as there is room.
GettingOn(r, s, out) ==
  {on \in SUBSET ({p \in PLAYER : s.loc[p] = r /\ s.info[p] # None} \ fighting) :
     /\ \A p \in on : s.info[p].from = r
     /\ on # {} => Cardinality(on \cup (Inside(s) \ out)) <= Capacity}

\* init() marks who is at the stop, or gets off or on, as contact.
Meet(s, seen) == [s EXCEPT !.recent = @ \/ seen # {}, !.marked = @ /\ seen = {}]

\* The transporter is open at r: those "out" get off, those "on" get on.
Exchange(r, s, out, on) ==
  [Meet(s, {p \in PLAYER : s.loc[p] = r} \cup out) EXCEPT
     !.roomCode = r, !.at = r,
     !.loc = [p \in PLAYER |-> IF p \in on THEN Ship ELSE IF p \in out THEN r ELSE @[p]],
     !.info = [p \in PLAYER |-> IF p \in on THEN [@[p] EXCEPT !.from = Ship]
                                ELSE IF p \in GettingOff(r, s) THEN None ELSE @[p]]]

Connected(r, s) ==
  UNION {{Exchange(r, s, out, on) : on \in GettingOn(r, s, out)} : out \in SUBSET GettingOff(r, s)}

\* connect() catches the errors of its move: the stop does not load, or an
\* init() fails there.
Failed(r, s) ==
  {[s EXCEPT !.roomCode = None]}
    \cup {[Meet(s, seen) EXCEPT !.roomCode = None, !.at = r] :
            seen \in SUBSET {p \in PLAYER : s.loc[p] = r}}

\* The outcomes of an arrival at r
Reached(r, s) ==
  IF r = Message THEN {s}
  ELSE Connected(r, s) \cup (IF r \in Shaky THEN Failed(r, s) ELSE {})

\* What is called out at the i-th entry
Call(i) == IF ROUTE[i] = Message THEN "changeHp" ELSE "disconnect"

\* It arrives at the i-th entry; "others" is called out besides.
Arrive(i, others, s) ==
  /\ rpos' = i /\ timers' = [others EXCEPT ![Call(i)] = @ + 1]
  /\ \E t \in Reached(ROUTE[i], s) : Becomes(t)

\* Continue() changes the sign of meet_last_player, and so does the Continue()
\* that each stop calls when to unsubscribe loads it.
Flipped(s, calls) == [s EXCEPT !.marked = IF calls % 2 = 1 THEN ~@ ELSE @]

\* Continue() with nothing called out: it starts once more from the entry it
\* has stopped at.
Resume(calls, s) ==
  /\ hooked' = {} /\ loaded' = STOP
  /\ Arrive(rpos, Halted, Flipped(s, calls))
-----------------------------------------------------------------------------
(***************************************************************************)
(* The pause.                                                              *)
(***************************************************************************)

\* Mutant: maybe_pause() does not look at the stops.
NeededInside == recent \/ \E p \in online : loc[p] = Ship

\* Mutant: maybe_pause() does not look inside.
NeededOutside == recent \/ \E p \in online : loc[p] \in STOP

\* maybe_pause(): it has met a player of late, or one who is interactive() is
\* at a stop or inside.
Needed == recent \/ \E p \in online : loc[p] \in STOP \cup {Ship}

\* subscribe_init() loads a stop that is not loaded.  Its create() calls
\* Continue(), which goes on if nothing is called out, and unsubscribes from
\* the stops that come before.
First(r) ==
  CHOOSE i \in DOMAIN ROUTE : ROUTE[i] = r /\ \A j \in 1..i-1 : ROUTE[j] # r
Reloading(others) == Unloaded # {} /\ others = Halted
Subscribed(others) ==
  IF ~Reloading(others) THEN STOP
  ELSE {ROUTE[i] : i \in {j \in DOMAIN ROUTE : ROUTE[j] # Message
                                /\ \E r \in Unloaded : First(r) <= j}}

\* Mutant: Pause() does not call Halt().
PauseRunning(others) ==
  /\ hooked' = Subscribed(others) /\ loaded' = STOP
  /\ timers' = IF Reloading(others) THEN [Halted EXCEPT !["changeHp"] = 1] ELSE others
  /\ UNCHANGED <<rpos, roomCode, at, recent, marked, loc, info>>

\* Pause() is possible.  If it went on meanwhile, it is halted where it is.
PauseNow(others) ==
  /\ hooked' = Subscribed(others) /\ loaded' = STOP /\ timers' = Halted
  /\ \/ ~Reloading(others) /\ Becomes(Now)
     \/ /\ Reloading(others)
        /\ \E t \in Reached(ROUTE[rpos], Flipped(Now, Cardinality(Unloaded))) : Becomes(t)
  /\ UNCHANGED rpos

\* A stop refuses the registration: all are cancelled, and it goes on; twice,
\* if it went on meanwhile.
PauseRefused(others) ==
  /\ hooked' = {} /\ loaded' = STOP
  /\ \/ ~Reloading(others) /\ Arrive(1, others, Now)
     \/ /\ Reloading(others)
        /\ \E t \in Reached(ROUTE[rpos], Flipped(Now, Cardinality(Unloaded))) :
             Arrive(1, [others EXCEPT ![Call(rpos)] = 1], t)
-----------------------------------------------------------------------------
(***************************************************************************)
(* The call_outs.                                                          *)
(***************************************************************************)

\* changeHp(): the next entry, at the end of the route the first unless it
\* pauses.  The move of the transporter loads the stop.
ChangeHp ==
  /\ timers["changeHp"] > 0
  /\ LET others == [timers EXCEPT !["changeHp"] = @ - 1]
         load(i) == loaded' = loaded \cup ({ROUTE[i]} \ {Message})
     IN \/ /\ rpos < Len(ROUTE)
           /\ Arrive(rpos + 1, others, Now)
           /\ load(rpos + 1) /\ UNCHANGED hooked
        \/ /\ rpos = Len(ROUTE) /\ (marked \/ Needed)
           /\ Arrive(1, others, [Now EXCEPT !.marked = FALSE])
           /\ load(1) /\ UNCHANGED hooked
        \/ /\ rpos = Len(ROUTE) /\ ~marked /\ ~Needed
           /\ PauseNow(others) \/ PauseRefused(others)
  /\ UNCHANGED <<continuing, shells>>

\* disconnect(1, time): it departs.
Disconnect ==
  /\ timers["disconnect"] > 0
  /\ timers' = [timers EXCEPT !["disconnect"] = @ - 1, !["changeHp"] = @ + 1]
  /\ roomCode' = None
  /\ UNCHANGED <<rpos, at, marked, stops, people, continuing, recent, shells>>

\* Continue(), called out by the hook
ContinueFires ==
  /\ continuing /\ continuing' = FALSE
  /\ \/ Running /\ UNCHANGED <<course, stops, people, recent>>
     \/ ~Running /\ Resume(1 + Cardinality(Unloaded), Now)
  /\ UNCHANGED shells

\* The last contact is two rounds ago.
TimePasses ==
  /\ recent /\ recent' = FALSE
  /\ UNCHANGED <<course, stops, people, continuing, shells>>
-----------------------------------------------------------------------------
(***************************************************************************)
(* The stops.                                                              *)
(***************************************************************************)

\* Somebody needs a stop that is not loaded: create() of /std/room/exits.c asks
\* the traveld for its transporters and calls Continue() in them.
Load(r) ==
  /\ r \in Unloaded
  /\ \/ /\ Running /\ loaded' = loaded \cup {r}
        /\ UNCHANGED <<course, people, recent, hooked>>
     \/ ~Running /\ Resume(Cardinality(Unloaded), Now)
  /\ UNCHANGED <<continuing, shells>>

\* A stop is destructed, to be loaded anew when it is needed.
Update(r) ==
  /\ r \in loaded \ {at}
  /\ \A p \in PLAYER : loc[p] # r
  /\ loaded' = loaded \ {r} /\ hooked' = hooked \ {r}
  /\ UNCHANGED <<course, people, continuing, recent, shells>>
-----------------------------------------------------------------------------
(***************************************************************************)
(* The people.                                                             *)
(***************************************************************************)

\* A player comes to a place outside: the hook of a stop calls
\* InitHookCallback(), and if the transporter is there init() is called in it.
Come(p, r) ==
  /\ r \in loaded \cup {Away}
  /\ loc' = [loc EXCEPT ![p] = r]
  /\ continuing' = (continuing \/ r \in hooked)
  /\ recent' = (recent \/ r = at) /\ marked' = (marked /\ r # at)
  /\ UNCHANGED <<rpos, roomCode, at, timers, stops>>

\* Mutant: init() does not continue the route.
BoardOnly(p, told) ==
  /\ Becomes([Now EXCEPT !.loc[p] = Ship, !.info = told, !.recent = TRUE, !.marked = FALSE])
  /\ UNCHANGED <<rpos, timers, stops, continuing>>

\* A player comes inside: init() continues the route.
Board(p, told) ==
  LET within == [Now EXCEPT !.loc[p] = Ship, !.info = told, !.recent = TRUE, !.marked = FALSE]
  IN /\ \/ (Running \/ continuing) /\ Becomes(within) /\ UNCHANGED <<rpos, timers, stops>>
        \/ ~Running /\ ~continuing /\ Resume(1 + Cardinality(Unloaded), within)
     /\ UNCHANGED continuing

Walk(p, r) ==
  /\ p \in online /\ loc[p] \notin {Ship, r}
  /\ Come(p, r)
  /\ UNCHANGED <<info, shells>>

\* Any other living enters a stop.
Passing(r) ==
  /\ r \in hooked /\ continuing' = TRUE
  /\ UNCHANGED <<course, stops, people, recent, shells>>

MayEnter(p) ==
  /\ roomCode # None /\ loc[p] = at /\ Cardinality(Inside(Now)) < Capacity

Enter(p) ==
  /\ p \in online /\ MayEnter(p) /\ Board(p, info)
  /\ UNCHANGED shells

\* Leave() ends the journey, also if the move fails.
Leave(p) ==
  /\ p \in online /\ loc[p] = Ship /\ roomCode # None
  /\ info' = [info EXCEPT ![p] = None]
  /\ \/ Come(p, at)
     \/ UNCHANGED <<course, stops, loc, continuing, recent>>
  /\ UNCHANGED shells

\* reise(): the journey is set, and begins inside if the transporter is open
\* here, there is room and the move succeeds.
SetOut(p, d) ==
  \/ /\ MayEnter(p)
     /\ Board(p, [info EXCEPT ![p] = [from |-> Ship, to |-> d]])
  \/ /\ info' = [info EXCEPT ![p] = [from |-> loc[p], to |-> d]]
     /\ UNCHANGED <<course, stops, loc, continuing, recent>>

\* reise nach d: who is inside, and there already, leaves.
ReiseNach(p, d) ==
  /\ p \in online /\ loc[p] \in STOP \cup {Ship} /\ d \in loaded \ {loc[p]}
  /\ info[p] # None => info[p].to # d
  /\ \/ ~(loc[p] = Ship /\ roomCode = d) /\ SetOut(p, d) /\ UNCHANGED shells
     \/ roomCode = d /\ Leave(p)

\* reise mit: wherever it goes, or to the place that was set before
ReiseMit(p) ==
  /\ p \in online /\ loc[p] \in STOP
  /\ info[p] # None => info[p].from # loc[p]
  /\ SetOut(p, IF info[p] = None THEN None ELSE info[p].to)
  /\ UNCHANGED shells

ReiseNicht(p) ==
  /\ p \in online /\ info[p] # None
  /\ info' = [info EXCEPT ![p] = None]
  /\ UNCHANGED <<course, stops, loc, continuing, recent, shells>>

\* A fight begins or ends.
Fight(p) ==
  /\ loc[p] # Away
  /\ fighting' = IF p \in fighting THEN fighting \ {p} ELSE fighting \cup {p}
  /\ UNCHANGED <<course, stops, people, continuing, recent, online, ndead>>

\* The connection is lost.  Nothing else changes ...
Drop(p) ==
  /\ p \in online /\ loc[p] # Away
  /\ online' = online \ {p}
  /\ UNCHANGED <<course, stops, people, continuing, recent, fighting, ndead>>

\* ... until heart_beat() calls ndead_move_me().
NetDead(p) ==
  /\ p \notin online /\ ndead[p] = None /\ loc[p] # Away
  /\ ndead' = [ndead EXCEPT ![p] = loc[p]]
  /\ loc' = [loc EXCEPT ![p] = Away]
  /\ UNCHANGED <<course, stops, info, continuing, recent, fighting, online>>

\* Reconnect() before that leaves him where he is, and no init() is called there;
\* after that ndead_revive() moves him back.
Reconnect(p) ==
  /\ p \notin online /\ online' = online \cup {p}
  /\ ndead' = [ndead EXCEPT ![p] = None]
  /\ \/ ndead[p] = None /\ UNCHANGED <<course, stops, people, continuing, recent>>
     \/ ndead[p] \in STOP /\ Come(p, ndead[p]) /\ UNCHANGED info
     \/ ndead[p] = Ship /\ Board(p, info)
  /\ UNCHANGED fighting

\* Who has lost the connection when it pauses is overlooked, until it goes on or
\* he comes to another place.
Overlooks ==
  overlooked' = IF Running' THEN {}
                ELSE IF Running THEN {p \in PLAYER \ online : loc'[p] # Away}
                ELSE {p \in overlooked : loc'[p] = loc[p]}

CallOut == ChangeHp \/ Disconnect \/ ContinueFires

Next ==
  /\ \/ CallOut \/ TimePasses
     \/ \E r \in STOP : Load(r) \/ Update(r) \/ Passing(r)
     \/ \E p \in PLAYER :
          \/ \E r \in STOP \cup {Away} : Walk(p, r)
          \/ Enter(p) \/ Leave(p) \/ Drop(p) \/ NetDead(p) \/ Reconnect(p)
     \/ \E p \in Traveller :
          \/ \E d \in STOP : ReiseNach(p, d)
          \/ ReiseMit(p) \/ ReiseNicht(p) \/ Fight(p)
  /\ Overlooks

\* The driver goes on making the calls it has been asked for, in any order;
\* nobody has to do anything.
Fairness == WF_vars(CallOut /\ Overlooks)

Spec == Init /\ [][Next]_vars /\ Fairness
-----------------------------------------------------------------------------
\* The state; a running transporter listens to no stop, and there are at most
\* two series of call_outs at a time.
TypeOK ==
  /\ rpos \in DOMAIN ROUTE
  /\ roomCode \in {None, at} /\ at \in STOP
  /\ timers \in [TIMER -> 0..2] /\ timers["changeHp"] + timers["disconnect"] <= 2
  /\ {continuing, recent, marked} \subseteq BOOLEAN
  /\ hooked \subseteq loaded /\ loaded \subseteq STOP
  /\ Running => hooked = {}
  /\ loc \in [PLAYER -> STOP \cup {Ship, Away}]
  /\ ndead \in [PLAYER -> STOP \cup {Ship, None}]
  /\ info \in [PLAYER -> Journey \cup {None}]
  /\ fighting \subseteq Traveller /\ online \subseteq PLAYER /\ overlooked \subseteq PLAYER

Pausing == ~Running /\ ~continuing

\* A transporter that has stopped and is not about to go on is told of whoever
\* comes to one of its stops; a stop that is not loaded tells it when it is
\* loaded (transport.c:168, "it continues along its route as soon as a living
\* enters one of the stop points").
NeverStranded == Pausing => loaded \subseteq hooked

\* It has left nobody behind inside, nor at a stop that it listens to, but for
\* those who had lost the connection when it paused and have not been moved
\* since (maybe_pause(), init(), InitHookCallback()).
NobodyLeft ==
  Pausing => \A p \in PLAYER : loc[p] \in hooked \cup {Ship} => p \in overlooked

\* Whoever stays at a stop sees the transporter open there, whatever pauses,
\* updates and other people do, unless he was overlooked, or it has paused
\* without listening to that stop, or the stop cannot be reached (the calls of
\* changeHp(), Continue() and InitHookCallback() together).
Deaf(r) == Pausing /\ r \notin hooked
Served ==
  \A p \in PLAYER, r \in STOP \ Shaky :
    loc[p] = r ~> loc[p] # r \/ roomCode = r \/ p \in overlooked \/ Deaf(r)

\* Whoever is inside and travels to a stop is let out there, unless he changes
\* his mind, leaves before, fights when it gets there, or was overlooked
\* (connect(), maybe_pause()).
Travelling(p, d) == loc[p] = Ship /\ info[p] = [from |-> Ship, to |-> d]
JourneyEnds ==
  \A p \in PLAYER, d \in STOP \ Shaky :
    Travelling(p, d) ~> \/ ~Travelling(p, d) \/ p \in overlooked
                        \/ roomCode = d /\ p \in fighting
=============================================================================
