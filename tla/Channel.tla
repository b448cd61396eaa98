------------------------------ MODULE Channel ------------------------------
(***************************************************************************)
(* The channel daemon /p/daemon/channeld.c.                                *)
(*                                                                         *)
(* Objects listen to channels.  A channel has a supervisor, who decides    *)
(* who may do what; when it has vanished, the next access looks for        *)
(* another one, or gives the channel up: it then lies dormant in channelC  *)
(* with its history until somebody opens it again.  Messages of the        *)
(* listeners, and those by which the daemon announces a new supervisor,    *)
(* are delivered by calls in the middle of all that, and who is called may *)
(* use the daemon in turn.  A channel is a struct that the functions hold  *)
(* by reference: the struct they have looked up may have been deactivated, *)
(* and another one made under the same name, when such a call returns.     *)
(*                                                                         *)
(* data[i] is the i-th struct; a channel that is not active has the id     *)
(* Nothing.  The order of the listeners, by which the daemon takes the     *)
(* oldest one for the new supervisor, is left open.  holes says that a     *)
(* member was destructed and has left a 0 in the array.                    *)
(***************************************************************************)
EXTENDS Naturals, Sequences, FiniteSets

CONSTANTS
  CHANNEL,      \* names of channels
  OBJ,          \* names of objects
  None,         \* 0 in place of an object or an entry
  Loadable,     \* objects that load_object() can load
  Players,      \* objects that were interactive once
  Arch,         \* archwizards
  Defaults,     \* owner and flag of the channels in channeld.init
  MaxChannels,  \* MAX_CHANNELS
  MaxInactive,  \* MAX_INACTIVE_CHANNELS
  MaxIds,       \* bound: structs that exist at once
  MaxDepth      \* bound: calls of listeners inside each other that act

ID == 1..MaxIds
Nothing == 0

Base == [creator : OBJ, fixed : BOOLEAN]
Struct == [members : SUBSET OBJ, holes : BOOLEAN, supervisor : OBJ \cup {None},
           creator : OBJ, fixed : BOOLEAN]

ASSUME ConstantsAssumption ==
  /\ MaxChannels \in Nat /\ MaxInactive \in Nat /\ MaxDepth \in Nat
  /\ MaxIds \in Nat \ {0}
  /\ IsFiniteSet(CHANNEL)
  /\ None \notin OBJ
  /\ None \notin Base /\ None \notin Struct
  /\ Loadable \subseteq OBJ /\ Players \subseteq OBJ /\ Arch \subseteq OBJ
  /\ DOMAIN Defaults \subseteq CHANNEL
  /\ \A n \in DOMAIN Defaults :
       Defaults[n] \in [creator : Loadable, fixed : BOOLEAN]

VARIABLES
  up,         \* the daemon is loaded
  alive,      \* the objects that exist
  channels,   \* channels[name]: the id of its struct, or Nothing
  data,       \* the structs
  channelC,   \* the dormant channels: creator and flags, or None
  channelH,   \* the names that have a history
  dirty,      \* save_me_soon
  saved,      \* channelC as it was saved last
  stack       \* the calls that are going on, the innermost first

vars == <<up, alive, channels, data, channelC, channelH, dirty, saved, stack>>
files == <<up, channelC, channelH, dirty, saved>>

\* A function of the daemon that is going on: for whom, on which channel, the
\* struct in its variable ch, how far it is; whom it has to call, and calls.
Call ==
  [op : {"join", "leave", "look", "wake", "setup", "close", "notice", "master"},
   who : OBJ \cup {None}, name : CHANNEL, ch : ID \cup {Nothing},
   pc : {"setup", "wake", "access", "granted", "close", "delete", "deliver",
         "called"},
   force : BOOLEAN, todo : SUBSET OBJ, current : OBJ \cup {None}]

Top == Head(stack)
Below == Tail(stack)
Ch == data[Top.ch]
At(pc) == stack # <<>> /\ Top.pc = pc
Goto(pc) == <<[Top EXCEPT !.pc = pc]>> \o Below

Active == {n \in CHANNEL : channels[n] # Nothing}
Dormant == {n \in CHANNEL : channelC[n] # None}
ChannelOf(n) == data[channels[n]]
Full == Cardinality(Dormant) > MaxInactive

\* sizeof(ch.members): a 0 counts.
Populated(ch) == ch.members # {} \/ ch.holes

\* Somebody else's code runs: between two commands, or in a listener.
Calling == {i \in DOMAIN stack : stack[i].pc = "called"}
Deep == Cardinality(Calling) >= MaxDepth
OthersRun == stack = <<>> \/ At("called")
Acts(o) == up /\ o \in alive /\ (stack = <<>> \/ (At("called") /\ Top.current = o))

\* The calls s go on with the channels c and the structs d; a struct that
\* nothing refers to is gone.
Settle(d, c, s) ==
  /\ channels' = c /\ stack' = s
  /\ data' = [i \in ID |->
       IF \/ \E n \in CHANNEL : c[n] = i
          \/ \E k \in DOMAIN s : s[k].ch = i
         THEN d[i] ELSE None]

CallOf(op, o, n, pc) ==
  [op |-> op, who |-> o, name |-> n, ch |-> Nothing, pc |-> pc,
   force |-> FALSE, todo |-> {}, current |-> None]
Message(op, o, n, listeners) ==
  [CallOf(op, o, n, "deliver") EXCEPT !.todo = listeners]
Closing(n, pc, force) == [CallOf("close", None, n, pc) EXCEPT !.force = force]

\* The daemon sends its own messages in the middle of its work; that of a
\* listener is delivered when nothing of the work of send() is left but the
\* history, and whoever gets it may act then as he may between two commands.
\* The calls s with a message of the daemon on channel n on top of them, sent
\* in the name of one of the objects, or none if it is invisible; a channel
\* that is gone lets nobody send (877).  A message that would be
\* inside MaxDepth others is left out.
WithNotice(s, n, d, senders) ==
  {s} \cup
  (IF Deep \/ channels[n] = Nothing THEN {}
   ELSE {<<Message("notice", x, n, d[channels[n]].members)>> \o s : x \in senders})

\* The same on the channel <MasteR>, of whose listeners one acts, if any.
WithMasterNotice(s, n) ==
  {s} \cup
  (IF Deep \/ s = <<>> \/ s[1].pc = "called" THEN {}
   ELSE {<<Message("master", None, n, {o})>> \o s : o \in alive})

Init ==
  /\ up = FALSE
  /\ alive = {}
  /\ channels = [n \in CHANNEL |-> Nothing]
  /\ data = [i \in ID |-> None]
  /\ channelC = [n \in CHANNEL |-> None]
  /\ channelH = {}
  /\ dirty = FALSE /\ saved = channelC
  /\ stack = <<>>
-----------------------------------------------------------------------------
(***************************************************************************)
(* What objects ask of the daemon.  An operation on a channel that is not  *)
(* active ends at once.                                                    *)
(***************************************************************************)
\* A supervisor who is there is not looked for.
Asking(op, o, n) ==
  [CallOf(op, o, n, "access") EXCEPT
    !.ch = channels[n],
    !.pc = IF ChannelOf(n).supervisor = None THEN "access" ELSE "granted"]

Request(op, o, n) ==
  /\ Acts(o)
  /\ n \in Active
  /\ stack' = <<Asking(op, o, n)>> \o stack
  /\ UNCHANGED <<alive, channels, data, files>>

Join(o, n) == Request("join", o, n)
\* send(), find(), list() and history().
Look(o, n) == Request("look", o, n)

\* The zeros go before anything is asked (1084).
Leave(o, n) ==
  /\ Acts(o)
  /\ n \in Active
  /\ data' = [data EXCEPT ![channels[n]].holes = FALSE]
  /\ stack' = IF o \in ChannelOf(n).members
                THEN <<Asking("leave", o, n)>> \o stack ELSE stack
  /\ UNCHANGED <<alive, channels, files>>

\* The channel n as a struct owned by o: what is known of it from channelC
\* stays, creator and flags included.
Opened(o, n, fixed) ==
  [members |-> {o}, holes |-> FALSE, supervisor |-> o,
   creator |-> IF n \in Dormant THEN channelC[n].creator ELSE o,
   fixed |-> IF n \in Dormant THEN channelC[n].fixed ELSE fixed]

\* Mutant: the flag of the dormant channel is not looked at.
OpenAnything(o, n) == n \notin Active /\ Cardinality(Active) < MaxChannels

MayOpen(o, n) ==
  /\ n \notin Active
  /\ Cardinality(Active) < MaxChannels
  /\ n \in Dormant /\ channelC[n].fixed => channelC[n].creator = o

\* new() for o, which leaves the calls s: the entry of channelC goes, but
\* save_me_soon is not set (1018).
Open(o, n, fixed, s) ==
  LET i == CHOOSE j \in ID : data[j] = None
      c == [channels EXCEPT ![n] = i]
  IN /\ \E j \in ID : data[j] = None
     /\ channelC' = [channelC EXCEPT ![n] = None]
     /\ channelH' = channelH \cup {n}
     /\ \E t \in WithMasterNotice(s, n) :
          Settle([data EXCEPT ![i] = Opened(o, n, fixed)], c, t)
     /\ UNCHANGED <<up, dirty, saved>>

New(o, n) ==
  /\ Acts(o)
  /\ MayOpen(o, n)
  /\ \E fixed \in BOOLEAN : Open(o, n, fixed, stack)
  /\ UNCHANGED alive

\* remove_channel(), for archwizards.
Remove(o, n) ==
  /\ Acts(o) /\ o \in Arch
  /\ n \in Active
  /\ stack' = <<Closing(n, "delete", TRUE)>> \o stack
  /\ UNCHANGED <<alive, channels, data, files>>

TransferOwnership(o, n, x) ==
  /\ Acts(o)
  /\ n \in Active
  /\ o = ChannelOf(n).creator \/ o \in Arch
  /\ x \in alive
  /\ data' = [data EXCEPT ![channels[n]].creator = x]
  /\ UNCHANGED <<alive, channels, files, stack>>

ChangeChannelFlags(o, n) ==
  /\ Acts(o)
  /\ n \in Active
  /\ o \in {ChannelOf(n).creator, ChannelOf(n).supervisor} \cup Arch
  /\ data' = [data EXCEPT ![channels[n]].fixed = ~@]
  /\ UNCHANGED <<alive, channels, files, stack>>
-----------------------------------------------------------------------------
(***************************************************************************)
(* access() and assert_supervisor(): is there a supervisor who could allow *)
(* the operation, and does he?                                             *)
(***************************************************************************)

\* create() goes on with the next of the channels it has found.
Wake ==
  /\ At("wake")
  /\ stack' = IF Top.name \in Active
                THEN <<Asking("wake", None, Top.name)>> \o Below ELSE Below
  /\ UNCHANGED <<alive, channels, data, files>>

\* The creator of a channel with a fixed supervisor is loaded and put on the
\* channel (814-830).
ReloadSupervisor ==
  LET sv == Ch.creator
      d == [data EXCEPT ![Top.ch] =
              [Ch EXCEPT !.members = @ \cup {sv}, !.supervisor = sv]]
  IN /\ At("access")
     /\ Ch.supervisor = None /\ Ch.fixed
     /\ sv \in alive \cup Loadable
     /\ alive' = alive \cup {sv}
     /\ \E s \in WithNotice(Goto("granted"), Top.name, d, {sv}) :
          Settle(d, channels, s)
     /\ UNCHANGED files

\* change_sv_object(ch, 0): the oldest member, whichever that is.
Elect(m) ==
  LET d == [data EXCEPT ![Top.ch] =
              [Ch EXCEPT !.holes = FALSE, !.supervisor = m]]
  IN /\ At("access")
     /\ Ch.supervisor = None /\ ~Ch.fixed
     /\ m \in Ch.members
     /\ \E s \in WithNotice(Goto("granted"), Top.name, d, {m}) :
          Settle(d, channels, s)
     /\ UNCHANGED <<alive, files>>

\* Nobody can be supervisor: the channel is deactivated, with whoever listens
\* to it.  change_sv_object() has looked for zeros if it was called.
GiveUp ==
  /\ At("access")
  /\ Ch.supervisor = None
  /\ IF Ch.fixed THEN Ch.creator \notin alive \cup Loadable
                 ELSE Ch.members = {}
  /\ Settle([data EXCEPT ![Top.ch].holes = @ /\ Ch.fixed], channels,
            <<Closing(Top.name, "close", TRUE)>> \o Below)
  /\ UNCHANGED <<alive, files>>

\* A ban, which is looked at first, or the closure of the supervisor, if
\* there is one.
Refuse ==
  /\ \/ At("access")
     \/ At("granted") /\ Ch.supervisor # None
  /\ Top.op \in {"join", "leave", "look"}
  /\ Settle(data, channels, Below)
  /\ UNCHANGED <<alive, files>>
-----------------------------------------------------------------------------
(***************************************************************************)
(* The operations, once access is granted.                                 *)
(***************************************************************************)

\* A runtime error ends everything that is going on; if that is create(), the
\* daemon is not loaded.
Creating == \E k \in DOMAIN stack : stack[k].op \in {"setup", "wake"}
Fails(d) ==
  /\ Settle(d, channels, <<>>)
  /\ up' = ~Creating
  /\ UNCHANGED <<alive, channelC, channelH, dirty, saved>>

\* The struct with a new member m; a 0 for one that is gone meanwhile.
Added(ch, m) ==
  IF m = None THEN [ch EXCEPT !.holes = TRUE]
  ELSE [ch EXCEPT !.members = @ \cup {m}]

IsMember(ch, m) == IF m = None THEN ch.holes ELSE m \in ch.members

\* A creator that is not a player is supervisor again as soon as it is back
\* (1061-1065).
JoinIn ==
  LET o == Top.who
      d == [data EXCEPT ![Top.ch] = Added(Ch, o)]
  IN /\ At("granted") /\ Top.op = "join"
     /\ \/ /\ IsMember(Ch, o)
           /\ Settle(data, channels, Below)
           /\ UNCHANGED <<alive, files>>
        \/ /\ ~IsMember(Ch, o) /\ o # None
           /\ Settle(IF o \notin Players /\ o = Ch.creator
                       THEN [d EXCEPT ![Top.ch].supervisor = o] ELSE d,
                     channels, Below)
           /\ UNCHANGED <<alive, files>>
        \/ ~IsMember(Ch, o) /\ o = None /\ Fails(d)

\* The struct after its supervisor has left: one of the others takes over,
\* unless the supervisor is fixed (763-767).
Successors(ch) ==
  LET able == {m \in ch.members : ch.fixed => m = ch.creator}
      clean == [ch EXCEPT !.holes = FALSE]
  IN {[clean EXCEPT !.supervisor = m] : m \in able} \cup
     (IF ch.members \subseteq able /\ able # {} THEN {} ELSE {clean})

LeaveOut ==
  LET o == Top.who
      closing == <<Closing(Top.name, "close", FALSE)>> \o Below
      ch == IF o = None THEN [Ch EXCEPT !.holes = FALSE]
            ELSE [Ch EXCEPT !.members = @ \ {o}]
      With(x) == [data EXCEPT ![Top.ch] = x]
  IN /\ At("granted") /\ Top.op = "leave"
     /\ \/ /\ Populated(ch) /\ o # ch.supervisor
           /\ Settle(With(ch), channels, Below)
           /\ UNCHANGED <<alive, files>>
        \/ /\ Populated(ch) /\ o = ch.supervisor
           /\ \E x \in Successors(ch) : Settle(With(x), channels, Below)
           /\ UNCHANGED <<alive, files>>
        \/ /\ ~Populated(ch) /\ o # None
           /\ \E s \in WithMasterNotice(closing, Top.name) :
                Settle(With(ch), channels, s)
           /\ UNCHANGED <<alive, files>>
        \/ ~Populated(ch) /\ o = None /\ Fails(With(ch))

\* list() drops the zeros, the others change nothing here; create() has what
\* it wanted.
LookDone ==
  /\ At("granted") /\ Top.op \in {"look", "wake"}
  /\ \E drop \in {FALSE, Top.op = "look"} :
       Settle([data EXCEPT ![Top.ch].holes = @ /\ ~drop], channels, Below)
  /\ UNCHANGED <<alive, files>>
-----------------------------------------------------------------------------
(***************************************************************************)
(* Delivery.  Whoever was a member when it began is called, in any order;  *)
(* a 0 in the array is skipped.                                            *)
(***************************************************************************)
Deliver(m) ==
  /\ At("deliver")
  /\ m \in Top.todo
  /\ stack' = <<[Top EXCEPT !.pc = "called", !.current = m, !.todo = @ \ {m}]>>
              \o Below
  /\ UNCHANGED <<alive, channels, data, files>>

Return ==
  /\ At("called")
  /\ stack' = <<[Top EXCEPT !.pc = "deliver", !.current = None]>> \o Below
  /\ UNCHANGED <<alive, channels, data, files>>

ListenerFails == At("called") /\ Fails(data)

\* The message goes into the history, which must be there, as must the sender
\* (1176-1187).
Delivered ==
  /\ At("deliver")
  /\ Top.todo = {}
  /\ IF Top.op # "master" /\ (Top.name \notin channelH \/ Top.who = None)
       THEN Fails(data)
       ELSE Settle(data, channels, Below) /\ UNCHANGED <<alive, files>>
-----------------------------------------------------------------------------
(***************************************************************************)
(* The end of a channel: deactivate_channel() and delete_channel().        *)
(***************************************************************************)

\* Mutant: whoever listens is thrown out.
ClosableAlways(n) == ~ChannelOf(n).holes

\* What sizeof(ch.members) decides: nobody may listen unless force is given,
\* and then no 0 may be among the members (remove_all_members()).
Closable(n) ==
  ~Populated(ChannelOf(n)) \/ (Top.force /\ ~ChannelOf(n).holes)

TooMany ==
  /\ At("close") /\ Full
  /\ \E s \in WithMasterNotice(Goto("delete"), Top.name) : stack' = s
  /\ UNCHANGED <<alive, channels, data, files>>

\* Mutant: the struct is cut in the wrong place.
RememberedSupervisor(ch) == [creator |-> ch.supervisor, fixed |-> ch.fixed]

\* What of a channel goes into channelC
Remembered(ch) == [creator |-> ch.creator, fixed |-> ch.fixed]

Deactivate ==
  LET n == Top.name
  IN /\ At("close") /\ ~Full
     /\ \/ n \notin Active
           /\ Settle(data, channels, Below) /\ UNCHANGED <<alive, files>>
        \/ n \in Active /\ ~Closable(n) /\ Fails(data)
        \/ /\ n \in Active /\ Closable(n)
           /\ channelC' = [channelC EXCEPT ![n] = Remembered(ChannelOf(n))]
           /\ dirty' = TRUE
           /\ Settle(data, [channels EXCEPT ![n] = Nothing], Below)
           /\ UNCHANGED <<up, alive, channelH, saved>>

Delete ==
  LET n == Top.name
  IN /\ At("delete")
     /\ \/ n \in Active /\ ~Closable(n) /\ Fails(data)
        \/ /\ n \in Active => Closable(n)
           /\ channelC' = [channelC EXCEPT ![n] = None]
           /\ channelH' = channelH \ {n}
           /\ dirty' = TRUE
           /\ Settle(data, [channels EXCEPT ![n] = Nothing], Below)
           /\ UNCHANGED <<up, alive, saved>>
-----------------------------------------------------------------------------
(***************************************************************************)
(* The life of the objects and of the daemon.                              *)
(***************************************************************************)
Gone(o, x) == IF x = o THEN None ELSE x

Destruct(o) ==
  /\ OthersRun
  /\ o \in alive
  /\ alive' = alive \ {o}
  /\ data' = [i \in ID |->
       IF data[i] = None THEN None
       ELSE [data[i] EXCEPT !.members = @ \ {o},
                            !.holes = @ \/ o \in data[i].members,
                            !.supervisor = Gone(o, @)]]
  /\ stack' = [k \in DOMAIN stack |->
       [stack[k] EXCEPT !.who = Gone(o, @), !.current = Gone(o, @),
                        !.todo = @ \ {o}]]
  /\ UNCHANGED <<channels, files>>

Appear(o) ==
  /\ OthersRun
  /\ o \notin alive
  /\ alive' = alive \cup {o}
  /\ UNCHANGED <<channels, data, files, stack>>

\* Dormant channels expire, with their history, if there are too many.
Reset ==
  /\ up /\ stack = <<>>
  /\ \E old \in SUBSET Dormant :
       /\ old # {} => Cardinality(Dormant) > MaxInactive \div 2
       /\ channelC' = [n \in CHANNEL |-> IF n \in old THEN None ELSE channelC[n]]
       /\ channelH' = channelH \ old
  /\ saved' = IF dirty THEN channelC' ELSE saved
  /\ dirty' = FALSE
  /\ UNCHANGED <<up, alive, channels, data, stack>>

\* remove(): what lies in /secure/memory stays.
Unload ==
  /\ up /\ stack = <<>>
  /\ up' = FALSE
  /\ saved' = IF dirty THEN channelC ELSE saved
  /\ dirty' = FALSE
  /\ UNCHANGED <<alive, channels, data, channelC, channelH, stack>>

\* create(): the channels of channeld.init that are missing are set up, and
\* every channel that is active has to have a supervisor.
Creations ==
  LET Missing == DOMAIN Defaults \ Active
      frames == {CallOf("setup", None, n, "setup") : n \in Missing} \cup
                {CallOf("wake", None, n, "wake") : n \in Active}
  IN {s \in [1..Cardinality(frames) -> frames] :
        \A f \in frames : \E k \in DOMAIN s : s[k] = f}

Load ==
  /\ ~up
  /\ up' = TRUE
  /\ channelC' = saved /\ dirty' = FALSE
  /\ stack' \in Creations
  /\ UNCHANGED <<alive, channels, data, channelH, saved>>

Setup ==
  LET n == Top.name
  IN /\ At("setup")
     /\ IF MayOpen(Defaults[n].creator, n)
          THEN Open(Defaults[n].creator, n, Defaults[n].fixed, Below)
               /\ alive' = alive \cup {Defaults[n].creator}
          ELSE /\ Settle(data, channels, Below)
               /\ alive' \in {alive, alive \cup {Defaults[n].creator}}
               /\ UNCHANGED files

\* The mud goes down, with the daemon saved or in a crash.
Reboot ==
  /\ stack = <<>>
  /\ up' = FALSE /\ alive' = {}
  /\ channels' = [n \in CHANNEL |-> Nothing]
  /\ data' = [i \in ID |-> None]
  /\ channelH' = {}
  /\ saved' \in {saved, IF up /\ dirty THEN channelC ELSE saved}
  /\ channelC' = saved' /\ dirty' = FALSE
  /\ UNCHANGED stack

Ask(o, n) ==
  \/ Join(o, n) \/ Leave(o, n) \/ Look(o, n)
  \/ New(o, n) \/ Remove(o, n) \/ ChangeChannelFlags(o, n)
  \/ \E x \in OBJ : TransferOwnership(o, n, x)

Access == Wake \/ ReloadSupervisor \/ (\E m \in OBJ : Elect(m)) \/ GiveUp

Carry == JoinIn \/ LeaveOut \/ LookDone

Next ==
  \/ \E o \in OBJ : \/ \E n \in CHANNEL : Ask(o, n)
                    \/ Deliver(o) \/ Destruct(o) \/ Appear(o)
  \/ Access \/ Refuse \/ Carry
  \/ Return \/ ListenerFails \/ Delivered
  \/ TooMany \/ Deactivate \/ Delete
  \/ Reset \/ Unload \/ Load \/ Setup \/ Reboot

Spec == Init /\ [][Next]_vars
-----------------------------------------------------------------------------
TypeOK ==
  /\ up \in BOOLEAN /\ dirty \in BOOLEAN
  /\ alive \subseteq OBJ
  /\ channels \in [CHANNEL -> ID \cup {Nothing}]
  /\ data \in [ID -> Struct \cup {None}]
  /\ channelC \in [CHANNEL -> Base \cup {None}]
  /\ saved \in [CHANNEL -> Base \cup {None}]
  /\ channelH \subseteq CHANNEL
  /\ stack \in Seq(Call)

\* Whom a channel with a fixed supervisor belongs to, active or dormant.
Owner(n) ==
  LET base == IF n \in Active THEN ChannelOf(n) ELSE channelC[n]
  IN IF base # None /\ base.fixed THEN base.creator ELSE None

\* Who may decide on the channel n now.
Supervisor(n) == IF n \in Active THEN ChannelOf(n).supervisor ELSE None

\* Its owner, its supervisor or an archwizard gives it away or changes it.
HandedOver(n) ==
  \E o \in OBJ : ChangeChannelFlags(o, n)
               \/ \E x \in OBJ : TransferOwnership(o, n, x)

\* create() has failed, and what was changed meanwhile is lost.
Unsaved == ~up /\ dirty

\* As long as there is a history, nobody gets hold of it through a channel with
\* a fixed supervisor but its owner: whatever vanishes, is deactivated, opened
\* again or loaded, nobody else becomes its supervisor, and it goes to another
\* owner only if it is given away (809 ff., "damit niemand inaktive Ebenen und
\* deren History auf diesem Wege uebernehmen kann", 969).
NoTakeover ==
  [][\A n \in channelH \cap channelH' :
       Owner(n) # None /\ ~Unsaved =>
         /\ Supervisor(n)' \in {Supervisor(n), Owner(n), None}
         /\ Owner(n)' = Owner(n) \/ HandedOver(n)]_vars

\* Nobody is thrown out of a channel that is deactivated, but for want of the
\* only one who may be its supervisor: a message that goes out between the
\* decision and the end of the channel changes nothing of that.
ClosedOnlyEmpty ==
  [][\A n \in Active \ Active' :
       up /\ At("close") =>
         \/ ChannelOf(n).members = {}
         \/ /\ ChannelOf(n).fixed
            /\ ChannelOf(n).creator \notin alive \cup Loadable]_vars

\* A channel that is active has a history, to which send() can add.
HistoryKept == \A n \in Active : n \in channelH
=============================================================================
