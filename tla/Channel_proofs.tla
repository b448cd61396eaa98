--------------------------- MODULE Channel_proofs ---------------------------
(***************************************************************************)
(* Proofs about the channel daemon, for all channels, objects and limits,  *)
(* and calls of listeners inside each other of any depth.                  *)
(*                                                                         *)
(* The inductive invariant WellFormed adds to the types that every struct  *)
(* the daemon or one of the calls refers to is there, that no two channels *)
(* share one, and that what is dormant and has a history is in the save    *)
(* file unless save_me_soon is set.  For the forced close of a channel,    *)
(* Decided says what stays true between its decision and its last step.    *)
(* At the end: what would keep the histories, if create() found a save     *)
(* file that is up to date.                                                *)
(***************************************************************************)
EXTENDS Channel, FiniteSetTheorems, TLAPS

Structs == [ID -> Struct \cup {None}]

\* A call that is going on has looked up the struct it works on.
CallOK(f, d) ==
  /\ f \in Call
  /\ f.ch # Nothing => d[f.ch] # None
  /\ f.pc \in {"access", "granted"} => f.ch # Nothing
  /\ f.pc = "setup" => f.name \in DOMAIN Defaults

StackOK(s, d) ==
  /\ s \in Seq(Call)
  /\ \A k \in DOMAIN s : CallOK(s[k], d)

ChannelsOK(c, d) ==
  /\ c \in [CHANNEL -> ID \cup {Nothing}]
  /\ \A n \in CHANNEL : c[n] # Nothing => d[c[n]] # None
  /\ \A m, n \in CHANNEL : c[m] # Nothing /\ c[m] = c[n] => m = n

Saved ==
  ~dirty => \A n \in channelH : n \notin Active => saved[n] = channelC[n]

WellFormed == TypeOK /\ ChannelsOK(channels, data) /\ StackOK(stack, data) /\ Saved

\* What NoTakeover says of a step
Step ==
  \A n \in channelH \cap channelH' :
    Owner(n) # None /\ ~Unsaved =>
      /\ Supervisor(n)' \in {Supervisor(n), Owner(n), None}
      /\ Owner(n)' = Owner(n) \/ HandedOver(n)
-----------------------------------------------------------------------------
(***************************************************************************)
(* The calls that are going on.                                            *)
(***************************************************************************)

LEMMA NoneIsNoStruct == None \notin Struct /\ None \notin Base /\ None \notin OBJ
BY ConstantsAssumption DEF ConstantsAssumption

LEMMA IDs == ID \subseteq Nat /\ Nothing \notin ID
<1>1. MaxIds \in Nat
  BY ConstantsAssumption DEF ConstantsAssumption
<1> QED
  BY <1>1 DEF ID, Nothing

LEMMA PushOK ==
  ASSUME NEW s, NEW d, NEW f, StackOK(s, d), CallOK(f, d)
  PROVE  StackOK(<<f>> \o s, d)
<1> DEFINE t == <<f>> \o s
<1>1. s \in Seq(Call) /\ <<f>> \in Seq(Call) /\ f \in Call
  BY DEF StackOK, CallOK
<1>2. t \in Seq(Call) /\ Len(t) = Len(s) + 1
  BY <1>1
<1>3. ASSUME NEW k \in DOMAIN t PROVE CallOK(t[k], d)
  <2>1. k = 1 \/ k - 1 \in DOMAIN s
    BY <1>1, <1>2
  <2>2. t[k] = IF k = 1 THEN f ELSE s[k - 1]
    BY <1>1, <1>2
  <2> QED
    BY <2>1, <2>2 DEF StackOK
<1> QED
  BY <1>2, <1>3 DEF StackOK

LEMMA PopOK ==
  ASSUME NEW s, NEW d, StackOK(s, d), s # <<>>
  PROVE  StackOK(Tail(s), d) /\ CallOK(Head(s), d)
<1>1. s \in Seq(Call) /\ Tail(s) \in Seq(Call) /\ Len(s) \in Nat /\ Len(s) > 0
  BY DEF StackOK
<1>2. \A k \in DOMAIN Tail(s) : k + 1 \in DOMAIN s /\ Tail(s)[k] = s[k + 1]
  BY <1>1
<1>3. 1 \in DOMAIN s /\ Head(s) = s[1]
  BY <1>1
<1> QED
  BY <1>1, <1>2, <1>3 DEF StackOK

\* More structs do no harm.
LEMMA StackKept ==
  ASSUME NEW s, NEW d, NEW e, StackOK(s, d), \A i \in ID : d[i] # None => e[i] # None
  PROVE  StackOK(s, e)
BY DEF StackOK, CallOK, Call, Nothing

LEMMA EmptyOK == \A d : StackOK(<<>>, d)
BY DEF StackOK

LEMMA CallOfOK ==
  ASSUME NEW op \in {"join", "leave", "look", "wake", "setup", "close", "notice", "master"},
         NEW o \in OBJ \cup {None}, NEW n \in CHANNEL, NEW d,
         NEW pc \in {"setup", "wake", "close", "delete", "deliver", "called"},
         pc = "setup" => n \in DOMAIN Defaults
  PROVE  CallOK(CallOf(op, o, n, pc), d)
BY DEF CallOK, CallOf, Call, Nothing

LEMMA MessageOK ==
  ASSUME NEW op \in {"notice", "master"}, NEW o \in OBJ \cup {None}, NEW n \in CHANNEL,
         NEW listeners \in SUBSET OBJ, NEW d
  PROVE  CallOK(Message(op, o, n, listeners), d)
BY DEF CallOK, CallOf, Call, Nothing, Message

LEMMA ClosingOK ==
  ASSUME NEW n \in CHANNEL, NEW pc \in {"close", "delete"}, NEW force \in BOOLEAN, NEW d
  PROVE  CallOK(Closing(n, pc, force), d)
BY DEF CallOK, CallOf, Call, Nothing, Closing

LEMMA WithNoticeOK ==
  ASSUME NEW s, NEW d, StackOK(s, d), NEW n \in CHANNEL, NEW e \in Structs,
         channels[n] # Nothing => channels[n] \in ID /\ e[channels[n]] # None,
         NEW senders \in SUBSET OBJ, NEW t \in WithNotice(s, n, e, senders)
  PROVE  StackOK(t, d)
<1>1. CASE t = s
  BY <1>1
<1>2. CASE t # s
  <2>1. channels[n] # Nothing
    BY <1>2 DEF WithNotice
  <2>2. PICK x \in senders : t = <<Message("notice", x, n, e[channels[n]].members)>> \o s
    BY <1>2, <2>1 DEF WithNotice
  <2>3. e[channels[n]].members \in SUBSET OBJ
    BY <2>1 DEF Structs, Struct
  <2>4. CallOK(Message("notice", x, n, e[channels[n]].members), d)
    BY <2>3, MessageOK
  <2> QED
    BY <2>2, <2>4, PushOK
<1> QED
  BY <1>1, <1>2

LEMMA WithMasterNoticeOK ==
  ASSUME NEW s, NEW d, StackOK(s, d), NEW n \in CHANNEL, alive \subseteq OBJ,
         NEW t \in WithMasterNotice(s, n)
  PROVE  StackOK(t, d)
<1>1. CASE t = s
  BY <1>1
<1>2. CASE t # s
  <2>1. PICK o \in alive : t = <<Message("master", None, n, {o})>> \o s
    BY <1>2 DEF WithMasterNotice
  <2>2. CallOK(Message("master", None, n, {o}), d)
    BY MessageOK
  <2> QED
    BY <2>1, <2>2, PushOK
<1> QED
  BY <1>1, <1>2
-----------------------------------------------------------------------------
(***************************************************************************)
(* Steps that leave the channels and the files alone.                      *)
(***************************************************************************)

LEMMA SettleFacts ==
  ASSUME NEW d \in Structs, NEW c, NEW s, ChannelsOK(c, d), StackOK(s, d), Settle(d, c, s)
  PROVE  /\ channels' = c /\ stack' = s /\ data' \in Structs
         /\ \A n \in CHANNEL : c[n] # Nothing => data'[c[n]] = d[c[n]]
         /\ ChannelsOK(channels', data') /\ StackOK(stack', data')
<1>1. channels' = c /\ stack' = s
  BY DEF Settle
<1>2. data' = [i \in ID |-> IF \/ \E n \in CHANNEL : c[n] = i
                             \/ \E k \in DOMAIN s : s[k].ch = i
                            THEN d[i] ELSE None]
  BY DEF Settle
<1>3. data' \in Structs
  BY <1>2 DEF Structs
<1>4. \A n \in CHANNEL : c[n] # Nothing => data'[c[n]] = d[c[n]]
  BY <1>2 DEF ChannelsOK
<1>5. ChannelsOK(c, data')
  BY <1>4 DEF ChannelsOK
<1>6. \A k \in DOMAIN s : CallOK(s[k], data')
  <2> SUFFICES ASSUME NEW k \in DOMAIN s PROVE CallOK(s[k], data')
    OBVIOUS
  <2>1. CallOK(s[k], d) /\ s[k].ch \in ID \cup {Nothing}
    BY DEF StackOK, CallOK, Call
  <2>2. s[k].ch # Nothing => data'[s[k].ch] = d[s[k].ch]
    BY <1>2, <2>1
  <2> QED
    BY <2>1, <2>2 DEF CallOK
<1>7. StackOK(s, data')
  BY <1>6 DEF StackOK
<1> QED
  BY <1>1, <1>3, <1>4, <1>5, <1>7

\* d is what becomes of the structs when nobody takes a channel over.
Faithful(d) ==
  \A i \in ID : data[i] # None =>
    /\ d[i] # None
    /\ d[i].creator = data[i].creator /\ d[i].fixed = data[i].fixed
    /\ data[i].fixed => d[i].supervisor \in {data[i].supervisor, data[i].creator, None}

LEMMA FaithfulStep ==
  ASSUME WellFormed, NEW d \in Structs, Faithful(d), channels' = channels,
         \A n \in CHANNEL : channels[n] # Nothing => data'[channels[n]] = d[channels[n]],
         channelC' = channelC
  PROVE  Step
<1> SUFFICES ASSUME NEW n \in CHANNEL, Owner(n) # None
             PROVE  /\ Supervisor(n)' \in {Supervisor(n), Owner(n), None}
                    /\ Owner(n)' = Owner(n)
  BY DEF Step, WellFormed, TypeOK
<1>1. CASE n \in Active
  <2>1. n \in Active' /\ channels[n] \in ID /\ data[channels[n]] # None
    BY <1>1 DEF Active, WellFormed, ChannelsOK
  <2>2. Owner(n) = ChannelOf(n).creator /\ ChannelOf(n).fixed
    BY <1>1 DEF Owner
  <2>3. ChannelOf(n)' = d[channels[n]]
    BY <2>1 DEF ChannelOf, Active
  <2>4. /\ ChannelOf(n)' # None
        /\ ChannelOf(n)'.creator = ChannelOf(n).creator /\ ChannelOf(n)'.fixed
        /\ ChannelOf(n)'.supervisor \in {ChannelOf(n).supervisor, ChannelOf(n).creator, None}
    BY <2>1, <2>2, <2>3 DEF Faithful, ChannelOf
  <2> QED
    BY <1>1, <2>1, <2>2, <2>4 DEF Owner, Supervisor
<1>2. CASE n \notin Active
  BY <1>2 DEF Active, Owner, Supervisor
<1> QED
  BY <1>1, <1>2

LEMMA InPlace ==
  ASSUME WellFormed, NEW d \in Structs, Faithful(d), channels' = channels,
         data' \in Structs, ChannelsOK(channels', data'), StackOK(stack', data'),
         \A n \in CHANNEL : channels[n] # Nothing => data'[channels[n]] = d[channels[n]],
         up' \in BOOLEAN, alive' \subseteq OBJ,
         channelC' = channelC, channelH' = channelH, dirty' = dirty, saved' = saved
  PROVE  WellFormed' /\ Step
<1>1. TypeOK'
  BY DEF TypeOK, WellFormed, Structs, StackOK
<1>2. Saved'
  BY DEF WellFormed, Saved, Active
<1> QED
  BY <1>1, <1>2, FaithfulStep DEF WellFormed

\* A step that settles
LEMMA SettleStep ==
  ASSUME WellFormed, NEW d \in Structs, Faithful(d), NEW s, StackOK(s, d),
         Settle(d, channels, s), up' \in BOOLEAN, alive' \subseteq OBJ,
         channelC' = channelC, channelH' = channelH, dirty' = dirty, saved' = saved
  PROVE  WellFormed' /\ Step
<1>1. ChannelsOK(channels, d)
  BY DEF WellFormed, ChannelsOK, Faithful
<1> QED
  BY <1>1, SettleFacts, InPlace

\* A step that only goes on with other calls
LEMMA StackStep ==
  ASSUME WellFormed, StackOK(stack', data),
         channels' = channels, data' = data, up' \in BOOLEAN, alive' \subseteq OBJ,
         channelC' = channelC, channelH' = channelH, dirty' = dirty, saved' = saved
  PROVE  WellFormed' /\ Step
<1>1. data \in Structs /\ Faithful(data)
  BY DEF WellFormed, TypeOK, Structs, Faithful
<1>2. ChannelsOK(channels', data') /\ StackOK(stack', data')
  BY DEF WellFormed
<1> QED
  BY <1>1, <1>2, InPlace

\* One struct becomes another
LEMMA Updated ==
  ASSUME WellFormed, NEW i \in ID, data[i] # None, NEW x \in Struct,
         x.creator = data[i].creator, x.fixed = data[i].fixed,
         data[i].fixed => x.supervisor \in {data[i].supervisor, data[i].creator, None}
  PROVE  /\ [data EXCEPT ![i] = x] \in Structs /\ Faithful([data EXCEPT ![i] = x])
         /\ \A s : StackOK(s, data) => StackOK(s, [data EXCEPT ![i] = x])
<1> DEFINE d == [data EXCEPT ![i] = x]
<1>1. data \in Structs /\ x # None
  BY NoneIsNoStruct DEF WellFormed, TypeOK, Structs
<1>2. d \in Structs /\ \A j \in ID : d[j] = IF j = i THEN x ELSE data[j]
  BY <1>1 DEF Structs
<1>3. Faithful(d)
  BY <1>1, <1>2 DEF Faithful
<1>4. \A j \in ID : data[j] # None => d[j] # None
  BY <1>1, <1>2
<1> HIDE DEF d
<1>5. \A s : StackOK(s, data) => StackOK(s, d)
  BY <1>4, StackKept
<1> QED
  BY <1>2, <1>3, <1>5 DEF d

\* The structs as they are
LEMMA Unchanged == WellFormed => data \in Structs /\ Faithful(data)
BY DEF WellFormed, TypeOK, Structs, Faithful

\* The call on top
LEMMA ThisCall ==
  ASSUME WellFormed, stack # <<>>
  PROVE  /\ Top \in Call /\ CallOK(Top, data) /\ StackOK(Below, data)
         /\ Top.ch # Nothing => Top.ch \in ID /\ Ch \in Struct /\ Ch # None
<1>1. CallOK(Top, data) /\ StackOK(Below, data)
  BY PopOK DEF WellFormed, Top, Below
<1>2. Top \in Call
  BY <1>1 DEF CallOK
<1>3. Top.ch # Nothing => Top.ch \in ID /\ data[Top.ch] # None
  BY <1>1, <1>2 DEF CallOK, Call
<1> QED
  BY <1>1, <1>2, <1>3 DEF WellFormed, TypeOK, Ch

LEMMA GotoOK ==
  ASSUME WellFormed, stack # <<>>, NEW pc \in {"granted", "delete"},
         pc = "granted" => Top.ch # Nothing
  PROVE  StackOK(Goto(pc), data)
<1> DEFINE f == [Top EXCEPT !.pc = pc]
<1>1. CallOK(f, data)
  BY ThisCall DEF CallOK, Call
<1> HIDE DEF f
<1>2. StackOK(<<f>> \o Below, data)
  BY <1>1, ThisCall, PushOK
<1> QED
  BY <1>2 DEF Goto, f

LEMMA ActiveFacts ==
  ASSUME WellFormed, NEW n \in Active
  PROVE  n \in CHANNEL /\ channels[n] \in ID /\ ChannelOf(n) \in Struct /\ ChannelOf(n) # None
BY DEF WellFormed, TypeOK, ChannelsOK, Active, ChannelOf

LEMMA AskingOK ==
  ASSUME WellFormed, NEW op \in {"join", "leave", "look", "wake"},
         NEW o \in OBJ \cup {None}, NEW n \in Active
  PROVE  CallOK(Asking(op, o, n), data)
<1>1. channels[n] # Nothing /\ channels[n] \in ID /\ n \in CHANNEL /\ data[channels[n]] # None
  BY ActiveFacts DEF Active, ChannelOf
<1> QED
  BY <1>1 DEF Asking, CallOf, CallOK, Call
-----------------------------------------------------------------------------
(***************************************************************************)
(* The actions that only start, carry on or end calls.                     *)
(***************************************************************************)

LEMMA RequestStep ==
  ASSUME WellFormed, NEW op \in {"join", "look"}, NEW o \in OBJ, NEW n \in CHANNEL,
         Request(op, o, n)
  PROVE  WellFormed' /\ Step
<1>1. StackOK(stack', data)
  BY AskingOK, PushOK DEF Request, WellFormed
<1> QED
  BY <1>1, StackStep DEF Request, files, WellFormed, TypeOK

LEMMA RemoveStep ==
  ASSUME WellFormed, NEW o \in OBJ, NEW n \in CHANNEL, Remove(o, n)
  PROVE  WellFormed' /\ Step
<1>1. CallOK(Closing(n, "delete", TRUE), data)
  BY ClosingOK
<1>2. StackOK(stack', data)
  BY <1>1, PushOK DEF Remove, WellFormed
<1> QED
  BY <1>2, StackStep DEF Remove, files, WellFormed, TypeOK

LEMMA WakeStep ==
  ASSUME WellFormed, Wake
  PROVE  WellFormed' /\ Step
<1>1. stack # <<>> /\ StackOK(Below, data)
  BY ThisCall DEF Wake, At
<1>2. Top.name \in Active => CallOK(Asking("wake", None, Top.name), data)
  BY AskingOK
<1>3. StackOK(stack', data)
  BY <1>1, <1>2, PushOK DEF Wake
<1> QED
  BY <1>3, StackStep DEF Wake, files, WellFormed, TypeOK

LEMMA DeliverStep ==
  ASSUME WellFormed, NEW m \in OBJ, Deliver(m)
  PROVE  WellFormed' /\ Step
<1> DEFINE f == [Top EXCEPT !.pc = "called", !.current = m, !.todo = @ \ {m}]
<1>1. stack # <<>> /\ StackOK(Below, data) /\ CallOK(Top, data)
  BY ThisCall DEF Deliver, At
<1>2. CallOK(f, data)
  BY <1>1 DEF CallOK, Call
<1> HIDE DEF f
<1>3. StackOK(<<f>> \o Below, data)
  BY <1>1, <1>2, PushOK
<1>4. StackOK(stack', data)
  BY <1>3 DEF Deliver, f
<1> QED
  BY <1>4, StackStep DEF Deliver, files, WellFormed, TypeOK

LEMMA ReturnStep ==
  ASSUME WellFormed, Return
  PROVE  WellFormed' /\ Step
<1> DEFINE f == [Top EXCEPT !.pc = "deliver", !.current = None]
<1>1. stack # <<>> /\ StackOK(Below, data) /\ CallOK(Top, data)
  BY ThisCall DEF Return, At
<1>2. CallOK(f, data)
  BY <1>1 DEF CallOK, Call
<1> HIDE DEF f
<1>3. StackOK(<<f>> \o Below, data)
  BY <1>1, <1>2, PushOK
<1>4. StackOK(stack', data)
  BY <1>3 DEF Return, f
<1> QED
  BY <1>4, StackStep DEF Return, files, WellFormed, TypeOK

LEMMA TooManyStep ==
  ASSUME WellFormed, TooMany
  PROVE  WellFormed' /\ Step
<1>1. stack # <<>> /\ StackOK(Goto("delete"), data) /\ Top.name \in CHANNEL /\ alive \subseteq OBJ
  BY GotoOK, ThisCall DEF TooMany, At, Call, WellFormed, TypeOK
<1>2. PICK s \in WithMasterNotice(Goto("delete"), Top.name) : stack' = s
  BY DEF TooMany
<1>3. StackOK(stack', data)
  BY <1>1, <1>2, WithMasterNoticeOK
<1> QED
  BY <1>3, StackStep DEF TooMany, files, WellFormed, TypeOK

LEMMA AppearStep ==
  ASSUME WellFormed, NEW o \in OBJ, Appear(o)
  PROVE  WellFormed' /\ Step
<1>1. StackOK(stack', data)
  BY DEF Appear, WellFormed
<1> QED
  BY <1>1, StackStep DEF Appear, files, WellFormed, TypeOK
-----------------------------------------------------------------------------
(***************************************************************************)
(* The actions that change one struct in place.                            *)
(***************************************************************************)

LEMMA UpdateStep ==
  ASSUME WellFormed, NEW i \in ID, data[i] # None, NEW x \in Struct,
         x.creator = data[i].creator, x.fixed = data[i].fixed,
         data[i].fixed => x.supervisor \in {data[i].supervisor, data[i].creator, None},
         NEW s, StackOK(s, data), Settle([data EXCEPT ![i] = x], channels, s),
         up' \in BOOLEAN, alive' \subseteq OBJ,
         channelC' = channelC, channelH' = channelH, dirty' = dirty, saved' = saved
  PROVE  WellFormed' /\ Step
<1> DEFINE d == [data EXCEPT ![i] = x]
<1>1. d \in Structs /\ Faithful(d) /\ StackOK(s, d) /\ Settle(d, channels, s)
  BY Updated
<1> HIDE DEF d
<1> QED
  BY <1>1, SettleStep

LEMMA SettleAsIs ==
  ASSUME WellFormed, NEW s, StackOK(s, data), Settle(data, channels, s),
         up' \in BOOLEAN, alive' \subseteq OBJ,
         channelC' = channelC, channelH' = channelH, dirty' = dirty, saved' = saved
  PROVE  WellFormed' /\ Step
BY Unchanged, SettleStep

LEMMA FailsAsIs ==
  ASSUME WellFormed, Fails(data)
  PROVE  WellFormed' /\ Step
<1>1. up' \in BOOLEAN /\ alive' \subseteq OBJ
  BY DEF Fails, WellFormed, TypeOK
<1> QED
  BY <1>1, EmptyOK, SettleAsIs DEF Fails

\* A notice in the name of m on top of the calls s
LEMMA NoticeOK ==
  ASSUME WellFormed, stack # <<>>, Top.ch \in ID, Ch # None, NEW x \in Struct, NEW m \in OBJ,
         NEW s \in WithNotice(Goto("granted"), Top.name, [data EXCEPT ![Top.ch] = x], {m})
  PROVE  StackOK(s, data)
<1> DEFINE d == [data EXCEPT ![Top.ch] = x]
<1>1. StackOK(Goto("granted"), data) /\ Top.name \in CHANNEL
  BY GotoOK, ThisCall, IDs DEF Call
<1>2. data \in Structs /\ x # None
  BY NoneIsNoStruct, Unchanged
<1>3. d \in Structs /\ \A j \in ID : d[j] = IF j = Top.ch THEN x ELSE data[j]
  BY <1>2 DEF Structs
<1>4. \A n \in CHANNEL : channels[n] # Nothing => channels[n] \in ID /\ d[channels[n]] # None
  BY <1>2, <1>3 DEF WellFormed, ChannelsOK
<1>5. {m} \in SUBSET OBJ
  OBVIOUS
<1>6. s \in WithNotice(Goto("granted"), Top.name, d, {m})
  OBVIOUS
<1> HIDE DEF d
<1> QED
  BY <1>1, <1>3, <1>4, <1>5, <1>6, WithNoticeOK

LEMMA ReloadStep ==
  ASSUME WellFormed, ReloadSupervisor
  PROVE  WellFormed' /\ Step
<1> DEFINE sv == Ch.creator
           x == [Ch EXCEPT !.members = @ \cup {sv}, !.supervisor = sv]
<1>1. stack # <<>> /\ Top.ch \in ID /\ Ch \in Struct /\ Ch # None
  BY ThisCall DEF ReloadSupervisor, At, CallOK
<1>2. x \in Struct /\ sv \in OBJ /\ x.creator = Ch.creator /\ x.fixed = Ch.fixed /\ x.supervisor = sv
  BY <1>1 DEF Struct
<1>3. PICK s \in WithNotice(Goto("granted"), Top.name, [data EXCEPT ![Top.ch] = x], {sv}) :
        Settle([data EXCEPT ![Top.ch] = x], channels, s)
  BY DEF ReloadSupervisor, Ch
<1> HIDE DEF x, sv
<1>4. StackOK(s, data)
  BY <1>1, <1>2, NoticeOK
<1>5. /\ alive' \subseteq OBJ /\ up' \in BOOLEAN /\ channelC' = channelC /\ channelH' = channelH
      /\ dirty' = dirty /\ saved' = saved
  BY <1>2 DEF ReloadSupervisor, files, WellFormed, TypeOK, sv
<1>6. /\ data[Top.ch] # None /\ x.creator = data[Top.ch].creator /\ x.fixed = data[Top.ch].fixed
      /\ x.supervisor = data[Top.ch].creator
  BY <1>1, <1>2 DEF Ch, sv
<1> QED
  BY <1>1, <1>2, <1>3, <1>4, <1>5, <1>6, UpdateStep

LEMMA ElectStep ==
  ASSUME WellFormed, NEW m \in OBJ, Elect(m)
  PROVE  WellFormed' /\ Step
<1> DEFINE x == [Ch EXCEPT !.holes = FALSE, !.supervisor = m]
<1>1. stack # <<>> /\ Top.ch \in ID /\ Ch \in Struct /\ Ch # None /\ ~Ch.fixed
  BY ThisCall DEF Elect, At, CallOK
<1>2. x \in Struct /\ x.creator = Ch.creator /\ x.fixed = Ch.fixed
  BY <1>1 DEF Struct
<1>3. PICK s \in WithNotice(Goto("granted"), Top.name, [data EXCEPT ![Top.ch] = x], {m}) :
        Settle([data EXCEPT ![Top.ch] = x], channels, s)
  BY DEF Elect, Ch
<1> HIDE DEF x
<1>4. StackOK(s, data)
  BY <1>1, <1>2, NoticeOK
<1>5. /\ alive' \subseteq OBJ /\ up' \in BOOLEAN /\ channelC' = channelC /\ channelH' = channelH
      /\ dirty' = dirty /\ saved' = saved
  BY DEF Elect, files, WellFormed, TypeOK
<1>6. /\ data[Top.ch] # None /\ x.creator = data[Top.ch].creator /\ x.fixed = data[Top.ch].fixed
      /\ ~data[Top.ch].fixed
  BY <1>1, <1>2 DEF Ch
<1> QED
  BY <1>1, <1>2, <1>3, <1>4, <1>5, <1>6, UpdateStep

\* The zeros among the members may go.
LEMMA HolesStep ==
  ASSUME WellFormed, stack # <<>>, Top.ch \in ID, Ch # None, NEW b \in BOOLEAN,
         NEW s, StackOK(s, data), Settle([data EXCEPT ![Top.ch].holes = b], channels, s),
         alive' = alive, UNCHANGED files
  PROVE  WellFormed' /\ Step
<1> DEFINE x == [Ch EXCEPT !.holes = b]
<1>1. Ch \in Struct
  BY DEF WellFormed, TypeOK, Ch
<1>2. x \in Struct /\ x.creator = Ch.creator /\ x.fixed = Ch.fixed /\ x.supervisor = Ch.supervisor
  BY <1>1 DEF Struct
<1>3. Settle([data EXCEPT ![Top.ch] = x], channels, s)
  BY DEF Ch
<1> HIDE DEF x
<1>4. /\ data[Top.ch] # None /\ x.creator = data[Top.ch].creator /\ x.fixed = data[Top.ch].fixed
      /\ x.supervisor = data[Top.ch].supervisor
  BY <1>2 DEF Ch
<1>5. /\ alive' \subseteq OBJ /\ up' \in BOOLEAN /\ channelC' = channelC /\ channelH' = channelH
      /\ dirty' = dirty /\ saved' = saved
  BY DEF files, WellFormed, TypeOK
<1> QED
  BY <1>2, <1>3, <1>4, <1>5, UpdateStep

LEMMA GiveUpStep ==
  ASSUME WellFormed, GiveUp
  PROVE  WellFormed' /\ Step
<1> DEFINE b == Ch.holes /\ Ch.fixed
           s == <<Closing(Top.name, "close", TRUE)>> \o Below
<1>1. /\ stack # <<>> /\ Top.ch \in ID /\ Ch \in Struct /\ Ch # None /\ Top.name \in CHANNEL
      /\ StackOK(Below, data)
  BY ThisCall DEF GiveUp, At, CallOK, Call
<1>2. b \in BOOLEAN /\ Settle([data EXCEPT ![Top.ch].holes = b], channels, s)
  BY <1>1 DEF GiveUp, Struct, Ch
<1>3. StackOK(s, data)
  BY <1>1, ClosingOK, PushOK
<1>4. alive' = alive /\ UNCHANGED files
  BY DEF GiveUp
<1> HIDE DEF b, s
<1> QED
  BY <1>1, <1>2, <1>3, <1>4, HolesStep

LEMMA LookDoneStep ==
  ASSUME WellFormed, LookDone
  PROVE  WellFormed' /\ Step
<1>1. /\ stack # <<>> /\ Top.ch \in ID /\ Ch \in Struct /\ Ch # None /\ StackOK(Below, data)
  BY ThisCall DEF LookDone, At, CallOK
<1>2. PICK drop \in BOOLEAN :
        Settle([data EXCEPT ![Top.ch].holes = @ /\ ~drop], channels, Below)
  BY DEF LookDone
<1> DEFINE b == Ch.holes /\ ~drop
<1>3. b \in BOOLEAN /\ Settle([data EXCEPT ![Top.ch].holes = b], channels, Below)
  BY <1>1, <1>2 DEF Struct, Ch
<1>4. alive' = alive /\ UNCHANGED files
  BY DEF LookDone
<1> HIDE DEF b
<1> QED
  BY <1>1, <1>3, <1>4, HolesStep

LEMMA RefuseStep ==
  ASSUME WellFormed, Refuse
  PROVE  WellFormed' /\ Step
<1>1. StackOK(Below, data)
  BY ThisCall DEF Refuse, At
<1> QED
  BY <1>1, SettleAsIs DEF Refuse, files, WellFormed, TypeOK

LEMMA DeliveredStep ==
  ASSUME WellFormed, Delivered
  PROVE  WellFormed' /\ Step
<1>1. StackOK(Below, data)
  BY ThisCall DEF Delivered, At
<1>2. CASE Fails(data)
  BY <1>2, FailsAsIs
<1>3. CASE Settle(data, channels, Below) /\ UNCHANGED <<alive, files>>
  BY <1>1, <1>3, SettleAsIs DEF files, WellFormed, TypeOK
<1> QED
  BY <1>2, <1>3 DEF Delivered

LEMMA ListenerFailsStep ==
  ASSUME WellFormed, ListenerFails
  PROVE  WellFormed' /\ Step
BY FailsAsIs DEF ListenerFails

\* A struct whose members and zeros change, and whose supervisor may become o
LEMMA MembersStep ==
  ASSUME WellFormed, Top.ch \in ID, Ch # None, NEW x \in Struct,
         x.creator = Ch.creator, x.fixed = Ch.fixed,
         Ch.fixed => x.supervisor \in {Ch.supervisor, Ch.creator, None},
         NEW s, StackOK(s, data), Settle([data EXCEPT ![Top.ch] = x], channels, s),
         up' \in BOOLEAN, alive' = alive,
         channelC' = channelC, channelH' = channelH, dirty' = dirty, saved' = saved
  PROVE  WellFormed' /\ Step
<1>1. /\ data[Top.ch] # None /\ x.creator = data[Top.ch].creator /\ x.fixed = data[Top.ch].fixed
      /\ data[Top.ch].fixed =>
           x.supervisor \in {data[Top.ch].supervisor, data[Top.ch].creator, None}
  BY DEF Ch
<1>2. alive' \subseteq OBJ
  BY DEF WellFormed, TypeOK
<1> QED
  BY <1>1, <1>2, UpdateStep

LEMMA FailsStep ==
  ASSUME WellFormed, Top.ch \in ID, Ch # None, NEW x \in Struct,
         x.creator = Ch.creator, x.fixed = Ch.fixed, x.supervisor = Ch.supervisor,
         Fails([data EXCEPT ![Top.ch] = x])
  PROVE  WellFormed' /\ Step
<1>1. /\ Settle([data EXCEPT ![Top.ch] = x], channels, <<>>) /\ up' \in BOOLEAN /\ alive' = alive
      /\ channelC' = channelC /\ channelH' = channelH /\ dirty' = dirty /\ saved' = saved
  BY DEF Fails
<1> QED
  BY <1>1, EmptyOK, MembersStep

LEMMA JoinInStep ==
  ASSUME WellFormed, JoinIn
  PROVE  WellFormed' /\ Step
<1> DEFINE o == Top.who
           x == Added(Ch, o)
           y == [x EXCEPT !.supervisor = o]
<1>1. /\ stack # <<>> /\ Top.ch \in ID /\ Ch \in Struct /\ Ch # None
      /\ StackOK(Below, data) /\ o \in OBJ \cup {None}
  BY ThisCall DEF JoinIn, At, CallOK, Call
<1>2. x \in Struct /\ x.creator = Ch.creator /\ x.fixed = Ch.fixed /\ x.supervisor = Ch.supervisor
  BY <1>1 DEF Struct, Added
<1>3. y \in Struct /\ y.creator = Ch.creator /\ y.fixed = Ch.fixed /\ y.supervisor = o
  BY <1>1, <1>2 DEF Struct
<1>4. CASE Settle(data, channels, Below) /\ UNCHANGED <<alive, files>>
  BY <1>1, <1>4, SettleAsIs DEF files, WellFormed, TypeOK
<1>5. CASE Settle([data EXCEPT ![Top.ch] = x], channels, Below) /\ UNCHANGED <<alive, files>>
  <2>1. up' \in BOOLEAN
    BY <1>5 DEF files, WellFormed, TypeOK
  <2> HIDE DEF x, o
  <2> QED
    BY <1>1, <1>2, <1>5, <2>1, MembersStep DEF files
<1>6. CASE o = Ch.creator /\ Settle([data EXCEPT ![Top.ch] = y], channels, Below)
           /\ UNCHANGED <<alive, files>>
  <2>1. up' \in BOOLEAN
    BY <1>6 DEF files, WellFormed, TypeOK
  <2> HIDE DEF y, x, o
  <2> QED
    BY <1>1, <1>3, <1>6, <2>1, MembersStep DEF files
<1>7. CASE Fails([data EXCEPT ![Top.ch] = x])
  <2> HIDE DEF x, o
  <2> QED
    BY <1>1, <1>2, <1>7, FailsStep
<1> DEFINE d == [data EXCEPT ![Top.ch] = x]
<1>8. \/ Settle(data, channels, Below) /\ UNCHANGED <<alive, files>>
      \/ Settle(d, channels, Below) /\ UNCHANGED <<alive, files>>
      \/ o = Ch.creator /\ Settle([d EXCEPT ![Top.ch].supervisor = o], channels, Below)
         /\ UNCHANGED <<alive, files>>
      \/ Fails(d)
  BY DEF JoinIn
<1>9. [d EXCEPT ![Top.ch].supervisor = o] = [data EXCEPT ![Top.ch] = y]
  <2>1. data \in Structs
    BY Unchanged
  <2> HIDE DEF x, o
  <2> QED
    BY <1>1, <2>1 DEF Structs
<1> HIDE DEF x, y, o
<1> QED
  BY <1>4, <1>5, <1>6, <1>7, <1>8, <1>9

LEMMA LeaveOutStep ==
  ASSUME WellFormed, LeaveOut
  PROVE  WellFormed' /\ Step
<1> DEFINE o == Top.who
           closing == <<Closing(Top.name, "close", FALSE)>> \o Below
           ch == IF o = None THEN [Ch EXCEPT !.holes = FALSE]
                 ELSE [Ch EXCEPT !.members = @ \ {o}]
           With(x) == [data EXCEPT ![Top.ch] = x]
<1>1. /\ stack # <<>> /\ Top.ch \in ID /\ Ch \in Struct /\ Ch # None
      /\ StackOK(Below, data) /\ o \in OBJ \cup {None} /\ Top.name \in CHANNEL
  BY ThisCall DEF LeaveOut, At, CallOK, Call
<1>2. /\ ch \in Struct /\ ch.creator = Ch.creator /\ ch.fixed = Ch.fixed
      /\ ch.supervisor = Ch.supervisor
  BY <1>1 DEF Struct
<1>3. ASSUME NEW x \in Successors(ch)
      PROVE  /\ x \in Struct /\ x.creator = Ch.creator /\ x.fixed = Ch.fixed
             /\ Ch.fixed => x.supervisor \in {Ch.supervisor, Ch.creator}
  <2> HIDE DEF ch, o
  <2>1. [ch EXCEPT !.holes = FALSE] \in Struct
    BY <1>2 DEF Struct
  <2>2. \A m \in ch.members : [[ch EXCEPT !.holes = FALSE] EXCEPT !.supervisor = m] \in Struct
    BY <1>2 DEF Struct
  <2>3. \/ x = [ch EXCEPT !.holes = FALSE]
        \/ \E m \in ch.members : /\ ch.fixed => m = ch.creator
                                 /\ x = [[ch EXCEPT !.holes = FALSE] EXCEPT !.supervisor = m]
    BY DEF Successors
  <2>4. CASE x = [ch EXCEPT !.holes = FALSE]
    BY <1>2, <2>1, <2>4 DEF Struct
  <2>5. CASE \E m \in ch.members : /\ ch.fixed => m = ch.creator
                                   /\ x = [[ch EXCEPT !.holes = FALSE] EXCEPT !.supervisor = m]
    BY <1>2, <2>2, <2>5 DEF Struct
  <2> QED
    BY <2>3, <2>4, <2>5
<1>4. StackOK(closing, data) /\ alive \subseteq OBJ
  BY <1>1, ClosingOK, PushOK DEF WellFormed, TypeOK
<1>5. \/ Settle(With(ch), channels, Below) /\ UNCHANGED <<alive, files>>
      \/ \E x \in Successors(ch) : Settle(With(x), channels, Below) /\ UNCHANGED <<alive, files>>
      \/ \E s \in WithMasterNotice(closing, Top.name) :
            Settle(With(ch), channels, s) /\ UNCHANGED <<alive, files>>
      \/ Fails(With(ch))
  BY DEF LeaveOut
<1> HIDE DEF ch, closing, o
<1>6. CASE Settle(With(ch), channels, Below) /\ UNCHANGED <<alive, files>>
  <2>1. up' \in BOOLEAN
    BY <1>6 DEF files, WellFormed, TypeOK
  <2> QED
    BY <1>1, <1>2, <1>6, <2>1, MembersStep DEF files
<1>7. CASE \E x \in Successors(ch) : Settle(With(x), channels, Below) /\ UNCHANGED <<alive, files>>
  <2>1. PICK x \in Successors(ch) : Settle(With(x), channels, Below)
    BY <1>7
  <2>2. up' \in BOOLEAN
    BY <1>7 DEF files, WellFormed, TypeOK
  <2>3. /\ x \in Struct /\ x.creator = Ch.creator /\ x.fixed = Ch.fixed
        /\ Ch.fixed => x.supervisor \in {Ch.supervisor, Ch.creator}
    BY <1>3
  <2> QED
    BY <1>1, <1>7, <2>1, <2>2, <2>3, MembersStep DEF files
<1>8. CASE \E s \in WithMasterNotice(closing, Top.name) :
             Settle(With(ch), channels, s) /\ UNCHANGED <<alive, files>>
  <2>1. PICK s \in WithMasterNotice(closing, Top.name) : Settle(With(ch), channels, s)
    BY <1>8
  <2>2. up' \in BOOLEAN
    BY <1>8 DEF files, WellFormed, TypeOK
  <2>3. StackOK(s, data)
    BY <1>1, <1>4, WithMasterNoticeOK
  <2> QED
    BY <1>1, <1>2, <1>8, <2>1, <2>2, <2>3, MembersStep DEF files
<1>9. CASE Fails(With(ch))
  BY <1>1, <1>2, <1>9, FailsStep
<1> QED
  BY <1>5, <1>6, <1>7, <1>8, <1>9

LEMMA LeaveStep ==
  ASSUME WellFormed, NEW o \in OBJ, NEW n \in CHANNEL, Leave(o, n)
  PROVE  WellFormed' /\ Step
<1> DEFINE x == [ChannelOf(n) EXCEPT !.holes = FALSE]
           d == [data EXCEPT ![channels[n]] = x]
<1>1. n \in Active /\ channels[n] \in ID /\ ChannelOf(n) \in Struct /\ ChannelOf(n) # None
  BY ActiveFacts DEF Leave
<1>2. x \in Struct /\ x.creator = ChannelOf(n).creator /\ x.fixed = ChannelOf(n).fixed
      /\ x.supervisor = ChannelOf(n).supervisor
  BY <1>1 DEF Struct
<1>3. data' = d /\ data[channels[n]] = ChannelOf(n)
  BY DEF Leave, ChannelOf
<1> HIDE DEF x
<1>4. /\ d \in Structs /\ Faithful(d) /\ \A s : StackOK(s, data) => StackOK(s, d)
  BY <1>1, <1>2, <1>3, Updated
<1> HIDE DEF d
<1>5. ChannelsOK(channels, d)
  BY <1>4 DEF WellFormed, ChannelsOK, Faithful
<1>6. StackOK(stack', data)
  BY <1>1, AskingOK, PushOK DEF Leave, WellFormed
<1>7. /\ up' \in BOOLEAN /\ alive' \subseteq OBJ /\ channels' = channels
      /\ channelC' = channelC /\ channelH' = channelH /\ dirty' = dirty /\ saved' = saved
  BY DEF Leave, files, WellFormed, TypeOK
<1> QED
  BY <1>3, <1>4, <1>5, <1>6, <1>7, InPlace

\* The objects a call knows of may vanish.
LEMMA ForgottenOK ==
  ASSUME NEW d, NEW f, CallOK(f, d), NEW o
  PROVE  CallOK([f EXCEPT !.who = Gone(o, @), !.current = Gone(o, @), !.todo = @ \ {o}], d)
BY DEF CallOK, Call, Gone

LEMMA DestructStep ==
  ASSUME WellFormed, NEW o \in OBJ, Destruct(o)
  PROVE  WellFormed' /\ Step
<1> DEFINE Rest(x) == [x EXCEPT !.members = @ \ {o}, !.holes = @ \/ o \in x.members,
                                !.supervisor = Gone(o, @)]
           Known(f) == [f EXCEPT !.who = Gone(o, @), !.current = Gone(o, @),
                                 !.todo = @ \ {o}]
<1>1. /\ data' = [i \in ID |-> IF data[i] = None THEN None ELSE Rest(data[i])]
      /\ stack' = [k \in DOMAIN stack |-> Known(stack[k])]
  BY DEF Destruct
<1>2. ASSUME NEW x \in Struct
      PROVE  /\ Rest(x) \in Struct /\ Rest(x).creator = x.creator /\ Rest(x).fixed = x.fixed
             /\ Rest(x).supervisor \in {x.supervisor, None}
  BY DEF Struct, Gone
<1>3. \A f : CallOK(f, data) => CallOK(Known(f), data)
  BY ForgottenOK
<1> HIDE DEF Rest, Known
<1>4. data \in Structs
  BY Unchanged
<1>5. \A i \in ID : data[i] # None => data'[i] = Rest(data[i]) /\ data'[i] # None
  BY <1>1, <1>2, <1>4, NoneIsNoStruct DEF Structs
<1>6. data' \in Structs
  BY <1>1, <1>2, <1>4 DEF Structs
<1>7. Faithful(data')
  BY <1>2, <1>4, <1>5 DEF Faithful, Structs
<1>8. ChannelsOK(channels, data')
  BY <1>5 DEF WellFormed, ChannelsOK
<1>9. stack' \in Seq(Call) /\ DOMAIN stack' = DOMAIN stack
  <2>1. stack \in Seq(Call) /\ Len(stack) \in Nat /\ DOMAIN stack = 1..Len(stack)
    BY DEF WellFormed, StackOK
  <2>2. \A k \in 1..Len(stack) : Known(stack[k]) \in Call
    BY <1>3, <2>1 DEF WellFormed, StackOK, CallOK
  <2>3. stack' \in [1..Len(stack) -> Call]
    BY <1>1, <2>1, <2>2
  <2> QED
    BY <2>1, <2>3
<1>10. StackOK(stack', data)
  BY <1>1, <1>3, <1>9 DEF WellFormed, StackOK
<1>11. StackOK(stack', data')
  BY <1>5, <1>10, StackKept
<1>12. /\ up' \in BOOLEAN /\ alive' \subseteq OBJ /\ channels' = channels
       /\ channelC' = channelC /\ channelH' = channelH /\ dirty' = dirty /\ saved' = saved
  BY DEF Destruct, files, WellFormed, TypeOK
<1> QED
  BY <1>6, <1>7, <1>8, <1>11, <1>12, InPlace
-----------------------------------------------------------------------------
(***************************************************************************)
(* The actions by which a channel changes hands.                           *)
(***************************************************************************)

LEMMA HandingOver ==
  ASSUME WellFormed, NEW n \in Active, NEW x \in Struct,
         x.supervisor = ChannelOf(n).supervisor, HandedOver(n),
         data' = [data EXCEPT ![channels[n]] = x],
         UNCHANGED <<alive, channels, files, stack>>
  PROVE  WellFormed' /\ Step
<1>1. data \in Structs /\ channels[n] \in ID /\ n \in CHANNEL /\ x # None
  BY ActiveFacts, Unchanged, NoneIsNoStruct
<1>2. data' \in Structs /\ \A j \in ID : data'[j] = IF j = channels[n] THEN x ELSE data[j]
  BY <1>1 DEF Structs
<1>3. \A j \in ID : data[j] # None => data'[j] # None
  BY <1>1, <1>2
<1>4. ChannelsOK(channels', data')
  BY <1>3 DEF WellFormed, ChannelsOK
<1>5. StackOK(stack', data')
  BY <1>3, StackKept DEF WellFormed
<1>6. TypeOK' /\ Saved'
  BY <1>2 DEF WellFormed, TypeOK, files, Structs, Saved, Active
<1>7. ASSUME NEW m \in CHANNEL, Owner(m) # None
      PROVE  /\ Supervisor(m)' = Supervisor(m)
             /\ Owner(m)' = Owner(m) \/ HandedOver(m)
  <2>1. CASE m = n
    BY <1>1, <1>2, <2>1 DEF Active, ChannelOf, Supervisor
  <2>2. CASE m # n /\ m \in Active
    <3>1. channels[m] \in ID /\ channels[m] # channels[n]
      BY <2>2 DEF WellFormed, ChannelsOK, Active
    <3> QED
      BY <1>2, <2>2, <3>1 DEF Active, ChannelOf, Supervisor, Owner
  <2>3. CASE m \notin Active
    BY <2>3 DEF Active, Supervisor, Owner, files
  <2> QED
    BY <2>1, <2>2, <2>3
<1>8. Step
  BY <1>7 DEF Step, WellFormed, TypeOK
<1> QED
  BY <1>4, <1>5, <1>6, <1>8 DEF WellFormed

LEMMA TransferStep ==
  ASSUME WellFormed, NEW o \in OBJ, NEW n \in CHANNEL, NEW y \in OBJ, TransferOwnership(o, n, y)
  PROVE  WellFormed' /\ Step
<1> DEFINE x == [ChannelOf(n) EXCEPT !.creator = y]
<1>1. n \in Active /\ ChannelOf(n) \in Struct
  BY ActiveFacts DEF TransferOwnership
<1>2. x \in Struct /\ x.supervisor = ChannelOf(n).supervisor
  BY <1>1 DEF Struct
<1>3. HandedOver(n)
  BY DEF HandedOver
<1>4. data' = [data EXCEPT ![channels[n]] = x] /\ UNCHANGED <<alive, channels, files, stack>>
  BY DEF TransferOwnership, ChannelOf
<1> HIDE DEF x
<1> QED
  BY <1>1, <1>2, <1>3, <1>4, HandingOver

LEMMA FlagsStep ==
  ASSUME WellFormed, NEW o \in OBJ, NEW n \in CHANNEL, ChangeChannelFlags(o, n)
  PROVE  WellFormed' /\ Step
<1> DEFINE x == [ChannelOf(n) EXCEPT !.fixed = ~@]
<1>1. n \in Active /\ ChannelOf(n) \in Struct
  BY ActiveFacts DEF ChangeChannelFlags
<1>2. x \in Struct /\ x.supervisor = ChannelOf(n).supervisor
  BY <1>1 DEF Struct
<1>3. HandedOver(n)
  BY DEF HandedOver
<1>4. data' = [data EXCEPT ![channels[n]] = x] /\ UNCHANGED <<alive, channels, files, stack>>
  BY DEF ChangeChannelFlags, ChannelOf
<1> HIDE DEF x
<1> QED
  BY <1>1, <1>2, <1>3, <1>4, HandingOver
-----------------------------------------------------------------------------
(***************************************************************************)
(* The actions by which a channel begins and ends.                         *)
(***************************************************************************)

\* new() hands a dormant channel with a fixed supervisor to its owner only.
LEMMA OpenStep ==
  ASSUME WellFormed, NEW o \in OBJ, NEW n \in CHANNEL, NEW fixed \in BOOLEAN,
         NEW s, StackOK(s, data), MayOpen(o, n), Open(o, n, fixed, s), alive' \subseteq OBJ
  PROVE  WellFormed' /\ Step
<1> DEFINE i == CHOOSE j \in ID : data[j] = None
           x == Opened(o, n, fixed)
           d == [data EXCEPT ![i] = x]
           c == [channels EXCEPT ![n] = i]
<1>1. i \in ID /\ data[i] = None
  BY DEF Open
<1>2. PICK t \in WithMasterNotice(s, n) : Settle(d, c, t)
  BY DEF Open
<1>3. /\ channelC' = [channelC EXCEPT ![n] = None] /\ channelH' = channelH \cup {n}
      /\ up' = up /\ dirty' = dirty /\ saved' = saved
  BY DEF Open
<1>4. /\ data \in Structs /\ channels \in [CHANNEL -> ID \cup {Nothing}]
      /\ channelC \in [CHANNEL -> Base \cup {None}]
  BY Unchanged DEF WellFormed, TypeOK
<1>5. n \notin Active /\ (n \in Dormant /\ channelC[n].fixed => channelC[n].creator = o)
  BY DEF MayOpen
<1>6. x \in Struct /\ x.supervisor = o /\ (n \in Dormant => x.creator = channelC[n].creator
                                                        /\ x.fixed = channelC[n].fixed)
  BY <1>4 DEF Opened, Struct, Base, Dormant
<1> HIDE DEF i, x
<1>7. d \in Structs /\ \A j \in ID : d[j] = IF j = i THEN x ELSE data[j]
  BY <1>1, <1>4, <1>6 DEF Structs
<1>8. c \in [CHANNEL -> ID \cup {Nothing}] /\ \A m \in CHANNEL : c[m] = IF m = n THEN i ELSE channels[m]
  BY <1>1, <1>4
<1>9. x # None
  BY <1>6, NoneIsNoStruct
<1>10. \A m \in CHANNEL : channels[m] # Nothing => channels[m] \in ID /\ channels[m] # i
  BY <1>1, <1>4 DEF WellFormed, ChannelsOK
<1> HIDE DEF c, d
<1>11. ChannelsOK(c, d)
  BY <1>7, <1>8, <1>9, <1>10 DEF WellFormed, ChannelsOK
<1>12. StackOK(s, d)
  BY <1>7, <1>9, StackKept
<1>13. StackOK(t, d)
  BY <1>12, WithMasterNoticeOK DEF WellFormed, TypeOK
<1>14. /\ channels' = c /\ stack' = t /\ data' \in Structs
       /\ \A m \in CHANNEL : c[m] # Nothing => data'[c[m]] = d[c[m]]
       /\ ChannelsOK(channels', data') /\ StackOK(stack', data')
  BY <1>2, <1>7, <1>11, <1>13, SettleFacts
<1>15. TypeOK'
  BY <1>3, <1>4, <1>8, <1>14 DEF WellFormed, TypeOK, Structs, StackOK
<1>16. i # Nothing /\ n \in Active' /\ \A m \in CHANNEL \ {n} : m \in Active' <=> m \in Active
  BY <1>1, <1>8, <1>14, IDs DEF Active
<1>17. Saved'
  <2> SUFFICES ASSUME ~dirty', NEW m \in channelH', m \notin Active'
               PROVE  saved'[m] = channelC'[m]
    BY DEF Saved
  <2>1. m \in channelH /\ m \in CHANNEL /\ m # n /\ m \notin Active /\ ~dirty
    BY <1>3, <1>16 DEF WellFormed, TypeOK
  <2> QED
    BY <1>3, <1>4, <2>1 DEF WellFormed, Saved
<1>18. ASSUME NEW m \in CHANNEL, Owner(m) # None
       PROVE  /\ Supervisor(m)' \in {Supervisor(m), Owner(m), None}
              /\ Owner(m)' = Owner(m)
  <2>1. CASE m = n
    <3>1. n \in Dormant /\ channelC[n].fixed /\ Owner(n) = channelC[n].creator
      BY <1>5, <1>18, <2>1 DEF Owner, Dormant
    <3>2. ChannelOf(n)' = x
      BY <1>7, <1>8, <1>14, <1>16, <1>1 DEF ChannelOf
    <3>3. Owner(n)' = x.creator /\ Supervisor(n)' = o
      BY <1>6, <1>9, <1>16, <3>1, <3>2 DEF Owner, Supervisor
    <3> QED
      BY <1>5, <1>6, <2>1, <3>1, <3>3
  <2>2. CASE m # n /\ m \in Active
    <3>1. ChannelOf(m)' = ChannelOf(m) /\ m \in Active'
      BY <1>7, <1>8, <1>10, <1>14, <1>16, <2>2 DEF ChannelOf, Active
    <3> QED
      BY <2>2, <3>1 DEF Owner, Supervisor
  <2>3. CASE m # n /\ m \notin Active
    <3>1. channelC'[m] = channelC[m] /\ m \notin Active'
      BY <1>3, <1>4, <1>16, <2>3
    <3> QED
      BY <2>3, <3>1 DEF Owner, Supervisor
  <2> QED
    BY <2>1, <2>2, <2>3
<1>19. Step
  BY <1>18 DEF Step, WellFormed, TypeOK
<1> QED
  BY <1>14, <1>15, <1>17, <1>19 DEF WellFormed

LEMMA NewStep ==
  ASSUME WellFormed, NEW o \in OBJ, NEW n \in CHANNEL, New(o, n)
  PROVE  WellFormed' /\ Step
<1>1. PICK fixed \in BOOLEAN : Open(o, n, fixed, stack)
  BY DEF New
<1>2. MayOpen(o, n) /\ alive' \subseteq OBJ /\ StackOK(stack, data)
  BY DEF New, WellFormed, TypeOK
<1> QED
  BY <1>1, <1>2, OpenStep

LEMMA SetupStep ==
  ASSUME WellFormed, Setup
  PROVE  WellFormed' /\ Step
<1> DEFINE n == Top.name
<1>1. /\ stack # <<>> /\ StackOK(Below, data) /\ n \in DOMAIN Defaults /\ n \in CHANNEL
  BY ThisCall DEF Setup, At, CallOK, Call
<1>2. /\ Defaults[n] \in [creator : Loadable, fixed : BOOLEAN] /\ Loadable \subseteq OBJ
  BY <1>1, ConstantsAssumption DEF ConstantsAssumption
<1>3. Defaults[n].creator \in OBJ /\ Defaults[n].fixed \in BOOLEAN /\ alive \subseteq OBJ
  BY <1>2 DEF WellFormed, TypeOK
<1>4. CASE MayOpen(Defaults[n].creator, n)
  <2>1. Open(Defaults[n].creator, n, Defaults[n].fixed, Below) /\ alive' \subseteq OBJ
    BY <1>3, <1>4 DEF Setup
  <2> QED
    BY <1>1, <1>3, <1>4, <2>1, OpenStep
<1>5. CASE ~MayOpen(Defaults[n].creator, n)
  <2>1. /\ Settle(data, channels, Below) /\ alive' \subseteq OBJ /\ UNCHANGED files
    BY <1>3, <1>5 DEF Setup
  <2> QED
    BY <1>1, <2>1, SettleAsIs DEF files, WellFormed, TypeOK
<1> QED
  BY <1>4, <1>5

LEMMA DeactivateStep ==
  ASSUME WellFormed, Deactivate
  PROVE  WellFormed' /\ Step
<1> DEFINE n == Top.name
           c == [channels EXCEPT ![n] = Nothing]
<1>1. stack # <<>> /\ StackOK(Below, data) /\ n \in CHANNEL
  BY ThisCall DEF Deactivate, At, Call
<1>2. CASE Settle(data, channels, Below) /\ UNCHANGED <<alive, files>>
  BY <1>1, <1>2, SettleAsIs DEF files, WellFormed, TypeOK
<1>3. CASE Fails(data)
  BY <1>3, FailsAsIs
<1>4. CASE /\ n \in Active
           /\ channelC' = [channelC EXCEPT ![n] =
                 [creator |-> ChannelOf(n).creator, fixed |-> ChannelOf(n).fixed]]
           /\ dirty' = TRUE
           /\ Settle(data, c, Below)
           /\ UNCHANGED <<up, alive, channelH, saved>>
  <2>1. n \in Active /\ channels[n] \in ID /\ ChannelOf(n) \in Struct /\ ChannelOf(n) # None
    BY <1>4, ActiveFacts
  <2>2. /\ data \in Structs /\ channels \in [CHANNEL -> ID \cup {Nothing}]
        /\ channelC \in [CHANNEL -> Base \cup {None}]
    BY Unchanged DEF WellFormed, TypeOK
  <2> DEFINE b == [creator |-> ChannelOf(n).creator, fixed |-> ChannelOf(n).fixed]
  <2>3. b \in Base /\ b # None /\ b.creator = ChannelOf(n).creator /\ b.fixed = ChannelOf(n).fixed
    <3>1. b \in Base
      BY <2>1 DEF Base, Struct
    <3> QED
      BY <3>1, NoneIsNoStruct
  <2>4. channelC' = [channelC EXCEPT ![n] = b] /\ Settle(data, c, Below)
    BY <1>4
  <2> HIDE DEF b
  <2>5. c \in [CHANNEL -> ID \cup {Nothing}] /\ \A m \in CHANNEL : c[m] = IF m = n THEN Nothing ELSE channels[m]
    BY <2>2
  <2> HIDE DEF c
  <2>6. ChannelsOK(c, data)
    BY <2>5 DEF WellFormed, ChannelsOK
  <2>7. /\ channels' = c /\ stack' = Below /\ data' \in Structs
        /\ \A m \in CHANNEL : c[m] # Nothing => data'[c[m]] = data[c[m]]
        /\ ChannelsOK(channels', data') /\ StackOK(stack', data')
    BY <1>1, <2>2, <2>4, <2>6, SettleFacts
  <2>8. TypeOK'
    BY <1>4, <2>2, <2>3, <2>4, <2>5, <2>7 DEF WellFormed, TypeOK, Structs, StackOK
  <2>9. Saved'
    BY <1>4 DEF Saved
  <2>10. ASSUME NEW m \in CHANNEL, Owner(m) # None
         PROVE  /\ Supervisor(m)' \in {Supervisor(m), Owner(m), None}
                /\ Owner(m)' = Owner(m)
    <3>1. CASE m = n
      <4>1. n \notin Active' /\ channelC'[n] = b
        BY <1>1, <2>2, <2>4, <2>5, <2>7 DEF Active
      <4> QED
        BY <2>1, <2>3, <3>1, <4>1 DEF Owner, Supervisor
    <3>2. CASE m # n /\ m \in Active
      <4>1. m \in Active' /\ ChannelOf(m)' = ChannelOf(m)
        BY <2>5, <2>7, <3>2 DEF Active, ChannelOf
      <4> QED
        BY <3>2, <4>1 DEF Owner, Supervisor
    <3>3. CASE m # n /\ m \notin Active
      <4>1. m \notin Active' /\ channelC'[m] = channelC[m]
        BY <2>2, <2>4, <2>5, <2>7, <3>3 DEF Active
      <4> QED
        BY <3>3, <4>1 DEF Owner, Supervisor
    <3> QED
      BY <3>1, <3>2, <3>3
  <2>11. Step
    BY <2>10 DEF Step, WellFormed, TypeOK
  <2> QED
    BY <2>7, <2>8, <2>9, <2>11 DEF WellFormed
<1> QED
  BY <1>2, <1>3, <1>4 DEF Deactivate, Remembered

\* The history goes with the channel.
LEMMA DeleteStep ==
  ASSUME WellFormed, Delete
  PROVE  WellFormed' /\ Step
<1> DEFINE n == Top.name
           c == [channels EXCEPT ![n] = Nothing]
<1>1. stack # <<>> /\ StackOK(Below, data) /\ n \in CHANNEL
  BY ThisCall DEF Delete, At, Call
<1>2. CASE Fails(data)
  BY <1>2, FailsAsIs
<1>3. CASE /\ channelC' = [channelC EXCEPT ![n] = None]
           /\ channelH' = channelH \ {n}
           /\ dirty' = TRUE
           /\ Settle(data, c, Below)
           /\ UNCHANGED <<up, alive, saved>>
  <2>1. /\ data \in Structs /\ channels \in [CHANNEL -> ID \cup {Nothing}]
        /\ channelC \in [CHANNEL -> Base \cup {None}]
    BY Unchanged DEF WellFormed, TypeOK
  <2>2. c \in [CHANNEL -> ID \cup {Nothing}] /\ \A m \in CHANNEL : c[m] = IF m = n THEN Nothing ELSE channels[m]
    BY <2>1
  <2>3. Settle(data, c, Below)
    BY <1>3
  <2> HIDE DEF c
  <2>4. ChannelsOK(c, data)
    BY <2>2 DEF WellFormed, ChannelsOK
  <2>5. /\ channels' = c /\ stack' = Below /\ data' \in Structs
        /\ \A m \in CHANNEL : c[m] # Nothing => data'[c[m]] = data[c[m]]
        /\ ChannelsOK(channels', data') /\ StackOK(stack', data')
    BY <1>1, <2>1, <2>3, <2>4, SettleFacts
  <2>6. TypeOK'
    BY <1>3, <2>1, <2>2, <2>5 DEF WellFormed, TypeOK, Structs, StackOK
  <2>7. Saved'
    BY <1>3 DEF Saved
  <2>8. ASSUME NEW m \in CHANNEL, m # n
        PROVE  Supervisor(m)' = Supervisor(m) /\ Owner(m)' = Owner(m)
    <3>1. CASE m \in Active
      <4>1. m \in Active' /\ ChannelOf(m)' = ChannelOf(m)
        BY <2>2, <2>5, <2>8, <3>1 DEF Active, ChannelOf
      <4> QED
        BY <3>1, <4>1 DEF Owner, Supervisor
    <3>2. CASE m \notin Active
      <4>1. m \notin Active' /\ channelC'[m] = channelC[m]
        BY <1>3, <2>1, <2>2, <2>5, <2>8, <3>2 DEF Active
      <4> QED
        BY <3>2, <4>1 DEF Owner, Supervisor
    <3> QED
      BY <3>1, <3>2
  <2>9. Step
    BY <1>3, <2>8 DEF Step, WellFormed, TypeOK
  <2> QED
    BY <2>5, <2>6, <2>7, <2>9 DEF WellFormed
<1> QED
  BY <1>2, <1>3 DEF Delete

\* What changes only what is dormant, where there is no history any more
LEMMA FilesStep ==
  ASSUME WellFormed, UNCHANGED <<channels, data>>, StackOK(stack', data),
         up' \in BOOLEAN, dirty' \in BOOLEAN, alive' \subseteq OBJ, channelH' \subseteq CHANNEL,
         channelC' \in [CHANNEL -> Base \cup {None}], saved' \in [CHANNEL -> Base \cup {None}],
         ~dirty' => \A n \in channelH' : n \notin Active => saved'[n] = channelC'[n],
         \A n \in channelH \cap channelH' :
           n \notin Active => Unsaved \/ channelC'[n] = channelC[n]
  PROVE  WellFormed' /\ Step
<1>1. ChannelsOK(channels', data') /\ StackOK(stack', data')
  BY DEF WellFormed
<1>2. TypeOK'
  BY DEF WellFormed, TypeOK, StackOK
<1>3. Active' = Active
  BY DEF Active
<1>4. Saved'
  BY <1>3 DEF Saved
<1>5. Step
  <2> SUFFICES ASSUME NEW n \in channelH \cap channelH', Owner(n) # None, ~Unsaved
               PROVE  Supervisor(n)' = Supervisor(n) /\ Owner(n)' = Owner(n)
    BY DEF Step
  <2>1. n \notin Active => channelC'[n] = channelC[n]
    OBVIOUS
  <2> QED
    BY <1>3, <2>1 DEF Owner, Supervisor, ChannelOf
<1> QED
  BY <1>1, <1>2, <1>4, <1>5 DEF WellFormed

LEMMA ResetStep ==
  ASSUME WellFormed, Reset
  PROVE  WellFormed' /\ Step
<1>1. PICK old \in SUBSET Dormant :
        /\ channelC' = [n \in CHANNEL |-> IF n \in old THEN None ELSE channelC[n]]
        /\ channelH' = channelH \ old
  BY DEF Reset
<1>2. /\ StackOK(stack', data) /\ up' \in BOOLEAN /\ alive' \subseteq OBJ /\ dirty' = FALSE
      /\ channelH' \subseteq CHANNEL /\ UNCHANGED <<channels, data>>
  BY <1>1 DEF Reset, WellFormed, TypeOK
<1>3. channelC' \in [CHANNEL -> Base \cup {None}] /\ saved' \in [CHANNEL -> Base \cup {None}]
  BY <1>1 DEF Reset, WellFormed, TypeOK
<1>4. \A n \in channelH' : n \in channelH /\ channelC'[n] = channelC[n]
  BY <1>1 DEF WellFormed, TypeOK
<1>5. \A n \in channelH' : n \notin Active => saved'[n] = channelC'[n]
  BY <1>4 DEF Reset, WellFormed, Saved
<1> QED
  BY <1>2, <1>3, <1>4, <1>5, FilesStep

LEMMA UnloadStep ==
  ASSUME WellFormed, Unload
  PROVE  WellFormed' /\ Step
<1>1. /\ StackOK(stack', data) /\ up' \in BOOLEAN /\ alive' \subseteq OBJ /\ dirty' = FALSE
      /\ channelH' = channelH /\ channelC' = channelC /\ UNCHANGED <<channels, data>>
      /\ channelH' \subseteq CHANNEL
  BY DEF Unload, WellFormed, TypeOK
<1>2. channelC' \in [CHANNEL -> Base \cup {None}] /\ saved' \in [CHANNEL -> Base \cup {None}]
  BY DEF Unload, WellFormed, TypeOK
<1>3. \A n \in channelH' : n \notin Active => saved'[n] = channelC'[n]
  BY DEF Unload, WellFormed, Saved
<1> QED
  BY <1>1, <1>2, <1>3, FilesStep

\* create() has finitely many channels to see to.
LEMMA CreationsOK ==
  ASSUME WellFormed, NEW s \in Creations
  PROVE  StackOK(s, data)
<1> DEFINE Missing == DOMAIN Defaults \ Active
           F == [n \in Missing |-> CallOf("setup", None, n, "setup")]
           G == [n \in Active |-> CallOf("wake", None, n, "wake")]
           A == {CallOf("setup", None, n, "setup") : n \in Missing}
           B == {CallOf("wake", None, n, "wake") : n \in Active}
           frames == A \cup B
<1>1. Missing \in SUBSET CHANNEL /\ Active \in SUBSET CHANNEL /\ IsFiniteSet(CHANNEL)
  BY ConstantsAssumption DEF ConstantsAssumption, Active
<1>2. IsFiniteSet(Missing) /\ IsFiniteSet(Active)
  BY <1>1, FS_Subset
<1>3. F \in Surjection(Missing, A) /\ G \in Surjection(Active, B)
  BY DEF Surjection
<1>4. \A f \in frames : CallOK(f, data)
  BY <1>1, CallOfOK
<1>5. s \in [1..Cardinality(frames) -> frames]
  BY DEF Creations
<1> HIDE DEF F, G, A, B, Missing
<1>6. IsFiniteSet(A) /\ IsFiniteSet(B)
  BY <1>2, <1>3, FS_Surjection
<1>7. Cardinality(frames) \in Nat
  BY <1>6, FS_Union, FS_CardinalityType
<1> HIDE DEF frames
<1>8. \A f \in frames : f \in Call
  BY <1>4 DEF CallOK
<1>9. s \in Seq(Call) /\ DOMAIN s = 1..Cardinality(frames)
  BY <1>5, <1>7, <1>8
<1> QED
  BY <1>4, <1>5, <1>9 DEF StackOK

LEMMA LoadStep ==
  ASSUME WellFormed, Load
  PROVE  WellFormed' /\ Step
<1>1. StackOK(stack', data)
  BY CreationsOK DEF Load
<1>2. /\ up' \in BOOLEAN /\ alive' \subseteq OBJ /\ dirty' = FALSE /\ ~up
      /\ channelH' = channelH /\ channelC' = saved /\ saved' = saved
      /\ channelH' \subseteq CHANNEL /\ saved \in [CHANNEL -> Base \cup {None}]
      /\ UNCHANGED <<channels, data>>
  BY DEF Load, WellFormed, TypeOK
<1>3. \A n \in channelH \cap channelH' : n \notin Active => Unsaved \/ channelC'[n] = channelC[n]
  BY <1>2 DEF WellFormed, Saved, Unsaved
<1> QED
  BY <1>1, <1>2, <1>3, FilesStep

LEMMA RebootStep ==
  ASSUME WellFormed, Reboot
  PROVE  WellFormed' /\ Step
<1>1. /\ channels' = [n \in CHANNEL |-> Nothing] /\ data' = [i \in ID |-> None]
      /\ channelH' = {} /\ up' = FALSE /\ alive' = {} /\ dirty' = FALSE /\ stack' = <<>>
  BY DEF Reboot
<1>2. saved' \in [CHANNEL -> Base \cup {None}] /\ channelC' = saved'
  BY DEF Reboot, WellFormed, TypeOK
<1>3. TypeOK'
  <2>1. /\ channels' \in [CHANNEL -> ID \cup {Nothing}]
        /\ data' \in [ID -> Struct \cup {None}] /\ stack' \in Seq(Call)
    BY <1>1
  <2> QED
    BY <1>1, <1>2, <2>1 DEF TypeOK
<1>4. ChannelsOK(channels', data') /\ StackOK(stack', data')
  BY <1>1, EmptyOK DEF ChannelsOK
<1>5. Saved' /\ Step
  BY <1>1 DEF Saved, Step
<1> QED
  BY <1>3, <1>4, <1>5 DEF WellFormed
-----------------------------------------------------------------------------
LEMMA InitWellFormed == Init => WellFormed
<1> SUFFICES ASSUME Init PROVE WellFormed
  OBVIOUS
<1>1. TypeOK
  <2>1. /\ channels \in [CHANNEL -> ID \cup {Nothing}]
        /\ data \in [ID -> Struct \cup {None}] /\ stack \in Seq(Call)
        /\ channelC \in [CHANNEL -> Base \cup {None}]
    BY DEF Init
  <2>2. up \in BOOLEAN /\ dirty \in BOOLEAN /\ alive \subseteq OBJ /\ saved = channelC
        /\ channelH \subseteq CHANNEL
    BY DEF Init
  <2> QED
    BY <2>1, <2>2 DEF TypeOK
<1>2. ChannelsOK(channels, data) /\ StackOK(stack, data)
  BY EmptyOK DEF Init, ChannelsOK
<1>3. Saved
  BY DEF Init, Saved
<1> QED
  BY <1>1, <1>2, <1>3 DEF WellFormed

LEMMA NextWellFormed ==
  ASSUME WellFormed, [Next]_vars
  PROVE  WellFormed' /\ (Step \/ UNCHANGED vars)
<1>1. ASSUME NEW o \in OBJ, NEW n \in CHANNEL, Ask(o, n)
      PROVE  WellFormed' /\ Step
  <2>1. CASE Join(o, n)
    BY <2>1, RequestStep DEF Join
  <2>2. CASE Look(o, n)
    BY <2>2, RequestStep DEF Look
  <2>3. CASE \E x \in OBJ : TransferOwnership(o, n, x)
    BY <2>3, TransferStep
  <2> QED
    BY <1>1, <2>1, <2>2, <2>3, LeaveStep, NewStep, RemoveStep, FlagsStep DEF Ask
<1>2. ASSUME NEW o \in OBJ, Deliver(o) \/ Destruct(o) \/ Appear(o)
      PROVE  WellFormed' /\ Step
  BY <1>2, DeliverStep, DestructStep, AppearStep
<1>3. ASSUME Access PROVE WellFormed' /\ Step
  BY <1>3, WakeStep, ReloadStep, ElectStep, GiveUpStep DEF Access
<1>4. ASSUME Refuse \/ Carry PROVE WellFormed' /\ Step
  BY <1>4, RefuseStep, JoinInStep, LeaveOutStep, LookDoneStep DEF Carry
<1>5. ASSUME Return \/ ListenerFails \/ Delivered PROVE WellFormed' /\ Step
  BY <1>5, ReturnStep, ListenerFailsStep, DeliveredStep
<1>6. ASSUME TooMany \/ Deactivate \/ Delete PROVE WellFormed' /\ Step
  BY <1>6, TooManyStep, DeactivateStep, DeleteStep
<1>7. ASSUME Reset \/ Unload \/ Load \/ Setup \/ Reboot PROVE WellFormed' /\ Step
  BY <1>7, ResetStep, UnloadStep, LoadStep, SetupStep, RebootStep
<1>8. ASSUME UNCHANGED vars PROVE WellFormed'
  BY <1>8 DEF vars, WellFormed, TypeOK, Saved, Active
<1> QED
  BY <1>1, <1>2, <1>3, <1>4, <1>5, <1>6, <1>7, <1>8 DEF Next

LEMMA AlwaysWellFormed == Spec => []WellFormed
BY InitWellFormed, NextWellFormed, PTL DEF Spec

\* Every struct, entry and call has its type, in whatever order listeners join,
\* leave, vanish and act inside the messages they get: what JoinIn(), LeaveOut()
\* and the others work on is a struct that is there (1046-1136).
THEOREM TypeCorrect == Spec => []TypeOK
<1>1. WellFormed => TypeOK
  BY DEF WellFormed
<1> QED
  BY <1>1, AlwaysWellFormed, PTL

\* Nobody takes over a channel with a fixed supervisor and its history, for any
\* channels, objects and limits (809 ff., 950-973).
THEOREM NobodyTakesOver == Spec => NoTakeover
<1>1. WellFormed /\ [Next]_vars =>
        [\A n \in channelH \cap channelH' :
           Owner(n) # None /\ ~Unsaved =>
             /\ Supervisor(n)' \in {Supervisor(n), Owner(n), None}
             /\ Owner(n)' = Owner(n) \/ HandedOver(n)]_vars
  BY NextWellFormed DEF Step
<1> QED
  BY <1>1, AlwaysWellFormed, PTL DEF Spec, NoTakeover
-----------------------------------------------------------------------------
(***************************************************************************)
(* The end of a channel.  Between the access that finds no supervisor and  *)
(* deactivate_channel() with force nobody else's code runs: a call that is *)
(* there is the innermost one, and what it has found still holds.          *)
(***************************************************************************)

\* Looking for a supervisor, or giving the channel up for want of one
AtOnce(f) == f.pc = "access" \/ (f.pc = "close" /\ f.force)
Quiet(s) == \A k \in DOMAIN s : ~AtOnce(s[k])

\* What makes GiveUp close the channel n with whoever listens to it
Forsaken(n) ==
  \/ ChannelOf(n).members = {}
  \/ ChannelOf(n).fixed /\ ChannelOf(n).creator \notin alive \cup Loadable

\* The struct that an access looks at is the one that is active, and a channel
\* that is closed by force has been found forsaken.
Decided ==
  /\ stack # <<>> => Quiet(Below)
  /\ At("access") => Top.ch = channels[Top.name]
  /\ At("close") /\ Top.force /\ Top.name \in Active => Forsaken(Top.name)

LEMMA QuietOnTop ==
  ASSUME NEW s \in Seq(Call), NEW f, Quiet(s), ~AtOnce(f)
  PROVE  Quiet(<<f>> \o s)
<1> DEFINE t == <<f>> \o s
<1> SUFFICES ASSUME NEW k \in DOMAIN t PROVE ~AtOnce(t[k])
  BY DEF Quiet
<1>1. k = 1 \/ k - 1 \in DOMAIN s
  OBVIOUS
<1>2. t[k] = IF k = 1 THEN f ELSE s[k - 1]
  OBVIOUS
<1> QED
  BY <1>1, <1>2 DEF Quiet

LEMMA NothingQuiet == Quiet(<<>>)
BY DEF Quiet

LEMMA Innermost ==
  ASSUME NEW s \in Seq(Call), s # <<>>
  PROVE  /\ Head(s) \in Call /\ Head(s) = s[1] /\ 1 \in DOMAIN s
         /\ Tail(s) \in Seq(Call) /\ s = <<Head(s)>> \o Tail(s)
         /\ Quiet(s) => Quiet(Tail(s)) /\ ~AtOnce(Head(s))
<1>1. Head(s) \in Call /\ Head(s) = s[1] /\ 1 \in DOMAIN s /\ Tail(s) \in Seq(Call)
  OBVIOUS
<1>2. s = <<Head(s)>> \o Tail(s)
  OBVIOUS
<1>3. \A k \in DOMAIN Tail(s) : k + 1 \in DOMAIN s /\ Tail(s)[k] = s[k + 1]
  OBVIOUS
<1> QED
  BY <1>1, <1>2, <1>3 DEF Quiet

\* What the calls going on are, once more
LEMMA Frames ==
  ASSUME WellFormed
  PROVE  /\ stack \in Seq(Call)
         /\ stack # <<>> => Top \in Call /\ Below \in Seq(Call) /\ stack = <<Top>> \o Below
BY Innermost DEF WellFormed, StackOK, Top, Below

\* While others act, nothing is being closed.
LEMMA OthersQuiet ==
  ASSUME WellFormed, Decided, OthersRun
  PROVE  Quiet(stack)
<1>1. CASE stack = <<>>
  BY <1>1, NothingQuiet
<1>2. CASE stack # <<>>
  <2>1. Top.pc = "called" /\ Quiet(Below)
    BY <1>2 DEF OthersRun, At, Decided
  <2>2. ~AtOnce(Top)
    BY <2>1 DEF AtOnce
  <2> QED
    BY <1>2, <2>1, <2>2, Frames, QuietOnTop
<1> QED
  BY <1>1, <1>2

LEMMA ActsQuiet ==
  ASSUME WellFormed, Decided, NEW o, Acts(o)
  PROVE  Quiet(stack)
BY OthersQuiet DEF Acts, OthersRun

\* The new calls are quiet,
LEMMA DecidedQuiet ==
  ASSUME stack' \in Seq(Call), Quiet(stack')
  PROVE  Decided'
<1>1. stack' # <<>> => Quiet(Below') /\ ~AtOnce(Top')
  BY Innermost DEF Top, Below
<1> QED
  BY <1>1 DEF Decided, At, AtOnce

\* or the access to a channel that is active is the innermost.
LEMMA DecidedAsking ==
  ASSUME NEW s \in Seq(Call), Quiet(s), NEW op, NEW o, NEW n,
         Asking(op, o, n) \in Call, stack' = <<Asking(op, o, n)>> \o s,
         channels' = channels
  PROVE  Decided'
<1> DEFINE f == Asking(op, o, n)
<1>1. f.ch = channels[n] /\ f.name = n /\ f.pc \in {"access", "granted"}
  BY DEF Asking, CallOf
<1>2. Top' = f /\ Below' = s
  <2> HIDE DEF f
  <2>1. f \in Call /\ stack' = <<f>> \o s
    BY DEF f
  <2>2. Head(<<f>> \o s) = f /\ Tail(<<f>> \o s) = s
    BY <2>1
  <2> QED
    BY <2>1, <2>2 DEF Top, Below
<1> HIDE DEF f
<1> QED
  BY <1>1, <1>2 DEF Decided, At

LEMMA WithNoticeQuiet ==
  ASSUME NEW s \in Seq(Call), Quiet(s), NEW n, NEW d, NEW X,
         NEW t \in WithNotice(s, n, d, X)
  PROVE  Quiet(t)
<1>1. CASE t = s
  BY <1>1
<1>2. CASE t # s
  <2>1. PICK x \in X : t = <<Message("notice", x, n, d[channels[n]].members)>> \o s
    BY <1>2 DEF WithNotice
  <2> DEFINE f == Message("notice", x, n, d[channels[n]].members)
  <2>2. ~AtOnce(f)
    BY DEF AtOnce, Message, CallOf
  <2> HIDE DEF f
  <2>3. t = <<f>> \o s
    BY <2>1 DEF f
  <2> QED
    BY <2>2, <2>3, QuietOnTop
<1> QED
  BY <1>1, <1>2

LEMMA WithMasterNoticeQuiet ==
  ASSUME NEW s \in Seq(Call), Quiet(s), NEW n, NEW t \in WithMasterNotice(s, n)
  PROVE  Quiet(t)
<1>1. CASE t = s
  BY <1>1
<1>2. CASE t # s
  <2>1. PICK o \in alive : t = <<Message("master", None, n, {o})>> \o s
    BY <1>2 DEF WithMasterNotice
  <2> DEFINE f == Message("master", None, n, {o})
  <2>2. ~AtOnce(f)
    BY DEF AtOnce, Message, CallOf
  <2> HIDE DEF f
  <2>3. t = <<f>> \o s
    BY <2>1 DEF f
  <2> QED
    BY <2>2, <2>3, QuietOnTop
<1> QED
  BY <1>1, <1>2

LEMMA GotoQuiet ==
  ASSUME WellFormed, Decided, stack # <<>>, NEW pc \in {"granted", "delete"}
  PROVE  Goto(pc) \in Seq(Call) /\ Quiet(Goto(pc))
<1> DEFINE f == [Top EXCEPT !.pc = pc]
<1>1. f \in Call /\ f.pc = pc
  BY Frames DEF Call
<1> HIDE DEF f
<1>2. ~AtOnce(f) /\ Quiet(Below) /\ Goto(pc) = <<f>> \o Below
  BY <1>1 DEF AtOnce, Decided, Goto, f
<1>3. <<f>> \o Below \in Seq(Call)
  BY <1>1, Frames
<1> QED
  BY <1>2, <1>3, Frames, QuietOnTop

\* The channels stay, and the calls become quiet ones.
Calmly == channels' = channels /\ stack' \in Seq(Call) /\ Quiet(stack')

LEMMA CalmlyDecided == Calmly => Decided'
BY DecidedQuiet DEF Calmly

LEMMA SettleCalmly ==
  ASSUME NEW d, NEW s \in Seq(Call), Quiet(s), Settle(d, channels, s)
  PROVE  Calmly
BY DEF Settle, Calmly

LEMMA FailsCalmly ==
  ASSUME NEW d, Fails(d)
  PROVE  Calmly
<1>1. <<>> \in Seq(Call)
  OBVIOUS
<1> QED
  BY <1>1, NothingQuiet, SettleCalmly DEF Fails

\* What the innermost call leaves when it ends
LEMMA BelowQuiet ==
  ASSUME WellFormed, Decided, stack # <<>>
  PROVE  Below \in Seq(Call) /\ Quiet(Below)
BY Frames DEF Decided

LEMMA EndCalmly ==
  ASSUME WellFormed, Decided, stack # <<>>, NEW d, Settle(d, channels, Below)
  PROVE  Calmly
BY BelowQuiet, SettleCalmly

LEMMA LeaveDecided ==
  ASSUME WellFormed, Decided, NEW o \in OBJ, NEW n \in CHANNEL, Leave(o, n)
  PROVE  Decided' /\ channels' = channels
<1>1. stack \in Seq(Call) /\ Quiet(stack) /\ n \in Active
  BY Frames, ActsQuiet DEF Leave
<1>2. CASE o \in ChannelOf(n).members
  <2>1. Asking("leave", o, n) \in Call
    BY <1>1, AskingOK DEF CallOK
  <2>2. stack' = <<Asking("leave", o, n)>> \o stack /\ channels' = channels
    BY <1>2 DEF Leave
  <2> QED
    BY <1>1, <2>1, <2>2, DecidedAsking
<1>3. CASE o \notin ChannelOf(n).members
  BY <1>1, <1>3, DecidedQuiet DEF Leave
<1> QED
  BY <1>2, <1>3

LEMMA RequestDecided ==
  ASSUME WellFormed, Decided, NEW op \in {"join", "look"}, NEW o \in OBJ,
         NEW n \in CHANNEL, Request(op, o, n)
  PROVE  Decided' /\ channels' = channels
<1>1. stack \in Seq(Call) /\ Quiet(stack) /\ n \in Active
  BY Frames, ActsQuiet DEF Request
<1>2. Asking(op, o, n) \in Call
  BY <1>1, AskingOK DEF CallOK
<1> QED
  BY <1>1, <1>2, DecidedAsking DEF Request

LEMMA WakeDecided ==
  ASSUME WellFormed, Decided, Wake
  PROVE  Decided' /\ channels' = channels
<1>1. Below \in Seq(Call) /\ Quiet(Below)
  BY BelowQuiet DEF Wake, At
<1>2. CASE Top.name \in Active
  <2>1. Asking("wake", None, Top.name) \in Call
    BY <1>2, AskingOK DEF CallOK
  <2> QED
    BY <1>1, <1>2, <2>1, DecidedAsking DEF Wake
<1>3. CASE Top.name \notin Active
  BY <1>1, <1>3, DecidedQuiet DEF Wake
<1> QED
  BY <1>2, <1>3

\* The same calls, or one of remove_channel() on top of them
LEMMA AskCalmly ==
  ASSUME WellFormed, Decided, NEW o \in OBJ, NEW n \in CHANNEL,
         \/ Remove(o, n)
         \/ ChangeChannelFlags(o, n)
         \/ \E x \in OBJ : TransferOwnership(o, n, x)
  PROVE  Calmly
<1>1. stack \in Seq(Call) /\ Quiet(stack)
  BY Frames, ActsQuiet DEF Remove, ChangeChannelFlags, TransferOwnership
<1>2. CASE Remove(o, n)
  <2> DEFINE f == Closing(n, "delete", TRUE)
  <2>1. f \in Call /\ ~AtOnce(f)
    BY ClosingOK DEF CallOK, AtOnce, Closing, CallOf
  <2> HIDE DEF f
  <2>2. <<f>> \o stack \in Seq(Call) /\ Quiet(<<f>> \o stack)
    BY <1>1, <2>1, QuietOnTop
  <2> QED
    BY <1>2, <2>2 DEF Remove, Calmly, f
<1>3. CASE ~Remove(o, n)
  BY <1>1, <1>3 DEF ChangeChannelFlags, TransferOwnership, Calmly
<1> QED
  BY <1>2, <1>3

LEMMA DestructCalmly ==
  ASSUME WellFormed, Decided, NEW o \in OBJ, Destruct(o)
  PROVE  Calmly
<1> DEFINE Known(f) == [f EXCEPT !.who = Gone(o, @), !.current = Gone(o, @),
                                 !.todo = @ \ {o}]
<1>1. stack \in Seq(Call) /\ Quiet(stack)
  BY Frames, OthersQuiet DEF Destruct
<1>2. stack' \in Seq(Call)
  BY DestructStep DEF WellFormed, StackOK
<1>3. stack' = [k \in DOMAIN stack |-> Known(stack[k])]
  BY DEF Destruct
<1>4. \A f \in Call : Known(f).pc = f.pc /\ Known(f).force = f.force
  BY DEF Call
<1> HIDE DEF Known
<1>5. ASSUME NEW k \in DOMAIN stack' PROVE ~AtOnce(stack'[k])
  <2>1. k \in DOMAIN stack /\ stack[k] \in Call /\ ~AtOnce(stack[k])
    BY <1>1, <1>3 DEF Quiet
  <2> QED
    BY <1>3, <1>4, <2>1 DEF AtOnce
<1> QED
  BY <1>2, <1>5 DEF Calmly, Quiet, Destruct

LEMMA DeliverCalmly ==
  ASSUME WellFormed, Decided, NEW m \in OBJ, Deliver(m)
  PROVE  Calmly
<1> DEFINE f == [Top EXCEPT !.pc = "called", !.current = m, !.todo = @ \ {m}]
<1>1. stack # <<>> /\ Top \in Call
  BY Frames DEF Deliver, At
<1>2. f.pc = "called" /\ f \in Call
  BY <1>1 DEF Call
<1> HIDE DEF f
<1>3. ~AtOnce(f)
  BY <1>2 DEF AtOnce
<1>4. <<f>> \o Below \in Seq(Call) /\ Quiet(<<f>> \o Below)
  BY <1>1, <1>2, <1>3, BelowQuiet, QuietOnTop
<1> QED
  BY <1>4 DEF Deliver, Calmly, f

LEMMA ReturnCalmly ==
  ASSUME WellFormed, Decided, Return
  PROVE  Calmly
<1> DEFINE f == [Top EXCEPT !.pc = "deliver", !.current = None]
<1>1. stack # <<>> /\ Top \in Call
  BY Frames DEF Return, At
<1>2. f.pc = "deliver" /\ f \in Call
  BY <1>1 DEF Call
<1> HIDE DEF f
<1>3. ~AtOnce(f)
  BY <1>2 DEF AtOnce
<1>4. <<f>> \o Below \in Seq(Call) /\ Quiet(<<f>> \o Below)
  BY <1>1, <1>2, <1>3, BelowQuiet, QuietOnTop
<1> QED
  BY <1>4 DEF Return, Calmly, f

\* A supervisor is there: a notice may go out before the operation goes on.
LEMMA SupervisorCalmly ==
  ASSUME WellFormed, Decided, ReloadSupervisor \/ \E m \in OBJ : Elect(m)
  PROVE  Calmly
<1>1. stack # <<>>
  BY DEF ReloadSupervisor, Elect, At
<1>2. Goto("granted") \in Seq(Call) /\ Quiet(Goto("granted"))
  BY <1>1, GotoQuiet
<1>3. PICK d, X, s : /\ s \in WithNotice(Goto("granted"), Top.name, d, X)
                     /\ Settle(d, channels, s)
  BY DEF ReloadSupervisor, Elect
<1>4. stack' = s /\ channels' = channels
  BY <1>3 DEF Settle
<1>5. WellFormed'
  BY ReloadStep, ElectStep
<1>6. stack' \in Seq(Call)
  BY <1>5 DEF WellFormed, StackOK
<1> QED
  BY <1>2, <1>3, <1>4, <1>6, WithNoticeQuiet DEF Calmly

\* Nobody listens, or nobody can be the supervisor: the channel is closed by
\* force at once.
LEMMA GiveUpDecided ==
  ASSUME WellFormed, Decided, GiveUp
  PROVE  Decided' /\ channels' = channels
<1> DEFINE f == Closing(Top.name, "close", TRUE)
           d == [data EXCEPT ![Top.ch].holes = @ /\ Ch.fixed]
<1>1. stack # <<>> /\ Top.pc = "access" /\ Top \in Call /\ Top.ch = channels[Top.name]
  BY Frames DEF GiveUp, At, Decided
<1>2. Below \in Seq(Call) /\ Quiet(Below)
  BY <1>1, BelowQuiet
<1>3. f.name = Top.name
  BY DEF Closing, CallOf
<1>4. channels' = channels /\ stack' = <<f>> \o Below /\ alive' = alive
  BY DEF GiveUp, Settle
<1>5. Top' = f /\ Below' = Below
  <2> HIDE DEF f
  <2>1. Head(<<f>> \o Below) = f /\ Tail(<<f>> \o Below) = Below
    BY <1>2
  <2> QED
    BY <1>4, <2>1 DEF Top, Below
<1>6. ~At("access")'
  BY <1>5 DEF At, Closing, CallOf
<1>7. ASSUME NEW n, n = Top.name PROVE Forsaken(n)'
  <2>1. n \in CHANNEL /\ Top.ch # Nothing /\ Top.ch \in ID /\ Ch \in Struct /\ Ch # None
    BY <1>1, <1>7, ThisCall DEF CallOK, Call
  <2>2. data \in Structs
    BY Unchanged
  <2>3. data'[Top.ch] = d[Top.ch]
    <3>1. \E m \in CHANNEL : channels[m] = Top.ch
      BY <1>1, <1>7, <2>1
    <3> QED
      BY <2>1, <3>1 DEF GiveUp, Settle
  <2>4. d[Top.ch].members = Ch.members /\ d[Top.ch].fixed = Ch.fixed
        /\ d[Top.ch].creator = Ch.creator
    BY <2>1, <2>2 DEF Ch, Struct, Structs
  <2>5. ChannelOf(n)' = d[Top.ch]
    BY <1>1, <1>4, <1>7, <2>3 DEF ChannelOf
  <2>6. IF Ch.fixed THEN Ch.creator \notin alive \cup Loadable ELSE Ch.members = {}
    BY DEF GiveUp
  <2> QED
    BY <1>4, <2>4, <2>5, <2>6 DEF Forsaken
<1> QED
  BY <1>2, <1>3, <1>4, <1>5, <1>6, <1>7 DEF Decided, At

\* JoinIn() and what list(), find() and history() leave
LEMMA CarryCalmly ==
  ASSUME WellFormed, Decided, Refuse \/ JoinIn \/ LookDone \/ Delivered
  PROVE  Calmly
<1>1. stack # <<>>
  BY DEF Refuse, JoinIn, LookDone, Delivered, At
<1>2. \/ \E d : Settle(d, channels, Below)
      \/ \E d : Fails(d)
  BY Zenon DEF Refuse, JoinIn, LookDone, Delivered
<1> QED
  BY <1>1, <1>2, EndCalmly, FailsCalmly

\* Who has left a channel as the last one closes it without force, when the
\* message that says so has been delivered.
LEMMA LeaveOutCalmly ==
  ASSUME WellFormed, Decided, LeaveOut
  PROVE  Calmly
<1> DEFINE f == Closing(Top.name, "close", FALSE)
           closing == <<f>> \o Below
<1>1. stack # <<>> /\ Top.name \in CHANNEL
  BY ThisCall DEF LeaveOut, At, Call
<1>2. f \in Call /\ ~AtOnce(f)
  BY <1>1, ClosingOK DEF CallOK, AtOnce, Closing, CallOf
<1> HIDE DEF f
<1>3. closing \in Seq(Call) /\ Quiet(closing)
  BY <1>1, <1>2, BelowQuiet, QuietOnTop
<1>4. \/ \E d : Settle(d, channels, Below)
      \/ \E d : Fails(d)
      \/ \E d : \E s \in WithMasterNotice(closing, Top.name) : Settle(d, channels, s)
  BY Zenon DEF LeaveOut, f
<1>5. ASSUME NEW d, NEW s \in WithMasterNotice(closing, Top.name), Settle(d, channels, s)
      PROVE  Calmly
  <2>1. stack' = s /\ channels' = channels
    BY <1>5 DEF Settle
  <2>2. stack' \in Seq(Call)
    BY LeaveOutStep DEF WellFormed, StackOK
  <2> HIDE DEF closing
  <2> QED
    BY <1>3, <1>5, <2>1, <2>2, WithMasterNoticeQuiet DEF Calmly
<1> QED
  BY <1>1, <1>4, <1>5, EndCalmly, FailsCalmly

LEMMA TooManyCalmly ==
  ASSUME WellFormed, Decided, TooMany
  PROVE  Calmly
<1>1. stack # <<>>
  BY DEF TooMany, At
<1>2. Goto("delete") \in Seq(Call) /\ Quiet(Goto("delete"))
  BY <1>1, GotoQuiet
<1>3. stack' \in Seq(Call)
  BY TooManyStep DEF WellFormed, StackOK
<1> QED
  BY <1>2, <1>3, WithMasterNoticeQuiet DEF TooMany, Calmly

\* What makes or ends a channel leaves quiet calls, too.
LEMMA OpenQuiet ==
  ASSUME NEW o, NEW n, NEW fixed, NEW s \in Seq(Call), Quiet(s), Open(o, n, fixed, s)
  PROVE  Quiet(stack')
<1>1. PICK d, c, t : t \in WithMasterNotice(s, n) /\ Settle(d, c, t)
  BY Zenon DEF Open
<1>2. stack' = t
  BY <1>1 DEF Settle
<1> QED
  BY <1>1, <1>2, WithMasterNoticeQuiet

LEMMA NewQuiet ==
  ASSUME WellFormed, Decided, NEW o \in OBJ, NEW n \in CHANNEL, New(o, n)
  PROVE  Quiet(stack')
<1>1. stack \in Seq(Call) /\ Quiet(stack)
  BY Frames, ActsQuiet DEF New
<1> QED
  BY <1>1, OpenQuiet DEF New

LEMMA SetupQuiet ==
  ASSUME WellFormed, Decided, Setup
  PROVE  Quiet(stack')
<1>1. Below \in Seq(Call) /\ Quiet(Below)
  BY BelowQuiet DEF Setup, At
<1>2. \/ Settle(data, channels, Below)
      \/ Open(Defaults[Top.name].creator, Top.name, Defaults[Top.name].fixed, Below)
  BY DEF Setup
<1> QED
  BY <1>1, <1>2, OpenQuiet DEF Settle

LEMMA EndQuiet ==
  ASSUME WellFormed, Decided, Deactivate \/ Delete
  PROVE  Quiet(stack')
<1>1. stack # <<>>
  BY DEF Deactivate, Delete, At
<1>2. \E d, c : Settle(d, c, Below) \/ Settle(d, c, <<>>)
  BY Zenon DEF Deactivate, Delete, Fails
<1> QED
  BY <1>1, <1>2, BelowQuiet, NothingQuiet DEF Settle

LEMMA LoadQuiet ==
  ASSUME WellFormed, Load
  PROVE  Quiet(stack')
<1> DEFINE frames == {CallOf("setup", None, n, "setup") : n \in DOMAIN Defaults \ Active} \cup
                     {CallOf("wake", None, n, "wake") : n \in Active}
<1>1. \A f \in frames : ~AtOnce(f)
  BY DEF AtOnce, CallOf
<1>2. stack' \in [1..Cardinality(frames) -> frames]
  BY DEF Load, Creations
<1> HIDE DEF frames
<1> QED
  BY <1>1, <1>2 DEF Quiet

LEMMA LifeQuiet ==
  ASSUME Reset \/ Unload \/ Reboot
  PROVE  Quiet(stack')
BY NothingQuiet DEF Reset, Unload, Reboot

\* While a channel is being closed only Deactivate ends one.
LEMMA NextDecided ==
  ASSUME WellFormed, Decided, [Next]_vars
  PROVE  Decided' /\ (At("close") => Deactivate \/ channels' = channels)
<1>1. WellFormed' /\ stack' \in Seq(Call)
  BY NextWellFormed DEF WellFormed, StackOK
<1>2. ASSUME Calmly PROVE Decided' /\ channels' = channels
  BY <1>2, CalmlyDecided DEF Calmly
<1>3. ASSUME Quiet(stack') PROVE Decided'
  BY <1>1, <1>3, DecidedQuiet
<1>4. ASSUME NEW o \in OBJ, NEW n \in CHANNEL, Ask(o, n)
      PROVE  Decided' /\ (New(o, n) \/ channels' = channels)
  <2>1. CASE Join(o, n) \/ Look(o, n)
    BY <2>1, RequestDecided DEF Join, Look
  <2>2. CASE Leave(o, n)
    BY <2>2, LeaveDecided
  <2>3. CASE New(o, n)
    BY <1>3, <2>3, NewQuiet
  <2>4. CASE \/ Remove(o, n) \/ ChangeChannelFlags(o, n)
             \/ \E x \in OBJ : TransferOwnership(o, n, x)
    BY <1>2, <2>4, AskCalmly
  <2> QED
    BY <1>4, <2>1, <2>2, <2>3, <2>4 DEF Ask
<1>5. ASSUME NEW o \in OBJ, Deliver(o) \/ Destruct(o) \/ Appear(o)
      PROVE  Decided' /\ channels' = channels
  <2>1. ASSUME Appear(o) PROVE Calmly
    BY <2>1, Frames, OthersQuiet DEF Appear, Calmly
  <2> QED
    BY <1>2, <1>5, <2>1, DeliverCalmly, DestructCalmly
<1>6. ASSUME Access PROVE Decided' /\ channels' = channels
  BY <1>2, <1>6, WakeDecided, SupervisorCalmly, GiveUpDecided DEF Access
<1>7. ASSUME Refuse \/ Carry PROVE Decided' /\ channels' = channels
  BY <1>2, <1>7, CarryCalmly, LeaveOutCalmly DEF Carry
<1>8. ASSUME Return \/ ListenerFails \/ Delivered PROVE Decided' /\ channels' = channels
  <2>1. ASSUME ListenerFails PROVE Calmly
    BY <2>1, FailsCalmly DEF ListenerFails
  <2> QED
    BY <1>2, <1>8, <2>1, ReturnCalmly, CarryCalmly
<1>9. ASSUME TooMany \/ Deactivate \/ Delete
      PROVE  Decided' /\ (Deactivate \/ Delete \/ channels' = channels)
  BY <1>2, <1>3, <1>9, TooManyCalmly, EndQuiet
<1>10. ASSUME Reset \/ Unload \/ Load \/ Setup \/ Reboot
       PROVE  Decided' /\ (Setup \/ Reboot \/ channels' = channels)
  BY <1>3, <1>10, LoadQuiet, SetupQuiet, LifeQuiet DEF Reset, Unload, Load
<1>11. ASSUME UNCHANGED vars PROVE Decided' /\ channels' = channels
  BY <1>11 DEF vars, Decided, At, Top, Below, Quiet, AtOnce, Active, Forsaken, ChannelOf
<1>12. ASSUME At("close")
       PROVE  ~Delete /\ ~Setup /\ ~Reboot /\ \A o, n : ~New(o, n)
  BY <1>12 DEF At, Delete, Setup, Reboot, New, Acts
<1> QED
  BY <1>4, <1>5, <1>6, <1>7, <1>8, <1>9, <1>10, <1>11, <1>12 DEF Next

LEMMA InitDecided == Init => Decided
BY DEF Init, Decided, At

LEMMA AlwaysDecided == Spec => [](WellFormed /\ Decided)
<1>1. Init => WellFormed /\ Decided
  BY InitWellFormed, InitDecided
<1>2. WellFormed /\ Decided /\ [Next]_vars => (WellFormed /\ Decided)'
  BY NextWellFormed, NextDecided
<1> QED
  BY <1>1, <1>2, PTL DEF Spec

\* Nobody is thrown out of a channel that is deactivated, but for want of the
\* only one who may be its supervisor, for any channels, objects and limits
\* and with any listeners acting while the messages of the daemon are
\* delivered (809-846, 1133-1155).
THEOREM NobodyThrownOut == Spec => ClosedOnlyEmpty
<1>1. ASSUME WellFormed, Decided, [Next]_vars, NEW n \in Active \ Active', At("close")
      PROVE  \/ ChannelOf(n).members = {}
             \/ /\ ChannelOf(n).fixed
                /\ ChannelOf(n).creator \notin alive \cup Loadable
  <2>1. Deactivate /\ channels' # channels
    BY <1>1, NextDecided DEF Active
  <2>2. /\ Top.name \in Active /\ Closable(Top.name)
        /\ channels' = [channels EXCEPT ![Top.name] = Nothing]
    BY <2>1 DEF Deactivate, Settle, Fails
  <2>3. n = Top.name
    BY <2>2 DEF Active, WellFormed, ChannelsOK
  <2>4. CASE Top.force
    BY <1>1, <2>2, <2>3, <2>4 DEF Decided, Forsaken
  <2>5. CASE ~Top.force
    BY <2>2, <2>3, <2>5 DEF Closable, Populated
  <2> QED
    BY <2>4, <2>5
<1>2. WellFormed /\ Decided /\ [Next]_vars =>
        [\A n \in Active \ Active' :
           up /\ At("close") =>
             \/ ChannelOf(n).members = {}
             \/ /\ ChannelOf(n).fixed
                /\ ChannelOf(n).creator \notin alive \cup Loadable]_vars
  BY <1>1
<1> QED
  BY <1>2, AlwaysDecided, PTL DEF Spec, ClosedOnlyEmpty
-----------------------------------------------------------------------------
(***************************************************************************)
(* The history of an active channel, as long as create() does not find an  *)
(* active channel among the dormant ones of the save file.                 *)
(***************************************************************************)

\* What is read from the save file is dormant: new() had been saved.
UpToDate == Load => \A n \in Active : saved[n] = None

\* Nothing is active and dormant at once.
Separate == Active \cap Dormant = {}

\* Nothing happens to channels, dormant ones and histories.
Untouched == channels' = channels /\ channelC' = channelC /\ channelH' = channelH

LEMMA SettleUntouched ==
  ASSUME NEW d, NEW s, Settle(d, channels, s), UNCHANGED files
  PROVE  Untouched
BY DEF Settle, files, Untouched

LEMMA FailsUntouched == ASSUME NEW d, Fails(d) PROVE Untouched
BY DEF Fails, Settle, Untouched

LEMMA AskUntouched ==
  ASSUME NEW o \in OBJ, NEW n \in CHANNEL, Ask(o, n), ~New(o, n)
  PROVE  Untouched
BY DEF Ask, Join, Look, Request, Leave, Remove, TransferOwnership, ChangeChannelFlags,
       files, Untouched

LEMMA AccessUntouched == Access => Untouched
<1>1. Wake => Untouched
  BY DEF Wake, files, Untouched
<1>2. ReloadSupervisor \/ (\E m \in OBJ : Elect(m)) =>
        \E d, s : Settle(d, channels, s) /\ UNCHANGED files
  BY DEF ReloadSupervisor, Elect
<1>3. GiveUp => \E d, s : Settle(d, channels, s) /\ UNCHANGED files
  BY Zenon DEF GiveUp
<1> QED
  BY <1>1, <1>2, <1>3, SettleUntouched DEF Access

LEMMA CarryUntouched == Refuse \/ Carry => Untouched
<1>1. Refuse \/ LookDone => \E d, s : Settle(d, channels, s) /\ UNCHANGED files
  BY Zenon DEF Refuse, LookDone
<1>2. JoinIn \/ LeaveOut =>
        \/ \E d, s : Settle(d, channels, s) /\ UNCHANGED files
        \/ \E d : Fails(d)
  BY Zenon DEF JoinIn, LeaveOut
<1> QED
  BY <1>1, <1>2, SettleUntouched, FailsUntouched DEF Carry

LEMMA CallsUntouched ==
  ASSUME \/ \E o \in OBJ : Deliver(o) \/ Destruct(o) \/ Appear(o)
         \/ Return \/ ListenerFails \/ Delivered \/ TooMany \/ Unload
         \/ UNCHANGED vars
  PROVE  Untouched
<1>1. ASSUME Delivered PROVE Untouched
  BY <1>1, SettleUntouched, FailsUntouched DEF Delivered
<1>2. ASSUME ListenerFails PROVE Untouched
  BY <1>2, FailsUntouched DEF ListenerFails
<1> QED
  BY <1>1, <1>2 DEF Deliver, Destruct, Appear, Return, TooMany, Unload, files, vars, Untouched

\* new() takes the entry of the channel out of channelC and makes a history.
LEMMA OpenRemembered ==
  ASSUME WellFormed, Separate, HistoryKept, NEW o, NEW n \in CHANNEL, NEW fixed, NEW s,
         Open(o, n, fixed, s)
  PROVE  Separate' /\ HistoryKept'
<1>1. /\ channelC' = [channelC EXCEPT ![n] = None] /\ channelH' = channelH \cup {n}
      /\ \E i : channels' = [channels EXCEPT ![n] = i]
  BY Zenon DEF Open, Settle
<1>2. Active' \subseteq Active \cup {n} /\ Dormant' \subseteq Dormant \ {n}
  BY <1>1 DEF Active, Dormant, WellFormed, TypeOK
<1> QED
  BY <1>1, <1>2 DEF Separate, HistoryKept

LEMMA EndRemembered ==
  ASSUME WellFormed, Separate, HistoryKept, Deactivate \/ Delete
  PROVE  Separate' /\ HistoryKept'
<1> DEFINE n == Top.name
<1>1. n \in CHANNEL
  BY ThisCall DEF Deactivate, Delete, At, Call
<1>2. CASE Untouched
  BY <1>2 DEF Untouched, Separate, HistoryKept, Active, Dormant
<1>3. CASE ~Untouched
  <2>1. /\ channels' = [channels EXCEPT ![n] = Nothing]
        /\ \E b : channelC' = [channelC EXCEPT ![n] = b]
        /\ channelH' \in {channelH, channelH \ {n}}
    BY <1>3, SettleUntouched, FailsUntouched DEF Deactivate, Delete, Settle
  <2>2. Active' = Active \ {n} /\ Dormant' \subseteq Dormant \cup {n}
    BY <1>1, <2>1 DEF Active, Dormant, WellFormed, TypeOK
  <2> QED
    BY <2>1, <2>2 DEF Separate, HistoryKept
<1> QED
  BY <1>2, <1>3

\* Only what is dormant expires.
LEMMA ResetRemembered ==
  ASSUME WellFormed, Separate, HistoryKept, Reset
  PROVE  Separate' /\ HistoryKept'
<1>1. PICK old \in SUBSET Dormant :
        /\ channelC' = [n \in CHANNEL |-> IF n \in old THEN None ELSE channelC[n]]
        /\ channelH' = channelH \ old
  BY DEF Reset
<1>2. channels' = channels
  BY DEF Reset
<1>3. Active' = Active /\ Dormant' \subseteq Dormant
  BY <1>1, <1>2 DEF Active, Dormant
<1> QED
  BY <1>1, <1>3 DEF Separate, HistoryKept

LEMMA LoadRemembered ==
  ASSUME WellFormed, Separate, HistoryKept, UpToDate, Load
  PROVE  Separate' /\ HistoryKept'
<1>1. channels' = channels /\ channelC' = saved /\ channelH' = channelH
  BY DEF Load
<1>2. Active' = Active /\ \A n \in Active : channelC'[n] = None
  BY <1>1 DEF Active, UpToDate
<1> QED
  BY <1>1, <1>2 DEF Separate, HistoryKept, Dormant

LEMMA NextRemembered ==
  ASSUME WellFormed, Separate, HistoryKept, [Next]_vars, UpToDate
  PROVE  Separate' /\ HistoryKept'
<1>1. ASSUME Untouched PROVE Separate' /\ HistoryKept'
  BY <1>1 DEF Untouched, Separate, HistoryKept, Active, Dormant
<1>2. ASSUME NEW o \in OBJ, NEW n \in CHANNEL, Ask(o, n)
      PROVE  Separate' /\ HistoryKept'
  <2>1. CASE New(o, n)
    BY <2>1, OpenRemembered DEF New
  <2>2. CASE ~New(o, n)
    BY <1>1, <1>2, <2>2, AskUntouched
  <2> QED
    BY <2>1, <2>2
<1>3. CASE Access \/ Refuse \/ Carry
  BY <1>1, <1>3, AccessUntouched, CarryUntouched
<1>4. CASE \/ \E o \in OBJ : Deliver(o) \/ Destruct(o) \/ Appear(o)
           \/ Return \/ ListenerFails \/ Delivered \/ TooMany \/ Unload
           \/ UNCHANGED vars
  BY <1>1, <1>4, CallsUntouched
<1>5. CASE Setup
  <2>1. Top.name \in CHANNEL
    BY <1>5, ThisCall DEF Setup, At, Call
  <2>2. CASE MayOpen(Defaults[Top.name].creator, Top.name)
    BY <1>5, <2>1, <2>2, OpenRemembered DEF Setup
  <2>3. CASE ~MayOpen(Defaults[Top.name].creator, Top.name)
    BY <1>1, <1>5, <2>3, SettleUntouched DEF Setup
  <2> QED
    BY <2>2, <2>3
<1>6. CASE Reboot
  <2>1. channels' = [n \in CHANNEL |-> Nothing]
    BY <1>6 DEF Reboot
  <2>2. Active' = {}
    BY <2>1 DEF Active
  <2> QED
    BY <2>2 DEF Separate, HistoryKept
<1> QED
  BY <1>2, <1>3, <1>4, <1>5, <1>6, EndRemembered, ResetRemembered, LoadRemembered DEF Next

\* An active channel keeps its history, whatever is opened, closed, loaded or
\* expires, as long as create() finds no active channel among the dormant ones
\* of the save file.  That new() does not see to that (1018) is all there is to
\* the channel that loses its history.
THEOREM HistoryKeptIfSaved == Spec /\ [][UpToDate]_vars => []HistoryKept
<1>1. Init => Separate /\ HistoryKept
  BY DEF Init, Separate, HistoryKept, Active
<1>2. /\ WellFormed /\ Separate /\ HistoryKept
      /\ [Next]_vars /\ [UpToDate]_vars
      => (Separate /\ HistoryKept)'
  <2>1. UNCHANGED vars => UpToDate \/ Untouched
    BY CallsUntouched
  <2>2. WellFormed /\ Separate /\ HistoryKept /\ Untouched => (Separate /\ HistoryKept)'
    BY DEF Untouched, Separate, HistoryKept, Active, Dormant
  <2> QED
    BY <2>1, <2>2, NextRemembered
<1> QED
  BY <1>1, <1>2, AlwaysWellFormed, PTL DEF Spec
=============================================================================
