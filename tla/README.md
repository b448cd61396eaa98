# Formal models of the MorgenGrauen mudlib

TLA+ models of parts of this mudlib, the TLC configurations that check them,
and TLAPS proofs.  The mudlib is LPC code for the LDMud driver; paths below
are relative to the repository's `src/` as it is checked out here.

Contents

1. The system: parts, state, interactions, what is hard about them
2. The driver: what the models assume of it
3. The modules, and how they correspond to the code
4. The runs: what is checked, in which bounds
5. Fairness
6. The proofs
7. Findings, and known limits
8. What is not modelled, and why
9. Plan

## 1. The system

A mudlib is a few thousand objects in one process.  Most of them are content
(rooms, monsters, texts) or sequential libraries (things, containers, combat
formulas).  What is hard to test is elsewhere: in the daemons that work across
many commands by means of `call_out`, that call back objects they do not know,
that talk to other muds over UDP, and that are updated while they work.

| Part | Code | State | Operations | Hard because |
|---|---|---|---|---|
| event dispatcher | `p/daemon/eventd.c` | `events` (listeners per event type), `pending`, `active`, `updateme`, one `call_out`, a save file | RegisterEvent, UnregisterEvent, TriggerEvent, UpdateMe, process_events, remove, reset, create | listeners re-enter the daemon in the middle of its `foreach`; a run breaks off for lack of eval ticks and is resumed; objects vanish; the daemon reloads itself |
| intermud daemon | `secure/inetd.c`, `sys/udp.h` | `packet_id`, `pending_data`, `received_ids`, `hosts` | _send_udp, _receive_udp, reply_time_out, remove_received_id | lossy, duplicating, reordering network; retries race with late answers; a reload forgets all ids |
| split packets | `secure/inetd.c` (decode_packet) | `incoming_packets` with a time-out per buffer | decode_packet, remove_incoming | parts out of order, twice, or of an earlier packet |
| intermud mail | `secure/udp_mail.c`, `secure/udp/mail.c`, `secure/udp/reply.c` | spool, one `call_out` | deliver_mail, udp_mail, udp_reply, retry_send | what the writer is told must be true although the layer below repeats, gives up, forgets ids and is refused |
| hook provider | `std/hook_provider.c`, `sys/hook.h` | per hook four arrays of entries, a `call_out` | HRegisterToHook, HUnregisterFromHook, HookFlow, CleanHookMapping | arrays and structs are references; consumers register, leave and die while a flow goes through the same arrays |
| temporary properties | `p/daemon/tmp_prop_master.c`, `std/thing/properties.c` | `reset_times` (sorted), `in_progress`, one `call_out`, a save file | SetTmpProp, RemoveTmpProp, do_update, create, remove | the list changes under the loop; entries are keyed by names that other objects may get; anybody sets the same property |
| channel daemon | `p/daemon/channeld.c` | `channels` (members and supervisor), `channelC` (dormant ones), `channelH` (histories), a save file | new, join, leave, send, list, remove_channel, transfer_ownership, change_channel_flags, reset, remove, create | supervisors vanish at any time; listeners act while a message is delivered to them; a struct is held by reference over such calls; channels go dormant and come back, memory and save file are of different age |
| transporters | `std/transport.c` | route, position, `call_out`s, hook registrations | Start, Halt, Continue, Pause, Enter, Leave, connect, disconnect, changeHp | pauses when nobody is near and is resumed through H_HOOK_INIT |
| the rest | see section 8 | | | |

How they interact:

* players, the quest and guild masters, the error daemon and others call the
  dispatcher by `EVENTD->...` (`sys/events.h`), and it calls its listeners by
  closures;
* rooms, NPCs and players inherit the hook provider; transporters register for
  a hook of every room on their route (`std/transport.c:603`);
* intermud mail, channels, tell and finger (`secure/udp/*.c`, the player objects)
  send requests through the intermud daemon and get `udp_reply()` from it;
* `SetProp()` of any object runs the set method of the temporary properties,
  which calls the daemon back.

What makes each modelled part correct:

* **dispatcher**: accepted events are dispatched in order; to everyone who was
  registered when the dispatch began and stays registered; to each at most
  once; nobody is called who has left; as long as there is work, a `call_out`
  is there to do it, and exactly one; updates that were asked for happen and
  lose nothing.
* **intermud daemon**: a request has one outcome; a reply is handed over for
  the request it answers; retries and copies are recognised as such by the
  receiver; losses are made good by the retries; every request ends.
* **hook provider**: what was accepted stays registered; a closure is
  registered once; a flow calls everyone who is registered from its beginning
  on, nobody twice, nobody who has left, in the order of type and priority,
  also where callbacks fail.
* **temporary properties**: every temporary value ends, not before its time;
  what others set meanwhile is neither overwritten nor lost, as far as the
  daemon can tell it from its own value.
* **intermud mail**: writers are told the truth; no mail is delivered more
  often than it was sent; no mail is lost without a word.
* **channel daemon**: nobody gets hold of a channel with a fixed supervisor, and
  of its history, but its owner; only an empty channel is deactivated; an
  active channel has a history.
* **transporters**: one that pauses can be set going from every stop and has
  left nobody behind; whoever waits at a stop sees it come; whoever travels to
  a stop gets off there.

## 2. The driver

The driver runs one thread.  Between two commands or `call_out`s anything may
happen; inside one, only what callbacks do.  So an action of a model is a
stretch of code without a call into code that is not modelled, and a callback
is an extra state (`pc`, `current`, `index`, or a frame of `stack`) in which
the operations are enabled again.  Further assumptions, all from the way the
code relies on the driver:

* destructing an object turns every reference to it and every closure of it
  into 0, wherever they are stored, also in copies and saved locals;
* `save_object()` writes neither objects nor foreign closures;
* `->` (`call_other`) on 0, a member of struct 0 and an index out of bounds are
  runtime errors, which end the whole command or `call_out` unless a `catch()`
  is around, as in the dispatcher around the call of a listener;
* arrays, mappings and structs are references.  `foreach` holds on to the
  array it started with and sees what is written into it; its variable is a
  copy of the element.  `arr - ({0})` is the same array if there is no 0 in it.
  `sort_array()` sorts a copy; no order among equals is relied on;
* `time()` does not change within a command;
* `call_out`s fire when they are due, one at a time, not in the middle of
  something else; those of a destructed object are gone.

## 3. The modules

| Module | Models | Role |
|---|---|---|
| `EventD` | `p/daemon/eventd.c` | detailed model, invariants, liveness |
| `EventBus` | what the dispatcher promises | abstract specification, `EventD!ImplementsBus` |
| `MCEventD` | | instance for TLC |
| `EventD_proofs` | | invariants; that EventD implements EventBus |
| `Inetd` | `secure/inetd.c` on every mud, and the network | detailed model |
| `RemoteCall` | what a request promises its sender | abstract specification, `Inetd!ImplementsRpc` |
| `MCInetd` | | instance |
| `Inetd_proofs` | | invariants, repeats of a request; that Inetd implements RemoteCall |
| `UdpMail`, `UdpMail_proofs` | `secure/udp_mail.c`, `secure/udp/mail.c`, `secure/udp/reply.c` | composed with Inetd, which it EXTENDS; its invariants |
| `HookProvider`, `MCHookProvider`, `HookProvider_proofs` | one hook of `std/hook_provider.c` | detailed model; instances; invariants |
| `TmpProp`, `TmpProp_proofs` | `p/daemon/tmp_prop_master.c` | detailed model; its binary search, invariants, ends of values |
| `Channel`, `MCChannel`, `Channel_proofs` | `p/daemon/channeld.c` | detailed model; instance; invariants |
| `Transport`, `MCTransport`, `Transport_proofs` | `std/transport.c`, with what travellers (`std/player/travel.c`, `base.c`) and stops (`std/room/exits.c`) do | detailed model, liveness; instances; invariants |
| `Induction` | | induction over the natural numbers, used by the proofs |

Definitions named "Mutant" in a comment are faulty variants of the definition
that follows: with one of them in its place a property of the runs fails.
They are not part of the model.

### EventD

| State | Code |
|---|---|
| `eids`, `events` | keys of the mapping `events`, and its entries: absent, live (closure there), stale (closure zeroed) |
| `pending`, `active`, `listeners` | `pending`, `active`, `active[A_LISTENERS]` |
| `updateme`, `callouts` | `updateme`, number of scheduled `process_events` |
| `pc`, `current`, `ticks` | where process_events() is; whose callback runs; callbacks until `get_eval_cost()` is short |
| `saved`, `boot`, `lastboot`, `up` | the save file, `__BOOT_TIME__`, its saved value, whether the daemon is loaded |

`ProcessEvents`, `LoopEnd`, `LoopIdle`, `LoopTake`, `LoopResume`, `EachBreak`,
`EachCall`, `EachForget`, `CallReturn`, `EachDone` are process_events(), cut at
its branches; only in `pc = "call"` (a listener runs) and in `pc = "idle"` does
anybody else act.  `RegisterEvent` .. `UpdateMe` are the interface.  `Remove`
is remove(): save and destruct; `Create` loads the save file and drops what an
earlier boot has left.  The order of the `foreach` over a mapping is left open
(the driver promises none).  An event whose type has been deleted meanwhile
has 0 for its listeners, and a `foreach` over 0 runs no round
(`doc/LPC/foreach`): it ends without a call.  Event data, trigger object and the statistics are
abstracted away; an event is a number and a type.

`EventBus` has a queue, subscribers, and whom the head of the queue is owed
to.  The refinement mapping takes the active event for the head of the queue,
and the snapshot without the object being called for `owed`.

### Inetd

`pending`, `received`, `packetId`, `status` are the daemon's `pending_data`,
`received_ids`, `packet_id` and `hosts[..][HOST_STATUS]` for every mud.  A call_out
belongs to the entry it is for (`timer`, `ttl`).  Time passes in units of
REPLY_TIME_OUT (`Tick`); packets are under way for `MaxDelay` units at most,
what has not come by then is lost, so `Tick` is also the loss of packets.
`Rest(p)` leaves a copy of a packet in the network if `Duplicates`.  Requests
carry a ghost number `seq` by which the properties tell them apart; the code's
decisions never look at it.  `ReceiveRequest` runs the module
(`secure/udp/*.c`), which replies, fails (a reply, too), or ends in silence;
`Refuse` is valid_request(); `Restart` is remove() and the create() after it.
Names, encodings, the host list and split packets are left out.

### HookProvider

`entries` are the structs ever made, `lists` the four arrays of the hook,
`stack` the callbacks that are going on, each with the array its loop holds.
The flag `live` of a frame says whether that array is still the hook's own:
if so, what is written in place (`Zeroed`, `WithLast`) is seen by both; when
the hook gets another array (`Cleaned`, `Detached`) the frame keeps the old.
This is the heart of the model: `CleanHookMapping()` zeroes in place and then
replaces; `HRegisterToHook()` appends, overwrites the last entry, sorts a copy.
What cleaning leaves is `Picked`: the elements of an array at some of its
positions, in their order.  `Info` is the set that hookConsumerInfo() gathers;
its first element, the one HUnregisterFromHook() takes, is the one before which
no other is found (`FoundBefore`).

`Register`, `RegisterReturn`, `Insert`, `SupersededReturn` are HRegisterToHook()
with the two places where it calls others: the surveyors' permission, and
`superseededHook()`.  `HookFlow`, `FlowReturn`, `AllowReturn` are HookFlow() and
the question for permission.  `Abort` is a runtime error: the whole stack is
gone.  The code runs into one where it meets a zeroed element or calls a
destructed object, and `CallbackFails` is one in any callback.  If that is
superseededHook(), the new entry is in the array already and the array is not
yet sorted (`HalfDone`); such entries, and the one whose predecessor had no
object left to tell, are kept in the ghost `broken`, the accepted ones in the
ghost `standing`.  Every consumer is a closure of an object of its own.  Hook
data are left out; a consumer's answer is `no_mod`, `altered` or `cancelled`.

### TmpProp

`reset_times`, `in_progress`, `callout` are the daemon's; `pc`, `i`, `max`,
`index` are the locals of do_update(); `prop` is what `std/thing/properties.c`
keeps for the property: its value, and whether the query and the set method
of the daemon are on it.  One property per object is modelled, so the key
`INDEX(ob, prop)` is the name.  All times are relative to `time()`, which
makes the state space finite without a bound on time.  `SetTmpProp` contains
the end of a running value, the early return for a time that is past, and the
binary search (`Found`, `Place`).  `SetProp` contains the inline closure of line
292, that is RemoveTmpProp() and a second SetProp(); with the flag `sp` the
daemon compares values (line 119), and others may set the temporary value `Tmp`
like any other.  do_update() is `DoUpdate`, `UpdateEnd`,
`UpdateSetProp`/`UpdateReturn` (an `sp` value, whose set method may do anything
to others), `UpdateError` (the index out of bounds when the list has become
shorter than `max`), `UpdateDone`.

Nothing catches the errors of a set method, so each of the three functions has
its action for them: `UpdateSetPropFails` and `UpdateReturnFails` end do_update()
before or after the value was set back (line 121), with the entry, its timer and
all the timers the loop has been through left in place (`Aborts`);
`SetTmpPropCut` ends SetTmpProp() after it has ended the running value and taken
its timer out (287, 308, and 282, where the time is past); `EndFails` ends it, or
RemoveTmpProp(), while that value is being ended (188, 255).  Three ghosts say
what such ends leave behind: `cut` marks an entry whose timer is gone, `spoilt`
holds the names with a timer that no entry belongs to, `mistaken` those whose
value the daemon takes for its own, or has left there for good.

### UdpMail

A mail is a request of Inetd and has its ghost number.  `writer` is the owner of
the closure in the request, `mailbox` the copies that `secure/udp/mail.c` has saved
for the recipient (it does not look at the mark for repeats, so each retry that
gets through is one more), `told` what udp_reply() has told the writer.  Each
action is a step of Inetd conjoined with what it means for the mails:
`DeliverMail` with Request, `ReceiveMail` with ReceiveRequest, `ReceiveAnswer`
with ReceiveReply, `MailTimesOut` with GiveUp; the others leave the mails alone.
The answer carries the writer and the mail it is about, so whom udp_reply() tells
depends on the packet, not on the request it was matched to (`ToldOf`).  A refusal
(valid_request()) carries neither, so nobody can be told of it.  The spool is
not modelled, since nothing fills it (section 7).

### Channel

`data` are the structs, `channels` which one is active under a name, `channelC`
and `channelH` the dormant channels and the names with a history, `saved` the
save file, `dirty` is `save_me_soon`.  `stack` are the functions that are going
on: an access (`Wake`, `ReloadSupervisor`, `Elect`, `GiveUp`, `Refuse` are
access() and assert_supervisor()) that ends in `JoinIn`, `LeaveOut` or `LookDone`,
a channel that is being closed (`Deactivate`, `Delete`, `TooMany`), and a message
under way (`Deliver`, `Return`, `Delivered`).  While a listener is called it may
do whatever players may do, `MaxDepth` deep; the function below holds the struct
it has looked up (`ch`) and goes on with it, active or not.  Runtime errors
(`ListenerFails`, `Fails`) drop the whole stack.  `Destruct`, `Appear`, `Reset`,
`Unload`, `Load`, `Setup`, `Reboot` are what happens around the daemon: `/secure/memory`
keeps the active channels over a reload, a reboot loses them.  Supervisors
allow or refuse anything.  Descriptions, bans, the commands sent to <MasteR>
and the texts in the histories are left out.

### Transport

`rpos`, `roomCode`, `timers`, `marked` and `recent` are the transporter's route
position, the stop it is open at, its call_outs, and the two facts that
`meet_last_player` and its sign stand for; `hooked` the stops whose H_HOOK_INIT it
listens to; `loc`, `ndead`, `info` the players' places, `ndead_location` and
P_TRAVEL_INFO; `online` and `fighting` who is interactive() and InFight().
`ChangeHp`, `Disconnect` and `ContinueFires` are the call_outs, each with all it
calls: connect(), Pause(), subscribe_init() with the loading of stops and their
create(), Continue().  `Enter`, `Leave`, `Come`, `Walk`, `ReiseNach`, `ReiseMit`,
`ReiseNicht`, `Fight` are the players, `Update` and `Load` destruct and load a stop.

A lost connection is three steps, as in the code: `Drop` (the player is not
interactive() any more, which is what maybe_pause() looks at, lines 641 and 646,
but stays where he is), `NetDead` (his heart_beat moves him away, seconds later),
`Reconnect`, which may come before that: then he is where he was, and no init()
is called there.  The history variable `overlooked` holds those a pause has not
waited for, because they had lost the connection, until they are moved, go
elsewhere or the transporter goes on.

connect() lets nobody off or on who fights, and takes it for the end of a
journey if the move out fails (`GettingOff` and the subset of it that really
gets off in `Connected`; `GettingOn` is any subset, so a move in may fail, too).  At
a stop in `Shaky` its own move may fail, which it catches (`Failed`, lines
508-512): it stays where it was, or is there already, and is not open.  Times are
abstracted to the order of the call_outs, which is left open: more than the
code does, hence sound for safety, and liveness holds nevertheless.

## 4. The runs

| Run | Instance | Shows |
|---|---|---|
| `eventd_bus` | 1 type, 2 objects, 3 events, 2 boots, MaxPending 1, fairness | `IInv`, the inductive invariant of the proofs (types, never two call_outs, the snapshot is registered), `Woken`, `CallsRegisteredOnce`; EventD implements EventBus; every accepted event is finished; an update that was asked for happens |
| `inetd_safety` | 2 muds, 2 requests, RETRIES 2, delay up to one REPLY_TIME_OUT, duplicates, silent modules, no reloads (`SteadySpec`; `mail_faults` has one) | `ReplyMatches`, `FreshOnce`, `RepeatIsRepeat`, and that the daemons implement RemoteCall |
| `mail_faults` | 2 muds, 2 mails, one mud refuses, udp_reply() fails at the other, one restart, an unknown recipient, prompt network with losses, fairness | for the mails `ToldTheTruth` and `CopiesBounded`; for the daemons under them `RetriesSuffice`, `OneOutcome`, and that every request ends |
| `mail_lost` | 2 muds, losses only | violation, section 7 |
| `hook_storm` | 3 consumers, surveyors and hook modifiers, arrays of 1 and 2, 3 registrations, callbacks 2 deep, any of which may fail | no array outgrows its limit, `AcceptedSorted`, `RegisteredOnce`, `RegistrationLasts`, `NobodyTwice`, `CalledInOrder`, `NobodyMissed`, `CallsStanding` |
| `hook_unsorted` | 3 listeners that do nothing but fail | violation, section 7 |
| `tmp_safety` | 2 objects, 3 SetTmpProp()s or restarts, times 0..2, one value besides the temporary one, failing set methods, fairness | `TypeOK` (with: the timers are sorted), `EntryTimed`, `MethodHasEntry`, `ValueKept`, `EndsNotBefore`, `EveryPropEnds`; and `PlaceRight`: the binary search against its definition for all sorted lists of up to 5 timers |
| `tmp_early` | the same | violation, section 7 |
| `channel_safety` | 1 channel, its owner (an object that can be loaded) and a player who is archwizard, 2 structs, listeners act one deep, MaxInactive 0, reloads and reboots | `TypeOK`, `NoTakeover`, `ClosedOnlyEmpty` |
| `channel_history` | the same | violation, section 7 |
| `transport_travel` | 3 stops and a message, one of the stops shaky, 1 player who uses "reise", fights and loses his connection, other livings that pass, stops updated at any time, fairness | `TypeOK` (with: a running transporter listens to no stop), `NobodyLeft`, `Served`, `JourneyEnds` |
| `transport_stranded` | 3 stops, 1 player | violation, section 7 |

Why these bounds are enough for the cases of interest:

* **EventD**.  Two listeners are needed for one to act while another is still
  to be called, two events for a queue behind the active one, three for the
  order in the queue.  With one tick per run every event with two listeners is
  broken off and resumed.  Two boots give a save file of an earlier boot.
  `MaxPending` stands for `__MAX_ARRAY_SIZE__ / 5`: 1 makes the full queue an
  ordinary case.  Events of different types meet in the queue only; what a
  second type adds for the safety properties is covered by the proofs, which
  hold for any number of types.
* **Inetd**.  Two muds and two requests give two requests in one direction,
  and one in each.  RETRIES is the value of `sys/udp.h`.  `FreshOnce` is the
  property that depends on a bound: ids are kept for RETRIES + 2 units, and
  a copy that comes later than that is run as new, so the property holds for
  packets that live one unit at most (REPLY_TIME_OUT seconds, far more than
  UDP packets do) and would fail for longer ones.
* **UdpMail**.  No delays and no duplicates where losses are counted
  (`RetriesSuffice`, `CopiesBounded`); losses are counted for each request, up to
  RETRIES + 1, from where on nothing tells them apart.  With one restart and two mails an id
  comes again while a late answer to the first mail is under way.  With delays
  and duplicates as well the state space has some four million states and
  `ToldTheTruth` holds; the theorem covers it, so the run does without.
* **HookProvider**.  Two entries per array are the smallest with an order;
  `MAX_HOOK_COUNTS` is cut to `<<1, 2, 2, 2>>` so that arrays get full and
  entries are superseded.  Three consumers: one that is called, one that acts
  on it, one that comes.  Surveyors and hook modifiers are the two types that
  meet in all places: surveyors are asked about registrations and about what
  hook modifiers answer, and a flow goes from the one array to the other; data
  modifiers and listeners go through the same loop with fewer branches.
  Nesting two deep covers a callback in a loop, and a registration with its own
  callback inside a flow.  What callbacks may do is a constant (`Allowed`),
  because not every property survives everything: sections 6 and 7.  In
  `hook_storm` (`Storming`) whoever is called by a flow may register (which cleans
  up first), unregister and destruct, a surveyor who is asked for leave may
  destruct and make the hook clean up, a superseded consumer may unregister, and
  every callback may fail.
  The system stops when the bounded number of registrations is used up and
  everyone is gone, hence no deadlock check.
* **TmpProp**.  Two objects: one whose set method runs, one it acts on.  Three
  calls of SetTmpProp() or restarts: an old timer, a new one of the same name,
  and one of another.  `Soon` and `Safety` stand for 5 and 30 seconds; both are 1,
  since what do_update() orders first matters only when it is cut off.  `Later`
  stops counting at `Safety` seconds overdue, which nothing tells apart.  Two
  values, an object's own and the temporary one, are enough to tell a value that
  was overwritten from one that was kept, and to set the temporary one by hand.
  `PlaceRight` compares the binary search with its definition in every sorted
  list of up to `MaxTimers` timers; the theorem is about every length.
* **Channel**.  One channel is enough for its life: others meet it only in the
  limits (`MaxChannels`, `MaxInactive`).  Two objects: the owner, who can be
  loaded anew, and somebody who may be elected, open the channel while it is
  dormant, and give it away.  Two structs: the one a call holds, and the one
  made under its name meanwhile.  `MaxInactive` 0 makes any reset() expire a
  dormant channel, and the closing of a channel whose name is also dormant
  delete it.  The proofs have no such bounds.
* **Transport**.  Three stops: with two, the stop that is loaded anew during a
  pause is the first or the last of the route, and whoever waits at the other one
  is served by accident (the finding needs one in the middle, and so did an
  earlier form of `Served`).  The message makes the route longer than its stops.
  One player: that others keep it going or set it going is `Passing` and
  `TimePasses`, and players meet only where there is no room left; with one who
  travels and room for one, boarding is always possible, so that a full
  transporter is covered by the theorems only, which hold for any number of
  players and any capacity.

## 5. Fairness

The driver runs a call_out that is due, and finishes what it has begun; it
never owes progress to players or objects.  So:

* EventD: `WF(Step)` (process_events(), once its call_out is there) and
  `WF(Create)`: the daemon is loaded again by the next call of `EVENTD->`, which
  comes sooner or later from one of its many users.  Nothing makes anybody
  trigger, register or reset.  A callback ends because eval ticks end.
* Inetd: `WF(CallOuts)` and `WF(Tick)`.  Nothing makes a packet arrive.
* TmpProp: `WF(Tick)` and `WF(Step)`, do_update() once it is due.
* UdpMail: the same two, with the mails unchanged.
* Transport: weak fairness of the three call_outs together: the driver goes on
  making calls, in any order; nobody has to enter, leave or travel.
* HookProvider, Channel: only safety is stated; no fairness.

Two liveness properties need more than fairness, and say so.  `EveryPropEnds` is
about behaviours in which set methods do not fail for ever (`<>[][~Fails]_vars`):
one that always fails is called again by every do_update(), before anything that
comes later in the list.  `Served` and `JourneyEnds` except who was overlooked,
who fights when his stop is reached, stops that may not load, and a transporter
that pauses without listening to the stop, which is the finding
`transport_stranded`.

## 6. The proofs

All for arbitrary values of the constants under the modules' assumptions
(`ConstantsAssumption`: bounds are natural numbers, `None` is no object and no
event, and the like), not for the small instances only.

**EventD_proofs**.  `Invariance == Spec => []IInv`, one lemma per action.  None
of the safety properties is inductive alone.  `SnapshotRegistered` needs that
a type without a key has no entries (`KeysCover`), else a deleted type could
keep a listener that the snapshot copies; `CallsRegisteredOnce` needs that
whoever was called is out of the snapshot (`CalledIsOut`) and that a live closure
belongs to an object that exists (`LiveIsAlive`); `Woken` and the single call_out
need that a running process_events() has entered its successor already
(`Running`) and that an unloaded daemon has nothing to do (`Unloaded`).  From it:
`TypeCorrect`, `SnapshotSafe`, `AlwaysWoken`, and the action property `CallsSafe`.

There too, `Implementation == Spec => ImplementsBus`: initial states
map to initial states, and one lemma per kind of step: EachCall is Deliver,
EachForget is Forget, LoopTake is Begin, EachDone is Finish, Remove and Reboot
are Lose, everything else stutters, under `IInv`.

**Inetd_proofs**.  `OutcomeOnce`: the daemon never tells a sender twice,
restarts, failing senders, duplicates and delays included.  The strengthening
is `PendingOpen`: a pending request is pending in one place and has no outcome.
`RepliesMatch`: with `Calm` (no restarts, no failing udp_reply()) a reply is handed
over for the request it answers.  The argument is that an id stands for one
request: `IdsUnique` with `ReplyMatches` is inductive, over pending entries and
packets under way.  Both conditions of `Calm` are needed: with restarts ids
come again, and a failing udp_reply() sends a REPLY with an id of the other mud.

`IdsStayUnique` states the first half for itself.

On repeats, in the same module: `RepeatsAreRepeats` (under `Calm`): nothing is marked as REPEAT
that was not run before.  The strengthening `IdsRun` says that whatever is about
with an id a mud remembers belongs to a request it has run.  `RunOnce` (under
`Prompt`: `Calm`, and packets are under way for one REPLY_TIME_OUT at most): no
request is run as new twice, for any RETRIES.  The argument is about times:
`Remembered` says that while a copy of a request is under way or can still be
sent, the entry of its id in received_ids lives longer than that, and `Within`
bounds when the copies and the retries come to an end; the retention of
RETRIES + 2 units (line 527) is what makes it inductive.

There too, `ImplementsRemoteCall`, under `Prompt` and if nobody
refuses: initial states map to initial states, and a reply, a time-out and the
run of a request map to those of RemoteCall, everything else stutters.  The
facts it needs are the invariants above, and `RunFirst`: a reply is under way
only for a request that was run.  A refusal would be an answer without a run,
hence the condition.

At last, `LossesMadeGood`: a request is given up only if the network lost more
than RETRIES packets of it or of its answer, that is one for each attempt.  Its
condition `Answering` (no module is silent, packets come within one
REPLY_TIME_OUT) is about the mud at the other end only; restarts, refusals,
failing udp_reply()s and duplicates are included.  The invariant `AttemptsLost`
has two halves: of every attempt that is over a packet was lost, and while the
timer of the last one runs, a packet of it or the answer to it is under way.
Since that must be gone when the time is over, each time-out costs a packet.
That a reply which comes is the end of its request, whatever udp_reply() does with
it, is what makes the second half inductive.

**UdpMail_proofs**.  `Truth == MailSpec => []ToldTheTruth` without any condition:
restarts, failures, refusals, delays and duplicates included.  It holds because
udp_reply() takes all it says from the answer: the invariant says that an answer
under way is true of the mail it names (`SentAfter`), and goes to that mail's
writer (`OfItsWriter`).  `NoMoreThanSent`: if the network makes no copies, no
recipient has more than RETRIES + 1 copies of a mail, with restarts, delays and
everything else included.  `CopiesInv` counts the copies of a mail in the mailbox
together with those under way: while the mail is pending they are no more than
the times it was sent, and never more than RETRIES + 1; that at most one entry of
pending_data stands for a mail (`PendingOpen`) makes it inductive.
`MailTypeCorrect` adds the types of the mails and their copies to those of Inetd.

Two theorems narrow the finding `mail_lost` down to the time-out.
`LostByTimeOutOnly`, for a network that loses, delays and copies as it likes: if
no mailer fails or restarts and no mud refuses (`Reliable`), a mail whose request
has ended is in the mailbox, or its writer was told, or the request timed out.
`KeptIfFewLost` combines it with `LossesMadeGood`: if moreover muds answer in
time, `MailKept` holds in all behaviours in which no request loses more than
RETRIES packets.  The run `mail_lost` needs one loss more.

**Channel_proofs**.  `TypeCorrect` and `NobodyTakesOver`, for any channels,
objects, limits and depth of callbacks.  The inductive invariant `WellFormed`
needs that every struct a call holds is there (`StackOK`), which is what makes
joining and leaving through an old reference harmless; that no two channels
share a struct (`ChannelsOK`), or a change of one would change the supervisor of
another; and that what is dormant and has a history is in the save file unless
`save_me_soon` is set (`Saved`), or a reload could give the name away.

`NobodyThrownOut` (the action property `ClosedOnlyEmpty`): a channel is deactivated
only if nobody is in it, or its supervisor is fixed and neither there nor
loadable.  A close without force looks at the members again, after its message
went out.  A forced one does not, so what it was decided on must still hold;
the invariant `Decided` says why: looking for a supervisor and the forced close
run no code of others, so such a call is always the innermost one (`Quiet`), the
struct it looks at is the active one, and it is still forsaken (`Forsaken`).

`HistoryKeptIfSaved` narrows the finding `channel_history` down to the save file:
in all behaviours in which create() never reads from it, as dormant, a channel
that `/secure/memory` has as active (`UpToDate`), every active channel has its
history.  The invariant is that nothing is active and dormant at once
(`Separate`).

**Transport_proofs**.  For every route, any number of players and any capacity.
`TypeCorrect`: also that there are never more than two series of call_outs.
`NobodyIsLeft`, without a condition: a transporter that pauses has left nobody
inside, nor at a stop it listens to, but for those it has overlooked.
It is inductive with the types: the step into the pause
(`PauseLeaves`) leaves only who was not interactive(); whoever comes afterwards
comes through Come() or Board(), which set it going or order Continue().

**Induction** has `Least` (a set of natural numbers has a least element, from
the theorems about well-founded sets) and `Induct` for a set in place of a
predicate.  The library's induction theorems take an operator as a parameter,
which the provers here cannot instantiate; a theorem about a set they can.

**TmpProp_proofs**.  `PlacesRight`: the binary search of SetTmpProp() (313-333)
ends behind the timers that are due before the new one or with it, in sorted
lists of every length, by induction over the distance of its two bounds.
`TypeCorrect`: types, with the list in order of time, for every time that is given.
All of it holds for any number of objects, names, values and calls, over
restarts, destructed objects, failing set methods and SetTmpProp()s that are
cut off, without a condition: what these leave behind is in the ghosts.
`MethodsEnd` and `ValuesKept` follow from `PropInv`, which says of each object how its
property, its entry and the value it had before go together, and what the object
that is being updated lacks meanwhile; it needs nothing of the timers.
`EntriesTimed` (every entry that is not cut off has a timer do_update() is not
through with) and the action property `EndsOnlyDue` (nothing ends early, but by a
timer left behind) follow from `TimersInv`: the timers do_update() is through
with are due, those behind hold one timer per entry, with the time of the entry,
unless the name is one of `spoilt`.  That inserting and removing timers from within do_update() leaves
those it is through with alone is the heart of it: a new timer goes behind
them because they are due and it is not (`PlacesRight`), and the last timer of a
name is taken out, not the first.

`EndsInTimeUnlessLeft` narrows the finding `tmp_early` down: in all behaviours in
which no lost or interrupted entry leaves a timer (`NoneLeft`), no value ends
before its time.

**HookProvider_proofs**.  For any consumers, priorities, limits, depth and number
of registrations.  What callbacks may do is a parameter, and the theorems say
what each property takes of it:

| Theorem | Property | Callbacks |
|---|---|---|
| `HookTypeCorrect`, `NobodyCalledTwice` | `TypeOK`, `NobodyTwice` | anything |
| `ClosureRegisteredOnce`, `RegistrationsLast`, `FlowsMissNobody` | `RegisteredOnce`, `RegistrationLasts`, `NobodyMissed` | `Modest`: inside a registration (the surveyors' question, superseededHook()) nobody registers or sets the hook off |
| `FlowsInOrder`, `AcceptedStaySorted`, `OnlyStandingCalled` | `CalledInOrder`, `AcceptedSorted`, `CallsStanding` | `Orderly`: `Modest`, and superseededHook() does not make the hook clean up |

What the callbacks of a flow do (its consumers, and surveyors asked for leave) is
never restricted, and every callback may fail at any time.  `Orderly` is what the
library does: its surveyors only answer (`std/hook_surveyor.c:15`,
`room/jail.c:118`), and its only superseded consumer stops fishing
(`std/items/fishing/angel.c:492`).  The conditions are needed; section 7 says
what fails without them.

The invariants build on each other.  `Inv` holds whatever callbacks do: arrays
hold entries that exist, each once; the array of a live frame is the hook's;
what a flow has ahead it has not called yet (`Calling`).  An array of the hook
can hold a zero only if it is the whole array (`OnlyFullZero`).  `ModestInv`: what
stands is in its array, no closure twice (`Once`), the closure that is asked
about is not registered (`Unknown`), and the array of a consumer being told
that it was superseded is the hook's or holds a zero.  `AheadInv`: who was due
when a flow began and stands was called, is ahead in the array the flow goes on
in, or is of a type still to come; the array need not be the hook's any more,
for cleaning up zeroes it in place and registering goes on in a copy.  `OrderlyInv`: what stands
is sorted, but for the entries of registrations that wait for superseededHook()
(`HalfOf`), which an error makes `broken`; and for each flow what is ahead comes
after what was called (`FlowOrder`).  `ListedInv`: what is in an array of the hook
and may be called is standing or broken (`Known`).  So a flow whose array is the
hook's calls nobody else; one that goes on with an older array may come upon an
entry that has been superseded since, and upon no other, because entries that
were unregistered, destructed or expired are not `Valid`.

**Model-checked only**: liveness (`EventsFinish`, `UpdateHappens`,
`EveryRequestEnds`, `EveryPropEnds`, `Served`, `JourneyEnds`), since the prover does
not do fairness.  Every safety and action property of the passing runs is
stated by a theorem, some under the conditions named above.

## 7. Findings, and known limits

Disagreements between the code and what a comment or document says, each with
a run that finds it:

* `mail_lost` (`MailKept`): a mail whose request times out is neither put into
  the spool nor bounced: the time-out never reaches udp_reply() of the mailer,
  because `secure/udp/reply.c` looks for the sender by name only, and the mailer
  gives an object.
* `tmp_early` (`EndsInTime`): when an entry has lost its object, its timer stays
  and later ends another temporary value of the same name before its time.
* `channel_history` (`HistoryKept`): opening a dormant channel does not set
  `save_me_soon`, so after a reload the channel is active and dormant at once;
  when the dormant one expires, the history of the active one is deleted, and
  from then on send() ends in a runtime error.
* `hook_unsorted` (`ListsSorted`): HRegisterToHook() replaces the last entry in
  place, then calls superseededHook(), and sorts afterwards; if that callback
  fails, the array stays unsorted, against the comment at
  `std/hook_provider.c:331`.  What was accepted before stays in order
  (`AcceptedSorted`), but a later registration may replace the wrong entry.
* `transport_stranded` (`NeverStranded`): a stop that is loaded in the middle of
  subscribe_init() makes the transporter give up the stops it has subscribed to
  so far; it then pauses without listening to them.

The precise texts are in `PROJECT.json`.

Limits of what the passing runs show, known from modelling the code:

* Hooks: if a callback unregisters one consumer and registers another,
  unregistering leaves a stale entry, registering cleans up in place, and the
  running flow comes upon a 0 in its array, a runtime error that ends the flow
  (`Advance`; it is in the model and in `hook_storm`, and no property excludes it).
* Hooks, left out by `Allowed`: a surveyor that registers somebody while it is
  asked about them gets them registered twice, since the check (line 303) is made
  before the question (`RegisteredOnce` fails); a registration made inside
  `superseededHook()` may be overwritten when that returns, because the array is
  sorted and assigned afterwards (line 351; `RegistrationLasts` fails).  If a
  superseded consumer makes the hook clean up (HHasConsumers()) and the array has
  two elements or more, the array HRegisterToHook() goes on with holds a zero,
  its sorting fails, and the hook keeps the unsorted array (`AcceptedSorted` fails).
* Hooks: a surveyor that destructs the last consumer of a full array has the new
  entry put in its place, and telling the destructed one (line 342) is a runtime
  error that comes before the sorting: the entry is `broken`, like one whose
  superseededHook() fails.  It stays in the hook and is called, although
  HRegisterToHook() has not returned.  A consumer that was superseded while a flow
  runs may still be called by that flow (`CallsStanding` says when).
* Intermud: `ReplyMatches` fails when udp_reply() fails, as said above.  A
  reloaded daemon counts its packets from 0 again while its peers still know
  those ids, so its first requests are marked as REPEAT (`RepeatIsRepeat` fails
  with `MaxRestarts` 1), against `doc/concepts/intermud.basic`.
* Intermud mail: a refused mail is lost silently, for the bounce has no
  recipient; a repeated mail is delivered again (`CopiesBounded` says how often).
  retry_send() returns without a new call_out after a mail has expired
  (`udp_mail.c:106`), which cannot be seen as long as the spool stays empty.
* Channels: a supervisor who leaves a channel with a fixed supervisor stays its
  supervisor without being a member; a destructed member is a 0 in the array,
  from which a new supervisor cannot be elected, a runtime error; a failing
  create() loses what channelC had not saved (`Unsaved`); an error of a listener
  ends the delivery, and the message is then not in the history; join() to a
  struct that was deactivated meanwhile reports success.
* Transporters: a passenger, or somebody at a stop, who loses his connection does
  not keep the transporter from pausing (lines 641-646 count interactive()
  players, as the comment there says).  If he comes back before his
  heart_beat has moved him away, nothing is called, and he sits in a transporter
  that pauses until somebody comes to a stop, or he gets out and in again
  where it is open.  `NobodyLeft`, `Served` and `JourneyEnds` except just him
  (`overlooked`).  Who fights when his stop is reached travels on.
* Transporters: an error in the departure message stops the chain of call_outs;
  a registration that is refused while a stop's create() calls Continue() leaves
  two series of call_outs (within `TypeOK`); the mark of `meet_last_player` is
  lost when Continue() is called an even number of times; a player who comes
  back from being netdead may be one more than P_MAX_PASSENGERS.
* Temporary properties: a set method that fails whenever do_update() calls it
  blocks all that is due after it: do_update() calls it first each time, and no
  later value ends (`EveryPropEnds` is about the others).  A SetTmpProp() that is
  cut off, by a failing set method or because its time is past, leaves the entry
  of the value it has ended without a timer: IsTmpProp() answers 1 from then on
  (line 282), until somebody sets the property again (`EntryTimed` excepts that
  entry, `cut`).  With the flag `sp`, what somebody sets to a value equal to the
  temporary one is taken for that (line 119) and lost at its end, and a set
  method that fails in SetTmpProp() after it has set the value leaves it
  (`ValueKept` excepts both, `mistaken`).
* Temporary properties: a set method that sets or removes the very property it
  is called for is excluded (`OthersAct`): it would shift the list under
  do_update(), which then cuts off a timer it has not looked at, and the entry
  never ends; so is a SetTmpProp() that is cut off for a property the same
  do_update() is through with.  Every SetTmpProp() orders the call_out anew, and
  an overdue one for five seconds later, so frequent calls put off an overdue end
  as long as they last; `EveryPropEnds` is about the time after the last call.
  After a reload of the daemon all temporary values stay for good, those set by a
  query method included (`Restart`), although the comment at line 226 sees that
  danger for `sp` only.

## 8. What is not modelled, and why

* **Split packets** of the intermud daemon (decode_packet() and
  remove_incoming()).  Buffers meet the rest of the daemon in two places only: a
  complete one is handled like a packet that came in one part, which Inetd has,
  and a lost part is a lost packet, which is lost as a whole in Inetd.  What a
  buffer adds of its own is when it goes away and which parts it takes for one
  packet; a module for that is still to be written.  Reading the code showed
  that remove_incoming() is called with a key that no buffer has (line 793), so
  a buffer whose time-out was not started because a request with its id was
  pending (line 317) stays for good.
* **The spool of intermud mail** (retry_send(), save_spool_item(),
  remove_from_spool()): nothing can put a mail into it, see `mail_lost`.
* **Most of the library by volume** is content and sequential code: the modelled
  daemons are a small share of its lines, and the parts below are not state
  machines with several actors.
* **Sequential, one command at a time**: units of things, questmaster, explorationmaster,
  scoremaster, the guild, title, pub, potion and herb masters, polls, error
  daemon, local mail and news, central bank, teams.  Their hard part is access
  rights and tables, which tests reach.
* **Large and mostly dialogue or formulas**: login and player objects, combat,
  things, containers, rooms, clothing and weapons.  Login would need models of
  exec(), input_to() and the telnet layer.
* **Privileges**: master object and simul_efuns.  No protocol to speak of.
* **Small timers**: doors, light sources, food, the reboot countdown, the death
  sequence.
* **Content and tools**: houses, items, wizard tools, documentation.

Within the modelled parts: in the intermud daemon the host list, requests
without a reply and packet encoding; in the dispatcher the statistics; in the
hook provider the data that consumers change, and several hooks at once (they
share nothing but the call_out that cleans up); in the channel daemon
descriptions, bans and <MasteR>; in the transporter Start(), Halt() and
RemoveRoute() called from outside, a route entry that fails in changeHp()
before connect(), a stop that fails to load in subscribe_init(), homes for the
netdead other than the place they were at, wizards' short cuts and several
transporters at one stop.

## 9. Plan

Done, in this order: EventD with EventBus and its proofs; Inetd with RemoteCall
and its proofs; HookProvider; TmpProp; Channel and Transport with their proofs;
the rest of Inetd's proofs; UdpMail on Inetd with its proofs; the proofs of
TmpProp and of HookProvider.

After that: the retries of Inetd and what becomes of mail (`LossesMadeGood`,
`KeptIfFewLost`), the forced close and the histories of Channel, the early ends of
TmpProp; errors in callbacks and set methods in HookProvider and TmpProp, lost
connections, fights and failing arrivals in Transport.  Of the plan only the
split packets (section 8) are left.

## Running

    tlc -workers 2 -config EventD_bus.cfg MCEventD
    tlapm EventD_proofs.tla

Most runs take seconds, the longest about three minutes on two cores; the
proofs of a module take from half a minute to a few minutes.
