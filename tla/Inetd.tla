-------------------------------- MODULE Inetd --------------------------------
(***************************************************************************)
(* The intermud daemon /secure/inetd.c: requests and replies over UDP.     *)
(*                                                                         *)
(* Every mud runs the same daemon.  A request gets an id, is kept in       *)
(* pending_data, and is sent again when no reply came in time; after       *)
(* RETRIES retries the sender is told of a time-out.  The receiver keeps   *)
(* the ids of the requests it saw in received_ids for a while, and marks a *)
(* request it sees again as REPEAT.  The network loses, duplicates and     *)
(* reorders packets; a restart of the daemon forgets everything.           *)
(*                                                                         *)
(* Time passes in units of REPLY_TIME_OUT.  Whatever is due in a unit      *)
(* happens before the unit ends, in any order.                             *)
(***************************************************************************)
EXTENDS Naturals, Sequences, FiniteSets

CONSTANTS
  MUD,          \* the muds
  RETRIES,      \* RETRIES of sys/udp.h
  Refusing,     \* muds that do not have the request in LOCAL_COMMANDS
  Silent,       \* muds whose request module may end without a reply
  Failing,      \* muds whose udp_reply() may fail
  MaxDelay,     \* units of time a packet is under way, at most
  Duplicates,   \* the network may duplicate packets
  MaxReq,       \* bound: requests in a behaviour
  MaxRestarts   \* bound: restarts of a daemon

ASSUME ConstantsAssumption ==
  /\ RETRIES \in Nat /\ MaxDelay \in Nat /\ MaxReq \in Nat
  /\ MaxRestarts \in Nat
  /\ Refusing \subseteq MUD /\ Silent \subseteq MUD /\ Failing \subseteq MUD
  /\ Duplicates \in BOOLEAN

VARIABLES
  packetId,  \* packet_id of each mud
  pending,   \* pending_data of each mud, with the reply_time_out of each entry
  received,  \* received_ids of each mud, with their remove_received_id
  status,    \* status[m][x]: hosts[x][HOST_STATUS] at m
  net,       \* the packets under way
  restarts,  \* bound: restarts so far
  nextSeq,   \* ghost: the requests are numbered in the order they are made
  outcome,   \* ghost: what udp_reply() was told of a request: the number of
             \* the request that was answered, or TimeOut
  fresh,     \* ghost: how often a request was run without REPEAT
  again,     \* ghost: requests that were run with REPEAT
  unfounded, \* ghost: requests that were run with REPEAT and not before
  losses     \* ghost: how many packets of a request, or replies to it, the
             \* network lost; RETRIES + 1 at most

vars == <<packetId, pending, received, status, net, restarts, nextSeq,
          outcome, fresh, again, unfounded, losses>>
ghosts == <<nextSeq, outcome, fresh, again, unfounded, losses>>

Seqs == 1 .. MaxReq
UpTo(n) == IF n \in 0 .. RETRIES THEN n ELSE RETRIES + 1
TimeOut == 0

\* Mutant: the first time-out is not counted.
RetentionOfRetries == RETRIES + 1

\* Units of time for which an id stays in received_ids (lines 527-528).
Retention == 1 + (RETRIES + 1)

Packet == [kind : {"request", "reply"}, from : MUD, to : MUD, id : Nat,
           seq : Seqs, ttl : 0 .. MaxDelay]
Pending == [to : MUD, id : Nat, seq : Seqs, retry : 0 .. RETRIES,
            timer : 0 .. 1]
Received == [from : MUD, id : Nat, ttl : 0 .. Retention]

Init ==
  /\ packetId = [m \in MUD |-> 0]
  /\ pending = [m \in MUD |-> {}]
  /\ received = [m \in MUD |-> {}]
  /\ status = [m \in MUD |-> [x \in MUD |-> "unknown"]]
  /\ net = {}
  /\ restarts = 0
  /\ nextSeq = 1
  /\ outcome = [s \in Seqs |-> <<>>]
  /\ fresh = [s \in Seqs |-> 0]
  /\ again = {} /\ unfounded = {}
  /\ losses = [s \in Seqs |-> 0]

RequestPacket(m, r) ==
  [kind |-> "request", from |-> m, to |-> r.to, id |-> r.id, seq |-> r.seq,
   ttl |-> MaxDelay]

\* A REPLY carries the id of the request it answers.
ReplyPacket(p) ==
  [kind |-> "reply", from |-> p.to, to |-> p.from, id |-> p.id, seq |-> p.seq,
   ttl |-> MaxDelay]
-----------------------------------------------------------------------------
\* Mutant: the counter is not incremented.
SameId(m) == packetId[m]

\* ++packet_id: zero is not used as an id (708).
NextId(m) == packetId[m] + 1

\* _send_udp() with expect_reply: a new id, an entry in pending_data, and a
\* call_out of reply_time_out.  A send_udp() of the driver that fails leaves all
\* that in place: it is a packet that gets lost.
Request(m, x) ==
  /\ nextSeq <= MaxReq
  /\ packetId' = [packetId EXCEPT ![m] = NextId(m)]
  /\ LET r == [to |-> x, id |-> packetId'[m], seq |-> nextSeq, retry |-> 0,
               timer |-> 1]
     IN /\ pending' = [pending EXCEPT ![m] = @ \cup {r}]
        /\ net' = net \cup {RequestPacket(m, r)}
  /\ nextSeq' = nextSeq + 1
  /\ UNCHANGED <<received, status, restarts, outcome, fresh, again, unfounded,
                 losses>>

\* A packet is taken from the network, or a copy of it.
Rest(p) == IF Duplicates THEN {net, net \ {p}} ELSE {net \ {p}}

\* Any valid packet shows that its sender is up (501).
Heard(p) == [status EXCEPT ![p.to][p.from] = "up"]

\* Mutant: any request to that mud is taken for the answered one.
MatchingMud(p) == {r \in pending[p.to] : r.to = p.from}

\* The entry of pending_data for a reply: by name of the mud and id (506).
Matching(p) == {r \in pending[p.to] : r.to = p.from /\ r.id = p.id}

\* Mutant: the request stays pending.
AnsweredStays(p) == pending

\* pending_data once a reply was taken (520).
Answered(p) == [pending EXCEPT ![p.to] = @ \ Matching(p)]

\* A reply: to udp_reply() if its request is pending, into the bin otherwise.
\* If udp_reply() fails, that is sent as a reply to the reply (533-545).
ReceiveReply(p) ==
  /\ p \in net /\ p.kind = "reply"
  /\ \E n \in Rest(p) :
       \/ net' = n
       \/ /\ p.to \in Failing /\ Matching(p) # {}
          /\ net' = n \cup {ReplyPacket(p)}
  /\ status' = Heard(p)
  /\ pending' = Answered(p)
  /\ outcome' = [s \in Seqs |->
       IF \E r \in Matching(p) : r.seq = s
         THEN Append(outcome[s], p.seq) ELSE outcome[s]]
  /\ UNCHANGED <<packetId, received, restarts, nextSeq, fresh, again,
                 unfounded, losses>>

\* valid_request(): the request is not among the commands of this host; the
\* refusal is sent as a reply, and nothing else happens (420-434).
Refuse(p) ==
  /\ p \in net /\ p.kind = "request" /\ p.to \in Refusing
  /\ \E n \in Rest(p) : net' = n \cup {ReplyPacket(p)}
  /\ UNCHANGED <<packetId, pending, received, status, restarts, ghosts>>

\* Mutant: the ids are never looked at.
SeenNever(p) == FALSE

\* Has the id of the packet been received already (524)?
Seen(p) == \E r \in received[p.to] : r.from = p.from /\ r.id = p.id

\* received_ids once the packet came in (526-528).
Noted(p) ==
  IF Seen(p) THEN received
  ELSE [received EXCEPT ![p.to] =
          @ \cup {[from |-> p.from, id |-> p.id, ttl |-> Retention]}]

\* A request runs its module, marked as REPEAT if the id is known.  The module
\* replies, or its failure does (533-545); some modules end without a reply.
ReceiveRequest(p) ==
  /\ p \in net /\ p.kind = "request" /\ p.to \notin Refusing
  /\ \E n \in Rest(p) :
       \/ net' = n \cup {ReplyPacket(p)}
       \/ p.to \in Silent /\ net' = n
  /\ status' = Heard(p)
  /\ received' = Noted(p)
  /\ IF Seen(p)
       THEN /\ again' = again \cup {p.seq}
            /\ unfounded' = IF fresh[p.seq] = 0 THEN unfounded \cup {p.seq}
                            ELSE unfounded
            /\ fresh' = fresh
       ELSE /\ fresh' = [fresh EXCEPT ![p.seq] = @ + 1]
            /\ UNCHANGED <<again, unfounded>>
  /\ UNCHANGED <<packetId, pending, restarts, nextSeq, outcome, losses>>

\* Mutants: one retry too many, one too few.
HasOneMore(r) == r.retry <= RETRIES
HasOneLess(r) == r.retry + 1 < RETRIES

\* data[RETRY] < RETRIES (768).
HasRetries(r) == r.retry < RETRIES

\* Mutant: the retries are not counted.
RetriedUncounted(r) == [r EXCEPT !.timer = 1]

\* The entry of pending_data of a request that is sent again (771, 780).
Retried(r) ==
  [to |-> r.to, id |-> r.id, seq |-> r.seq, retry |-> r.retry + 1, timer |-> 1]

\* reply_time_out() with retries left: the same data is sent again.
Retry(m, r) ==
  /\ r \in pending[m] /\ r.timer = 0
  /\ HasRetries(r)
  /\ pending' = [pending EXCEPT ![m] =
       (@ \ {r}) \cup {Retried(r)}]
  /\ net' = net \cup {RequestPacket(m, r)}
  /\ UNCHANGED <<packetId, received, status, restarts, ghosts>>

\* pending_data once a request is given up (795).
GivenUp(m, r) == [pending EXCEPT ![m] = @ \ {r}]

\* reply_time_out() without: udp_reply() is told, the host is marked as down.
GiveUp(m, r) ==
  /\ r \in pending[m] /\ r.timer = 0
  /\ ~HasRetries(r)
  /\ pending' = GivenUp(m, r)
  /\ status' = [status EXCEPT ![m][r.to] = "down"]
  /\ outcome' = [outcome EXCEPT ![r.seq] = Append(@, TimeOut)]
  /\ UNCHANGED <<packetId, received, net, restarts, nextSeq, fresh, again,
                 unfounded, losses>>

RemoveReceivedId(m, r) ==
  /\ r \in received[m] /\ r.ttl = 0
  /\ received' = [received EXCEPT ![m] = @ \ {r}]
  /\ UNCHANGED <<packetId, pending, status, net, restarts, ghosts>>

\* remove() and the create() that follows when the daemon is called again:
\* hosts are read from the dump, without their status.
Restart(m) ==
  /\ restarts < MaxRestarts
  /\ restarts' = restarts + 1
  /\ packetId' = [packetId EXCEPT ![m] = 0]
  /\ pending' = [pending EXCEPT ![m] = {}]
  /\ received' = [received EXCEPT ![m] = {}]
  /\ status' = [status EXCEPT ![m] = [x \in MUD |-> "unknown"]]
  /\ UNCHANGED <<net, ghosts>>
-----------------------------------------------------------------------------
(***************************************************************************)
(* The network and the clock.                                              *)
(***************************************************************************)
Overdue == {p \in net : p.ttl = 0}

\* A unit of time is over: what did not arrive in time is lost.
Tick ==
  /\ \A m \in MUD : /\ \A r \in pending[m] : r.timer > 0
                    /\ \A r \in received[m] : r.ttl > 0
  /\ net' = {[p EXCEPT !.ttl = @ - 1] : p \in net \ Overdue}
  /\ losses' = [s \in Seqs |->
       UpTo(losses[s] + Cardinality({p \in Overdue : p.seq = s}))]
  /\ pending' = [m \in MUD |-> {[r EXCEPT !.timer = @ - 1] : r \in pending[m]}]
  /\ received' = [m \in MUD |-> {[r EXCEPT !.ttl = @ - 1] : r \in received[m]}]
  /\ UNCHANGED <<packetId, status, restarts, nextSeq, outcome, fresh, again,
                 unfounded>>

CallOuts ==
  \E m \in MUD : \/ \E r \in pending[m] : Retry(m, r) \/ GiveUp(m, r)
                 \/ \E r \in received[m] : RemoveReceivedId(m, r)

Receive == \E p \in net : ReceiveReply(p) \/ ReceiveRequest(p) \/ Refuse(p)

\* What the daemons and the network do, reloads apart
Work ==
  \/ \E m \in MUD : \E x \in MUD \ {m} : Request(m, x)
  \/ Receive
  \/ CallOuts
  \/ Tick

Next == Work \/ \E m \in MUD : Restart(m)

Spec == Init /\ [][Next]_vars
-----------------------------------------------------------------------------
(***************************************************************************)
(* Properties.                                                             *)
(***************************************************************************)
TypeOK ==
  /\ packetId \in [MUD -> Nat]
  /\ pending \in [MUD -> SUBSET Pending]
  /\ received \in [MUD -> SUBSET Received]
  /\ status \in [MUD -> [MUD -> {"unknown", "up", "down"}]]
  /\ net \in SUBSET Packet
  /\ restarts \in 0 .. MaxRestarts
  /\ nextSeq \in 1 .. MaxReq + 1
  /\ outcome \in [Seqs -> Seq({TimeOut} \cup Seqs)]
  /\ fresh \in [Seqs -> Nat] /\ losses \in [Seqs -> 0 .. RETRIES + 1]
  /\ again \in SUBSET Seqs /\ unfounded \in SUBSET Seqs

\* A request has one outcome: a reply that comes late, twice or together with
\* the time-out is binned, and a time-out is not told after a reply.
OneOutcome == \A s \in Seqs : Len(outcome[s]) <= 1

\* A request is pending at one mud, in one entry, and only while it has no
\* outcome.
PendingOpen ==
  \A m \in MUD : \A r \in pending[m] :
    /\ r.seq < nextSeq /\ outcome[r.seq] = <<>>
    /\ \A n \in MUD : \A t \in pending[n] : t.seq = r.seq => n = m /\ t = r
NotYet == \A s \in Seqs : s >= nextSeq => outcome[s] = <<>>

\* OneOutcome as an inductive invariant.
IInv == TypeOK /\ PendingOpen /\ NotYet /\ OneOutcome

\* The mud that gave a packet its id, if replies answer requests only.
Owner(p) == IF p.kind = "request" THEN p.from ELSE p.to

\* The ids a mud gave and that are still about, with the requests they mean.
Ids(m) == {<<r.id, r.seq>> : r \in pending[m]}
          \cup {<<p.id, p.seq>> : p \in {q \in net : Owner(q) = m}}

\* An id stands for one request.
IdsUnique ==
  \A m \in MUD : \A c, d \in Ids(m) :
    c[1] <= packetId[m] /\ (c[1] = d[1] => c[2] = d[2])

\* A reply is handed over for the request it answers.
ReplyMatches ==
  \A s \in Seqs : \A i \in DOMAIN outcome[s] : outcome[s][i] \in {s, TimeOut}

\* Retries and duplicates of a request are not run as if they were new: the
\* id stays in received_ids for as long as a copy may still come in.
FreshOnce == \A s \in Seqs : fresh[s] <= 1

\* A request is marked as REPEAT only if it really was run before.
RepeatIsRepeat == unfounded = {}

\* Up to RETRIES losses are made good: a request to a mud that answers in time
\* is given up only if the network lost a packet of each of its attempts.
RetriesSuffice ==
  \A s \in Seqs : outcome[s] = <<TimeOut>> => losses[s] > RETRIES

\* Every request comes to an end while its daemon lives.
IsPending(s) == \E m \in MUD : \E r \in pending[m] : r.seq = s
EveryRequestEnds == \A s \in Seqs : IsPending(s) ~> ~IsPending(s)
-----------------------------------------------------------------------------
(***************************************************************************)
(* As long as no daemon restarts and nobody refuses, the daemons implement *)
(* a remote call that is run as new at most once, and that is answered or  *)
(* timed out, never both, and answered only after it was run.              *)
(***************************************************************************)
AbsCall ==
  [s \in Seqs |-> IF s >= nextSeq THEN "new"
                 ELSE IF outcome[s] = <<>> THEN "open"
                 ELSE IF outcome[s] = <<TimeOut>> THEN "timedout"
                 ELSE IF outcome[s] = <<s>> THEN "answered"
                 ELSE "confused"]

Rpc == INSTANCE RemoteCall WITH CALL <- Seqs, call <- AbsCall, ran <- fresh

\* Every behaviour of the daemons is one of the remote call.
ImplementsRpc == Rpc!Spec
=============================================================================
