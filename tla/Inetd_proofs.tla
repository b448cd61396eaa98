---------------------------- MODULE Inetd_proofs ----------------------------
(***************************************************************************)
(* The intermud daemons for every choice of constants.  A request has at   *)
(* most one outcome, restarts and failures included.  While no daemon      *)
(* restarts and udp_reply() does not fail, a reply is handed over for the  *)
(* request it answers, and nothing is taken for a repeat that is none; if, *)
(* moreover, a packet is under way for one REPLY_TIME_OUT at most, nothing *)
(* is run as new twice.  A request to a mud that answers in time is given  *)
(* up only if the network lost a packet of each of its attempts.           *)
(***************************************************************************)
EXTENDS Inetd, FiniteSetTheorems, TLAPS

LEMMA InitIInv == Init => IInv
<1> SUFFICES ASSUME Init PROVE IInv  OBVIOUS
<1> USE ConstantsAssumption DEF Init
<1>1. TypeOK  BY DEF TypeOK, Seqs
<1>2. PendingOpen /\ NotYet /\ OneOutcome
  BY DEF PendingOpen, NotYet, OneOutcome
<1> QED  BY <1>1, <1>2 DEF IInv

LEMMA RequestStep ==
  ASSUME IInv, NEW m \in MUD, NEW x \in MUD \ {m}, Request(m, x)
  PROVE  IInv'
<1> USE ConstantsAssumption DEF Request, IInv
<1> DEFINE r == [to |-> x, id |-> packetId'[m], seq |-> nextSeq, retry |-> 0,
                 timer |-> 1]
<1>1. r \in Pending /\ RequestPacket(m, r) \in Packet
  BY DEF TypeOK, Pending, Packet, RequestPacket, NextId, Seqs
<1>2. TypeOK'
  <2>1. pending' \in [MUD -> SUBSET Pending] /\ net' \in SUBSET Packet
    BY <1>1 DEF TypeOK
  <2>2. packetId' \in [MUD -> Nat] /\ nextSeq' \in 1 .. MaxReq + 1
    BY DEF TypeOK, NextId
  <2> HIDE DEF r
  <2> QED  BY <2>1, <2>2 DEF TypeOK
<1>3. PendingOpen'
  <2>1. pending' = [pending EXCEPT ![m] = @ \cup {r}]  BY Zenon
  <2>6. pending \in [MUD -> SUBSET Pending]  BY DEF TypeOK
  <2> HIDE DEF r, Request, IInv
  <2>5. \A n \in MUD : \A t \in pending'[n] :
          t \in pending[n] \/ (n = m /\ t = r)
    <3>1. pending'[m] = pending[m] \cup {r}  BY <2>1, <2>6
    <3>2. \A n \in MUD : n # m => pending'[n] = pending[n]  BY <2>1, <2>6
    <3> QED  BY <3>1, <3>2
  <2>2. \A n \in MUD : \A t \in pending[n] : t.seq < nextSeq
    BY DEF IInv, PendingOpen
  <2>3. r.seq = nextSeq /\ nextSeq \in Nat /\ outcome[nextSeq] = <<>>
        /\ nextSeq' = nextSeq + 1 /\ outcome' = outcome
    BY DEF r, Request, IInv, TypeOK, NotYet, Seqs
  <2>4. \A n \in MUD : \A t \in pending[n] : t.seq \in Nat
    BY DEF IInv, TypeOK, Pending, Seqs
  <2> QED  BY <2>2, <2>3, <2>4, <2>5 DEF IInv, PendingOpen
<1>4. NotYet' /\ OneOutcome'  BY DEF TypeOK, NotYet, OneOutcome, Seqs
<1> QED  BY <1>2, <1>3, <1>4

LEMMA ReplyIsPacket == ASSUME NEW p \in Packet PROVE ReplyPacket(p) \in Packet
BY ConstantsAssumption DEF Packet, ReplyPacket

LEMMA RestIsPackets ==
  ASSUME net \in SUBSET Packet, NEW p \in net, NEW n \in Rest(p)
  PROVE  n \in SUBSET Packet
BY DEF Rest

LEMMA ReceiveReplyStep ==
  ASSUME IInv, NEW p \in net, ReceiveReply(p)
  PROVE  IInv'
<1> USE DEF ReceiveReply, IInv
<1>1. p \in Packet /\ p.to \in MUD /\ p.from \in MUD /\ p.seq \in Seqs
  BY DEF TypeOK, Packet
<1>2. net' \in SUBSET Packet
  BY <1>1, ReplyIsPacket, RestIsPackets DEF TypeOK
<1>3. outcome' \in [Seqs -> Seq({TimeOut} \cup Seqs)]
  BY <1>1 DEF TypeOK
<1>4. pending' \in [MUD -> SUBSET Pending]
  BY <1>1 DEF TypeOK, Answered, Matching
<1>5. status' \in [MUD -> [MUD -> {"unknown", "up", "down"}]]
  BY <1>1 DEF TypeOK, Heard
<1>6. TypeOK'  BY <1>2, <1>3, <1>4, <1>5 DEF TypeOK
<1>7. ASSUME NEW n \in MUD, NEW r \in pending'[n]
      PROVE  /\ r \in pending[n]
             /\ ~\E t \in Matching(p) : t.seq = r.seq
  <2>1. r \in pending[n] /\ (n = p.to => r \notin Matching(p))
    BY <1>1, <1>7 DEF TypeOK, Answered
  <2>2. ASSUME NEW t \in Matching(p), t.seq = r.seq PROVE FALSE
    <3>1. t \in pending[p.to]  BY DEF Matching
    <3>2. p.to = n /\ t = r
      BY <1>1, <2>1, <2>2, <3>1 DEF PendingOpen
    <3> QED  BY <2>1, <2>2, <3>2
  <2> QED  BY <2>1, <2>2
<1>8. PendingOpen'
  <2>1. ASSUME NEW n \in MUD, NEW r \in pending'[n]
        PROVE  r.seq < nextSeq /\ outcome'[r.seq] = <<>>
    <3>1. r.seq \in Seqs /\ r.seq < nextSeq /\ outcome[r.seq] = <<>>
      BY <1>7, <2>1 DEF TypeOK, PendingOpen, Pending
    <3> QED  BY <1>7, <2>1, <3>1
  <2>2. \A n \in MUD : \A r \in pending'[n] : r \in pending[n]  BY <1>7
  <2>3. \A n \in MUD : \A r \in pending[n] : \A k \in MUD :
          \A t \in pending[k] : t.seq = r.seq => k = n /\ t = r
    BY DEF PendingOpen
  <2>4. nextSeq' = nextSeq  OBVIOUS
  <2> HIDE DEF ReceiveReply, IInv
  <2> QED  BY <2>1, <2>2, <2>3, <2>4 DEF PendingOpen
<1>9. \A r \in Matching(p) :
        r.seq \in Seqs /\ r.seq < nextSeq /\ outcome[r.seq] = <<>>
  BY <1>1 DEF TypeOK, Matching, PendingOpen, Pending
<1>10. NotYet'
  BY <1>9 DEF TypeOK, NotYet, Seqs
<1>11. OneOutcome'
  <2> SUFFICES ASSUME NEW s \in Seqs PROVE Len(outcome'[s]) <= 1
    BY DEF OneOutcome
  <2>1. CASE \E r \in Matching(p) : r.seq = s
    <3>1. outcome[s] = <<>> /\ outcome'[s] = Append(outcome[s], p.seq)
      BY <1>9, <2>1
    <3> QED  BY <3>1
  <2>2. CASE ~\E r \in Matching(p) : r.seq = s
    BY <2>2 DEF OneOutcome
  <2> QED  BY <2>1, <2>2
<1> QED  BY <1>6, <1>8, <1>10, <1>11

LEMMA RefuseStep ==
  ASSUME IInv, NEW p \in net, Refuse(p)
  PROVE  IInv'
<1> USE DEF Refuse, IInv, ghosts
<1>1. net' \in SUBSET Packet
  BY ReplyIsPacket, RestIsPackets DEF TypeOK
<1>2. TypeOK'  BY <1>1 DEF TypeOK
<1>3. PendingOpen' /\ NotYet' /\ OneOutcome'
  BY DEF PendingOpen, NotYet, OneOutcome
<1> QED  BY <1>2, <1>3

LEMMA ReceiveRequestStep ==
  ASSUME IInv, NEW p \in net, ReceiveRequest(p)
  PROVE  IInv'
<1> USE DEF ReceiveRequest, IInv
<1>1. p \in Packet /\ p.to \in MUD /\ p.from \in MUD /\ p.seq \in Seqs
      /\ p.id \in Nat
  BY DEF TypeOK, Packet
<1>2. net' \in SUBSET Packet
  BY ReplyIsPacket, RestIsPackets DEF TypeOK
<1>3. [from |-> p.from, id |-> p.id, ttl |-> Retention] \in Received
  BY <1>1, ConstantsAssumption DEF Received, Retention
<1>4. received' \in [MUD -> SUBSET Received]
  BY <1>1, <1>3 DEF TypeOK, Noted
<1>5. status' \in [MUD -> [MUD -> {"unknown", "up", "down"}]]
  BY <1>1 DEF TypeOK, Heard
<1>6. /\ fresh' \in [Seqs -> Nat]
      /\ again' \in SUBSET Seqs /\ unfounded' \in SUBSET Seqs
  BY <1>1 DEF TypeOK
<1>7. TypeOK'  BY <1>2, <1>4, <1>5, <1>6 DEF TypeOK
<1>8. PendingOpen' /\ NotYet' /\ OneOutcome'
  BY DEF PendingOpen, NotYet, OneOutcome
<1> QED  BY <1>7, <1>8

LEMMA RetryStep ==
  ASSUME IInv, NEW m \in MUD, NEW r \in pending[m], Retry(m, r)
  PROVE  IInv'
<1> USE ConstantsAssumption DEF Retry, IInv, ghosts
<1>1. r \in Pending  BY DEF TypeOK
<1>2. Retried(r) \in Pending /\ RequestPacket(m, r) \in Packet
  BY <1>1 DEF Retried, HasRetries, Pending, Packet, RequestPacket
<1>3. TypeOK'  BY <1>2 DEF TypeOK
<1>4. Retried(r).seq = r.seq  BY <1>1 DEF Retried, Pending
<1>5. \A n \in MUD : \A t \in pending'[n] :
        \/ t \in pending[n] /\ (n = m => t # r)
        \/ n = m /\ t = Retried(r)
  BY DEF TypeOK
<1>6. PendingOpen'  BY <1>4, <1>5 DEF PendingOpen
<1>7. NotYet' /\ OneOutcome'  BY DEF NotYet, OneOutcome
<1> QED  BY <1>3, <1>6, <1>7

LEMMA GiveUpStep ==
  ASSUME IInv, NEW m \in MUD, NEW r \in pending[m], GiveUp(m, r)
  PROVE  IInv'
<1> USE ConstantsAssumption DEF GiveUp, IInv
<1>1. r \in Pending /\ r.seq \in Seqs /\ r.to \in MUD
      /\ outcome[r.seq] = <<>> /\ r.seq < nextSeq
  BY DEF TypeOK, Pending, PendingOpen
<1>2. \A n \in MUD : \A t \in pending'[n] :
        t \in pending[n] /\ (n = m => t # r)
  BY DEF TypeOK, GivenUp
<1>3. outcome' = [outcome EXCEPT ![r.seq] = <<TimeOut>>]
  BY <1>1 DEF TypeOK
<1>4. <<TimeOut>> \in Seq({TimeOut} \cup Seqs) /\ Len(<<TimeOut>>) = 1
  OBVIOUS
<1>5. outcome' \in [Seqs -> Seq({TimeOut} \cup Seqs)]
  BY <1>1, <1>3, <1>4 DEF TypeOK
<1>6. pending' \in [MUD -> SUBSET Pending]  BY DEF TypeOK, GivenUp
<1>7. TypeOK'  BY <1>1, <1>5, <1>6 DEF TypeOK
<1>8. \A n \in MUD : \A t \in pending'[n] : t.seq # r.seq /\ t.seq \in Seqs
  BY <1>2 DEF PendingOpen, TypeOK, Pending
<1>9. PendingOpen'  BY <1>1, <1>2, <1>3, <1>8 DEF PendingOpen, TypeOK
<1>10. NotYet'
  <2>1. \A s \in Seqs : s # r.seq => outcome'[s] = outcome[s]  BY <1>3 DEF TypeOK
  <2>2. nextSeq \in Nat /\ r.seq \in Nat  BY <1>1 DEF TypeOK, Seqs
  <2> QED  BY <1>1, <2>1, <2>2 DEF NotYet
<1>11. OneOutcome'  BY <1>1, <1>3, <1>4 DEF OneOutcome, TypeOK
<1> QED  BY <1>7, <1>9, <1>10, <1>11

LEMMA RemoveReceivedIdStep ==
  ASSUME IInv, NEW m \in MUD, NEW r \in received[m], RemoveReceivedId(m, r)
  PROVE  IInv'
BY DEF RemoveReceivedId, ghosts, IInv, TypeOK, PendingOpen, NotYet, OneOutcome

LEMMA RestartStep ==
  ASSUME IInv, NEW m \in MUD, Restart(m)
  PROVE  IInv'
<1> USE ConstantsAssumption DEF Restart, IInv, ghosts
<1>1. TypeOK'  BY DEF TypeOK
<1>2. PendingOpen'  BY DEF TypeOK, PendingOpen
<1>3. NotYet' /\ OneOutcome'  BY DEF NotYet, OneOutcome
<1> QED  BY <1>1, <1>2, <1>3

LEMMA TickStep ==
  ASSUME IInv, Tick
  PROVE  IInv'
<1> USE ConstantsAssumption DEF Tick, IInv
<1>1. net' \in SUBSET Packet
  <2>1. ASSUME NEW p \in net, p.ttl # 0
        PROVE  [p EXCEPT !.ttl = @ - 1] \in Packet
    <3>1. p \in Packet  BY <2>1 DEF TypeOK
    <3> HIDE DEF Tick, IInv
    <3>2. p.ttl \in 0 .. MaxDelay /\ MaxDelay \in Nat  BY <3>1 DEF Packet
    <3>3. p.ttl - 1 \in 0 .. MaxDelay  BY <2>1, <3>2
    <3> QED  BY <3>1, <3>3 DEF Packet
  <2> QED  BY <2>1 DEF Overdue
<1>2. ASSUME NEW n \in MUD, NEW r \in pending[n]
      PROVE  /\ [r EXCEPT !.timer = @ - 1] \in Pending
             /\ [r EXCEPT !.timer = @ - 1].seq = r.seq
  <2>1. r \in Pending /\ r.timer > 0  BY DEF TypeOK
  <2> QED  BY <2>1 DEF Pending
<1>3. ASSUME NEW n \in MUD, NEW r \in received[n]
      PROVE  [r EXCEPT !.ttl = @ - 1] \in Received
  <2>1. r \in Received /\ r.ttl > 0  BY DEF TypeOK
  <2> QED  BY <2>1 DEF Received, Retention
<1>4. losses' \in [Seqs -> 0 .. RETRIES + 1]  BY DEF UpTo
<1>5. pending' \in [MUD -> SUBSET Pending]  BY <1>2
<1>6. received' \in [MUD -> SUBSET Received]  BY <1>3
<1>7. TypeOK'  BY <1>1, <1>4, <1>5, <1>6 DEF TypeOK
<1>8. \A n \in MUD : \A t \in pending'[n] : \E r \in pending[n] :
        t = [r EXCEPT !.timer = @ - 1] /\ t.seq = r.seq
  <2>1. \A n \in MUD : pending'[n] = {[r EXCEPT !.timer = @ - 1] : r \in pending[n]}
    OBVIOUS
  <2> TAKE n \in MUD
  <2> TAKE t \in pending'[n]
  <2>2. PICK r \in pending[n] : t = [r EXCEPT !.timer = @ - 1]  BY <2>1
  <2> QED  BY <1>2, <2>2
<1>9. PendingOpen'  BY <1>8 DEF PendingOpen
<1>10. NotYet' /\ OneOutcome'  BY DEF NotYet, OneOutcome
<1> QED  BY <1>7, <1>9, <1>10

LEMMA NextIInv == IInv /\ [Next]_vars => IInv'
<1> SUFFICES ASSUME IInv, [Next]_vars PROVE IInv'  OBVIOUS
<1>1. CASE \E m \in MUD : \E x \in MUD \ {m} : Request(m, x)
  BY <1>1, RequestStep
<1>2. CASE Receive
  BY <1>2, ReceiveReplyStep, ReceiveRequestStep, RefuseStep DEF Receive
<1>3. CASE CallOuts
  BY <1>3, RetryStep, GiveUpStep, RemoveReceivedIdStep DEF CallOuts
<1>4. CASE \E m \in MUD : Restart(m)  BY <1>4, RestartStep
<1>5. CASE Tick  BY <1>5, TickStep
<1>6. CASE UNCHANGED vars
  BY <1>6 DEF vars, IInv, TypeOK, PendingOpen, NotYet, OneOutcome
<1> QED  BY <1>1, <1>2, <1>3, <1>4, <1>5, <1>6 DEF Next, Work

\* The inductive invariant holds in every reachable state of the daemons.
THEOREM Invariance == Spec => []IInv
BY InitIInv, NextIInv, PTL DEF Spec

\* Every variable keeps its type; what is about of a request stays in bounds.
THEOREM TypeCorrect == Spec => []TypeOK
<1>1. IInv => TypeOK  BY DEF IInv
<1> QED  BY <1>1, Invariance, PTL

\* A reply that is late, repeated or in a race with reply_time_out(), and a
\* restart in between, never give a request two outcomes.
THEOREM OutcomeOnce == Spec => []OneOutcome
<1>1. IInv => OneOutcome  BY DEF IInv
<1> QED  BY <1>1, Invariance, PTL
-----------------------------------------------------------------------------
(***************************************************************************)
(* Replies and the requests they answer.  Both assumptions are needed: a   *)
(* restart gives ids anew, and a failing udp_reply() replies to a reply.   *)
(***************************************************************************)
Calm == MaxRestarts = 0 /\ Failing = {}

MatchInv == TypeOK /\ IdsUnique /\ ReplyMatches

LEMMA IdsKept ==
  ASSUME IdsUnique, packetId' = packetId, \A m \in MUD : Ids(m)' \subseteq Ids(m)
  PROVE  IdsUnique'
BY DEF IdsUnique

\* A reply belongs to the owner of the request.
LEMMA OwnerOfReply ==
  ASSUME NEW p, p.kind = "request"
  PROVE  /\ Owner(ReplyPacket(p)) = Owner(p)
         /\ ReplyPacket(p).id = p.id /\ ReplyPacket(p).seq = p.seq
BY DEF Owner, ReplyPacket

\* Packets that bring no new id.
LEMMA IdsOfPackets ==
  ASSUME NEW p \in net, p.kind = "request", NEW n \in Rest(p),
         net' \subseteq n \cup {ReplyPacket(p)},
         \A m \in MUD : pending'[m] \subseteq pending[m]
  PROVE  \A m \in MUD : Ids(m)' \subseteq Ids(m)
<1>1. n \subseteq net  BY DEF Rest
<1>2. \A q \in net' : \E o \in net : Owner(q) = Owner(o) /\ q.id = o.id /\ q.seq = o.seq
  BY <1>1, OwnerOfReply
<1> TAKE m \in MUD
<1>3. \A r \in pending'[m] : <<r.id, r.seq>> \in Ids(m)  BY DEF Ids
<1>4. ASSUME NEW q \in net', Owner(q) = m PROVE <<q.id, q.seq>> \in Ids(m)
  <2>1. PICK o \in net : Owner(q) = Owner(o) /\ q.id = o.id /\ q.seq = o.seq
    BY <1>2
  <2> QED  BY <1>4, <2>1 DEF Ids
<1> QED  BY <1>3, <1>4 DEF Ids, Owner

LEMMA RequestIds ==
  ASSUME MatchInv, IInv, NEW m \in MUD, NEW x \in MUD \ {m}, Request(m, x)
  PROVE  /\ IdsUnique' /\ ReplyMatches'
         /\ \A k \in MUD : \A c \in Ids(k)' :
              c \in Ids(k) \/ (k = m /\ c = <<packetId[m] + 1, nextSeq>>)
<1> DEFINE r == [to |-> x, id |-> packetId'[m], seq |-> nextSeq, retry |-> 0,
                 timer |-> 1]
<1>1. /\ packetId' = [packetId EXCEPT ![m] = packetId[m] + 1]
      /\ pending' = [pending EXCEPT ![m] = @ \cup {r}]
      /\ net' = net \cup {RequestPacket(m, r)}
      /\ outcome' = outcome
  BY Zenon DEF Request, NextId
<1>2. /\ packetId \in [MUD -> Nat] /\ pending \in [MUD -> SUBSET Pending]
      /\ net \in SUBSET Packet
  BY DEF MatchInv, TypeOK
<1>3. r.id = packetId[m] + 1 /\ r.seq = nextSeq  BY <1>1, <1>2
<1>4. /\ Owner(RequestPacket(m, r)) = m
      /\ RequestPacket(m, r).id = packetId[m] + 1
      /\ RequestPacket(m, r).seq = nextSeq
  BY <1>3 DEF Owner, RequestPacket
<1> HIDE DEF r
<1>5. ASSUME NEW k \in MUD, NEW c \in Ids(k)'
      PROVE  c \in Ids(k) \/ (k = m /\ c = <<packetId[m] + 1, nextSeq>>)
  <2>1. CASE \E t \in pending'[k] : c = <<t.id, t.seq>>
    <3>1. PICK t \in pending'[k] : c = <<t.id, t.seq>>  BY <2>1
    <3>2. t \in pending[k] \/ (k = m /\ t = r)
      <4>1. pending'[m] = pending[m] \cup {r}  BY <1>1, <1>2
      <4>2. k # m => pending'[k] = pending[k]  BY <1>1, <1>2
      <4> QED  BY <4>1, <4>2
    <3> QED  BY <1>3, <3>1, <3>2 DEF Ids
  <2>2. CASE \E q \in net' : Owner(q) = k /\ c = <<q.id, q.seq>>
    <3>1. PICK q \in net' : Owner(q) = k /\ c = <<q.id, q.seq>>  BY <2>2
    <3>2. q \in net \/ q = RequestPacket(m, r)  BY <1>1
    <3> QED  BY <1>4, <3>1, <3>2 DEF Ids
  <2> QED  BY <1>5, <2>1, <2>2 DEF Ids, Owner
<1>6. \A k \in MUD : \A c \in Ids(k) : c[1] \in Nat /\ c[1] <= packetId[k]
  <2>1. \A k \in MUD : \A c \in Ids(k) : c[1] \in Nat
    BY <1>2 DEF Ids, Pending, Packet
  <2>2. \A k \in MUD : \A c \in Ids(k) : c[1] <= packetId[k]
    BY DEF MatchInv, IdsUnique
  <2> QED  BY <2>1, <2>2
<1>7. IdsUnique'
  <2> SUFFICES ASSUME NEW k \in MUD, NEW c \in Ids(k)', NEW d \in Ids(k)'
               PROVE  c[1] <= packetId'[k] /\ (c[1] = d[1] => c[2] = d[2])
    BY DEF IdsUnique
  <2>1. packetId[k] \in Nat /\ packetId[k] <= packetId'[k]
        /\ (k = m => packetId'[k] = packetId[k] + 1)
    BY <1>1, <1>2
  <2>2. packetId'[k] \in Nat  BY <1>1, <1>2
  <2>3. c \in Ids(k) \/ (k = m /\ c = <<packetId[m] + 1, nextSeq>>)  BY <1>5
  <2>4. d \in Ids(k) \/ (k = m /\ d = <<packetId[m] + 1, nextSeq>>)  BY <1>5
  <2>5. c \in Ids(k) => c[1] \in Nat /\ c[1] <= packetId[k]  BY <1>6
  <2>6. d \in Ids(k) => d[1] \in Nat /\ d[1] <= packetId[k]  BY <1>6
  <2>7. c \in Ids(k) /\ d \in Ids(k) => (c[1] = d[1] => c[2] = d[2])
    BY DEF MatchInv, IdsUnique
  <2> QED  BY <2>1, <2>2, <2>3, <2>4, <2>5, <2>6, <2>7
<1>8. ReplyMatches'  BY <1>1 DEF MatchInv, ReplyMatches
<1> QED  BY <1>5, <1>7, <1>8

LEMMA ReplyIds ==
  ASSUME MatchInv, Calm, NEW p \in net, ReceiveReply(p)
  PROVE  /\ IdsUnique' /\ ReplyMatches'
         /\ \A k \in MUD : Ids(k)' \subseteq Ids(k)
<1>1. /\ p \in Packet /\ p.to \in MUD /\ p.seq \in Seqs /\ p.kind = "reply"
      /\ pending' = [pending EXCEPT ![p.to] = @ \ Matching(p)]
      /\ packetId' = packetId
  BY DEF ReceiveReply, MatchInv, TypeOK, Packet, Answered
<1>2. net' \subseteq net  BY DEF ReceiveReply, Calm, Rest
<1>3. \A m \in MUD : pending'[m] \subseteq pending[m]
  BY <1>1 DEF MatchInv, TypeOK
<1>4. \A m \in MUD : Ids(m)' \subseteq Ids(m)  BY <1>2, <1>3 DEF Ids, Owner
<1>5. IdsUnique'  BY <1>1, <1>4, IdsKept DEF MatchInv
<1>6. ASSUME NEW r \in Matching(p) PROVE r.seq = p.seq
  <2>1. r \in pending[p.to] /\ r.id = p.id  BY DEF Matching
  <2>2. <<r.id, r.seq>> \in Ids(p.to)  BY <2>1 DEF Ids
  <2>3. <<p.id, p.seq>> \in Ids(p.to)  BY <1>1 DEF Ids, Owner
  <2> QED  BY <1>1, <2>1, <2>2, <2>3 DEF MatchInv, IdsUnique
<1>7. ReplyMatches'
  <2> SUFFICES ASSUME NEW s \in Seqs, NEW i \in DOMAIN outcome'[s]
               PROVE  outcome'[s][i] \in {s, TimeOut}
    BY DEF ReplyMatches
  <2>1. outcome[s] \in Seq({TimeOut} \cup Seqs)  BY DEF MatchInv, TypeOK
  <2>2. outcome'[s] = IF \E r \in Matching(p) : r.seq = s
                        THEN Append(outcome[s], p.seq) ELSE outcome[s]
    BY DEF ReceiveReply
  <2>3. CASE \E r \in Matching(p) : r.seq = s
    <3>1. outcome'[s] = Append(outcome[s], s)  BY <1>6, <2>2, <2>3
    <3>2. i \in 1 .. Len(outcome[s]) + 1  BY <1>1, <2>1, <3>1
    <3>3. CASE i \in 1 .. Len(outcome[s])
      BY <2>1, <3>1, <3>3 DEF MatchInv, ReplyMatches
    <3>4. CASE i = Len(outcome[s]) + 1  BY <2>1, <3>1, <3>4
    <3> QED  BY <2>1, <3>2, <3>3, <3>4
  <2>4. CASE ~\E r \in Matching(p) : r.seq = s
    BY <2>2, <2>4 DEF MatchInv, ReplyMatches
  <2> QED  BY <2>3, <2>4
<1> QED  BY <1>4, <1>5, <1>7

LEMMA RetryIds ==
  ASSUME MatchInv, NEW m \in MUD, NEW r \in pending[m], Retry(m, r)
  PROVE  /\ IdsUnique' /\ ReplyMatches'
         /\ \A k \in MUD : Ids(k)' \subseteq Ids(k)
<1>1. /\ pending' = [pending EXCEPT ![m] = (@ \ {r}) \cup {Retried(r)}]
      /\ net' = net \cup {RequestPacket(m, r)}
      /\ packetId' = packetId /\ outcome' = outcome
  BY DEF Retry, ghosts
<1>2. Retried(r).id = r.id /\ Retried(r).seq = r.seq  BY DEF Retried
<1>3. /\ Owner(RequestPacket(m, r)) = m
      /\ RequestPacket(m, r).id = r.id /\ RequestPacket(m, r).seq = r.seq
  BY DEF Owner, RequestPacket
<1>4. ASSUME NEW k \in MUD PROVE Ids(k)' \subseteq Ids(k)
  <2>1. <<r.id, r.seq>> \in Ids(m)  BY DEF Ids
  <2>2. ASSUME NEW t \in pending'[k] PROVE <<t.id, t.seq>> \in Ids(k)
    <3>1. t \in pending[k] \/ (k = m /\ t = Retried(r))
      BY <1>1 DEF MatchInv, TypeOK
    <3> QED  BY <1>2, <2>1, <3>1 DEF Ids
  <2>3. ASSUME NEW q \in net', Owner(q) = k PROVE <<q.id, q.seq>> \in Ids(k)
    BY <1>1, <1>3, <2>1, <2>3 DEF Ids
  <2> QED  BY <2>2, <2>3 DEF Ids, Owner
<1> QED  BY <1>1, <1>4, IdsKept DEF MatchInv, ReplyMatches

LEMMA GiveUpIds ==
  ASSUME MatchInv, NEW m \in MUD, NEW r \in pending[m], GiveUp(m, r)
  PROVE  /\ IdsUnique' /\ ReplyMatches'
         /\ \A k \in MUD : Ids(k)' \subseteq Ids(k)
<1>1. r.seq \in Seqs  BY DEF MatchInv, TypeOK, Pending
<1>2. /\ \A k \in MUD : pending'[k] \subseteq pending[k]
      /\ net' = net /\ packetId' = packetId
  BY DEF GiveUp, GivenUp, MatchInv, TypeOK
<1>3. \A k \in MUD : Ids(k)' \subseteq Ids(k)  BY <1>2 DEF Ids, Owner
<1>4. IdsUnique'  BY <1>2, <1>3, IdsKept DEF MatchInv
<1>5. ReplyMatches'
  <2> SUFFICES ASSUME NEW s \in Seqs, NEW i \in DOMAIN outcome'[s]
               PROVE  outcome'[s][i] \in {s, TimeOut}
    BY DEF ReplyMatches
  <2>1. outcome[s] \in Seq({TimeOut} \cup Seqs)  BY DEF MatchInv, TypeOK
  <2>2. outcome'[s] = IF s = r.seq THEN Append(outcome[s], TimeOut) ELSE outcome[s]
    BY <1>1 DEF GiveUp, MatchInv, TypeOK
  <2>3. i \in 1 .. Len(outcome[s]) \/ (s = r.seq /\ i = Len(outcome[s]) + 1)
    BY <2>1, <2>2
  <2>4. CASE i \in 1 .. Len(outcome[s])
    BY <2>1, <2>2, <2>4 DEF MatchInv, ReplyMatches
  <2>5. CASE s = r.seq /\ i = Len(outcome[s]) + 1  BY <2>1, <2>2, <2>5
  <2> QED  BY <2>3, <2>4, <2>5
<1> QED  BY <1>3, <1>4, <1>5

LEMMA TickIds ==
  ASSUME MatchInv, Tick
  PROVE  /\ IdsUnique' /\ ReplyMatches'
         /\ \A k \in MUD : Ids(k)' \subseteq Ids(k)
<1>1. /\ packetId' = packetId /\ outcome' = outcome
      /\ net' = {[p EXCEPT !.ttl = @ - 1] : p \in net \ Overdue}
      /\ \A m \in MUD :
           pending'[m] = {[r EXCEPT !.timer = @ - 1] : r \in pending[m]}
  BY DEF Tick
<1>2. ASSUME NEW m \in MUD PROVE Ids(m)' \subseteq Ids(m)
  <2>1. ASSUME NEW t \in pending'[m] PROVE <<t.id, t.seq>> \in Ids(m)
    <3>1. PICK r \in pending[m] : t = [r EXCEPT !.timer = @ - 1]  BY <1>1
    <3>2. r \in Pending  BY DEF MatchInv, TypeOK
    <3>3. t.id = r.id /\ t.seq = r.seq  BY <3>1, <3>2 DEF Pending
    <3> QED  BY <3>3 DEF Ids
  <2>2. ASSUME NEW q \in net', Owner(q) = m PROVE <<q.id, q.seq>> \in Ids(m)
    <3>1. PICK p \in net : q = [p EXCEPT !.ttl = @ - 1]  BY <1>1
    <3>2. p \in Packet  BY DEF MatchInv, TypeOK
    <3>3. q.id = p.id /\ q.seq = p.seq /\ Owner(q) = Owner(p)
      BY <3>1, <3>2 DEF Packet, Owner
    <3> QED  BY <2>2, <3>3 DEF Ids
  <2> QED  BY <2>1, <2>2 DEF Ids, Owner
<1> QED  BY <1>1, <1>2, IdsKept DEF MatchInv, ReplyMatches

LEMMA NextMatch ==
  ASSUME Calm, MatchInv, IInv, [Next]_vars
  PROVE  MatchInv'
<1>1. TypeOK'  BY NextIInv DEF IInv
<1>2. IdsUnique' /\ ReplyMatches'
  <2>1. CASE \E m \in MUD : \E x \in MUD \ {m} : Request(m, x)
    BY <2>1, RequestIds
  <2>2. ASSUME NEW p \in net, ReceiveReply(p) PROVE IdsUnique' /\ ReplyMatches'
    BY <2>2, ReplyIds
  <2>3. ASSUME NEW p \in net, ReceiveRequest(p)
        PROVE  IdsUnique' /\ ReplyMatches'
    <3>1. /\ pending' = pending /\ packetId' = packetId /\ outcome' = outcome
          /\ p.kind = "request"
      BY <2>3 DEF ReceiveRequest
    <3>2. \E n \in Rest(p) : net' \subseteq n \cup {ReplyPacket(p)}
      BY <2>3 DEF ReceiveRequest
    <3> QED  BY <3>1, <3>2, IdsOfPackets, IdsKept DEF MatchInv, ReplyMatches
  <2>4. ASSUME NEW p \in net, Refuse(p) PROVE IdsUnique' /\ ReplyMatches'
    <3>1. /\ pending' = pending /\ packetId' = packetId /\ outcome' = outcome
          /\ p.kind = "request"
      BY <2>4 DEF Refuse, ghosts
    <3>2. \E n \in Rest(p) : net' \subseteq n \cup {ReplyPacket(p)}
      BY <2>4 DEF Refuse
    <3> QED  BY <3>1, <3>2, IdsOfPackets, IdsKept DEF MatchInv, ReplyMatches
  <2>5. CASE CallOuts
    <3>1. ASSUME NEW m \in MUD, NEW r \in received[m], RemoveReceivedId(m, r)
          PROVE  IdsUnique' /\ ReplyMatches'
      BY <3>1 DEF RemoveReceivedId, ghosts, MatchInv, IdsUnique, Ids, Owner,
         ReplyMatches
    <3> QED  BY <2>5, <3>1, RetryIds, GiveUpIds DEF CallOuts
  <2>6. CASE \E m \in MUD : Restart(m)
    BY <2>6 DEF Restart, Calm, MatchInv, TypeOK
  <2>7. CASE Tick  BY <2>7, TickIds
  <2>8. CASE UNCHANGED vars
    BY <2>8 DEF vars, MatchInv, IdsUnique, Ids, Owner, ReplyMatches
  <2> QED  BY <2>1, <2>2, <2>3, <2>4, <2>5, <2>6, <2>7, <2>8 DEF Next, Work, Receive
<1> QED  BY <1>1, <1>2 DEF MatchInv

LEMMA InitMatch == Init => MatchInv
<1> SUFFICES ASSUME Init PROVE MatchInv  OBVIOUS
<1>1. TypeOK  BY InitIInv DEF IInv
<1>2. \A m \in MUD : Ids(m) = {}  BY DEF Init, Ids
<1>3. IdsUnique /\ ReplyMatches  BY <1>2 DEF Init, IdsUnique, ReplyMatches
<1> QED  BY <1>1, <1>3 DEF MatchInv

LEMMA AlwaysMatch == Calm => (Spec => []MatchInv)
<1> SUFFICES ASSUME Calm PROVE Spec => []MatchInv  OBVIOUS
<1>1. MatchInv /\ IInv /\ IInv' /\ [Next]_vars => MatchInv'  BY NextMatch
<1> QED  BY <1>1, InitMatch, Invariance, PTL DEF Spec

\* However late, reordered or duplicated packets are, a reply is handed over
\* for the request it answers, as long as no daemon restarts and no
\* udp_reply() fails.
THEOREM RepliesMatch == Calm => (Spec => []ReplyMatches)
<1> SUFFICES ASSUME Calm PROVE Spec => []ReplyMatches  OBVIOUS
<1>1. MatchInv => ReplyMatches  BY DEF MatchInv
<1> QED  BY <1>1, AlwaysMatch, PTL

\* The id of a packet tells the request it belongs to, as long as a copy or an
\* entry of pending_data with that id is about (708).
THEOREM IdsStayUnique == Calm => (Spec => []IdsUnique)
<1> SUFFICES ASSUME Calm PROVE Spec => []IdsUnique  OBVIOUS
<1>1. MatchInv => IdsUnique  BY DEF MatchInv
<1> QED  BY <1>1, AlwaysMatch, PTL
-----------------------------------------------------------------------------
(***************************************************************************)
(* No request is marked as REPEAT for nothing: whatever is about with an   *)
(* id that a mud remembers belongs to a request that it has run.           *)
(***************************************************************************)
IdsRun ==
  \A n \in MUD : \A e \in received[n] :
    /\ e.id <= packetId[e.from]
    /\ \A c \in Ids(e.from) : c[1] = e.id => fresh[c[2]] # 0

RepeatInv == IdsRun /\ RepeatIsRepeat

\* The ids that are remembered, whatever becomes of their call_outs
LEMMA IdsRunKept ==
  ASSUME TypeOK, IdsRun, packetId' = packetId, fresh' = fresh,
         \A m \in MUD : Ids(m)' \subseteq Ids(m),
         \A n \in MUD : \A e \in received'[n] :
           \E f \in received[n] : e.from = f.from /\ e.id = f.id
  PROVE  IdsRun'
<1> SUFFICES ASSUME NEW n \in MUD, NEW e \in received'[n]
             PROVE  /\ e.id <= packetId'[e.from]
                    /\ \A c \in Ids(e.from)' : c[1] = e.id => fresh'[c[2]] # 0
  BY DEF IdsRun
<1>1. PICK f \in received[n] : e.from = f.from /\ e.id = f.id
  OBVIOUS
<1>2. f.from \in MUD
  BY DEF TypeOK, Received
<1> QED
  BY <1>1, <1>2 DEF IdsRun

LEMMA RequestRepeat ==
  ASSUME MatchInv, IInv, RepeatInv, NEW m \in MUD, NEW x \in MUD \ {m}, Request(m, x)
  PROVE  RepeatInv'
<1>1. /\ received' = received /\ fresh' = fresh /\ unfounded' = unfounded
      /\ packetId' = [packetId EXCEPT ![m] = packetId[m] + 1]
  BY DEF Request, NextId
<1>2. \A k \in MUD : \A c \in Ids(k)' :
        c \in Ids(k) \/ (k = m /\ c = <<packetId[m] + 1, nextSeq>>)
  BY RequestIds
<1>3. IdsRun'
  <2> SUFFICES ASSUME NEW n \in MUD, NEW e \in received[n]
               PROVE  /\ e.id <= packetId'[e.from]
                      /\ \A c \in Ids(e.from)' : c[1] = e.id => fresh[c[2]] # 0
    BY <1>1 DEF IdsRun
  <2>1. e.from \in MUD /\ e.id \in Nat /\ e.id <= packetId[e.from] /\ packetId \in [MUD -> Nat]
    BY DEF MatchInv, TypeOK, Received, RepeatInv, IdsRun
  <2>2. packetId[e.from] \in Nat /\ packetId'[e.from] \in Nat /\ packetId[e.from] <= packetId'[e.from]
    BY <1>1, <2>1
  <2>3. ASSUME NEW c \in Ids(e.from)', c[1] = e.id
        PROVE  fresh[c[2]] # 0
    <3>1. c \in Ids(e.from)
      BY <1>2, <2>1, <2>2, <2>3
    <3> QED
      BY <2>3, <3>1 DEF RepeatInv, IdsRun
  <2> QED
    BY <2>1, <2>2, <2>3
<1> QED
  BY <1>1, <1>3 DEF RepeatInv, RepeatIsRepeat

LEMMA ReceiveRepeat ==
  ASSUME MatchInv, RepeatInv, NEW p \in net, ReceiveRequest(p)
  PROVE  RepeatInv'
<1>1. /\ p \in Packet /\ p.to \in MUD /\ p.from \in MUD /\ p.seq \in Seqs /\ p.id \in Nat
      /\ p.kind = "request" /\ received' = Noted(p)
      /\ pending' = pending /\ packetId' = packetId
  BY DEF ReceiveRequest, MatchInv, TypeOK, Packet
<1>2. \A k \in MUD : Ids(k)' \subseteq Ids(k)
  <2>1. \E n \in Rest(p) : net' \subseteq n \cup {ReplyPacket(p)}
    BY DEF ReceiveRequest
  <2> QED
    BY <1>1, <2>1, IdsOfPackets
<1>3. <<p.id, p.seq>> \in Ids(p.from)
  BY <1>1 DEF Ids, Owner
<1>4. CASE Seen(p)
  <2>1. fresh' = fresh /\ received' = received
    BY <1>1, <1>4 DEF ReceiveRequest, Noted
  <2>2. fresh[p.seq] # 0
    <3>1. PICK e \in received[p.to] : e.from = p.from /\ e.id = p.id
      BY <1>4 DEF Seen
    <3> QED
      BY <1>1, <1>3, <3>1 DEF RepeatInv, IdsRun
  <2>3. unfounded' = unfounded
    BY <1>4, <2>2 DEF ReceiveRequest
  <2>4. IdsRun'
    BY <1>1, <1>2, <2>1, IdsRunKept DEF MatchInv, RepeatInv
  <2> QED
    BY <2>3, <2>4 DEF RepeatInv, RepeatIsRepeat
<1>5. CASE ~Seen(p)
  <2>1. /\ fresh' = [fresh EXCEPT ![p.seq] = @ + 1] /\ unfounded' = unfounded
        /\ received' = [received EXCEPT ![p.to] =
             @ \cup {[from |-> p.from, id |-> p.id, ttl |-> Retention]}]
    BY <1>1, <1>5 DEF ReceiveRequest, Noted
  <2>2. fresh \in [Seqs -> Nat] /\ received \in [MUD -> SUBSET Received]
    BY DEF MatchInv, TypeOK
  <2>3. \A s \in Seqs : fresh[s] \in Nat /\ (fresh[s] # 0 \/ s = p.seq => fresh'[s] # 0)
    BY <1>1, <2>1, <2>2
  <2>4. \A k \in MUD : \A c \in Ids(k) : c[2] \in Seqs
    BY DEF MatchInv, TypeOK, Ids, Pending, Packet
  <2>5. ASSUME NEW n \in MUD, NEW e \in received'[n]
        PROVE  /\ e.id <= packetId'[e.from]
               /\ \A c \in Ids(e.from)' : c[1] = e.id => fresh'[c[2]] # 0
    <3>1. CASE e \in received[n]
      <4>1. e.from \in MUD
        BY <2>2, <3>1 DEF Received
      <4>2. e.id <= packetId[e.from] /\ \A c \in Ids(e.from) : c[1] = e.id => fresh[c[2]] # 0
        BY <3>1 DEF RepeatInv, IdsRun
      <4> QED
        BY <1>1, <1>2, <2>3, <2>4, <4>1, <4>2
    <3>2. CASE e = [from |-> p.from, id |-> p.id, ttl |-> Retention]
      <4>1. e.from = p.from /\ e.id = p.id
        BY <3>2
      <4>2. p.id <= packetId[p.from] /\ \A c \in Ids(p.from) : c[1] = p.id => c[2] = p.seq
        BY <1>1, <1>3 DEF MatchInv, IdsUnique
      <4>3. \A c \in Ids(p.from) : c[1] = p.id => fresh'[c[2]] # 0
        BY <1>1, <2>3, <4>2
      <4> QED
        BY <1>1, <1>2, <4>1, <4>2, <4>3
    <3> QED
      BY <1>1, <2>1, <2>2, <3>1, <3>2
  <2>6. IdsRun'
    BY <2>5 DEF IdsRun
  <2> QED
    BY <2>1, <2>6 DEF RepeatInv, RepeatIsRepeat
<1> QED
  BY <1>4, <1>5

LEMMA TickKeeps ==
  ASSUME MatchInv, Tick
  PROVE  \A n \in MUD : \A e \in received'[n] : \E f \in received[n] :
           e = [f EXCEPT !.ttl = @ - 1] /\ e.from = f.from /\ e.id = f.id
<1> SUFFICES ASSUME NEW n \in MUD, NEW e \in received'[n]
             PROVE  \E f \in received[n] :
                      e = [f EXCEPT !.ttl = @ - 1] /\ e.from = f.from /\ e.id = f.id
  OBVIOUS
<1>1. PICK f \in received[n] : e = [f EXCEPT !.ttl = @ - 1]
  BY DEF Tick
<1>2. f \in Received
  BY DEF MatchInv, TypeOK
<1> QED
  BY <1>1, <1>2 DEF Received

LEMMA NextRepeat ==
  ASSUME Calm, MatchInv, IInv, RepeatInv, [Next]_vars
  PROVE  RepeatInv'
<1>1. CASE \E m \in MUD : \E x \in MUD \ {m} : Request(m, x)
  BY <1>1, RequestRepeat
<1>2. ASSUME NEW p \in net, ReceiveRequest(p) PROVE RepeatInv'
  BY <1>2, ReceiveRepeat
<1>3. ASSUME /\ packetId' = packetId /\ fresh' = fresh /\ unfounded' = unfounded
             /\ \A m \in MUD : Ids(m)' \subseteq Ids(m)
             /\ \A n \in MUD : \A e \in received'[n] :
                  \E f \in received[n] : e.from = f.from /\ e.id = f.id
      PROVE  RepeatInv'
  BY <1>3, IdsRunKept DEF MatchInv, RepeatInv, RepeatIsRepeat
<1>4. ASSUME NEW p \in net, ReceiveReply(p) PROVE RepeatInv'
  BY <1>3, <1>4, ReplyIds DEF ReceiveReply
<1>5. ASSUME NEW p \in net, Refuse(p) PROVE RepeatInv'
  <2>1. \E n \in Rest(p) : net' \subseteq n \cup {ReplyPacket(p)}
    BY <1>5 DEF Refuse
  <2>2. p.kind = "request" /\ pending' = pending
    BY <1>5 DEF Refuse
  <2>3. \A m \in MUD : Ids(m)' \subseteq Ids(m)
    BY <2>1, <2>2, IdsOfPackets
  <2> QED
    BY <1>3, <1>5, <2>3 DEF Refuse, ghosts
<1>6. ASSUME NEW m \in MUD, NEW r \in pending[m], Retry(m, r) PROVE RepeatInv'
  BY <1>3, <1>6, RetryIds DEF Retry, ghosts
<1>7. ASSUME NEW m \in MUD, NEW r \in pending[m], GiveUp(m, r) PROVE RepeatInv'
  BY <1>3, <1>7, GiveUpIds DEF GiveUp
<1>8. ASSUME NEW m \in MUD, NEW r \in received[m], RemoveReceivedId(m, r) PROVE RepeatInv'
  <2>1. \A n \in MUD : received'[n] \subseteq received[n]
    BY <1>8 DEF RemoveReceivedId, MatchInv, TypeOK
  <2>2. \A k \in MUD : Ids(k)' \subseteq Ids(k)
    BY <1>8 DEF RemoveReceivedId, Ids, Owner
  <2> QED
    BY <1>3, <1>8, <2>1, <2>2 DEF RemoveReceivedId, ghosts
<1>9. CASE Tick
  <2>1. packetId' = packetId /\ fresh' = fresh /\ unfounded' = unfounded
    BY <1>9 DEF Tick
  <2> QED
    BY <1>3, <1>9, <2>1, TickIds, TickKeeps
<1>10. CASE \E m \in MUD : Restart(m)
  BY <1>10 DEF Restart, Calm, MatchInv, TypeOK
<1>11. CASE UNCHANGED vars
  BY <1>11 DEF vars, RepeatInv, IdsRun, RepeatIsRepeat, Ids, Owner
<1> QED
  BY <1>1, <1>2, <1>4, <1>5, <1>6, <1>7, <1>8, <1>9, <1>10, <1>11 DEF Next, Work, Receive, CallOuts

\* A request is marked as REPEAT only if it was run before, however late and
\* often its copies come (524-531); without restarts, that is, for they give
\* the ids anew.
THEOREM RepeatsAreRepeats == Calm => (Spec => []RepeatIsRepeat)
<1> SUFFICES ASSUME Calm PROVE Spec => []RepeatIsRepeat
  OBVIOUS
<1>1. Init => RepeatInv
  BY DEF Init, RepeatInv, IdsRun, RepeatIsRepeat
<1>2. MatchInv /\ IInv /\ RepeatInv /\ [Next]_vars => RepeatInv'
  BY NextRepeat
<1>3. RepeatInv => RepeatIsRepeat
  BY DEF RepeatInv
<1> QED
  BY <1>1, <1>2, <1>3, AlwaysMatch, Invariance, PTL DEF Spec
-----------------------------------------------------------------------------
(***************************************************************************)
(* No request is run as new twice.  As long as a copy of a request that    *)
(* was run may still come in, be it under way or a retry to come, the mud  *)
(* that has run it remembers its id for longer than that.                  *)
(***************************************************************************)
\* A packet is under way for one REPLY_TIME_OUT at most.
Prompt == Calm /\ MaxDelay <= 1

\* The requests whose copies are under way, or can be sent again: number,
\* sender, receiver and id
Origins ==
  {<<p.seq, p.from, p.to, p.id>> : p \in {q \in net : q.kind = "request"}}
  \cup UNION {{<<r.seq, m, r.to, r.id>> : r \in pending[m]} : m \in MUD}

OneOrigin ==
  \A c, d \in Origins : c[1] < nextSeq /\ (c[1] = d[1] => c = d)

\* The last copy of request s comes before d units of time are over.
Within(s, d) ==
  /\ \A p \in net : p.kind = "request" /\ p.seq = s => p.ttl < d
  /\ \A m \in MUD : \A r \in pending[m] :
       r.seq = s /\ r.retry < RETRIES =>
         r.timer + (RETRIES - r.retry - 1) + MaxDelay < d

\* The entry e of the mud n is for the request s.
EntryOf(e, n, s) ==
  \A c \in Origins : c[1] = s => c[2] = e.from /\ c[3] = n /\ c[4] = e.id

Remembered(s) ==
  \/ Within(s, 0)
  \/ \E n \in MUD : \E e \in received[n] : EntryOf(e, n, s) /\ Within(s, e.ttl)

OnceInv ==
  /\ OneOrigin
  /\ \A s \in Seqs : /\ fresh[s] # 0 => s < nextSeq /\ Remembered(s)
                     /\ fresh[s] <= 1

\* No new copy, and none later
LEMMA OnceKept ==
  ASSUME TypeOK, OnceInv, nextSeq' = nextSeq, fresh' = fresh, received' = received,
         Origins' \subseteq Origins,
         \A s \in Seqs : \A d \in Nat : Within(s, d) => Within(s, d)'
  PROVE  OnceInv'
<1>1. OneOrigin'
  BY DEF OnceInv, OneOrigin
<1>2. ASSUME NEW s \in Seqs, Remembered(s)
      PROVE  Remembered(s)'
  <2>1. CASE Within(s, 0)
    BY <2>1 DEF Remembered
  <2>2. CASE \E n \in MUD : \E e \in received[n] : EntryOf(e, n, s) /\ Within(s, e.ttl)
    <3>0. PICK n \in MUD : \E e \in received[n] : EntryOf(e, n, s) /\ Within(s, e.ttl)
      BY <2>2
    <3>1. PICK e \in received[n] : EntryOf(e, n, s) /\ Within(s, e.ttl)
      BY <3>0
    <3>2. e.ttl \in Nat
      BY DEF TypeOK, Received, Retention
    <3>3. EntryOf(e, n, s)' /\ Within(s, e.ttl)'
      BY <3>1, <3>2 DEF EntryOf
    <3> QED
      BY <3>3 DEF Remembered
  <2> QED
    BY <1>2, <2>1, <2>2 DEF Remembered
<1> QED
  BY <1>1, <1>2 DEF OnceInv

LEMMA FewerCopies ==
  ASSUME \A q \in net' : q.kind = "request" => q \in net,
         \A m \in MUD : pending'[m] \subseteq pending[m]
  PROVE  /\ Origins' \subseteq Origins
         /\ \A s \in Seqs : \A d \in Nat : Within(s, d) => Within(s, d)'
<1>1. Origins' \subseteq Origins
  BY DEF Origins
<1>2. \A s \in Seqs : \A d \in Nat : Within(s, d) => Within(s, d)'
  BY DEF Within
<1> QED
  BY <1>1, <1>2

LEMMA RequestOnce ==
  ASSUME TypeOK, OnceInv, NEW m \in MUD, NEW x \in MUD \ {m}, Request(m, x)
  PROVE  OnceInv'
<1> DEFINE r == [to |-> x, id |-> packetId'[m], seq |-> nextSeq, retry |-> 0, timer |-> 1]
           o == <<nextSeq, m, x, packetId'[m]>>
<1>1. /\ pending' = [pending EXCEPT ![m] = @ \cup {r}] /\ net' = net \cup {RequestPacket(m, r)}
      /\ nextSeq' = nextSeq + 1 /\ nextSeq \in Seqs /\ nextSeq \in Nat
      /\ received' = received /\ fresh' = fresh
  BY DEF Request, TypeOK, Seqs
<1>2. /\ r.to = x /\ r.id = packetId'[m] /\ r.seq = nextSeq
      /\ RequestPacket(m, r).seq = nextSeq /\ RequestPacket(m, r).from = m
      /\ RequestPacket(m, r).to = x /\ RequestPacket(m, r).id = packetId'[m]
  BY DEF RequestPacket
<1> HIDE DEF r
<1>3. \A n \in MUD : \A t \in pending'[n] : t \in pending[n] \/ (n = m /\ t = r)
  BY <1>1 DEF TypeOK
<1>4. \A c \in Origins' : c \in Origins \/ c = o
  BY <1>1, <1>2, <1>3 DEF Origins
<1>5. \A c \in Origins : c[1] \in Nat /\ c[1] < nextSeq
  <2>1. \A p \in net : p.seq \in Nat
    BY DEF TypeOK, Packet, Seqs
  <2>2. \A n \in MUD : \A t \in pending[n] : t.seq \in Nat
    BY DEF TypeOK, Pending, Seqs
  <2>3. \A c \in Origins : c[1] \in Nat
    BY <2>1, <2>2 DEF Origins
  <2>4. \A c \in Origins : c[1] < nextSeq
    BY DEF OnceInv, OneOrigin
  <2> QED
    BY <2>3, <2>4
<1>6. OneOrigin'
  BY <1>1, <1>4, <1>5 DEF OnceInv, OneOrigin
<1>7. ASSUME NEW s \in Seqs, fresh[s] # 0
      PROVE  Remembered(s)'
  <2>1. s < nextSeq /\ s \in Nat /\ Remembered(s)
    BY <1>7 DEF OnceInv, Seqs
  <2>2. \A d : Within(s, d) => Within(s, d)'
    BY <1>1, <1>2, <1>3, <2>1 DEF Within
  <2>3. \A e, n : EntryOf(e, n, s) => EntryOf(e, n, s)'
    BY <1>1, <1>4, <2>1 DEF EntryOf
  <2> QED
    BY <1>1, <2>1, <2>2, <2>3 DEF Remembered
<1>8. \A s \in Seqs : s < nextSeq => s < nextSeq'
  BY <1>1 DEF Seqs
<1> QED
  BY <1>1, <1>6, <1>7, <1>8 DEF OnceInv

LEMMA ReceiveOnce ==
  ASSUME Prompt, TypeOK, OnceInv, NEW p \in net, ReceiveRequest(p)
  PROVE  OnceInv'
<1>1. /\ p \in Packet /\ p.to \in MUD /\ p.from \in MUD /\ p.seq \in Seqs /\ p.id \in Nat
      /\ p.ttl \in Nat /\ p.kind = "request" /\ received' = Noted(p)
      /\ pending' = pending /\ nextSeq' = nextSeq
  BY ConstantsAssumption DEF ReceiveRequest, TypeOK, Packet, ConstantsAssumption
<1>2. \A q \in net' : q.kind = "request" => q \in net
  BY DEF ReceiveRequest, Rest, ReplyPacket
<1>3. /\ Origins' \subseteq Origins
      /\ \A s \in Seqs : \A d \in Nat : Within(s, d) => Within(s, d)'
  BY <1>1, <1>2, FewerCopies
<1> DEFINE o == <<p.seq, p.from, p.to, p.id>>
<1>4. o \in Origins /\ \A c \in Origins : c[1] = p.seq => c = o
  <2>1. o \in Origins
    BY <1>1 DEF Origins
  <2> QED
    BY <2>1 DEF OnceInv, OneOrigin
<1>5. CASE Seen(p)
  <2>1. fresh' = fresh /\ received' = received
    BY <1>1, <1>5 DEF ReceiveRequest, Noted
  <2> QED
    BY <1>1, <1>3, <2>1, OnceKept
<1>6. CASE ~Seen(p)
  <2> DEFINE e == [from |-> p.from, id |-> p.id, ttl |-> Retention]
  <2>1. /\ fresh' = [fresh EXCEPT ![p.seq] = @ + 1]
        /\ received' = [received EXCEPT ![p.to] = @ \cup {e}]
    BY <1>1, <1>6 DEF ReceiveRequest, Noted
  <2>2. fresh \in [Seqs -> Nat] /\ received \in [MUD -> SUBSET Received]
    BY DEF TypeOK
  <2>3. fresh[p.seq] = 0
    <3> SUFFICES ASSUME fresh[p.seq] # 0 PROVE FALSE
      OBVIOUS
    <3>1. Remembered(p.seq)
      BY <1>1 DEF OnceInv
    <3>2. ~Within(p.seq, 0)
      BY <1>1 DEF Within
    <3>0. PICK n \in MUD : \E f \in received[n] : EntryOf(f, n, p.seq)
      BY <3>1, <3>2 DEF Remembered
    <3>3. PICK f \in received[n] : EntryOf(f, n, p.seq)
      BY <3>0
    <3>4. f.from = p.from /\ n = p.to /\ f.id = p.id
      BY <1>4, <3>3 DEF EntryOf
    <3> QED
      BY <1>6, <3>4 DEF Seen
  <2>4. Within(p.seq, Retention)
    <3>1. RETRIES \in Nat /\ MaxDelay \in Nat /\ MaxDelay <= 1
      BY ConstantsAssumption DEF ConstantsAssumption, Prompt
    <3>2. \A q \in net : q.ttl \in 0 .. MaxDelay
      BY DEF TypeOK, Packet
    <3>3. \A n \in MUD : \A r \in pending[n] : r.timer \in 0 .. 1 /\ r.retry \in 0 .. RETRIES
      BY DEF TypeOK, Pending
    <3>4. ASSUME NEW n \in MUD, NEW r \in pending[n], r.retry < RETRIES
          PROVE  r.timer + (RETRIES - r.retry - 1) + MaxDelay < Retention
      <4>1. r.timer \in 0 .. 1 /\ r.retry \in 0 .. RETRIES
        BY <3>3
      <4> QED
        BY <3>1, <3>4, <4>1 DEF Retention
    <3>5. \A q \in net : q.ttl < Retention
      BY <3>1, <3>2 DEF Retention
    <3> QED
      BY <3>4, <3>5 DEF Within
  <2>5. e \in received'[p.to] /\ EntryOf(e, p.to, p.seq)' /\ Within(p.seq, e.ttl)'
    <3>1. Retention \in Nat
      BY ConstantsAssumption DEF ConstantsAssumption, Retention
    <3>2. e \in received'[p.to]
      BY <1>1, <2>1, <2>2
    <3>3. EntryOf(e, p.to, p.seq)'
      BY <1>3, <1>4 DEF EntryOf
    <3>4. Within(p.seq, Retention)'
      BY <1>1, <1>3, <2>4, <3>1
    <3> QED
      BY <3>2, <3>3, <3>4
  <2>6. Remembered(p.seq)'
    BY <1>1, <2>5 DEF Remembered
  <2>7. ASSUME NEW s \in Seqs, s # p.seq, fresh[s] # 0
        PROVE  Remembered(s)'
    <3>1. Remembered(s)
      BY <2>7 DEF OnceInv
    <3>2. CASE Within(s, 0)
      BY <1>3, <3>2 DEF Remembered
    <3>3. CASE \E n \in MUD : \E f \in received[n] : EntryOf(f, n, s) /\ Within(s, f.ttl)
      <4>0. PICK n \in MUD : \E f \in received[n] : EntryOf(f, n, s) /\ Within(s, f.ttl)
        BY <3>3
      <4>1. PICK f \in received[n] : EntryOf(f, n, s) /\ Within(s, f.ttl)
        BY <4>0
      <4>2. f \in received'[n] /\ f.ttl \in Nat
        BY <2>1, <2>2, <1>1 DEF Received, Retention
      <4>3. EntryOf(f, n, s)' /\ Within(s, f.ttl)'
        BY <1>3, <4>1, <4>2 DEF EntryOf
      <4> QED
        BY <4>2, <4>3 DEF Remembered
    <3> QED
      BY <3>1, <3>2, <3>3 DEF Remembered
  <2>8. p.seq < nextSeq
    BY <1>4 DEF OnceInv, OneOrigin
  <2>9. OneOrigin'
    BY <1>1, <1>3 DEF OnceInv, OneOrigin
  <2>10. \A s \in Seqs : IF s = p.seq THEN fresh'[s] = 1 ELSE fresh'[s] = fresh[s]
    BY <1>1, <2>1, <2>2, <2>3
  <2> QED
    BY <1>1, <2>6, <2>7, <2>8, <2>9, <2>10 DEF OnceInv
<1> QED
  BY <1>5, <1>6

\* What is sent again comes no later than it could before.
LEMMA RetryOnce ==
  ASSUME TypeOK, OnceInv, NEW m \in MUD, NEW r \in pending[m], Retry(m, r)
  PROVE  OnceInv'
<1>1. /\ pending' = [pending EXCEPT ![m] = (@ \ {r}) \cup {Retried(r)}]
      /\ net' = net \cup {RequestPacket(m, r)}
      /\ nextSeq' = nextSeq /\ fresh' = fresh /\ received' = received
  BY DEF Retry, ghosts
<1>2. r \in Pending /\ r.timer = 0 /\ r.retry < RETRIES
  BY DEF Retry, HasRetries, TypeOK
<1>3. /\ Retried(r).seq = r.seq /\ Retried(r).to = r.to /\ Retried(r).id = r.id
      /\ Retried(r).timer = 1 /\ Retried(r).retry = r.retry + 1
  BY DEF Retried
<1>4. /\ RequestPacket(m, r).seq = r.seq /\ RequestPacket(m, r).from = m
      /\ RequestPacket(m, r).to = r.to /\ RequestPacket(m, r).id = r.id
      /\ RequestPacket(m, r).ttl = MaxDelay
  BY DEF RequestPacket
<1>5. \A n \in MUD : \A t \in pending'[n] : t \in pending[n] \/ (n = m /\ t = Retried(r))
  BY <1>1 DEF TypeOK
<1>6. \A q \in net' : q \in net \/ q = RequestPacket(m, r)
  BY <1>1
<1>7. Origins' \subseteq Origins
  BY <1>3, <1>4, <1>5, <1>6 DEF Origins
<1>8. ASSUME NEW s \in Seqs, NEW d \in Nat, Within(s, d)
      PROVE  Within(s, d)'
  <2>1. r.retry \in Nat /\ RETRIES \in Nat /\ MaxDelay \in Nat
    BY <1>2, ConstantsAssumption DEF Pending, ConstantsAssumption
  <2>2. r.seq = s => 0 + (RETRIES - r.retry - 1) + MaxDelay < d
    BY <1>2, <1>8 DEF Within
  <2>3. r.seq = s => MaxDelay < d
    BY <1>2, <2>1, <2>2
  <2>4. r.seq = s => 1 + (RETRIES - (r.retry + 1) - 1) + MaxDelay < d
    BY <2>1, <2>2
  <2>5. ASSUME NEW q \in net', q.kind = "request", q.seq = s
        PROVE  q.ttl < d
    BY <1>4, <1>6, <1>8, <2>3, <2>5 DEF Within
  <2>6. ASSUME NEW n \in MUD, NEW t \in pending'[n], t.seq = s, t.retry < RETRIES
        PROVE  t.timer + (RETRIES - t.retry - 1) + MaxDelay < d
    BY <1>3, <1>5, <1>8, <2>4, <2>6 DEF Within
  <2> QED
    BY <2>5, <2>6 DEF Within
<1> QED
  BY <1>1, <1>7, <1>8, OnceKept

\* An id is forgotten when nothing with it can come any more.
LEMMA ForgetOnce ==
  ASSUME TypeOK, OnceInv, NEW m \in MUD, NEW r \in received[m], RemoveReceivedId(m, r)
  PROVE  OnceInv'
<1>1. /\ r.ttl = 0 /\ received' = [received EXCEPT ![m] = @ \ {r}]
      /\ pending' = pending /\ net' = net /\ nextSeq' = nextSeq /\ fresh' = fresh
  BY DEF RemoveReceivedId, ghosts
<1>2. Origins' = Origins /\ \A s, d : Within(s, d)' = Within(s, d)
  BY <1>1 DEF Origins, Within
<1>3. ASSUME NEW s \in Seqs, Remembered(s)
      PROVE  Remembered(s)'
  <2>1. CASE Within(s, 0)
    BY <1>2, <2>1 DEF Remembered
  <2>2. CASE \E n \in MUD : \E e \in received[n] : EntryOf(e, n, s) /\ Within(s, e.ttl)
    <3>0. PICK n \in MUD : \E e \in received[n] : EntryOf(e, n, s) /\ Within(s, e.ttl)
      BY <2>2
    <3>1. PICK e \in received[n] : EntryOf(e, n, s) /\ Within(s, e.ttl)
      BY <3>0
    <3>2. CASE e.ttl = 0
      BY <1>2, <3>1, <3>2 DEF Remembered
    <3>3. CASE e.ttl # 0
      <4>1. e \in received'[n]
        BY <1>1, <3>3 DEF TypeOK
      <4>2. EntryOf(e, n, s)' /\ Within(s, e.ttl)'
        BY <1>2, <3>1 DEF EntryOf
      <4> QED
        BY <4>1, <4>2 DEF Remembered
    <3> QED
      BY <3>2, <3>3
  <2> QED
    BY <1>3, <2>1, <2>2 DEF Remembered
<1> QED
  BY <1>1, <1>2, <1>3 DEF OnceInv, OneOrigin

\* Time goes on for the copies as for the ids that are remembered.
LEMMA TickOnce ==
  ASSUME MatchInv, OnceInv, Tick
  PROVE  OnceInv'
<1>1. /\ net' = {[p EXCEPT !.ttl = @ - 1] : p \in net \ Overdue}
      /\ \A m \in MUD : pending'[m] = {[r EXCEPT !.timer = @ - 1] : r \in pending[m]}
      /\ \A m \in MUD : received'[m] = {[r EXCEPT !.ttl = @ - 1] : r \in received[m]}
      /\ \A m \in MUD : \A r \in received[m] : r.ttl > 0
      /\ nextSeq' = nextSeq /\ fresh' = fresh
  BY DEF Tick
<1>2. ASSUME NEW q \in net'
      PROVE  \E p \in net : /\ q.kind = p.kind /\ q.seq = p.seq /\ q.from = p.from /\ q.to = p.to
                            /\ q.id = p.id /\ q.ttl = p.ttl - 1 /\ p.ttl \in Nat
  <2>1. PICK p \in net : q = [p EXCEPT !.ttl = @ - 1]
    BY <1>1
  <2>2. p \in Packet
    BY DEF MatchInv, TypeOK
  <2> QED
    BY <2>1, <2>2 DEF Packet
<1>3. ASSUME NEW m \in MUD, NEW t \in pending'[m]
      PROVE  \E r \in pending[m] : /\ t.seq = r.seq /\ t.to = r.to /\ t.id = r.id
                                   /\ t.retry = r.retry /\ t.timer = r.timer - 1
                                   /\ r.timer \in Nat /\ r.retry \in Nat
  <2>1. PICK r \in pending[m] : t = [r EXCEPT !.timer = @ - 1]
    BY <1>1
  <2>2. r \in Pending
    BY DEF MatchInv, TypeOK
  <2> QED
    BY <2>1, <2>2 DEF Pending
<1>4. Origins' \subseteq Origins
  BY <1>2, <1>3 DEF Origins
<1>5. ASSUME NEW s \in Seqs, NEW d \in Nat, Within(s, d)
      PROVE  Within(s, d - 1)'
  <2>1. ASSUME NEW q \in net', q.kind = "request", q.seq = s
        PROVE  q.ttl < d - 1
    BY <1>2, <1>5, <2>1 DEF Within
  <2>2. ASSUME NEW n \in MUD, NEW t \in pending'[n], t.seq = s, t.retry < RETRIES
        PROVE  t.timer + (RETRIES - t.retry - 1) + MaxDelay < d - 1
    <3>1. PICK r \in pending[n] : /\ t.seq = r.seq /\ t.retry = r.retry /\ t.timer = r.timer - 1
                                  /\ r.timer \in Nat /\ r.retry \in Nat
      BY <1>3
    <3>2. r.timer + (RETRIES - r.retry - 1) + MaxDelay < d
      BY <1>5, <2>2, <3>1 DEF Within
    <3>3. RETRIES \in Nat /\ MaxDelay \in Nat
      BY ConstantsAssumption DEF ConstantsAssumption
    <3> QED
      BY <3>1, <3>2, <3>3
  <2> QED
    BY <2>1, <2>2 DEF Within
<1>6. ASSUME NEW s \in Seqs, Within(s, 0)
      PROVE  Within(s, 0)'
  <2>1. \A p \in net : p.kind = "request" => p.seq # s
    <3>1. \A p \in net : p.ttl \in Nat
      BY ConstantsAssumption DEF MatchInv, TypeOK, Packet, ConstantsAssumption
    <3> QED
      BY <1>6, <3>1 DEF Within
  <2>2. ASSUME NEW m \in MUD, NEW r \in pending[m], r.seq = s
        PROVE  ~(r.retry < RETRIES)
    <3>1. r \in Pending
      BY <2>2 DEF MatchInv, TypeOK
    <3>2. r.timer \in Nat /\ r.retry \in Nat
      BY <3>1, ConstantsAssumption DEF Pending, ConstantsAssumption
    <3>3. RETRIES \in Nat /\ MaxDelay \in Nat
      BY ConstantsAssumption DEF ConstantsAssumption
    <3>4. r.retry < RETRIES => r.timer + (RETRIES - r.retry - 1) + MaxDelay < 0
      BY <1>6, <2>2 DEF Within
    <3> QED
      BY <3>2, <3>3, <3>4
  <2> QED
    BY <1>2, <1>3, <2>1, <2>2 DEF Within
<1>7. ASSUME NEW s \in Seqs, Remembered(s)
      PROVE  Remembered(s)'
  <2>1. CASE Within(s, 0)
    BY <1>6, <2>1 DEF Remembered
  <2>2. CASE \E n \in MUD : \E e \in received[n] : EntryOf(e, n, s) /\ Within(s, e.ttl)
    <3>0. PICK n \in MUD : \E e \in received[n] : EntryOf(e, n, s) /\ Within(s, e.ttl)
      BY <2>2
    <3>1. PICK e \in received[n] : EntryOf(e, n, s) /\ Within(s, e.ttl)
      BY <3>0
    <3>2. e \in Received /\ e.ttl \in Nat
      BY DEF MatchInv, TypeOK, Received, Retention
    <3> DEFINE f == [e EXCEPT !.ttl = @ - 1]
    <3>3. f \in received'[n] /\ f.from = e.from /\ f.id = e.id /\ f.ttl = e.ttl - 1
      BY <1>1, <3>2 DEF Received
    <3> HIDE DEF f
    <3>4. EntryOf(f, n, s)' /\ Within(s, f.ttl)'
      BY <1>4, <1>5, <3>1, <3>2, <3>3 DEF EntryOf
    <3> QED
      BY <3>3, <3>4 DEF Remembered
  <2> QED
    BY <1>7, <2>1, <2>2 DEF Remembered
<1> QED
  BY <1>1, <1>4, <1>7 DEF OnceInv, OneOrigin

LEMMA NextOnce ==
  ASSUME Prompt, MatchInv, OnceInv, [Next]_vars
  PROVE  OnceInv'
<1>1. TypeOK /\ Calm
  BY DEF MatchInv, Prompt
<1>2. CASE \E m \in MUD : \E x \in MUD \ {m} : Request(m, x)
  BY <1>1, <1>2, RequestOnce
<1>3. ASSUME NEW p \in net, ReceiveRequest(p) PROVE OnceInv'
  BY <1>1, <1>3, ReceiveOnce
<1>4. ASSUME /\ \A q \in net' : q.kind = "request" => q \in net
             /\ \A m \in MUD : pending'[m] \subseteq pending[m]
             /\ nextSeq' = nextSeq /\ fresh' = fresh /\ received' = received
      PROVE  OnceInv'
  BY <1>1, <1>4, FewerCopies, OnceKept
<1>5. ASSUME NEW p \in net, ReceiveReply(p) PROVE OnceInv'
  <2>1. \A m \in MUD : pending'[m] \subseteq pending[m]
    BY <1>1, <1>5 DEF ReceiveReply, Answered, TypeOK, Packet
  <2>2. net' \subseteq net
    BY <1>1, <1>5 DEF ReceiveReply, Calm, Rest
  <2> QED
    BY <1>4, <1>5, <2>1, <2>2 DEF ReceiveReply
<1>6. ASSUME NEW p \in net, Refuse(p) PROVE OnceInv'
  BY <1>4, <1>6 DEF Refuse, Rest, ReplyPacket, ghosts
<1>7. ASSUME NEW m \in MUD, NEW r \in pending[m], Retry(m, r) PROVE OnceInv'
  BY <1>1, <1>7, RetryOnce
<1>8. ASSUME NEW m \in MUD, NEW r \in pending[m], GiveUp(m, r) PROVE OnceInv'
  BY <1>1, <1>4, <1>8 DEF GiveUp, GivenUp, TypeOK
<1>9. ASSUME NEW m \in MUD, NEW r \in received[m], RemoveReceivedId(m, r) PROVE OnceInv'
  BY <1>1, <1>9, ForgetOnce
<1>10. CASE Tick
  BY <1>10, TickOnce
<1>11. CASE \E m \in MUD : Restart(m)
  BY <1>1, <1>11 DEF Restart, Calm, TypeOK
<1>12. CASE UNCHANGED vars
  BY <1>4, <1>12 DEF vars
<1> QED
  BY <1>2, <1>3, <1>5, <1>6, <1>7, <1>8, <1>9, <1>10, <1>11, <1>12 DEF Next, Work, Receive, CallOuts

\* A request is run as new once at most: received_ids outlives every copy, for
\* any number of retries, if a packet is under way for one REPLY_TIME_OUT at
\* most (524-528).
THEOREM RunOnce == Prompt => (Spec => []FreshOnce)
<1> SUFFICES ASSUME Prompt PROVE Spec => []FreshOnce
  OBVIOUS
<1>1. Calm
  BY DEF Prompt
<1>2. Init => OnceInv
  BY DEF Init, OnceInv, OneOrigin, Origins
<1>3. MatchInv /\ OnceInv /\ [Next]_vars => OnceInv'
  BY NextOnce
<1>4. OnceInv => FreshOnce
  BY DEF OnceInv, FreshOnce
<1> QED
  BY <1>1, <1>2, <1>3, <1>4, AlwaysMatch, PTL DEF Spec
-----------------------------------------------------------------------------
(***************************************************************************)
(* The daemons implement RemoteCall, for every choice of constants, while  *)
(* no daemon restarts, udp_reply() does not fail, nobody refuses, and a    *)
(* packet is under way for one REPLY_TIME_OUT at most.                     *)
(***************************************************************************)
Willing == Prompt /\ Refusing = {}

\* A reply is under way only for a request that was run.
RunFirst == \A p \in net : p.kind = "reply" => fresh[p.seq] # 0

RpcInv == MatchInv /\ IInv /\ RepeatInv /\ OnceInv /\ RunFirst

LEMMA PacketsTyped ==
  ASSUME TypeOK
  PROVE  /\ fresh \in [Seqs -> Nat] /\ nextSeq \in Nat
         /\ \A p \in net : p \in Packet /\ p.seq \in Seqs /\ p.to \in MUD /\ p.from \in MUD
         /\ \A m \in MUD : \A r \in pending[m] : r \in Pending /\ r.seq \in Seqs
         /\ \A s \in Seqs : s \in Nat /\ s # TimeOut
<1>1. /\ fresh \in [Seqs -> Nat] /\ nextSeq \in Nat /\ net \subseteq Packet
      /\ \A m \in MUD : pending[m] \subseteq Pending
  BY ConstantsAssumption DEF TypeOK, ConstantsAssumption
<1>2. \A s \in Seqs : s \in Nat /\ s # TimeOut
  BY DEF Seqs, TimeOut
<1> QED
  BY <1>1, <1>2 DEF Packet, Pending

\* A request that comes in was run before, or is run now.
LEMMA RunAtLast ==
  ASSUME MatchInv, RepeatInv, NEW p \in net, ReceiveRequest(p)
  PROVE  fresh'[p.seq] # 0 /\ \A s \in Seqs : fresh[s] # 0 => fresh'[s] # 0
<1>1. fresh \in [Seqs -> Nat] /\ p.seq \in Seqs
  BY PacketsTyped DEF MatchInv
<1>2. CASE Seen(p)
  <2>1. /\ fresh' = fresh
        /\ unfounded' = IF fresh[p.seq] = 0 THEN unfounded \cup {p.seq} ELSE unfounded
    BY <1>2 DEF ReceiveRequest
  <2>2. unfounded' = {}
    BY ReceiveRepeat DEF RepeatInv, RepeatIsRepeat
  <2> QED
    BY <2>1, <2>2
<1>3. CASE ~Seen(p)
  BY <1>1, <1>3 DEF ReceiveRequest
<1> QED
  BY <1>2, <1>3

LEMMA NextRunFirst ==
  ASSUME Willing, RpcInv, [Next]_vars
  PROVE  RunFirst'
<1>1. ASSUME fresh' = fresh, \A p \in net' : p.kind = "reply" => p \in net
      PROVE  RunFirst'
  BY <1>1 DEF RpcInv, RunFirst
<1>2. ASSUME NEW m \in MUD, NEW x \in MUD \ {m}, Request(m, x) PROVE RunFirst'
  BY <1>1, <1>2 DEF Request, RequestPacket
<1>3. ASSUME NEW p \in net, ReceiveReply(p) PROVE RunFirst'
  BY <1>1, <1>3 DEF ReceiveReply, Rest, Willing, Prompt, Calm
<1>4. ASSUME NEW p \in net, ReceiveRequest(p) PROVE RunFirst'
  <2>1. net' \subseteq net \cup {ReplyPacket(p)} /\ ReplyPacket(p).seq = p.seq
    BY <1>4 DEF ReceiveRequest, Rest, ReplyPacket
  <2>2. \A q \in net : q.seq \in Seqs
    BY PacketsTyped DEF RpcInv, MatchInv
  <2> QED
    BY <1>4, <2>1, <2>2, RunAtLast DEF RpcInv, RunFirst
<1>5. ASSUME NEW m \in MUD, NEW r \in pending[m], Retry(m, r) PROVE RunFirst'
  BY <1>1, <1>5 DEF Retry, RequestPacket, ghosts
<1>6. ASSUME NEW m \in MUD, NEW r \in pending[m], GiveUp(m, r) PROVE RunFirst'
  BY <1>1, <1>6 DEF GiveUp
<1>7. ASSUME NEW m \in MUD, NEW r \in received[m], RemoveReceivedId(m, r) PROVE RunFirst'
  BY <1>1, <1>7 DEF RemoveReceivedId, ghosts
<1>8. CASE Tick
  <2>1. fresh' = fresh /\ net' = {[q EXCEPT !.ttl = @ - 1] : q \in net \ Overdue}
    BY <1>8 DEF Tick
  <2>2. ASSUME NEW p \in net', p.kind = "reply"
        PROVE  fresh'[p.seq] # 0
    <3>1. PICK q \in net : p = [q EXCEPT !.ttl = @ - 1]
      BY <2>1
    <3>2. p.kind = q.kind /\ p.seq = q.seq
      BY <3>1, PacketsTyped DEF RpcInv, MatchInv, Packet
    <3> QED
      BY <2>1, <2>2, <3>2 DEF RpcInv, RunFirst
  <2> QED
    BY <2>2 DEF RunFirst
<1>9. CASE (\E p \in net : Refuse(p)) \/ (\E m \in MUD : Restart(m))
  BY <1>9, ConstantsAssumption DEF Refuse, Restart, Willing, Prompt, Calm, RpcInv, IInv, TypeOK,
     ConstantsAssumption
<1>10. CASE UNCHANGED vars
  BY <1>1, <1>10 DEF vars
<1> QED
  BY <1>2, <1>3, <1>4, <1>5, <1>6, <1>7, <1>8, <1>9, <1>10 DEF Next, Work, Receive, CallOuts

LEMMA NextRpcInv == Willing => (RpcInv /\ [Next]_vars => RpcInv')
<1> SUFFICES ASSUME Willing, RpcInv, [Next]_vars PROVE RpcInv'
  OBVIOUS
<1>1. Prompt /\ Calm
  BY DEF Willing, Prompt
<1>2. IInv'
  BY NextIInv DEF RpcInv
<1>3. MatchInv'
  BY <1>1, <1>2, NextMatch DEF RpcInv
<1>4. RepeatInv'
  BY <1>1, NextRepeat DEF RpcInv
<1>5. OnceInv'
  BY <1>1, NextOnce DEF RpcInv
<1> QED
  BY <1>2, <1>3, <1>4, <1>5, NextRunFirst DEF RpcInv
-----------------------------------------------------------------------------
(***************************************************************************)
(* The steps of the daemons as steps of the remote call.                   *)
(***************************************************************************)
\* The state of the call that a request is.
CallOf(s) ==
  IF s >= nextSeq THEN "new"
  ELSE IF outcome[s] = <<>> THEN "open"
  ELSE IF outcome[s] = <<TimeOut>> THEN "timedout"
  ELSE IF outcome[s] = <<s>> THEN "answered"
  ELSE "confused"

LEMMA CallsMapped ==
  /\ AbsCall = [s \in Seqs |-> CallOf(s)]
  /\ AbsCall' = [s \in Seqs |-> CallOf(s)']
BY DEF AbsCall, CallOf

LEMMA InitMapped == Init => Rpc!Init
BY ConstantsAssumption DEF Init, Rpc!Init, AbsCall, Seqs, ConstantsAssumption

LEMMA Unseen ==
  ASSUME nextSeq' = nextSeq, outcome' = outcome, fresh' = fresh
  PROVE  UNCHANGED Rpc!rvars
BY DEF AbsCall, Rpc!rvars

LEMMA RequestMapped ==
  ASSUME RpcInv, NEW m \in MUD, NEW x \in MUD \ {m}, Request(m, x)
  PROVE  Rpc!Make(nextSeq) /\ nextSeq \in Seqs
<1>1. /\ nextSeq \in Seqs /\ nextSeq' = nextSeq + 1 /\ outcome' = outcome /\ fresh' = fresh
  BY ConstantsAssumption DEF Request, RpcInv, IInv, TypeOK, Seqs, ConstantsAssumption
<1>2. outcome[nextSeq] = <<>> /\ \A s \in Seqs : s \in Nat
  BY <1>1 DEF RpcInv, IInv, NotYet, Seqs
<1>3. CallOf(nextSeq) = "new"
  BY <1>1, <1>2 DEF CallOf
<1>4. \A s \in Seqs : CallOf(s)' = IF s = nextSeq THEN "open" ELSE CallOf(s)
  BY <1>1, <1>2 DEF CallOf
<1>5. AbsCall' = [AbsCall EXCEPT ![nextSeq] = "open"] /\ AbsCall[nextSeq] = "new"
  BY <1>1, <1>3, <1>4, CallsMapped
<1> QED
  BY <1>1, <1>5 DEF Rpc!Make

\* One outcome more, of a request that had none
LEMMA EndMapped ==
  ASSUME RpcInv, NEW s \in Seqs, NEW o \in {s, TimeOut}, s < nextSeq, outcome[s] = <<>>,
         nextSeq' = nextSeq, outcome' = [outcome EXCEPT ![s] = Append(@, o)]
  PROVE  /\ AbsCall[s] = "open"
         /\ AbsCall' = [AbsCall EXCEPT ![s] = IF o = s THEN "answered" ELSE "timedout"]
<1>1. s # TimeOut /\ s \in Nat /\ nextSeq \in Nat /\ outcome \in [Seqs -> Seq({TimeOut} \cup Seqs)]
  BY PacketsTyped DEF RpcInv, IInv, TypeOK
<1>2. outcome'[s] = <<o>> /\ <<o>> # <<>>
  BY <1>1
<1>3. CallOf(s) = "open" /\ CallOf(s)' = IF o = s THEN "answered" ELSE "timedout"
  BY <1>1, <1>2 DEF CallOf
<1>4. \A t \in Seqs : t # s => CallOf(t)' = CallOf(t)
  BY <1>1 DEF CallOf
<1> QED
  BY <1>3, <1>4, CallsMapped

LEMMA ReplyMapped ==
  ASSUME Willing, RpcInv, NEW p \in net, ReceiveReply(p)
  PROVE  UNCHANGED Rpc!rvars \/ (Rpc!Answer(p.seq) /\ p.seq \in Seqs)
<1>1. /\ nextSeq' = nextSeq /\ fresh' = fresh /\ p.kind = "reply"
      /\ outcome' = [s \in Seqs |-> IF \E r \in Matching(p) : r.seq = s
                                    THEN Append(outcome[s], p.seq) ELSE outcome[s]]
  BY DEF ReceiveReply
<1>2. outcome \in [Seqs -> Seq({TimeOut} \cup Seqs)] /\ p.seq \in Seqs /\ p.to \in MUD
  BY PacketsTyped DEF RpcInv, IInv, TypeOK
<1>3. CASE Matching(p) = {}
  <2>1. outcome' = outcome
    BY <1>1, <1>2, <1>3
  <2> QED
    BY <1>1, <2>1, Unseen
<1>4. CASE Matching(p) # {}
  <2>1. \A r \in Matching(p) : r.seq = p.seq /\ r \in pending[p.to]
    <3>1. <<p.id, p.seq>> \in Ids(p.to)
      BY <1>1, <1>2 DEF Ids, Owner
    <3>2. \A r \in Matching(p) : r \in pending[p.to] /\ r.id = p.id /\ <<r.id, r.seq>> \in Ids(p.to)
      BY DEF Matching, Ids
    <3> QED
      BY <1>2, <3>1, <3>2 DEF RpcInv, MatchInv, IdsUnique
  <2>2. PICK r \in Matching(p) : r.seq = p.seq /\ r \in pending[p.to]
    BY <1>4, <2>1
  <2>3. p.seq < nextSeq /\ outcome[p.seq] = <<>>
    BY <1>2, <2>2 DEF RpcInv, IInv, PendingOpen
  <2>4. outcome' = [outcome EXCEPT ![p.seq] = Append(@, p.seq)]
    BY <1>1, <1>2, <2>1, <2>2
  <2>5. AbsCall[p.seq] = "open" /\ AbsCall' = [AbsCall EXCEPT ![p.seq] = "answered"]
    BY <1>1, <1>2, <2>3, <2>4, EndMapped
  <2>6. fresh[p.seq] = 1
    <3>1. fresh[p.seq] \in Nat /\ fresh[p.seq] # 0 /\ fresh[p.seq] <= 1
      BY <1>1, <1>2, PacketsTyped DEF RpcInv, MatchInv, RunFirst, OnceInv
    <3> QED
      BY <3>1
  <2> QED
    BY <1>1, <1>2, <2>5, <2>6 DEF Rpc!Answer
<1> QED
  BY <1>3, <1>4

LEMMA RunMapped ==
  ASSUME Willing, RpcInv, NEW p \in net, ReceiveRequest(p)
  PROVE  UNCHANGED Rpc!rvars \/ (Rpc!Run(p.seq) /\ p.seq \in Seqs)
<1>1. nextSeq' = nextSeq /\ outcome' = outcome /\ p.kind = "request"
  BY DEF ReceiveRequest
<1>2. fresh \in [Seqs -> Nat] /\ p.seq \in Seqs /\ p.seq \in Nat /\ nextSeq \in Nat
  BY PacketsTyped DEF RpcInv, IInv
<1>3. CASE Seen(p)
  BY <1>1, <1>3, Unseen DEF ReceiveRequest
<1>4. CASE ~Seen(p)
  <2>1. fresh' = [fresh EXCEPT ![p.seq] = @ + 1]
    BY <1>4 DEF ReceiveRequest
  <2>2. OnceInv' /\ Prompt
    BY NextOnce DEF RpcInv, Willing, Next, Work, Receive
  <2>3. fresh[p.seq] = 0
    BY <1>2, <2>1, <2>2 DEF OnceInv
  <2>4. p.seq < nextSeq
    <3>1. <<p.seq, p.from, p.to, p.id>> \in Origins
      BY <1>1 DEF Origins
    <3> QED
      BY <3>1 DEF RpcInv, OnceInv, OneOrigin
  <2>5. CallOf(p.seq) # "new"
    BY <1>2, <2>4 DEF CallOf
  <2>6. AbsCall[p.seq] # "new" /\ AbsCall' = AbsCall
    BY <1>1, <1>2, <2>5, CallsMapped DEF AbsCall
  <2> QED
    BY <1>2, <2>1, <2>3, <2>6 DEF Rpc!Run
<1> QED
  BY <1>3, <1>4

LEMMA GiveUpMapped ==
  ASSUME RpcInv, NEW m \in MUD, NEW r \in pending[m], GiveUp(m, r)
  PROVE  Rpc!TimeOut(r.seq) /\ r.seq \in Seqs
<1>1. /\ nextSeq' = nextSeq /\ fresh' = fresh
      /\ outcome' = [outcome EXCEPT ![r.seq] = Append(@, TimeOut)]
  BY DEF GiveUp
<1>2. r.seq \in Seqs /\ r.seq # TimeOut /\ r.seq < nextSeq /\ outcome[r.seq] = <<>>
  BY PacketsTyped DEF RpcInv, IInv, PendingOpen
<1>3. AbsCall[r.seq] = "open" /\ AbsCall' = [AbsCall EXCEPT ![r.seq] = "timedout"]
  BY <1>1, <1>2, EndMapped
<1> QED
  BY <1>1, <1>2, <1>3 DEF Rpc!TimeOut

LEMMA NextMapped == Willing => (RpcInv /\ [Next]_vars => [Rpc!Next]_Rpc!rvars)
<1> SUFFICES ASSUME Willing, RpcInv, [Next]_vars PROVE [Rpc!Next]_Rpc!rvars
  OBVIOUS
<1>1. CASE \E m \in MUD : \E x \in MUD \ {m} : Request(m, x)
  BY <1>1, RequestMapped DEF Rpc!Next
<1>2. ASSUME NEW p \in net, ReceiveReply(p) \/ ReceiveRequest(p)
      PROVE  [Rpc!Next]_Rpc!rvars
  BY <1>2, ReplyMapped, RunMapped DEF Rpc!Next
<1>3. ASSUME NEW m \in MUD, NEW r \in pending[m], GiveUp(m, r)
      PROVE  [Rpc!Next]_Rpc!rvars
  BY <1>3, GiveUpMapped DEF Rpc!Next
<1>4. CASE CallOuts
  BY <1>3, <1>4, Unseen DEF CallOuts, Retry, RemoveReceivedId, ghosts
<1>5. CASE Tick \/ UNCHANGED vars
  BY <1>5, Unseen DEF Tick, vars
<1>6. CASE (\E p \in net : Refuse(p)) \/ (\E m \in MUD : Restart(m))
  BY <1>6, ConstantsAssumption DEF Refuse, Restart, Willing, Prompt, Calm, RpcInv, IInv, TypeOK,
     ConstantsAssumption
<1> QED
  BY <1>1, <1>2, <1>4, <1>5, <1>6 DEF Next, Work, Receive

\* Requests over a network that loses, duplicates and reorders packets are remote
\* calls: each is run as new at most once, and ends with the answer, after it
\* was run, or with a time-out, never both (445-545, 761-796).
THEOREM ImplementsRemoteCall == Willing => (Spec => ImplementsRpc)
<1> SUFFICES ASSUME Willing PROVE Spec => ImplementsRpc
  OBVIOUS
<1>1. Init => RpcInv
  <2>1. Init => IInv /\ MatchInv
    BY InitIInv, InitMatch
  <2>2. Init => RepeatInv /\ OnceInv /\ RunFirst
    BY DEF Init, RepeatInv, IdsRun, RepeatIsRepeat, OnceInv, OneOrigin, Origins, RunFirst
  <2> QED
    BY <2>1, <2>2 DEF RpcInv
<1>2. RpcInv /\ [Next]_vars => RpcInv'
  BY NextRpcInv
<1>3. RpcInv /\ [Next]_vars => [Rpc!Next]_Rpc!rvars
  BY NextMapped
<1> QED
  BY <1>1, <1>2, <1>3, InitMapped, PTL DEF Spec, ImplementsRpc, Rpc!Spec
-----------------------------------------------------------------------------
(***************************************************************************)
(* The retries.  If packets arrive within one REPLY_TIME_OUT and every     *)
(* request is answered, if only by a refusal, each attempt that ends in a  *)
(* time-out has cost the network a packet: restarts, failing udp_reply()s  *)
(* and duplicates included.                                                *)
(***************************************************************************)
Answering == Silent = {} /\ MaxDelay = 0

\* A packet of the last attempt of r, or the answer to it.
AttemptOf(m, r, p) ==
  /\ p.seq = r.seq /\ p.id = r.id
  /\ \/ p.kind = "request" /\ p.from = m /\ p.to = r.to
     \/ p.kind = "reply" /\ p.from = r.to /\ p.to = m
UnderWay(m, r) == \E p \in net : AttemptOf(m, r, p)

\* Attempts that are over have cost a packet each; that of the last one is
\* under way until its time is over.
AttemptsLost ==
  \A m \in MUD : \A r \in pending[m] :
    /\ losses[r.seq] >= r.retry + (1 - r.timer)
    /\ r.timer = 1 => UnderWay(m, r)

LossInv == IsFiniteSet(net) /\ AttemptsLost /\ RetriesSuffice

LEMMA LossTypes ==
  ASSUME IInv
  PROVE  /\ losses \in [Seqs -> 0 .. RETRIES + 1] /\ RETRIES \in Nat
         /\ outcome \in [Seqs -> Seq({TimeOut} \cup Seqs)]
         /\ pending \in [MUD -> SUBSET Pending]
         /\ \A p \in net : p \in Packet /\ p.seq \in Seqs
         /\ \A m \in MUD : \A r \in pending[m] :
              /\ r \in Pending /\ r.seq \in Seqs /\ r.retry \in 0 .. RETRIES
              /\ r.timer \in {0, 1} /\ losses[r.seq] \in 0 .. RETRIES + 1
BY ConstantsAssumption DEF IInv, TypeOK, Packet, Pending, ConstantsAssumption

\* A packet is taken, and another one may be sent.
LEMMA FiniteNet ==
  ASSUME IsFiniteSet(net), NEW p \in net, NEW q, net' \subseteq net \cup {q}
  PROVE  IsFiniteSet(net')
BY FS_AddElement, FS_Subset

\* Nothing is sent or lost.
LEMMA LossKept ==
  ASSUME LossInv, UNCHANGED <<outcome, losses>>, IsFiniteSet(net'),
         \A m \in MUD : \A r \in pending'[m] :
           r \in pending[m] /\ (UnderWay(m, r) => UnderWay(m, r)')
  PROVE  LossInv'
<1>1. RetriesSuffice'
  BY DEF LossInv, RetriesSuffice
<1>2. AttemptsLost'
  BY DEF LossInv, AttemptsLost
<1> QED
  BY <1>1, <1>2 DEF LossInv

\* A request is sent for the first time, or again.
LEMMA SentLoss ==
  ASSUME IInv, IInv', LossInv, NEW m \in MUD, NEW r \in Pending, r.timer = 1,
         pending' \in [MUD -> SUBSET Pending],
         \A n \in MUD : \A t \in pending'[n] : t \in pending[n] \/ (n = m /\ t = r),
         net' = net \cup {RequestPacket(m, r)}, losses[r.seq] >= r.retry,
         UNCHANGED <<outcome, losses>>
  PROVE  LossInv'
<1>1. IsFiniteSet(net') /\ RetriesSuffice'
  BY FS_AddElement DEF LossInv, RetriesSuffice
<1>2. AttemptOf(m, r, RequestPacket(m, r))
  BY DEF AttemptOf, RequestPacket
<1> HIDE DEF AttemptOf
<1>3. UnderWay(m, r)' /\ \A n \in MUD : \A t \in pending[n] : UnderWay(n, t) => UnderWay(n, t)'
  BY <1>2 DEF UnderWay
<1>4. r.retry \in Nat
  BY ConstantsAssumption DEF Pending, ConstantsAssumption
<1>5. AttemptsLost'
  <2> SUFFICES ASSUME NEW n \in MUD, NEW t \in pending'[n]
               PROVE  /\ losses[t.seq] >= t.retry + (1 - t.timer)
                      /\ t.timer = 1 => UnderWay(n, t)'
    BY DEF AttemptsLost
  <2>1. CASE t \in pending[n]
    BY <1>3, <2>1 DEF LossInv, AttemptsLost
  <2>2. CASE n = m /\ t = r
    BY <1>3, <1>4, <2>2
  <2> QED
    BY <2>1, <2>2
<1> QED
  BY <1>1, <1>5 DEF LossInv

LEMMA RequestLoss ==
  ASSUME IInv, IInv', LossInv, NEW m \in MUD, NEW x \in MUD \ {m}, Request(m, x)
  PROVE  LossInv'
<1> DEFINE r == [to |-> x, id |-> packetId'[m], seq |-> nextSeq, retry |-> 0, timer |-> 1]
<1>1. /\ pending' = [pending EXCEPT ![m] = @ \cup {r}] /\ net' = net \cup {RequestPacket(m, r)}
      /\ UNCHANGED <<outcome, losses>> /\ nextSeq \in Seqs
  BY ConstantsAssumption DEF Request, IInv, TypeOK, Seqs, ConstantsAssumption
<1>2. pending \in [MUD -> SUBSET Pending] /\ pending' \in [MUD -> SUBSET Pending]
  BY DEF IInv, TypeOK
<1>3. losses[nextSeq] >= 0
  BY <1>1, LossTypes
<1>4. r.timer = 1 /\ r.retry = 0 /\ r.seq = nextSeq
  OBVIOUS
<1> HIDE DEF r
<1>5. r \in Pending /\ \A n \in MUD : \A t \in pending'[n] : t \in pending[n] \/ (n = m /\ t = r)
  BY <1>1, <1>2
<1> QED
  BY <1>1, <1>2, <1>3, <1>4, <1>5, SentLoss

LEMMA RetryLoss ==
  ASSUME IInv, IInv', LossInv, NEW m \in MUD, NEW r \in pending[m], Retry(m, r)
  PROVE  LossInv'
<1> DEFINE t == Retried(r)
<1>1. /\ pending' = [pending EXCEPT ![m] = (@ \ {r}) \cup {t}]
      /\ net' = net \cup {RequestPacket(m, r)} /\ UNCHANGED <<outcome, losses>> /\ r.timer = 0
  BY DEF Retry, ghosts
<1>2. pending \in [MUD -> SUBSET Pending] /\ pending' \in [MUD -> SUBSET Pending]
  BY DEF IInv, TypeOK
<1>3. r.retry \in Nat
  BY LossTypes
<1>4. t.timer = 1 /\ t.retry = r.retry + 1 /\ t.seq = r.seq
      /\ RequestPacket(m, t) = RequestPacket(m, r)
  BY DEF Retried, RequestPacket
<1> HIDE DEF t
<1>5. t \in Pending /\ \A n \in MUD : \A u \in pending'[n] : u \in pending[n] \/ (n = m /\ u = t)
  BY <1>1, <1>2
<1>6. losses[t.seq] >= t.retry
  BY <1>1, <1>3, <1>4 DEF LossInv, AttemptsLost
<1> QED
  BY <1>1, <1>2, <1>4, <1>5, <1>6, SentLoss

\* A reply that ends the last attempt ends the request.
LEMMA ReplyLoss ==
  ASSUME IInv, LossInv, NEW p \in net, ReceiveReply(p)
  PROVE  LossInv'
<1>1. /\ p.kind = "reply" /\ net \ {p} \subseteq net' /\ net' \subseteq net \cup {ReplyPacket(p)}
      /\ losses' = losses /\ pending' = Answered(p)
      /\ outcome' = [s \in Seqs |-> IF \E r \in Matching(p) : r.seq = s
                                      THEN Append(outcome[s], p.seq) ELSE outcome[s]]
  BY DEF ReceiveReply, Rest
<1>2. p.seq \in Seqs /\ p.to \in MUD
  BY LossTypes DEF Packet
<1>3. RetriesSuffice'
  <2> SUFFICES ASSUME NEW s \in Seqs, outcome'[s] = <<TimeOut>>
               PROVE  outcome[s] = <<TimeOut>>
    BY <1>1 DEF LossInv, RetriesSuffice
  <2>1. CASE \E r \in Matching(p) : r.seq = s
    <3>1. outcome[s] = <<>>
      BY <1>2, <2>1 DEF Matching, IInv, PendingOpen
    <3>2. outcome'[s] = Append(outcome[s], p.seq)
      BY <1>1, <2>1
    <3>3. outcome'[s] = <<p.seq>>
      BY <3>1, <3>2
    <3> QED
      BY <1>2, <3>3 DEF Seqs, TimeOut
  <2>2. CASE ~\E r \in Matching(p) : r.seq = s
    BY <1>1, <2>2
  <2> QED
    BY <2>1, <2>2
<1>4. ASSUME NEW m \in MUD, NEW r \in pending'[m]
      PROVE  r \in pending[m] /\ (UnderWay(m, r) => UnderWay(m, r)')
  <2>1. r \in pending[m] /\ (m = p.to => r \notin Matching(p))
    BY <1>1, <1>2, LossTypes DEF Answered
  <2>2. ~AttemptOf(m, r, p)
    BY <1>1, <2>1 DEF AttemptOf, Matching
  <2> QED
    BY <1>1, <2>1, <2>2 DEF UnderWay
<1>5. IsFiniteSet(net')
  BY <1>1, FiniteNet DEF LossInv
<1>6. AttemptsLost'
  BY <1>1, <1>4 DEF LossInv, AttemptsLost
<1> QED
  BY <1>3, <1>5, <1>6 DEF LossInv

\* The answer to a request stands for it, be it a refusal.
LEMMA AnswerLoss ==
  ASSUME Answering, IInv, LossInv, NEW p \in net, ReceiveRequest(p) \/ Refuse(p)
  PROVE  LossInv'
<1>1. /\ p.kind = "request" /\ UNCHANGED <<outcome, losses, pending>>
      /\ net \ {p} \subseteq net' /\ net' \subseteq net \cup {ReplyPacket(p)}
      /\ ReplyPacket(p) \in net'
  BY DEF ReceiveRequest, Refuse, Rest, ghosts, Answering
<1>2. ASSUME NEW m \in MUD, NEW r \in pending[m], AttemptOf(m, r, p)
      PROVE  AttemptOf(m, r, ReplyPacket(p))
  BY <1>1, <1>2 DEF AttemptOf, ReplyPacket
<1> HIDE DEF AttemptOf
<1>3. \A m \in MUD : \A r \in pending[m] : UnderWay(m, r) => UnderWay(m, r)'
  BY <1>1, <1>2 DEF UnderWay
<1>4. IsFiniteSet(net')
  BY <1>1, FiniteNet DEF LossInv
<1> QED
  BY <1>1, <1>3, <1>4, LossKept

\* The last attempt is over, and RETRIES + 1 packets are lost.
LEMMA GiveUpLoss ==
  ASSUME IInv, LossInv, NEW m \in MUD, NEW r \in pending[m], GiveUp(m, r)
  PROVE  LossInv'
<1>1. /\ net' = net /\ losses' = losses /\ pending' = [pending EXCEPT ![m] = @ \ {r}]
      /\ outcome' = [outcome EXCEPT ![r.seq] = Append(@, TimeOut)]
      /\ r.timer = 0 /\ ~(r.retry < RETRIES)
  BY DEF GiveUp, GivenUp, HasRetries
<1>2. losses[r.seq] > RETRIES
  <2>1. losses[r.seq] >= r.retry + 1
    BY <1>1, LossTypes DEF LossInv, AttemptsLost
  <2> QED
    BY <1>1, <2>1, LossTypes
<1>3. RetriesSuffice'
  BY <1>1, <1>2, LossTypes DEF LossInv, RetriesSuffice
<1>4. \A n \in MUD : pending'[n] \subseteq pending[n]
  BY <1>1, LossTypes
<1>5. AttemptsLost'
  BY <1>1, <1>4 DEF LossInv, AttemptsLost, UnderWay
<1> QED
  BY <1>1, <1>3, <1>5 DEF LossInv

\* A unit of time is over: whatever is under way is lost, so that every attempt
\* loses the packet that was under way for it.
LEMMA TickLoss ==
  ASSUME Answering, IInv, LossInv, Tick
  PROVE  LossInv'
<1> DEFINE Lost(s) == {p \in Overdue : p.seq = s}
<1>1. /\ net' = {[p EXCEPT !.ttl = @ - 1] : p \in net \ Overdue}
      /\ losses' = [s \in Seqs |-> UpTo(losses[s] + Cardinality(Lost(s)))]
      /\ outcome' = outcome
      /\ \A m \in MUD : pending'[m] = {[r EXCEPT !.timer = @ - 1] : r \in pending[m]}
      /\ \A m \in MUD : \A r \in pending[m] : r.timer > 0
  BY DEF Tick
<1>2. Overdue = net
  BY LossTypes DEF Overdue, Packet, Answering
<1>3. IsFiniteSet(net')
  BY <1>1, <1>2, FS_EmptySet
<1>4. ASSUME NEW s \in Seqs
      PROVE  /\ Cardinality(Lost(s)) \in Nat
             /\ Lost(s) # {} => Cardinality(Lost(s)) > 0
  <2>1. IsFiniteSet(Lost(s))
    BY <1>2, FS_Subset DEF LossInv
  <2> QED
    BY <2>1, FS_CardinalityType, FS_EmptySet
<1> HIDE DEF Lost
<1>5. ASSUME NEW s \in Seqs
      PROVE  /\ losses'[s] >= losses[s]
             /\ Lost(s) # {} => losses'[s] >= losses[s] + 1 \/ losses'[s] = RETRIES + 1
  <2>1. losses[s] \in 0 .. RETRIES + 1 /\ RETRIES \in Nat
    BY LossTypes
  <2>2. losses'[s] = UpTo(losses[s] + Cardinality(Lost(s)))
    BY <1>1
  <2> QED
    BY <1>4, <2>1, <2>2 DEF UpTo
<1>6. RetriesSuffice'
  <2> SUFFICES ASSUME NEW s \in Seqs, outcome[s] = <<TimeOut>>
               PROVE  losses'[s] > RETRIES
    BY <1>1 DEF RetriesSuffice
  <2>1. losses[s] > RETRIES /\ losses[s] \in Nat /\ RETRIES \in Nat
    BY LossTypes DEF LossInv, RetriesSuffice
  <2>2. losses'[s] >= losses[s] /\ losses'[s] \in Nat
    BY <1>5, TickStep, LossTypes, ConstantsAssumption DEF IInv, TypeOK, ConstantsAssumption
  <2> QED
    BY <2>1, <2>2
<1>7. AttemptsLost'
  <2> SUFFICES ASSUME NEW m \in MUD, NEW t \in pending'[m]
               PROVE  losses'[t.seq] >= t.retry + (1 - t.timer) /\ t.timer # 1
    BY DEF AttemptsLost
  <2>1. PICK r \in pending[m] : t = [r EXCEPT !.timer = @ - 1]
    BY <1>1
  <2>2. r \in Pending /\ r.seq \in Seqs /\ r.retry \in 0 .. RETRIES /\ r.timer = 1
        /\ losses[r.seq] \in 0 .. RETRIES + 1 /\ RETRIES \in Nat
    BY <1>1, LossTypes
  <2>3. t.seq = r.seq /\ t.retry = r.retry /\ t.timer = 0
    BY <2>1, <2>2 DEF Pending
  <2>4. UnderWay(m, r) /\ losses[r.seq] >= r.retry
    BY <2>2 DEF LossInv, AttemptsLost
  <2>5. Lost(r.seq) # {}
    BY <1>2, <2>4 DEF UnderWay, AttemptOf, Lost
  <2>6. losses'[r.seq] >= losses[r.seq] + 1 \/ losses'[r.seq] = RETRIES + 1
    BY <1>5, <2>2, <2>5
  <2>7. losses'[r.seq] \in Nat
    BY <2>2, TickStep, ConstantsAssumption DEF IInv, TypeOK, ConstantsAssumption
  <2> QED
    BY <2>2, <2>3, <2>4, <2>6, <2>7
<1> QED
  BY <1>3, <1>6, <1>7 DEF LossInv

LEMMA NextLoss ==
  ASSUME Answering, IInv, LossInv, [Next]_vars
  PROVE  LossInv'
<1>1. IInv'
  BY NextIInv
<1>2. ASSUME NEW m \in MUD, NEW x \in MUD \ {m}, Request(m, x) PROVE LossInv'
  BY <1>1, <1>2, RequestLoss
<1>3. CASE Receive
  BY <1>3, ReplyLoss, AnswerLoss DEF Receive
<1>4. ASSUME NEW m \in MUD, NEW r \in pending[m], Retry(m, r) \/ GiveUp(m, r) PROVE LossInv'
  BY <1>1, <1>4, RetryLoss, GiveUpLoss
<1>5. CASE \/ UNCHANGED vars
           \/ \E m \in MUD : \E r \in received[m] : RemoveReceivedId(m, r)
  BY <1>5, LossKept DEF vars, RemoveReceivedId, ghosts, LossInv, UnderWay
<1>6. CASE Tick
  BY <1>6, TickLoss
<1>7. ASSUME NEW m \in MUD, Restart(m) PROVE LossInv'
  <2>1. /\ UNCHANGED <<net, outcome, losses>> /\ \A n \in MUD : pending'[n] \subseteq pending[n]
    BY <1>7, LossTypes DEF Restart, ghosts
  <2> QED
    BY <2>1, LossKept DEF LossInv, UnderWay
<1> QED
  BY <1>2, <1>3, <1>4, <1>5, <1>6, <1>7 DEF Next, Work, CallOuts

\* RETRIES losses are made good (768-795): a request to a mud that answers in
\* time is given up only if each of its RETRIES + 1 attempts lost a packet,
\* for any number of retries, muds and requests.
THEOREM LossesMadeGood == Answering => (Spec => []RetriesSuffice)
<1> SUFFICES ASSUME Answering PROVE Spec => []RetriesSuffice
  OBVIOUS
<1>1. Init => LossInv
  BY FS_EmptySet DEF Init, LossInv, AttemptsLost, RetriesSuffice
<1>2. IInv /\ LossInv /\ [Next]_vars => LossInv'
  BY NextLoss
<1>3. LossInv => RetriesSuffice
  BY DEF LossInv
<1> QED
  BY <1>1, <1>2, <1>3, Invariance, PTL DEF Spec
=============================================================================
