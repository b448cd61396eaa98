--------------------------- MODULE UdpMail_proofs ---------------------------
(***************************************************************************)
(* What writers of mail are told is true, for every choice of constants:   *)
(* any number of muds, mails and restarts, muds that refuse, replies that  *)
(* fail, packets that are lost, late or duplicated.  And if no packet is   *)
(* duplicated, a mail is delivered no more often than it was sent.  While  *)
(* nothing is refused, fails or restarts, a mail is lost only by a request *)
(* that timed out, and so only by more than RETRIES losses if its          *)
(* recipient's mud answers in time.                                        *)
(***************************************************************************)
EXTENDS UdpMail, Inetd_proofs, FiniteSetTheorems

\* The mud at the other end: not the one where the mail was written.
Remote(p) == IF p.to = writer[p.seq] THEN p.from ELSE p.to

MailTypes ==
  /\ writer \in Seq(MUD) /\ Len(writer) = nextSeq - 1
  /\ mailbox \in [Seqs -> Nat]
  /\ told \in [Seqs -> Seq(Notice)]

\* Who wrote the mail of a packet, or of a pending request
OfItsWriter(p) ==
  /\ p.seq < nextSeq
  /\ writer[p.seq] \in {p.from, p.to}
  /\ p.kind = "request" => p.from = writer[p.seq]

PendingOfWriter ==
  \A m \in MUD : \A r \in pending[m] : r.seq < nextSeq /\ writer[r.seq] = m

\* A reply about a mail was sent when the mail had been delivered, unless the
\* recipient is unknown, or the mud refuses mail.
SentAfter(p) ==
  p.kind = "reply" =>
    p.seq \in Unknown \/ mailbox[p.seq] > 0 \/ Remote(p) \in Refusing

ToldAfter ==
  \A s \in Seqs :
    /\ s \in Unknown => mailbox[s] = 0
    /\ \A i \in DOMAIN told[s] :
         \/ s \in Unknown /\ told[s][i] = "bounced"
         \/ s \notin Unknown /\ told[s][i] = "delivered" /\ mailbox[s] > 0

MailInv ==
  /\ MailTypes /\ PendingOfWriter /\ ToldAfter
  /\ \A p \in net : OfItsWriter(p) /\ SentAfter(p)

LEMMA MailTyped ==
  ASSUME TypeOK, MailTypes
  PROVE  /\ nextSeq \in Nat /\ DOMAIN writer = 1 .. nextSeq - 1
         /\ \A p \in net : /\ p \in Packet /\ p.seq \in Seqs /\ p.seq \in Nat
                           /\ p.from \in MUD /\ p.to \in MUD
         /\ \A m \in MUD : \A r \in pending[m] :
              r \in Pending /\ r.seq \in Seqs /\ r.seq \in Nat /\ r.to \in MUD
<1>1. nextSeq \in Nat /\ DOMAIN writer = 1 .. nextSeq - 1
  BY ConstantsAssumption DEF TypeOK, MailTypes, ConstantsAssumption
<1>2. \A p \in net : /\ p \in Packet /\ p.seq \in Seqs /\ p.seq \in Nat
                     /\ p.from \in MUD /\ p.to \in MUD
  BY DEF TypeOK, Packet, Seqs
<1>3. \A m \in MUD : \A r \in pending[m] :
        r \in Pending /\ r.seq \in Seqs /\ r.seq \in Nat /\ r.to \in MUD
  BY DEF TypeOK, Pending, Seqs
<1> QED
  BY <1>1, <1>2, <1>3

\* Steps in which nothing happens to the mails: what is under way afterwards
\* was under way before, or is a request sent again.
LEMMA NoMailStep ==
  ASSUME MailInv, nextSeq' = nextSeq, UNCHANGED mailVars,
         \A p \in net' : \/ \E q \in net : /\ p.kind = q.kind /\ p.seq = q.seq
                                           /\ p.from = q.from /\ p.to = q.to
                         \/ \E m \in MUD : \E r \in pending[m] : p = RequestPacket(m, r),
         \A m \in MUD : \A r \in pending'[m] : \E t \in pending[m] : r.seq = t.seq
  PROVE  MailInv'
<1> USE DEF MailInv, mailVars
<1>1. MailTypes' /\ ToldAfter'
  BY DEF MailTypes, ToldAfter
<1>2. PendingOfWriter'
  BY DEF PendingOfWriter
<1>3. ASSUME NEW p \in net'
      PROVE  OfItsWriter(p)' /\ SentAfter(p)'
  <2>1. CASE \E q \in net : /\ p.kind = q.kind /\ p.seq = q.seq
                            /\ p.from = q.from /\ p.to = q.to
    BY <2>1 DEF OfItsWriter, SentAfter, Remote
  <2>2. CASE \E m \in MUD : \E r \in pending[m] : p = RequestPacket(m, r)
    BY <2>2 DEF RequestPacket, PendingOfWriter, OfItsWriter, SentAfter
  <2> QED
    BY <2>1, <2>2
<1> QED
  BY <1>1, <1>2, <1>3

LEMMA DeliverMailStep ==
  ASSUME TypeOK, MailInv, NEW m \in MUD, NEW x \in MUD \ {m}, DeliverMail(m, x)
  PROVE  MailInv'
<1> DEFINE r == [to |-> x, id |-> packetId'[m], seq |-> nextSeq, retry |-> 0, timer |-> 1]
<1>1. /\ pending' = [pending EXCEPT ![m] = @ \cup {r}] /\ net' = net \cup {RequestPacket(m, r)}
      /\ nextSeq' = nextSeq + 1 /\ nextSeq \in Seqs
      /\ writer' = Append(writer, m) /\ mailbox' = mailbox /\ told' = told
  BY DEF DeliverMail, Request, TypeOK, Seqs
<1>2. /\ r.seq = nextSeq /\ RequestPacket(m, r).seq = nextSeq
      /\ RequestPacket(m, r).kind = "request" /\ RequestPacket(m, r).from = m
  BY DEF RequestPacket
<1> HIDE DEF r
<1>3. nextSeq \in Nat /\ DOMAIN writer = 1 .. nextSeq - 1 /\ writer \in Seq(MUD) /\ Len(writer) = nextSeq - 1
  BY MailTyped DEF MailInv, MailTypes
<1>4. /\ writer' \in Seq(MUD) /\ Len(writer') = nextSeq' - 1 /\ writer'[nextSeq] = m
      /\ \A s \in 1 .. nextSeq - 1 : writer'[s] = writer[s]
  BY <1>1, <1>3
<1>5. MailTypes' /\ ToldAfter'
  BY <1>1, <1>4 DEF MailInv, MailTypes, ToldAfter
<1>6. PendingOfWriter'
  <2> SUFFICES ASSUME NEW n \in MUD, NEW t \in pending'[n]
               PROVE  t.seq < nextSeq' /\ writer'[t.seq] = n
    BY DEF PendingOfWriter
  <2>1. t \in pending[n] \/ (n = m /\ t = r)
    BY <1>1 DEF TypeOK
  <2>2. CASE t \in pending[n]
    <3>1. t.seq \in Seqs /\ t.seq \in Nat /\ t.seq < nextSeq /\ writer[t.seq] = n
      BY <2>2, MailTyped DEF MailInv, PendingOfWriter
    <3> QED
      BY <1>1, <1>3, <1>4, <3>1 DEF Seqs
  <2>3. CASE n = m /\ t = r
    BY <1>1, <1>2, <1>3, <1>4, <2>3
  <2> QED
    BY <2>1, <2>2, <2>3
<1>7. ASSUME NEW p \in net'
      PROVE  OfItsWriter(p)' /\ SentAfter(p)'
  <2>1. CASE p \in net
    <3>1. p.seq \in Seqs /\ p.seq \in Nat /\ OfItsWriter(p) /\ SentAfter(p)
      BY <2>1, MailTyped DEF MailInv
    <3>2. writer'[p.seq] = writer[p.seq]
      BY <1>3, <1>4, <3>1 DEF OfItsWriter, Seqs
    <3> QED
      BY <1>1, <1>3, <3>1, <3>2 DEF OfItsWriter, SentAfter, Remote
  <2>2. CASE p = RequestPacket(m, r)
    BY <1>1, <1>2, <1>3, <1>4, <2>2 DEF OfItsWriter, SentAfter
  <2> QED
    BY <1>1, <2>1, <2>2
<1> QED
  BY <1>5, <1>6, <1>7 DEF MailInv

\* A reply to a packet is about the same mail, and between the same muds.
LEMMA ReplyMail ==
  ASSUME TypeOK, MailInv, NEW p \in net
  PROVE  /\ OfItsWriter(ReplyPacket(p)) /\ ReplyPacket(p).seq = p.seq
         /\ Remote(ReplyPacket(p)) = Remote(p)
         /\ p.kind = "reply" => SentAfter(ReplyPacket(p))
<1>1. OfItsWriter(p) /\ SentAfter(p)
  BY DEF MailInv
<1>2. /\ ReplyPacket(p).kind = "reply" /\ ReplyPacket(p).seq = p.seq
      /\ ReplyPacket(p).from = p.to /\ ReplyPacket(p).to = p.from
  BY DEF ReplyPacket
<1>3. OfItsWriter(ReplyPacket(p))
  BY <1>1, <1>2 DEF OfItsWriter
<1>4. Remote(ReplyPacket(p)) = Remote(p)
  BY <1>1, <1>2 DEF OfItsWriter, Remote
<1> QED
  BY <1>1, <1>2, <1>3, <1>4 DEF SentAfter


\* What becomes of the packets under way and the pending requests when a packet
\* is received and perhaps answered, and a copy of the mail perhaps saved.
LEMMA PacketTaken ==
  ASSUME TypeOK, MailInv, NEW p \in net,
         net' \subseteq net \cup {ReplyPacket(p)},
         \A m \in MUD : pending'[m] \subseteq pending[m],
         nextSeq' = nextSeq, writer' = writer,
         mailbox' \in [Seqs -> Nat],
         \A s \in Seqs : mailbox[s] > 0 => mailbox'[s] > 0,
         SentAfter(ReplyPacket(p))'
  PROVE  PendingOfWriter' /\ \A q \in net' : OfItsWriter(q)' /\ SentAfter(q)'
<1>1. PendingOfWriter'
  BY DEF MailInv, PendingOfWriter
<1>2. ASSUME NEW q \in net
      PROVE  OfItsWriter(q)' /\ SentAfter(q)'
  <2>1. q.seq \in Seqs /\ OfItsWriter(q) /\ SentAfter(q)
    BY MailTyped DEF MailInv
  <2> QED
    BY <2>1 DEF OfItsWriter, SentAfter, Remote
<1>3. OfItsWriter(ReplyPacket(p))'
  BY ReplyMail DEF OfItsWriter
<1> QED
  BY <1>1, <1>2, <1>3

LEMMA ReceiveAnswerStep ==
  ASSUME TypeOK, MailInv, NEW p \in net, ReceiveAnswer(p)
  PROVE  MailInv'
<1>1. /\ nextSeq' = nextSeq /\ writer' = writer /\ mailbox' = mailbox
      /\ net' \subseteq net \cup {ReplyPacket(p)} /\ p.kind = "reply"
      /\ pending' = [pending EXCEPT ![p.to] = @ \ Matching(p)]
  BY DEF ReceiveAnswer, ReceiveReply, Rest, Answered
<1>2. /\ p.seq \in Seqs /\ p.to \in MUD /\ told \in [Seqs -> Seq(Notice)]
      /\ MailTypes /\ OfItsWriter(p) /\ SentAfter(p) /\ ToldAfter
  BY MailTyped DEF MailInv, MailTypes
<1>3. PendingOfWriter' /\ \A q \in net' : OfItsWriter(q)' /\ SentAfter(q)'
  <2>1. \A m \in MUD : pending'[m] \subseteq pending[m]
    BY <1>1 DEF TypeOK
  <2>2. SentAfter(ReplyPacket(p))'
    BY <1>1, ReplyMail DEF SentAfter, Remote
  <2>3. mailbox' \in [Seqs -> Nat]
    BY <1>1, <1>2 DEF MailTypes
  <2> QED
    BY <1>1, <2>1, <2>2, <2>3, PacketTaken
<1>4. CASE told' = told
  <2>1. MailTypes' /\ ToldAfter'
    BY <1>1, <1>2, <1>4 DEF MailTypes, ToldAfter
  <2> QED
    BY <1>3, <2>1 DEF MailInv
<1>5. CASE told' = [s \in Seqs |-> IF s \in ToldOf(p) THEN Append(told[s], Answer(p))
                                   ELSE told[s]]
  <2>1. Answer(p) \in Notice
    BY DEF Answer, Notice
  <2>2. ASSUME NEW s \in Seqs
        PROVE  /\ told'[s] \in Seq(Notice)
               /\ \A i \in DOMAIN told'[s] :
                    \/ s \in Unknown /\ told'[s][i] = "bounced"
                    \/ s \notin Unknown /\ told'[s][i] = "delivered" /\ mailbox[s] > 0
    <3>1. /\ told[s] \in Seq(Notice)
          /\ \A i \in DOMAIN told[s] :
               \/ s \in Unknown /\ told[s][i] = "bounced"
               \/ s \notin Unknown /\ told[s][i] = "delivered" /\ mailbox[s] > 0
      BY <1>2 DEF ToldAfter
    <3>2. CASE s \notin ToldOf(p)
      BY <1>5, <3>1, <3>2
    <3>3. CASE s \in ToldOf(p)
      <4>1. s = p.seq /\ p.to = writer[s] /\ p.from \notin Refusing
        BY <3>3 DEF ToldOf
      <4>2. s \in Unknown \/ mailbox[s] > 0
        BY <1>1, <1>2, <4>1 DEF SentAfter, Remote
      <4>3. \/ s \in Unknown /\ Answer(p) = "bounced"
            \/ s \notin Unknown /\ Answer(p) = "delivered" /\ mailbox[s] > 0
        BY <4>1, <4>2 DEF Answer
      <4>4. told'[s] = Append(told[s], Answer(p))
        BY <1>5, <3>3
      <4> QED
        BY <2>1, <3>1, <4>3, <4>4
    <3> QED
      BY <3>2, <3>3
  <2>3. told' \in [Seqs -> Seq(Notice)]
    BY <1>5, <2>2
  <2>4. MailTypes' /\ ToldAfter'
    BY <1>1, <1>2, <2>2, <2>3 DEF MailTypes, ToldAfter
  <2> QED
    BY <1>3, <2>4 DEF MailInv
<1> QED
  BY <1>4, <1>5 DEF ReceiveAnswer

LEMMA ReceiveMailStep ==
  ASSUME TypeOK, MailInv, NEW p \in net, ReceiveMail(p)
  PROVE  MailInv'
<1>1. /\ nextSeq' = nextSeq /\ writer' = writer /\ told' = told /\ pending' = pending
      /\ mailbox' = Saved(p) /\ net' \subseteq net \cup {ReplyPacket(p)}
  BY DEF ReceiveMail, ReceiveRequest, Rest
<1>2. /\ p.seq \in Seqs /\ MailTypes /\ ToldAfter
      /\ mailbox \in [Seqs -> Nat] /\ RETRIES \in Nat
  BY MailTyped, ConstantsAssumption DEF MailInv, MailTypes, ConstantsAssumption
<1>3. /\ mailbox' \in [Seqs -> Nat]
      /\ \A s \in Seqs : mailbox[s] > 0 => mailbox'[s] > 0
      /\ \A s \in Unknown : mailbox'[s] = mailbox[s]
      /\ p.seq \in Unknown \/ mailbox'[p.seq] > 0
  <2>1. CASE p.seq \in Unknown \/ mailbox[p.seq] > RETRIES + 1
    <3>1. mailbox' = mailbox
      BY <1>1, <2>1 DEF Saved
    <3> QED
      BY <1>2, <2>1, <3>1
  <2>2. CASE ~(p.seq \in Unknown \/ mailbox[p.seq] > RETRIES + 1)
    <3>1. mailbox' = [mailbox EXCEPT ![p.seq] = @ + 1]
      BY <1>1, <2>2 DEF Saved
    <3>2. p.seq \notin Unknown
      BY <2>2
    <3> QED
      BY <1>2, <3>1, <3>2, UnknownAssumption DEF UnknownAssumption
  <2> QED
    BY <2>1, <2>2
<1>4. MailTypes' /\ ToldAfter'
  BY <1>1, <1>2, <1>3 DEF MailTypes, ToldAfter
<1>5. SentAfter(ReplyPacket(p))'
  BY <1>3, ReplyMail DEF SentAfter
<1>6. PendingOfWriter' /\ \A q \in net' : OfItsWriter(q)' /\ SentAfter(q)'
  BY <1>1, <1>3, <1>5, PacketTaken
<1> QED
  BY <1>4, <1>6 DEF MailInv

LEMMA RefuseMailStep ==
  ASSUME TypeOK, MailInv, NEW p \in net, Refuse(p), UNCHANGED mailVars
  PROVE  MailInv'
<1>1. /\ nextSeq' = nextSeq /\ writer' = writer /\ told' = told /\ pending' = pending
      /\ mailbox' = mailbox /\ net' \subseteq net \cup {ReplyPacket(p)}
      /\ p.kind = "request" /\ p.to \in Refusing
  BY DEF Refuse, Rest, ghosts, mailVars
<1>2. MailTypes' /\ ToldAfter' /\ mailbox' \in [Seqs -> Nat]
  BY <1>1 DEF MailInv, MailTypes, ToldAfter
<1>3. SentAfter(ReplyPacket(p))'
  <2>1. Remote(p) \in Refusing
    BY <1>1 DEF MailInv, OfItsWriter, Remote
  <2> QED
    BY <1>1, <2>1, ReplyMail DEF SentAfter, Remote
<1>4. PendingOfWriter' /\ \A q \in net' : OfItsWriter(q)' /\ SentAfter(q)'
  BY <1>1, <1>2, <1>3, PacketTaken
<1> QED
  BY <1>2, <1>4 DEF MailInv

LEMMA TickMailStep ==
  ASSUME TypeOK, MailInv, Tick, UNCHANGED mailVars
  PROVE  MailInv'
<1>1. nextSeq' = nextSeq
  BY DEF Tick
<1>2. \A p \in net' : \E q \in net : /\ p.kind = q.kind /\ p.seq = q.seq
                                     /\ p.from = q.from /\ p.to = q.to
  <2>1. net' = {[q EXCEPT !.ttl = @ - 1] : q \in net \ Overdue}
    BY DEF Tick
  <2>2. \A q \in net : LET p == [q EXCEPT !.ttl = @ - 1]
                       IN p.kind = q.kind /\ p.seq = q.seq /\ p.from = q.from /\ p.to = q.to
    BY DEF TypeOK, Packet
  <2> QED
    BY <2>1, <2>2
<1>3. \A m \in MUD : \A r \in pending'[m] : \E t \in pending[m] : r.seq = t.seq
  <2>1. \A m \in MUD : pending'[m] = {[t EXCEPT !.timer = @ - 1] : t \in pending[m]}
    BY DEF Tick
  <2> SUFFICES ASSUME NEW m \in MUD, NEW r \in pending'[m]
               PROVE  \E t \in pending[m] : r.seq = t.seq
    OBVIOUS
  <2>2. PICK t \in pending[m] : r = [t EXCEPT !.timer = @ - 1]
    BY <2>1
  <2>3. t \in Pending
    BY DEF TypeOK
  <2>4. r.seq = t.seq
    BY <2>2, <2>3 DEF Pending
  <2> QED
    BY <2>4
<1> QED
  BY <1>1, <1>2, <1>3, NoMailStep

LEMMA CallOutMailStep ==
  ASSUME TypeOK, MailInv, NEW m \in MUD, UNCHANGED mailVars,
         \/ \E r \in pending[m] : Retry(m, r) \/ GiveUp(m, r)
         \/ \E r \in received[m] : RemoveReceivedId(m, r)
  PROVE  MailInv'
<1>1. nextSeq' = nextSeq
  BY DEF Retry, GiveUp, RemoveReceivedId, ghosts
<1>2. \A p \in net' : p \in net \/ \E r \in pending[m] : p = RequestPacket(m, r)
  BY DEF Retry, GiveUp, RemoveReceivedId
<1>3. \A n \in MUD : \A r \in pending'[n] : \E t \in pending[n] : r.seq = t.seq
  <2>1. CASE \E r \in pending[m] : Retry(m, r)
    <3>1. PICK r \in pending[m] : Retry(m, r)
      BY <2>1
    <3>2. pending' = [pending EXCEPT ![m] = (@ \ {r}) \cup {Retried(r)}] /\ Retried(r).seq = r.seq
      BY <3>1 DEF Retry, Retried
    <3>3. \A n \in MUD : \A t \in pending'[n] :
            t \in pending[n] \/ (n = m /\ t = Retried(r))
      BY <3>2 DEF TypeOK
    <3> QED
      BY <3>2, <3>3
  <2>2. CASE \E r \in pending[m] : GiveUp(m, r)
    BY <2>2 DEF GiveUp, GivenUp, TypeOK
  <2>3. CASE \E r \in received[m] : RemoveReceivedId(m, r)
    BY <2>3 DEF RemoveReceivedId
  <2> QED
    BY <2>1, <2>2, <2>3
<1> QED
  BY <1>1, <1>2, <1>3, NoMailStep

LEMMA RestartMailStep ==
  ASSUME TypeOK, MailInv, NEW m \in MUD, Restart(m), UNCHANGED mailVars
  PROVE  MailInv'
<1>1. nextSeq' = nextSeq /\ net' = net
  BY DEF Restart, ghosts
<1>2. \A n \in MUD : \A r \in pending'[n] : \E t \in pending[n] : r.seq = t.seq
  BY DEF Restart, TypeOK
<1> QED
  BY <1>1, <1>2, NoMailStep

\* The daemon does what it always does.
LEMMA MailNextIsNext ==
  [MailNext]_allVars => [Next]_vars
BY DEF MailNext, Next, Work, Receive, CallOuts, allVars, DeliverMail, ReceiveAnswer,
       ReceiveMail, MailTimesOut

LEMMA NextMail == TypeOK /\ MailInv /\ [MailNext]_allVars => MailInv'
<1> SUFFICES ASSUME TypeOK, MailInv, [MailNext]_allVars PROVE MailInv'
  OBVIOUS
<1>1. CASE \E m \in MUD : \E x \in MUD \ {m} : DeliverMail(m, x)
  BY <1>1, DeliverMailStep
<1>2. CASE \E p \in net : ReceiveAnswer(p) \/ ReceiveMail(p)
  BY <1>2, ReceiveAnswerStep, ReceiveMailStep
<1>3. CASE \E p \in net : Refuse(p) /\ UNCHANGED mailVars
  BY <1>3, RefuseMailStep
<1>4. CASE \E m \in MUD : \E r \in pending[m] :
             (Retry(m, r) /\ UNCHANGED mailVars) \/ MailTimesOut(m, r)
  BY <1>4, CallOutMailStep DEF MailTimesOut
<1>5. CASE \E m \in MUD : \E r \in received[m] :
             RemoveReceivedId(m, r) /\ UNCHANGED mailVars
  BY <1>5, CallOutMailStep
<1>6. CASE \E m \in MUD : Restart(m) /\ UNCHANGED mailVars
  BY <1>6, RestartMailStep
<1>7. CASE Tick /\ UNCHANGED mailVars
  BY <1>7, TickMailStep
<1>8. CASE UNCHANGED allVars
  BY <1>8 DEF allVars, vars, mailVars, MailInv, MailTypes, PendingOfWriter, ToldAfter,
              OfItsWriter, SentAfter, Remote
<1> QED
  BY <1>1, <1>2, <1>3, <1>4, <1>5, <1>6, <1>7, <1>8 DEF MailNext

LEMMA InitMail == MailInit => IInv /\ MailInv
<1>1. MailInit => IInv
  BY InitIInv DEF MailInit
<1>2. MailInit => MailInv
  BY UnknownAssumption DEF MailInit, Init, MailInv, MailTypes, PendingOfWriter, ToldAfter,
     UnknownAssumption, Seqs
<1> QED
  BY <1>1, <1>2

\* Whatever happens to the daemons and the packets, and although replies are
\* matched by ids that come again, a writer is told of a mail that it was
\* delivered only when it was, and that it bounced only when it was not (udp_reply()
\* of udp_mail.c takes all it says from the reply itself).
THEOREM Truth == MailSpec => []ToldTheTruth
<1>1. MailInit => IInv /\ MailInv
  BY InitMail
<1>2. IInv /\ MailInv /\ [MailNext]_allVars => (IInv /\ MailInv)'
  BY MailNextIsNext, NextIInv, NextMail DEF IInv
<1>3. MailInv => ToldTheTruth
  BY UnknownAssumption DEF MailInv, MailTypes, ToldAfter, ToldTheTruth, UnknownAssumption
<1> QED
  BY <1>1, <1>2, <1>3, PTL DEF MailSpec

\* The bound of the model on the copies it counts
Boxes == \A s \in Seqs : mailbox[s] \in 0 .. RETRIES + 2

LEMMA SavedBounded ==
  ASSUME MailTypes, Boxes, NEW p, p.seq \in Seqs, mailbox' = Saved(p)
  PROVE  Boxes'
<1>1. RETRIES \in Nat
  BY ConstantsAssumption DEF ConstantsAssumption
<1>2. SUFFICES ASSUME NEW s \in Seqs PROVE mailbox'[s] \in 0 .. RETRIES + 2
  BY DEF Boxes
<1>3. mailbox[s] \in 0 .. RETRIES + 2
  BY DEF Boxes
<1>4. CASE mailbox' = mailbox
  BY <1>3, <1>4
<1>5. CASE mailbox' # mailbox
  <2>1. mailbox' = [mailbox EXCEPT ![p.seq] = @ + 1] /\ ~(mailbox[p.seq] > RETRIES + 1)
    BY <1>5 DEF Saved
  <2>2. mailbox'[s] = IF s = p.seq THEN mailbox[s] + 1 ELSE mailbox[s]
    BY <2>1 DEF MailTypes
  <2> QED
    BY <1>1, <1>3, <2>1, <2>2
<1> QED
  BY <1>4, <1>5

\* The steps that leave the mailboxes alone, and the one that does not
LEMMA NextBoxes == IInv /\ MailInv /\ Boxes /\ [MailNext]_allVars => Boxes'
<1> SUFFICES ASSUME IInv, MailInv, Boxes, [MailNext]_allVars PROVE Boxes'
  OBVIOUS
<1>1. ASSUME mailbox' = mailbox PROVE Boxes'
  BY <1>1 DEF Boxes
<1>2. ASSUME NEW p \in net, ReceiveMail(p) PROVE Boxes'
  <2>1. p.seq \in Seqs /\ MailTypes
    BY MailTyped DEF IInv, MailInv
  <2> QED
    BY <1>2, <2>1, SavedBounded DEF ReceiveMail
<1>3. (\E p \in net : ReceiveMail(p)) \/ mailbox' = mailbox
  BY DEF MailNext, DeliverMail, ReceiveAnswer, MailTimesOut, mailVars, allVars
<1> QED
  BY <1>1, <1>2, <1>3

\* Every mail has its writer, counted copies and what was told of it: replies
\* and time-outs put nothing else there.
THEOREM MailTypeCorrect == MailSpec => []MailTypeOK
<1>1. MailInit => IInv /\ MailInv /\ Boxes
  BY InitMail, ConstantsAssumption DEF MailInit, Boxes, ConstantsAssumption
<1>2. IInv /\ MailInv /\ Boxes /\ [MailNext]_allVars => (IInv /\ MailInv /\ Boxes)'
  BY MailNextIsNext, NextIInv, NextMail, NextBoxes DEF IInv
<1>3. IInv /\ MailInv /\ Boxes => MailTypeOK
  <2> SUFFICES ASSUME IInv, MailInv, Boxes PROVE MailTypeOK
    OBVIOUS
  <2>1. mailbox \in [Seqs -> 0 .. RETRIES + 2]
    BY DEF MailInv, MailTypes, Boxes
  <2> QED
    BY <2>1 DEF IInv, MailInv, MailTypes, MailTypeOK
<1> QED
  BY <1>1, <1>2, <1>3, PTL DEF MailSpec
-----------------------------------------------------------------------------
(***************************************************************************)
(* Every copy of a mail that is delivered was under way before, and every  *)
(* one that is under way was sent: once, or by one of the retries.         *)
(***************************************************************************)
Copies(n, s) == {p \in n : p.kind = "request" /\ p.seq = s}
Number(n, s) == Cardinality(Copies(n, s))

CopiesInv ==
  /\ IsFiniteSet(net)
  /\ \A s \in Seqs : /\ mailbox[s] + Number(net, s) <= RETRIES + 1
                     /\ s >= nextSeq => mailbox[s] + Number(net, s) = 0
  /\ \A m \in MUD : \A r \in pending[m] :
       mailbox[r.seq] + Number(net, r.seq) <= r.retry + 1

LEMMA Numbers ==
  ASSUME NEW n, IsFiniteSet(n), NEW s
  PROVE  /\ IsFiniteSet(Copies(n, s)) /\ Number(n, s) \in Nat
         /\ \A q : /\ IsFiniteSet(n \cup {q})
                   /\ Number(n \cup {q}, s) \in Nat
                   /\ Number(n \cup {q}, s) <= Number(n, s) + 1
                   /\ ~(q.kind = "request" /\ q.seq = s) => Number(n \cup {q}, s) = Number(n, s)
         /\ \A t \in SUBSET n : /\ IsFiniteSet(t)
                               /\ Number(t, s) \in Nat /\ Number(t, s) <= Number(n, s)
         /\ \A q \in Copies(n, s) : Number(n \ {q}, s) = Number(n, s) - 1
<1>1. \A t \in SUBSET n : IsFiniteSet(t) /\ IsFiniteSet(Copies(t, s)) /\ Number(t, s) \in Nat
  <2> TAKE t \in SUBSET n
  <2>1. IsFiniteSet(t)
    BY FS_Subset
  <2>2. IsFiniteSet(Copies(t, s))
    BY <2>1, FS_Subset DEF Copies
  <2> QED
    BY <2>1, <2>2, FS_CardinalityType DEF Number
<1>2. IsFiniteSet(Copies(n, s)) /\ Number(n, s) \in Nat
  BY <1>1
<1>3. ASSUME NEW q
      PROVE  /\ IsFiniteSet(n \cup {q})
             /\ Number(n \cup {q}, s) \in Nat
             /\ Number(n \cup {q}, s) <= Number(n, s) + 1
             /\ ~(q.kind = "request" /\ q.seq = s) => Number(n \cup {q}, s) = Number(n, s)
  <2>1. IsFiniteSet(n \cup {q})
    BY FS_AddElement
  <2>2. CASE q.kind = "request" /\ q.seq = s
    <3>1. Copies(n \cup {q}, s) = Copies(n, s) \cup {q}
      BY <2>2 DEF Copies
    <3>2. Number(n \cup {q}, s) = IF q \in Copies(n, s) THEN Number(n, s) ELSE Number(n, s) + 1
      BY <1>2, <3>1, FS_AddElement DEF Number
    <3> QED
      BY <1>2, <2>1, <2>2, <3>2
  <2>3. CASE ~(q.kind = "request" /\ q.seq = s)
    <3>1. Copies(n \cup {q}, s) = Copies(n, s)
      BY <2>3 DEF Copies
    <3> QED
      BY <1>2, <2>1, <3>1 DEF Number
  <2> QED
    BY <2>2, <2>3
<1>4. ASSUME NEW t \in SUBSET n
      PROVE  Number(t, s) <= Number(n, s)
  <2>1. Copies(t, s) \in SUBSET Copies(n, s)
    BY DEF Copies
  <2> QED
    BY <1>2, <2>1, FS_Subset DEF Number
<1>5. ASSUME NEW q \in Copies(n, s)
      PROVE  Number(n \ {q}, s) = Number(n, s) - 1
  <2>1. Copies(n \ {q}, s) = Copies(n, s) \ {q}
    BY DEF Copies
  <2> QED
    BY <1>2, <2>1, FS_RemoveElement DEF Number
<1> QED
  BY <1>1, <1>2, <1>3, <1>4, <1>5

LEMMA MailNumbers ==
  ASSUME TypeOK, MailTypes, CopiesInv
  PROVE  /\ nextSeq \in Nat /\ RETRIES \in Nat
         /\ \A s \in Seqs : s \in Nat /\ mailbox[s] \in Nat /\ Number(net, s) \in Nat
         /\ \A p \in net : p.seq \in Seqs
         /\ \A m \in MUD : \A r \in pending[m] : r \in Pending /\ r.seq \in Seqs /\ r.retry \in 0 .. RETRIES
BY MailTyped, Numbers, ConstantsAssumption DEF MailTypes, CopiesInv, Pending, Seqs,
   ConstantsAssumption

\* The three parts of CopiesInv, of the state after a step
LEMMA CopiesNext ==
  ASSUME IsFiniteSet(net'),
         \A s \in Seqs : /\ mailbox'[s] + Number(net', s) <= RETRIES + 1
                         /\ s >= nextSeq' => mailbox'[s] + Number(net', s) = 0,
         \A m \in MUD : \A r \in pending'[m] :
           mailbox'[r.seq] + Number(net', r.seq) <= r.retry + 1
  PROVE  CopiesInv'
<1>1. \A s : Number(net, s)' = Number(net', s)
  BY DEF Number, Copies
<1>2. IsFiniteSet(net)'
  OBVIOUS
<1>3. (\A s \in Seqs : /\ mailbox[s] + Number(net, s) <= RETRIES + 1
                       /\ s >= nextSeq => mailbox[s] + Number(net, s) = 0)'
  BY <1>1
<1>4. (\A m \in MUD : \A r \in pending[m] :
        mailbox[r.seq] + Number(net, r.seq) <= r.retry + 1)'
  BY <1>1
<1> QED
  BY <1>2, <1>3, <1>4 DEF CopiesInv

\* A step that delivers nothing, and after which no more copies are under way
LEMMA NoMoreCopies ==
  ASSUME TypeOK, MailTypes, CopiesInv,
         mailbox' = mailbox, nextSeq' = nextSeq, IsFiniteSet(net'),
         \A s \in Seqs : Number(net', s) \in Nat /\ Number(net', s) <= Number(net, s),
         \A m \in MUD : \A r \in pending'[m] :
           \E t \in pending[m] : r.seq = t.seq /\ r.retry = t.retry
  PROVE  CopiesInv'
<1>1. \A s \in Seqs : /\ mailbox'[s] + Number(net', s) <= RETRIES + 1
                      /\ s >= nextSeq' => mailbox'[s] + Number(net', s) = 0
  BY MailNumbers DEF CopiesInv
<1>2. \A m \in MUD : \A r \in pending'[m] :
        mailbox'[r.seq] + Number(net', r.seq) <= r.retry + 1
  <2> TAKE m \in MUD
  <2> TAKE r \in pending'[m]
  <2>1. PICK t \in pending[m] : r.seq = t.seq /\ r.retry = t.retry
    OBVIOUS
  <2> QED
    BY <2>1, MailNumbers DEF CopiesInv
<1> QED
  BY <1>1, <1>2, CopiesNext

LEMMA DeliverMailCopies ==
  ASSUME IInv, MailTypes, CopiesInv, PendingOpen,
         NEW m \in MUD, NEW x \in MUD \ {m}, DeliverMail(m, x)
  PROVE  CopiesInv'
<1> DEFINE r == [to |-> x, id |-> packetId'[m], seq |-> nextSeq, retry |-> 0, timer |-> 1]
           q == RequestPacket(m, r)
<1>1. /\ mailbox' = mailbox /\ nextSeq' = nextSeq + 1 /\ nextSeq \in Seqs
      /\ net' = net \cup {q} /\ pending' = [pending EXCEPT ![m] = @ \cup {r}]
  BY DEF DeliverMail, Request, IInv, TypeOK, Seqs
<1>2. q.seq = nextSeq /\ r.seq = nextSeq /\ r.retry = 0
  BY DEF RequestPacket
<1> HIDE DEF q, r
<1>3. /\ IsFiniteSet(net') /\ Number(net', nextSeq) \in Nat
      /\ Number(net', nextSeq) <= Number(net, nextSeq) + 1
      /\ \A s \in Seqs : s # nextSeq => Number(net', s) = Number(net, s)
  BY <1>1, <1>2, Numbers DEF CopiesInv
<1>4. mailbox[nextSeq] + Number(net, nextSeq) = 0 /\ mailbox'[nextSeq] + Number(net', nextSeq) <= 1
  BY <1>1, <1>3, MailNumbers DEF CopiesInv, IInv
<1>5. \A s \in Seqs : /\ mailbox'[s] + Number(net', s) <= RETRIES + 1
                      /\ s >= nextSeq' => mailbox'[s] + Number(net', s) = 0
  <2> TAKE s \in Seqs
  <2>1. /\ mailbox[s] + Number(net, s) <= RETRIES + 1
        /\ s >= nextSeq => mailbox[s] + Number(net, s) = 0
    BY DEF CopiesInv
  <2>2. /\ nextSeq \in Nat /\ RETRIES \in Nat /\ s \in Nat
        /\ mailbox[s] \in Nat
    BY MailNumbers DEF IInv
  <2>3. CASE s = nextSeq
    BY <1>1, <1>3, <1>4, <2>2, <2>3
  <2>4. CASE s # nextSeq
    BY <1>1, <1>3, <2>1, <2>2, <2>4
  <2> QED
    BY <2>3, <2>4
<1>6. \A n \in MUD : \A t \in pending'[n] :
        mailbox'[t.seq] + Number(net', t.seq) <= t.retry + 1
  <2> TAKE n \in MUD
  <2> TAKE t \in pending'[n]
  <2>1. CASE t = r
    BY <1>2, <1>4, <2>1
  <2>2. CASE t # r
    <3>1. t \in pending[n]
      BY <1>1, <2>2 DEF IInv, TypeOK
    <3>2. t.seq # nextSeq
      BY <3>1, MailNumbers DEF PendingOpen, IInv
    <3> QED
      BY <1>1, <1>3, <3>1, <3>2, MailNumbers DEF CopiesInv, IInv
  <2> QED
    BY <2>1, <2>2
<1> QED
  BY <1>3, <1>5, <1>6, CopiesNext

LEMMA RetryCopies ==
  ASSUME IInv, MailTypes, CopiesInv, NEW m \in MUD, NEW r \in pending[m],
         Retry(m, r), UNCHANGED mailVars
  PROVE  CopiesInv'
<1> DEFINE q == RequestPacket(m, r)
<1>1. /\ mailbox' = mailbox /\ nextSeq' = nextSeq /\ net' = net \cup {q}
      /\ pending' = [pending EXCEPT ![m] = (@ \ {r}) \cup {Retried(r)}]
      /\ r.retry < RETRIES
  BY DEF Retry, HasRetries, ghosts, mailVars
<1>2. q.seq = r.seq /\ Retried(r).seq = r.seq /\ Retried(r).retry = r.retry + 1
  BY DEF RequestPacket, Retried
<1> HIDE DEF q
<1>3. r.seq \in Seqs /\ r.retry \in Nat /\ r.seq < nextSeq
  BY MailNumbers, ConstantsAssumption DEF IInv, PendingOpen, ConstantsAssumption
<1>4. /\ IsFiniteSet(net') /\ Number(net', r.seq) \in Nat
      /\ Number(net', r.seq) <= Number(net, r.seq) + 1
      /\ \A s \in Seqs : s # r.seq => Number(net', s) = Number(net, s)
  BY <1>1, <1>2, Numbers DEF CopiesInv
<1>5. mailbox'[r.seq] + Number(net', r.seq) <= r.retry + 2
  <2>1. mailbox[r.seq] + Number(net, r.seq) <= r.retry + 1
    BY DEF CopiesInv
  <2> QED
    BY <1>1, <1>3, <1>4, <2>1, MailNumbers DEF IInv
<1>6. \A s \in Seqs : /\ mailbox'[s] + Number(net', s) <= RETRIES + 1
                      /\ s >= nextSeq' => mailbox'[s] + Number(net', s) = 0
  <2> TAKE s \in Seqs
  <2>1. /\ mailbox[s] + Number(net, s) <= RETRIES + 1
        /\ s >= nextSeq => mailbox[s] + Number(net, s) = 0
    BY DEF CopiesInv
  <2>2. /\ nextSeq \in Nat /\ RETRIES \in Nat /\ s \in Nat
        /\ mailbox[s] \in Nat
    BY MailNumbers DEF IInv
  <2>3. CASE s = r.seq
    BY <1>1, <1>3, <1>4, <1>5, <2>2, <2>3
  <2>4. CASE s # r.seq
    BY <1>1, <1>4, <2>1, <2>2, <2>4
  <2> QED
    BY <2>3, <2>4
<1>7. \A n \in MUD : \A t \in pending'[n] :
        mailbox'[t.seq] + Number(net', t.seq) <= t.retry + 1
  <2> TAKE n \in MUD
  <2> TAKE t \in pending'[n]
  <2>1. CASE t = Retried(r)
    BY <1>2, <1>3, <1>5, <2>1
  <2>2. CASE t # Retried(r)
    <3>1. t \in pending[n] /\ ~(n = m /\ t = r)
      BY <1>1, <2>2 DEF IInv, TypeOK
    <3>2. t.seq # r.seq
      BY <3>1 DEF IInv, PendingOpen
    <3> QED
      BY <1>1, <1>4, <3>1, <3>2, MailNumbers DEF CopiesInv, IInv
  <2> QED
    BY <2>1, <2>2
<1> QED
  BY <1>4, <1>6, <1>7, CopiesNext

LEMMA ReceiveMailCopies ==
  ASSUME ~Duplicates, IInv, MailTypes, CopiesInv, NEW p \in net, ReceiveMail(p)
  PROVE  CopiesInv'
<1>1. /\ p.kind = "request" /\ nextSeq' = nextSeq /\ pending' = pending
      /\ mailbox' = mailbox \/ mailbox' = [mailbox EXCEPT ![p.seq] = @ + 1]
      /\ net' = net \ {p} \/ net' = (net \ {p}) \cup {ReplyPacket(p)}
  BY DEF ReceiveMail, ReceiveRequest, Saved, Rest
<1>2. p.seq \in Seqs /\ p \in Copies(net, p.seq) /\ ReplyPacket(p).kind # "request"
  BY <1>1, MailNumbers DEF Copies, ReplyPacket, IInv
<1>3. IsFiniteSet(net \ {p})
  BY Numbers DEF CopiesInv
<1>4. /\ IsFiniteSet(net')
      /\ \A s \in Seqs : Number(net', s) = Number(net \ {p}, s)
  BY <1>1, <1>2, <1>3, Numbers
<1>5. \A s \in Seqs : /\ Number(net', s) \in Nat /\ Number(net', s) <= Number(net, s)
                      /\ s = p.seq => Number(net', s) = Number(net, s) - 1
  BY <1>2, <1>4, Numbers DEF CopiesInv
<1>6. \A s \in Seqs : mailbox'[s] + Number(net', s) <= mailbox[s] + Number(net, s)
                     /\ mailbox'[s] + Number(net', s) \in Nat
  <2> TAKE s \in Seqs
  <2>1. mailbox'[s] = mailbox[s] \/ (s = p.seq /\ mailbox'[s] = mailbox[s] + 1)
    BY <1>1, <1>2 DEF MailTypes
  <2> QED
    BY <1>5, <2>1, MailNumbers DEF IInv
<1>7. \A s \in Seqs : /\ mailbox'[s] + Number(net', s) <= RETRIES + 1
                      /\ s >= nextSeq' => mailbox'[s] + Number(net', s) = 0
  BY <1>1, <1>6, MailNumbers DEF CopiesInv, IInv
<1>8. \A n \in MUD : \A t \in pending'[n] :
        mailbox'[t.seq] + Number(net', t.seq) <= t.retry + 1
  <2> TAKE n \in MUD
  <2> TAKE t \in pending'[n]
  <2>1. t \in pending[n] /\ t.seq \in Seqs /\ t.retry \in Nat
    BY <1>1, MailNumbers, ConstantsAssumption DEF IInv, ConstantsAssumption
  <2>2. mailbox[t.seq] + Number(net, t.seq) <= t.retry + 1
    BY <2>1 DEF CopiesInv
  <2> QED
    BY <1>6, <2>1, <2>2, MailNumbers DEF IInv
<1> QED
  BY <1>4, <1>7, <1>8, CopiesNext

\* A reply is handed over, or a request refused.
LEMMA OtherPacketCopies ==
  ASSUME ~Duplicates, IInv, MailTypes, CopiesInv, NEW p \in net,
         ReceiveAnswer(p) \/ (Refuse(p) /\ UNCHANGED mailVars)
  PROVE  CopiesInv'
<1>1. /\ mailbox' = mailbox /\ nextSeq' = nextSeq
      /\ net' = net \ {p} \/ net' = (net \ {p}) \cup {ReplyPacket(p)}
      /\ pending' = pending \/ pending' = Answered(p)
  BY DEF ReceiveAnswer, ReceiveReply, Refuse, Rest, mailVars, ghosts
<1>2. IsFiniteSet(net \ {p}) /\ ReplyPacket(p).kind # "request"
  BY Numbers DEF CopiesInv, ReplyPacket
<1>3. /\ IsFiniteSet(net')
      /\ \A s \in Seqs : Number(net', s) = Number(net \ {p}, s)
  <2>1. CASE net' = net \ {p}
    BY <1>2, <2>1
  <2>2. CASE net' = (net \ {p}) \cup {ReplyPacket(p)}
    BY <1>2, <2>2, Numbers
  <2> QED
    BY <1>1, <2>1, <2>2
<1>4. \A s \in Seqs : Number(net', s) \in Nat /\ Number(net', s) <= Number(net, s)
  BY <1>3, Numbers DEF CopiesInv
<1>5. \A m \in MUD : pending'[m] \subseteq pending[m]
  BY <1>1 DEF Answered, IInv, TypeOK
<1>6. \A m \in MUD : \A r \in pending'[m] :
        \E t \in pending[m] : r.seq = t.seq /\ r.retry = t.retry
  BY <1>5
<1> QED
  BY <1>1, <1>3, <1>4, <1>6, NoMoreCopies DEF IInv

LEMMA TickCopies ==
  ASSUME IInv, MailTypes, CopiesInv, Tick, UNCHANGED mailVars
  PROVE  CopiesInv'
<1>1. /\ mailbox' = mailbox /\ nextSeq' = nextSeq
      /\ net' = {[p EXCEPT !.ttl = @ - 1] : p \in net \ Overdue}
      /\ \A m \in MUD : pending'[m] = {[r EXCEPT !.timer = @ - 1] : r \in pending[m]}
  BY DEF Tick, mailVars
<1>2. IsFiniteSet(net \ Overdue)
  BY FS_Subset DEF CopiesInv
<1>3. IsFiniteSet(net')
  <2> DEFINE f == [p \in net \ Overdue |-> [p EXCEPT !.ttl = @ - 1]]
  <2>1. f \in Surjection(net \ Overdue, net')
    BY <1>1 DEF Surjection
  <2> QED
    BY <1>2, <2>1, FS_Surjection
<1>4. ASSUME NEW s \in Seqs
      PROVE  Number(net', s) \in Nat /\ Number(net', s) <= Number(net, s)
  <2> DEFINE C == Copies(net \ Overdue, s)
             f == [p \in C |-> [p EXCEPT !.ttl = @ - 1]]
  <2>1. C \in SUBSET net /\ IsFiniteSet(C) /\ Cardinality(C) <= Number(net, s)
    BY <1>2, Numbers DEF Copies, CopiesInv, Number
  <2>2. \A p \in net : LET q == [p EXCEPT !.ttl = @ - 1] IN q.kind = p.kind /\ q.seq = p.seq
    BY DEF IInv, TypeOK, Packet
  <2>3. Copies(net', s) = {[p EXCEPT !.ttl = @ - 1] : p \in C}
    <3>1. ASSUME NEW q \in Copies(net', s)
          PROVE  \E p \in C : q = [p EXCEPT !.ttl = @ - 1]
      <4>1. PICK p \in net \ Overdue : q = [p EXCEPT !.ttl = @ - 1]
        BY <1>1 DEF Copies
      <4>2. p.kind = "request" /\ p.seq = s
        BY <2>2, <4>1 DEF Copies
      <4> QED
        BY <4>1, <4>2 DEF Copies
    <3>2. ASSUME NEW p \in C
          PROVE  [p EXCEPT !.ttl = @ - 1] \in Copies(net', s)
      BY <1>1, <2>2 DEF Copies
    <3> QED
      BY <3>1, <3>2
  <2>4. f \in Surjection(C, Copies(net', s))
    BY <2>3 DEF Surjection
  <2>5. Cardinality(Copies(net', s)) <= Cardinality(C)
    BY <2>1, <2>4, FS_Surjection
  <2> QED
    BY <1>3, <2>1, <2>5, Numbers, FS_CardinalityType DEF Number, CopiesInv
<1>5. ASSUME NEW m \in MUD, NEW r \in pending'[m]
      PROVE  \E t \in pending[m] : r.seq = t.seq /\ r.retry = t.retry
  <2>1. PICK t \in pending[m] : r = [t EXCEPT !.timer = @ - 1]
    BY <1>1
  <2>2. t \in Pending
    BY DEF IInv, TypeOK
  <2> QED
    BY <2>1, <2>2 DEF Pending
<1> QED
  BY <1>1, <1>3, <1>4, <1>5, NoMoreCopies DEF IInv

LEMMA NextCopies == ~Duplicates => (IInv /\ MailInv /\ CopiesInv /\ [MailNext]_allVars => CopiesInv')
<1> SUFFICES ASSUME ~Duplicates, IInv, MailInv, CopiesInv, [MailNext]_allVars PROVE CopiesInv'
  OBVIOUS
<1>1. MailTypes /\ TypeOK /\ PendingOpen
  BY DEF MailInv, IInv
<1>2. CASE \E m \in MUD : \E x \in MUD \ {m} : DeliverMail(m, x)
  BY <1>1, <1>2, DeliverMailCopies
<1>3. CASE \E p \in net : ReceiveMail(p)
  BY <1>1, <1>3, ReceiveMailCopies
<1>4. CASE \E p \in net : ReceiveAnswer(p) \/ (Refuse(p) /\ UNCHANGED mailVars)
  BY <1>1, <1>4, OtherPacketCopies
<1>5. CASE \E m \in MUD : \E r \in pending[m] : Retry(m, r) /\ UNCHANGED mailVars
  BY <1>1, <1>5, RetryCopies
<1>6. CASE Tick /\ UNCHANGED mailVars
  BY <1>1, <1>6, TickCopies
<1>7. ASSUME mailbox' = mailbox, nextSeq' = nextSeq, net' = net,
             \A m \in MUD : pending'[m] \subseteq pending[m]
      PROVE  CopiesInv'
  <2>1. \A s \in Seqs : Number(net', s) \in Nat /\ Number(net', s) <= Number(net, s)
    BY <1>1, <1>7, MailNumbers
  <2> QED
    BY <1>1, <1>7, <2>1, NoMoreCopies DEF CopiesInv
<1>8. CASE \E m \in MUD : \E r \in pending[m] : MailTimesOut(m, r)
  BY <1>1, <1>7, <1>8 DEF MailTimesOut, GiveUp, GivenUp, mailVars, ghosts, TypeOK
<1>10. CASE \E m \in MUD : \E r \in received[m] : RemoveReceivedId(m, r) /\ UNCHANGED mailVars
  BY <1>1, <1>7, <1>10 DEF RemoveReceivedId, mailVars, ghosts
<1>11. CASE \E m \in MUD : Restart(m) /\ UNCHANGED mailVars
  BY <1>1, <1>7, <1>11 DEF Restart, mailVars, ghosts, TypeOK
<1>9. CASE UNCHANGED allVars
  BY <1>7, <1>9 DEF allVars, vars, mailVars
<1> QED
  BY <1>2, <1>3, <1>4, <1>5, <1>6, <1>8, <1>9, <1>10, <1>11 DEF MailNext

\* No recipient gets more copies of a mail than it was sent: one, and one for
\* each retry, although the mailer delivers what is marked as a repeat, packets
\* come late and daemons restart (udp/mail.c, 761-796); if the network makes no
\* copies itself.
THEOREM NoMoreThanSent == ~Duplicates => (MailSpec => []CopiesBounded)
<1> SUFFICES ASSUME ~Duplicates PROVE MailSpec => []CopiesBounded
  OBVIOUS
<1>1. MailInit => IInv /\ MailInv /\ CopiesInv
  <2>1. ASSUME MailInit PROVE CopiesInv
    <3>1. net = {} /\ mailbox = [s \in Seqs |-> 0] /\ pending = [m \in MUD |-> {}]
      BY <2>1 DEF MailInit, Init
    <3>2. IsFiniteSet(net) /\ \A s : Number(net, s) = 0
      BY <3>1, FS_EmptySet DEF Number, Copies
    <3> QED
      BY <3>1, <3>2, ConstantsAssumption DEF CopiesInv, ConstantsAssumption
  <2> QED
    BY <2>1, InitMail
<1>2. IInv /\ MailInv /\ CopiesInv /\ [MailNext]_allVars => (IInv /\ MailInv /\ CopiesInv)'
  BY MailNextIsNext, NextIInv, NextMail, NextCopies DEF IInv
<1>3. IInv /\ MailInv /\ CopiesInv => CopiesBounded
  BY MailNumbers DEF CopiesInv, CopiesBounded, MailInv, IInv
<1> QED
  BY <1>1, <1>2, <1>3, PTL DEF MailSpec
-----------------------------------------------------------------------------
(***************************************************************************)
(* What becomes of a mail if nothing fails but the network: it is lost     *)
(* only when its request times out.                                        *)
(***************************************************************************)

\* Neither daemons nor mailers fail, and nobody refuses mail.
Reliable == Calm /\ Refusing = {}

TimedOut(s) == outcome[s] = <<TimeOut>>
Accounted(s) == IsPending(s) \/ mailbox[s] > 0 \/ told[s] # <<>> \/ TimedOut(s)
KeptUnlessTimedOut == \A s \in 1 .. nextSeq - 1 : Accounted(s)

\* Steps in which no new mail is written
LEMMA KeptStep ==
  ASSUME TypeOK, KeptUnlessTimedOut, nextSeq' = nextSeq,
         \A s \in Seqs : /\ mailbox[s] > 0 => mailbox'[s] > 0
                         /\ told[s] # <<>> => told'[s] # <<>>
                         /\ TimedOut(s) => TimedOut(s)'
                         /\ IsPending(s) => Accounted(s)'
  PROVE  KeptUnlessTimedOut'
<1>1. \A s \in 1 .. nextSeq - 1 : s \in Seqs
  BY ConstantsAssumption DEF TypeOK, Seqs, ConstantsAssumption
<1> QED
  BY <1>1 DEF KeptUnlessTimedOut, Accounted

\* What was timed out is not pending any more, and stays so.
LEMMA EndedStays ==
  ASSUME IInv, NEW s, TimedOut(s)
  PROVE  ~IsPending(s)
BY DEF IInv, PendingOpen, IsPending, TimedOut

LEMMA DeliverMailKept ==
  ASSUME TypeOK, MailInv, KeptUnlessTimedOut, NEW m \in MUD, NEW x \in MUD \ {m},
         DeliverMail(m, x)
  PROVE  KeptUnlessTimedOut'
<1> DEFINE r == [to |-> x, id |-> packetId'[m], seq |-> nextSeq, retry |-> 0, timer |-> 1]
<1>1. /\ pending' = [pending EXCEPT ![m] = @ \cup {r}] /\ nextSeq' = nextSeq + 1
      /\ mailbox' = mailbox /\ told' = told /\ outcome' = outcome
  BY DEF DeliverMail, Request
<1>2. r.seq = nextSeq /\ nextSeq \in Nat
  BY MailTyped DEF MailInv
<1> HIDE DEF r
<1>3. pending'[m] = pending[m] \cup {r} /\ \A n \in MUD : pending[n] \subseteq pending'[n]
  BY <1>1 DEF TypeOK
<1>4. ASSUME NEW s, s = nextSeq PROVE Accounted(s)'
  BY <1>2, <1>3, <1>4 DEF Accounted, IsPending
<1>5. ASSUME NEW s \in 1 .. nextSeq - 1 PROVE Accounted(s)'
  <2>1. Accounted(s)
    BY DEF KeptUnlessTimedOut
  <2>2. IsPending(s) => IsPending(s)'
    BY <1>3 DEF IsPending
  <2> QED
    BY <1>1, <2>1, <2>2 DEF Accounted, TimedOut
<1>6. \A s \in 1 .. nextSeq' - 1 : s = nextSeq \/ s \in 1 .. nextSeq - 1
  BY <1>1, <1>2
<1> QED
  BY <1>4, <1>5, <1>6 DEF KeptUnlessTimedOut

\* The writer is told what the answer says, for the answer is to the mail that
\* is pending with its id.
LEMMA ReceiveAnswerKept ==
  ASSUME Reliable, IInv, MatchInv, MailInv, KeptUnlessTimedOut,
         NEW p \in net, ReceiveAnswer(p)
  PROVE  KeptUnlessTimedOut'
<1>1. /\ nextSeq' = nextSeq /\ mailbox' = mailbox /\ p.kind = "reply"
      /\ pending' = [pending EXCEPT ![p.to] = @ \ Matching(p)]
      /\ outcome' = [s \in Seqs |-> IF \E r \in Matching(p) : r.seq = s
                                      THEN Append(outcome[s], p.seq) ELSE outcome[s]]
      /\ told' = [s \in Seqs |-> IF s \in ToldOf(p) THEN Append(told[s], Answer(p))
                                 ELSE told[s]]
  BY DEF ReceiveAnswer, ReceiveReply, Answered, Reliable, Calm
<1>2. TypeOK /\ p.to \in MUD /\ told \in [Seqs -> Seq(Notice)] /\ Answer(p) \in Notice
  BY MailTyped DEF IInv, MailInv, MailTypes, Answer, Notice
<1>3. \A s \in Seqs : told[s] # <<>> => told'[s] # <<>>
  <2>1. ASSUME NEW s \in Seqs PROVE Append(told[s], Answer(p)) # <<>>
    <3>1. told[s] \in Seq(Notice)
      BY <1>2, Zenon
    <3> QED
      BY <1>2, <3>1
  <2> QED
    BY <1>1, <2>1
<1>4. ASSUME NEW s \in Seqs, TimedOut(s) PROVE TimedOut(s)'
  <2>1. ~\E r \in Matching(p) : r.seq = s
    BY <1>2, <1>4, EndedStays DEF Matching, IsPending
  <2> QED
    BY <1>1, <1>4, <2>1 DEF TimedOut
<1>5. ASSUME NEW s \in Seqs, IsPending(s) PROVE Accounted(s)'
  <2>1. PICK m \in MUD : \E r \in pending[m] : r.seq = s
    BY <1>5 DEF IsPending
  <2>2. PICK r \in pending[m] : r.seq = s
    BY <2>1
  <2>3. CASE m = p.to /\ r \in Matching(p)
    <3>1. r.id = p.id /\ writer[s] = p.to
      BY <2>3, <2>2 DEF Matching, MailInv, PendingOfWriter
    <3>2. <<r.id, r.seq>> \in Ids(p.to) /\ <<p.id, p.seq>> \in Ids(p.to)
      BY <1>1, <2>3 DEF Ids, Owner
    <3>3. p.seq = s
      BY <1>2, <2>2, <3>1, <3>2 DEF MatchInv, IdsUnique
    <3>4. s \in ToldOf(p)
      BY <2>3, <3>1, <3>3 DEF ToldOf, Reliable
    <3>5. told'[s] = Append(told[s], Answer(p))
      BY <1>1, <3>4
    <3>6. told[s] \in Seq(Notice)
      BY <1>2
    <3>7. told'[s] # <<>>
      BY <1>2, <3>5, <3>6
    <3> QED
      BY <3>7 DEF Accounted
  <2>4. CASE ~(m = p.to /\ r \in Matching(p))
    <3>1. pending'[m] = IF m = p.to THEN pending[m] \ Matching(p) ELSE pending[m]
      BY <1>1, <1>2 DEF TypeOK
    <3>2. r \in pending'[m]
      BY <2>2, <2>4, <3>1
    <3> QED
      BY <2>2, <3>2 DEF Accounted, IsPending
  <2> QED
    BY <2>3, <2>4
<1> QED
  BY <1>1, <1>2, <1>3, <1>4, <1>5, KeptStep

LEMMA ReceiveMailKept ==
  ASSUME TypeOK, MailInv, KeptUnlessTimedOut, NEW p \in net, ReceiveMail(p)
  PROVE  KeptUnlessTimedOut'
<1>1. /\ nextSeq' = nextSeq /\ told' = told /\ pending' = pending /\ outcome' = outcome
      /\ mailbox' = Saved(p)
  BY DEF ReceiveMail, ReceiveRequest
<1>2. \A s \in Seqs : mailbox[s] > 0 => mailbox'[s] > 0
  BY <1>1 DEF Saved, MailInv, MailTypes
<1> QED
  BY <1>1, <1>2, KeptStep DEF Accounted, IsPending, TimedOut

\* The daemon's other steps: a request stays pending, or times out.
LEMMA OtherKept ==
  ASSUME Reliable, IInv, KeptUnlessTimedOut, UNCHANGED mailVars,
         \/ \E p \in net : Refuse(p)
         \/ \E m \in MUD : \E r \in pending[m] : Retry(m, r) \/ GiveUp(m, r)
         \/ \E m \in MUD : \E r \in received[m] : RemoveReceivedId(m, r)
         \/ Tick
  PROVE  KeptUnlessTimedOut'
<1>1. nextSeq' = nextSeq /\ mailbox' = mailbox /\ told' = told /\ TypeOK
  BY DEF Refuse, Retry, GiveUp, RemoveReceivedId, Tick, ghosts, mailVars, IInv
<1>2. SUFFICES ASSUME NEW s \in Seqs
               PROVE  /\ TimedOut(s) => TimedOut(s)'
                      /\ IsPending(s) => IsPending(s)' \/ TimedOut(s)'
  BY <1>1, KeptStep DEF Accounted
<1>3. CASE \/ \E p \in net : Refuse(p)
           \/ \E m \in MUD : \E r \in received[m] : RemoveReceivedId(m, r)
  BY <1>3 DEF Refuse, RemoveReceivedId, ghosts, TimedOut, IsPending
<1>4. ASSUME NEW m \in MUD, NEW r \in pending[m], Retry(m, r)
      PROVE  /\ TimedOut(s) => TimedOut(s)'
             /\ IsPending(s) => IsPending(s)' \/ TimedOut(s)'
  <2>1. /\ outcome' = outcome /\ Retried(r).seq = r.seq
        /\ pending' = [pending EXCEPT ![m] = (@ \ {r}) \cup {Retried(r)}]
    BY <1>4 DEF Retry, Retried, ghosts
  <2>2. /\ \A n \in MUD : \A t \in pending[n] : t \in pending'[n] \/ (n = m /\ t = r)
        /\ Retried(r) \in pending'[m]
    BY <1>1, <2>1 DEF TypeOK
  <2> QED
    BY <2>1, <2>2 DEF TimedOut, IsPending
<1>5. ASSUME NEW m \in MUD, NEW r \in pending[m], GiveUp(m, r)
      PROVE  /\ TimedOut(s) => TimedOut(s)'
             /\ IsPending(s) => IsPending(s)' \/ TimedOut(s)'
  <2>1. /\ outcome' = [outcome EXCEPT ![r.seq] = Append(@, TimeOut)]
        /\ pending' = [pending EXCEPT ![m] = @ \ {r}] /\ outcome[r.seq] = <<>>
    BY <1>5 DEF GiveUp, GivenUp, IInv, PendingOpen
  <2>2. \A n \in MUD : \A t \in pending[n] : t \in pending'[n] \/ (n = m /\ t = r)
    BY <1>1, <2>1 DEF TypeOK
  <2>3. outcome'[s] = IF s = r.seq THEN <<TimeOut>> ELSE outcome[s]
    BY <1>1, <2>1 DEF TypeOK
  <2> QED
    BY <2>1, <2>2, <2>3 DEF TimedOut, IsPending
<1>6. CASE Tick
  <2>1. outcome' = outcome /\ \A m \in MUD :
          pending'[m] = {[r EXCEPT !.timer = @ - 1] : r \in pending[m]}
    BY <1>6 DEF Tick
  <2>2. ASSUME NEW m \in MUD, NEW r \in pending[m]
        PROVE  \E t \in pending'[m] : t.seq = r.seq
    <3> DEFINE t == [r EXCEPT !.timer = @ - 1]
    <3>1. r \in Pending
      BY <1>1 DEF TypeOK
    <3>2. t.seq = r.seq
      BY <3>1 DEF Pending
    <3>3. t \in pending'[m]
      BY <2>1
    <3> QED
      BY <3>2, <3>3
  <2> QED
    BY <2>1, <2>2 DEF TimedOut, IsPending
<1> QED
  BY <1>3, <1>4, <1>5, <1>6

LEMMA NextKept ==
  Reliable =>
    (IInv /\ MatchInv /\ MailInv /\ KeptUnlessTimedOut /\ [MailNext]_allVars
       => KeptUnlessTimedOut')
<1> SUFFICES ASSUME Reliable, IInv, MatchInv, MailInv, KeptUnlessTimedOut, [MailNext]_allVars
             PROVE  KeptUnlessTimedOut'
  OBVIOUS
<1>1. TypeOK
  BY DEF IInv
<1>2. CASE \E m \in MUD : Restart(m)
  BY <1>1, <1>2 DEF Restart, Reliable, Calm, TypeOK
<1>3. CASE UNCHANGED allVars
  BY <1>3 DEF allVars, vars, mailVars, KeptUnlessTimedOut, Accounted, IsPending, TimedOut
<1>4. CASE \E m \in MUD : \E x \in MUD \ {m} : DeliverMail(m, x)
  BY <1>1, <1>4, DeliverMailKept
<1>5. CASE \E p \in net : ReceiveAnswer(p) \/ ReceiveMail(p)
  BY <1>1, <1>5, ReceiveAnswerKept, ReceiveMailKept
<1>6. CASE /\ UNCHANGED mailVars
           /\ \/ \E p \in net : Refuse(p)
              \/ \E m \in MUD : \E r \in pending[m] : Retry(m, r) \/ GiveUp(m, r)
              \/ \E m \in MUD : \E r \in received[m] : RemoveReceivedId(m, r)
              \/ Tick
  BY <1>6, OtherKept
<1> QED
  BY <1>2, <1>3, <1>4, <1>5, <1>6 DEF MailNext, MailTimesOut

LEMMA MailSpecIsSpec == MailSpec => Spec
<1>1. MailInit => Init
  BY DEF MailInit
<1> QED
  BY <1>1, MailNextIsNext, PTL DEF MailSpec, Spec

\* If neither daemons nor mailers fail and nobody refuses mail, a mail is pending,
\* in its mailbox, or its writer was told of it, unless its request timed out:
\* the path from reply_time_out() to the mailer is the only one on which mail
\* gets lost (secure/udp/reply.c, udp_mail.c).
THEOREM LostByTimeOutOnly == Reliable => (MailSpec => []KeptUnlessTimedOut)
<1> SUFFICES ASSUME Reliable PROVE MailSpec => []KeptUnlessTimedOut
  OBVIOUS
<1>1. MailInit => IInv /\ MailInv /\ KeptUnlessTimedOut
  <2>1. MailInit => KeptUnlessTimedOut
    BY DEF MailInit, Init, KeptUnlessTimedOut
  <2> QED
    BY <2>1, InitMail
<1>2. Calm
  BY DEF Reliable
<1>3. Spec => []MatchInv
  BY <1>2, AlwaysMatch
<1>4. IInv /\ MatchInv /\ MailInv /\ KeptUnlessTimedOut /\ [MailNext]_allVars
        => (IInv /\ MailInv /\ KeptUnlessTimedOut)'
  BY MailNextIsNext, NextIInv, NextMail, NextKept DEF IInv
<1> QED
  BY <1>1, <1>3, <1>4, MailSpecIsSpec, PTL DEF MailSpec

\* The network has not lost a packet of each attempt of a request.
FewLosses == \A s \in Seqs : losses[s] <= RETRIES

\* So no mail is lost if, besides, muds answer in time and the retries make the
\* losses of the network good: what a writer sends is pending, delivered or
\* answered.
THEOREM KeptIfFewLost ==
  Reliable /\ Answering => (MailSpec /\ []FewLosses => []MailKept)
<1> SUFFICES ASSUME Reliable, Answering PROVE MailSpec /\ []FewLosses => []MailKept
  OBVIOUS
<1>1. MailSpec => []KeptUnlessTimedOut
  BY LostByTimeOutOnly
<1>2. Spec => []RetriesSuffice /\ []TypeOK
  BY LossesMadeGood, TypeCorrect
<1>3. KeptUnlessTimedOut /\ RetriesSuffice /\ TypeOK /\ FewLosses => MailKept
  <2> SUFFICES ASSUME KeptUnlessTimedOut, RetriesSuffice, TypeOK, FewLosses,
                      NEW s \in 1 .. nextSeq - 1
               PROVE  IsPending(s) \/ mailbox[s] > 0 \/ told[s] # <<>>
    BY DEF MailKept
  <2>1. s \in Seqs /\ losses[s] \in Nat /\ RETRIES \in Nat
    BY ConstantsAssumption DEF TypeOK, Seqs, ConstantsAssumption
  <2>2. ~TimedOut(s)
    BY <2>1 DEF TimedOut, RetriesSuffice, FewLosses
  <2> QED
    BY <2>2 DEF KeptUnlessTimedOut, Accounted
<1> QED
  BY <1>1, <1>2, <1>3, MailSpecIsSpec, PTL
=============================================================================
