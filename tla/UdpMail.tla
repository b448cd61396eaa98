------------------------------ MODULE UdpMail -------------------------------
(***************************************************************************)
(* Mail between muds: /secure/udp_mail.c and /secure/udp/mail.c on the     *)
(* intermud daemon.                                                        *)
(*                                                                         *)
(* A mail is one request of Inetd and bears its number.  The mud that gets *)
(* it saves it for its recipient and replies, however often it comes; the  *)
(* reply names the mail it is about, and its writer is told what the reply *)
(* says.  What a step of the daemon means for the mails is conjoined to    *)
(* that step.                                                              *)
(***************************************************************************)
EXTENDS Inetd

CONSTANT Unknown  \* the mails whose recipient is no player there

ASSUME UnknownAssumption == Unknown \subseteq Seqs

VARIABLES
  writer,   \* writer[s]: the mud where mail s was written
  mailbox,  \* mailbox[s]: how many copies of mail s its recipient has
  told      \* told[s]: what the writer of mail s was told

mailVars == <<writer, mailbox, told>>
Notice == {"delivered", "bounced"}

MailInit ==
  /\ Init
  /\ writer = <<>>
  /\ mailbox = [s \in Seqs |-> 0]
  /\ told = [s \in Seqs |-> <<>>]
-----------------------------------------------------------------------------
\* deliver_mail(): the mail is handed to the daemon and kept nowhere else.
DeliverMail(m, x) ==
  /\ Request(m, x)
  /\ writer' = Append(writer, m)
  /\ UNCHANGED <<mailbox, told>>

\* query_recipient_ok() and deliver_mail() of the local mailer.  Bound: copies
\* are counted up to one more than there may be.
Saved(p) ==
  IF p.seq \in Unknown \/ mailbox[p.seq] > RETRIES + 1 THEN mailbox
  ELSE [mailbox EXCEPT ![p.seq] = @ + 1]

\* udp_mail(): the mark of a repeated request is not looked at.
ReceiveMail(p) ==
  /\ ReceiveRequest(p)
  /\ mailbox' = Saved(p)
  /\ UNCHANGED <<writer, told>>

\* UDPM_STATUS of the reply of udp_mail(): UDPM_STATUS_DELIVERED_OK, or
\* UDPM_STATUS_UNKNOWN_PLAYER, upon which the mail is bounced.
Answer(p) == IF p.seq \in Unknown THEN "bounced" ELSE "delivered"

\* Mutant: the writer and the text are taken from the pending request.
ToldOfPending(p) == {r.seq : r \in Matching(p)}

\* The mails whose writers udp_reply() tells of a reply: all it uses comes with
\* the reply, as its RECIPIENT the object that sent the mail.  A refusal is
\* bounced, too, but it names no writer, and mail without a recipient is not
\* delivered; the error that a failed udp_reply() sends back has no RECIPIENT
\* either, and is but logged.
ToldOf(p) ==
  {s \in {p.seq} : /\ Matching(p) # {}
                   /\ p.to = writer[s] /\ p.from \notin Refusing}

\* A reply through udp/reply.c to udp_reply(), which may fail to tell.
ReceiveAnswer(p) ==
  /\ ReceiveReply(p)
  /\ \/ told' = [s \in Seqs |-> IF s \in ToldOf(p) THEN Append(told[s], Answer(p))
                                ELSE told[s]]
     \/ p.to \in Failing /\ told' = told
  /\ UNCHANGED <<writer, mailbox>>

\* A time-out: udp/reply.c looks for the sender by its name, which is a player's
\* or an object's, and tells nobody if the sender is an object, as it is here.
\* So failed_to_deliver() never puts a mail into the spool.
MailTimesOut(m, r) == GiveUp(m, r) /\ UNCHANGED mailVars

MailNext ==
  \/ \E m \in MUD : \E x \in MUD \ {m} : DeliverMail(m, x)
  \/ \E p \in net : ReceiveAnswer(p) \/ ReceiveMail(p)
  \/ \E p \in net : Refuse(p) /\ UNCHANGED mailVars
  \/ \E m \in MUD : \E r \in pending[m] : Retry(m, r) /\ UNCHANGED mailVars
  \/ \E m \in MUD : \E r \in pending[m] : MailTimesOut(m, r)
  \/ \E m \in MUD : \E r \in received[m] :
       RemoveReceivedId(m, r) /\ UNCHANGED mailVars
  \/ \E m \in MUD : Restart(m) /\ UNCHANGED mailVars
  \/ Tick /\ UNCHANGED mailVars

allVars == <<vars, mailVars>>

MailSpec == MailInit /\ [][MailNext]_allVars

\* Time goes on, and call_outs that are due fire.
FairMailSpec ==
  /\ MailSpec
  /\ WF_allVars(CallOuts /\ UNCHANGED mailVars)
  /\ WF_allVars(Tick /\ UNCHANGED mailVars)
-----------------------------------------------------------------------------
(***************************************************************************)
(* Properties.                                                             *)
(***************************************************************************)
MailTypeOK ==
  /\ TypeOK
  /\ writer \in Seq(MUD) /\ Len(writer) = nextSeq - 1
  /\ mailbox \in [Seqs -> 0 .. RETRIES + 2]
  /\ told \in [Seqs -> Seq(Notice)]

\* What a writer is told is true, although replies are matched by ids that
\* come again after a restart, and may end the wrong request: a mail that was
\* called delivered is in its recipient's mailbox, and one that bounced is not.
ToldTheTruth ==
  \A s \in Seqs : \A i \in DOMAIN told[s] :
    told[s][i] = "delivered" <=> mailbox[s] > 0

\* Retries are delivered again, but no mail is delivered more often than it was
\* sent: once, and once for each retry.
CopiesBounded == \A s \in Seqs : mailbox[s] <= RETRIES + 1

\* No mail is lost: as long as its recipient does not have it and its writer
\* knows nothing of it, it is kept somewhere.
MailKept ==
  \A s \in 1 .. nextSeq - 1 : IsPending(s) \/ mailbox[s] > 0 \/ told[s] # <<>>
=============================================================================
