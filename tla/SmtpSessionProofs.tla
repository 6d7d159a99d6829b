-------------------------- MODULE SmtpSessionProofs --------------------------
(***************************************************************************)
(* SessionInv is inductive, and a session implements MailDelivery.  Every  *)
(* mail concludes in a bounded number of steps, and only a failed one can  *)
(* leave the connection unusable for the next.                             *)
(***************************************************************************)
EXTENDS SmtpSession, TLAPS, SequenceTheorems

Known == {"ok", "no", "garbled"}

(* After, step by step.                                                     *)
LEMMA AfterFacts ==
  /\ After["new"] = "greeting" /\ After["greeting"] = "ehlo" /\ After["ehlo"] = "auth"
  /\ After["auth"] = "user" /\ After["user"] = "password" /\ After["password"] = "mail"
  /\ After["mail"] = "rcpt" /\ After["rcpt"] = "data" /\ After["data"] = "body"
  /\ After["body"] = "mail"
BY DEF After

LEMMA AfterType == \A s \in Steps \cup {"new"} : After[s] \in Steps
BY AfterFacts DEF Steps, Handshake, Transaction

(* Reading takes the first reply away, an answer comes last.                *)
LEMMA ReplyFacts ==
  ASSUME NEW q \in Seq(Known)
  PROVE  /\ Len(q) \in Nat
         /\ q = <<>> <=> Len(q) = 0
         /\ q # <<>> => /\ Head(q) = q[1] /\ Head(q) \in Known
                        /\ Tail(q) \in Seq(Known)
                        /\ Len(Tail(q)) = Len(q) - 1
                        /\ Len(q) = 2 => Tail(q) # <<>> /\ Head(Tail(q)) = q[2]
                        /\ Len(q) = 1 => Tail(q) = <<>>
         /\ \A r \in Known : /\ Append(q, r) \in Seq(Known)
                             /\ Append(q, r) # <<>>
                             /\ Len(Append(q, r)) = Len(q) + 1
                             /\ Append(q, r)[Len(q) + 1] = r
                             /\ Len(q) > 0 => Append(q, r)[1] = q[1]
<1>0. <<>> \in Seq(Known) /\ \A s \in Seq(Known) : s = <<>> <=> Len(s) = 0
  BY EmptySeq
<1>1. Len(q) \in Nat /\ (q = <<>> <=> Len(q) = 0)
  BY <1>0, LenProperties
<1>2. ASSUME q # <<>>
      PROVE  /\ Head(q) = q[1] /\ Head(q) \in Known
             /\ Tail(q) \in Seq(Known)
             /\ Len(Tail(q)) = Len(q) - 1
             /\ Len(q) = 2 => Tail(q) # <<>> /\ Head(Tail(q)) = q[2]
             /\ Len(q) = 1 => Tail(q) = <<>>
  <2>1. Head(q) = q[1] /\ Head(q) \in Known
    BY <1>2, HeadTailProperties
  <2>2. Tail(q) \in Seq(Known) /\ Len(Tail(q)) = Len(q) - 1
    BY <1>2, HeadTailProperties
  <2>3. \A i \in 1..Len(Tail(q)) : Tail(q)[i] = q[i + 1]
    BY <1>1, <1>2, <2>2
  <2>4. ASSUME Len(q) = 1 PROVE Tail(q) = <<>>
    <3>1. Len(Tail(q)) = 0
      BY <2>2, <2>4
    <3> QED
      BY <1>0, <2>2, <3>1, Zenon
  <2>5. ASSUME Len(q) = 2 PROVE Tail(q) # <<>> /\ Head(Tail(q)) = q[2]
    <3>1. Len(Tail(q)) = 1
      BY <2>2, <2>5
    <3>2. Len(Tail(q)) # 0
      BY <2>2, <2>5
    <3>4. Tail(q) # <<>>
      BY <1>0, <2>2, <3>2, Zenon
    <3>3. Head(Tail(q)) = Tail(q)[1]
      BY <2>2, <3>4, HeadTailProperties
    <3> QED
      BY <2>3, <3>1, <3>4, <3>3
  <2> QED
    BY <2>1, <2>2, <2>4, <2>5
<1>3. ASSUME NEW r \in Known
      PROVE  /\ Append(q, r) \in Seq(Known)
             /\ Append(q, r) # <<>>
             /\ Len(Append(q, r)) = Len(q) + 1
             /\ Append(q, r)[Len(q) + 1] = r
             /\ Len(q) > 0 => Append(q, r)[1] = q[1]
  <2>1. /\ Append(q, r) \in Seq(Known)
        /\ Len(Append(q, r)) = Len(q) + 1
        /\ Append(q, r)[Len(q) + 1] = r
        /\ \A i \in 1..Len(q) : Append(q, r)[i] = q[i]
    BY AppendProperties
  <2>2. Append(q, r) # <<>>
    BY <1>0, <1>1, <2>1
  <2> QED
    BY <1>1, <2>1, <2>2
<1> QED
  BY <1>1, <1>2, <1>3

LEMMA NoReplies == <<>> \in Seq(Known) /\ Len(<<>>) = 0
BY EmptySeq

LEMMA Parting == <<"no">> \in Seq(Known) /\ Len(<<"no">>) = 1 /\ <<"no">>[1] = "no"
BY DEF Known

LEMMA OnlyParting ==
  ASSUME NEW q \in Seq(Known), Len(q) = 1, q[1] = "no"
  PROVE  q = <<"no">>
<1>1. ASSUME NEW i \in 1..Len(q) PROVE q[i] = <<"no">>[i]
  BY <1>1, Parting
<1> QED
  BY <1>1, Parting, SeqEqual

(* A server that leaves may add its parting to the one reply under way.     *)
LEMMA AtMostTwo ==
  ASSUME NEW q \in Seq(Known), Len(q) = 0 \/ Len(q) = 1,
         NEW r \in {<<>>, q, Append(q, "no")}
  PROVE  Len(r) <= 2 /\ (Len(r) = 2 => r[2] = "no")
<1>1. CASE r = <<>>
  <2>1. Len(r) = 0
    BY <1>1, NoReplies
  <2> QED
    BY <2>1
<1>2. CASE r = q
  <2>1. Len(r) = 0 \/ Len(r) = 1
    BY <1>2
  <2>2. \A n : n = 0 \/ n = 1 => n <= 2 /\ n # 2
    OBVIOUS
  <2> QED
    BY <2>1, <2>2, Zenon
<1>3. CASE r = Append(q, "no")
  <2>1. Len(r) = Len(q) + 1 /\ r[Len(q) + 1] = "no"
    BY <1>3, ReplyFacts DEF Known
  <2>2. CASE Len(q) = 0
    BY <2>1, <2>2
  <2>3. CASE Len(q) = 1
    BY <2>1, <2>3
  <2> QED
    BY <2>2, <2>3
<1> QED
  BY <1>1, <1>2, <1>3

LEMMA FirstReply ==
  ASSUME NEW q \in Seq(Known), NEW r \in Known
  PROVE  Head(Append(q, r)) = IF q = <<>> THEN r ELSE Head(q)
<1>1. /\ Append(q, r) \in Seq(Known) /\ Append(q, r) # <<>>
      /\ Append(q, r)[Len(q) + 1] = r
      /\ Len(q) > 0 => Append(q, r)[1] = q[1]
  BY ReplyFacts
<1>2. Head(Append(q, r)) = Append(q, r)[1]
  BY <1>1, HeadTailProperties
<1>3. CASE q = <<>>
  BY <1>1, <1>2, <1>3, NoReplies
<1>4. CASE q # <<>>
  <2>1. Len(q) > 0 /\ Head(q) = q[1]
    BY <1>4, ReplyFacts
  <2> QED
    BY <1>1, <1>2, <1>4, <2>1
<1> QED
  BY <1>3, <1>4

LEMMA OneOrTwo == \A n \in Nat : n # 0 /\ n <= 2 => n = 1 \/ n = 2
OBVIOUS

-----------------------------------------------------------------------------
LEMMA InitSession == Init => SessionInv
<1> SUFFICES ASSUME Init PROVE SessionInv
  OBVIOUS
<1> USE DEF Init, NewSession
<1>0. Len(replies) = 0 /\ Len(accepted) = 0 /\ mail = 0
  OBVIOUS
<1>1. TypeOK
  <2>1. replies \in Seq({"ok", "no", "garbled"})
    BY EmptySeq
  <2>2. accepted \in Seq([mail : Mails, to : SUBSET Mails])
    BY EmptySeq
  <2>3. verdict \in [Mails -> {"none", "sent", "failed"}]
    OBVIOUS
  <2>4. mail \in 0..MaxMails
    BY SessionAssumption
  <2>5. server \in [last : Steps \cup {"new"}, to : SUBSET Mails]
    OBVIOUS
  <2> QED
    BY <2>1, <2>2, <2>3, <2>4, <2>5 DEF TypeOK
<1>2. OneAtATime /\ InStep /\ OwnTransaction
  BY DEF OneAtATime, InStep, OwnTransaction, Unread, Steps, Handshake, Transaction
<1>3. AcceptedOnce /\ Concluded /\ OneSocketPerMail
  BY <1>0 DEF AcceptedOnce, Concluded, OneSocketPerMail, InHand, Mails, Steps, Handshake, Transaction
<1> QED
  BY <1>1, <1>2, <1>3 DEF SessionInv

LEMMA DisconnectFacts ==
  ASSUME abandoned \in Nat, Disconnect
  PROVE  /\ abandoned' \in Nat
         /\ abandoned' \in {abandoned, abandoned + 1}
         /\ link' = "none" /\ request' = "none" /\ replies' = <<>> /\ connected' = FALSE
<1>1. CASE link = "up"
  BY <1>1 DEF Disconnect
<1>2. CASE link = "lost"
  BY <1>2 DEF Disconnect
<1>3. CASE link \notin {"up", "lost"}
  BY <1>3 DEF Disconnect
<1> QED
  BY <1>1, <1>2, <1>3

(* The two sequences keep their types.                                      *)
LEMMA SequencesStep ==
  ASSUME TypeOK, OneAtATime, Concluded, [Next]_vars
  PROVE  /\ replies' \in Seq(Known)
         /\ accepted' \in Seq([mail : Mails, to : SUBSET Mails])
<1> DEFINE A == [mail : Mails, to : SUBSET Mails]
<1>1. replies \in Seq(Known) /\ accepted \in Seq(A)
  BY DEF TypeOK, Known
<1>2. \A s \in Seq(Known) : s # <<>> => Tail(s) \in Seq(Known)
  BY ReplyFacts
<1>3. \A s \in Seq(Known), r \in {"ok", "no", "garbled"} : Append(s, r) \in Seq(Known)
  BY ReplyFacts DEF Known
<1>4. replies' \in Seq(Known)
  <2>1. CASE ServerAnswers \/ LinkLost
    BY <2>1, <1>1, <1>3, NoReplies DEF ServerAnswers, ServerTakes, ServerRefuses, LinkLost
  <2>2. CASE NextMail \/ Dialogue \/ Destroy \/ UNCHANGED vars
    BY <2>2, <1>1, <1>2, NoReplies
       DEF NextMail, Dialogue, Connect, ConnectFails, Write, ReadExpected, MailSent,
           ReadUnexpected, Break, AbortHandshake, AbortMail, MailBreaks, Disconnect,
           Destroy, vars, wire
  <2> QED
    BY <2>1, <2>2 DEF Next
<1>5. accepted' \in Seq(A)
  <2>1. CASE ServerTakes
    <3>1. request = "body" => mail \in Mails
      BY <2>1, SessionAssumption
         DEF TypeOK, OneAtATime, Concluded, ServerTakes, InHand, Mails
    <3>2. request = "body" => [mail |-> mail, to |-> server.to] \in A
      BY <3>1 DEF TypeOK
    <3> QED
      BY <2>1, <3>2, <1>1, AppendProperties DEF ServerTakes
  <2>2. CASE ~ServerTakes
    BY <2>2, <1>1
       DEF Next, ServerAnswers, ServerRefuses, LinkLost, NextMail, Dialogue, Connect,
           ConnectFails, Write, ReadExpected, MailSent, ReadUnexpected, Break,
           AbortHandshake, AbortMail, MailBreaks, Destroy, vars
  <2> QED
    BY <2>1, <2>2
<1> QED
  BY <1>4, <1>5

LEMMA TypeStep == SessionInv /\ [Next]_vars => TypeOK'
<1> SUFFICES ASSUME SessionInv, [Next]_vars PROVE TypeOK'
  OBVIOUS
<1>0. TypeOK /\ Concluded /\ OneAtATime
  BY DEF SessionInv
<1>r. replies' \in Seq(Known) /\ accepted' \in Seq([mail : Mails, to : SUBSET Mails])
  BY <1>0, SequencesStep
<1> USE SessionAssumption, <1>0, <1>r
    DEF TypeOK, Known, Mails, Steps, Handshake, Transaction, client, outcome, wire
<1>1. CASE NextMail
  BY <1>1 DEF NextMail
<1>2. CASE Connect
  <2>1. server' \in [last : Steps \cup {"new"}, to : SUBSET Mails]
    BY <1>2 DEF Connect, NewSession
  <2> QED
    BY <2>1, <1>2 DEF Connect, NewSession
<1>3. CASE ConnectFails
  BY <1>3 DEF ConnectFails, Report
<1>4. CASE Write
  BY <1>4 DEF Write
<1>5. CASE ReadExpected
  BY <1>5, AfterType DEF ReadExpected, OneAtATime
<1>6. CASE MailSent
  BY <1>6 DEF MailSent, Report
<1>7. CASE ReadUnexpected \/ Break
  BY <1>7, DisconnectFacts DEF ReadUnexpected, Break, AbortHandshake, AbortMail, MailBreaks, Report
<1>8. CASE ServerTakes
  <2>1. mail \in Mails
    BY <1>8 DEF ServerTakes, OneAtATime, Concluded, InHand
  <2>2. server' \in [last : Steps \cup {"new"}, to : SUBSET Mails]
    BY <1>8, <2>1 DEF ServerTakes, Taken
  <2> QED
    BY <1>8, <2>2 DEF ServerTakes
<1>9. CASE ServerRefuses
  BY <1>9 DEF ServerRefuses, Refusal
<1>10. CASE LinkLost
  BY <1>10 DEF LinkLost
<1>11. CASE Destroy
  BY <1>11, DisconnectFacts DEF Destroy
<1>12. CASE UNCHANGED vars
  BY <1>12 DEF vars
<1> QED
  BY <1>1, <1>2, <1>3, <1>4, <1>5, <1>6, <1>7, <1>8, <1>9, <1>10, <1>11, <1>12
     DEF Next, Dialogue, ServerAnswers

-----------------------------------------------------------------------------
(* What a reply in hand leaves behind when it is read.                      *)
LEMMA ReadFacts ==
  ASSUME SessionInv, asked, replies # <<>>
  PROVE  /\ at \in Steps /\ request = "none" /\ link \in {"up", "lost"}
         /\ Tail(replies) \in Seq(Known)
         /\ link = "up" => Tail(replies) = <<>>
         /\ link = "lost" => Tail(replies) \in {<<>>, <<"no">>}
         /\ Head(replies) \in Known
<1>1. TypeOK /\ OneAtATime /\ replies \in Seq(Known)
  BY DEF SessionInv, TypeOK, Known
<1>2. at \in Steps /\ request = "none" /\ link \in {"up", "lost"}
  BY <1>1 DEF OneAtATime, TypeOK
<1>3. Len(replies) \in Nat /\ Len(replies) # 0
  BY <1>1, ReplyFacts
<1>4. /\ Tail(replies) \in Seq(Known) /\ Head(replies) \in Known
      /\ Len(Tail(replies)) = Len(replies) - 1
      /\ Len(replies) = 1 => Tail(replies) = <<>>
      /\ Len(replies) = 2 => Tail(replies) # <<>> /\ Head(Tail(replies)) = replies[2]
  BY <1>1, ReplyFacts
<1>5. link = "up" => Tail(replies) = <<>>
  BY <1>1, <1>2, <1>4 DEF OneAtATime
<1>6. ASSUME link = "lost" PROVE Tail(replies) \in {<<>>, <<"no">>}
  <2>0. Len(replies) <= 2 /\ (Len(replies) = 2 => replies[2] = "no")
    BY <1>1, <1>6 DEF OneAtATime
  <2>1. Len(replies) = 1 \/ Len(replies) = 2
    BY <1>3, <2>0, OneOrTwo
  <2>2. ASSUME Len(replies) = 2 PROVE Tail(replies) = <<"no">>
    <3>1. Head(Tail(replies)) = "no" /\ Len(Tail(replies)) = 1
      BY <1>4, <2>0, <2>2
    <3>2. Tail(replies)[1] = "no"
      BY <1>4, <2>2, <3>1, HeadTailProperties
    <3> QED
      BY <1>4, <3>1, <3>2, OnlyParting
  <2> QED
    BY <1>4, <2>1, <2>2
<1> QED
  BY <1>2, <1>4, <1>5, <1>6

LEMMA OneAtATimeStep == SessionInv /\ [Next]_vars => OneAtATime'
<1> SUFFICES ASSUME SessionInv, [Next]_vars PROVE OneAtATime'
  OBVIOUS
<1>0. TypeOK /\ OneAtATime /\ replies \in Seq(Known) /\ abandoned \in Nat
  BY DEF SessionInv, TypeOK, Known
<1> USE <1>0 DEF OneAtATime, Steps, Handshake, Transaction, client, outcome, wire
<1>1. CASE NextMail
  BY <1>1 DEF NextMail
<1>2. CASE Connect
  BY <1>2 DEF Connect
<1>3. CASE ConnectFails
  BY <1>3 DEF ConnectFails, Report
<1>4. CASE Write
  BY <1>4, NoReplies, Parting DEF Write
<1>5. CASE ReadExpected
  BY <1>5, ReadFacts, AfterType DEF ReadExpected
<1>6. CASE MailSent
  BY <1>6, ReadFacts DEF MailSent, Report
<1>7. CASE ReadUnexpected
  BY <1>7, ReadFacts, DisconnectFacts DEF ReadUnexpected, AbortHandshake, AbortMail, Report
<1>8. CASE Break
  BY <1>8, ReadFacts, DisconnectFacts DEF Break, Throws, AbortHandshake, MailBreaks, Report
<1>9. CASE ServerAnswers
  <2>1. /\ link = "up" /\ asked /\ at \in Steps /\ replies = <<>> /\ request' = "none"
        /\ UNCHANGED <<at, asked, connected, link>>
        /\ \E r \in Known : replies' = Append(replies, r)
    BY <1>9 DEF ServerAnswers, ServerTakes, ServerRefuses, Known
  <2>2. Len(replies') = 1
    BY <2>1, NoReplies, ReplyFacts
  <2> QED
    BY <2>1, <2>2
<1>10. CASE LinkLost
  <2>1. link = "up" /\ link' = "lost" /\ request' = "none" /\ UNCHANGED <<at, asked, connected>>
    BY <1>10 DEF LinkLost
  <2>2. CASE asked
    <3>1. Len(replies) = 0 \/ Len(replies) = 1
      BY <2>1, <2>2, NoReplies DEF TypeOK
    <3>3. Len(replies') <= 2 /\ (Len(replies') = 2 => replies'[2] = "no")
      BY <1>10, <3>1, AtMostTwo DEF LinkLost
    <3> QED
      BY <2>1, <2>2, <3>3
  <2>3. CASE ~asked
    <3>1. replies' \in {<<>>, Append(<<>>, "no")}
      BY <1>10, <2>3 DEF LinkLost
    <3>2. Append(<<>>, "no") = <<"no">>
      OBVIOUS
    <3> QED
      BY <2>1, <2>3, <3>1, <3>2
  <2> QED
    BY <2>2, <2>3
<1>11. CASE Destroy
  BY <1>11, DisconnectFacts DEF Destroy
<1>12. CASE UNCHANGED vars
  BY <1>12 DEF vars
<1> QED
  BY <1>1, <1>2, <1>3, <1>4, <1>5, <1>6, <1>7, <1>8, <1>9, <1>10, <1>11, <1>12
     DEF Next, Dialogue

(* A reply that is first in line after a step was first before it, or       *)
(* answers the command that was under way.                                  *)
LEMMA OkFacts ==
  ASSUME SessionInv, [Next]_vars, Unread', Head(replies') = "ok"
  PROVE  \/ /\ Unread /\ Head(replies) = "ok" /\ request = "none"
            /\ link' = "up" => link = "up"
            /\ UNCHANGED <<at, asked, server, mail, accepted, request>>
         \/ ServerTakes
<1>0. TypeOK /\ OneAtATime /\ replies \in Seq(Known)
  BY DEF SessionInv, TypeOK, Known
<1>1. asked' /\ replies' # <<>>
  BY DEF Unread
<1>n. Head(<<"no">>) = "no"
  OBVIOUS
<1>2. CASE Write
  <2>1. replies = <<"no">>
    BY <1>0, <1>1, <1>2 DEF OneAtATime, TypeOK, Write, Steps, Handshake, Transaction
  <2> QED
    BY <1>2, <2>1, <1>n DEF Write
<1>3. CASE ServerRefuses
  <2>1. replies = <<>>
    BY <1>0, <1>3 DEF OneAtATime, ServerRefuses
  <2>2. Head(Append(replies, "no")) # "ok" /\ Head(Append(replies, "garbled")) # "ok"
    BY <1>0, <2>1, FirstReply DEF Known
  <2> QED
    BY <1>3, <2>2 DEF ServerRefuses
<1>4. CASE LinkLost
  <2>1. Head(Append(replies, "no")) = "ok" => Head(replies) = "ok" /\ replies # <<>>
    BY <1>0, FirstReply DEF Known
  <2> QED
    BY <1>0, <1>1, <1>4, <2>1 DEF LinkLost, OneAtATime, Unread, client, outcome
<1>5. CASE NextMail \/ Destroy
  BY <1>0, <1>1, <1>5 DEF NextMail, Destroy, OneAtATime, Steps, Handshake, Transaction
<1>6. CASE UNCHANGED vars
  BY <1>0, <1>1, <1>6 DEF vars, client, outcome, wire, OneAtATime, Unread
<1>7. CASE Dialogue /\ ~Write
  BY <1>1, <1>7
     DEF Dialogue, Connect, ConnectFails, ReadExpected, MailSent, ReadUnexpected, Break,
         AbortHandshake, AbortMail, MailBreaks, Report
<1> QED
  BY <1>2, <1>3, <1>4, <1>5, <1>6, <1>7 DEF Next, ServerAnswers

LEMMA InStepStep == SessionInv /\ [Next]_vars => InStep'
<1> SUFFICES ASSUME SessionInv, [Next]_vars, Unread', Head(replies') = "ok"
             PROVE  server'.last = at'
  BY DEF InStep
<1>1. InStep /\ OneAtATime
  BY DEF SessionInv
<1>2. CASE ServerTakes
  BY <1>1, <1>2 DEF ServerTakes, Taken, OneAtATime, client
<1>3. CASE ~ServerTakes
  BY <1>1, <1>3, OkFacts DEF InStep
<1> QED
  BY <1>2, <1>3

LEMMA OwnTransactionStep == SessionInv /\ [Next]_vars => OwnTransaction'
<1> SUFFICES ASSUME SessionInv, [Next]_vars PROVE OwnTransaction'
  OBVIOUS
<1>0. TypeOK /\ OneAtATime /\ InStep /\ OwnTransaction /\ replies \in Seq(Known)
  BY DEF SessionInv, TypeOK, Known
<1> USE <1>0 DEF OneAtATime, Steps, Handshake, Transaction, client, outcome, wire
(* the server takes a command only in its order, the current mail's         *)
<1>1. ASSUME ServerTakes
      PROVE  /\ request = at /\ at' = at /\ asked' = asked /\ mail' = mail /\ asked
             /\ link' = "up" /\ request' = "none"
             /\ server' = Taken(at)
             /\ at \in {"rcpt", "data", "body"} =>
                  server.to = IF at = "rcpt" THEN {} ELSE {mail}
             /\ at = "body" => accepted' = Append(accepted, Mine)
  BY <1>1 DEF ServerTakes, OwnTransaction, Mine
<1>2. ASSUME Unread', Head(replies') = "ok", request' = "none", link' = "up"
      PROVE  server'.to = IF at' \in {"rcpt", "data"} THEN {mail'} ELSE {}
  <2>1. CASE ServerTakes
    BY <1>1, <2>1 DEF Taken
  <2>2. CASE ~ServerTakes
    BY <1>2, <2>2, OkFacts DEF OwnTransaction
  <2> QED
    BY <2>1, <2>2
<1>3. ASSUME ~asked' \/ request' # "none", link' = "up", at' \in Transaction \ {"mail"}
      PROVE  /\ After[server'.last] = at'
             /\ server'.to = IF at' = "rcpt" THEN {} ELSE {mail'}
  <2>1. CASE ReadExpected
    <3>1. at \in {"mail", "rcpt", "data"} /\ at' = After[at] /\ link = "up" /\ request = "none"
      BY <1>3, <2>1, AfterFacts DEF ReadExpected
    <3>2. server.last = at /\ server.to = IF at \in {"rcpt", "data"} THEN {mail} ELSE {}
      BY <2>1, <3>1 DEF ReadExpected, InStep, OwnTransaction, Unread
    <3> QED
      BY <2>1, <3>1, <3>2, AfterFacts DEF ReadExpected
  <2>2. CASE ~ReadExpected
    <3>1. /\ ~asked \/ request # "none"
          /\ link = "up"
          /\ UNCHANGED <<at, server, mail>>
      BY <1>3, <2>2
         DEF Next, ServerAnswers, ServerTakes, ServerRefuses, LinkLost, NextMail, Dialogue,
             Connect, ConnectFails, Write, MailSent, ReadUnexpected, Break, AbortHandshake,
             AbortMail, MailBreaks, Report, Disconnect, Destroy, vars
    <3> QED
      BY <1>3, <3>1 DEF OwnTransaction
  <2> QED
    BY <2>1, <2>2
<1>4. ASSUME request' = "none", Unread', Head(replies') = "ok", at' = "body"
      PROVE  accepted' # <<>> /\ accepted'[Len(accepted')] = Mine'
  <2>1. CASE ServerTakes
    <3>1. accepted' = Append(accepted, Mine) /\ Mine' = Mine
      BY <1>1, <1>4, <2>1 DEF Mine
    <3>2. accepted \in Seq([mail : Mails, to : SUBSET Mails]) /\ Mine \in [mail : Mails, to : SUBSET Mails]
      <4>1. mail \in Mails
        BY <1>1, <1>4, <2>1, SessionAssumption DEF SessionInv, Concluded, InHand, TypeOK, Mails
      <4> QED
        BY <4>1 DEF TypeOK, Mine
    <3>3. Len(accepted') = Len(accepted) + 1 /\ accepted'[Len(accepted) + 1] = Mine /\ Len(accepted) \in Nat
      BY <3>1, <3>2, AppendProperties, LenProperties
    <3> QED
      BY <3>1, <3>3, <3>2, EmptySeq
  <2>2. CASE ~ServerTakes
    BY <1>4, <2>2, OkFacts DEF OwnTransaction, Mine
  <2> QED
    BY <2>1, <2>2
<1> QED
  BY <1>2, <1>3, <1>4 DEF OwnTransaction, Unread

(* What the server accepted grows only by the current mail, when its body   *)
(* arrives for the first time.                                              *)
Accepted == [mail : Mails, to : SUBSET Mails]

LEMMA AcceptFacts ==
  ASSUME SessionInv, ServerTakes, request = "body"
  PROVE  /\ at = "body" /\ asked /\ InHand /\ mail \in Mails /\ Mine \in Accepted
         /\ accepted' = Append(accepted, Mine)
         /\ Len(accepted) \in Nat /\ Len(accepted') = Len(accepted) + 1
         /\ accepted'[Len(accepted) + 1] = Mine
         /\ \A i \in 1..Len(accepted) : accepted'[i] = accepted[i]
         /\ UNCHANGED <<at, asked, mail, verdict, abandoned>> /\ request' = "none"
<1>0. TypeOK /\ OneAtATime /\ OwnTransaction /\ Concluded /\ accepted \in Seq(Accepted)
  BY DEF SessionInv, TypeOK, Accepted
<1>1. /\ at = "body" /\ asked /\ InHand /\ request' = "none"
      /\ UNCHANGED <<at, asked, mail, verdict, abandoned>>
  BY <1>0
     DEF ServerTakes, OneAtATime, InHand, Steps, Handshake, Transaction, client, outcome
<1>2. mail \in Mails
  BY <1>0, <1>1, SessionAssumption DEF Concluded, TypeOK, Mails
<1>3. server.to = {mail}
  BY <1>0, <1>1 DEF OwnTransaction, ServerTakes, Transaction
<1>4. Mine \in Accepted /\ accepted' = Append(accepted, Mine)
  BY <1>2, <1>3 DEF Mine, Accepted, ServerTakes
<1>5. /\ Len(accepted) \in Nat /\ Len(accepted') = Len(accepted) + 1
      /\ accepted'[Len(accepted) + 1] = Mine
      /\ \A i \in 1..Len(accepted) : accepted'[i] = accepted[i]
  BY <1>0, <1>4, AppendProperties, LenProperties
<1> QED
  BY <1>1, <1>2, <1>4, <1>5

LEMMA AcceptedKept ==
  ASSUME [Next]_vars, ~(ServerTakes /\ request = "body")
  PROVE  accepted' = accepted
BY DEF Next, ServerAnswers, ServerTakes, ServerRefuses, LinkLost, NextMail, Dialogue, Connect,
       ConnectFails, Write, ReadExpected, MailSent, ReadUnexpected, Break, AbortHandshake,
       AbortMail, MailBreaks, Destroy, vars

LEMMA AcceptedOnceStep == SessionInv /\ [Next]_vars => AcceptedOnce'
<1> SUFFICES ASSUME SessionInv, [Next]_vars PROVE AcceptedOnce'
  OBVIOUS
<1>0. /\ TypeOK /\ OneAtATime /\ AcceptedOnce
      /\ Len(accepted) \in Nat /\ mail \in Nat
      /\ \A i \in 1..Len(accepted) : accepted[i].mail \in Nat
  <2>1. TypeOK /\ OneAtATime /\ AcceptedOnce /\ accepted \in Seq(Accepted) /\ mail \in Nat
    BY SessionAssumption DEF SessionInv, TypeOK, Accepted
  <2>2. \A i \in 1..Len(accepted) : accepted[i] \in Accepted
    BY <2>1, ElementOfSeq
  <2> QED
    BY <2>1, <2>2, LenProperties, SessionAssumption DEF Accepted, Mails
<1>1. CASE ServerTakes /\ request = "body"
  <2>0. \A i \in 1..Len(accepted) : accepted[i].mail < mail
    BY <1>0, <1>1, AcceptFacts DEF AcceptedOnce
  <2>1. ASSUME NEW i \in 1..Len(accepted')
        PROVE  /\ accepted'[i].to = {accepted'[i].mail}
               /\ accepted'[i].mail <= mail'
               /\ \A j \in 1..(i - 1) : accepted'[j].mail < accepted'[i].mail
    <3>1. CASE i \in 1..Len(accepted)
      BY <1>0, <1>1, <3>1, AcceptFacts DEF AcceptedOnce
    <3>2. CASE i = Len(accepted) + 1
      BY <1>0, <1>1, <2>0, <3>2, AcceptFacts DEF Mine
    <3> QED
      BY <1>0, <1>1, <3>1, <3>2, AcceptFacts
  <2>2. at' = "body" /\ asked' /\ request' = "none"
    BY <1>1, AcceptFacts
  <2> QED
    BY <2>1, <2>2 DEF AcceptedOnce
<1>2. CASE ~(ServerTakes /\ request = "body")
  <2>1. accepted' = accepted
    BY <1>2, AcceptedKept
  <2>2. CASE NextMail
    BY <1>0, <2>1, <2>2 DEF NextMail, AcceptedOnce
  <2>3. CASE ~NextMail
    <3>1. mail' = mail
      BY <2>3
         DEF Next, ServerAnswers, ServerTakes, ServerRefuses, LinkLost, Dialogue, Connect,
             ConnectFails, Write, ReadExpected, MailSent, ReadUnexpected, Break,
             AbortHandshake, AbortMail, MailBreaks, Report, Destroy, vars, outcome
    <3>2. InHand' => InHand
      BY <1>0, <2>3
         DEF Next, ServerAnswers, ServerTakes, ServerRefuses, LinkLost, Dialogue, Connect,
             ConnectFails, Write, ReadExpected, MailSent, ReadUnexpected, Break,
             AbortHandshake, AbortMail, MailBreaks, Report, Destroy, vars, client, InHand,
             OneAtATime, Steps, Handshake, Transaction
    <3>3. at = "body" /\ asked /\ request = "none" /\ InHand' =>
            at' = "body" /\ asked' /\ request' = "none"
      BY <2>3
         DEF Next, ServerAnswers, ServerTakes, ServerRefuses, LinkLost, Dialogue, Connect,
             ConnectFails, Write, ReadExpected, MailSent, ReadUnexpected, Break,
             AbortHandshake, AbortMail, MailBreaks, Report, Destroy, vars, client, wire, InHand,
             Steps, Handshake, Transaction
    <3> QED
      BY <1>0, <2>1, <3>1, <3>2, <3>3 DEF AcceptedOnce
  <2> QED
    BY <2>2, <2>3
<1> QED
  BY <1>1, <1>2

(* Whatever ends a mail gives it its verdict.                               *)
LEMMA ReportFacts ==
  ASSUME SessionInv, [Next]_vars, ~NextMail, ~(Connect \/ Write \/ ReadExpected),
         ~(ServerAnswers \/ LinkLost \/ Destroy), ~UNCHANGED vars
  PROVE  /\ InHand /\ mail \in Mails
         /\ \E v \in {"sent", "failed"} : Report(v) /\ (v = "sent" => MailSent)
         /\ abandoned' \in {abandoned, abandoned + 1}
<1>0. TypeOK /\ Concluded /\ abandoned \in Nat
  BY DEF SessionInv, TypeOK
<1>1. ConnectFails \/ MailSent \/ ReadUnexpected \/ Break
  BY DEF Next, Dialogue
<1>2. \/ AbortHandshake \/ AbortMail \/ MailBreaks \/ MailSent \/ ConnectFails
  BY <1>1 DEF ReadUnexpected, Break
<1>3. InHand /\ abandoned' \in {abandoned, abandoned + 1}
  BY <1>0, <1>2, DisconnectFacts
     DEF InHand, AbortHandshake, AbortMail, MailBreaks, MailSent, ConnectFails, Steps,
         Handshake, Transaction
<1>4. mail \in Mails
  BY <1>0, <1>3, SessionAssumption DEF Concluded, TypeOK, Mails
<1>5. \E v \in {"sent", "failed"} : Report(v) /\ (v = "sent" => MailSent)
  BY <1>2 DEF AbortHandshake, AbortMail, MailBreaks, MailSent, ConnectFails
<1> QED
  BY <1>3, <1>4, <1>5

LEMMA ConcludedStep == SessionInv /\ [Next]_vars => Concluded'
<1> SUFFICES ASSUME SessionInv, [Next]_vars PROVE Concluded'
  OBVIOUS
<1>0. TypeOK /\ OneAtATime /\ OwnTransaction /\ Concluded
  BY DEF SessionInv
<1>1. CASE NextMail
  <2>1. mail \in Nat /\ mail' = mail + 1 /\ verdict' = verdict /\ accepted' = accepted /\ ~InHand /\ InHand'
    BY <1>0, <1>1, SessionAssumption
       DEF NextMail, TypeOK, InHand, Steps, Handshake, Transaction
  <2> QED
    BY <1>0, <2>1, SessionAssumption DEF Concluded, Mails
<1>2. CASE Connect \/ Write \/ ReadExpected \/ ServerRefuses \/ LinkLost \/ Destroy \/ UNCHANGED vars
  <2>1. InHand' = InHand /\ UNCHANGED <<mail, verdict, accepted>>
    BY <1>0, <1>2, AfterType
       DEF Connect, Write, ReadExpected, ServerRefuses, LinkLost, Destroy, vars, client, outcome,
           InHand, OneAtATime, Steps, Handshake, Transaction
  <2> QED
    BY <1>0, <2>1 DEF Concluded
<1>3. CASE ServerTakes
  <2>1. InHand' = InHand /\ UNCHANGED <<mail, verdict>>
    BY <1>3 DEF ServerTakes, client, outcome, InHand
  <2>2. CASE request # "body"
    BY <1>0, <1>3, <2>1, <2>2, AcceptedKept DEF Concluded
  <2>3. CASE request = "body"
    <3>1. /\ Len(accepted) \in Nat /\ Len(accepted') = Len(accepted) + 1
          /\ \A i \in 1..Len(accepted) : accepted'[i] = accepted[i]
      BY <1>3, <2>3, AcceptFacts
    <3> QED
      BY <1>0, <2>1, <3>1 DEF Concluded
  <2> QED
    BY <2>2, <2>3
<1>4. CASE ~(NextMail \/ Connect \/ Write \/ ReadExpected \/ ServerAnswers \/ LinkLost \/ Destroy \/ UNCHANGED vars)
  <2>1. PICK v \in {"sent", "failed"} : Report(v) /\ (v = "sent" => MailSent)
    BY <1>4, ReportFacts
  <2>2. InHand /\ mail \in Mails /\ ~InHand' /\ accepted' = accepted
    BY <1>4, <2>1, ReportFacts, AcceptedKept
       DEF Report, InHand, ServerAnswers, Steps, Handshake, Transaction
  <2>3. v = "sent" => \E i \in 1..Len(accepted) : accepted[i].mail = mail
    <3> SUFFICES ASSUME v = "sent" PROVE \E i \in 1..Len(accepted) : accepted[i].mail = mail
      OBVIOUS
    <3>1. MailSent
      BY <2>1
    <3>2. accepted # <<>> /\ accepted[Len(accepted)] = Mine
      BY <1>0, <3>1 DEF MailSent, OwnTransaction, OneAtATime, Unread
    <3>3. Len(accepted) \in 1..Len(accepted)
      BY <1>0, <3>2, EmptySeq, LenProperties DEF TypeOK
    <3> QED
      BY <3>2, <3>3 DEF Mine
  <2> QED
    BY <1>0, <2>1, <2>2, <2>3, SessionAssumption DEF Report, Concluded, Mails, TypeOK
<1> QED
  BY <1>1, <1>2, <1>3, <1>4 DEF ServerAnswers

LEMMA OneSocketStep == SessionInv /\ [Next]_vars => OneSocketPerMail'
<1> SUFFICES ASSUME SessionInv, [Next]_vars PROVE OneSocketPerMail'
  OBVIOUS
<1>0. /\ TypeOK /\ OneAtATime /\ OneSocketPerMail
      /\ mail \in Nat /\ abandoned \in Nat /\ mail' \in Nat
  BY TypeStep, SessionAssumption DEF SessionInv, TypeOK
<1>1. CASE NextMail
  BY <1>0, <1>1 DEF NextMail, OneSocketPerMail, InHand, Steps, Handshake, Transaction
<1>2. CASE Connect \/ Write \/ ReadExpected \/ ServerAnswers \/ LinkLost \/ UNCHANGED vars
  <2>1. InHand' = InHand /\ UNCHANGED <<mail, abandoned>> /\ (at' = "destroyed" <=> at = "destroyed")
    BY <1>0, <1>2, AfterType
       DEF Connect, Write, ReadExpected, ServerAnswers, ServerTakes, ServerRefuses, LinkLost,
           vars, client, outcome, InHand, OneAtATime, Steps, Handshake, Transaction
  <2> QED
    BY <1>0, <2>1 DEF OneSocketPerMail
<1>3. CASE Destroy
  <2>1. abandoned' \in {abandoned, abandoned + 1} /\ mail' = mail
    BY <1>0, <1>3, DisconnectFacts DEF Destroy, outcome
  <2>2. at = "idle" /\ at' = "destroyed"
    BY <1>3 DEF Destroy
  <2> QED
    BY <1>0, <2>1, <2>2 DEF OneSocketPerMail, InHand, Steps, Handshake, Transaction
<1>4. CASE ~(NextMail \/ Connect \/ Write \/ ReadExpected \/ ServerAnswers \/ LinkLost \/ Destroy \/ UNCHANGED vars)
  <2>1. InHand /\ at' = "idle" /\ mail' = mail /\ abandoned' \in {abandoned, abandoned + 1}
    BY <1>4, ReportFacts DEF Report
  <2> QED
    BY <1>0, <2>1 DEF OneSocketPerMail, InHand, Steps, Handshake, Transaction
<1> QED
  BY <1>1, <1>2, <1>3, <1>4

-----------------------------------------------------------------------------
(* Client and server agree on the mail and the step they are at, whatever   *)
(* the server refuses, says or leaves unsaid, for any number of mails       *)
(* (email_queue.cpp:80-269).                                                *)
THEOREM SessionAgrees == Spec => []SessionInv
<1>1. SessionInv /\ [Next]_vars => SessionInv'
  BY TypeStep, OneAtATimeStep, InStepStep, OwnTransactionStep, AcceptedOnceStep,
     ConcludedStep, OneSocketStep DEF SessionInv
<1> QED
  BY InitSession, <1>1, PTL DEF Spec

(* The session implements MailDelivery: the worker's ensureConnection() and *)
(* sendEmail() give each mail one verdict, and "sent" only when the server  *)
(* accepted that mail, once and for its own address (email_queue.cpp:66-74).*)
THEOREM SessionDelivers == Spec => Implements
<1>1. Init => D!Start
  BY DEF Init, D!Start, D!Mails, Mails
<1>2. ASSUME SessionInv, [Next]_vars PROVE [D!Proceed]_(D!delivery)
  <2>0. /\ TypeOK /\ Concluded /\ AcceptedOnce /\ OneAtATime
        /\ D!Mails = Mails
        /\ D!InHand <=> mail \in Mails /\ verdict[mail] = "none"
    BY <1>2 DEF SessionInv, D!Mails, Mails, D!InHand
  <2>1. ASSUME mail \in Mails PROVE D!InHand <=> InHand
    BY <2>0, <2>1, SessionAssumption DEF Concluded, TypeOK, Mails
  <2>2. CASE NextMail
    <3>1. ~D!InHand
      BY <2>0, <2>1, <2>2 DEF NextMail, InHand, Steps, Handshake, Transaction
    <3> QED
      BY <2>2, <3>1 DEF NextMail, D!Proceed, D!TakeUp
  <2>3. CASE ServerTakes /\ request = "body"
    <3>1. D!InHand
      BY <1>2, <2>0, <2>1, <2>3, AcceptFacts
    <3>2. ~D!WasAccepted(mail)
      BY <1>2, <2>0, <2>3, AcceptFacts DEF D!WasAccepted, D!Delivery, AcceptedOnce, ServerTakes
    <3>3. accepted' = Append(accepted, D!Delivery(mail)) /\ UNCHANGED <<mail, verdict>>
      BY <1>2, <2>3, AcceptFacts DEF D!Delivery, Mine
    <3> QED
      BY <3>1, <3>2, <3>3 DEF D!Proceed, D!Accept
  <2>4. CASE ~(NextMail \/ Connect \/ Write \/ ReadExpected \/ ServerAnswers \/ LinkLost \/ Destroy \/ UNCHANGED vars)
    <3>1. PICK v \in {"sent", "failed"} : Report(v) /\ (v = "sent" => MailSent)
      BY <1>2, <2>4, ReportFacts
    <3>2. D!InHand
      BY <1>2, <2>1, <2>4, ReportFacts
    <3>3. accepted' = accepted
      BY <1>2, <2>4, AcceptedKept DEF ServerAnswers
    <3>4. v = "sent" => D!WasAccepted(mail)
      <4> SUFFICES ASSUME v = "sent" PROVE D!WasAccepted(mail)
        OBVIOUS
      <4>1. accepted # <<>> /\ accepted[Len(accepted)] = Mine
        BY <1>2, <2>0, <3>1 DEF MailSent, SessionInv, OwnTransaction, OneAtATime, Unread
      <4>2. Len(accepted) \in 1..Len(accepted)
        BY <2>0, <4>1, EmptySeq, LenProperties DEF TypeOK
      <4> QED
        BY <4>1, <4>2 DEF D!WasAccepted, D!Delivery, Mine
    <3> QED
      BY <3>1, <3>2, <3>3, <3>4 DEF Report, D!Proceed, D!Conclude, D!Tell
  <2>5. CASE \/ Connect \/ Write \/ ReadExpected \/ (ServerAnswers /\ ~(ServerTakes /\ request = "body"))
             \/ LinkLost \/ Destroy \/ UNCHANGED vars
    BY <2>5
       DEF Connect, Write, ReadExpected, ServerAnswers, ServerTakes, ServerRefuses, LinkLost,
           Destroy, vars, outcome, D!delivery
  <2> QED
    BY <1>2, <2>2, <2>3, <2>4, <2>5
<1> QED
  BY <1>1, <1>2, SessionAgrees, PTL DEF Spec, Implements, D!Delivers
-----------------------------------------------------------------------------
(* How far the mail in hand is from its verdict: each step of the dialogue  *)
(* is written, answered and read, and the connection can be lost once.      *)
StepsLeft ==
  [connect |-> 10, greeting |-> 9, ehlo |-> 8, auth |-> 7, user |-> 6, password |-> 5,
   mail |-> 4, rcpt |-> 3, data |-> 2, body |-> 1]

Asking == IF ~asked THEN 0 ELSE IF request # "none" THEN 1 ELSE 2
Losing == IF link = "up" THEN 1 ELSE 0
WorkLeft == IF InHand THEN 3 * StepsLeft[at] - Asking + Losing ELSE 0

LEMMA StepsLeftFacts ==
  /\ StepsLeft["connect"] = 10 /\ StepsLeft["greeting"] = 9 /\ StepsLeft["ehlo"] = 8
  /\ StepsLeft["auth"] = 7 /\ StepsLeft["user"] = 6 /\ StepsLeft["password"] = 5
  /\ StepsLeft["mail"] = 4 /\ StepsLeft["rcpt"] = 3 /\ StepsLeft["data"] = 2
  /\ StepsLeft["body"] = 1
BY DEF StepsLeft

LEMMA StepsAreCounted ==
  /\ \A s \in Steps \cup {"connect"} : StepsLeft[s] \in 1..10
  /\ \A s \in Steps \ {"body"} : StepsLeft[After[s]] = StepsLeft[s] - 1
BY StepsLeftFacts, AfterFacts DEF Steps, Handshake, Transaction

LEMMA WorkIsBounded == SessionInv => WorkLeft \in 0..31 /\ (InHand => WorkLeft > 0)
<1> SUFFICES ASSUME SessionInv, InHand PROVE WorkLeft \in 1..31
  BY DEF WorkLeft
<1>1. StepsLeft[at] \in 1..10
  BY StepsAreCounted DEF InHand
<1>2. Asking \in 0..2 /\ Losing \in 0..1
  BY DEF Asking, Losing
<1> QED
  BY <1>1, <1>2 DEF WorkLeft

LEMMA WorkShrinks == SessionInv /\ InHand /\ Next => WorkLeft' < WorkLeft
<1> SUFFICES ASSUME SessionInv, InHand, Next PROVE WorkLeft' < WorkLeft
  OBVIOUS
<1>0. /\ TypeOK /\ OneAtATime
      /\ StepsLeft[at] \in 1..10 /\ Asking \in 0..2 /\ Losing \in 0..1
      /\ WorkLeft = 3 * StepsLeft[at] - Asking + Losing
      /\ WorkLeft \in 1..31
  BY StepsAreCounted, WorkIsBounded DEF SessionInv, InHand, Asking, Losing, WorkLeft
<1>1. CASE Connect
  <2>1. /\ InHand' /\ StepsLeft[at] = 10 /\ StepsLeft[at'] = 9
        /\ Asking = 0 /\ Asking' = 1 /\ Losing' = 1
    BY <1>0, <1>1, StepsLeftFacts
       DEF Connect, OneAtATime, InHand, Asking, Losing, Steps, Handshake, Transaction
  <2> QED
    BY <1>0, <2>1 DEF WorkLeft
<1>2. CASE Write
  <2>1. /\ InHand' /\ at' = at
        /\ Asking = 0 /\ Asking' \in {1, 2} /\ Losing' = Losing
    BY <1>0, <1>2 DEF Write, OneAtATime, InHand, Asking, Losing
  <2> QED
    BY <1>0, <2>1 DEF WorkLeft
<1>3. CASE ServerAnswers
  <2>1. /\ InHand' /\ at' = at
        /\ Asking = 1 /\ Asking' = 2 /\ Losing' = Losing
    BY <1>0, <1>3
       DEF ServerAnswers, ServerTakes, ServerRefuses, client, OneAtATime, InHand, Asking, Losing
  <2> QED
    BY <1>0, <2>1 DEF WorkLeft
<1>4. CASE LinkLost
  <2>1. /\ InHand' /\ at' = at
        /\ Asking \in {0, 1, 2} /\ Asking' \in {0, 1, 2} /\ Asking' >= Asking
        /\ Losing = 1 /\ Losing' = 0
    BY <1>0, <1>4 DEF LinkLost, client, InHand, Asking, Losing
  <2> QED
    BY <1>0, <2>1 DEF WorkLeft
<1>5. CASE ReadExpected
  <2>1. at \in Steps \ {"body"} /\ at' = After[at] /\ request = "none"
    BY <1>0, <1>5 DEF ReadExpected, OneAtATime
  <2>2. /\ InHand' /\ StepsLeft[at'] = StepsLeft[at] - 1
        /\ Asking = 2 /\ Asking' = 0 /\ Losing' = Losing
    BY <1>5, <2>1, StepsAreCounted, AfterType DEF ReadExpected, InHand, Asking, Losing
  <2> QED
    BY <1>0, <2>2 DEF WorkLeft
<1>6. CASE ConnectFails \/ MailSent \/ ReadUnexpected \/ Break
  <2>1. at' = "idle"
    BY <1>6
       DEF ConnectFails, MailSent, ReadUnexpected, Break, AbortHandshake, AbortMail, MailBreaks,
           Report
  <2>2. WorkLeft' = 0
    BY <2>1 DEF WorkLeft, InHand, Steps, Handshake, Transaction
  <2> QED
    BY <1>0, <2>2
<1>7. ~NextMail /\ ~Destroy
  BY DEF NextMail, Destroy, InHand, Steps, Handshake, Transaction
<1> QED
  BY <1>1, <1>2, <1>3, <1>4, <1>5, <1>6, <1>7 DEF Next, Dialogue

(* A mail that was taken up has its verdict after at most 31 steps of the   *)
(* worker, the server and the network together, whatever they are, and      *)
(* until then there is always a next one: the worker connects, writes or    *)
(* reads, or it waits for a server that has its command and owes the answer *)
(* to it.  So the two never wait for each other, and all that Answered asks *)
(* for besides is that both go on (email_queue.cpp:80-269).                 *)
THEOREM EveryMailConcludes ==
  Spec =>
    /\ [](WorkLeft \in 0..31)
    /\ [][InHand => WorkLeft' < WorkLeft]_vars
    /\ [](InHand =>
           \/ at = "connect" \/ ~asked
           \/ replies # <<>> \/ link = "lost"
           \/ link = "up" /\ request = at)
<1>1. SessionInv /\ [Next]_vars => [InHand => WorkLeft' < WorkLeft]_vars
  BY WorkShrinks
<1>2. SessionInv =>
        (InHand =>
           \/ at = "connect" \/ ~asked
           \/ replies # <<>> \/ link = "lost"
           \/ link = "up" /\ request = at)
  <2> SUFFICES ASSUME SessionInv, asked, replies = <<>>, link # "lost"
               PROVE  link = "up" /\ request = at
    OBVIOUS
  <2>1. link = "up" /\ Len(replies) # 1
    BY NoReplies DEF SessionInv, OneAtATime, TypeOK
  <2> QED
    BY <2>1 DEF SessionInv, OneAtATime
<1> QED
  BY <1>1, <1>2, WorkIsBounded, SessionAgrees, PTL DEF Spec

-----------------------------------------------------------------------------
(* Who is to blame for a connection on which the next mail finds another    *)
(* one's transaction open.                                                  *)
Clean == server.last \in {"password", "body"}

Blame ==
  /\ at = "idle" /\ connected /\ link = "up" => Clean \/ (mail > 0 /\ verdict[mail] = "failed")
  /\ at = "mail" /\ ~asked /\ link = "up" => Clean \/ (mail > 1 /\ verdict[mail - 1] = "failed")

LEMMA BlameStep == SessionInv /\ Blame /\ [Next]_vars => Blame'
<1> SUFFICES ASSUME SessionInv, Blame, [Next]_vars PROVE Blame'
  OBVIOUS
<1>0. /\ TypeOK /\ OneAtATime /\ InStep /\ Concluded
      /\ mail \in Nat /\ verdict \in [Mails -> {"none", "sent", "failed"}]
  BY SessionAssumption DEF SessionInv, TypeOK
<1> USE DEF Blame, Clean
<1>1. CASE NextMail
  <2>1. /\ at = "idle" /\ mail' = mail + 1 /\ mail' - 1 = mail
        /\ UNCHANGED <<verdict, server, link, asked>>
        /\ at' = "mail" => connected
        /\ at' # "idle"
    BY <1>0, <1>1 DEF NextMail, wire
  <2>2. mail > 0 => mail' > 1
    BY <1>0, <2>1
  <2> QED
    BY <2>1, <2>2
<1>2. CASE ReadExpected
  <2>1. at' # "idle" /\ UNCHANGED <<server, link>>
    BY <1>0, <1>2, AfterType
       DEF ReadExpected, OneAtATime, Steps, Handshake, Transaction
  <2>2. at' = "mail" => at = "password" /\ server.last = at
    BY <1>0, <1>2, AfterFacts
       DEF ReadExpected, OneAtATime, InStep, Unread, Steps, Handshake, Transaction
  <2> QED
    BY <2>1, <2>2
<1>3. CASE MailSent
  <2>1. at' = "idle" /\ server' = server /\ server.last = "body"
    BY <1>0, <1>3 DEF MailSent, Report, InStep, Unread
  <2> QED
    BY <2>1
<1>4. CASE ReadUnexpected \/ Break \/ ConnectFails
  <2>1. at' = "idle" /\ mail' = mail /\ verdict' = [verdict EXCEPT ![mail] = "failed"]
        /\ InHand
    BY <1>4 DEF ReadUnexpected, Break, ConnectFails, AbortHandshake, AbortMail, MailBreaks,
                Report, InHand, Steps
  <2>2. mail \in Mails /\ mail > 0
    BY <1>0, <2>1, SessionAssumption DEF Concluded, TypeOK, Mails
  <2>3. verdict'[mail'] = "failed"
    BY <1>0, <2>1, <2>2
  <2> QED
    BY <1>0, <2>1, <2>2, <2>3
<1>5. CASE ServerAnswers
  <2>1. asked /\ UNCHANGED <<at, asked>>
    BY <1>0, <1>5 DEF ServerAnswers, ServerTakes, ServerRefuses, client, OneAtATime
  <2>2. at # "idle"
    BY <1>0, <2>1 DEF OneAtATime, Steps, Handshake, Transaction
  <2> QED
    BY <2>1, <2>2
<1>6. CASE Connect \/ Write \/ LinkLost \/ Destroy
  BY <1>6 DEF Connect, Write, LinkLost, Destroy, Steps, Handshake, Transaction
<1>7. CASE UNCHANGED vars
  BY <1>7 DEF vars, client, wire, outcome
<1> QED
  BY <1>1, <1>2, <1>3, <1>4, <1>5, <1>6, <1>7 DEF Next, Dialogue

(* The connection that ensureConnection() takes for usable is not, only if  *)
(* the mail before was given up in the middle of its transaction: after a   *)
(* mail that was sent, and on a fresh login, the server is ready for the    *)
(* next (email_queue.cpp:66, 146-150).                                      *)
THEOREM OnlyAFailureLeavesItUnusable ==
  Spec => [](~UsableConnection => mail > 1 /\ verdict[mail - 1] = "failed")
<1>1. Init => Blame
  BY DEF Init, Blame
<1>2. Blame => (~UsableConnection => mail > 1 /\ verdict[mail - 1] = "failed")
  BY DEF Blame, Clean, UsableConnection
<1> QED
  BY <1>1, <1>2, BlameStep, SessionAgrees, PTL DEF Spec
=============================================================================
