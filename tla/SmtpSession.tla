----------------------------- MODULE SmtpSession -----------------------------
(***************************************************************************)
(* The SMTP dialogue of SMTPEmailQueue (user_service/infrastructure/       *)
(* email_queue.cpp:80-269), from the worker's ensureConnection() to the    *)
(* verdict on its mail, against a server that may refuse anything, answer  *)
(* nonsense, close the connection with or without a parting 421, or fail.  *)
(*                                                                         *)
(* Commands are written and replies read synchronously and without a       *)
(* timeout.  A reply is the one the step expects ("ok"), another number    *)
(* ("no"), or no number at all ("garbled", std::stoi throws).  A server    *)
(* follows RFC 5321: it takes commands in order, keeps a refused           *)
(* transaction open, and starts a transaction afresh on a nested MAIL, or  *)
(* refuses that too.                                                       *)
(***************************************************************************)
EXTENDS Naturals, Sequences

CONSTANT MaxMails    (* bound on the mails taken up                          *)

ASSUME SessionAssumption == MaxMails \in Nat

VARIABLES
  at,          (* "idle", "connect", the step of the dialogue, "destroyed"   *)
  asked,       (* the step's command is written, its reply not yet read      *)
  connected,   (* connected_                                                 *)
  link,        (* socket_: "none", "up", or "lost" without our knowing       *)
  request,     (* the command under way to the server                        *)
  replies,     (* replies under way to us                                    *)
  server,      (* the last step the server took, and the transaction's       *)
               (* recipients                                                 *)
  abandoned,   (* sockets kept open by a shutdown nobody completes           *)
  mail,        (* mails taken up so far; the last one is the current one     *)
  accepted,    (* mails the server accepted and for whom                     *)
  verdict      (* what each mail's promise is set to                         *)

wire == <<link, request, replies>>
client == <<at, asked, connected, abandoned>>
outcome == <<mail, verdict>>
vars == <<client, wire, server, outcome, accepted>>

Mails == 1..MaxMails

Handshake == {"greeting", "ehlo", "auth", "user", "password"}
Transaction == {"mail", "rcpt", "data", "body"}
Steps == Handshake \cup Transaction

(* The order of the dialogue.  After the last step, and after the password, *)
(* comes a mail.                                                            *)
After ==
  [new |-> "greeting", greeting |-> "ehlo", ehlo |-> "auth", auth |-> "user",
   user |-> "password", password |-> "mail", mail |-> "rcpt", rcpt |-> "data",
   data |-> "body", body |-> "mail"]

NewSession == [last |-> "new", to |-> {}]

-----------------------------------------------------------------------------
(* The server and the network                                               *)

(* What the server may make of a command: the state after a refusal and the *)
(* state after taking it.                                                   *)
Refusal(cmd) ==
  IF server.last = "data" /\ cmd = "body" THEN [last |-> "body", to |-> {}] ELSE server

Takes(cmd) ==
  \/ After[server.last] = cmd
  \/ cmd = "mail" /\ server.last \in {"mail", "rcpt"}

Taken(cmd) ==
  [last |-> cmd,
   to |-> CASE cmd = "rcpt" -> server.to \cup {mail}
            [] cmd = "data" -> server.to
            [] OTHER -> {}]

ServerTakes ==
  /\ link = "up" /\ request # "none"
  /\ Takes(request)
  /\ server' = Taken(request)
  /\ accepted' = IF request = "body"
                 THEN Append(accepted, [mail |-> mail, to |-> server.to])
                 ELSE accepted
  /\ replies' \in {Append(replies, "ok"), Append(replies, "garbled")}
  /\ request' = "none"
  /\ UNCHANGED <<client, link, outcome>>

ServerRefuses ==
  /\ link = "up" /\ request # "none"
  /\ server' = Refusal(request)
  /\ replies' \in {Append(replies, "no"), Append(replies, "garbled")}
  /\ request' = "none"
  /\ UNCHANGED <<client, link, outcome, accepted>>

(* The end of a connection: what was under way may be lost, and a server    *)
(* that leaves may say so.                                                  *)
LinkLost ==
  /\ link = "up"
  /\ link' = "lost"
  /\ request' = "none"
  /\ replies' \in {<<>>, replies, Append(replies, "no")}
  /\ UNCHANGED <<client, server, outcome, accepted>>

-----------------------------------------------------------------------------
(* Ways to leave                                                            *)

Report(v) ==
  /\ verdict' = [verdict EXCEPT ![mail] = v]
  /\ at' = "idle"
  /\ asked' = FALSE
  /\ UNCHANGED mail

(* QUIT ends the session at the server; unless writing it fails, the socket *)
(* stays with the shutdown handlers of an io_context that nobody runs.      *)
Disconnect ==
  /\ abandoned' \in CASE link = "up" -> {abandoned + 1}
                      [] link = "lost" -> {abandoned, abandoned + 1}
                      [] OTHER -> {abandoned}
  /\ link' = "none" /\ request' = "none" /\ replies' = <<>>
  /\ connected' = FALSE

(* performSMTPHandshake() returns false, whatever went wrong.               *)
AbortHandshake ==
  /\ at \in Handshake
  /\ Disconnect
  /\ Report("failed")
  /\ UNCHANGED <<server, accepted>>

(* sendEmail() is left by a reply that was not expected: the connection,    *)
(* and what the server has of this mail, stay.                              *)
AbortMail ==
  /\ at \in Transaction
  /\ replies' = Tail(replies)
  /\ Report("failed")
  /\ UNCHANGED <<connected, abandoned, link, request, server, accepted>>

(* sendEmail() is left by an exception.                                     *)
MailBreaks ==
  /\ at \in Transaction
  /\ connected' = FALSE
  /\ replies' = IF asked /\ replies # <<>> THEN Tail(replies) ELSE replies
  /\ Report("failed")
  /\ UNCHANGED <<abandoned, link, request, server, accepted>>

-----------------------------------------------------------------------------
(* The worker                                                               *)

(* ensureConnection() looks at its own state only.                          *)
NextMail ==
  /\ at = "idle"
  /\ mail < MaxMails
  /\ mail' = mail + 1
  /\ at' = IF connected /\ link # "none" THEN "mail" ELSE "connect"
  /\ UNCHANGED <<asked, connected, abandoned, wire, server, accepted, verdict>>

(* Mutant of Connect: the read buffer outlives its connection.              *)
ConnectKeepingReplies ==
  /\ at = "connect"
  /\ link' = "up" /\ request' = "greeting"
  /\ server' = NewSession
  /\ at' = "greeting" /\ asked' = TRUE
  /\ UNCHANGED <<replies, connected, abandoned, outcome, accepted>>

(* A new socket takes the place of the old one; the server owes a greeting. *)
Connect ==
  /\ at = "connect"
  /\ link' = "up" /\ request' = "greeting" /\ replies' = <<>>
  /\ server' = NewSession
  /\ at' = "greeting" /\ asked' = TRUE
  /\ UNCHANGED <<connected, abandoned, outcome, accepted>>

(* No address, or neither TCP nor TLS come about; without an address the    *)
(* old socket stays.                                                        *)
ConnectFails ==
  /\ at = "connect"
  /\ connected' = FALSE
  /\ \/ UNCHANGED wire
     \/ link' = "none" /\ request' = "none" /\ replies' = <<>>
  /\ Report("failed")
  /\ UNCHANGED <<abandoned, server, accepted>>

(* A write to a connection that is lost may still succeed.                  *)
Write ==
  /\ at \in Steps /\ ~asked
  /\ request' = IF link = "up" THEN at ELSE "none"
  /\ asked' = TRUE
  /\ UNCHANGED <<at, connected, abandoned, link, replies, server, outcome, accepted>>

ReadExpected ==
  /\ asked /\ replies # <<>> /\ Head(replies) = "ok"
  /\ at # "body"
  /\ replies' = Tail(replies)
  /\ at' = After[at]
  /\ asked' = FALSE
  /\ connected' = (connected \/ at = "password")
  /\ UNCHANGED <<abandoned, link, request, server, outcome, accepted>>

(* Mutant of MailSent: the reply to the body is not looked at.              *)
MailSentUnread ==
  /\ asked /\ replies # <<>>
  /\ at = "body"
  /\ replies' = Tail(replies)
  /\ Report("sent")
  /\ UNCHANGED <<connected, abandoned, link, request, server, accepted>>

MailSent ==
  /\ asked /\ replies # <<>> /\ Head(replies) = "ok"
  /\ at = "body"
  /\ replies' = Tail(replies)
  /\ Report("sent")
  /\ UNCHANGED <<connected, abandoned, link, request, server, accepted>>

ReadUnexpected ==
  /\ asked /\ replies # <<>> /\ Head(replies) = "no"
  /\ AbortHandshake \/ AbortMail

(* Mutant of Throws: the end of the connection is no error.                 *)
EndOfFileIgnored ==
  \/ ~asked /\ link = "lost"
  \/ asked /\ replies # <<>> /\ Head(replies) = "garbled"

(* Writing or reading throws.                                               *)
Throws ==
  \/ ~asked /\ link = "lost"
  \/ asked /\ replies = <<>> /\ link = "lost"
  \/ asked /\ replies # <<>> /\ Head(replies) = "garbled"

Break == Throws /\ (AbortHandshake \/ MailBreaks)

(* The destructor, when the worker has been joined.                         *)
Destroy ==
  /\ at = "idle"
  /\ at' = "destroyed"
  /\ Disconnect
  /\ UNCHANGED <<asked, server, outcome, accepted>>

-----------------------------------------------------------------------------
Init ==
  /\ at = "idle" /\ asked = FALSE /\ connected = FALSE
  /\ link = "none" /\ request = "none" /\ replies = <<>>
  /\ server = NewSession
  /\ abandoned = 0
  /\ mail = 0 /\ accepted = <<>> /\ verdict = [m \in Mails |-> "none"]

Dialogue ==
  \/ Connect \/ ConnectFails
  \/ Write \/ ReadExpected \/ MailSent \/ ReadUnexpected \/ Break

ServerAnswers == ServerTakes \/ ServerRefuses

Next == NextMail \/ Dialogue \/ ServerAnswers \/ LinkLost \/ Destroy

Spec == Init /\ [][Next]_vars

(* The worker goes on, and the server answers every command or the          *)
(* connection ends: without a timeout, nothing else would free the worker.  *)
Fairness == WF_vars(Dialogue) /\ WF_vars(ServerAnswers)

FairSpec == Spec /\ Fairness
-----------------------------------------------------------------------------
(* Properties                                                               *)

TypeOK ==
  /\ at \in Steps \cup {"idle", "connect", "destroyed"}
  /\ asked \in BOOLEAN /\ connected \in BOOLEAN
  /\ link \in {"none", "up", "lost"}
  /\ request \in Steps \cup {"none"}
  /\ replies \in Seq({"ok", "no", "garbled"})
  /\ server \in [last : Steps \cup {"new"}, to : SUBSET Mails]
  /\ abandoned \in Nat
  /\ mail \in 0..MaxMails
  /\ accepted \in Seq([mail : Mails, to : SUBSET Mails])
  /\ verdict \in [Mails -> {"none", "sent", "failed"}]

InHand == at \in Steps \cup {"connect"}
Unread == asked /\ replies # <<>>
Mine == [mail |-> mail, to |-> {mail}]

(* A command and its reply are never under way together, a reply is read    *)
(* before the next command is written, and all that can be waiting besides  *)
(* is the parting 421 of a server that has left.                            *)
OneAtATime ==
  /\ asked => at \in Steps
  /\ connected \/ at \in Steps => link # "none"
  /\ link = "none" => request = "none" /\ replies = <<>>
  /\ request # "none" => link = "up" /\ asked /\ request = at /\ replies = <<>>
  /\ link = "up" /\ ~asked => replies = <<>>
  /\ link = "up" /\ asked /\ request = "none" => Len(replies) = 1
  /\ link = "lost" /\ ~asked => replies \in {<<>>, <<"no">>}
  /\ link = "lost" /\ asked => Len(replies) <= 2 /\ (Len(replies) = 2 => replies[2] = "no")

(* The reply a step expects is the reply to that step.                      *)
InStep == Unread /\ Head(replies) = "ok" => server.last = at

(* Past MAIL the server's transaction is that of the current mail.          *)
OwnTransaction ==
  /\ link = "up" /\ request = "none" /\ Unread /\ Head(replies) = "ok" =>
       server.to = IF at \in {"rcpt", "data"} THEN {mail} ELSE {}
  /\ (~asked \/ request # "none") /\ link = "up" /\ at \in Transaction \ {"mail"} =>
       /\ After[server.last] = at
       /\ server.to = IF at = "rcpt" THEN {} ELSE {mail}
  /\ request = "none" /\ Unread /\ Head(replies) = "ok" /\ at = "body" =>
       accepted # <<>> /\ accepted[Len(accepted)] = Mine

(* Mails are accepted in order, each once and for its own address, the      *)
(* current one only with its body.                                          *)
AcceptedOnce ==
  /\ \A i \in 1..Len(accepted) :
       /\ accepted[i].to = {accepted[i].mail}
       /\ accepted[i].mail <= mail
       /\ \A j \in 1..(i - 1) : accepted[j].mail < accepted[i].mail
       /\ InHand /\ accepted[i].mail = mail => at = "body" /\ asked /\ request = "none"

(* Every mail taken up has one verdict, but for the one in hand.            *)
Concluded ==
  /\ InHand => mail > 0
  /\ \A m \in Mails : verdict[m] = "none" <=> m > mail \/ (InHand /\ m = mail)
  /\ \A m \in Mails : verdict[m] = "sent" => \E i \in 1..Len(accepted) : accepted[i].mail = m

(* A failed handshake abandons a socket, whose mail failed with it: never   *)
(* more than one for each mail.                                             *)
OneSocketPerMail ==
  abandoned <= mail - (IF InHand THEN 1 ELSE 0) + (IF at = "destroyed" THEN 1 ELSE 0)

(* Client and server never disagree about which mail and which step they    *)
(* are at, through refusals, partings and lost connections                  *)
(* (email_queue.cpp:146-268).                                               *)
SessionInv ==
  /\ TypeOK
  /\ OneAtATime
  /\ InStep
  /\ OwnTransaction
  /\ AcceptedOnce
  /\ Concluded
  /\ OneSocketPerMail

(* The worker gets what the queue's promises need: one verdict per mail,    *)
(* "sent" only for a mail that was accepted, once, for its own address      *)
(* (email_queue.cpp:66-74).                                                 *)
D == INSTANCE MailDelivery
Implements == D!Delivers

(* Every mail taken up gets its verdict, as long as the server answers or   *)
(* the connection ends.                                                     *)
Answered == D!Concludes

(* "Make sure the SMTP connection is usable" (email_queue.cpp:66): when a   *)
(* mail's first command is about to be written and the connection is up,    *)
(* the server has no other mail's transaction open.                         *)
UsableConnection ==
  at = "mail" /\ ~asked /\ link = "up" => server.last \in {"password", "body"}
=============================================================================
