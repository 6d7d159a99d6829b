---------------------------- MODULE MailDelivery ----------------------------
(***************************************************************************)
(* What the email queue's worker is promised by ensureConnection() and     *)
(* sendEmail() (user_service/infrastructure/email_queue.cpp:66-74): mails  *)
(* are taken up one at a time; the server accepts each at most once, for   *)
(* the address it was written to, and only while it is the current one;    *)
(* then it gets one verdict, and the verdict "sent" only if it was         *)
(* accepted.  A mail that was accepted may be reported as failed.          *)
(***************************************************************************)
EXTENDS Naturals, Sequences

CONSTANT MaxMails    (* bound on the mails taken up                          *)

VARIABLES
  mail,        (* mails taken up so far; the last one is the current one     *)
  accepted,    (* what the server accepted: a mail and who gets it           *)
  verdict      (* what each mail's caller is told                            *)

delivery == <<mail, accepted, verdict>>

Mails == 1..MaxMails
Delivery(m) == [mail |-> m, to |-> {m}]
WasAccepted(m) == \E i \in 1..Len(accepted) : accepted[i] = Delivery(m)
InHand == mail \in Mails /\ verdict[mail] = "none"

Start ==
  /\ mail = 0
  /\ accepted = <<>>
  /\ verdict = [m \in Mails |-> "none"]

TakeUp ==
  /\ ~InHand
  /\ mail < MaxMails
  /\ mail' = mail + 1
  /\ UNCHANGED <<accepted, verdict>>

Accept ==
  /\ InHand
  /\ ~WasAccepted(mail)
  /\ accepted' = Append(accepted, Delivery(mail))
  /\ UNCHANGED <<mail, verdict>>

Tell(v) ==
  /\ InHand
  /\ v = "sent" => WasAccepted(mail)
  /\ verdict' = [verdict EXCEPT ![mail] = v]
  /\ UNCHANGED <<mail, accepted>>

Conclude == \E v \in {"sent", "failed"} : Tell(v)

Proceed == TakeUp \/ Accept \/ Conclude

Delivers == Start /\ [][Proceed]_delivery
Concludes == WF_delivery(Conclude)
=============================================================================
