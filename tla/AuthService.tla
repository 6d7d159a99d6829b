----------------------------- MODULE AuthService -----------------------------
(***************************************************************************)
(* AuthService (user_service/application/auth_service) with the user table *)
(* it reads and writes through MysqlUserRepository, the verification codes *)
(* it keeps in Redis, and the mail it sends through an EmailSender.        *)
(*                                                                         *)
(* Registration and login exist only as HTTP endpoints, and the HTTP       *)
(* server has one thread, which a handler blocks until it returns.         *)
(* Verification mails can also be asked for by any number of gRPC threads. *)
(* A handler is split at every call to the database, to Redis and to the   *)
(* email sender.                                                           *)
(*                                                                         *)
(* The caller cannot check the sender's answer, and the answer may be      *)
(* another mail's (SuccessMeansMailed fails of EmailQueue): a report of    *)
(* success may be false, and a mail reported as failed may be sent later.  *)
(***************************************************************************)
EXTENDS Naturals, FiniteSets

CONSTANTS
  HttpThreads,   (* threads that run HTTP handlers: ioc{1} makes it one      *)
  GrpcThreads,   (* threads that run gRPC handlers                           *)
  Emails,        (* addresses of the users                                   *)
  Passwords,
  OtherTypes,    (* what a gRPC request may name besides "register", "login" *)
  MaxCodes,      (* bound on codes generated or about to be                  *)
  MaxIds,        (* bound on user ids generated or about to be               *)
  Faults         (* whether the database and Redis may fail                  *)

Threads == HttpThreads \cup GrpcThreads
Codes == 1..MaxCodes
Ids == 1..MaxIds
None == 0             (* no code, no id; also a code nobody was sent         *)
NoUser == [id |-> None]

(* The REST handlers pass one of two purposes (rest_api_handler.cpp:61, 90);*)
(* the gRPC handler passes on whatever the request names                    *)
(* (user_service_impl.hpp:16).                                              *)
RestPurposes == {"register", "login"}
Purposes == RestPurposes \cup OtherTypes
PurposesOf(w) == IF w \in HttpThreads THEN RestPurposes ELSE Purposes

(* What the future says, and whether it is true.                            *)
Reports == {"sent", "misreported", "failed", "timeout"}

ASSUME AuthAssumption ==
  /\ IsFiniteSet(Threads) /\ HttpThreads \cap GrpcThreads = {}
  /\ MaxCodes \in Nat /\ MaxIds \in Nat
  /\ Faults \in BOOLEAN

VARIABLES
  users,      (* users table: email -> row; email is UNIQUE                  *)
  stored,     (* Redis: <<purpose, email>> -> code, None when unset          *)
  job,        (* the request each thread serves and how far it is            *)
  codes,      (* verification codes generated so far                         *)
  ids,        (* user ids generated so far                                   *)
  outbox,     (* mails not sent yet when their caller went on                *)
  mailbox,    (* history: <<email, code>> that reached a user                *)
  issued,     (* history: <<purpose, email, code, report>> of every mail     *)
  answers     (* history: the successful registrations and logins            *)

vars == <<users, stored, job, codes, ids, outbox, mailbox, issued, answers>>

Idle == [at |-> "idle"]
At(w, place) == job[w].at = place
Goto(w, place) == job' = [job EXCEPT ![w].at = place]
Finish(w) == job' = [job EXCEPT ![w] = Idle]

(* Mutant of Key: both purposes share a key.                                *)
KeyIgnoringPurpose(purpose, email) == <<"login", email>>

Key(purpose, email) == <<purpose, email>>

-----------------------------------------------------------------------------
(* sendAndSaveEmailVerificationCode                                         *)

AskForCode(w) ==
  /\ At(w, "idle")
  /\ codes + Cardinality({u \in Threads : At(u, "seek") \/ At(u, "send")}) < MaxCodes
  /\ \E e \in Emails, purpose \in PurposesOf(w) :
       job' = [job EXCEPT ![w] =
                [at |-> IF purpose = "register" THEN "seek" ELSE "send",
                 email |-> e, purpose |-> purpose, code |-> None]]
  /\ UNCHANGED <<users, stored, codes, ids, outbox, mailbox, issued, answers>>

(* findByEmail answers "no user" also when the query fails and when the row *)
(* does not fit its buffers.                                                *)
LookupFailures == IF Faults THEN BOOLEAN ELSE {FALSE}

Seek(w) ==
  /\ At(w, "seek")
  /\ \E failed \in LookupFailures :
       IF users[job[w].email] # NoUser /\ ~failed THEN Finish(w) ELSE Goto(w, "send")
  /\ UNCHANGED <<users, stored, codes, ids, outbox, mailbox, issued, answers>>

(* Mutant of SaveIf: the result of sending is ignored.                      *)
SaveEvenIfUnsent == {"sent", "misreported", "failed"}

(* What the caller takes for a success.                                     *)
SaveIf == {"sent", "misreported"}

(* The mail is sent before the answer, or is still in the queue after it.   *)
(* A success reported without the mail is another mail's; a failure may be  *)
(* this mail's, another's, or a full queue; a wait may last 30 seconds.     *)
Send(w) ==
  /\ At(w, "send")
  /\ codes' = codes + 1
  /\ \E report \in Reports :
       LET mail == <<job[w].email, codes + 1>> IN
       /\ issued' = issued \cup {<<job[w].purpose, job[w].email, codes + 1, report>>}
       /\ IF report \in SaveIf
          THEN job' = [job EXCEPT ![w].at = "save", ![w].code = codes + 1]
          ELSE Finish(w)
       /\ \/ /\ report \in {"sent", "failed"}
             /\ mailbox' = mailbox \cup {mail}
             /\ UNCHANGED outbox
          \/ /\ report # "sent"
             /\ outbox' = outbox \cup {mail}
             /\ UNCHANGED mailbox
  /\ UNCHANGED <<users, stored, ids, answers>>

(* SETEX: the last code saved under a key is the one that counts.           *)
Save(w) ==
  /\ At(w, "save")
  /\ stored' = [stored EXCEPT ![Key(job[w].purpose, job[w].email)] = job[w].code]
  /\ Finish(w)
  /\ UNCHANGED <<users, codes, ids, outbox, mailbox, issued, answers>>

(* No connection: the guard of the pool throws on a timeout, or the command *)
(* or the query fails, and the request is answered with an error.           *)
NoConnection(w) ==
  /\ Faults
  /\ ~At(w, "idle") /\ ~At(w, "send")
  /\ Finish(w)
  /\ UNCHANGED <<users, stored, codes, ids, outbox, mailbox, issued, answers>>

(* A mail whose caller went on without it is sent later, or never.          *)
DeliverLate(m) ==
  /\ m \in outbox
  /\ outbox' = outbox \ {m}
  /\ mailbox' \in {mailbox, mailbox \cup {m}}
  /\ UNCHANGED <<users, stored, job, codes, ids, issued, answers>>

Expire(key) ==
  /\ stored[key] # None
  /\ stored' = [stored EXCEPT ![key] = None]
  /\ UNCHANGED <<users, job, codes, ids, outbox, mailbox, issued, answers>>

-----------------------------------------------------------------------------
(* registerAndStore                                                         *)

(* Codes a user can type: one from any mailbox, or a wrong one; a code that *)
(* nobody was sent is not guessed.                                          *)
Typed == {c \in Codes : \E e \in Emails : <<e, c>> \in mailbox} \cup {None}

AskToRegister(w) ==
  /\ At(w, "idle") /\ w \in HttpThreads
  /\ ids + Cardinality({u \in HttpThreads : job[u].at \in {"check", "verify", "insert"}})
       < MaxIds
  /\ \E e \in Emails, p \in Passwords : \E c \in Typed :
       job' = [job EXCEPT ![w] =
                [at |-> "check", email |-> e, code |-> c, pwd |-> p, blind |-> FALSE]]
  /\ UNCHANGED <<users, stored, codes, ids, outbox, mailbox, issued, answers>>

(* Mutant of Refuses: an address in use is not refused.                     *)
RefusesNobody(found) == FALSE

(* "blind" records that the look-up failed.                                 *)
Refuses(found) == found

CheckUnregistered(w) ==
  /\ At(w, "check")
  /\ \E failed \in LookupFailures :
       IF Refuses(users[job[w].email] # NoUser /\ ~failed)
       THEN Finish(w)
       ELSE job' = [job EXCEPT ![w].at = "verify", ![w].blind = failed]
  /\ UNCHANGED <<users, stored, codes, ids, outbox, mailbox, issued, answers>>

Accepts(code, key) == code # None /\ stored[key] = code

VerifyCode(w) ==
  /\ At(w, "verify")
  /\ \/ /\ Accepts(job[w].code, Key("register", job[w].email))
        /\ Goto(w, "insert")
     \/ /\ ~Accepts(job[w].code, Key("register", job[w].email))
        /\ Finish(w)
  /\ UNCHANGED <<users, stored, codes, ids, outbox, mailbox, issued, answers>>

(* Mutant of Upsert: the row is replaced, id and all.                       *)
Replace(e, id, p, c) == [users EXCEPT ![e] = [id |-> id, pwd |-> p, code |-> c]]

(* INSERT ... ON DUPLICATE KEY UPDATE: a second row for the email updates   *)
(* the first one and keeps its id.                                          *)
Upsert(e, id, p, c) ==
  [users EXCEPT ![e] =
    [id |-> IF users[e] = NoUser THEN id ELSE users[e].id, pwd |-> p, code |-> c]]

Insert(w) ==
  /\ At(w, "insert")
  /\ ids' = ids + 1
  /\ LET j == job[w]
         Row == Upsert(j.email, ids + 1, j.pwd, j.code) IN
       \/ /\ users' = Row
          /\ answers' = answers \cup
               {[kind |-> "registered", email |-> j.email, pwd |-> j.pwd,
                 id |-> ids + 1, blind |-> j.blind]}
       \/ /\ Faults
          /\ users' \in {users, Row}
          /\ UNCHANGED answers
  /\ Finish(w)
  /\ UNCHANGED <<stored, codes, outbox, mailbox, issued>>

-----------------------------------------------------------------------------
(* loginEmailVeriCode and loginEmailPwd                                     *)

AskToLogIn(w) ==
  /\ At(w, "idle") /\ w \in HttpThreads
  /\ \E e \in Emails :
       \/ \E c \in Typed :
            job' = [job EXCEPT ![w] = [at |-> "verifyLogin", email |-> e, code |-> c]]
       \/ \E p \in Passwords :
            job' = [job EXCEPT ![w] = [at |-> "password", email |-> e, pwd |-> p]]
  /\ UNCHANGED <<users, stored, codes, ids, outbox, mailbox, issued, answers>>

VerifyLoginCode(w) ==
  /\ At(w, "verifyLogin")
  /\ \/ /\ Accepts(job[w].code, Key("login", job[w].email))
        /\ Goto(w, "lookup")
     \/ /\ ~Accepts(job[w].code, Key("login", job[w].email))
        /\ Finish(w)
  /\ UNCHANGED <<users, stored, codes, ids, outbox, mailbox, issued, answers>>

LoggedIn(e) ==
  answers \cup {[kind |-> "loggedIn", email |-> e, pwd |-> users[e].pwd,
                 id |-> users[e].id, blind |-> FALSE]}

(* The account is read after the code was accepted, or with the password.   *)
PasswordFits(w) == At(w, "password") => job[w].pwd = users[job[w].email].pwd

LookUp(w) ==
  /\ At(w, "lookup") \/ At(w, "password")
  /\ LET e == job[w].email
         found == users[e] # NoUser /\ PasswordFits(w) IN
       \/ found /\ answers' = LoggedIn(e)
       \/ ~found /\ UNCHANGED answers
  /\ Finish(w)
  /\ UNCHANGED <<users, stored, codes, ids, outbox, mailbox, issued>>

-----------------------------------------------------------------------------
Init ==
  /\ users = [e \in Emails |-> NoUser]
  /\ stored = [k \in Purposes \X Emails |-> None]
  /\ job = [w \in Threads |-> Idle]
  /\ codes = 0 /\ ids = 0
  /\ outbox = {} /\ mailbox = {} /\ issued = {} /\ answers = {}

Serve(w) ==
  \/ Seek(w) \/ Send(w) \/ Save(w)
  \/ CheckUnregistered(w) \/ VerifyCode(w) \/ Insert(w)
  \/ VerifyLoginCode(w) \/ LookUp(w) \/ NoConnection(w)

Next ==
  \/ \E w \in Threads : AskForCode(w) \/ AskToRegister(w) \/ AskToLogIn(w) \/ Serve(w)
  \/ \E m \in outbox : DeliverLate(m)
  \/ \E k \in Purposes \X Emails : Expire(k)

Spec == Init /\ [][Next]_vars
-----------------------------------------------------------------------------
Rows == [id : Ids, pwd : Passwords, code : Codes]

Jobs ==
  {Idle}
  \cup [at : {"seek", "send", "save"}, email : Emails, purpose : Purposes,
        code : Codes \cup {None}]
  \cup [at : {"check", "verify", "insert"}, email : Emails, code : Codes \cup {None},
        pwd : Passwords, blind : BOOLEAN]
  \cup [at : {"verifyLogin", "lookup"}, email : Emails, code : Codes \cup {None}]
  \cup [at : {"password"}, email : Emails, pwd : Passwords]

TypeOK ==
  /\ users \in [Emails -> Rows \cup {NoUser}]
  /\ stored \in [Purposes \X Emails -> Codes \cup {None}]
  /\ job \in [Threads -> Jobs]
  /\ codes \in 0..MaxCodes /\ ids \in 0..MaxIds
  /\ outbox \subseteq Emails \X Codes /\ mailbox \subseteq Emails \X Codes
  /\ issued \subseteq Purposes \X Emails \X Codes \X Reports
  /\ answers \subseteq [kind : {"registered", "loggedIn"}, email : Emails,
                        pwd : Passwords, id : Ids, blind : BOOLEAN]

(* A code in Redis was made for that purpose and address, and its mail was  *)
(* reported as sent in time: a timed-out or failed mail never leaves a      *)
(* usable code behind, whatever the order of concurrent requests.  The mail *)
(* has reached the address, unless the sender's report was false            *)
(* (auth_service.cpp:28-36).                                                *)
StoredWasReportedSent ==
  \A purpose \in Purposes, e \in Emails :
    LET c == stored[<<purpose, e>>] IN
      c # None => \/ <<purpose, e, c, "sent">> \in issued /\ <<e, c>> \in mailbox
                  \/ <<purpose, e, c, "misreported">> \in issued

(* Every account was opened with a code that had reached its own address    *)
(* and was made, and reported as sent, for the purpose of registering:      *)
(* neither a code for another purpose, REST's or any that a gRPC request    *)
(* names, nor one from another address opens an account                     *)
(* (auth_service.cpp:61, 90, 120-129; user_service_impl.hpp:16).            *)
AccountHasProof ==
  \A e \in Emails : users[e] # NoUser =>
    /\ \E report \in {"sent", "misreported"} :
         <<"register", e, users[e].code, report>> \in issued
    /\ <<e, users[e].code>> \in mailbox

(* An account is overwritten only by a registration whose look-up failed.   *)
(* Between a look-up that answered and the upsert no other registration     *)
(* gets in, because one thread serves all of them (auth_service.cpp:117,    *)
(* 165; main.cpp:47).                                                       *)
OverwriteOnlyIfBlind ==
  [][\A e \in Emails :
       users[e] # NoUser /\ users'[e] # users[e] =>
         \E w \in Threads : At(w, "insert") /\ job[w].email = e /\ job[w].blind]_vars

(* A token names the row of the account it was handed out for, for as long  *)
(* as the account exists, unless the look-up of the registration failed     *)
(* (auth_service.cpp:165-170, 191-193, 225-226).                            *)
SightedTokensNameAccounts ==
  \A a \in answers : ~a.blind => users[a.email].id = a.id

(* "return token, user struct" (auth_service.hpp:19): what a successful     *)
(* registration returns is the user that is in the table.                   *)
TokensNameAccounts == \A a \in answers : users[a.email].id = a.id
=============================================================================
