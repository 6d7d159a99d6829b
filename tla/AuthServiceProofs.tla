-------------------------- MODULE AuthServiceProofs --------------------------
(***************************************************************************)
(* What AuthService guarantees for any number of threads, addresses and    *)
(* requests: usable codes were reported as sent, accounts were opened with *)
(* one that reached their address, and, because one thread serves all      *)
(* registrations and logins (main.cpp:47), an account is overwritten only  *)
(* when a look-up failed.                                                  *)
(***************************************************************************)
EXTENDS AuthService, TLAPS, FiniteSetTheorems

Mailing == [at : {"seek", "send", "save"}, email : Emails, purpose : Purposes,
            code : Codes \cup {None}]
Registering == [at : {"check", "verify", "insert"}, email : Emails, code : Codes \cup {None},
                pwd : Passwords, blind : BOOLEAN]
ByCode == [at : {"verifyLogin", "lookup"}, email : Emails, code : Codes \cup {None}]
ByPassword == [at : {"password"}, email : Emails, pwd : Passwords]

(* Requests that will still use up a code or an id.                         *)
Asking == {u \in Threads : At(u, "seek") \/ At(u, "send")}
Enrolling == {u \in HttpThreads : job[u].at \in {"check", "verify", "insert"}}

Bounded ==
  /\ codes + Cardinality(Asking) <= MaxCodes
  /\ ids + Cardinality(Enrolling) <= MaxIds

(* Only HTTP threads register and log in.                                   *)
HttpOnly ==
  \A w \in Threads :
    job[w].at \in {"check", "verify", "insert", "verifyLogin", "lookup", "password"} =>
      w \in HttpThreads

(* What makes a code good enough to be stored.                              *)
Backed(made, mailed, purpose, e, c) ==
  \/ <<purpose, e, c, "sent">> \in made /\ <<e, c>> \in mailed
  \/ <<purpose, e, c, "misreported">> \in made

(* What a thread is about to store it has proof for, and what a user typed  *)
(* reached some address.                                                    *)
Proven ==
  \A w \in Threads :
    /\ job[w].at = "save" =>
         job[w].code # None /\ Backed(issued, mailbox, job[w].purpose, job[w].email, job[w].code)
    /\ job[w].at \in {"check", "verify"} => job[w].code \in Typed
    /\ job[w].at = "insert" =>
         /\ job[w].code # None
         /\ <<job[w].email, job[w].code>> \in mailbox
         /\ \E report \in {"sent", "misreported"} :
              <<"register", job[w].email, job[w].code, report>> \in issued

(* A code is made once, for one address, and only what was made is mailed.  *)
OneAddress ==
  /\ \A m \in issued : m[3] \in Codes /\ m[3] <= codes
  /\ \A m, n \in issued : m[3] = n[3] => m[2] = n[2]
  /\ \A e \in Emails, c \in Codes :
       <<e, c>> \in mailbox \cup outbox => \E m \in issued : m[2] = e /\ m[3] = c

IndInv ==
  TypeOK /\ Bounded /\ HttpOnly /\ Proven /\ OneAddress
    /\ StoredWasReportedSent /\ AccountHasProof

-----------------------------------------------------------------------------
LEMMA JobFacts ==
  ASSUME NEW j \in Jobs
  PROVE  /\ j.at \in {"seek", "send", "save"} => j \in Mailing
         /\ j.at \in {"check", "verify", "insert"} => j \in Registering
         /\ j.at \in {"verifyLogin", "lookup"} => j \in ByCode
         /\ j.at = "password" => j \in ByPassword
         /\ j.at \in {"idle", "seek", "send", "save", "check", "verify", "insert",
                      "verifyLogin", "lookup", "password"}
BY DEF Jobs, Idle, Mailing, Registering, ByCode, ByPassword

LEMMA JobMoves ==
  /\ Idle \in Jobs
  /\ Mailing \subseteq Jobs /\ Registering \subseteq Jobs /\ ByCode \subseteq Jobs
  /\ ByPassword \subseteq Jobs
  /\ \A j \in Mailing : [j EXCEPT !.at = "send"] \in Mailing
  /\ \A j \in Mailing, c \in Codes : [j EXCEPT !.at = "save", !.code = c] \in Mailing
  /\ \A j \in Registering, b \in BOOLEAN : [j EXCEPT !.at = "verify", !.blind = b] \in Registering
  /\ \A j \in Registering : [j EXCEPT !.at = "insert"] \in Registering
  /\ \A j \in ByCode : [j EXCEPT !.at = "lookup"] \in ByCode
BY DEF Jobs, Mailing, Registering, ByCode, ByPassword

LEMMA RowFacts ==
  ASSUME NEW u \in Rows \cup {NoUser}
  PROVE  /\ u = NoUser <=> u.id = None
         /\ u # NoUser => u \in Rows
         /\ \A r \in Rows : r # NoUser
BY DEF Rows, NoUser, None, Ids

(* A step of one thread replaces its job; the others keep theirs.           *)
LEMMA JobStep ==
  ASSUME TypeOK, NEW w \in Threads
  PROVE  /\ AskForCode(w) => job' = [job EXCEPT ![w] = job'[w]] /\ job'[w] \in Mailing
                               /\ job'[w].at \in {"seek", "send"}
         /\ AskToRegister(w) => job' = [job EXCEPT ![w] = job'[w]] /\ job'[w] \in Registering
                               /\ job'[w].at = "check" /\ job'[w].code \in Typed
         /\ AskToLogIn(w) => job' = [job EXCEPT ![w] = job'[w]] /\ job'[w] \in ByCode \cup ByPassword
                               /\ job'[w].at # "lookup"
<1>0. None \in Codes \cup {None} /\ Typed \subseteq Codes \cup {None}
  BY DEF Typed
<1>p. PurposesOf(w) \subseteq Purposes
  BY DEF PurposesOf, Purposes
<1>1. AskForCode(w) => job' = [job EXCEPT ![w] = job'[w]] /\ job'[w] \in Mailing
                        /\ job'[w].at \in {"seek", "send"}
  BY <1>0, <1>p DEF TypeOK, AskForCode, Mailing
<1>2. AskToRegister(w) => job' = [job EXCEPT ![w] = job'[w]] /\ job'[w] \in Registering
                           /\ job'[w].at = "check" /\ job'[w].code \in Typed
  BY <1>0 DEF TypeOK, AskToRegister, Registering
<1>3. AskToLogIn(w) => job' = [job EXCEPT ![w] = job'[w]] /\ job'[w] \in ByCode \cup ByPassword
                        /\ job'[w].at # "lookup"
  BY <1>0 DEF TypeOK, AskToLogIn, ByCode, ByPassword
<1> QED
  BY <1>1, <1>2, <1>3

LEMMA ServeStep ==
  ASSUME TypeOK, NEW w \in Threads
  PROVE  /\ Seek(w) => \/ Finish(w)
                       \/ Goto(w, "send") /\ job[w] \in Mailing
         /\ Send(w) => /\ job[w] \in Mailing /\ job[w].at = "send" /\ codes' = codes + 1
                       /\ \/ Finish(w)
                          \/ job' = [job EXCEPT ![w].at = "save", ![w].code = codes + 1]
         /\ CheckUnregistered(w) =>
              \/ Finish(w)
              \/ /\ job[w] \in Registering
                 /\ \E b \in BOOLEAN : job' = [job EXCEPT ![w].at = "verify", ![w].blind = b]
         /\ VerifyCode(w) => \/ Finish(w)
                             \/ Goto(w, "insert") /\ job[w] \in Registering
         /\ VerifyLoginCode(w) => \/ Finish(w)
                                  \/ Goto(w, "lookup") /\ job[w] \in ByCode
         /\ Save(w) \/ Insert(w) \/ LookUp(w) \/ NoConnection(w) => Finish(w)
<1>0. job[w] \in Jobs
  BY DEF TypeOK
<1>1. LookupFailures \subseteq BOOLEAN
  BY DEF LookupFailures
<1>2. Seek(w) => Finish(w) \/ (Goto(w, "send") /\ job[w] \in Mailing)
  BY <1>0, JobFacts DEF Seek, At
<1>3. Send(w) => /\ job[w] \in Mailing /\ job[w].at = "send" /\ codes' = codes + 1
                 /\ \/ Finish(w)
                    \/ job' = [job EXCEPT ![w].at = "save", ![w].code = codes + 1]
  BY <1>0, JobFacts DEF Send, At
<1>4. CheckUnregistered(w) =>
        \/ Finish(w)
        \/ /\ job[w] \in Registering
           /\ \E b \in BOOLEAN : job' = [job EXCEPT ![w].at = "verify", ![w].blind = b]
  BY <1>0, <1>1, JobFacts DEF CheckUnregistered, At
<1>5. VerifyCode(w) => Finish(w) \/ (Goto(w, "insert") /\ job[w] \in Registering)
  BY <1>0, JobFacts DEF VerifyCode, At
<1>6. VerifyLoginCode(w) => Finish(w) \/ (Goto(w, "lookup") /\ job[w] \in ByCode)
  BY <1>0, JobFacts DEF VerifyLoginCode, At
<1>7. Save(w) \/ Insert(w) \/ LookUp(w) \/ NoConnection(w) => Finish(w)
  BY DEF Save, Insert, LookUp, NoConnection
<1> QED
  BY <1>2, <1>3, <1>4, <1>5, <1>6, <1>7

LEMMA AskingFinite ==
  /\ IsFiniteSet(Asking) /\ IsFiniteSet(Enrolling)
  /\ Cardinality(Asking) \in Nat /\ Cardinality(Enrolling) \in Nat
<1>1. IsFiniteSet(HttpThreads)
  BY AuthAssumption, FS_Subset DEF Threads
<1>2. IsFiniteSet(Asking)
  BY AuthAssumption, FS_Subset DEF Asking
<1>3. IsFiniteSet(Enrolling)
  BY <1>1, FS_Subset DEF Enrolling
<1> QED
  BY <1>2, <1>3, FS_CardinalityType

(* A code that is about to be generated has room.                           *)
LEMMA Room ==
  ASSUME TypeOK, Bounded
  PROVE  /\ \A w \in Threads : At(w, "send") => codes + 1 \in Codes
         /\ \A w \in HttpThreads : At(w, "insert") => ids + 1 \in Ids
<1>1. ASSUME NEW w \in Threads, At(w, "send") PROVE codes + 1 \in Codes
  <2>1. Asking # {}
    BY <1>1 DEF Asking
  <2>2. Cardinality(Asking) > 0
    BY <2>1, AskingFinite, FS_EmptySet
  <2> QED
    BY <2>2, AskingFinite, AuthAssumption DEF TypeOK, Bounded, Codes
<1>2. ASSUME NEW w \in HttpThreads, At(w, "insert") PROVE ids + 1 \in Ids
  <2>1. Enrolling # {}
    BY <1>2 DEF Enrolling, At
  <2>2. Cardinality(Enrolling) > 0
    BY <2>1, AskingFinite, FS_EmptySet
  <2> QED
    BY <2>2, AskingFinite, AuthAssumption DEF TypeOK, Bounded, Ids
<1> QED
  BY <1>1, <1>2

LEMMA JobTypeStep == TypeOK /\ Bounded /\ [Next]_vars => job' \in [Threads -> Jobs]
<1> SUFFICES ASSUME TypeOK, Bounded, [Next]_vars PROVE job' \in [Threads -> Jobs]
  OBVIOUS
<1>0. job \in [Threads -> Jobs]
  BY DEF TypeOK
<1>1. ASSUME NEW w \in Threads, AskForCode(w) \/ AskToRegister(w) \/ AskToLogIn(w)
      PROVE  job' \in [Threads -> Jobs]
  <2>1. job' = [job EXCEPT ![w] = job'[w]] /\ job'[w] \in Jobs
    BY <1>1, JobStep, JobMoves
  <2> QED
    BY <1>0, <2>1
<1>2. ASSUME NEW w \in Threads, Finish(w) PROVE job' \in [Threads -> Jobs]
  BY <1>0, <1>2, JobMoves DEF Finish
<1>3. ASSUME NEW w \in Threads, Serve(w), ~Finish(w) PROVE job' \in [Threads -> Jobs]
  <2>1. CASE Goto(w, "send") /\ job[w] \in Mailing
    BY <1>0, <2>1, JobMoves DEF Goto
  <2>2. CASE Send(w) /\ job[w] \in Mailing /\ job' = [job EXCEPT ![w].at = "save", ![w].code = codes + 1]
    <3>1. codes + 1 \in Codes
      BY <2>2, Room DEF Send
    <3>2. [job[w] EXCEPT !.at = "save", !.code = codes + 1] \in Jobs
      BY <2>2, <3>1, JobMoves
    <3>3. job' = [job EXCEPT ![w] = [job[w] EXCEPT !.at = "save", !.code = codes + 1]]
      BY <1>0, <2>2 DEF Mailing
    <3> QED
      BY <1>0, <3>2, <3>3
  <2>3. CASE /\ job[w] \in Registering
             /\ \E b \in BOOLEAN : job' = [job EXCEPT ![w].at = "verify", ![w].blind = b]
    <3>1. PICK b \in BOOLEAN : job' = [job EXCEPT ![w].at = "verify", ![w].blind = b]
      BY <2>3
    <3>2. [job[w] EXCEPT !.at = "verify", !.blind = b] \in Jobs
      BY <2>3, JobMoves
    <3>3. job' = [job EXCEPT ![w] = [job[w] EXCEPT !.at = "verify", !.blind = b]]
      BY <1>0, <2>3, <3>1 DEF Registering
    <3> QED
      BY <1>0, <3>2, <3>3
  <2>4. CASE Goto(w, "insert") /\ job[w] \in Registering
    BY <1>0, <2>4, JobMoves DEF Goto
  <2>5. CASE Goto(w, "lookup") /\ job[w] \in ByCode
    BY <1>0, <2>5, JobMoves DEF Goto
  <2> QED
    BY <1>3, <2>1, <2>2, <2>3, <2>4, <2>5, ServeStep DEF Serve
<1>4. ASSUME UNCHANGED vars \/ (\E m \in outbox : DeliverLate(m))
              \/ (\E k \in Purposes \X Emails : Expire(k))
      PROVE  job' \in [Threads -> Jobs]
  BY <1>0, <1>4 DEF vars, DeliverLate, Expire
<1> QED
  BY <1>1, <1>2, <1>3, <1>4 DEF Next

-----------------------------------------------------------------------------
LEMMA InitIndInv == Init => IndInv
<1> SUFFICES ASSUME Init PROVE IndInv
  OBVIOUS
<1> USE DEF Init
<1>1. TypeOK
  <2>1. users \in [Emails -> Rows \cup {NoUser}]
    OBVIOUS
  <2>2. stored \in [Purposes \X Emails -> Codes \cup {None}]
    OBVIOUS
  <2>3. job \in [Threads -> Jobs]
    BY JobMoves
  <2>4. codes \in 0..MaxCodes /\ ids \in 0..MaxIds
    BY AuthAssumption
  <2> QED
    BY <2>1, <2>2, <2>3, <2>4 DEF TypeOK
<1>2. Asking = {} /\ Enrolling = {}
  BY DEF Asking, Enrolling, At, Idle, Threads
<1>3. Bounded
  BY <1>2, FS_EmptySet, AuthAssumption DEF Bounded
<1>4. HttpOnly /\ Proven
  BY DEF HttpOnly, Proven, Idle
<1>5. OneAddress /\ StoredWasReportedSent /\ AccountHasProof
  BY DEF OneAddress, StoredWasReportedSent, AccountHasProof
<1> QED
  BY <1>1, <1>3, <1>4, <1>5 DEF IndInv

(* The row a registration writes.                                           *)
LEMMA InsertFacts ==
  ASSUME IndInv, NEW w \in Threads, Insert(w)
  PROVE  LET e == job[w].email IN
         /\ w \in HttpThreads /\ job[w] \in Registering /\ e \in Emails
         /\ job[w].code \in Codes /\ job[w].pwd \in Passwords
         /\ ids + 1 \in Ids /\ ids' = ids + 1
         /\ \A d \in Emails : d # e => users'[d] = users[d]
         /\ users' \in [Emails -> Rows \cup {NoUser}]
         /\ \/ users' = users /\ answers' = answers
            \/ /\ users'[e] \in Rows /\ users'[e].code = job[w].code
               /\ users'[e].id = IF users[e] = NoUser THEN ids + 1 ELSE users[e].id
               /\ \/ answers' = answers
                  \/ answers' = answers \cup
                       {[kind |-> "registered", email |-> e, pwd |-> job[w].pwd,
                         id |-> ids + 1, blind |-> job[w].blind]}
<1> DEFINE e == job[w].email
           Row == Upsert(e, ids + 1, job[w].pwd, job[w].code)
           r == [id |-> IF users[e] = NoUser THEN ids + 1 ELSE users[e].id,
                 pwd |-> job[w].pwd, code |-> job[w].code]
<1>0. TypeOK /\ Bounded /\ At(w, "insert") /\ users \in [Emails -> Rows \cup {NoUser}]
  BY DEF IndInv, TypeOK, Insert
<1>1. w \in HttpThreads /\ job[w] \in Registering /\ e \in Emails
      /\ job[w].code \in Codes /\ job[w].pwd \in Passwords
  <2>1. job[w] \in Registering
    BY <1>0, JobFacts DEF TypeOK, At
  <2> QED
    BY <1>0, <2>1 DEF IndInv, HttpOnly, Proven, At, Registering
<1>2. ids + 1 \in Ids
  BY <1>0, <1>1, Room
<1>3. r \in Rows
  BY <1>0, <1>1, <1>2, RowFacts DEF Rows
<1>4. Row = [users EXCEPT ![e] = r]
  BY DEF Upsert
<1>5. /\ Row \in [Emails -> Rows \cup {NoUser}] /\ Row[e] = r
      /\ \A d \in Emails : d # e => Row[d] = users[d]
  BY <1>0, <1>1, <1>3, <1>4
<1>6. ids' = ids + 1
  BY DEF Insert
<1>7. \/ users' = users /\ answers' = answers
      \/ users' = Row /\ \/ answers' = answers
                         \/ answers' = answers \cup
                              {[kind |-> "registered", email |-> e, pwd |-> job[w].pwd,
                                id |-> ids + 1, blind |-> job[w].blind]}
  BY DEF Insert
<1>8. r.code = job[w].code /\ r.id = IF users[e] = NoUser THEN ids + 1 ELSE users[e].id
  OBVIOUS
<1>9. CASE users' = users /\ answers' = answers
  BY <1>0, <1>1, <1>2, <1>6, <1>9
<1>10. CASE users' = Row
  <2> HIDE DEF Row, r
  <2>1. users'[e] = r
    BY <1>5, <1>10
  <2>2. users'[e] \in Rows /\ users'[e].code = job[w].code
        /\ users'[e].id = IF users[e] = NoUser THEN ids + 1 ELSE users[e].id
    BY <1>3, <1>8, <2>1
  <2> QED
    BY <1>1, <1>2, <1>5, <1>6, <1>7, <1>9, <1>10, <2>2
<1> QED
  BY <1>7, <1>9, <1>10

LEMMA LookUpFacts ==
  ASSUME IndInv, NEW w \in Threads, LookUp(w)
  PROVE  LET e == job[w].email IN
         /\ e \in Emails
         /\ \/ answers' = answers
            \/ users[e] \in Rows /\ answers' = LoggedIn(e)
<1>1. TypeOK /\ job[w].at \in {"lookup", "password"}
  BY DEF IndInv, LookUp, At
<1>2. job[w].email \in Emails
  BY <1>1, JobFacts DEF TypeOK, ByCode, ByPassword
<1> QED
  BY <1>1, <1>2 DEF LookUp, TypeOK

LEMMA TypeStep == IndInv /\ [Next]_vars => TypeOK'
<1> SUFFICES ASSUME IndInv, [Next]_vars PROVE TypeOK'
  OBVIOUS
<1>0. TypeOK /\ Bounded /\ job' \in [Threads -> Jobs]
  BY JobTypeStep DEF IndInv
<1>1. ASSUME NEW w \in Threads,
             AskForCode(w) \/ AskToRegister(w) \/ AskToLogIn(w) \/ Seek(w)
               \/ CheckUnregistered(w) \/ VerifyCode(w) \/ VerifyLoginCode(w) \/ NoConnection(w)
      PROVE  TypeOK'
  BY <1>0, <1>1
     DEF TypeOK, AskForCode, AskToRegister, AskToLogIn, Seek, CheckUnregistered, VerifyCode,
         VerifyLoginCode, NoConnection
<1>2. ASSUME NEW w \in Threads, Send(w) PROVE TypeOK'
  <2>1. codes + 1 \in Codes /\ job[w].email \in Emails /\ job[w].purpose \in Purposes
    BY <1>0, <1>2, Room, ServeStep DEF Send, Mailing
  <2>2. codes' \in 0..MaxCodes
    BY <1>2, <2>1 DEF Send, Codes
  <2>3. issued' \subseteq Purposes \X Emails \X Codes \X Reports
    BY <1>0, <1>2, <2>1 DEF Send, TypeOK
  <2>4. outbox' \subseteq Emails \X Codes /\ mailbox' \subseteq Emails \X Codes
    BY <1>0, <1>2, <2>1 DEF Send, TypeOK
  <2> QED
    BY <1>0, <1>2, <2>2, <2>3, <2>4 DEF Send, TypeOK
<1>3. ASSUME NEW w \in Threads, Save(w) PROVE TypeOK'
  <2>1. job[w].code \in Codes \cup {None}
    BY <1>0, <1>3, JobFacts DEF TypeOK, Save, At, Mailing
  <2>2. stored' \in [Purposes \X Emails -> Codes \cup {None}]
    BY <1>0, <1>3, <2>1 DEF TypeOK, Save
  <2> QED
    BY <1>0, <1>3, <2>2 DEF Save, TypeOK
<1>4. ASSUME NEW w \in Threads, Insert(w) PROVE TypeOK'
  <2>1. ids' \in 0..MaxIds /\ users' \in [Emails -> Rows \cup {NoUser}]
    BY <1>4, InsertFacts DEF Ids
  <2>2. answers' \subseteq [kind : {"registered", "loggedIn"}, email : Emails,
                            pwd : Passwords, id : Ids, blind : BOOLEAN]
    <3>1. job[w].blind \in BOOLEAN
      BY <1>4, InsertFacts DEF Registering
    <3> QED
      BY <1>0, <1>4, <3>1, InsertFacts DEF TypeOK
  <2> QED
    BY <1>0, <1>4, <2>1, <2>2 DEF Insert, TypeOK
<1>5. ASSUME NEW w \in Threads, LookUp(w) PROVE TypeOK'
  <2>1. answers' \subseteq [kind : {"registered", "loggedIn"}, email : Emails,
                            pwd : Passwords, id : Ids, blind : BOOLEAN]
    <3>1. ASSUME users[job[w].email] \in Rows, job[w].email \in Emails
          PROVE  [kind |-> "loggedIn", email |-> job[w].email, pwd |-> users[job[w].email].pwd,
                  id |-> users[job[w].email].id, blind |-> FALSE]
                   \in [kind : {"registered", "loggedIn"}, email : Emails,
                       pwd : Passwords, id : Ids, blind : BOOLEAN]
      BY <3>1 DEF Rows
    <3> QED
      BY <1>0, <1>5, <3>1, LookUpFacts DEF TypeOK, LoggedIn
  <2> QED
    BY <1>0, <1>5, <2>1 DEF LookUp, TypeOK
<1>6. ASSUME NEW m \in outbox, DeliverLate(m) PROVE TypeOK'
  BY <1>0, <1>6 DEF DeliverLate, TypeOK
<1>7. ASSUME NEW k \in Purposes \X Emails, Expire(k) PROVE TypeOK'
  BY <1>0, <1>7 DEF Expire, TypeOK
<1>8. CASE UNCHANGED vars
  BY <1>0, <1>8 DEF vars, TypeOK
<1> QED
  BY <1>1, <1>2, <1>3, <1>4, <1>5, <1>6, <1>7, <1>8 DEF Next, Serve

(* All that a step can do to a thread's job.                                *)
Asked(v) ==
  \/ AskForCode(v) /\ job'[v] \in Mailing /\ job'[v].at \in {"seek", "send"}
  \/ AskToRegister(v) /\ job'[v] \in Registering /\ job'[v].at = "check" /\ job'[v].code \in Typed
  \/ AskToLogIn(v) /\ job'[v].at \in {"verifyLogin", "password"}

Advanced(v) ==
  \/ /\ job[v].at = "seek" /\ job'[v].at = "send"
  \/ /\ Send(v) /\ job[v].at = "send" /\ codes + 1 \in Codes
     /\ job'[v] = [job[v] EXCEPT !.at = "save", !.code = codes + 1]
  \/ /\ CheckUnregistered(v) /\ job[v].at = "check"
     /\ \E b \in BOOLEAN :
          /\ job'[v] = [job[v] EXCEPT !.at = "verify", !.blind = b]
          /\ b \/ users[job[v].email] = NoUser
  \/ /\ job[v].at = "verify" /\ job[v] \in Registering
     /\ job'[v] = [job[v] EXCEPT !.at = "insert"]
     /\ Accepts(job[v].code, Key("register", job[v].email))
     /\ UNCHANGED <<users, answers>>
  \/ /\ job[v].at = "verifyLogin" /\ job'[v].at = "lookup"

LEMMA JobChange ==
  ASSUME TypeOK, Bounded, [Next]_vars, NEW v \in Threads
  PROVE  job'[v] = job[v] \/ job'[v] = Idle \/ Asked(v) \/ Advanced(v)
<1>0. job \in [Threads -> Jobs] /\ job' \in [Threads -> Jobs]
  BY JobTypeStep DEF TypeOK
<1>1. ASSUME NEW w \in Threads, w # v, AskForCode(w) \/ AskToRegister(w) \/ AskToLogIn(w) \/ Serve(w)
      PROVE  job'[v] = job[v]
  <2>1. CASE AskForCode(w) \/ AskToRegister(w) \/ AskToLogIn(w)
    BY <1>0, <1>1, <2>1 DEF AskForCode, AskToRegister, AskToLogIn
  <2>2. CASE Serve(w)
    <3>1. \/ Finish(w) \/ Goto(w, "send") \/ Goto(w, "insert") \/ Goto(w, "lookup")
          \/ job' = [job EXCEPT ![w].at = "save", ![w].code = codes + 1]
          \/ \E b \in BOOLEAN : job' = [job EXCEPT ![w].at = "verify", ![w].blind = b]
      BY <2>2, ServeStep DEF Serve
    <3>2. CASE Finish(w)
      BY <1>0, <1>1, <3>2 DEF Finish
    <3>3. CASE Goto(w, "send") \/ Goto(w, "insert") \/ Goto(w, "lookup")
      BY <1>0, <1>1, <3>3 DEF Goto
    <3>4. CASE job' = [job EXCEPT ![w].at = "save", ![w].code = codes + 1]
      BY <1>0, <1>1, <3>4
    <3>5. CASE \E b \in BOOLEAN : job' = [job EXCEPT ![w].at = "verify", ![w].blind = b]
      BY <1>0, <1>1, <3>5
    <3> QED
      BY <3>1, <3>2, <3>3, <3>4, <3>5
  <2> QED
    BY <1>1, <2>1, <2>2
<1>2. CASE AskForCode(v) \/ AskToRegister(v)
  BY <1>2, JobStep DEF Asked
<1>3. CASE AskToLogIn(v)
  BY <1>0, <1>3, JobStep DEF Asked, ByCode, ByPassword
<1>4. CASE Serve(v)
  <2>1. CASE Finish(v)
    BY <1>0, <2>1 DEF Finish
  <2> SUFFICES ASSUME ~Finish(v) PROVE Advanced(v)
    BY <2>1
  <2>2. CASE Seek(v)
    <3>1. job[v].at = "seek" /\ Goto(v, "send") /\ job[v] \in Mailing
      BY <2>2, ServeStep DEF Seek, At
    <3> QED
      BY <1>0, <3>1 DEF Goto, Mailing, Advanced
  <2>3. CASE Send(v)
    <3>1. /\ job[v] \in Mailing /\ job[v].at = "send"
          /\ job' = [job EXCEPT ![v].at = "save", ![v].code = codes + 1]
      BY <2>3, ServeStep
    <3>2. codes + 1 \in Codes
      BY <3>1, Room DEF At
    <3>3. job'[v] = [job[v] EXCEPT !.at = "save", !.code = codes + 1]
      BY <1>0, <3>1 DEF Mailing
    <3> QED
      BY <2>3, <3>1, <3>2, <3>3 DEF Advanced
  <2>4. CASE CheckUnregistered(v)
    <3>1. PICK b \in LookupFailures :
            ~Refuses(users[job[v].email] # NoUser /\ ~b) /\ job' = [job EXCEPT ![v].at = "verify", ![v].blind = b]
      BY <2>4 DEF CheckUnregistered
    <3>2. b \in BOOLEAN /\ (b \/ users[job[v].email] = NoUser)
      BY <3>1 DEF LookupFailures, Refuses
    <3>3. job[v].at = "check" /\ job[v] \in Registering
      BY <1>0, <2>4, JobFacts DEF CheckUnregistered, At
    <3>4. job'[v] = [job[v] EXCEPT !.at = "verify", !.blind = b]
      BY <1>0, <3>1, <3>3 DEF Registering
    <3> QED
      BY <2>4, <3>2, <3>3, <3>4 DEF Advanced
  <2>5. CASE VerifyCode(v)
    <3>1. /\ job[v].at = "verify" /\ job[v] \in Registering /\ Goto(v, "insert")
          /\ Accepts(job[v].code, Key("register", job[v].email)) /\ UNCHANGED <<users, answers>>
      BY <2>5, ServeStep DEF VerifyCode, At
    <3> QED
      BY <1>0, <3>1 DEF Goto, Registering, Advanced
  <2>6. CASE VerifyLoginCode(v)
    <3>1. job[v].at = "verifyLogin" /\ Goto(v, "lookup") /\ job[v] \in ByCode
      BY <2>6, ServeStep DEF VerifyLoginCode, At
    <3> QED
      BY <1>0, <3>1 DEF Goto, ByCode, Advanced
  <2> QED
    BY <1>4, <2>2, <2>3, <2>4, <2>5, <2>6, ServeStep DEF Serve
<1>5. CASE UNCHANGED vars \/ (\E m \in outbox : DeliverLate(m)) \/ (\E k \in Purposes \X Emails : Expire(k))
  BY <1>5 DEF vars, DeliverLate, Expire
<1> QED
  BY <1>1, <1>2, <1>3, <1>4, <1>5 DEF Next

(* What was mailed and what was issued is never forgotten.                  *)
LEMMA HistoryGrows ==
  ASSUME [Next]_vars
  PROVE  mailbox \subseteq mailbox' /\ issued \subseteq issued'
BY DEF Next, AskForCode, AskToRegister, AskToLogIn, Serve, Seek, Send, Save, CheckUnregistered,
       VerifyCode, Insert, VerifyLoginCode, LookUp, NoConnection, DeliverLate, Expire, vars

LEMMA HttpOnlyStep == IndInv /\ [Next]_vars => HttpOnly'
<1> SUFFICES ASSUME IndInv, [Next]_vars, NEW v \in Threads,
                    job'[v].at \in {"check", "verify", "insert", "verifyLogin", "lookup", "password"}
             PROVE  v \in HttpThreads
  BY DEF HttpOnly
<1>1. TypeOK /\ Bounded /\ HttpOnly /\ job[v] \in Jobs
  BY DEF IndInv, TypeOK
<1>2. job'[v] = job[v] \/ Asked(v) \/ Advanced(v)
  BY <1>1, JobChange DEF Idle
<1>3. CASE Asked(v)
  BY <1>3 DEF Asked, AskToRegister, AskToLogIn
<1>4. CASE Advanced(v)
  <2>1. job[v].at = "send" => job'[v].at = "save"
    BY <1>1, <1>4, JobFacts DEF Advanced, Mailing
  <2> QED
    BY <1>1, <1>4, <2>1 DEF Advanced, HttpOnly
<1> QED
  BY <1>1, <1>2, <1>3, <1>4 DEF HttpOnly

LEMMA TypedGrows ==
  ASSUME [Next]_vars
  PROVE  Typed \subseteq Typed'
BY HistoryGrows DEF Typed

LEMMA SendFacts ==
  ASSUME IndInv, NEW w \in Threads, Send(w)
  PROVE  /\ job[w].email \in Emails /\ job[w].purpose \in Purposes
         /\ codes' = codes + 1 /\ codes + 1 \in Codes
         /\ \E report \in Reports :
              /\ issued' = issued \cup {<<job[w].purpose, job[w].email, codes + 1, report>>}
              /\ report \notin SaveIf => Finish(w)
              /\ report = "sent" => <<job[w].email, codes + 1>> \in mailbox'
         /\ mailbox' \subseteq mailbox \cup {<<job[w].email, codes + 1>>}
         /\ outbox' \subseteq outbox \cup {<<job[w].email, codes + 1>>}
<1>1. job[w] \in Mailing /\ codes + 1 \in Codes /\ codes' = codes + 1
  BY ServeStep, Room DEF IndInv, Send
<1>2. job[w].email \in Emails /\ job[w].purpose \in Purposes
  BY <1>1 DEF Mailing
<1> QED
  BY <1>1, <1>2 DEF Send

LEMMA OneAddressStep == IndInv /\ [Next]_vars => OneAddress'
<1> SUFFICES ASSUME IndInv, [Next]_vars PROVE OneAddress'
  OBVIOUS
<1>0. OneAddress /\ TypeOK /\ codes \in Nat
  BY AuthAssumption DEF IndInv, TypeOK
<1>1. ASSUME NEW w \in Threads, Send(w) PROVE OneAddress'
  <2>1. PICK report \in Reports :
          issued' = issued \cup {<<job[w].purpose, job[w].email, codes + 1, report>>}
    BY <1>1, SendFacts
  <2> DEFINE new == <<job[w].purpose, job[w].email, codes + 1, report>>
  <2>2. codes' = codes + 1 /\ codes + 1 \in Codes
    BY <1>1, SendFacts
  <2>3. new[2] = job[w].email /\ new[3] = codes + 1
    OBVIOUS
  <2>4. \A m \in issued : m[3] \in Codes /\ m[3] <= codes
    BY <1>0 DEF OneAddress
  <2> HIDE DEF new
  <2>5. \A m \in issued' : m[3] \in Codes /\ m[3] <= codes'
    <3> SUFFICES ASSUME NEW m \in issued' PROVE m[3] \in Codes /\ m[3] <= codes'
      OBVIOUS
    <3>1. CASE m \in issued
      BY <1>0, <2>2, <2>4, <3>1 DEF Codes
    <3>2. CASE m = new
      BY <1>0, <2>2, <2>3, <3>2
    <3> QED
      BY <2>1, <3>1, <3>2 DEF new
  <2>6. \A m \in issued : m[3] # new[3]
    BY <1>0, <2>3, <2>4 DEF Codes
  <2>7. \A m, n \in issued' : m[3] = n[3] => m[2] = n[2]
    BY <1>0, <2>1, <2>6 DEF OneAddress, new
  <2>8. ASSUME NEW e \in Emails, NEW c \in Codes, <<e, c>> \in mailbox' \cup outbox'
        PROVE  \E m \in issued' : m[2] = e /\ m[3] = c
    <3>1. <<e, c>> \in mailbox \cup outbox \/ <<e, c>> = <<job[w].email, codes + 1>>
      BY <1>1, <2>8, SendFacts
    <3>2. CASE <<e, c>> \in mailbox \cup outbox
      BY <1>0, <2>1, <3>2 DEF OneAddress
    <3>3. CASE <<e, c>> = <<job[w].email, codes + 1>>
      BY <2>1, <2>3, <3>3 DEF new
    <3> QED
      BY <3>1, <3>2, <3>3
  <2> QED
    BY <2>5, <2>7, <2>8 DEF OneAddress
<1>2. ASSUME NEW m \in outbox, DeliverLate(m) PROVE OneAddress'
  <2>1. issued' = issued /\ codes' = codes /\ mailbox' \cup outbox' \subseteq mailbox \cup outbox
    BY <1>2 DEF DeliverLate
  <2> QED
    BY <1>0, <2>1 DEF OneAddress
<1>3. CASE UNCHANGED <<issued, codes, mailbox, outbox>>
  BY <1>0, <1>3 DEF OneAddress
<1> QED
  BY <1>1, <1>2, <1>3
     DEF Next, AskForCode, AskToRegister, AskToLogIn, Serve, Seek, Save, CheckUnregistered,
         VerifyCode, Insert, VerifyLoginCode, LookUp, NoConnection, Expire, vars

(* A code that was typed and is stored for an address has reached it.       *)
LEMMA TypedIsMailed ==
  ASSUME IndInv, NEW e \in Emails, NEW c \in Typed, c # None, stored[<<"register", e>>] = c
  PROVE  /\ <<e, c>> \in mailbox
         /\ \E report \in {"sent", "misreported"} : <<"register", e, c, report>> \in issued
<1>1. PICK report \in {"sent", "misreported"} : <<"register", e, c, report>> \in issued
  BY DEF IndInv, StoredWasReportedSent, Purposes, RestPurposes
<1>2. PICK d \in Emails : c \in Codes /\ <<d, c>> \in mailbox
  BY DEF Typed
<1>3. PICK m \in issued : m[2] = d /\ m[3] = c
  BY <1>2 DEF IndInv, OneAddress
<1>4. d = e
  <2> DEFINE n == <<"register", e, c, report>>
  <2>1. n \in issued /\ n[2] = e /\ n[3] = c
    BY <1>1
  <2> QED
    BY <1>3, <2>1 DEF IndInv, OneAddress
<1> QED
  BY <1>1, <1>2, <1>4

LEMMA ProvenStep == IndInv /\ [Next]_vars => Proven'
<1> SUFFICES ASSUME IndInv, [Next]_vars, NEW v \in Threads
             PROVE  /\ job'[v].at = "save" =>
                         /\ job'[v].code # None
                         /\ Backed(issued', mailbox', job'[v].purpose, job'[v].email, job'[v].code)
                    /\ job'[v].at \in {"check", "verify"} => job'[v].code \in Typed'
                    /\ job'[v].at = "insert" =>
                         /\ job'[v].code # None
                         /\ <<job'[v].email, job'[v].code>> \in mailbox'
                         /\ \E report \in {"sent", "misreported"} :
                              <<"register", job'[v].email, job'[v].code, report>> \in issued'
  BY DEF Proven, Backed
<1>1. TypeOK /\ Bounded /\ Proven /\ job[v] \in Jobs
      /\ mailbox \subseteq mailbox' /\ issued \subseteq issued' /\ Typed \subseteq Typed'
  BY HistoryGrows, TypedGrows DEF IndInv, TypeOK
<1>2. CASE job'[v] = job[v]
  <2>1. job[v].at = "save" => job'[v].code # None
          /\ Backed(issued', mailbox', job'[v].purpose, job'[v].email, job'[v].code)
    BY <1>1, <1>2 DEF Proven, Backed
  <2> QED
    BY <1>1, <1>2, <2>1 DEF Proven
<1>3. CASE job'[v] = Idle \/ Asked(v)
  BY <1>1, <1>3 DEF Idle, Asked
<1>4. CASE Advanced(v) /\ job'[v].at = "save"
  <2>1. job[v] \in Jobs /\ Send(v) /\ codes + 1 \in Codes /\ job[v] \in Mailing
        /\ job'[v] = [job[v] EXCEPT !.at = "save", !.code = codes + 1]
    BY <1>1, <1>4, JobFacts DEF Advanced, Mailing, Registering
  <2>2. job'[v].code = codes + 1 /\ job'[v].email = job[v].email /\ job'[v].purpose = job[v].purpose
    BY <2>1 DEF Mailing
  <2>3. job'[v].code # None
    BY <2>1, <2>2 DEF Codes, None
  <2>4. ~Finish(v)
    BY <1>1, <1>4 DEF Finish, Idle, TypeOK
  <2>5. PICK report \in Reports :
          /\ issued' = issued \cup {<<job[v].purpose, job[v].email, codes + 1, report>>}
          /\ report \in SaveIf
          /\ report = "sent" => <<job[v].email, codes + 1>> \in mailbox'
    BY <2>1, <2>4, SendFacts
  <2>6. Backed(issued', mailbox', job'[v].purpose, job'[v].email, job'[v].code)
    BY <2>2, <2>5 DEF Backed, SaveIf
  <2> QED
    BY <1>4, <2>3, <2>6
<1>5. CASE Advanced(v) /\ job'[v].at = "insert"
  <2>1. /\ job[v] \in Registering /\ job[v].at = "verify"
        /\ job'[v] = [job[v] EXCEPT !.at = "insert"]
        /\ Accepts(job[v].code, Key("register", job[v].email))
    BY <1>1, <1>5, JobFacts DEF Advanced, Mailing, Registering
  <2>2. job'[v].code = job[v].code /\ job'[v].email = job[v].email /\ job[v].email \in Emails
    BY <2>1 DEF Registering
  <2>3. job[v].code # None /\ stored[<<"register", job[v].email>>] = job[v].code
    BY <2>1 DEF Accepts, Key
  <2>4. job[v].code \in Typed
    BY <1>1, <2>1 DEF Proven
  <2>5. <<job[v].email, job[v].code>> \in mailbox
        /\ \E report \in {"sent", "misreported"} :
             <<"register", job[v].email, job[v].code, report>> \in issued
    BY <2>2, <2>3, <2>4, TypedIsMailed
  <2> QED
    BY <1>1, <1>5, <2>2, <2>3, <2>5
<1>6. CASE Advanced(v) /\ job'[v].at \in {"check", "verify"}
  <2>1. PICK b \in BOOLEAN : /\ job[v].at = "check" /\ job[v] \in Registering
                             /\ job'[v] = [job[v] EXCEPT !.at = "verify", !.blind = b]
    BY <1>1, <1>6, JobFacts DEF Advanced, Mailing, Registering
  <2>2. job'[v].code = job[v].code
    BY <2>1 DEF Registering
  <2> QED
    BY <1>1, <1>6, <2>1, <2>2 DEF Proven
<1> QED
  BY <1>1, <1>2, <1>3, <1>4, <1>5, <1>6, JobChange

LEMMA StoredStep == IndInv /\ [Next]_vars => StoredWasReportedSent'
<1> SUFFICES ASSUME IndInv, [Next]_vars, NEW purpose \in Purposes, NEW e \in Emails,
                    stored'[<<purpose, e>>] # None
             PROVE  Backed(issued', mailbox', purpose, e, stored'[<<purpose, e>>])
  BY DEF StoredWasReportedSent, Backed
<1>1. /\ TypeOK /\ Proven /\ StoredWasReportedSent
      /\ mailbox \subseteq mailbox' /\ issued \subseteq issued'
      /\ stored \in [Purposes \X Emails -> Codes \cup {None}]
  BY HistoryGrows DEF IndInv, TypeOK
<1>2. ASSUME NEW w \in Threads, Save(w), <<purpose, e>> = Key(job[w].purpose, job[w].email)
      PROVE  Backed(issued', mailbox', purpose, e, stored'[<<purpose, e>>])
  <2>1. stored'[<<purpose, e>>] = job[w].code /\ job[w].purpose = purpose /\ job[w].email = e
        /\ job[w].at = "save"
    BY <1>1, <1>2 DEF Save, Key, At
  <2> QED
    BY <1>1, <2>1 DEF Proven, Backed
<1>3. ASSUME stored'[<<purpose, e>>] = stored[<<purpose, e>>]
      PROVE  Backed(issued', mailbox', purpose, e, stored'[<<purpose, e>>])
  BY <1>1, <1>3 DEF StoredWasReportedSent, Backed
<1>4. ASSUME NEW w \in Threads, Save(w), <<purpose, e>> # Key(job[w].purpose, job[w].email)
      PROVE  stored'[<<purpose, e>>] = stored[<<purpose, e>>]
  BY <1>1, <1>4 DEF Save
<1>5. ASSUME NEW k \in Purposes \X Emails, Expire(k)
      PROVE  stored'[<<purpose, e>>] = stored[<<purpose, e>>]
  BY <1>1, <1>5 DEF Expire
<1>6. CASE ~(\E w \in Threads : Save(w)) /\ ~(\E k \in Purposes \X Emails : Expire(k))
  <2>1. stored' = stored
    BY <1>6
       DEF Next, AskForCode, AskToRegister, AskToLogIn, Serve, Seek, Send, CheckUnregistered,
           VerifyCode, Insert, VerifyLoginCode, LookUp, NoConnection, DeliverLate, vars
  <2> QED
    BY <1>3, <2>1
<1> QED
  BY <1>2, <1>3, <1>4, <1>5, <1>6

LEMMA AccountStep == IndInv /\ [Next]_vars => AccountHasProof'
<1> SUFFICES ASSUME IndInv, [Next]_vars, NEW e \in Emails, users'[e] # NoUser
             PROVE  /\ \E report \in {"sent", "misreported"} :
                         <<"register", e, users'[e].code, report>> \in issued'
                    /\ <<e, users'[e].code>> \in mailbox'
  BY DEF AccountHasProof
<1>1. /\ TypeOK /\ Proven /\ AccountHasProof /\ mailbox \subseteq mailbox' /\ issued \subseteq issued'
  BY HistoryGrows DEF IndInv
<1>2. CASE users'[e] = users[e]
  BY <1>1, <1>2 DEF AccountHasProof
<1>3. CASE users'[e] # users[e]
  <2>1. PICK w \in Threads : Insert(w)
    BY <1>3
       DEF Next, AskForCode, AskToRegister, AskToLogIn, Serve, Seek, Send, Save, CheckUnregistered,
           VerifyCode, VerifyLoginCode, LookUp, NoConnection, DeliverLate, Expire, vars
  <2>2. job[w].email = e /\ users'[e].code = job[w].code /\ job[w].at = "insert"
    BY <1>3, <2>1, InsertFacts DEF Insert, At
  <2> QED
    BY <1>1, <2>2 DEF Proven
<1> QED
  BY <1>2, <1>3

LEMMA Counting ==
  ASSUME NEW S, IsFiniteSet(S), NEW T, NEW x
  PROVE  /\ T \subseteq S => Cardinality(T) <= Cardinality(S)
         /\ T \subseteq S \cup {x} => Cardinality(T) <= Cardinality(S) + 1
         /\ T \subseteq S \ {x} /\ x \in S => Cardinality(T) <= Cardinality(S) - 1
         /\ T \subseteq S \cup {x} => Cardinality(T) \in Nat
<1>1. IsFiniteSet(S \cup {x}) /\ Cardinality(S \cup {x}) <= Cardinality(S) + 1
  <2>1. CASE x \in S
    <3>1. S \cup {x} = S
      BY <2>1
    <3>2. Cardinality(S) \in Nat
      BY FS_CardinalityType
    <3>3. Cardinality(S) <= Cardinality(S) + 1
      BY <3>2
    <3> QED
      BY <3>1, <3>3, Zenon
  <2>2. CASE x \notin S
    <3>1. IsFiniteSet(S \cup {x}) /\ Cardinality(S \cup {x}) = Cardinality(S) + 1
      BY <2>2, FS_AddElement
    <3> QED
      BY <3>1, FS_CardinalityType
  <2> QED
    BY <2>1, <2>2
<1>2. x \in S => IsFiniteSet(S \ {x}) /\ Cardinality(S \ {x}) = Cardinality(S) - 1
  BY FS_RemoveElement
<1>3. T \subseteq S => Cardinality(T) <= Cardinality(S)
  BY FS_Subset
<1>4. T \subseteq S \cup {x} => Cardinality(T) <= Cardinality(S \cup {x}) /\ Cardinality(T) \in Nat
  BY <1>1, FS_Subset, FS_CardinalityType
<1>5. T \subseteq S \ {x} /\ x \in S => Cardinality(T) <= Cardinality(S \ {x})
  BY <1>2, FS_Subset
<1>6. Cardinality(S) \in Nat /\ Cardinality(S \cup {x}) \in Nat
  BY <1>1, FS_CardinalityType
<1> QED
  BY <1>1, <1>2, <1>3, <1>4, <1>5, <1>6

LEMMA BoundedStep == IndInv /\ [Next]_vars => Bounded'
<1> SUFFICES ASSUME IndInv, [Next]_vars PROVE Bounded'
  OBVIOUS
<1>0. TypeOK /\ Bounded /\ HttpOnly /\ job \in [Threads -> Jobs]
  BY DEF IndInv, TypeOK
<1>n. codes \in Nat /\ ids \in Nat /\ MaxCodes \in Nat /\ MaxIds \in Nat
  BY AuthAssumption DEF IndInv, TypeOK
<1>f. /\ IsFiniteSet(Asking) /\ IsFiniteSet(Enrolling)
      /\ Cardinality(Asking) \in Nat /\ Cardinality(Enrolling) \in Nat
  BY AskingFinite
<1>j. ASSUME NEW u \in Threads
      PROVE  /\ job'[u].at \in {"seek", "send"} =>
                  job[u].at \in {"seek", "send"} \/ AskForCode(u)
             /\ job'[u].at \in {"check", "verify", "insert"} =>
                  job[u].at \in {"check", "verify", "insert"} \/ AskToRegister(u)
  <2>1. job[u] \in Jobs
    BY <1>0
  <2>2. CASE Advanced(u)
    <3>1. job[u].at = "send" => job'[u].at = "save"
      BY <2>1, <2>2, JobFacts DEF Advanced, Mailing
    <3>2. job[u].at \in {"check", "verify"} => job'[u].at \in {"verify", "insert"}
      BY <2>1, <2>2, JobFacts DEF Advanced, Registering
    <3> QED
      BY <2>2, <3>1, <3>2 DEF Advanced
  <2>3. CASE Asked(u)
    BY <2>3 DEF Asked
  <2> QED
    BY <1>0, <2>2, <2>3, JobChange DEF Idle
<1>h. ASSUME ~\E u \in Threads : AskForCode(u) PROVE Asking' \subseteq Asking
  BY <1>j, <1>h DEF Asking, At
<1>k. ASSUME ~\E u \in Threads : AskToRegister(u) PROVE Enrolling' \subseteq Enrolling
  BY <1>j, <1>k DEF Enrolling, Threads
<1>1. ASSUME NEW w \in Threads, AskForCode(w) PROVE Bounded'
  <2>1. Asking' \subseteq Asking \cup {w} /\ Enrolling' \subseteq Enrolling
    <3>1. job'[w].at \in {"seek", "send"}
      BY <1>0, <1>1, JobStep
    <3>2. \A u \in Threads : u # w => job'[u] = job[u]
      BY <1>0, <1>1, JobStep
    <3> QED
      BY <3>1, <3>2 DEF Asking, Enrolling, At, Threads
  <2>2. codes + Cardinality(Asking) < MaxCodes /\ codes' = codes /\ ids' = ids
    BY <1>1 DEF AskForCode, Asking
  <2>3. Cardinality(Asking') <= Cardinality(Asking) + 1 /\ Cardinality(Asking') \in Nat
    BY <1>f, <2>1, Counting
  <2>4. Cardinality(Enrolling') <= Cardinality(Enrolling) /\ Cardinality(Enrolling') \in Nat
    BY <1>f, <2>1, Counting
  <2> QED
    BY <1>0, <1>n, <1>f, <2>2, <2>3, <2>4 DEF Bounded
<1>2. ASSUME NEW w \in Threads, AskToRegister(w) PROVE Bounded'
  <2>1. Enrolling' \subseteq Enrolling \cup {w} /\ Asking' \subseteq Asking
    <3>1. job'[w].at = "check"
      BY <1>0, <1>2, JobStep
    <3>2. \A u \in Threads : u # w => job'[u] = job[u]
      BY <1>0, <1>2, JobStep
    <3> QED
      BY <3>1, <3>2 DEF Asking, Enrolling, At, Threads
  <2>2. ids + Cardinality(Enrolling) < MaxIds /\ codes' = codes /\ ids' = ids
    BY <1>2 DEF AskToRegister, Enrolling
  <2>3. Cardinality(Enrolling') <= Cardinality(Enrolling) + 1 /\ Cardinality(Enrolling') \in Nat
    BY <1>f, <2>1, Counting
  <2>4. Cardinality(Asking') <= Cardinality(Asking) /\ Cardinality(Asking') \in Nat
    BY <1>f, <2>1, Counting
  <2> QED
    BY <1>0, <1>n, <1>f, <2>2, <2>3, <2>4 DEF Bounded
<1>3. ASSUME NEW w \in Threads, Send(w) PROVE Bounded'
  <2>1. codes' = codes + 1 /\ ids' = ids /\ w \in Asking
    BY <1>3 DEF Send, Asking
  <2>2. Asking' \subseteq Asking \ {w} /\ Enrolling' \subseteq Enrolling
    <3>1. job[w] \in Mailing /\ job[w].at = "send"
          /\ (Finish(w) \/ job' = [job EXCEPT ![w].at = "save", ![w].code = codes + 1])
      BY <1>0, <1>3, ServeStep
    <3>2. job'[w].at \in {"idle", "save"} /\ \A u \in Threads : u # w => job'[u] = job[u]
      <4>1. CASE Finish(w)
        BY <1>0, <4>1 DEF Finish, Idle
      <4>2. CASE job' = [job EXCEPT ![w].at = "save", ![w].code = codes + 1]
        BY <1>0, <3>1, <4>2 DEF Mailing
      <4> QED
        BY <3>1, <4>1, <4>2
    <3> QED
      BY <3>2 DEF Asking, Enrolling, At, Threads
  <2>3. Cardinality(Asking') <= Cardinality(Asking) - 1 /\ Cardinality(Asking') \in Nat
    BY <1>f, <2>1, <2>2, Counting
  <2>4. Cardinality(Enrolling') <= Cardinality(Enrolling) /\ Cardinality(Enrolling') \in Nat
    BY <1>f, <2>2, Counting
  <2> QED
    BY <1>0, <1>n, <1>f, <2>1, <2>3, <2>4 DEF Bounded
<1>4. ASSUME NEW w \in Threads, Insert(w) PROVE Bounded'
  <2>1. ids' = ids + 1 /\ codes' = codes /\ w \in Enrolling
    BY <1>4, InsertFacts DEF Insert, Enrolling, At
  <2>2. Enrolling' \subseteq Enrolling \ {w} /\ Asking' \subseteq Asking
    <3>1. job'[w].at = "idle" /\ \A u \in Threads : u # w => job'[u] = job[u]
      BY <1>0, <1>4 DEF Insert, Finish, Idle
    <3> QED
      BY <3>1 DEF Asking, Enrolling, At, Threads
  <2>3. Cardinality(Enrolling') <= Cardinality(Enrolling) - 1 /\ Cardinality(Enrolling') \in Nat
    BY <1>f, <2>1, <2>2, Counting
  <2>4. Cardinality(Asking') <= Cardinality(Asking) /\ Cardinality(Asking') \in Nat
    BY <1>f, <2>2, Counting
  <2> QED
    BY <1>0, <1>n, <1>f, <2>1, <2>3, <2>4 DEF Bounded
<1>5. CASE ~\E w \in Threads : AskForCode(w) \/ AskToRegister(w) \/ Send(w) \/ Insert(w)
  <2>1. Asking' \subseteq Asking /\ Enrolling' \subseteq Enrolling
    BY <1>5, <1>h, <1>k
  <2>2. codes' = codes /\ ids' = ids
    BY <1>5
       DEF Next, AskToLogIn, Serve, Seek, Save, CheckUnregistered, VerifyCode, VerifyLoginCode,
           LookUp, NoConnection, DeliverLate, Expire, vars
  <2>3. Cardinality(Asking') <= Cardinality(Asking) /\ Cardinality(Asking') \in Nat
    BY <1>f, <2>1, Counting
  <2>4. Cardinality(Enrolling') <= Cardinality(Enrolling) /\ Cardinality(Enrolling') \in Nat
    BY <1>f, <2>1, Counting
  <2> QED
    BY <1>0, <1>n, <1>f, <2>2, <2>3, <2>4 DEF Bounded
<1> QED
  BY <1>1, <1>2, <1>3, <1>4, <1>5

-----------------------------------------------------------------------------
THEOREM Invariance == Spec => []IndInv
<1>1. IndInv /\ [Next]_vars => IndInv'
  BY TypeStep, BoundedStep, HttpOnlyStep, ProvenStep, OneAddressStep, StoredStep, AccountStep DEF IndInv
<1> QED
  BY InitIndInv, <1>1, PTL DEF Spec

(* Tables, requests and histories keep their types, and no more codes or    *)
(* ids are used up than the bounds of the model allow                       *)
(* (auth_service.cpp:15-230).                                               *)
THEOREM TypeCorrect == Spec => []TypeOK
BY Invariance, PTL DEF IndInv

(* For any number of threads and any type that a gRPC request names, a      *)
(* usable code was made for the purpose it is accepted for and reported as  *)
(* sent; unless the report was false it has reached its address             *)
(* (auth_service.cpp:28-36).                                                *)
THEOREM CodesWereReportedSent == Spec => []StoredWasReportedSent
BY Invariance, PTL DEF IndInv

(* Every account was opened with a registration code that had reached its   *)
(* own address (auth_service.cpp:120-129).                                  *)
THEOREM AccountsHaveProof == Spec => []AccountHasProof
BY Invariance, PTL DEF IndInv

-----------------------------------------------------------------------------
(* The HTTP server has one thread (main.cpp:47).                            *)
OneHttpThread == \A u, v \in HttpThreads : u = v

(* A look-up that answered stays true until its registration is stored.     *)
Sighted ==
  \A w \in Threads :
    job[w].at \in {"verify", "insert"} /\ ~job[w].blind => users[job[w].email] = NoUser

Answered ==
  \A a \in answers : /\ a.email \in Emails /\ users[a.email] # NoUser
                     /\ ~a.blind => users[a.email].id = a.id

LEMMA OnlyInsertChangesUsers ==
  ASSUME [Next]_vars, users' # users
  PROVE  \E w \in Threads : Insert(w)
BY DEF Next, AskForCode, AskToRegister, AskToLogIn, Serve, Seek, Send, Save, CheckUnregistered,
       VerifyCode, VerifyLoginCode, LookUp, NoConnection, DeliverLate, Expire, vars

LEMMA Checked ==
  \A j \in Registering, b \in BOOLEAN :
    /\ [j EXCEPT !.at = "verify", !.blind = b].blind <=> b
    /\ [j EXCEPT !.at = "verify", !.blind = b].email = j.email
BY DEF Registering

LEMMA SightedStep ==
  ASSUME OneHttpThread, IndInv, Sighted, [Next]_vars
  PROVE  Sighted'
<1> SUFFICES ASSUME NEW v \in Threads, job'[v].at \in {"verify", "insert"}, ~job'[v].blind
             PROVE  users'[job'[v].email] = NoUser
  BY DEF Sighted
<1>1. TypeOK /\ Bounded /\ HttpOnly /\ job[v] \in Jobs
  BY DEF IndInv, TypeOK
<1>2. CASE job'[v] = job[v]
  <2>1. CASE users' = users
    BY <1>2, <2>1 DEF Sighted
  <2>2. CASE users' # users
    <3>1. PICK w \in Threads : Insert(w)
      BY <2>2, OnlyInsertChangesUsers
    <3>2. w \in HttpThreads /\ v \in HttpThreads
      BY <1>1, <1>2, <3>1, InsertFacts DEF HttpOnly
    <3>3. job'[v] = Idle
      BY <1>1, <3>1, <3>2 DEF OneHttpThread, Insert, Finish, TypeOK
    <3> QED
      BY <3>3 DEF Idle
  <2> QED
    BY <2>1, <2>2
<1>3. CASE Advanced(v)
  <2>1. CASE CheckUnregistered(v) /\ job[v].at = "check"
    <3>1. PICK b \in BOOLEAN :
            /\ job'[v] = [job[v] EXCEPT !.at = "verify", !.blind = b]
            /\ b \/ users[job[v].email] = NoUser
      BY <1>3, <2>1 DEF Advanced
    <3>2. (job'[v].blind <=> b) /\ job'[v].email = job[v].email
      <4>1. job[v] \in Registering
        BY <1>1, <2>1, JobFacts
      <4> QED
        BY <3>1, <4>1, Checked
    <3> QED
      BY <2>1, <3>1, <3>2 DEF CheckUnregistered
  <2>2. CASE /\ job[v].at = "verify" /\ job[v] \in Registering
             /\ job'[v] = [job[v] EXCEPT !.at = "insert"]
             /\ UNCHANGED <<users, answers>>
    <3>1. job'[v].blind = job[v].blind /\ job'[v].email = job[v].email
      BY <2>2 DEF Registering
    <3> QED
      BY <2>2, <3>1 DEF Sighted
  <2>3. job[v].at = "send" => job'[v].at = "save"
    BY <1>1, <1>3, JobFacts DEF Advanced, Mailing
  <2> QED
    BY <1>3, <2>1, <2>2, <2>3 DEF Advanced
<1> QED
  BY <1>1, <1>2, <1>3, JobChange DEF Asked, Idle

LEMMA AnsweredStep ==
  ASSUME IndInv, Sighted, Answered, [Next]_vars
  PROVE  Answered'
<1> SUFFICES ASSUME NEW a \in answers'
             PROVE  /\ a.email \in Emails /\ users'[a.email] # NoUser
                    /\ ~a.blind => users'[a.email].id = a.id
  BY DEF Answered
<1>0. TypeOK
  BY DEF IndInv
<1>1. ASSUME NEW w \in Threads, Insert(w)
      PROVE  /\ a.email \in Emails /\ users'[a.email] # NoUser
             /\ ~a.blind => users'[a.email].id = a.id
  <2> DEFINE e == job[w].email
             new == [kind |-> "registered", email |-> e, pwd |-> job[w].pwd,
                     id |-> ids + 1, blind |-> job[w].blind]
  <2>1. /\ e \in Emails /\ \A d \in Emails : d # e => users'[d] = users[d]
        /\ \/ users' = users /\ answers' = answers
           \/ /\ users'[e] # NoUser
              /\ users'[e].id = IF users[e] = NoUser THEN ids + 1 ELSE users[e].id
              /\ answers' = answers \/ answers' = answers \cup {new}
    BY <1>1, InsertFacts, RowFacts
  <2>2. a \in answers \/ (a = new /\ users'[e] # NoUser
                          /\ users'[e].id = IF users[e] = NoUser THEN ids + 1 ELSE users[e].id)
    BY <2>1
  <2>3. CASE a \in answers
    BY <2>1, <2>3 DEF Answered
  <2>4. CASE a = new /\ users'[e] # NoUser
             /\ users'[e].id = IF users[e] = NoUser THEN ids + 1 ELSE users[e].id
    <3>1. a.email = e /\ a.id = ids + 1 /\ a.blind = job[w].blind
      BY <2>4
    <3>2. ~job[w].blind => users[e] = NoUser
      BY <1>1 DEF Sighted, Insert, At
    <3> QED
      BY <2>1, <2>4, <3>1, <3>2
  <2> QED
    BY <2>2, <2>3, <2>4
<1>2. ASSUME NEW w \in Threads, LookUp(w)
      PROVE  /\ a.email \in Emails /\ users'[a.email] # NoUser
             /\ ~a.blind => users'[a.email].id = a.id
  <2>1. users' = users /\ job[w].email \in Emails
        /\ \/ answers' = answers
           \/ users[job[w].email] \in Rows /\ answers' = LoggedIn(job[w].email)
    BY <1>2, LookUpFacts DEF LookUp
  <2> QED
    BY <2>1, RowFacts DEF Answered, LoggedIn
<1>3. CASE ~\E w \in Threads : Insert(w) \/ LookUp(w)
  <2>1. users' = users /\ answers' = answers
    BY <1>3
       DEF Next, AskForCode, AskToRegister, AskToLogIn, Serve, Seek, Send, Save, CheckUnregistered,
           VerifyCode, VerifyLoginCode, NoConnection, DeliverLate, Expire, vars
  <2> QED
    BY <2>1 DEF Answered
<1> QED
  BY <1>1, <1>2, <1>3

LEMMA SightedInvariance ==
  ASSUME OneHttpThread
  PROVE  Spec => [](IndInv /\ Sighted /\ Answered)
<1>1. Init => IndInv /\ Sighted /\ Answered
  BY InitIndInv DEF Init, Sighted, Answered, Idle
<1>2. (IndInv /\ Sighted /\ Answered) /\ [Next]_vars => (IndInv /\ Sighted /\ Answered)'
  BY TypeStep, BoundedStep, HttpOnlyStep, ProvenStep, OneAddressStep, StoredStep, AccountStep, SightedStep,
     AnsweredStep DEF IndInv
<1> QED
  BY <1>1, <1>2, PTL DEF Spec

(* With one HTTP thread a token names the row of its account for good,      *)
(* unless the look-up of the registration failed (auth_service.cpp:165-170, *)
(* 191-193, 225-226).                                                       *)
THEOREM TokensStayTrue ==
  ASSUME OneHttpThread
  PROVE  Spec => []SightedTokensNameAccounts
<1>1. Answered => SightedTokensNameAccounts
  BY DEF Answered, SightedTokensNameAccounts
<1> QED
  BY <1>1, SightedInvariance, PTL

(* With one HTTP thread no registration that saw its address free meets an  *)
(* account: an account is overwritten only where the look-up failed         *)
(* (auth_service.cpp:117, 165; main.cpp:47).                                *)
THEOREM OverwritesAreBlind ==
  ASSUME OneHttpThread
  PROVE  Spec => OverwriteOnlyIfBlind
<1>1. ASSUME IndInv, Sighted, Next, NEW e \in Emails, users[e] # NoUser, users'[e] # users[e]
      PROVE  \E w \in Threads : At(w, "insert") /\ job[w].email = e /\ job[w].blind
  <2>1. PICK w \in Threads : Insert(w)
    BY <1>1, OnlyInsertChangesUsers
  <2>2. At(w, "insert") /\ job[w].email = e
    BY <1>1, <2>1, InsertFacts DEF Insert
  <2> QED
    BY <1>1, <2>2 DEF Sighted, At
<1>2. IndInv /\ Sighted /\ [Next]_vars =>
        [\A e \in Emails : users[e] # NoUser /\ users'[e] # users[e] =>
           \E w \in Threads : At(w, "insert") /\ job[w].email = e /\ job[w].blind]_vars
  BY <1>1
<1> QED
  BY <1>2, SightedInvariance, PTL DEF Spec, OverwriteOnlyIfBlind
=============================================================================
