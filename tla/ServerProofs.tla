----------------------------- MODULE ServerProofs -----------------------------
(***************************************************************************)
(* What the two asio servers guarantee for any number of clients and       *)
(* requests, each in a part of its own.                                    *)
(*                                                                         *)
(* HttpServer: requests and responses of a session stay in step, whatever  *)
(* the deadlines, resets and accept errors, and every session winds down.  *)
(* HlsServer: they stay in step there too, and the accept loop outlives    *)
(* its errors; a stop is final, nobody's requests are dropped silently,    *)
(* and a full server stays full.  The second server is an instance; where  *)
(* a variable has the same name in both, the theorems of each part speak   *)
(* of its own server's.                                                    *)
(***************************************************************************)
EXTENDS HttpServer, FiniteSetTheorems, SequenceTheorems, TLAPS

CONSTANT Limits
VARIABLES limit, main, thread, running, halted, asked, response
Hls == INSTANCE HlsServer

-----------------------------------------------------------------------------
(* HttpServer                                                               *)

Places == {"backlog", "reading", "handling", "writing", "gone"}

Shape ==
  /\ conn \in [Clients -> Places]
  /\ inbox \in [Clients -> Seq(Kinds)]
  /\ sent \in [Clients -> Nat]
  /\ taken \in [Clients -> Nat]
  /\ answered \in [Clients -> Nat]

(* The thread is occupied by the session whose handler runs, and by no      *)
(* other: a handler that returns is the one that was started.               *)
Occupied == \A c \in Clients : loop = c <=> At(c, "handling")

(* A connection that has not been accepted owes no response.                *)
Untouched == \A c \in Clients : At(c, "backlog") => answered[c] = taken[c]

IndInv == Shape /\ Occupied /\ Untouched /\ InStep

(* Untouched and InStep for one connection, in numbers.                     *)
Owed(place, t, a) ==
  /\ place \in {"backlog", "reading"} => a = t
  /\ place \in {"handling", "writing"} => a + 1 = t

Complete(place, t, n, s) == place # "gone" => t + n = s

Agrees(c) == Owed(conn[c], taken[c], answered[c]) /\ Complete(conn[c], taken[c], Len(inbox[c]), sent[c])

-----------------------------------------------------------------------------
LEMMA InNumbers == Untouched /\ InStep <=> \A c \in Clients : Agrees(c)
BY DEF Untouched, InStep, Agrees, Owed, Complete, At

(* What a step does to the connection it is about.                          *)
Kept(c) ==
  /\ conn'[c] = conn[c] /\ inbox'[c] = inbox[c] /\ sent'[c] = sent[c]
  /\ taken'[c] = taken[c] /\ answered'[c] = answered[c]

LEMMA Lengths ==
  /\ \A s \in Seq(Kinds), k \in Kinds :
       Append(s, k) \in Seq(Kinds) /\ Len(Append(s, k)) = Len(s) + 1
  /\ \A s \in Seq(Kinds) :
       s # <<>> => Tail(s) \in Seq(Kinds) /\ Len(Tail(s)) = Len(s) - 1 /\ Len(s) > 0
  /\ \A s \in Seq(Kinds) : Len(s) \in Nat
  /\ <<>> \in Seq(Kinds)
<1>1. \A s \in Seq(Kinds), k \in Kinds :
        Append(s, k) \in Seq(Kinds) /\ Len(Append(s, k)) = Len(s) + 1
  BY AppendProperties
<1>2. \A s \in Seq(Kinds) :
        s # <<>> => Tail(s) \in Seq(Kinds) /\ Len(Tail(s)) = Len(s) - 1
  BY HeadTailProperties
<1>3. \A s \in Seq(Kinds) : s # <<>> => Len(s) > 0
  BY EmptySeq, LenProperties
<1>4. \A s \in Seq(Kinds) : Len(s) \in Nat
  BY LenProperties
<1> QED
  BY <1>1, <1>2, <1>3, <1>4

(* A step that ends a session leaves nothing to agree on; one that starts a *)
(* read needs all that was read to be answered.                             *)
LEMMA StepChanges ==
  ASSUME IndInv, NEW c \in Clients
  PROVE  /\ \A k \in Kinds : SendRequest(c, k) =>
              /\ conn' = conn /\ taken' = taken /\ answered' = answered /\ loop' = loop
              /\ sent' = [sent EXCEPT ![c] = sent[c] + 1]
              /\ inbox' = [inbox EXCEPT ![c] = Append(inbox[c], k)]
         /\ OnRead(c) =>
              /\ conn[c] = "reading" /\ inbox[c] # <<>> /\ loop = Idle /\ loop' = c
              /\ conn' = [conn EXCEPT ![c] = "handling"]
              /\ inbox' = [inbox EXCEPT ![c] = Tail(inbox[c])]
              /\ taken' = [taken EXCEPT ![c] = taken[c] + 1]
              /\ sent' = sent /\ answered' = answered
         /\ Respond(c) =>
              /\ conn[c] = "handling" /\ loop = c /\ loop' = Idle
              /\ conn' = [conn EXCEPT ![c] = "writing"]
              /\ inbox' = inbox /\ sent' = sent /\ taken' = taken /\ answered' = answered
         /\ OnAccept(c) =>
              /\ conn[c] = "backlog" /\ conn' = [conn EXCEPT ![c] = "reading"] /\ loop' = loop
              /\ inbox' = inbox /\ sent' = sent /\ taken' = taken /\ answered' = answered
         /\ OnReadError(c) \/ OnWriteError(c) =>
              /\ conn[c] # "handling" /\ conn' = [conn EXCEPT ![c] = "gone"] /\ loop' = loop
              /\ inbox' = [inbox EXCEPT ![c] = <<>>]
              /\ sent' = sent /\ taken' = taken /\ answered' = answered
         /\ OnWrite(c) =>
              /\ conn[c] = "writing" /\ loop' = loop
              /\ answered' = [answered EXCEPT ![c] = answered[c] + 1]
              /\ sent' = sent /\ taken' = taken
              /\ \/ conn' = [conn EXCEPT ![c] = "gone"] /\ inbox' = [inbox EXCEPT ![c] = <<>>]
                 \/ conn' = [conn EXCEPT ![c] = "reading"] /\ inbox' = inbox
         /\ Leave(c) \/ DeadlinePasses(c) \/ OnAcceptError \/ UNCHANGED vars =>
              /\ conn' = conn /\ inbox' = inbox /\ sent' = sent /\ taken' = taken
              /\ answered' = answered /\ loop' = loop
<1> USE DEF client, count, accept
<1>1. \A k \in Kinds : SendRequest(c, k) =>
        /\ conn' = conn /\ taken' = taken /\ answered' = answered /\ loop' = loop
        /\ sent' = [sent EXCEPT ![c] = sent[c] + 1]
        /\ inbox' = [inbox EXCEPT ![c] = Append(inbox[c], k)]
  BY DEF SendRequest
<1>2. OnRead(c) =>
        /\ conn[c] = "reading" /\ inbox[c] # <<>> /\ loop = Idle /\ loop' = c
        /\ conn' = [conn EXCEPT ![c] = "handling"]
        /\ inbox' = [inbox EXCEPT ![c] = Tail(inbox[c])]
        /\ taken' = [taken EXCEPT ![c] = taken[c] + 1]
        /\ sent' = sent /\ answered' = answered
  BY DEF OnRead, At, Free
<1>3. Respond(c) =>
        /\ conn[c] = "handling" /\ loop = c /\ loop' = Idle
        /\ conn' = [conn EXCEPT ![c] = "writing"]
        /\ inbox' = inbox /\ sent' = sent /\ taken' = taken /\ answered' = answered
  BY DEF Respond, IndInv, Occupied, At
<1>4. OnAccept(c) =>
        /\ conn[c] = "backlog" /\ conn' = [conn EXCEPT ![c] = "reading"] /\ loop' = loop
        /\ inbox' = inbox /\ sent' = sent /\ taken' = taken /\ answered' = answered
  BY DEF OnAccept, StartRead, At
<1>5. OnReadError(c) \/ OnWriteError(c) =>
        /\ conn[c] # "handling" /\ conn' = [conn EXCEPT ![c] = "gone"] /\ loop' = loop
        /\ inbox' = [inbox EXCEPT ![c] = <<>>]
        /\ sent' = sent /\ taken' = taken /\ answered' = answered
  BY DEF OnReadError, OnWriteError, End, At
<1>6. OnWrite(c) =>
        /\ conn[c] = "writing" /\ loop' = loop
        /\ answered' = [answered EXCEPT ![c] = answered[c] + 1]
        /\ sent' = sent /\ taken' = taken
        /\ \/ conn' = [conn EXCEPT ![c] = "gone"] /\ inbox' = [inbox EXCEPT ![c] = <<>>]
           \/ conn' = [conn EXCEPT ![c] = "reading"] /\ inbox' = inbox
  BY DEF OnWrite, StartRead, End, At
<1>7. Leave(c) \/ DeadlinePasses(c) \/ OnAcceptError \/ UNCHANGED vars =>
        /\ conn' = conn /\ inbox' = inbox /\ sent' = sent /\ taken' = taken
        /\ answered' = answered /\ loop' = loop
  BY DEF Leave, DeadlinePasses, OnAcceptError, vars
<1> QED
  BY <1>1, <1>2, <1>3, <1>4, <1>5, <1>6, <1>7

(* A step is about one connection; the others keep what they have.          *)
LEMMA OneConnection ==
  ASSUME IndInv, [Next]_vars
  PROVE  /\ Shape'
         /\ \/ \A d \in Clients : Kept(d)
            \/ \E c \in Clients :
                 /\ \A d \in Clients : d # c => Kept(d)
                 /\ Agrees(c)'
<1>0. Shape /\ \A c \in Clients : Agrees(c)
  BY InNumbers DEF IndInv
<1>1. ASSUME NEW c \in Clients, NEW k \in Kinds, SendRequest(c, k)
      PROVE  Shape' /\ Agrees(c)' /\ \A d \in Clients : d # c => Kept(d)
  <2>1. /\ conn' = conn /\ taken' = taken /\ answered' = answered
        /\ sent' = [sent EXCEPT ![c] = sent[c] + 1]
        /\ inbox' = [inbox EXCEPT ![c] = Append(inbox[c], k)]
    BY <1>1, StepChanges
  <2>2. /\ inbox'[c] = Append(inbox[c], k) /\ Append(inbox[c], k) \in Seq(Kinds)
        /\ Len(Append(inbox[c], k)) = Len(inbox[c]) + 1 /\ Len(inbox[c]) \in Nat
        /\ sent'[c] = sent[c] + 1 /\ sent[c] \in Nat /\ taken[c] \in Nat
    BY <1>0, <2>1, Lengths DEF Shape
  <2>3. Shape' /\ \A d \in Clients : d # c => Kept(d)
    BY <1>0, <2>1, <2>2 DEF Shape, Kept
  <2>4. \A n, m, s, t \in Nat : t + n = s /\ m = n + 1 => t + m = s + 1
    OBVIOUS
  <2>5. Complete(conn[c], taken[c], Len(inbox[c]), sent[c])
    BY <1>0 DEF Agrees
  <2>6. Len(inbox'[c]) = Len(inbox[c]) + 1 /\ Len(inbox'[c]) \in Nat
    BY <2>2
  <2>7. Complete(conn'[c], taken'[c], Len(inbox'[c]), sent'[c])
    <3> DEFINE n == Len(inbox[c])
               m == Len(inbox'[c])
    <3>1. n \in Nat /\ m = n + 1 /\ Complete(conn[c], taken[c], n, sent[c])
      BY <2>2, <2>5, <2>6
    <3> HIDE DEF n, m
    <3>2. conn'[c] = conn[c] /\ taken'[c] = taken[c]
      BY <2>1
    <3>3. conn[c] # "gone" => taken[c] + m = sent[c] + 1
      BY <2>2, <3>1 DEF Complete
    <3>4. Complete(conn'[c], taken'[c], m, sent'[c])
      BY <2>2, <3>2, <3>3 DEF Complete
    <3> QED
      BY <3>4 DEF m
  <2>8. Owed(conn'[c], taken'[c], answered'[c])
    BY <1>0, <2>1 DEF Agrees
  <2> QED
    BY <2>3, <2>7, <2>8 DEF Agrees
<1>2. ASSUME NEW c \in Clients, OnRead(c)
      PROVE  Shape' /\ Agrees(c)' /\ \A d \in Clients : d # c => Kept(d)
  <2>1. /\ conn[c] = "reading" /\ inbox[c] # <<>>
        /\ conn' = [conn EXCEPT ![c] = "handling"]
        /\ inbox' = [inbox EXCEPT ![c] = Tail(inbox[c])]
        /\ taken' = [taken EXCEPT ![c] = taken[c] + 1]
        /\ sent' = sent /\ answered' = answered
    BY <1>2, StepChanges
  <2>2. /\ Tail(inbox[c]) \in Seq(Kinds) /\ Len(inbox[c]) \in Nat /\ Len(inbox[c]) > 0
        /\ inbox'[c] = Tail(inbox[c]) /\ Len(Tail(inbox[c])) = Len(inbox[c]) - 1
        /\ conn'[c] = "handling" /\ taken'[c] = taken[c] + 1
        /\ taken[c] \in Nat /\ answered[c] \in Nat /\ sent[c] \in Nat
    BY <1>0, <2>1, Lengths DEF Shape
  <2>3. Shape' /\ \A d \in Clients : d # c => Kept(d)
    BY <1>0, <2>1, <2>2 DEF Shape, Kept, Places
  <2>4. Len(inbox'[c]) = Len(inbox[c]) - 1
    BY <2>2
  <2>5. Complete(conn'[c], taken'[c], Len(inbox'[c]), sent'[c])
    <3> DEFINE n == Len(inbox[c])
               m == Len(inbox'[c])
    <3>1. n \in Nat /\ n > 0 /\ m = n - 1 /\ Complete(conn[c], taken[c], n, sent[c])
      BY <1>0, <2>2, <2>4 DEF Agrees
    <3> HIDE DEF n, m
    <3>2. Complete(conn'[c], taken'[c], m, sent'[c])
      BY <2>1, <2>2, <3>1 DEF Complete
    <3> QED
      BY <3>2 DEF m
  <2>6. Owed(conn'[c], taken'[c], answered'[c])
    BY <1>0, <2>1, <2>2 DEF Agrees, Owed
  <2> QED
    BY <2>3, <2>5, <2>6 DEF Agrees
<1>3. ASSUME NEW c \in Clients, Respond(c) \/ OnAccept(c)
      PROVE  Shape' /\ Agrees(c)' /\ \A d \in Clients : d # c => Kept(d)
  <2>1. inbox' = inbox /\ sent' = sent /\ taken' = taken /\ answered' = answered
    BY <1>3, StepChanges
  <2>2. \/ conn[c] = "handling" /\ conn' = [conn EXCEPT ![c] = "writing"]
        \/ conn[c] = "backlog" /\ conn' = [conn EXCEPT ![c] = "reading"]
    BY <1>3, StepChanges
  <2>3. Shape' /\ \A d \in Clients : d # c => Kept(d)
    BY <1>0, <2>1, <2>2 DEF Shape, Kept, Places
  <2> QED
    BY <1>0, <2>1, <2>2, <2>3 DEF Agrees, Owed, Complete, Shape
<1>4. ASSUME NEW c \in Clients, OnReadError(c) \/ OnWriteError(c)
      PROVE  Shape' /\ Agrees(c)' /\ \A d \in Clients : d # c => Kept(d)
  <2>1. /\ conn' = [conn EXCEPT ![c] = "gone"] /\ inbox' = [inbox EXCEPT ![c] = <<>>]
        /\ sent' = sent /\ taken' = taken /\ answered' = answered
    BY <1>4, StepChanges
  <2> QED
    BY <1>0, <2>1, Lengths DEF Shape, Kept, Places, Agrees, Owed, Complete
<1>5. ASSUME NEW c \in Clients, OnWrite(c)
      PROVE  Shape' /\ Agrees(c)' /\ \A d \in Clients : d # c => Kept(d)
  <2>1. /\ conn[c] = "writing" /\ answered' = [answered EXCEPT ![c] = answered[c] + 1]
        /\ sent' = sent /\ taken' = taken
    BY <1>5, StepChanges
  <2>2. \/ conn' = [conn EXCEPT ![c] = "gone"] /\ inbox' = [inbox EXCEPT ![c] = <<>>]
        \/ conn' = [conn EXCEPT ![c] = "reading"] /\ inbox' = inbox
    BY <1>5, StepChanges
  <2>3. Shape' /\ \A d \in Clients : d # c => Kept(d)
    <3>1. answered' \in [Clients -> Nat] /\ \A d \in Clients : d # c => answered'[d] = answered[d]
      BY <1>0, <2>1 DEF Shape
    <3>2. conn' \in [Clients -> Places] /\ \A d \in Clients : d # c => conn'[d] = conn[d]
      BY <1>0, <2>2 DEF Shape, Places
    <3>3. inbox' \in [Clients -> Seq(Kinds)] /\ \A d \in Clients : d # c => inbox'[d] = inbox[d]
      BY <1>0, <2>2, Lengths DEF Shape
    <3> QED
      BY <1>0, <2>1, <3>1, <3>2, <3>3 DEF Shape, Kept
  <2> QED
    BY <1>0, <2>1, <2>2, <2>3 DEF Agrees, Owed, Complete, Shape
<1>6. ASSUME \/ \E c \in Clients : Leave(c) \/ DeadlinePasses(c)
             \/ OnAcceptError \/ UNCHANGED vars
      PROVE  Shape' /\ \A d \in Clients : Kept(d)
  BY <1>0, <1>6
     DEF Leave, DeadlinePasses, OnAcceptError, vars, client, count, accept, Shape, Kept
<1> QED
  BY <1>1, <1>2, <1>3, <1>4, <1>5, <1>6 DEF Next, ClientStep, Completion

LEMMA OccupiedStep ==
  ASSUME IndInv, [Next]_vars
  PROVE  Occupied'
<1> SUFFICES ASSUME NEW d \in Clients PROVE loop' = d <=> conn'[d] = "handling"
  BY DEF Occupied, At
<1>0. conn \in [Clients -> Places] /\ \A c \in Clients : loop = c <=> conn[c] = "handling"
  BY DEF IndInv, Shape, Occupied, At
<1>i. d # Idle
  BY HttpAssumption
<1>1. ASSUME NEW c \in Clients, OnRead(c) PROVE loop' = d <=> conn'[d] = "handling"
  BY <1>0, <1>1, <1>i, StepChanges
<1>2. ASSUME NEW c \in Clients, Respond(c) PROVE loop' = d <=> conn'[d] = "handling"
  BY <1>0, <1>2, <1>i, StepChanges
<1>3. ASSUME NEW c \in Clients, OnAccept(c) \/ OnReadError(c) \/ OnWriteError(c) \/ OnWrite(c)
      PROVE  loop' = d <=> conn'[d] = "handling"
  <2>1. /\ loop' = loop /\ conn[c] # "handling"
        /\ \E p \in {"reading", "gone"} : conn' = [conn EXCEPT ![c] = p]
    BY <1>3, StepChanges
  <2> QED
    BY <1>0, <2>1
<1>4. ASSUME \/ \E c \in Clients : ClientStep(c) \/ DeadlinePasses(c)
             \/ OnAcceptError \/ UNCHANGED vars
      PROVE  loop' = d <=> conn'[d] = "handling"
  <2>1. loop' = loop /\ conn' = conn
    BY <1>4 DEF ClientStep, SendRequest, Leave, DeadlinePasses, OnAcceptError, vars
  <2> QED
    BY <1>0, <2>1
<1> QED
  BY <1>1, <1>2, <1>3, <1>4 DEF Next, Completion

-----------------------------------------------------------------------------
THEOREM Invariance == Spec => []IndInv
<1>1. Init => IndInv
  BY HttpAssumption
     DEF Init, IndInv, Shape, Occupied, Untouched, InStep, At, Places
<1>2. IndInv /\ [Next]_vars => IndInv'
  <2> SUFFICES ASSUME IndInv, [Next]_vars PROVE IndInv'
    OBVIOUS
  <2>1. \A d \in Clients : Kept(d) => Agrees(d)'
    BY InNumbers DEF IndInv, Kept, Agrees
  <2>2. Shape' /\ \A d \in Clients : Agrees(d)'
    BY <2>1, OneConnection
  <2>3. (Untouched /\ InStep <=> \A c \in Clients : Agrees(c))'
    BY InNumbers, PTL
  <2> QED
    BY <2>2, <2>3, OccupiedStep DEF IndInv
<1> QED
  BY <1>1, <1>2, PTL DEF Spec

(* For any number of clients and requests, pipelined or not, a session that *)
(* reads has answered all it read, one that handles or writes owes one      *)
(* answer, and no request is read twice or passed over                      *)
(* (http_server.cpp:65-108).                                                *)
THEOREM SessionsStayInStep == Spec => []InStep
BY Invariance, PTL DEF IndInv

-----------------------------------------------------------------------------
(* What a session may still do: a place in its cycle, four steps for each   *)
(* request that has arrived, and the deadline that is to pass.              *)
PlaceLeft == [handling |-> 5, writing |-> 4, backlog |-> 4, reading |-> 2, gone |-> 0]
Weight(p, n, t) == PlaceLeft[p] + 4 * n + (IF t = "set" THEN 1 ELSE 0)
SessionWork(c) == Weight(conn[c], Len(inbox[c]), deadline[c])

Deadlines == {"none", "set", "passed"}
Timed ==
  /\ deadline \in [Clients -> Deadlines]
  /\ \A c \in Clients : Alive(c) => deadline[c] # "none"

ServerStep(c) == Completion(c) \/ Respond(c) \/ DeadlinePasses(c)

LEMMA Weights ==
  ASSUME NEW n \in Nat, NEW t \in Deadlines
  PROVE  /\ \A p \in Places :
              /\ Weight(p, n, t) \in Nat
              /\ Weight(p, n, "passed") < Weight(p, n, "set")
              /\ Weight(p, n + 1, t) = Weight(p, n, t) + 4
         /\ Weight("reading", n, "set") < Weight("backlog", n, t)
         /\ n > 0 => Weight("handling", n - 1, t) < Weight("reading", n, t)
         /\ Weight("writing", n, t) < Weight("handling", n, t)
         /\ Weight("reading", n, "set") < Weight("writing", n, t)
         /\ \A p \in {"reading", "writing"} : Weight("gone", 0, "none") < Weight(p, n, t)
<1>1. /\ PlaceLeft["handling"] = 5 /\ PlaceLeft["writing"] = 4 /\ PlaceLeft["backlog"] = 4
      /\ PlaceLeft["reading"] = 2 /\ PlaceLeft["gone"] = 0
  BY DEF PlaceLeft
<1>2. \A p \in Places : PlaceLeft[p] \in Nat
  BY <1>1 DEF Places
<1> QED
  BY <1>1, <1>2 DEF Weight

(* A step of a session, and what it costs.                                  *)
LEMMA StepCosts ==
  ASSUME IndInv, Timed, NEW c \in Clients, ServerStep(c)
  PROVE  /\ SessionWork(c)' < SessionWork(c)
         /\ sent' = sent
         /\ \A d \in Clients : d # c => SessionWork(d)' = SessionWork(d)
         /\ Timed'
<1>0. /\ Shape /\ Timed
      /\ conn[c] \in Places /\ deadline[c] \in Deadlines
      /\ inbox[c] \in Seq(Kinds) /\ Len(inbox[c]) \in Nat
  BY Lengths DEF IndInv, Shape, Timed
<1> DEFINE Others == \A d \in Clients : d # c =>
                       conn'[d] = conn[d] /\ inbox'[d] = inbox[d] /\ deadline'[d] = deadline[d]
           After(p, n, t) == conn'[c] = p /\ Len(inbox'[c]) = n /\ deadline'[c] = t
           Typed == deadline' \in [Clients -> Deadlines]
<1>1. ASSUME OnAccept(c)
      PROVE  /\ sent' = sent /\ Others /\ Typed /\ conn[c] = "backlog"
             /\ After("reading", Len(inbox[c]), "set")
  BY <1>0, <1>1 DEF OnAccept, StartRead, At, client, Shape, Timed, Deadlines
<1>2. ASSUME OnRead(c)
      PROVE  /\ sent' = sent /\ Others /\ Typed /\ conn[c] = "reading" /\ Len(inbox[c]) > 0
             /\ After("handling", Len(inbox[c]) - 1, deadline[c])
  <2>1. /\ sent' = sent /\ deadline' = deadline /\ conn[c] = "reading" /\ inbox[c] # <<>>
        /\ conn' = [conn EXCEPT ![c] = "handling"]
        /\ inbox' = [inbox EXCEPT ![c] = Tail(inbox[c])]
    BY <1>2 DEF OnRead, At
  <2>2. Len(Tail(inbox[c])) = Len(inbox[c]) - 1 /\ Len(inbox[c]) > 0
    BY <1>0, <2>1, Lengths
  <2> QED
    BY <1>0, <2>1, <2>2 DEF Shape, Timed
<1>3. ASSUME Respond(c)
      PROVE  /\ sent' = sent /\ Others /\ Typed /\ conn[c] = "handling"
             /\ After("writing", Len(inbox[c]), deadline[c])
  BY <1>0, <1>3 DEF Respond, At, client, IndInv, Occupied, Shape, Timed
<1>4. ASSUME OnReadError(c) \/ OnWriteError(c) \/ (OnWrite(c) /\ request[c] = "closing")
      PROVE  /\ sent' = sent /\ Others /\ Typed /\ conn[c] \in {"reading", "writing"}
             /\ After("gone", 0, "none")
  <2>1. /\ sent' = sent /\ conn[c] \in {"reading", "writing"} /\ End(c)
    BY <1>4 DEF OnReadError, OnWriteError, OnWrite, At
  <2>2. Len(<<>>) = 0
    BY EmptySeq
  <2> QED
    BY <1>0, <2>1, <2>2 DEF End, Shape, Timed, Deadlines
<1>5. ASSUME OnWrite(c), request[c] # "closing"
      PROVE  /\ sent' = sent /\ Others /\ Typed /\ conn[c] = "writing"
             /\ After("reading", Len(inbox[c]), "set")
  BY <1>0, <1>5 DEF OnWrite, StartRead, At, Shape, Timed, Deadlines
<1>6. ASSUME DeadlinePasses(c)
      PROVE  /\ sent' = sent /\ Others /\ Typed /\ deadline[c] = "set"
             /\ After(conn[c], Len(inbox[c]), "passed")
  BY <1>0, <1>6 DEF DeadlinePasses, client, Shape, Timed, Deadlines
<1>7. ASSUME sent' = sent, Others, Typed,
             NEW p \in Places, NEW n \in Nat, NEW t \in Deadlines, After(p, n, t),
             Weight(p, n, t) < Weight(conn[c], Len(inbox[c]), deadline[c]),
             p # "gone" => t # "none"
      PROVE  /\ SessionWork(c)' < SessionWork(c)
             /\ sent' = sent
             /\ \A d \in Clients : d # c => SessionWork(d)' = SessionWork(d)
             /\ Timed'
  <2>1. \A d \in Clients : conn'[d] \in {"reading", "handling", "writing"} => deadline'[d] # "none"
    BY <1>0, <1>7 DEF Timed, Alive
  <2>2. SessionWork(c)' = Weight(p, n, t)
    BY <1>7 DEF SessionWork, Weight
  <2>3. ASSUME NEW d \in Clients, d # c PROVE SessionWork(d)' = SessionWork(d)
    BY <1>7, <2>3 DEF SessionWork, Weight
  <2> QED
    BY <1>7, <2>1, <2>2, <2>3 DEF SessionWork, Timed, Alive
<1> HIDE DEF Others, After, Typed
<1>8. CASE OnAccept(c)
  BY <1>0, <1>1, <1>7, <1>8, Weights DEF Places, Deadlines
<1>9. CASE OnRead(c)
  <2>1. deadline[c] # "none" /\ Len(inbox[c]) - 1 \in Nat
    BY <1>0, <1>2, <1>9 DEF Timed, Alive
  <2> QED
    BY <1>0, <1>2, <1>7, <1>9, <2>1, Weights DEF Places
<1>10. CASE Respond(c)
  <2>1. deadline[c] # "none"
    BY <1>0, <1>3, <1>10 DEF Timed, Alive
  <2> QED
    BY <1>0, <1>3, <1>7, <1>10, <2>1, Weights DEF Places
<1>11. CASE OnReadError(c) \/ OnWriteError(c) \/ (OnWrite(c) /\ request[c] = "closing")
  BY <1>0, <1>4, <1>7, <1>11, Weights DEF Places, Deadlines
<1>12. CASE OnWrite(c) /\ request[c] # "closing"
  BY <1>0, <1>5, <1>7, <1>12, Weights DEF Places, Deadlines
<1>13. CASE DeadlinePasses(c)
  BY <1>0, <1>6, <1>7, <1>13, Weights DEF Deadlines
<1> QED
  BY <1>8, <1>9, <1>10, <1>11, <1>12, <1>13 DEF ServerStep, Completion

(* A client's step.                                                         *)
LEMMA RequestCosts ==
  ASSUME IndInv, Timed, NEW c \in Clients, ClientStep(c)
  PROVE  /\ \A d \in Clients :
              \/ SessionWork(d)' = SessionWork(d) /\ sent'[d] = sent[d]
              \/ SessionWork(d)' = SessionWork(d) + 4 /\ sent'[d] = sent[d] + 1
         /\ Timed'
<1>0. Shape /\ Timed
  BY DEF IndInv
<1>1. CASE Leave(c)
  BY <1>0, <1>1 DEF Leave, accept, SessionWork, Weight, Timed, Alive
<1>2. ASSUME NEW k \in Kinds, SendRequest(c, k)
      PROVE  /\ \A d \in Clients :
                  \/ SessionWork(d)' = SessionWork(d) /\ sent'[d] = sent[d]
                  \/ SessionWork(d)' = SessionWork(d) + 4 /\ sent'[d] = sent[d] + 1
             /\ Timed'
  <2>1. /\ conn' = conn /\ deadline' = deadline
        /\ sent' = [sent EXCEPT ![c] = sent[c] + 1]
        /\ inbox' = [inbox EXCEPT ![c] = Append(inbox[c], k)]
    BY <1>2 DEF SendRequest
  <2>2. /\ Len(inbox[c]) \in Nat /\ Len(Append(inbox[c], k)) = Len(inbox[c]) + 1
        /\ conn[c] \in Places /\ deadline[c] \in Deadlines
    BY <1>0, Lengths DEF Shape, Timed
  <2>3. /\ sent'[c] = sent[c] + 1 /\ Len(inbox'[c]) = Len(inbox[c]) + 1
        /\ \A d \in Clients : d # c => sent'[d] = sent[d] /\ inbox'[d] = inbox[d]
    BY <1>0, <2>1, <2>2 DEF Shape
  <2>4. SessionWork(c)' = SessionWork(c) + 4
    BY <2>1, <2>2, <2>3, Weights DEF SessionWork, Weight
  <2>5. ASSUME NEW d \in Clients, d # c PROVE SessionWork(d)' = SessionWork(d)
    BY <2>1, <2>3, <2>5 DEF SessionWork, Weight
  <2> QED
    BY <1>0, <2>1, <2>3, <2>4, <2>5 DEF Timed, Alive
<1> QED
  BY <1>1, <1>2 DEF ClientStep

(* Every step is a session's, a client's, or leaves the sessions alone.     *)
Winding ==
  \A c \in Clients :
    /\ ServerStep(c) => SessionWork(c)' < SessionWork(c)
    /\ sent'[c] = sent[c] => SessionWork(c)' <= SessionWork(c)

Bounded == \A c \in Clients : SessionWork(c) \in 0..(4 + 4 * sent[c])

Counted == \A c \in Clients : SessionWork(c) \in Nat /\ sent[c] \in Nat

LEMMA WorkIsNatural == IndInv /\ Timed => Counted
BY Lengths, Weights DEF IndInv, Shape, Timed, SessionWork, Counted

LEMMA WindingStep ==
  ASSUME IndInv, Timed, Bounded, [Next]_vars, IndInv'
  PROVE  Timed' /\ Bounded' /\ [Winding]_vars
<1>0. \A c \in Clients : SessionWork(c) \in Nat /\ sent[c] \in Nat
  BY WorkIsNatural DEF Counted
<1>1. ASSUME NEW b \in Clients, ServerStep(b) PROVE Timed' /\ Bounded' /\ Winding
  <2>1. /\ SessionWork(b)' < SessionWork(b) /\ sent' = sent /\ Timed'
        /\ \A d \in Clients : d # b => SessionWork(d)' = SessionWork(d)
    BY <1>1, StepCosts
  <2>2. \A d \in Clients : SessionWork(d)' \in Nat
    <3>1. (IndInv /\ Timed => Counted)'
      BY WorkIsNatural, PTL
    <3> QED
      BY <2>1, <3>1 DEF Counted
  <2>3. \A d \in Clients : ServerStep(d) => SessionWork(d)' < SessionWork(d)
    BY StepCosts
  <2> QED
    BY <1>0, <2>1, <2>2, <2>3 DEF Winding, Bounded
<1>2. ASSUME NEW c \in Clients, ClientStep(c) PROVE Timed' /\ Bounded' /\ Winding
  <2>1. /\ Timed'
        /\ \A d \in Clients :
              \/ SessionWork(d)' = SessionWork(d) /\ sent'[d] = sent[d]
              \/ SessionWork(d)' = SessionWork(d) + 4 /\ sent'[d] = sent[d] + 1
    BY <1>2, RequestCosts
  <2>2. \A d \in Clients : ServerStep(d) => SessionWork(d)' < SessionWork(d)
    BY StepCosts
  <2> QED
    BY <1>0, <2>1, <2>2 DEF Winding, Bounded
<1>3. CASE OnAcceptError \/ UNCHANGED vars
  <2>1. /\ UNCHANGED <<conn, inbox, deadline, sent>>
    BY <1>3 DEF OnAcceptError, vars, client
  <2>2. \A d \in Clients : ServerStep(d) => SessionWork(d)' < SessionWork(d)
    BY StepCosts
  <2>3. \A d \in Clients : SessionWork(d)' = SessionWork(d)
    BY <2>1 DEF SessionWork, Weight
  <2> QED
    BY <1>0, <2>1, <2>2, <2>3 DEF Winding, Bounded, Timed, Alive
<1> QED
  BY <1>1, <1>2, <1>3 DEF Next, ServerStep

(* A session takes at most four steps for each request its client sends,    *)
(* and four more: whatever it does brings it nearer to its end, nothing but *)
(* a new request sets it back, and nothing else can keep it: as long as it  *)
(* lives its handler runs, or its deadline is still to pass, or has passed  *)
(* and lets it end.  All SessionsEnd asks for besides is that the thread    *)
(* and time go on (http_server.cpp:63-108).                                 *)
THEOREM SessionsWindDown ==
  Spec =>
    /\ [](\A c \in Clients : SessionWork(c) \in 0..(4 + 4 * sent[c]))
    /\ [][\A c \in Clients :
            /\ ServerStep(c) => SessionWork(c)' < SessionWork(c)
            /\ sent'[c] = sent[c] => SessionWork(c)' <= SessionWork(c)]_vars
    /\ [](\A c \in Clients : Alive(c) =>
            \/ loop = c
            \/ deadline[c] = "set"
            \/ deadline[c] = "passed" /\ conn[c] \in {"reading", "writing"})
<1>1. Init => Timed /\ Bounded
  <2> SUFFICES ASSUME Init PROVE Timed /\ Bounded
    OBVIOUS
  <2>1. /\ deadline = [c \in Clients |-> "none"] /\ conn = [c \in Clients |-> "backlog"]
        /\ inbox = [c \in Clients |-> <<>>] /\ sent = [c \in Clients |-> 0] /\ Len(<<>>) = 0
    BY EmptySeq DEF Init
  <2>2. Weight("backlog", 0, "none") = 4
    BY DEF Weight, PlaceLeft
  <2>3. \A c \in Clients : SessionWork(c) = 4 /\ sent[c] = 0
    BY <2>1, <2>2 DEF SessionWork
  <2> QED
    BY <2>1, <2>3 DEF Timed, Deadlines, Alive, Bounded
<1>2. IndInv /\ IndInv' /\ Timed /\ Bounded /\ [Next]_vars => Timed' /\ Bounded' /\ [Winding]_vars
  BY WindingStep
<1>3. IndInv /\ Timed =>
        \A c \in Clients : Alive(c) =>
            \/ loop = c
            \/ deadline[c] = "set"
            \/ deadline[c] = "passed" /\ conn[c] \in {"reading", "writing"}
  BY DEF IndInv, Occupied, Timed, Deadlines, Alive, At
<1>4. Bounded => \A c \in Clients : SessionWork(c) \in 0..(4 + 4 * sent[c])
  BY DEF Bounded
<1>5. [Winding]_vars =>
        [\A c \in Clients :
            /\ ServerStep(c) => SessionWork(c)' < SessionWork(c)
            /\ sent'[c] = sent[c] => SessionWork(c)' <= SessionWork(c)]_vars
  BY DEF Winding
<1> QED
  BY <1>1, <1>2, <1>3, <1>4, <1>5, Invariance, PTL DEF Spec
-----------------------------------------------------------------------------
(* HlsServer                                                                *)

(* InStep for one connection: its place, the requests read and sent, the    *)
(* response under way and those the client has.  To be inductive it also    *)
(* says of the response under way what InStep says of the others.           *)
Agree(p, t, q, r, a) ==
  /\ Len(a) <= t /\ t <= Len(q)
  /\ p \in {"backlog", "reading"} => Len(a) = t
  /\ p = "writing" =>
       /\ Len(a) + 1 = t
       /\ q[t] # "malformed" /\ r.status \in Hls!Statuses(q[t])
       /\ r.fits = "long" => r.status = "ok"
  /\ \A i \in 1..Len(a) :
       /\ q[i] # "malformed" /\ a[i].status \in Hls!Statuses(q[i])
       /\ a[i].damaged => a[i].status = "ok"

AllAgree ==
  \A c \in Clients : Agree(conn[c], taken[c], asked[c], response[c], answered[c])

(* Only so many sockets are open as were accepted.                          *)
OpenClients == {c \in Clients : Hls!Open(c)}
Room == IsFiniteSet(OpenClients) /\ Cardinality(OpenClients) <= limit

HlsIndInv == Hls!TypeOK /\ AllAgree /\ Hls!Listening /\ Room

-----------------------------------------------------------------------------
(* The instance brings the library's definitions along under its own name.  *)
LEMMA SameCardinality == \A S : Hls!Cardinality(S) = Cardinality(S)
BY DEF Hls!Cardinality, Cardinality

Responses == [status : {"ok", "not found", "bad request"}, fits : Hls!Fits]
Answers == [status : {"ok", "not found", "bad request"}, damaged : BOOLEAN]

(* A request more changes nothing for those before it.                      *)
LEMMA AgreeAsked ==
  ASSUME NEW p, NEW t \in Nat, NEW q \in Seq(Hls!Kinds), NEW r, NEW a \in Seq(Answers),
         NEW k \in Hls!Kinds, Agree(p, t, q, r, a)
  PROVE  Agree(p, t, Append(q, k), r, a)
<1>1. /\ Len(Append(q, k)) = Len(q) + 1
      /\ \A i \in 1..Len(q) : Append(q, k)[i] = q[i]
      /\ Len(q) \in Nat /\ Len(a) \in Nat
  BY AppendProperties, LenProperties
<1>2. Len(a) <= t /\ t <= Len(q)
  BY DEF Agree
<1>3. \A i \in 1..Len(a) : Append(q, k)[i] = q[i]
  BY <1>1, <1>2
<1>4. p = "writing" => Append(q, k)[t] = q[t]
  <2> SUFFICES ASSUME p = "writing" PROVE t \in 1..Len(q)
    BY <1>1
  <2> QED
    BY <1>1, <1>2 DEF Agree
<1> QED
  BY <1>1, <1>2, <1>3, <1>4 DEF Agree

(* The next request is read, and the response to it started.                *)
LEMMA AgreeRead ==
  ASSUME NEW t \in Nat, NEW q \in Seq(Hls!Kinds), NEW r, NEW a \in Seq(Answers),
         Agree("reading", t, q, r, a), t < Len(q), q[t + 1] # "malformed",
         NEW s \in Hls!Statuses(q[t + 1]), NEW f, f = "long" => s = "ok"
  PROVE  Agree("writing", t + 1, q, [status |-> s, fits |-> f], a)
<1>1. Len(q) \in Nat /\ Len(a) \in Nat
  BY LenProperties
<1> QED
  BY <1>1 DEF Agree

(* The response is written, whole or damaged.                               *)
LEMMA AgreeWritten ==
  ASSUME NEW t \in Nat, NEW q \in Seq(Hls!Kinds), NEW r \in Responses, NEW a \in Seq(Answers),
         Agree("writing", t, q, r, a), NEW d \in BOOLEAN, d => r.fits = "long"
  PROVE  /\ Agree("reading", t, q, r, Append(a, [status |-> r.status, damaged |-> d]))
         /\ Append(a, [status |-> r.status, damaged |-> d]) \in Seq(Answers)
<1> DEFINE x == [status |-> r.status, damaged |-> d]
           b == Append(a, x)
<1>1. x \in Answers /\ x.status = r.status /\ x.damaged = d
  BY DEF Answers, Responses
<1> HIDE DEF x
<1>2. /\ b \in Seq(Answers) /\ Len(b) = Len(a) + 1
      /\ \A i \in 1..Len(a) : b[i] = a[i]
      /\ b[Len(a) + 1] = x
      /\ Len(q) \in Nat /\ Len(a) \in Nat
  BY <1>1, AppendProperties, LenProperties
<1> HIDE DEF b
<1>3. t = Len(b) /\ t = Len(a) + 1 /\ t <= Len(q)
  BY <1>2 DEF Agree
<1>4. ASSUME NEW i \in 1..Len(b)
      PROVE  /\ q[i] # "malformed" /\ b[i].status \in Hls!Statuses(q[i])
             /\ b[i].damaged => b[i].status = "ok"
  <2>1. CASE i \in 1..Len(a)
    BY <1>2, <2>1 DEF Agree
  <2>2. CASE i = Len(a) + 1
    BY <1>1, <1>2, <1>3, <2>2 DEF Agree
  <2> QED
    BY <1>2, <2>1, <2>2
<1>5. Agree("reading", t, q, r, b)
  BY <1>3, <1>4 DEF Agree
<1> QED
  BY <1>2, <1>5 DEF b, x

(* An accepted connection has had no request yet; a closed one owes nothing.*)
LEMMA AgreeMoved ==
  ASSUME NEW p, NEW t, NEW q, NEW r, NEW a, Agree(p, t, q, r, a)
  PROVE  /\ p = "backlog" => Agree("reading", t, q, r, a)
         /\ \A e \in {"kept", "gone"} : Agree(e, t, q, r, a)
BY DEF Agree
-----------------------------------------------------------------------------
(* What a step does to the sessions.  Every step is of one of these forms.  *)
SessionVars == <<conn, asked, taken, response, answered>>

LEMMA HlsSteps ==
  ASSUME Hls!Next, HlsIndInv
  PROVE  \/ UNCHANGED SessionVars /\ peer' \in [Clients -> {"open", "silent", "left"}]
         \/ \E c \in Clients :
              /\ peer' = peer
              /\ \/ /\ conn[c] = "backlog" /\ ~Hls!Full
                    /\ \E p \in {"reading", "gone"} : conn' = [conn EXCEPT ![c] = p]
                    /\ UNCHANGED <<asked, taken, response, answered>>
                 \/ /\ conn[c] \in {"reading", "writing"}
                    /\ conn' = [conn EXCEPT ![c] = "kept"]
                    /\ UNCHANGED <<asked, taken, response, answered>>
                 \/ /\ \E k \in Hls!Kinds : asked' = [asked EXCEPT ![c] = Append(asked[c], k)]
                    /\ UNCHANGED <<conn, taken, response, answered>>
                 \/ Hls!OnRead(c)
                 \/ Hls!OnWrite(c)
<1>0. conn \in [Clients -> {"backlog", "reading", "writing", "kept", "gone"}]
      /\ peer \in [Clients -> {"open", "silent", "left"}]
  BY DEF HlsIndInv, Hls!TypeOK
<1> USE DEF SessionVars, Hls!At, Hls!threads, Hls!traffic, Hls!sessions
<1>1. CASE Hls!Thread \/ Hls!StopFlag \/ Hls!Stop \/ Hls!OnAcceptError
  BY <1>0, <1>1
     DEF Hls!Thread, Hls!Begin, Hls!Run, Hls!RunReturns, Hls!StopFlag, Hls!Stop,
         Hls!StopContext, Hls!Join, Hls!OnAcceptError
<1>2. ASSUME NEW c \in Clients, Hls!OnAccept(c)
      PROVE  /\ conn[c] = "backlog" /\ ~Hls!Full /\ peer' = peer
             /\ \E p \in {"reading", "gone"} : conn' = [conn EXCEPT ![c] = p]
             /\ UNCHANGED <<asked, taken, response, answered>>
  BY <1>2 DEF Hls!OnAccept
<1>3. ASSUME NEW c \in Clients, Hls!OnReadError(c) \/ Hls!OnWriteError(c)
      PROVE  /\ conn[c] \in {"reading", "writing"} /\ peer' = peer
             /\ conn' = [conn EXCEPT ![c] = "kept"]
             /\ UNCHANGED <<asked, taken, response, answered>>
  BY <1>3 DEF Hls!OnReadError, Hls!OnWriteError
<1>4. ASSUME NEW c \in Clients, NEW k \in Hls!Kinds, Hls!SendRequest(c, k)
      PROVE  /\ asked' = [asked EXCEPT ![c] = Append(asked[c], k)] /\ peer' = peer
             /\ UNCHANGED <<conn, taken, response, answered>>
  BY <1>4 DEF Hls!SendRequest
<1>5. ASSUME NEW c \in Clients, Hls!Withdraw(c)
      PROVE  UNCHANGED SessionVars /\ peer' \in [Clients -> {"open", "silent", "left"}]
  BY <1>0, <1>5 DEF Hls!Withdraw
<1>6. ASSUME NEW c \in Clients, Hls!OnRead(c) \/ Hls!OnWrite(c) PROVE peer' = peer
  BY <1>6 DEF Hls!OnRead, Hls!OnWrite
<1> QED
  BY <1>1, <1>2, <1>3, <1>4, <1>5, <1>6 DEF Hls!Next, Hls!Session, Hls!Client

(* The types of the sessions, and that they stay in step.                   *)
SessionTypes ==
  /\ conn \in [Clients -> {"backlog", "reading", "writing", "kept", "gone"}]
  /\ peer \in [Clients -> {"open", "silent", "left"}]
  /\ asked \in [Clients -> Seq(Hls!Kinds)]
  /\ taken \in [Clients -> Nat]
  /\ response \in [Clients -> Responses]
  /\ answered \in [Clients -> Seq(Answers)]

LEMMA SessionStep ==
  ASSUME HlsIndInv, Hls!Next
  PROVE  SessionTypes' /\ AllAgree'
<1>0. SessionTypes /\ AllAgree
  BY DEF HlsIndInv, Hls!TypeOK, SessionTypes, Responses, Answers
<1>1. CASE UNCHANGED SessionVars /\ peer' \in [Clients -> {"open", "silent", "left"}]
  BY <1>0, <1>1 DEF SessionVars, SessionTypes, AllAgree
<1>2. ASSUME NEW c \in Clients, peer' = peer, conn[c] = "backlog",
             NEW p \in {"reading", "gone"}, conn' = [conn EXCEPT ![c] = p],
             UNCHANGED <<asked, taken, response, answered>>
      PROVE  SessionTypes' /\ AllAgree'
  <2>1. SessionTypes'
    BY <1>0, <1>2 DEF SessionTypes
  <2>2. Agree(p, taken[c], asked[c], response[c], answered[c])
    BY <1>0, <1>2, AgreeMoved DEF AllAgree
  <2> QED
    BY <1>0, <1>2, <2>1, <2>2 DEF AllAgree, SessionTypes
<1>3. ASSUME NEW c \in Clients, peer' = peer, conn' = [conn EXCEPT ![c] = "kept"],
             UNCHANGED <<asked, taken, response, answered>>
      PROVE  SessionTypes' /\ AllAgree'
  <2>1. SessionTypes'
    BY <1>0, <1>3 DEF SessionTypes
  <2>2. Agree("kept", taken[c], asked[c], response[c], answered[c])
    BY <1>0, AgreeMoved DEF AllAgree
  <2> QED
    BY <1>0, <1>3, <2>1, <2>2 DEF AllAgree, SessionTypes
<1>4. ASSUME NEW c \in Clients, peer' = peer, NEW k \in Hls!Kinds,
             asked' = [asked EXCEPT ![c] = Append(asked[c], k)],
             UNCHANGED <<conn, taken, response, answered>>
      PROVE  SessionTypes' /\ AllAgree'
  <2>1. /\ asked[c] \in Seq(Hls!Kinds) /\ taken[c] \in Nat /\ answered[c] \in Seq(Answers)
        /\ Agree(conn[c], taken[c], asked[c], response[c], answered[c])
    BY <1>0 DEF SessionTypes, AllAgree
  <2>2. Append(asked[c], k) \in Seq(Hls!Kinds)
    BY <2>1, AppendProperties
  <2>3. SessionTypes'
    BY <1>0, <1>4, <2>2 DEF SessionTypes
  <2>4. Agree(conn[c], taken[c], Append(asked[c], k), response[c], answered[c])
    BY <2>1, AgreeAsked
  <2> QED
    BY <1>0, <1>4, <2>3, <2>4 DEF AllAgree, SessionTypes
<1>5. ASSUME NEW c \in Clients, peer' = peer, Hls!OnRead(c)
      PROVE  SessionTypes' /\ AllAgree'
  <2>1. PICK s \in Hls!Statuses(asked[c][taken[c] + 1]), f \in Hls!Fits :
          /\ f = "long" => s = "ok"
          /\ response' = [response EXCEPT ![c] = [status |-> s, fits |-> f]]
    BY <1>5 DEF Hls!OnRead, Hls!Request
  <2>2. /\ conn[c] = "reading" /\ taken[c] < Len(asked[c])
        /\ asked[c][taken[c] + 1] # "malformed"
        /\ taken' = [taken EXCEPT ![c] = taken[c] + 1]
        /\ conn' = [conn EXCEPT ![c] = "writing"]
        /\ UNCHANGED <<asked, answered>>
    BY <1>5 DEF Hls!OnRead, Hls!Request, Hls!Unread, Hls!At
  <2>3. /\ asked[c] \in Seq(Hls!Kinds) /\ taken[c] \in Nat /\ answered[c] \in Seq(Answers)
        /\ Agree("reading", taken[c], asked[c], response[c], answered[c])
    BY <1>0, <2>2 DEF SessionTypes, AllAgree
  <2>4. s \in {"ok", "not found", "bad request"} /\ taken[c] + 1 \in Nat
    <3>1. s \in {"ok", "not found", "bad request"}
      BY DEF Hls!Statuses
    <3>2. taken[c] + 1 \in Nat
      BY <2>3
    <3> QED
      BY <3>1, <3>2
  <2>5. [status |-> s, fits |-> f] \in Responses
    BY <2>4 DEF Responses
  <2>6. SessionTypes'
    <3>1. response' \in [Clients -> Responses]
      BY <1>0, <2>1, <2>5 DEF SessionTypes
    <3> QED
      BY <1>0, <1>5, <2>2, <2>4, <3>1 DEF SessionTypes
  <2>7. Agree("writing", taken[c] + 1, asked[c], [status |-> s, fits |-> f], answered[c])
    BY <2>1, <2>2, <2>3, AgreeRead
  <2>8. /\ conn'[c] = "writing" /\ taken'[c] = taken[c] + 1
        /\ response'[c] = [status |-> s, fits |-> f]
        /\ \A d \in Clients : d # c =>
             conn'[d] = conn[d] /\ taken'[d] = taken[d] /\ response'[d] = response[d]
    BY <1>0, <2>1, <2>2 DEF SessionTypes
  <2> QED
    BY <1>0, <2>2, <2>6, <2>7, <2>8 DEF AllAgree
<1>6. ASSUME NEW c \in Clients, peer' = peer, Hls!OnWrite(c)
      PROVE  SessionTypes' /\ AllAgree'
  <2>1. PICK d \in BOOLEAN :
          /\ d => response[c].fits = "long"
          /\ answered' = [answered EXCEPT
               ![c] = Append(answered[c], [status |-> response[c].status, damaged |-> d])]
    BY <1>6 DEF Hls!OnWrite, Hls!Deliver
  <2>2. /\ conn[c] = "writing" /\ conn' = [conn EXCEPT ![c] = "reading"]
        /\ UNCHANGED <<asked, taken, response>>
    BY <1>6 DEF Hls!OnWrite, Hls!Deliver, Hls!At
  <2>3. /\ asked[c] \in Seq(Hls!Kinds) /\ taken[c] \in Nat /\ answered[c] \in Seq(Answers)
        /\ response[c] \in Responses
        /\ Agree("writing", taken[c], asked[c], response[c], answered[c])
    BY <1>0, <2>2 DEF SessionTypes, AllAgree
  <2> DEFINE b == Append(answered[c], [status |-> response[c].status, damaged |-> d])
  <2>4. b \in Seq(Answers) /\ Agree("reading", taken[c], asked[c], response[c], b)
    BY <2>1, <2>3, AgreeWritten
  <2>5. answered' = [answered EXCEPT ![c] = b]
    BY <2>1
  <2> HIDE DEF b
  <2>6. SessionTypes'
    BY <1>0, <1>6, <2>2, <2>4, <2>5 DEF SessionTypes
  <2>7. /\ conn'[c] = "reading" /\ answered'[c] = b
        /\ \A e \in Clients : e # c => conn'[e] = conn[e] /\ answered'[e] = answered[e]
    BY <1>0, <2>2, <2>5 DEF SessionTypes
  <2> QED
    BY <1>0, <2>2, <2>4, <2>6, <2>7 DEF AllAgree
<1> QED
  BY <1>1, <1>2, <1>3, <1>4, <1>5, <1>6, HlsSteps

-----------------------------------------------------------------------------
(* Only OnAccept opens a socket, and only when there is room for it.        *)
LEMMA RoomStep ==
  ASSUME HlsIndInv, Hls!Next, Limits \subseteq Nat
  PROVE  Room'
<1>0. /\ conn \in [Clients -> {"backlog", "reading", "writing", "kept", "gone"}]
      /\ limit \in Nat /\ limit' = limit
      /\ IsFiniteSet(OpenClients) /\ Cardinality(OpenClients) <= limit
      /\ Cardinality(OpenClients) \in Nat
  <2>1. limit' = limit
    BY DEF Hls!Next, Hls!Thread, Hls!Begin, Hls!Run, Hls!RunReturns, Hls!StopFlag, Hls!Stop,
           Hls!StopContext, Hls!Join, Hls!OnAcceptError, Hls!OnAccept, Hls!Session, Hls!OnRead,
           Hls!OnReadError, Hls!OnWrite, Hls!Deliver, Hls!OnWriteError, Hls!Client,
           Hls!SendRequest, Hls!Withdraw, Hls!threads
  <2> QED
    BY <2>1, FS_CardinalityType DEF HlsIndInv, Hls!TypeOK, Room
<1>1. CASE OpenClients' = OpenClients
  BY <1>0, <1>1 DEF Room
<1>2. ASSUME NEW c \in Clients, conn[c] = "backlog", ~Hls!Full,
             NEW p \in {"reading", "gone"}, conn' = [conn EXCEPT ![c] = p]
      PROVE  Room'
  <2>1. CASE p = "gone"
    <3>1. OpenClients' = OpenClients
      BY <1>0, <1>2, <2>1 DEF OpenClients, Hls!Open
    <3> QED
      BY <1>1, <3>1
  <2>2. CASE p = "reading"
    <3>1. OpenClients' = OpenClients \cup {c} /\ c \notin OpenClients
      BY <1>0, <1>2, <2>2 DEF OpenClients, Hls!Open
    <3>2. /\ IsFiniteSet(OpenClients \cup {c})
          /\ Cardinality(OpenClients \cup {c}) = Cardinality(OpenClients) + 1
      BY <1>0, <3>1, FS_AddElement
    <3>3. Cardinality(OpenClients) < limit
      BY <1>0, <1>2, SameCardinality DEF Hls!Full, OpenClients
    <3> QED
      BY <1>0, <3>1, <3>2, <3>3 DEF Room
  <2> QED
    BY <2>1, <2>2
<1>3. ASSUME NEW c \in Clients, conn[c] \in {"reading", "writing"},
             NEW p \in {"reading", "writing", "kept"}, conn' = [conn EXCEPT ![c] = p]
      PROVE  OpenClients' = OpenClients
  BY <1>0, <1>3 DEF OpenClients, Hls!Open
<1>4. CASE conn' = conn
  BY <1>1, <1>4 DEF OpenClients, Hls!Open
<1>5. ASSUME NEW c \in Clients, Hls!OnRead(c) \/ Hls!OnWrite(c)
      PROVE  /\ conn[c] \in {"reading", "writing"}
             /\ \E p \in {"reading", "writing", "kept"} : conn' = [conn EXCEPT ![c] = p]
  BY <1>5 DEF Hls!OnRead, Hls!OnWrite, Hls!Deliver, Hls!At
<1> QED
  BY <1>1, <1>2, <1>3, <1>4, <1>5, HlsSteps DEF SessionVars

(* The accept loop, and what stops it.                                      *)
LEMMA ControlStep ==
  ASSUME HlsIndInv, Hls!Next
  PROVE  /\ Hls!Listening'
         /\ limit' \in Limits
         /\ main' \in {"serving", "flagged", "stopped", "joined"}
         /\ thread' \in {"new", "begun", "running", "returned"}
         /\ running' \in BOOLEAN /\ halted' \in BOOLEAN /\ accepting' \in BOOLEAN
<1>0. /\ Hls!Listening
      /\ limit \in Limits
      /\ main \in {"serving", "flagged", "stopped", "joined"}
      /\ thread \in {"new", "begun", "running", "returned"}
      /\ running \in BOOLEAN /\ halted \in BOOLEAN /\ accepting \in BOOLEAN
  BY DEF HlsIndInv, Hls!TypeOK
<1> USE <1>0 DEF Hls!Listening, Hls!threads
<1>1. CASE Hls!Thread
  <2>1. /\ limit' = limit /\ main' = main /\ halted' = halted
        /\ thread' \in {"begun", "running", "returned"}
        /\ \/ running' = TRUE /\ accepting' = TRUE
           \/ running' = running /\ accepting' = accepting /\ thread \in {"begun", "running"}
    BY <1>1 DEF Hls!Thread, Hls!Begin, Hls!Run, Hls!RunReturns
  <2>2. (~accepting' => ~running') /\ (~running' => main' # "serving")
    <3>1. CASE running' = TRUE /\ accepting' = TRUE
      BY <3>1
    <3>2. CASE running' = running /\ accepting' = accepting /\ thread \in {"begun", "running"}
      BY <2>1, <3>2
    <3> QED
      BY <2>1, <3>1, <3>2
  <2>3. limit' \in Limits /\ main' \in {"serving", "flagged", "stopped", "joined"}
        /\ running' \in BOOLEAN /\ halted' \in BOOLEAN /\ accepting' \in BOOLEAN
    BY <2>1
  <2> QED
    BY <2>1, <2>2, <2>3
<1>2. CASE Hls!StopFlag \/ Hls!Stop
  <2>1. /\ limit' = limit /\ thread' = thread /\ accepting' = accepting
        /\ main' \in {"flagged", "stopped", "joined"}
        /\ running' = FALSE \/ running' = running
        /\ halted' = TRUE \/ halted' = halted
    BY <1>2 DEF Hls!StopFlag, Hls!Stop, Hls!StopContext, Hls!Join
  <2>2. thread \in {"begun", "running"} => (~accepting' => ~running')
    <3>1. CASE running' = FALSE
      BY <3>1
    <3>2. CASE running' = running
      BY <2>1, <3>2
    <3> QED
      BY <2>1, <3>1, <3>2
  <2>3. limit' \in Limits /\ thread' \in {"new", "begun", "running", "returned"}
        /\ running' \in BOOLEAN /\ halted' \in BOOLEAN /\ accepting' \in BOOLEAN
    BY <2>1
  <2> QED
    BY <2>1, <2>2, <2>3
<1>3. ASSUME accepting' = running, UNCHANGED Hls!threads
      PROVE  /\ Hls!Listening'
             /\ limit' \in Limits
             /\ main' \in {"serving", "flagged", "stopped", "joined"}
             /\ thread' \in {"new", "begun", "running", "returned"}
             /\ running' \in BOOLEAN /\ halted' \in BOOLEAN /\ accepting' \in BOOLEAN
  <2>1. /\ limit' = limit /\ main' = main /\ thread' = thread
        /\ running' = running /\ halted' = halted
    BY <1>3
  <2>2. Hls!Listening'
    <3>1. thread \in {"begun", "running"} => (~accepting' => ~running')
      BY <1>3, <2>1
    <3>2. thread \in {"begun", "running"} => (~running' => main' # "serving")
      BY <1>3, <2>1
    <3>3. thread' = thread
      BY <2>1
    <3> QED
      BY <3>1, <3>2, <3>3
  <2> QED
    BY <1>3, <2>1, <2>2
<1>4. ASSUME NEW c \in Clients, Hls!OnAccept(c)
      PROVE  /\ accepting' = running /\ UNCHANGED Hls!threads
  BY <1>4 DEF Hls!OnAccept
<1>6. Hls!OnAcceptError => accepting' = running /\ UNCHANGED Hls!threads
  BY DEF Hls!OnAcceptError
<1>5. ASSUME NEW c \in Clients, Hls!Session(c) \/ Hls!Client(c)
      PROVE  accepting' = accepting /\ UNCHANGED Hls!threads
  BY <1>5 DEF Hls!Session, Hls!OnRead, Hls!OnReadError, Hls!OnWrite, Hls!OnWriteError,
              Hls!Client, Hls!SendRequest, Hls!Withdraw
<1> QED
  BY <1>1, <1>2, <1>3, <1>4, <1>5, <1>6 DEF Hls!Next

THEOREM HlsInvariance ==
  ASSUME Limits \subseteq Nat
  PROVE  Hls!Spec => []HlsIndInv
<1>1. Hls!Init => HlsIndInv
  <2> SUFFICES ASSUME Hls!Init PROVE HlsIndInv
    OBVIOUS
  <2> USE DEF Hls!Init
  <2>1. /\ <<>> \in Seq(Hls!Kinds) /\ <<>> \in Seq(Answers) /\ Len(<<>>) = 0 /\ 1..0 = {}
    BY EmptySeq
  <2>2. Hls!TypeOK
    BY <2>1 DEF Hls!TypeOK, Hls!Fits, Answers
  <2>3. AllAgree
    BY <2>1 DEF AllAgree, Agree
  <2>4. Hls!Listening
    BY DEF Hls!Listening
  <2>5. OpenClients = {} /\ limit \in Nat
    BY DEF OpenClients, Hls!Open
  <2>6. Room
    BY <2>5, FS_EmptySet DEF Room
  <2> QED
    BY <2>2, <2>3, <2>4, <2>6 DEF HlsIndInv
<1>2. HlsIndInv /\ [Hls!Next]_(Hls!vars) => HlsIndInv'
  <2> SUFFICES ASSUME HlsIndInv, [Hls!Next]_(Hls!vars) PROVE HlsIndInv'
    OBVIOUS
  <2>1. CASE Hls!Next
    <3>1. SessionTypes' /\ AllAgree'
      BY <2>1, SessionStep
    <3>2. Hls!TypeOK'
      BY <2>1, <3>1, ControlStep DEF SessionTypes, Hls!TypeOK, Responses, Answers
    <3> QED
      BY <2>1, <3>1, <3>2, ControlStep, RoomStep DEF HlsIndInv
  <2>2. CASE UNCHANGED Hls!vars
    BY <2>2 DEF Hls!vars, Hls!threads, Hls!traffic, Hls!sessions, HlsIndInv, Hls!TypeOK,
                AllAgree, Hls!Listening, Room, OpenClients, Hls!Open
  <2> QED
    BY <2>1, <2>2
<1> QED
  BY <1>1, <1>2, PTL DEF Hls!Spec

(* For any number of clients, requests and descriptors: every response      *)
(* answers the request it is for, in order, at most one is owed and none to *)
(* a connection that was not accepted; the accept loop goes on until a stop,*)
(* and never uses a descriptor there is not (hls_server.cpp:21-102, 136-149)*)
THEOREM HlsSessionsStayInStep ==
  ASSUME Limits \subseteq Nat
  PROVE  Hls!Spec => []Hls!HlsInv
<1>1. AllAgree => Hls!InStep
  BY DEF AllAgree, Agree, Hls!InStep, Hls!At
<1>2. Room => Hls!Limited
  BY SameCardinality DEF Room, OpenClients, Hls!Limited
<1>3. HlsIndInv => Hls!HlsInv
  BY <1>1, <1>2 DEF HlsIndInv, Hls!HlsInv
<1> QED
  BY <1>3, HlsInvariance, PTL

(* What the two threads still have to do until stopServer() has joined the  *)
(* serving thread.                                                          *)
ThreadLeft == [new |-> 3, begun |-> 2, running |-> 1, returned |-> 0]
MainLeft == [serving |-> 3, flagged |-> 2, stopped |-> 1, joined |-> 0]
StepsLeft == ThreadLeft[thread] + MainLeft[main]

Halting ==
  /\ main \in {"stopped", "joined"} => halted
  /\ main = "joined" => thread = "returned"

LEMMA StagesAreNumbers ==
  ASSUME HlsIndInv
  PROVE  ThreadLeft[thread] \in Nat /\ MainLeft[main] \in Nat
<1>1. /\ main \in {"serving", "flagged", "stopped", "joined"}
      /\ thread \in {"new", "begun", "running", "returned"}
  BY DEF HlsIndInv, Hls!TypeOK
<1> QED
  BY <1>1 DEF ThreadLeft, MainLeft

LEMMA HaltingStep ==
  ASSUME HlsIndInv, Halting, [Hls!Next]_(Hls!vars)
  PROVE  /\ Halting'
         /\ UNCHANGED <<main, thread>> \/ StepsLeft' < StepsLeft
         /\ halted => UNCHANGED <<halted, conn, taken, response, answered>>
<1>0. /\ main \in {"serving", "flagged", "stopped", "joined"}
      /\ thread \in {"new", "begun", "running", "returned"}
  BY DEF HlsIndInv, Hls!TypeOK
<1> USE <1>0 DEF Halting, Hls!threads, Hls!traffic, Hls!sessions
<1>1. ASSUME Hls!Thread
      PROVE  /\ Halting' /\ UNCHANGED <<main, halted, conn, taken, response, answered>>
             /\ ThreadLeft[thread'] < ThreadLeft[thread]
  BY <1>1 DEF Hls!Thread, Hls!Begin, Hls!Run, Hls!RunReturns, ThreadLeft
<1>2. ASSUME Hls!StopFlag \/ Hls!Stop
      PROVE  /\ Halting' /\ UNCHANGED <<thread, conn, taken, response, answered>>
             /\ halted => halted'
             /\ MainLeft[main'] < MainLeft[main]
  BY <1>2 DEF Hls!StopFlag, Hls!Stop, Hls!StopContext, Hls!Join, MainLeft
<1>3. ASSUME Hls!OnAcceptError
      PROVE  UNCHANGED <<Hls!threads, conn, taken, response, answered>>
  BY <1>3 DEF Hls!OnAcceptError
<1>4. ASSUME NEW c \in Clients, Hls!OnAccept(c) \/ Hls!Session(c)
      PROVE  ~halted /\ UNCHANGED Hls!threads
  BY <1>4 DEF Hls!OnAccept, Hls!Session, Hls!OnRead, Hls!OnReadError, Hls!OnWrite,
              Hls!OnWriteError, Hls!Deliver, Hls!Serving
<1>5. ASSUME NEW c \in Clients, Hls!Client(c)
      PROVE  UNCHANGED <<Hls!threads, conn, taken, response, answered>>
  BY <1>5 DEF Hls!Client, Hls!SendRequest, Hls!Withdraw
<1>7. ASSUME Hls!Next
      PROVE  /\ Halting'
             /\ halted => UNCHANGED <<conn, taken, response, answered>>
             /\ halted => halted'
             /\ \/ UNCHANGED <<main, thread>>
                \/ main' = main /\ ThreadLeft[thread'] < ThreadLeft[thread]
                \/ thread' = thread /\ MainLeft[main'] < MainLeft[main]
  BY <1>1, <1>2, <1>3, <1>4, <1>5, <1>7 DEF Hls!Next
<1>8. /\ ThreadLeft[thread] \in Nat /\ MainLeft[main] \in Nat
      /\ Hls!Next => ThreadLeft[thread'] \in Nat /\ MainLeft[main'] \in Nat
  BY StagesAreNumbers, ControlStep DEF ThreadLeft, MainLeft
<1>9. ASSUME Hls!Next PROVE UNCHANGED <<main, thread>> \/ StepsLeft' < StepsLeft
  BY <1>7, <1>8, <1>9 DEF StepsLeft
<1>10. ASSUME Hls!Next, halted PROVE halted' = halted
  BY <1>7, <1>10, ControlStep DEF HlsIndInv, Hls!TypeOK
<1>11. CASE Hls!Next
  BY <1>7, <1>9, <1>10, <1>11
<1>12. CASE UNCHANGED Hls!vars
  <2>1. Halting' /\ UNCHANGED <<main, thread, halted, conn, taken, response, answered>>
    BY <1>12 DEF Hls!vars
  <2> QED
    BY <2>1
<1> QED
  BY <1>11, <1>12

(* Stopping ends, and is final: each step of the serving thread or of       *)
(* stopServer() leaves fewer of them to do, and nothing undoes one; once    *)
(* the context is stopped no connection is accepted and nothing more is     *)
(* read or answered, even if the serving thread only starts then and sets   *)
(* running_ again; and when stopServer() has joined, that thread has        *)
(* returned (hls_server.cpp:120-130, main.cpp:78-87).                       *)
THEOREM HlsStopIsFinal ==
  ASSUME Limits \subseteq Nat
  PROVE  Hls!Spec =>
           /\ [](StepsLeft \in Nat)
           /\ [][UNCHANGED <<main, thread>> \/ StepsLeft' < StepsLeft]_(Hls!vars)
           /\ [][halted => UNCHANGED <<halted, conn, taken, response, answered>>]_(Hls!vars)
           /\ [](main = "joined" => thread = "returned" /\ halted)
<1>1. Hls!Init => Halting
  BY DEF Hls!Init, Halting
<1>2. Hls!Spec => []Halting
  BY <1>1, HaltingStep, HlsInvariance, PTL DEF Hls!Spec
<1>3. HlsIndInv => StepsLeft \in Nat
  BY StagesAreNumbers DEF StepsLeft
<1>4. HlsIndInv /\ Halting /\ [Hls!Next]_(Hls!vars)
        => /\ [UNCHANGED <<main, thread>> \/ StepsLeft' < StepsLeft]_(Hls!vars)
           /\ [halted => UNCHANGED <<halted, conn, taken, response, answered>>]_(Hls!vars)
  BY HaltingStep
<1>5. Halting => (main = "joined" => thread = "returned" /\ halted)
  BY DEF Halting
<1> QED
  BY <1>2, <1>3, <1>4, <1>5, HlsInvariance, PTL DEF Hls!Spec

-----------------------------------------------------------------------------
(* What a session still has to do: two steps for each request sent and not  *)
(* read yet, and what its place in the cycle adds.                          *)
RoundLeft == [backlog |-> 2, reading |-> 1, writing |-> 2, kept |-> 0, gone |-> 0]
RoundWeight(p, n, t) == 2 * (n - t) + RoundLeft[p]
RequestsLeft(c) == RoundWeight(conn[c], Len(asked[c]), taken[c])

(* A connection is left with nothing outstanding only when its client has   *)
(* gone or sent something malformed, and dropped only in a stop.            *)
Malformed(q, t) == t < Len(q) /\ q[t + 1] = "malformed"

Abandons ==
  /\ \A c \in Clients :
       /\ conn[c] = "kept" => peer[c] = "left" \/ Malformed(asked[c], taken[c])
       /\ conn[c] = "gone" => main # "serving"
  /\ halted => main \in {"stopped", "joined"}

LEMMA MalformedStays ==
  ASSUME NEW q \in Seq(Hls!Kinds), NEW t \in Nat, NEW k \in Hls!Kinds, Malformed(q, t)
  PROVE  Malformed(Append(q, k), t)
<1>1. /\ Len(Append(q, k)) = Len(q) + 1 /\ Len(q) \in Nat
      /\ \A i \in 1..Len(q) : Append(q, k)[i] = q[i]
  BY AppendProperties, LenProperties
<1> QED
  BY <1>1 DEF Malformed

(* What is left of the sessions: each action, for the session it is about.  *)
SameSession(d) ==
  conn'[d] = conn[d] /\ asked'[d] = asked[d] /\ taken'[d] = taken[d] /\ peer'[d] = peer[d]

LEMMA SessionMoves ==
  ASSUME HlsIndInv, NEW c \in Clients
  PROVE  /\ Hls!OnAccept(c) =>
              /\ conn[c] = "backlog" /\ ~Hls!Full /\ thread = "running"
              /\ conn'[c] = "reading" \/ (conn'[c] = "gone" /\ ~running)
              /\ asked' = asked /\ taken' = taken /\ peer' = peer
         /\ Hls!OnRead(c) =>
              /\ conn[c] = "reading" /\ taken[c] < Len(asked[c])
              /\ conn'[c] = "writing" /\ taken'[c] = taken[c] + 1
              /\ asked' = asked /\ peer' = peer
         /\ Hls!OnReadError(c) =>
              /\ conn[c] = "reading" /\ conn'[c] = "kept"
              /\ peer[c] = "left" \/ Malformed(asked[c], taken[c])
              /\ asked' = asked /\ taken' = taken /\ peer' = peer
         /\ Hls!OnWrite(c) =>
              /\ conn[c] = "writing" /\ conn'[c] = "reading"
              /\ asked' = asked /\ taken' = taken /\ peer' = peer
         /\ Hls!OnWriteError(c) =>
              /\ conn[c] = "writing" /\ conn'[c] = "kept" /\ peer[c] = "left"
              /\ asked' = asked /\ taken' = taken /\ peer' = peer
         /\ Hls!OnAccept(c) \/ Hls!Session(c) =>
              /\ main' = main /\ halted' = halted
              /\ \A d \in Clients : d # c => SameSession(d)
<1>0. /\ conn \in [Clients -> {"backlog", "reading", "writing", "kept", "gone"}]
      /\ taken \in [Clients -> Nat]
  BY DEF HlsIndInv, Hls!TypeOK
<1> USE <1>0 DEF Hls!At, Hls!threads, Hls!sessions
<1>1. Hls!OnAccept(c) =>
        /\ conn[c] = "backlog" /\ ~Hls!Full /\ thread = "running"
        /\ conn'[c] = "reading" \/ (conn'[c] = "gone" /\ ~running)
        /\ asked' = asked /\ taken' = taken /\ peer' = peer
        /\ main' = main /\ halted' = halted
        /\ \A d \in Clients : d # c => conn'[d] = conn[d]
  BY DEF Hls!OnAccept, Hls!Serving
<1>2. Hls!OnRead(c) =>
        /\ conn[c] = "reading" /\ taken[c] < Len(asked[c])
        /\ conn'[c] = "writing" /\ taken'[c] = taken[c] + 1
        /\ asked' = asked /\ peer' = peer
        /\ main' = main /\ halted' = halted
        /\ \A d \in Clients : d # c => conn'[d] = conn[d] /\ taken'[d] = taken[d]
  BY DEF Hls!OnRead, Hls!Unread
<1>3. Hls!OnReadError(c) =>
        /\ conn[c] = "reading" /\ conn'[c] = "kept"
        /\ peer[c] = "left" \/ Malformed(asked[c], taken[c])
        /\ asked' = asked /\ taken' = taken /\ peer' = peer
        /\ main' = main /\ halted' = halted
        /\ \A d \in Clients : d # c => conn'[d] = conn[d]
  BY DEF Hls!OnReadError, Hls!Unread, Hls!Request, Malformed
<1>4. Hls!OnWrite(c) =>
        /\ conn[c] = "writing" /\ conn'[c] = "reading"
        /\ asked' = asked /\ taken' = taken /\ peer' = peer
        /\ main' = main /\ halted' = halted
        /\ \A d \in Clients : d # c => conn'[d] = conn[d]
  BY DEF Hls!OnWrite, Hls!Deliver
<1>5. Hls!OnWriteError(c) =>
        /\ conn[c] = "writing" /\ conn'[c] = "kept" /\ peer[c] = "left"
        /\ asked' = asked /\ taken' = taken /\ peer' = peer
        /\ main' = main /\ halted' = halted
        /\ \A d \in Clients : d # c => conn'[d] = conn[d]
  BY DEF Hls!OnWriteError
<1> QED
  BY <1>1, <1>2, <1>3, <1>4, <1>5 DEF Hls!Session, SameSession

LEMMA OtherMoves ==
  ASSUME HlsIndInv
  PROVE  /\ Hls!Thread \/ Hls!StopFlag \/ Hls!Stop \/ Hls!OnAcceptError =>
              /\ conn' = conn /\ asked' = asked /\ taken' = taken /\ peer' = peer
              /\ main = "serving" \/ main' # "serving"
              /\ \/ halted' = halted /\ (main' = main \/ main = "serving" \/ main' = "joined")
                 \/ main' = "stopped"
         /\ \A c \in Clients, k \in Hls!Kinds : Hls!SendRequest(c, k) =>
              /\ asked'[c] = Append(asked[c], k)
              /\ \A d \in Clients : d # c => asked'[d] = asked[d]
              /\ conn' = conn /\ taken' = taken /\ peer' = peer /\ main' = main /\ halted' = halted
         /\ \A c \in Clients : Hls!Withdraw(c) =>
              /\ conn' = conn /\ asked' = asked /\ taken' = taken /\ main' = main /\ halted' = halted
              /\ \A d \in Clients : peer[d] = "left" => peer'[d] = "left"
<1>0. /\ asked \in [Clients -> Seq(Hls!Kinds)] /\ peer \in [Clients -> {"open", "silent", "left"}]
  BY DEF HlsIndInv, Hls!TypeOK
<1> USE DEF Hls!threads, Hls!sessions, Hls!traffic
<1>1. Hls!Thread \/ Hls!StopFlag \/ Hls!Stop \/ Hls!OnAcceptError =>
        /\ conn' = conn /\ asked' = asked /\ taken' = taken /\ peer' = peer
        /\ main = "serving" \/ main' # "serving"
        /\ \/ halted' = halted /\ (main' = main \/ main = "serving" \/ main' = "joined")
           \/ main' = "stopped"
  BY DEF Hls!Thread, Hls!Begin, Hls!Run, Hls!RunReturns, Hls!StopFlag, Hls!Stop,
         Hls!StopContext, Hls!Join, Hls!OnAcceptError
<1>2. ASSUME NEW c \in Clients, NEW k \in Hls!Kinds, Hls!SendRequest(c, k)
      PROVE  /\ asked'[c] = Append(asked[c], k)
             /\ \A d \in Clients : d # c => asked'[d] = asked[d]
             /\ conn' = conn /\ taken' = taken /\ peer' = peer /\ main' = main /\ halted' = halted
  BY <1>0, <1>2 DEF Hls!SendRequest
<1>3. ASSUME NEW c \in Clients, Hls!Withdraw(c)
      PROVE  /\ conn' = conn /\ asked' = asked /\ taken' = taken /\ main' = main /\ halted' = halted
             /\ \A d \in Clients : peer[d] = "left" => peer'[d] = "left"
  BY <1>0, <1>3 DEF Hls!Withdraw
<1> QED
  BY <1>1, <1>2, <1>3

LEMMA AbandonsStep ==
  ASSUME HlsIndInv, Abandons, Hls!Next
  PROVE  Abandons'
<1>0. /\ Hls!Listening /\ asked \in [Clients -> Seq(Hls!Kinds)] /\ taken \in [Clients -> Nat]
  BY DEF HlsIndInv, Hls!TypeOK
<1>1. CASE Hls!Thread \/ Hls!StopFlag \/ Hls!Stop \/ Hls!OnAcceptError
  <2>1. /\ conn' = conn /\ asked' = asked /\ taken' = taken /\ peer' = peer
        /\ main = "serving" \/ main' # "serving"
        /\ \/ halted' = halted /\ (main' = main \/ main = "serving" \/ main' = "joined")
           \/ main' = "stopped"
    BY <1>1, OtherMoves
  <2> QED
    BY <2>1 DEF Abandons
<1>2. ASSUME NEW c \in Clients, Hls!OnAccept(c) \/ Hls!Session(c) PROVE Abandons'
  <2>1. /\ main' = main /\ halted' = halted
        /\ \A d \in Clients : d # c => SameSession(d)
    BY <1>2, SessionMoves
  <2>2. /\ conn'[c] = "kept" => peer'[c] = "left" \/ Malformed(asked'[c], taken'[c])
        /\ conn'[c] = "gone" => main' # "serving"
    <3>1. CASE Hls!OnAccept(c)
      BY <1>0, <2>1, <3>1, SessionMoves DEF Hls!Listening
    <3>2. CASE Hls!OnRead(c) \/ Hls!OnWrite(c)
      BY <3>2, SessionMoves
    <3>3. CASE Hls!OnReadError(c)
      BY <3>3, SessionMoves
    <3>4. CASE Hls!OnWriteError(c)
      BY <3>4, SessionMoves
    <3> QED
      BY <1>2, <3>1, <3>2, <3>3, <3>4 DEF Hls!Session
  <2>3. ASSUME NEW d \in Clients, d # c
        PROVE  /\ conn'[d] = "kept" => peer'[d] = "left" \/ Malformed(asked'[d], taken'[d])
               /\ conn'[d] = "gone" => main' # "serving"
    BY <2>1, <2>3 DEF Abandons, SameSession
  <2> QED
    BY <2>1, <2>2, <2>3 DEF Abandons
<1>3. ASSUME NEW c \in Clients, NEW k \in Hls!Kinds, Hls!SendRequest(c, k) PROVE Abandons'
  <2>1. /\ asked'[c] = Append(asked[c], k) /\ \A d \in Clients : d # c => asked'[d] = asked[d]
        /\ conn' = conn /\ taken' = taken /\ peer' = peer /\ main' = main /\ halted' = halted
    BY <1>3, OtherMoves
  <2>2. Malformed(asked[c], taken[c]) => Malformed(asked'[c], taken'[c])
    BY <1>0, <2>1, MalformedStays
  <2>3. \A d \in Clients : Malformed(asked[d], taken[d]) => Malformed(asked'[d], taken'[d])
    BY <2>1, <2>2
  <2> QED
    BY <2>1, <2>3 DEF Abandons
<1>4. ASSUME NEW c \in Clients, Hls!Withdraw(c) PROVE Abandons'
  <2>1. /\ conn' = conn /\ asked' = asked /\ taken' = taken /\ main' = main /\ halted' = halted
        /\ \A d \in Clients : peer[d] = "left" => peer'[d] = "left"
    BY <1>4, OtherMoves
  <2> QED
    BY <2>1 DEF Abandons
<1> QED
  BY <1>1, <1>2, <1>3, <1>4 DEF Hls!Next, Hls!Client

(* Requests are counted, and none is read that was not sent.                *)
LEMMA RequestCounts ==
  ASSUME HlsIndInv, NEW c \in Clients
  PROVE  /\ Len(asked[c]) \in Nat /\ taken[c] \in Nat /\ taken[c] <= Len(asked[c])
         /\ RoundLeft[conn[c]] \in 0..2
<1>1. /\ conn[c] \in {"backlog", "reading", "writing", "kept", "gone"}
      /\ asked[c] \in Seq(Hls!Kinds) /\ taken[c] \in Nat
  BY DEF HlsIndInv, Hls!TypeOK
<1>2. taken[c] <= Len(asked[c])
  BY DEF HlsIndInv, AllAgree, Agree
<1>3. RoundLeft[conn[c]] \in 0..2
  BY <1>1 DEF RoundLeft
<1> QED
  BY <1>1, <1>2, <1>3, LenProperties

LEMMA RequestsFall ==
  ASSUME HlsIndInv, Hls!Next, NEW c \in Clients
  PROVE  /\ Hls!OnAccept(c) \/ Hls!Session(c) => RequestsLeft(c)' < RequestsLeft(c)
         /\ asked'[c] = asked[c] => RequestsLeft(c)' <= RequestsLeft(c)
<1>0. Len(asked[c]) \in Nat /\ taken[c] \in Nat /\ RoundLeft[conn[c]] \in 0..2
  BY RequestCounts
<1>1. ASSUME Hls!OnAccept(c) \/ Hls!Session(c) PROVE RequestsLeft(c)' < RequestsLeft(c)
  <2>1. asked'[c] = asked[c]
    BY <1>1, SessionMoves DEF Hls!Session
  <2>2. \/ taken'[c] = taken[c] /\ RoundLeft[conn'[c]] \in 0..2 /\ RoundLeft[conn'[c]] < RoundLeft[conn[c]]
        \/ taken'[c] = taken[c] + 1 /\ RoundLeft[conn'[c]] = 2 /\ RoundLeft[conn[c]] = 1
    <3>1. CASE Hls!OnAccept(c)
      BY <3>1, SessionMoves DEF RoundLeft
    <3>2. CASE Hls!OnRead(c)
      BY <3>2, SessionMoves DEF RoundLeft
    <3>3. CASE Hls!OnReadError(c)
      BY <3>3, SessionMoves DEF RoundLeft
    <3>4. CASE Hls!OnWrite(c)
      BY <3>4, SessionMoves DEF RoundLeft
    <3>5. CASE Hls!OnWriteError(c)
      BY <3>5, SessionMoves DEF RoundLeft
    <3> QED
      BY <1>1, <3>1, <3>2, <3>3, <3>4, <3>5 DEF Hls!Session
  <2>3. RequestsLeft(c)' = 2 * (Len(asked[c]) - taken'[c]) + RoundLeft[conn'[c]]
    BY <2>1 DEF RequestsLeft, RoundWeight, RoundLeft
  <2>4. RequestsLeft(c) = 2 * (Len(asked[c]) - taken[c]) + RoundLeft[conn[c]]
    BY DEF RequestsLeft, RoundWeight
  <2>5. \A n, t \in Nat, x, y \in 0..2 :
          /\ x < y => 2 * (n - t) + x < 2 * (n - t) + y
          /\ 2 * (n - (t + 1)) + 2 < 2 * (n - t) + 1
    OBVIOUS
  <2> DEFINE n == Len(asked[c])
             x == RoundLeft[conn'[c]]
             y == RoundLeft[conn[c]]
  <2>6. n \in Nat /\ taken[c] \in Nat /\ x \in 0..2 /\ y \in 0..2
    BY <1>0, <2>2
  <2>7. /\ RequestsLeft(c)' = 2 * (n - taken'[c]) + x /\ RequestsLeft(c) = 2 * (n - taken[c]) + y
        /\ \/ taken'[c] = taken[c] /\ x < y
           \/ taken'[c] = taken[c] + 1 /\ x = 2 /\ y = 1
    BY <2>2, <2>3, <2>4
  <2> HIDE DEF n, x, y
  <2> QED
    BY <2>5, <2>6, <2>7
<1>2. ASSUME asked'[c] = asked[c] PROVE RequestsLeft(c)' <= RequestsLeft(c)
  <2>0. RequestsLeft(c) \in Int
    BY <1>0 DEF RequestsLeft, RoundWeight
  <2>1. CASE Hls!OnAccept(c) \/ Hls!Session(c)
    <3>1. RequestsLeft(c)' < RequestsLeft(c)
      BY <1>1, <2>1
    <3>2. RequestsLeft(c)' \in Int
      <4>1. RoundLeft[conn'[c]] \in 0..2 /\ taken'[c] \in Nat
        BY <1>0, <2>1, SessionMoves DEF Hls!Session, RoundLeft
      <4> QED
        BY <1>0, <1>2, <4>1 DEF RequestsLeft, RoundWeight, RoundLeft
    <3> QED
      BY <2>0, <3>1, <3>2
  <2>2. CASE ~(Hls!OnAccept(c) \/ Hls!Session(c))
    <3>1. conn'[c] = conn[c] /\ taken'[c] = taken[c]
      <4>1. ASSUME NEW d \in Clients, Hls!OnAccept(d) \/ Hls!Session(d)
            PROVE  conn'[c] = conn[c] /\ taken'[c] = taken[c]
        BY <2>2, <4>1, SessionMoves DEF SameSession
      <4> QED
        BY <4>1, OtherMoves DEF Hls!Next, Hls!Client
    <3>2. RequestsLeft(c)' = RequestsLeft(c)
      BY <1>2, <3>1 DEF RequestsLeft, RoundWeight, RoundLeft
    <3> QED
      BY <2>0, <3>2
  <2> QED
    BY <2>1, <2>2
<1> QED
  BY <1>1, <1>2

(* Nobody's requests are dropped silently: while the server runs and is not *)
(* stopped, a client that stays and is owed a response waits to be accepted *)
(* and an accept is outstanding, or its next request is there to be read,   *)
(* or its response is under way; or it has sent something malformed.  Each  *)
(* step of its session brings it nearer to its answers, the steps of others *)
(* never set it back.  All that Served asks for besides is fairness         *)
(* (hls_server.cpp:21-102, 136-149).                                        *)
THEOREM HlsRequestsGoOn ==
  ASSUME Limits \subseteq Nat
  PROVE  Hls!Spec =>
           /\ [](\A c \in Clients : RequestsLeft(c) \in 0..(2 + 2 * Len(asked[c])))
           /\ [][\A c \in Clients :
                   /\ Hls!OnAccept(c) \/ Hls!Session(c) => RequestsLeft(c)' < RequestsLeft(c)
                   /\ asked'[c] = asked[c] => RequestsLeft(c)' <= RequestsLeft(c)]_(Hls!vars)
           /\ [](thread = "running" /\ main = "serving" =>
                   /\ Hls!Serving /\ accepting
                   /\ \A c \in Clients :
                        peer[c] = "open" /\ Len(answered[c]) < Len(asked[c]) =>
                          \/ conn[c] = "backlog"
                          \/ conn[c] = "reading" /\ taken[c] < Len(asked[c])
                          \/ conn[c] = "writing"
                          \/ conn[c] = "kept" /\ Malformed(asked[c], taken[c]))
<1> DEFINE Numbers == \A c \in Clients : RequestsLeft(c) \in 0..(2 + 2 * Len(asked[c]))
           Nearer ==
             \A c \in Clients :
               /\ Hls!OnAccept(c) \/ Hls!Session(c) => RequestsLeft(c)' < RequestsLeft(c)
               /\ asked'[c] = asked[c] => RequestsLeft(c)' <= RequestsLeft(c)
           Awaited ==
             thread = "running" /\ main = "serving" =>
               /\ Hls!Serving /\ accepting
               /\ \A c \in Clients :
                    peer[c] = "open" /\ Len(answered[c]) < Len(asked[c]) =>
                      \/ conn[c] = "backlog"
                      \/ conn[c] = "reading" /\ taken[c] < Len(asked[c])
                      \/ conn[c] = "writing"
                      \/ conn[c] = "kept" /\ Malformed(asked[c], taken[c])
<1>1. Hls!Init => Abandons
  BY DEF Hls!Init, Abandons
<1>2. HlsIndInv /\ Abandons /\ [Hls!Next]_(Hls!vars) => Abandons'
  <2>1. HlsIndInv /\ Abandons /\ UNCHANGED Hls!vars => Abandons'
    BY DEF Hls!vars, Hls!threads, Hls!traffic, Hls!sessions, Abandons
  <2> QED
    BY <2>1, AbandonsStep
<1>3. HlsIndInv => Numbers
  BY RequestCounts DEF RequestsLeft, RoundWeight
<1>4. HlsIndInv /\ [Hls!Next]_(Hls!vars) => [Nearer]_(Hls!vars)
  BY RequestsFall
<1>5. HlsIndInv /\ Abandons => Awaited
  <2> SUFFICES ASSUME HlsIndInv, Abandons, thread = "running", main = "serving"
               PROVE  /\ Hls!Serving /\ accepting
                      /\ \A c \in Clients :
                           peer[c] = "open" /\ Len(answered[c]) < Len(asked[c]) =>
                             \/ conn[c] = "backlog"
                             \/ conn[c] = "reading" /\ taken[c] < Len(asked[c])
                             \/ conn[c] = "writing"
                             \/ conn[c] = "kept" /\ Malformed(asked[c], taken[c])
    OBVIOUS
  <2>1. Hls!Serving /\ accepting
    BY DEF HlsIndInv, Hls!TypeOK, Hls!Listening, Abandons, Hls!Serving
  <2>2. ASSUME NEW c \in Clients, peer[c] = "open", Len(answered[c]) < Len(asked[c])
        PROVE  \/ conn[c] = "backlog"
               \/ conn[c] = "reading" /\ taken[c] < Len(asked[c])
               \/ conn[c] = "writing"
               \/ conn[c] = "kept" /\ Malformed(asked[c], taken[c])
    <3>1. conn[c] \in {"backlog", "reading", "writing", "kept", "gone"}
      BY DEF HlsIndInv, Hls!TypeOK
    <3>2. conn[c] = "reading" => Len(answered[c]) = taken[c]
      BY DEF HlsIndInv, AllAgree, Agree
    <3>3. conn[c] # "gone" /\ (conn[c] = "kept" => Malformed(asked[c], taken[c]))
      BY <2>2 DEF Abandons
    <3> QED
      BY <2>2, <3>1, <3>2, <3>3
  <2> QED
    BY <2>1, <2>2
<1> HIDE DEF Numbers, Nearer, Awaited
<1>6. Hls!Spec => []Numbers /\ [][Nearer]_(Hls!vars) /\ []Awaited
  BY <1>1, <1>2, <1>3, <1>4, <1>5, HlsInvariance, PTL DEF Hls!Spec
<1> QED
  BY <1>6 DEF Numbers, Nearer, Awaited

(* No descriptor ever comes back, because no session is ever released: when *)
(* all are used, they stay used, and who waits to be accepted then waits    *)
(* for ever, whatever the others do (hls_server.cpp:21-102, 136-149).       *)
THEOREM HlsFullForGood ==
  ASSUME Limits \subseteq Nat
  PROVE  Hls!Spec =>
           [][Hls!Full =>
                /\ Hls!Full'
                /\ \A c \in Clients : conn[c] = "backlog" => conn'[c] = "backlog"]_(Hls!vars)
<1> DEFINE Stays == Hls!Full =>
                      /\ Hls!Full'
                      /\ \A c \in Clients : conn[c] = "backlog" => conn'[c] = "backlog"
<1>1. HlsIndInv /\ HlsIndInv' /\ [Hls!Next]_(Hls!vars) => [Stays]_(Hls!vars)
  <2> SUFFICES ASSUME HlsIndInv, HlsIndInv', Hls!Next, Hls!Full
               PROVE  /\ Hls!Full'
                      /\ \A c \in Clients : conn[c] = "backlog" => conn'[c] = "backlog"
    OBVIOUS
  <2>0. /\ conn \in [Clients -> {"backlog", "reading", "writing", "kept", "gone"}]
        /\ IsFiniteSet(OpenClients') /\ Cardinality(OpenClients) >= limit
    <3>1. Cardinality(OpenClients) >= limit
      BY SameCardinality DEF Hls!Full, OpenClients
    <3> QED
      BY <3>1 DEF HlsIndInv, Hls!TypeOK, Room
  <2>1. limit' = limit
    BY DEF Hls!Next, Hls!Thread, Hls!Begin, Hls!Run, Hls!RunReturns, Hls!StopFlag, Hls!Stop,
           Hls!StopContext, Hls!Join, Hls!OnAcceptError, Hls!OnAccept, Hls!Session, Hls!OnRead,
           Hls!OnReadError, Hls!OnWrite, Hls!Deliver, Hls!OnWriteError, Hls!Client,
           Hls!SendRequest, Hls!Withdraw, Hls!threads
  <2>2. ASSUME NEW d \in Clients
        PROVE  /\ conn[d] = "backlog" => conn'[d] = "backlog"
               /\ Hls!Open(d) => Hls!Open(d)'
    <3>1. ASSUME NEW c \in Clients, Hls!OnAccept(c) \/ Hls!Session(c)
          PROVE  /\ conn[d] = "backlog" => conn'[d] = "backlog"
                 /\ Hls!Open(d) => Hls!Open(d)'
      <4>1. CASE d # c
        BY <3>1, <4>1, SessionMoves DEF SameSession, Hls!Open
      <4>2. CASE d = c
        BY <3>1, <4>2, SessionMoves DEF Hls!Session, Hls!Open
      <4> QED
        BY <4>1, <4>2
    <3>2. CASE conn' = conn
      BY <3>2 DEF Hls!Open
    <3> QED
      BY <3>1, <3>2, OtherMoves DEF Hls!Next, Hls!Client
  <2>3. OpenClients \subseteq OpenClients'
    BY <2>2 DEF OpenClients
  <2>4. /\ Cardinality(OpenClients) <= Cardinality(OpenClients')
        /\ Cardinality(OpenClients) \in Nat /\ Cardinality(OpenClients') \in Nat
    BY <2>0, <2>3, FS_Subset, FS_CardinalityType
  <2>5. limit \in Nat
    BY DEF HlsIndInv, Hls!TypeOK
  <2>6. Cardinality(OpenClients') >= limit'
    BY <2>0, <2>1, <2>4, <2>5
  <2>7. Hls!Full'
    BY <2>6, SameCardinality DEF Hls!Full, OpenClients
  <2> QED
    BY <2>2, <2>7
<1> HIDE DEF Stays
<1>2. Hls!Spec => [][Stays]_(Hls!vars)
  BY <1>1, HlsInvariance, PTL DEF Hls!Spec
<1> QED
  BY <1>2 DEF Stays
=============================================================================
