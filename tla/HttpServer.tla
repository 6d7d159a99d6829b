----------------------------- MODULE HttpServer -----------------------------
(***************************************************************************)
(* HttpServer and HttpSession (common/restful): one thread runs the        *)
(* io_context and with it the accept loop and every session.  A session    *)
(* reads a request, runs its handler on that thread, writes the response   *)
(* and reads again.  A handler ends with a response whatever happens in it *)
(* (RestApiHandlerBase turns exceptions into one), but may wait: those     *)
(* that send a mail wait for its result for up to 30 seconds.              *)
(*                                                                         *)
(* The stream's deadline is set when a read starts and stays in force for  *)
(* the write that follows.  Time is not counted: a deadline may pass at    *)
(* any moment, and then races whatever else completes.                     *)
(***************************************************************************)
EXTENDS Naturals, Sequences, FiniteSetsExt

CONSTANTS
  Clients,        (* each opens one connection                               *)
  MaxRequests,    (* bound on the requests of all clients together           *)
  MaxAcceptErrors,(* bound on the failures of async_accept                   *)
  Idle            (* no handler occupies the thread                          *)

ASSUME HttpAssumption ==
  /\ MaxRequests \in Nat
  /\ MaxAcceptErrors \in Nat
  /\ Idle \notin Clients

(* "closing": answered by a response that needs the end of the stream, an   *)
(* OPTIONS request of HTTP/1.0; any other response says HTTP/1.1 and keeps  *)
(* the connection, whatever the request asked for.                          *)
Kinds == {"ordinary", "closing", "malformed"}

VARIABLES
  accepting,  (* an async_accept is outstanding                              *)
  errors,     (* accept errors so far                                        *)
  conn,       (* the connection of each client: "backlog" (not accepted yet),*)
              (* "reading", "handling", "writing", "gone"                    *)
  peer,       (* the client's end: "open", "shut" (no more requests),        *)
              (* "reset"                                                     *)
  inbox,      (* requests that have arrived and were not read                *)
  sent,       (* how many the client sent                                    *)
  request,    (* kind of the request being handled or answered, or "none"    *)
  deadline,   (* "none", "set", "passed"                                     *)
  loop,       (* the client whose handler occupies the thread                *)
  taken,      (* requests handed to the handler                              *)
  answered    (* responses written without an error                          *)

accept == <<accepting, errors>>
client == <<peer, inbox, sent>>
count == <<taken, answered>>
vars == <<accept, client, conn, request, deadline, loop, count>>

Free == loop = Idle
At(c, place) == conn[c] = place
Alive(c) == conn[c] \in {"reading", "handling", "writing"}

-----------------------------------------------------------------------------
(* Clients and time                                                         *)

(* What a client does on a connection that is over concerns nobody.         *)
SendRequest(c, k) ==
  /\ ~At(c, "gone")
  /\ peer[c] = "open"
  /\ MapThenSumSet(LAMBDA d : sent[d], Clients) < MaxRequests
  /\ sent' = [sent EXCEPT ![c] = @ + 1]
  /\ inbox' = [inbox EXCEPT ![c] = Append(@, k)]
  /\ UNCHANGED <<accept, peer, conn, request, deadline, loop, count>>

Leave(c) ==
  /\ ~At(c, "gone")
  /\ peer[c] = "open"
  /\ \E how \in {"shut", "reset"} : peer' = [peer EXCEPT ![c] = how]
  /\ UNCHANGED <<accept, inbox, sent, conn, request, deadline, loop, count>>

DeadlinePasses(c) ==
  /\ Alive(c)
  /\ deadline[c] = "set"
  /\ deadline' = [deadline EXCEPT ![c] = "passed"]
  /\ UNCHANGED <<accept, client, conn, request, loop, count>>

-----------------------------------------------------------------------------
(* doAccept and onAccept                                                    *)

(* Mutant of StartRead: the read has no deadline.                           *)
StartReadUntimed(c) ==
  /\ conn' = [conn EXCEPT ![c] = "reading"]
  /\ deadline' = [deadline EXCEPT ![c] = "none"]

(* doRead: the deadline counts from here, and a read is outstanding.        *)
StartRead(c) ==
  /\ conn' = [conn EXCEPT ![c] = "reading"]
  /\ deadline' = [deadline EXCEPT ![c] = "set"]

OnAccept(c) ==
  /\ Free
  /\ accepting
  /\ At(c, "backlog")
  /\ accepting' = TRUE
  /\ StartRead(c)
  /\ UNCHANGED <<errors, client, request, loop, count>>

(* Mutant of OnAcceptError: a failed accept is the last.                    *)
GiveUpAccepting ==
  /\ Free
  /\ accepting
  /\ errors < MaxAcceptErrors
  /\ errors' = errors + 1
  /\ accepting' = FALSE
  /\ UNCHANGED <<client, conn, request, deadline, loop, count>>

OnAcceptError ==
  /\ Free
  /\ accepting
  /\ errors < MaxAcceptErrors
  /\ errors' = errors + 1
  /\ accepting' = TRUE
  /\ UNCHANGED <<client, conn, request, deadline, loop, count>>

-----------------------------------------------------------------------------
(* onRead                                                                   *)

(* The session has no operation left and is destroyed with its buffer.      *)
End(c) ==
  /\ conn' = [conn EXCEPT ![c] = "gone"]
  /\ deadline' = [deadline EXCEPT ![c] = "none"]
  /\ inbox' = [inbox EXCEPT ![c] = <<>>]

OnRead(c) ==
  /\ Free
  /\ At(c, "reading")
  /\ inbox[c] # <<>>
  /\ Head(inbox[c]) # "malformed"
  /\ request' = [request EXCEPT ![c] = Head(inbox[c])]
  /\ inbox' = [inbox EXCEPT ![c] = Tail(@)]
  /\ conn' = [conn EXCEPT ![c] = "handling"]
  /\ loop' = c
  /\ taken' = [taken EXCEPT ![c] = @ + 1]
  /\ UNCHANGED <<accept, peer, sent, deadline, answered>>

(* The read fails: the deadline passed, the request cannot be parsed, the   *)
(* connection is reset, or (the one that shuts the socket down first) the   *)
(* stream ended.                                                            *)
ReadFails(c) ==
  \/ deadline[c] = "passed"
  \/ inbox[c] # <<>> /\ Head(inbox[c]) = "malformed"
  \/ peer[c] = "reset"
  \/ peer[c] = "shut" /\ inbox[c] = <<>>

OnReadError(c) ==
  /\ Free
  /\ At(c, "reading")
  /\ ReadFails(c)
  /\ End(c)
  /\ UNCHANGED <<accept, peer, sent, request, loop, count>>

(* handleRequest returns and the write is started; res_ keeps the response. *)
Respond(c) ==
  /\ loop = c
  /\ loop' = Idle
  /\ conn' = [conn EXCEPT ![c] = "writing"]
  /\ UNCHANGED <<accept, client, request, deadline, count>>

-----------------------------------------------------------------------------
(* onWrite                                                                  *)

OnWrite(c) ==
  /\ Free
  /\ At(c, "writing")
  /\ peer[c] # "reset"
  /\ answered' = [answered EXCEPT ![c] = @ + 1]
  /\ request' = [request EXCEPT ![c] = "none"]
  /\ IF request[c] = "closing" THEN End(c) ELSE StartRead(c) /\ UNCHANGED inbox
  /\ UNCHANGED <<accept, peer, sent, loop, taken>>

(* Mutant of OnWriteError: the next read follows a failed write.            *)
OnWriteErrorGoesOn(c) ==
  /\ Free
  /\ At(c, "writing")
  /\ deadline[c] = "passed" \/ peer[c] = "reset"
  /\ StartRead(c)
  /\ request' = [request EXCEPT ![c] = "none"]
  /\ UNCHANGED <<accept, client, loop, count>>

(* The deadline that was set for the read has passed, or the client is      *)
(* gone.  Some or all of the response may have left by then.                *)
OnWriteError(c) ==
  /\ Free
  /\ At(c, "writing")
  /\ deadline[c] = "passed" \/ peer[c] = "reset"
  /\ End(c)
  /\ request' = [request EXCEPT ![c] = "none"]
  /\ UNCHANGED <<accept, peer, sent, loop, count>>

-----------------------------------------------------------------------------
Init ==
  /\ accepting = TRUE
  /\ errors = 0
  /\ conn = [c \in Clients |-> "backlog"]
  /\ peer = [c \in Clients |-> "open"]
  /\ inbox = [c \in Clients |-> <<>>]
  /\ sent = [c \in Clients |-> 0]
  /\ request = [c \in Clients |-> "none"]
  /\ deadline = [c \in Clients |-> "none"]
  /\ loop = Idle
  /\ taken = [c \in Clients |-> 0]
  /\ answered = [c \in Clients |-> 0]

ClientStep(c) == (\E k \in Kinds : SendRequest(c, k)) \/ Leave(c)

Completion(c) == OnAccept(c) \/ OnRead(c) \/ OnReadError(c) \/ OnWrite(c) \/ OnWriteError(c)

Next ==
  \/ \E c \in Clients : ClientStep(c) \/ DeadlinePasses(c) \/ Completion(c) \/ Respond(c)
  \/ OnAcceptError

Spec == Init /\ [][Next]_vars

(* The io_context runs completed operations in the order of its queue, so   *)
(* none is passed over for ever although another session's handler may      *)
(* occupy the thread again and again (strong fairness).  Handlers end: the  *)
(* wait for a mail is limited.  Time passes.  Clients owe nothing.          *)
Fairness ==
  /\ \A c \in Clients :
       SF_vars(OnAccept(c)) /\ SF_vars(OnRead(c) \/ OnReadError(c))
       /\ SF_vars(OnWrite(c) \/ OnWriteError(c))
  /\ \A c \in Clients : WF_vars(Respond(c)) /\ WF_vars(DeadlinePasses(c))

FairSpec == Spec /\ Fairness

-----------------------------------------------------------------------------
(* Properties                                                               *)

(* Types, and the thread is occupied exactly by the session whose handler   *)
(* runs.                                                                    *)
TypeOK ==
  /\ accepting \in BOOLEAN /\ errors \in 0..MaxAcceptErrors
  /\ conn \in [Clients -> {"backlog", "reading", "handling", "writing", "gone"}]
  /\ peer \in [Clients -> {"open", "shut", "reset"}]
  /\ inbox \in [Clients -> Seq(Kinds)]
  /\ sent \in [Clients -> 0..MaxRequests]
  /\ request \in [Clients -> Kinds \cup {"none"}]
  /\ deadline \in [Clients -> {"none", "set", "passed"}]
  /\ loop \in Clients \cup {Idle}
  /\ taken \in [Clients -> 0..MaxRequests]
  /\ answered \in [Clients -> 0..MaxRequests]
  /\ \A c \in Clients : loop = c <=> At(c, "handling")

(* Responses are in step with requests, pipelined ones included: a session  *)
(* that reads has answered all it read, one that handles or writes owes one *)
(* answer, and no request is read twice or passed over                      *)
(* (http_server.cpp:65-108).                                                *)
InStep ==
  \A c \in Clients :
    /\ At(c, "reading") => answered[c] = taken[c]
    /\ conn[c] \in {"handling", "writing"} => answered[c] + 1 = taken[c]
    /\ conn[c] # "gone" => taken[c] + Len(inbox[c]) = sent[c]

(* Every session ends: a silent client is cut off by its deadline, and so   *)
(* is one whose response cannot be delivered, so that no request is left    *)
(* hanging by another session's handler or by a deadline that passed while  *)
(* its own handler ran (http_server.cpp:63-108).                            *)
SessionsEnd == \A c \in Clients : Alive(c) ~> At(c, "gone")

(* Every connection is accepted, also after accept errors and while other   *)
(* sessions keep the thread busy (http_server.cpp:38-52).                   *)
AllAccepted == \A c \in Clients : At(c, "backlog") ~> At(c, "reading")
=============================================================================
