----------------------------- MODULE HlsServer ------------------------------
(***************************************************************************)
(* HlsServer (video_service/infrastructure/hls_server.cpp): a thread that  *)
(* calls startServer() and runs the io_context, with it the accept loop    *)
(* and every session, and a main thread that calls stopServer() and joins  *)
(* it, possibly before it has started (main.cpp:78-87).                    *)
(*                                                                         *)
(* A session is never taken out of sessions_, so that its socket stays     *)
(* open when its chain of operations has ended, and there are only so many *)
(* descriptors.  A response is a local variable of the function that       *)
(* starts to write it: what does not fit into the socket at once is later  *)
(* sent from memory that belongs to somebody else.  Nothing has a deadline.*)
(***************************************************************************)
EXTENDS Naturals, Sequences, FiniteSetsExt

CONSTANTS
  Clients,        (* each opens one connection                               *)
  MaxRequests,    (* bound on the requests of all clients together           *)
  Limits          (* numbers of descriptors there may be for connections     *)

ASSUME HlsAssumption ==
  /\ MaxRequests \in Nat
  /\ Limits \subseteq Nat

VARIABLES
  limit,      (* descriptors there are for connections                       *)
  main,       (* "serving", "flagged" and "stopped" in stopServer(), "joined"*)
  thread,     (* the serving thread: "new", "begun", "running", "returned"   *)
  running,    (* running_                                                    *)
  halted,     (* ioc_.stop() was called                                      *)
  accepting,  (* an async_accept is outstanding                              *)
  conn,       (* the connection of each client: "backlog" (not accepted yet),*)
              (* "reading", "writing", "kept" (nothing outstanding), "gone"  *)
  peer,       (* the client: "open", "silent" (neither sends nor reads any   *)
              (* more), "left"                                               *)
  asked,      (* requests it has sent, by what the target ends in            *)
  taken,      (* how many of them were read                                  *)
  response,   (* the response being written: its status and whether it fits  *)
  answered    (* responses the client has: status, and whether damaged       *)

threads == <<limit, main, thread, running, halted>>
sessions == <<taken, response, answered>>
traffic == <<conn, peer, asked, sessions>>
vars == <<threads, accepting, traffic>>

(* A playlist or a segment, another target, or no request at all.           *)
Kinds == {"file", "other", "malformed"}
Statuses(k) == IF k = "other" THEN {"bad request"} ELSE {"ok", "not found"}
Fits == {"short", "long"}

At(c, place) == conn[c] = place
Open(c) == conn[c] \in {"reading", "writing", "kept"}
Full == Cardinality({c \in Clients : Open(c)}) >= limit
Unread(c) == taken[c] < Len(asked[c])
Request(c) == asked[c][taken[c] + 1]

(* Handlers run on the serving thread, one at a time, until run() returns.  *)
Serving == thread = "running" /\ ~halted

-----------------------------------------------------------------------------
(* startServer and stopServer                                               *)

(* running_ is set whatever it was, and the first accept started.           *)
Begin ==
  /\ thread = "new"
  /\ thread' = "begun"
  /\ running' = TRUE
  /\ accepting' = TRUE
  /\ UNCHANGED <<limit, main, halted, conn, peer, asked, sessions>>

(* Mutant of Run: the context is restarted before it runs.                  *)
RunRestarted ==
  /\ thread = "begun"
  /\ thread' = "running"
  /\ halted' = FALSE
  /\ UNCHANGED <<limit, main, running, accepting, traffic>>

(* run() on a context that was stopped returns at once.                     *)
Run ==
  /\ thread = "begun"
  /\ thread' = IF halted THEN "returned" ELSE "running"
  /\ UNCHANGED <<limit, main, running, halted, accepting, traffic>>

NoWork == ~accepting /\ \A c \in Clients : ~At(c, "reading") /\ ~At(c, "writing")

RunReturns ==
  /\ thread = "running"
  /\ halted \/ NoWork
  /\ thread' = "returned"
  /\ UNCHANGED <<limit, main, running, halted, accepting, traffic>>

StopFlag ==
  /\ main = "serving"
  /\ main' = "flagged"
  /\ running' = FALSE
  /\ UNCHANGED <<limit, thread, halted, accepting, traffic>>

StopContext ==
  /\ main = "flagged"
  /\ main' = "stopped"
  /\ halted' = TRUE
  /\ UNCHANGED <<limit, thread, running, accepting, traffic>>

Join ==
  /\ main = "stopped" /\ thread = "returned"
  /\ main' = "joined"
  /\ UNCHANGED <<limit, thread, running, halted, accepting, traffic>>

-----------------------------------------------------------------------------
(* doAccept                                                                 *)

(* Mutant of OnAccept: the next accept is forgotten.                        *)
OnAcceptOnce(c) ==
  /\ Serving /\ accepting
  /\ At(c, "backlog") /\ ~Full
  /\ conn' = [conn EXCEPT ![c] = IF running THEN "reading" ELSE "gone"]
  /\ accepting' = FALSE
  /\ UNCHANGED <<threads, peer, asked, sessions>>

(* A connection that comes when running_ is already unset is dropped.       *)
OnAccept(c) ==
  /\ Serving /\ accepting
  /\ At(c, "backlog") /\ ~Full
  /\ conn' = [conn EXCEPT ![c] = IF running THEN "reading" ELSE "gone"]
  /\ accepting' = running
  /\ UNCHANGED <<threads, peer, asked, sessions>>

(* Without a descriptor every accept fails at once, for as long as somebody *)
(* wants to connect.                                                        *)
OnAcceptError ==
  /\ Serving /\ accepting
  /\ Full /\ \E c \in Clients : At(c, "backlog")
  /\ accepting' = running
  /\ UNCHANGED <<threads, conn, peer, asked, sessions>>

-----------------------------------------------------------------------------
(* Session                                                                  *)

(* handleRequest: the files are read here, and the write is started.        *)
OnRead(c) ==
  /\ Serving
  /\ At(c, "reading") /\ Unread(c) /\ Request(c) # "malformed"
  /\ taken' = [taken EXCEPT ![c] = @ + 1]
  /\ \E s \in Statuses(Request(c)), f \in Fits :
       /\ f = "long" => s = "ok"
       /\ response' = [response EXCEPT ![c] = [status |-> s, fits |-> f]]
  /\ conn' = [conn EXCEPT ![c] = "writing"]
  /\ UNCHANGED <<threads, accepting, peer, asked, answered>>

(* The session does no more, and is not destroyed either.                   *)
OnReadError(c) ==
  /\ Serving
  /\ At(c, "reading")
  /\ IF Unread(c) THEN Request(c) = "malformed" ELSE peer[c] = "left"
  /\ conn' = [conn EXCEPT ![c] = "kept"]
  /\ UNCHANGED <<threads, accepting, peer, asked, sessions>>

(* A client that does not read holds up what does not fit into the socket.  *)
Deliver(c) ==
  /\ Serving
  /\ At(c, "writing")
  /\ peer[c] = "open" \/ response[c].fits = "short"
  /\ \E damaged \in BOOLEAN :
       /\ damaged => response[c].fits = "long"
       /\ answered' = [answered EXCEPT
            ![c] = Append(@, [status |-> response[c].status, damaged |-> damaged])]

(* Mutant of OnWrite: the next read is forgotten.                           *)
OnWriteOnly(c) ==
  /\ Deliver(c)
  /\ conn' = [conn EXCEPT ![c] = "kept"]
  /\ UNCHANGED <<threads, accepting, peer, asked, taken, response>>

OnWrite(c) ==
  /\ Deliver(c)
  /\ conn' = [conn EXCEPT ![c] = "reading"]
  /\ UNCHANGED <<threads, accepting, peer, asked, taken, response>>

OnWriteError(c) ==
  /\ Serving
  /\ At(c, "writing") /\ peer[c] = "left"
  /\ conn' = [conn EXCEPT ![c] = "kept"]
  /\ UNCHANGED <<threads, accepting, peer, asked, sessions>>

-----------------------------------------------------------------------------
(* Clients                                                                  *)

SendRequest(c, k) ==
  /\ peer[c] = "open" /\ ~At(c, "gone")
  /\ MapThenSumSet(LAMBDA d : Len(asked[d]), Clients) < MaxRequests
  /\ asked' = [asked EXCEPT ![c] = Append(@, k)]
  /\ UNCHANGED <<threads, accepting, conn, peer, sessions>>

Withdraw(c) ==
  /\ peer[c] # "left"
  /\ peer' \in {[peer EXCEPT ![c] = how] : how \in {"silent", "left"} \ {peer[c]}}
  /\ UNCHANGED <<threads, accepting, conn, asked, sessions>>

-----------------------------------------------------------------------------
Init ==
  /\ limit \in Limits
  /\ main = "serving" /\ thread = "new"
  /\ running = FALSE /\ halted = FALSE /\ accepting = FALSE
  /\ conn = [c \in Clients |-> "backlog"]
  /\ peer = [c \in Clients |-> "open"]
  /\ asked = [c \in Clients |-> <<>>]
  /\ taken = [c \in Clients |-> 0]
  /\ response = [c \in Clients |-> [status |-> "ok", fits |-> "short"]]
  /\ answered = [c \in Clients |-> <<>>]

Thread == Begin \/ Run \/ RunReturns
Stop == StopContext \/ Join
Session(c) == OnRead(c) \/ OnReadError(c) \/ OnWrite(c) \/ OnWriteError(c)
Client(c) == (\E k \in Kinds : SendRequest(c, k)) \/ Withdraw(c)

Next ==
  \/ Thread \/ StopFlag \/ Stop
  \/ OnAcceptError
  \/ \E c \in Clients : OnAccept(c) \/ Session(c) \/ Client(c)

Spec == Init /\ [][Next]_vars

(* Both threads go on, and completed operations are handled in the order of *)
(* the context's queue, so that neither other sessions nor failing accepts  *)
(* keep one waiting for ever.  The server need not be stopped.              *)
Fairness ==
  /\ WF_vars(Thread) /\ WF_vars(Stop)
  /\ \A c \in Clients : WF_vars(OnAccept(c)) /\ WF_vars(Session(c))

FairSpec == Spec /\ Fairness

-----------------------------------------------------------------------------
(* Properties                                                               *)

TypeOK ==
  /\ limit \in Limits
  /\ main \in {"serving", "flagged", "stopped", "joined"}
  /\ thread \in {"new", "begun", "running", "returned"}
  /\ running \in BOOLEAN /\ halted \in BOOLEAN /\ accepting \in BOOLEAN
  /\ conn \in [Clients -> {"backlog", "reading", "writing", "kept", "gone"}]
  /\ peer \in [Clients -> {"open", "silent", "left"}]
  /\ asked \in [Clients -> Seq(Kinds)]
  /\ taken \in [Clients -> Nat]
  /\ response \in [Clients -> [status : {"ok", "not found", "bad request"}, fits : Fits]]
  /\ answered \in [Clients ->
       Seq([status : {"ok", "not found", "bad request"}, damaged : BOOLEAN])]

(* Every response answers the request it is for, in order, whatever was     *)
(* sent ahead of it; only one that is being written is owed.                *)
InStep ==
  \A c \in Clients :
    /\ Len(answered[c]) <= taken[c] /\ taken[c] <= Len(asked[c])
    /\ conn[c] \in {"backlog", "reading"} => Len(answered[c]) = taken[c]
    /\ At(c, "writing") =>
         Len(answered[c]) + 1 = taken[c] /\ response[c].status \in Statuses(asked[c][taken[c]])
    /\ \A i \in 1..Len(answered[c]) :
         /\ asked[c][i] # "malformed" /\ answered[c][i].status \in Statuses(asked[c][i])
         /\ answered[c][i].damaged => answered[c][i].status = "ok"

(* The accept loop ends only once running_ is unset, and that is unset only *)
(* by a stop.                                                               *)
Listening ==
  thread \in {"begun", "running"} =>
    /\ ~accepting => ~running
    /\ ~running => main # "serving"

(* No more descriptors are used for connections than there are.             *)
Limited == Cardinality({c \in Clients : Open(c)}) <= limit

(* Sessions stay in step with their clients, and the accept loop goes on    *)
(* through failing accepts and until a stop (hls_server.cpp:21-102,         *)
(* 136-149).                                                                *)
HlsInv == TypeOK /\ InStep /\ Listening /\ Limited

(* A stop ends the serving thread, be it before, while or after that thread *)
(* starts the server and sets running_ again (hls_server.cpp:120-130,       *)
(* main.cpp:78-87).                                                         *)
Stops == main = "flagged" ~> main = "joined"

(* A client's connection is accepted and its requests are answered, also in *)
(* the company of failing accepts and of clients who do not read, unless    *)
(* there is no descriptor left for it, which never changes again, a request *)
(* before was malformed, the client withdraws, or the server stops          *)
(* (hls_server.cpp:21-102, 136-149).                                        *)
Served ==
  \A c \in Clients, n \in 1..MaxRequests :
    thread = "running" /\ Len(asked[c]) >= n ~>
      \/ Len(answered[c]) >= n
      \/ \E i \in 1..n : i <= Len(asked[c]) /\ asked[c][i] = "malformed"
      \/ At(c, "backlog") /\ [](Full /\ At(c, "backlog"))
      \/ peer[c] # "open" \/ main # "serving"
=============================================================================
