----------------------------- MODULE EmailQueue -----------------------------
(***************************************************************************)
(* SMTPEmailQueue (user_service/infrastructure/email_queue): a ring of     *)
(* EmailTask slots filled by request threads and drained by one worker.    *)
(* Producers synchronise with the worker through tail_ and the slot's      *)
(* ready flag only; mtx protects nothing but the worker's own wait.        *)
(*                                                                         *)
(* data_ is allocated, never constructed: a slot is Raw until a producer   *)
(* constructs a task in it, and its ready flag is whatever the heap memory *)
(* holds.  Slots are neither destroyed nor reset after use.                *)
(*                                                                         *)
(* A caller waits for the result for 30 seconds (auth_service.cpp:270);    *)
(* that it may give up at any time stands for every relation between those *)
(* seconds and the time the SMTP dialogue takes.                           *)
(***************************************************************************)
EXTENDS Naturals, Sequences, FiniteSets

CONSTANTS
  Producers,    (* request threads                                           *)
  Capacity,     (* capacity_: slots in the ring                              *)
  MaxCalls,     (* bound on the calls of one producer                        *)
  Raw           (* content of a slot that holds no task yet                  *)

Tasks == Producers \X (1..MaxCalls)

ASSUME QueueAssumption ==
  /\ Capacity \in Nat \ {0}
  /\ MaxCalls \in Nat
  /\ Raw \notin Tasks

VARIABLES
  head,         (* head_: next slot of the worker                            *)
  tail,         (* tail_: next slot of the producers                         *)
  slot,         (* data_: the task in each slot and its ready flag           *)
  prod,         (* each producer: where it is in addTask and the wait, calls *)
                (* begun, slot claimed, task whose future it waits for       *)
  retrieved,    (* tasks whose get_future() was called                       *)
  result,       (* value of each task's promise                              *)
  worker,       (* where the worker is in loop(); "sent" and "failed" are    *)
                (* what it is about to report for the head slot              *)
  stopping,     (* progress of stop(), called by the destructor              *)
  crashed,      (* std::terminate, or a promise that was never constructed   *)
  hist          (* history: tasks in the order their slots were claimed,     *)
                (* tasks the worker took up, mails the server accepted,      *)
                (* tasks whose caller was told the mail was sent; whether a  *)
                (* notification fell into the worker's gap since it last     *)
                (* looked, whether two producers shared a capacity test,     *)
                (* whether the worker took up a slot that looked ready       *)
                (* before its task was published                             *)

promises == <<retrieved, result>>
life == <<stopping, crashed>>
vars == <<head, tail, slot, prod, promises, worker, life, hist>>

Slots == 0..(Capacity - 1)
Following(i) == (i + 1) % Capacity
Empty == head = tail
Stopped == stopping # "no"

At(p, place) == ~crashed /\ prod[p].at = place
WorkerAt(place) == ~crashed /\ worker = place
Current(p) == <<p, prod[p].calls>>

-----------------------------------------------------------------------------
(* addTask and the caller's wait                                            *)

(* Mutant of Available: there is no capacity test.                          *)
AlwaysAvailable == TRUE

Available == Following(tail) # head

(* The capacity test; a full queue yields a future that is already false.   *)
Test(p) ==
  /\ At(p, "idle")
  /\ ~Stopped
  /\ prod[p].calls < MaxCalls
  /\ prod' = [prod EXCEPT ![p].calls = @ + 1,
                          ![p].at = IF Available THEN "checked" ELSE "idle"]
  /\ hist' = [hist EXCEPT !.raced = @ \/ \E q \in Producers : At(q, "checked")]
  /\ UNCHANGED <<head, tail, slot, promises, worker, life>>

(* The compare-and-swap loop ends with the current tail, which may have     *)
(* moved since the test.                                                    *)
Claim(p) ==
  /\ At(p, "checked")
  /\ prod' = [prod EXCEPT ![p].at = "claimed", ![p].pos = tail]
  /\ tail' = Following(tail)
  /\ hist' = [hist EXCEPT !.claims = Append(@, Current(p))]
  /\ UNCHANGED <<head, slot, promises, worker, life>>

(* construct_at: whatever the slot held is overwritten, not destroyed.      *)
Construct(p) ==
  /\ At(p, "claimed")
  /\ slot' = [slot EXCEPT ![prod[p].pos] = [task |-> Current(p), ready |-> FALSE]]
  /\ prod' = [prod EXCEPT ![p].at = "built"]
  /\ UNCHANGED <<head, tail, promises, worker, life, hist>>

Publish(p) ==
  /\ At(p, "built")
  /\ slot' = [slot EXCEPT ![prod[p].pos].ready = TRUE]
  /\ prod' = [prod EXCEPT ![p].at = "published"]
  /\ UNCHANGED <<head, tail, promises, worker, life, hist>>

(* Mutant of Woken: the notification is forgotten.                          *)
NobodyWoken == worker

(* A notification without mtx reaches the worker only if it sleeps already. *)
Woken == IF worker = "asleep" THEN "check" ELSE worker

Missed == [hist EXCEPT !.missed = @ \/ worker = "blocking"]

Notify(p) ==
  /\ At(p, "published")
  /\ worker' = Woken
  /\ prod' = [prod EXCEPT ![p].at = "notified"]
  /\ hist' = Missed
  /\ UNCHANGED <<head, tail, slot, promises, life>>

(* get_future() on the task that is in the slot by now; a second retrieval  *)
(* throws and ends the call.                                                *)
GetFuture(p) ==
  /\ At(p, "notified")
  /\ LET task == slot[prod[p].pos].task IN
       /\ retrieved' = retrieved \cup {task}
       /\ prod' = IF task \in retrieved
                  THEN [prod EXCEPT ![p].at = "idle"]
                  ELSE [prod EXCEPT ![p].at = "waiting", ![p].future = task]
  /\ UNCHANGED <<head, tail, slot, result, worker, life, hist>>

Receive(p) ==
  /\ At(p, "waiting")
  /\ result[prod[p].future] # "none"
  /\ prod' = [prod EXCEPT ![p].at = "idle"]
  /\ hist' = IF result[prod[p].future] = "sent"
             THEN [hist EXCEPT !.told = @ \cup {Current(p)}]
             ELSE hist
  /\ UNCHANGED <<head, tail, slot, promises, worker, life>>

GiveUp(p) ==
  /\ At(p, "waiting")
  /\ result[prod[p].future] = "none"
  /\ prod' = [prod EXCEPT ![p].at = "idle"]
  /\ UNCHANGED <<head, tail, slot, promises, worker, life, hist>>

-----------------------------------------------------------------------------
(* loop                                                                     *)

(* Mutant of HeadReady: the ready flag is not looked at.                    *)
NotEmpty == ~Empty

(* The predicate of condition_.wait, and the exit test behind it.           *)
HeadReady == ~Empty /\ slot[head].ready

(* Mutant of MayExit: a stopped worker does not drain the ring.             *)
ExitWhenStopped == Stopped

MayExit == Stopped /\ Empty

(* The producer that claimed the head slot has not published its task; the  *)
(* slot may look ready, left so by an earlier task or by the memory it is   *)
(* made of.                                                                 *)
Unpublished ==
  \E p \in Producers : prod[p].pos = head /\ prod[p].at \in {"claimed", "built"}

LooksReady == slot[head].ready /\ Unpublished

WorkerChecks ==
  /\ WorkerAt("check")
  /\ worker' = IF ~(Stopped \/ HeadReady) THEN "blocking"
               ELSE IF MayExit THEN "exited" ELSE "work"
  /\ hist' = [hist EXCEPT !.missed = FALSE,
                          !.early = @ \/ (worker' = "work" /\ LooksReady)]
  /\ UNCHANGED <<head, tail, slot, prod, promises, life>>

WorkerBlocks ==
  /\ WorkerAt("blocking")
  /\ worker' = "asleep"
  /\ UNCHANGED <<head, tail, slot, prod, promises, life, hist>>

SpuriousWakeup ==
  /\ WorkerAt("asleep")
  /\ worker' = "check"
  /\ UNCHANGED <<head, tail, slot, prod, promises, life, hist>>

(* Mutant of Verdicts: the server's replies are ignored.                    *)
VerdictsIgnoringReplies(accepted) == {"sent", "failed"}

(* What ensureConnection and sendEmail report: the mail was accepted and    *)
(* reported, or the connection broke after the server accepted it, or it    *)
(* was refused or no connection was made.  Memory that holds no task may    *)
(* be sent like any other strings.                                          *)
Verdicts(accepted) == IF accepted THEN {"sent", "failed"} ELSE {"failed"}

SendHead ==
  /\ WorkerAt("work")
  /\ \E accepted \in BOOLEAN :
       /\ worker' \in Verdicts(accepted)
       /\ hist' = [hist EXCEPT
            !.taken = Append(@, slot[head].task),
            !.mailed = IF accepted THEN @ \cup {slot[head].task} ELSE @]
  /\ UNCHANGED <<head, tail, slot, prod, promises, life>>

(* Promises that can be set.                                                *)
Unset == {t \in Tasks : result[t] = "none"}

(* set_value on the task that is in the head slot by now.                   *)
Resolve ==
  /\ \/ WorkerAt("sent") \/ WorkerAt("failed")
  /\ slot[head].task \in Unset
  /\ result' = [result EXCEPT ![slot[head].task] = worker]
  /\ worker' = "resolved"
  /\ UNCHANGED <<head, tail, slot, prod, retrieved, life, hist>>

(* A task that was never constructed has no strings to send and no promise  *)
(* to set, and a second value throws out of the thread function.            *)
Terminate ==
  /\ \/ WorkerAt("work") /\ slot[head].task = Raw
     \/ /\ WorkerAt("sent") \/ WorkerAt("failed")
        /\ slot[head].task \notin Unset
  /\ crashed' = TRUE
  /\ UNCHANGED <<head, tail, slot, prod, promises, worker, stopping, hist>>

(* Mutant of NextHead: the slot is not left behind.                         *)
HeadUnmoved == head

NextHead == Following(head)

Advance ==
  /\ WorkerAt("resolved")
  /\ head' = NextHead
  /\ worker' = "check"
  /\ UNCHANGED <<tail, slot, prod, promises, life, hist>>

-----------------------------------------------------------------------------
(* The destructor runs when the last caller has let go of the queue: flag,  *)
(* notify without mtx, join.                                                *)
StopFlag ==
  /\ \A p \in Producers : At(p, "idle")
  /\ ~crashed /\ stopping = "no"
  /\ stopping' = "flagged"
  /\ UNCHANGED <<head, tail, slot, prod, promises, worker, crashed, hist>>

StopNotify ==
  /\ ~crashed /\ stopping = "flagged"
  /\ worker' = Woken
  /\ stopping' = "notified"
  /\ hist' = Missed
  /\ UNCHANGED <<head, tail, slot, prod, promises, crashed>>

Join ==
  /\ WorkerAt("exited") /\ stopping = "notified"
  /\ stopping' = "joined"
  /\ UNCHANGED <<head, tail, slot, prod, promises, worker, crashed, hist>>

-----------------------------------------------------------------------------
Init ==
  /\ head = 0 /\ tail = 0
  /\ slot \in [Slots -> [task : {Raw}, ready : BOOLEAN]]
  /\ prod = [p \in Producers |-> [at |-> "idle", calls |-> 0, pos |-> 0, future |-> Raw]]
  /\ retrieved = {} /\ result = [t \in Tasks |-> "none"]
  /\ worker = "check" /\ stopping = "no" /\ crashed = FALSE
  /\ hist = [claims |-> <<>>, taken |-> <<>>, mailed |-> {}, told |-> {},
             missed |-> FALSE, raced |-> FALSE, early |-> FALSE]

AddTask(p) == Claim(p) \/ Construct(p) \/ Publish(p) \/ Notify(p) \/ GetFuture(p)
Await(p) == Receive(p) \/ GiveUp(p)
Loop == WorkerChecks \/ WorkerBlocks \/ SendHead \/ Resolve \/ Terminate \/ Advance
Stop == StopFlag \/ StopNotify \/ Join

Next ==
  \/ \E p \in Producers : Test(p) \/ AddTask(p) \/ Await(p)
  \/ Loop
  \/ SpuriousWakeup
  \/ Stop

Spec == Init /\ [][Next]_vars
-----------------------------------------------------------------------------
TypeOK ==
  /\ head \in Slots /\ tail \in Slots
  /\ slot \in [Slots -> [task : Tasks \cup {Raw}, ready : BOOLEAN]]
  /\ prod \in [Producers ->
       [at : {"idle", "checked", "claimed", "built", "published", "notified", "waiting"},
        calls : 0..MaxCalls, pos : Slots, future : Tasks \cup {Raw}]]
  /\ retrieved \subseteq Tasks
  /\ result \in [Tasks -> {"none", "sent", "failed"}]
  /\ worker \in {"check", "blocking", "asleep", "work", "sent", "failed",
                 "resolved", "exited"}
  /\ stopping \in {"no", "flagged", "notified", "joined"}
  /\ crashed \in BOOLEAN
  /\ hist \in [claims : Seq(Tasks), taken : Seq(Tasks \cup {Raw}),
               mailed : SUBSET (Tasks \cup {Raw}), told : SUBSET Tasks,
               missed : BOOLEAN, raced : BOOLEAN, early : BOOLEAN]

(* Slots claimed and not yet left behind by the worker.                     *)
Pending ==
  Len(hist.claims) - Len(hist.taken)
    + (IF worker \in {"sent", "failed", "resolved"} THEN 1 ELSE 0)

(* The claimed slots never fill the ring and the indices count them, so     *)
(* that equal indices mean an empty ring and there is no element at tail    *)
(* (email_queue.hpp:49), as long as no two producers pass the capacity test *)
(* before either claims its slot (email_queue.cpp:38-47).                   *)
RingCounts ==
  \/ hist.raced
  \/ Pending < Capacity /\ tail = (head + Pending) % Capacity

(* No slot has been claimed twice, so none holds anything of an earlier     *)
(* task.                                                                    *)
FirstLap == Len(hist.claims) <= Capacity

(* No task was overwritten before the worker came to it, and the worker was *)
(* never ahead of a producer.                                               *)
Orderly == (FirstLap \/ ~hist.raced) /\ ~hist.early

(* Whatever the memory held and however often the ring goes round, the      *)
(* worker takes tasks up in the order their slots were claimed, each once,  *)
(* until it takes up a slot that only seems ready, or the ring was          *)
(* overfilled: no mail is repeated, skipped or overtaken                    *)
(* (email_queue.cpp:44-49, 57-60, 66-76).                                   *)
Fifo ==
  Orderly =>
    /\ Len(hist.taken) <= Len(hist.claims)
    /\ \A i \in 1..Len(hist.taken) : hist.taken[i] = hist.claims[i]

(* Nothing else brings the process down: a promise is set twice, or memory  *)
(* used that holds no task, only after a slot was taken up whose producer   *)
(* had not published its task, or after the ring was overfilled             *)
(* (email_queue.cpp:9, 57-60, 67-76).                                       *)
OnlyHasteTerminates == crashed => ~Orderly

(* The future a caller gets is that of its own task: being told that the    *)
(* mail was sent means that this mail was sent (email_sender.hpp:13).       *)
SuccessMeansMailed == hist.told \subseteq hist.mailed

(* It holds on the first lap, if the worker is never ahead of a producer    *)
(* (email_queue.cpp:48-51, 57-75).                                          *)
FirstSuccessMeansMailed == FirstLap /\ ~hist.early => SuccessMeansMailed

(* When the worker has exited nothing is left behind in the ring, unless    *)
(* the ring was overfilled (email_queue.cpp:62-64).                         *)
StopDrains == worker = "exited" => Pending = 0 \/ hist.raced

(* The worker sleeps over a ready task or a stop only for as long as the    *)
(* notification of its producer is still to come, or because one fell       *)
(* between the worker's test and its sleep, where no mutex keeps it out     *)
(* (email_queue.cpp:22, 50, 57-60).                                         *)
ToBeNotified ==
  \E p \in Producers :
    prod[p].pos = head /\ prod[p].at \in {"claimed", "built", "published"}

OnlyTheGapLosesWakeups ==
  worker = "asleep" =>
    /\ HeadReady => hist.missed \/ ToBeNotified
    /\ Stopped => hist.missed \/ stopping = "flagged"
=============================================================================
