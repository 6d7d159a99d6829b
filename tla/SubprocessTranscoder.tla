------------------------ MODULE SubprocessTranscoder ------------------------
(***************************************************************************)
(* SubprocessTranscoder (video_service/infrastructure): max_threads_       *)
(* workers take packaged tasks from a queue and run ffmpeg for each.       *)
(* queue_mutex_ protects the queue, stop_ and the workers' wait on         *)
(* condition_; both notifications are sent after the mutex is released.    *)
(*                                                                         *)
(* A critical section is one step, except where a worker found nothing to  *)
(* do: between the test of wait()'s predicate and the sleep it still holds *)
(* the mutex, and these are two steps.                                     *)
(*                                                                         *)
(* A client may drop the future it was given; VideoService always waits.   *)
(* The destructor runs when no client is inside getTranscodeFuture, and    *)
(* waitForAll has no caller.                                               *)
(***************************************************************************)
EXTENDS Naturals, Sequences, FiniteSets

CONSTANTS
  Workers,      (* workers_: as many as max_threads_                         *)
  Clients,      (* threads that call getTranscodeFuture                      *)
  MaxCalls,     (* bound on the calls of one client                          *)
  NoTask        (* an empty packaged_task                                    *)

Tasks == Clients \X (1..MaxCalls)

ASSUME TranscoderAssumption ==
  /\ IsFiniteSet(Workers) /\ Workers # {}
  /\ IsFiniteSet(Clients)
  /\ MaxCalls \in Nat
  /\ NoTask \notin Tasks

VARIABLES
  tasks,        (* tasks_                                                    *)
  worker,       (* "check": at the mutex or about to be, "blocking": holds   *)
                (* it after a fruitless test, "asleep", "running", "exited"  *)
  job,          (* the task each worker moved out of the queue               *)
  client,       (* where each client is, and how many calls it began         *)
  result,       (* the shared state of each task's future                    *)
  stop,         (* progress of the destructor: "no", "flagged" (stop_ set),  *)
                (* "notified", "joined"                                      *)
  ffmpeg        (* ffmpeg_available_                                         *)

vars == <<tasks, worker, job, client, result, stop, ffmpeg>>

Current(c) == <<c, client[c].calls>>
ClientAt(c, place) == client[c].at = place
Queued == {tasks[i] : i \in DOMAIN tasks}
Stopping == stop # "no"

(* A worker in wait() gives the mutex up only by falling asleep.            *)
MutexFree == \A w \in Workers : worker[w] # "blocking"

-----------------------------------------------------------------------------
(* getTranscodeFuture and the wait for its result                           *)

Push(c) ==
  /\ ~Stopping
  /\ ClientAt(c, "idle")
  /\ client[c].calls < MaxCalls
  /\ MutexFree
  /\ client' = [client EXCEPT ![c] = [at |-> "notify", calls |-> @.calls + 1]]
  /\ tasks' = Append(tasks, <<c, client[c].calls + 1>>)
  /\ UNCHANGED <<worker, job, result, stop, ffmpeg>>

(* notify_one wakes one sleeper, any of them; with none it has no effect.   *)
Awaken(w) == [worker EXCEPT ![w] = "check"]
Asleep == {w \in Workers : worker[w] = "asleep"}

(* Mutant of Notify: wake a worker only for the first task of the queue.    *)
NotifyForFirst(c) ==
  /\ ClientAt(c, "notify")
  /\ client' = [client EXCEPT ![c].at = "wait"]
  /\ IF Asleep = {} \/ Len(tasks) > 1
     THEN worker' = worker
     ELSE \E w \in Asleep : worker' = Awaken(w)
  /\ UNCHANGED <<tasks, job, result, stop, ffmpeg>>

Notify(c) ==
  /\ ClientAt(c, "notify")
  /\ client' = [client EXCEPT ![c].at = "wait"]
  /\ IF Asleep = {} THEN worker' = worker
                    ELSE \E w \in Asleep : worker' = Awaken(w)
  /\ UNCHANGED <<tasks, job, result, stop, ffmpeg>>

Receive(c) ==
  /\ ClientAt(c, "wait")
  /\ result[Current(c)] # "pending"
  /\ client' = [client EXCEPT ![c].at = "idle"]
  /\ UNCHANGED <<tasks, worker, job, result, stop, ffmpeg>>

DropFuture(c) ==
  /\ ClientAt(c, "wait")
  /\ client' = [client EXCEPT ![c].at = "idle"]
  /\ UNCHANGED <<tasks, worker, job, result, stop, ffmpeg>>

-----------------------------------------------------------------------------
(* The worker's loop                                                        *)

Take(w) ==
  /\ worker[w] = "check"
  /\ MutexFree
  /\ tasks # <<>>
  /\ job' = [job EXCEPT ![w] = Head(tasks)]
  /\ tasks' = Tail(tasks)
  /\ worker' = [worker EXCEPT ![w] = "running"]
  /\ UNCHANGED <<client, result, stop, ffmpeg>>

(* Mutant of Exit: leave as soon as stop_ is seen.                          *)
ExitAtOnce(w) ==
  /\ worker[w] = "check"
  /\ MutexFree
  /\ Stopping
  /\ worker' = [worker EXCEPT ![w] = "exited"]
  /\ UNCHANGED <<tasks, job, client, result, stop, ffmpeg>>

Exit(w) ==
  /\ worker[w] = "check"
  /\ MutexFree
  /\ Stopping
  /\ tasks = <<>>
  /\ worker' = [worker EXCEPT ![w] = "exited"]
  /\ UNCHANGED <<tasks, job, client, result, stop, ffmpeg>>

FindNothing(w) ==
  /\ worker[w] = "check"
  /\ MutexFree
  /\ ~Stopping
  /\ tasks = <<>>
  /\ worker' = [worker EXCEPT ![w] = "blocking"]
  /\ UNCHANGED <<tasks, job, client, result, stop, ffmpeg>>

FallAsleep(w) ==
  /\ worker[w] = "blocking"
  /\ worker' = [worker EXCEPT ![w] = "asleep"]
  /\ UNCHANGED <<tasks, job, client, result, stop, ffmpeg>>

SpuriousWakeup(w) ==
  /\ worker[w] = "asleep"
  /\ worker' = Awaken(w)
  /\ UNCHANGED <<tasks, job, client, result, stop, ffmpeg>>

(* executeTranscode: without ffmpeg it fails at once, with it the command   *)
(* may fail.                                                                *)
Outcomes == IF ffmpeg THEN {"stored", "failed"} ELSE {"failed"}

Run(w) ==
  /\ worker[w] = "running"
  /\ \E o \in Outcomes : result' = [result EXCEPT ![job[w]] = o]
  /\ job' = [job EXCEPT ![w] = NoTask]
  /\ worker' = [worker EXCEPT ![w] = "check"]
  /\ UNCHANGED <<tasks, client, stop, ffmpeg>>

-----------------------------------------------------------------------------
(* The destructor                                                           *)

(* Mutant of SetStop: stop_ is set without the mutex.                       *)
SetStopUnlocked ==
  /\ ~Stopping
  /\ \A c \in Clients : ClientAt(c, "idle")
  /\ stop' = "flagged"
  /\ UNCHANGED <<tasks, worker, job, client, result, ffmpeg>>

SetStop ==
  /\ ~Stopping
  /\ \A c \in Clients : ClientAt(c, "idle")
  /\ MutexFree
  /\ stop' = "flagged"
  /\ UNCHANGED <<tasks, worker, job, client, result, ffmpeg>>

NotifyAll ==
  /\ stop = "flagged"
  /\ stop' = "notified"
  /\ worker' = [w \in Workers |-> IF w \in Asleep THEN "check" ELSE worker[w]]
  /\ UNCHANGED <<tasks, job, client, result, ffmpeg>>

Join ==
  /\ stop = "notified"
  /\ \A w \in Workers : worker[w] = "exited"
  /\ stop' = "joined"
  /\ UNCHANGED <<tasks, worker, job, client, result, ffmpeg>>

-----------------------------------------------------------------------------
Init ==
  /\ tasks = <<>>
  /\ worker = [w \in Workers |-> "check"]
  /\ job = [w \in Workers |-> NoTask]
  /\ client = [c \in Clients |-> [at |-> "idle", calls |-> 0]]
  /\ result = [t \in Tasks |-> "pending"]
  /\ stop = "no"
  /\ ffmpeg \in BOOLEAN

ClientStep(c) == Push(c) \/ Notify(c) \/ Receive(c) \/ DropFuture(c)

Loop(w) == Take(w) \/ Exit(w) \/ FindNothing(w) \/ FallAsleep(w) \/ Run(w)

Destruct == SetStop \/ NotifyAll \/ Join

(* The destructor has returned and no thread of the pool is left.           *)
Terminated == stop = "joined" /\ UNCHANGED vars

Next ==
  \/ \E c \in Clients : ClientStep(c)
  \/ \E w \in Workers : Loop(w) \/ SpuriousWakeup(w)
  \/ Destruct
  \/ Terminated

Spec == Init /\ [][Next]_vars

(* Every worker thread is scheduled and every ffmpeg process ends; a client *)
(* past its push completes the call; a destructor once begun goes on.  No   *)
(* client need call, no destructor need start, nothing wakes up by itself.  *)
Fairness ==
  /\ \A w \in Workers : WF_vars(Loop(w))
  /\ \A c \in Clients : WF_vars(Notify(c))
  /\ WF_vars(NotifyAll \/ Join)

FairSpec == Spec /\ Fairness

-----------------------------------------------------------------------------
(* Properties                                                               *)

Places == {"check", "blocking", "asleep", "running", "exited"}

(* Types, and a worker has a task exactly while it runs one                 *)
(* (subprocess_transcoder.cpp:13-27).                                       *)
TypeOK ==
  /\ tasks \in Seq(Tasks)
  /\ worker \in [Workers -> Places]
  /\ job \in [Workers -> Tasks \cup {NoTask}]
  /\ client \in [Clients -> [at : {"idle", "notify", "wait"}, calls : 0..MaxCalls]]
  /\ result \in [Tasks -> {"pending", "stored", "failed"}]
  /\ stop \in {"no", "flagged", "notified", "joined"}
  /\ ffmpeg \in BOOLEAN
  /\ \A w \in Workers : job[w] = NoTask <=> worker[w] # "running"

Awake == {w \in Workers : worker[w] = "check"}
Notifying == {c \in Clients : ClientAt(c, "notify")}

(* While a worker sleeps, every queued task is matched by a worker already  *)
(* on its way to the queue or by a client about to wake one, although       *)
(* notify_one is called without the mutex (line 133).                       *)
WakeupsCoverWork ==
  Asleep # {} => Len(tasks) <= Cardinality(Awake) + Cardinality(Notifying)

(* Once notify_all has been called no worker is asleep or will fall asleep, *)
(* because stop_ is set under the mutex (lines 34-39).                      *)
NobodySleepsPastStop ==
  stop \in {"notified", "joined"} =>
    \A w \in Workers : worker[w] \notin {"blocking", "asleep"}

Execution == INSTANCE TaskExecution WITH
  Tasks <- Tasks,
  Limit <- Cardinality(Workers),
  pending <- tasks,
  running <- {job[w] : w \in Workers} \ {NoTask},
  done <- {t \in Tasks : result[t] # "pending"},
  open <- stop # "joined"

(* The pool is an execution service: first come first served, each task     *)
(* once, at most max_threads_ at a time, and gone only when everything      *)
(* accepted is done, dropped futures included (lines 22-28).                *)
Executes == Execution!Spec

(* No task is forgotten: one that a worker is free for is taken, and one    *)
(* that was taken gets its result (lines 15-27 and 129-134).                *)
NothingForgotten == Execution!Fairness

(* A destructor that has set stop_ returns (lines 33-46).                   *)
DestructionEnds == stop = "flagged" ~> stop = "joined"
=============================================================================
