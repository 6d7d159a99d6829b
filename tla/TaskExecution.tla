--------------------------- MODULE TaskExecution ---------------------------
(***************************************************************************)
(* What a pool of workers promises its clients, without threads, mutexes   *)
(* or wake-ups: accepted tasks start in the order they were accepted, at   *)
(* most Limit at a time, each exactly once; a task that can start does     *)
(* start, a task that started ends, and the service closes only when       *)
(* nothing is left to do.                                                  *)
(***************************************************************************)
EXTENDS Naturals, Sequences, FiniteSets

CONSTANTS
  Tasks,    (* the tasks clients may submit                                  *)
  Limit     (* how many may execute at the same time                         *)

VARIABLES
  pending,  (* accepted, in order                                            *)
  running,
  done,
  open      (* FALSE once the service is gone                                *)

vars == <<pending, running, done, open>>

Init ==
  /\ pending = <<>>
  /\ running = {}
  /\ done = {}
  /\ open = TRUE

Accepted == {pending[i] : i \in DOMAIN pending} \cup running \cup done

Accept(t) ==
  /\ open
  /\ t \notin Accepted
  /\ pending' = Append(pending, t)
  /\ UNCHANGED <<running, done, open>>

Start ==
  /\ pending # <<>>
  /\ Cardinality(running) < Limit
  /\ running' = running \cup {Head(pending)}
  /\ pending' = Tail(pending)
  /\ UNCHANGED <<done, open>>

Finish(t) ==
  /\ t \in running
  /\ running' = running \ {t}
  /\ done' = done \cup {t}
  /\ UNCHANGED <<pending, open>>

Close ==
  /\ open
  /\ pending = <<>>
  /\ running = {}
  /\ open' = FALSE
  /\ UNCHANGED <<pending, running, done>>

Next ==
  \/ \E t \in Tasks : Accept(t) \/ Finish(t)
  \/ Start
  \/ Close

Spec == Init /\ [][Next]_vars

Fairness ==
  /\ WF_vars(Start)
  /\ \A t \in Tasks : WF_vars(Finish(t))

FairSpec == Spec /\ Fairness
=============================================================================
