--------------------------- MODULE ConnectionPool ---------------------------
(***************************************************************************)
(* The bounded connection pool shared by the MySQL and Redis subclasses    *)
(* (common/connection_pool).  Worker threads borrow a connection through a *)
(* ConnectionGuard and give it back from the guard's destructor.           *)
(*                                                                         *)
(* One step is one critical section of mutex_, except that a thread which  *)
(* found it must wait still owns the mutex until the condition variable    *)
(* releases it ("blocking"); the destructor flags and notifies without the *)
(* mutex and may run inside that window.  createConnection() runs with the *)
(* mutex released, so a creating thread is a state of its own.             *)
(*                                                                         *)
(* Both pools are function-local statics: their storage outlives the       *)
(* destructor, and a late caller still finds shutdown_ set.                *)
(***************************************************************************)
EXTENDS Naturals, Sequences, FiniteSets

CONSTANTS
  Threads,          (* request threads that use the pool                     *)
  Conns,            (* identities of live connections                        *)
  NoConn,           (* a guard that owns nothing                             *)
  MinConnections,   (* idle connections kept in the queue                    *)
  MaxConnections,   (* limit checked against active_connections_             *)
  NullReplyOnLoss   (* the Redis ping: a lost connection may yield no reply, *)
                    (* which isValid() dereferences; FALSE for mysql_ping    *)

ASSUME PoolAssumption ==
  /\ IsFiniteSet(Threads)
  /\ NoConn \notin Conns
  /\ MinConnections \in Nat
  /\ MaxConnections \in Nat \ {0}
  /\ MinConnections <= MaxConnections
  /\ NullReplyOnLoss \in BOOLEAN

VARIABLES
  pool,      (* pool_: idle connections, oldest first                        *)
  active,    (* active_connections_                                          *)
  held,      (* the connection each thread's guard owns                      *)
  pc,        (* where each thread is in getConnectionFromPool                *)
  lost,      (* connections that fail their validity check                   *)
  dtor,      (* progress of ~ConnectionPool                                  *)
  crashed,   (* a null pointer was dereferenced                              *)
  wasted     (* history: since a thread last found that it must wait, one    *)
             (* that had been woken timed out or a connect call failed, and  *)
             (* neither passes the wake-up on (26, 52-54)                    *)

vars == <<pool, active, held, pc, lost, dtor, crashed, wasted>>

ThreadStates ==
  {"idle", "blocking", "waiting", "awake", "creating", "using", "null"}

DtorStates == {"alive", "flagged", "notified", "drained"}

Pooled == {pool[i] : i \in 1..Len(pool)}
Holders == {t \in Threads : held[t] # NoConn}
Creators == {t \in Threads : pc[t] = "creating"}
Waiters == {t \in Threads : pc[t] = "waiting"}

(* shutdown_ is stored first thing in the destructor and never cleared.     *)
Shutdown == dtor # "alive"

(* Between its test and condition_.wait_until a thread owns mutex_.  A dead *)
(* process locks nothing.                                                   *)
LockFree == ~crashed /\ \A t \in Threads : pc[t] # "blocking"

Usable(c) == c \notin lost

-----------------------------------------------------------------------------
(* getConnectionFromPool                                                    *)

(* Mutant of MustWait: waiters do not look at shutdown_.                    *)
MustWaitIgnoringShutdown == pool = <<>> /\ active >= MaxConnections

MustWait == pool = <<>> /\ active >= MaxConnections /\ ~Shutdown

(* A thread enters, or re-tests the loop condition after a wake-up.         *)
Tests(t) == pc[t] \in {"idle", "awake"} /\ LockFree

Wait(t) ==
  /\ Tests(t)
  /\ MustWait
  /\ pc' = [pc EXCEPT ![t] = "blocking"]
  /\ wasted' = FALSE
  /\ UNCHANGED <<pool, active, held, lost, dtor, crashed>>

Block(t) ==
  /\ ~crashed
  /\ pc[t] = "blocking"
  /\ pc' = [pc EXCEPT ![t] = "waiting"]
  /\ UNCHANGED <<pool, active, held, lost, dtor, crashed, wasted>>

SpuriousWakeup(t) ==
  /\ ~crashed
  /\ pc[t] = "waiting"
  /\ pc' = [pc EXCEPT ![t] = "awake"]
  /\ UNCHANGED <<pool, active, held, lost, dtor, crashed, wasted>>

(* Mutant of CanTimeOut: the wait has no deadline.                          *)
NotifiedOnly == {"awake"}

(* wait_until reports a timeout whenever the deadline has passed once the   *)
(* mutex is owned again, also for a thread that a notification woke: the    *)
(* call throws without looking at the pool.                                 *)
CanTimeOut == {"waiting", "awake"}

Timeout(t) ==
  /\ pc[t] \in CanTimeOut
  /\ LockFree
  /\ pc' = [pc EXCEPT ![t] = "idle"]
  /\ wasted' = (wasted \/ pc[t] = "awake")
  /\ UNCHANGED <<pool, active, held, lost, dtor, crashed>>

Refuse(t) ==
  /\ Tests(t)
  /\ Shutdown
  /\ pc' = [pc EXCEPT ![t] = "idle"]
  /\ UNCHANGED <<pool, active, held, lost, dtor, crashed, wasted>>

(* isValid() of a lost Redis connection dereferences the missing reply.  If  *)
(* the server is there but answers with an error, the connection is found   *)
(* invalid like any other: both happen to connections in lost.              *)
PingFaults(c) == NullReplyOnLoss /\ c \in lost

(* Mutant of RestAfter: the connection taken stays in the queue.            *)
RestWithTaken(k) == SubSeq(pool, k, Len(pool))

(* The oldest valid connection is handed out; invalid ones met on the way   *)
(* are closed.                                                              *)
RestAfter(k) == SubSeq(pool, k + 1, Len(pool))

CountAfterGet == active + 1

Take(t) ==
  /\ Tests(t)
  /\ ~MustWait
  /\ ~Shutdown
  /\ \E k \in 1..Len(pool) :
       /\ Usable(pool[k])
       /\ \A j \in 1..(k - 1) : ~Usable(pool[j])
       /\ held' = [held EXCEPT ![t] = pool[k]]
       /\ pool' = RestAfter(k)
       /\ lost' = lost \ {pool[j] : j \in 1..(k - 1)}
  /\ active' = CountAfterGet
  /\ pc' = [pc EXCEPT ![t] = "using"]
  /\ UNCHANGED <<dtor, crashed, wasted>>

(* Nothing valid is left: below the limit the thread goes on to create a    *)
(* connection, at the limit the call returns a null pointer.                *)
NoneUsable(t) ==
  /\ Tests(t)
  /\ ~MustWait
  /\ ~Shutdown
  /\ \A c \in Pooled : ~Usable(c)
  /\ pool' = <<>>
  /\ lost' = lost \ Pooled
  /\ pc' = [pc EXCEPT ![t] = IF active < MaxConnections THEN "creating" ELSE "null"]
  /\ UNCHANGED <<active, held, dtor, crashed, wasted>>

TakeFaults(t) ==
  /\ Tests(t)
  /\ ~MustWait
  /\ ~Shutdown
  /\ pool # <<>>
  /\ PingFaults(Head(pool))
  /\ crashed' = TRUE
  /\ UNCHANGED <<pool, active, held, pc, lost, dtor, wasted>>

(* createConnection() has run unlocked; neither the limit nor shutdown_ is  *)
(* looked at again.                                                         *)
CreateOk(t) ==
  /\ pc[t] = "creating"
  /\ LockFree
  /\ \E c \in Conns \ (Pooled \cup {held[u] : u \in Threads}) :
       /\ held' = [held EXCEPT ![t] = c]
       /\ lost' = lost \ {c}
  /\ active' = CountAfterGet
  /\ pc' = [pc EXCEPT ![t] = "using"]
  /\ UNCHANGED <<pool, dtor, crashed, wasted>>

CreateFail(t) ==
  /\ pc[t] = "creating"
  /\ LockFree
  /\ pc' = [pc EXCEPT ![t] = "idle"]
  /\ wasted' = TRUE
  /\ UNCHANGED <<pool, active, held, lost, dtor, crashed>>

(* No caller tests valid() before it uses the guard.                        *)
UseNull(t) ==
  /\ ~crashed
  /\ pc[t] = "null"
  /\ crashed' = TRUE
  /\ UNCHANGED <<pool, active, held, pc, lost, dtor, wasted>>

-----------------------------------------------------------------------------
(* returnConnection, from the guard's destructor                            *)

(* Mutant of KeepIdle: a connection returned late is queued.                *)
KeepIdleAfterShutdown(c) == Usable(c) /\ Len(pool) < MinConnections

KeepIdle(c) == ~Shutdown /\ Usable(c) /\ Len(pool) < MinConnections

(* Mutant of NotifyOne: the notification is forgotten.                      *)
NotifyNobody(t) == pc' = [pc EXCEPT ![t] = "idle"]

(* notify_one: some waiter, if there is one.                                *)
NotifyOne(t) ==
  IF Waiters = {}
  THEN pc' = [pc EXCEPT ![t] = "idle"]
  ELSE \E w \in Waiters : pc' = [pc EXCEPT ![t] = "idle", ![w] = "awake"]

(* Mutant of CountAfterReturn: only a connection that is kept is counted off.*)
CountOnlyIfKept(c) == IF KeepIdle(c) THEN active - 1 ELSE active

CountAfterReturn(c) == active - 1

Return(t) ==
  /\ pc[t] = "using"
  /\ LockFree
  /\ active' = CountAfterReturn(held[t])
  /\ pool' = IF KeepIdle(held[t]) THEN Append(pool, held[t]) ELSE pool
  /\ held' = [held EXCEPT ![t] = NoConn]
  /\ lost' = lost \ {held[t]}
  /\ NotifyOne(t)
  /\ UNCHANGED <<dtor, crashed, wasted>>

ReturnFaults(t) ==
  /\ pc[t] = "using"
  /\ LockFree
  /\ ~Shutdown
  /\ PingFaults(held[t])
  /\ crashed' = TRUE
  /\ UNCHANGED <<pool, active, held, pc, lost, dtor, wasted>>

-----------------------------------------------------------------------------
(* The server side of a connection goes away (restart, idle timeout).       *)
Lose(c) ==
  /\ ~crashed
  /\ c \in Pooled \cup {held[t] : t \in Holders}
  /\ Usable(c)
  /\ lost' = lost \cup {c}
  /\ UNCHANGED <<pool, active, held, pc, dtor, crashed, wasted>>

(* ~ConnectionPool: flag and notify without the mutex, then drain under it. *)
DtorFlag ==
  /\ ~crashed
  /\ dtor = "alive"
  /\ dtor' = "flagged"
  /\ UNCHANGED <<pool, active, held, pc, lost, crashed, wasted>>

DtorNotify ==
  /\ ~crashed
  /\ dtor = "flagged"
  /\ dtor' = "notified"
  /\ pc' = [t \in Threads |-> IF t \in Waiters THEN "awake" ELSE pc[t]]
  /\ UNCHANGED <<pool, active, held, lost, crashed, wasted>>

DtorDrain ==
  /\ dtor = "notified"
  /\ LockFree
  /\ dtor' = "drained"
  /\ pool' = <<>>
  /\ lost' = lost \ Pooled
  /\ UNCHANGED <<active, held, pc, crashed, wasted>>

-----------------------------------------------------------------------------
(* The subclass constructor creates MinConnections, skipping failures.      *)
Init ==
  /\ \E n \in 0..MinConnections :
       /\ pool \in [1..n -> Conns]
       /\ \A i, j \in 1..n : pool[i] = pool[j] => i = j
  /\ active = 0
  /\ held = [t \in Threads |-> NoConn]
  /\ pc = [t \in Threads |-> "idle"]
  /\ lost = {}
  /\ dtor = "alive"
  /\ crashed = FALSE
  /\ wasted = FALSE

Get(t) ==
  \/ Wait(t) \/ Block(t) \/ SpuriousWakeup(t) \/ Timeout(t) \/ Refuse(t)
  \/ Take(t) \/ NoneUsable(t) \/ TakeFaults(t)
  \/ CreateOk(t) \/ CreateFail(t) \/ UseNull(t)

GiveBack(t) == Return(t) \/ ReturnFaults(t)

Destroy == DtorFlag \/ DtorNotify \/ DtorDrain

Next ==
  \/ \E t \in Threads : Get(t) \/ GiveBack(t)
  \/ \E c \in Conns : Lose(c)
  \/ Destroy

(* A deadline passes, a connect call ends, and a thread that keeps asking   *)
(* for the mutex gets it in the end (strong fairness where the mutex is     *)
(* needed).  Nothing forces a holder to give its connection back, the       *)
(* condition variable to wake anybody, or the pool to be destroyed.         *)
Fairness ==
  \A t \in Threads :
    /\ WF_vars(Block(t))
    /\ SF_vars(Timeout(t))
    /\ SF_vars(CreateOk(t) \/ CreateFail(t))

Spec == Init /\ [][Next]_vars

FairSpec == Spec /\ Fairness
-----------------------------------------------------------------------------
TypeOK ==
  /\ pool \in Seq(Conns)
  /\ active \in Nat
  /\ held \in [Threads -> Conns \cup {NoConn}]
  /\ pc \in [Threads -> ThreadStates]
  /\ lost \subseteq Conns
  /\ dtor \in DtorStates
  /\ crashed \in BOOLEAN
  /\ wasted \in BOOLEAN

(* A connection has one owner: the queue (once) or one guard, whatever the  *)
(* order of borrowing, creating, returning and draining                     *)
(* (connection_pool.cpp:36-44, 70-74).                                      *)
Exclusive ==
  /\ \A i, j \in 1..Len(pool) : pool[i] = pool[j] => i = j
  /\ \A t \in Holders : held[t] \notin Pooled
  /\ \A t, u \in Holders : held[t] = held[u] => t = u

(* active_connections_ is the number of guards that own a connection, so    *)
(* the subtraction in returnConnection never wraps and no failed or refused *)
(* call leaks a unit (connection_pool.cpp:57-59, 68).                       *)
ActiveCount == active = Cardinality(Holders)

(* The queue never holds more than MinConnections (connection_pool.cpp:70). *)
PoolWithinMin == Len(pool) <= MinConnections

(* The limit is tested before the mutex is released for createConnection    *)
(* and never again, so what really bounds connections is the limit or the   *)
(* number of threads, whichever is larger (connection_pool.cpp:47-59).      *)
Busy == Holders \cup Creators
LiveBound ==
  Len(pool) + Cardinality(Busy) <= MaxConnections
    \/ Len(pool) + Cardinality(Busy) <= Cardinality(Threads)

(* The class comment: idle plus active connections never exceed             *)
(* max_connections (connection_pool.hpp:29-33).                             *)
TotalWithinMax == Len(pool) + active <= MaxConnections

(* Capacity nobody is about to use means nobody is left asleep: "wait until *)
(* a connection is available or the timeout" (connection_pool.cpp:21).  The *)
(* code keeps this as long as no wake-up is wasted: a woken thread whose    *)
(* deadline has passed, and one whose connect fails, leave without passing  *)
(* the notification on (25-27, 52-54).  Nothing else makes a thread sleep   *)
(* over a connection it could have.                                         *)
Spare ==
  \/ pool # <<>>
  \/ active + Cardinality(Creators) < MaxConnections
OnlyWasteLeavesSleepers ==
  Spare /\ ~Shutdown /\ Waiters # {} => wasted \/ \E t \in Threads : pc[t] = "awake"

Leases == INSTANCE ConnectionLeases WITH
  Clients <- Threads,
  Capacity <- MinConnections,
  idle <- Pooled,
  lease <- held,
  phase <- IF ~Shutdown THEN "open" ELSE IF dtor = "drained" THEN "closed" ELSE "closing"

(* The pool lends connections: from the queue or new, to one thread at a    *)
(* time; once shutdown_ is set it neither hands out a queued connection nor *)
(* queues one that comes back late, and once drained it stays empty         *)
(* (connection_pool.cpp:4-12, 30-44, 68-76).                                *)
Lends == Leases!Spec

(* Every call of getConnectionFromPool ends, with a connection or with an   *)
(* exception, even when nobody returns a connection and the wake-up of the  *)
(* destructor is missed (connection_pool.cpp:24-28).                        *)
InGet(t) == pc[t] \in {"blocking", "waiting", "awake", "creating"}
GetReturns == \A t \in Threads : InGet(t) ~> (~InGet(t) \/ crashed)

(* After shutdown_ is set the waiting room empties for good: the waiters    *)
(* leave and no later caller sits down (connection_pool.cpp:24, 30-32).     *)
ShutdownEndsWaits == Shutdown ~> [](Waiters = {} \/ crashed)
=============================================================================
