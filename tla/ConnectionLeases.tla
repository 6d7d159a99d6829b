-------------------------- MODULE ConnectionLeases --------------------------
(***************************************************************************)
(* What a connection pool promises its clients, without mutex, queue,      *)
(* counter or wake-ups: a connection is idle, leased to one client, or     *)
(* gone.  It is leased from among the idle ones only while the pool is     *)
(* open, or made new for the client; it becomes idle again only when its   *)
(* client gives it back to an open pool that has room.  A pool that closes *)
(* lends and keeps no connection, and in the end none is idle.             *)
(***************************************************************************)
EXTENDS Naturals, FiniteSets

CONSTANTS
  Clients,
  Conns,
  NoConn,     (* a client without a lease                                    *)
  Capacity    (* how many connections are kept idle                          *)

VARIABLES
  idle,
  lease,      (* the connection of each client                               *)
  phase       (* "open", "closing", "closed"                                 *)

vars == <<idle, lease, phase>>

Leased == {lease[c] : c \in Clients}

Init ==
  /\ idle \subseteq Conns /\ Cardinality(idle) <= Capacity
  /\ lease = [c \in Clients |-> NoConn]
  /\ phase = "open"

(* An idle connection; others may be found broken on the way to it.         *)
Lend(c) ==
  /\ phase = "open" /\ lease[c] = NoConn
  /\ \E x \in idle :
       /\ lease' = [lease EXCEPT ![c] = x]
       /\ idle' \subseteq idle \ {x}
  /\ UNCHANGED phase

(* A new connection, which may come when the pool has begun to close.       *)
Open(c) ==
  /\ lease[c] = NoConn
  /\ \E x \in Conns \ (idle \cup Leased) : lease' = [lease EXCEPT ![c] = x]
  /\ UNCHANGED <<idle, phase>>

GiveBack(c) ==
  /\ lease[c] # NoConn
  /\ lease' = [lease EXCEPT ![c] = NoConn]
  /\ \/ idle' = idle
     \/ /\ phase = "open" /\ Cardinality(idle) < Capacity
        /\ idle' = idle \cup {lease[c]}
  /\ UNCHANGED phase

(* Idle connections that turn out to be broken.                             *)
Discard ==
  /\ idle' \subseteq idle
  /\ UNCHANGED <<lease, phase>>

Close ==
  /\ phase = "open"
  /\ phase' = "closing"
  /\ UNCHANGED <<idle, lease>>

Closed ==
  /\ phase = "closing"
  /\ phase' = "closed"
  /\ idle' = {}
  /\ UNCHANGED lease

Next ==
  \/ \E c \in Clients : Lend(c) \/ Open(c) \/ GiveBack(c)
  \/ Discard \/ Close \/ Closed

Spec == Init /\ [][Next]_vars
=============================================================================
