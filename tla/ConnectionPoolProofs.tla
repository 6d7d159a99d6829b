------------------------ MODULE ConnectionPoolProofs ------------------------
(***************************************************************************)
(* What ConnectionPool guarantees for any number of threads, connections   *)
(* and any limits.  IndInv is the inductive invariant: it adds to the      *)
(* checked invariants that a thread is "using" exactly when its guard owns *)
(* a connection, which is what ties the counter and the two sets of busy   *)
(* threads to the control state.                                           *)
(***************************************************************************)
EXTENDS ConnectionPool, TLAPS, FiniteSetTheorems, SequenceTheorems

OwnerUses == \A t \in Threads : held[t] # NoConn <=> pc[t] = "using"

IndInv == TypeOK /\ Exclusive /\ OwnerUses /\ ActiveCount /\ LiveBound

-----------------------------------------------------------------------------
(* Holders, Creators and Busy are finite, so their sizes are numbers.       *)
LEMMA BusyFinite ==
  /\ IsFiniteSet(Holders) /\ Cardinality(Holders) \in Nat
  /\ IsFiniteSet(Busy) /\ Cardinality(Busy) \in Nat
  /\ Cardinality(Busy) <= Cardinality(Threads)
  /\ Cardinality(Threads) \in Nat
<1>1. Holders \in SUBSET Threads /\ Busy \in SUBSET Threads
  BY DEF Holders, Busy, Creators
<1>2. IsFiniteSet(Threads)
  BY PoolAssumption
<1>3. IsFiniteSet(Holders) /\ IsFiniteSet(Busy)
  BY <1>1, <1>2, FS_Subset
<1>4. Cardinality(Busy) <= Cardinality(Threads)
  BY <1>1, <1>2, FS_Subset
<1> QED
  BY <1>2, <1>3, <1>4, FS_CardinalityType

(* A step that leaves the queue, the counter and the guards alone and moves *)
(* no thread into or out of "using" and "creating" keeps the invariant.     *)
LEMMA QuietStep ==
  ASSUME IndInv, TypeOK', UNCHANGED <<pool, active, held>>,
         \A t \in Threads : pc'[t] = "using" <=> pc[t] = "using",
         \A t \in Threads : pc'[t] = "creating" <=> pc[t] = "creating"
  PROVE  IndInv'
<1>1. Holders' = Holders /\ Creators' = Creators
  BY DEF Holders, Creators
<1>2. Pooled' = Pooled
  BY DEF Pooled
<1>3. Exclusive'
  BY <1>1, <1>2 DEF IndInv, Exclusive
<1>4. OwnerUses'
  BY DEF IndInv, OwnerUses
<1>5. ActiveCount' /\ LiveBound'
  BY <1>1 DEF IndInv, ActiveCount, LiveBound, Busy
<1> QED
  BY <1>3, <1>4, <1>5 DEF IndInv

(* Types of the steps that only move program counters.                      *)
LEMMA SetPc ==
  ASSUME TypeOK, NEW t \in Threads, NEW s \in ThreadStates,
         pc' = [pc EXCEPT ![t] = s],
         UNCHANGED <<pool, active, held, lost, dtor, crashed>>, wasted' \in BOOLEAN
  PROVE  TypeOK'
BY DEF TypeOK

-----------------------------------------------------------------------------
LEMMA InitIndInv == Init => IndInv
<1> SUFFICES ASSUME Init PROVE IndInv
  OBVIOUS
<1>1. PICK n \in 0..MinConnections :
        /\ pool \in [1..n -> Conns]
        /\ \A i, j \in 1..n : pool[i] = pool[j] => i = j
  BY DEF Init
<1>2. n \in Nat /\ n <= MaxConnections
  BY PoolAssumption
<1>3. pool \in Seq(Conns) /\ Len(pool) = n
  BY <1>1, <1>2
<1>4. Holders = {} /\ Creators = {}
  BY DEF Init, Holders, Creators
<1>5. TypeOK
  BY <1>3 DEF Init, TypeOK, ThreadStates, DtorStates
<1>6. Exclusive
  BY <1>1, <1>3, <1>4 DEF Exclusive
<1>7. OwnerUses
  BY DEF Init, OwnerUses
<1>8. ActiveCount
  BY <1>4, FS_EmptySet DEF Init, ActiveCount
<1>9. LiveBound
  BY <1>2, <1>3, <1>4, FS_EmptySet, PoolAssumption DEF LiveBound, Busy
<1> QED
  BY <1>5, <1>6, <1>7, <1>8, <1>9 DEF IndInv

(* Handing out the k-th idle connection and dropping those before it.       *)
LEMMA TakeStep ==
  ASSUME IndInv, NEW t \in Threads, Take(t)
  PROVE  IndInv'
<1> USE PoolAssumption
<1>1. PICK k \in 1..Len(pool) :
        /\ held' = [held EXCEPT ![t] = pool[k]]
        /\ pool' = SubSeq(pool, k + 1, Len(pool))
        /\ lost' \subseteq lost
  BY DEF Take, RestAfter, CountAfterGet
<1>2. /\ active' = active + 1
      /\ pc' = [pc EXCEPT ![t] = "using"]
      /\ pc[t] \in {"idle", "awake"}
      /\ UNCHANGED <<dtor, crashed, wasted>>
  BY DEF Take, Tests, CountAfterGet
<1>3. pool \in Seq(Conns) /\ Len(pool) \in Nat
  BY DEF IndInv, TypeOK
<1>4. \A i \in (k + 1)..Len(pool) : pool[i] \in Conns
  BY <1>1, <1>3
<1>5. /\ pool' \in Seq(Conns)
      /\ Len(pool') = Len(pool) - k
      /\ \A i \in 1..Len(pool') : pool'[i] = pool[k + i]
  <2>1. k + 1 \in Int /\ Len(pool) \in Int
    BY <1>1, <1>3
  <2>2. /\ SubSeq(pool, k + 1, Len(pool)) \in Seq(Conns)
        /\ Len(SubSeq(pool, k + 1, Len(pool)))
             = IF k + 1 <= Len(pool) THEN Len(pool) - (k + 1) + 1 ELSE 0
        /\ \A i \in 1..(Len(pool) - (k + 1) + 1) :
             SubSeq(pool, k + 1, Len(pool))[i] = pool[k + 1 + i - 1]
    BY <1>4, <2>1, SubSeqProperties
  <2> QED
    BY <1>1, <1>3, <2>2
<1>6. pool[k] \in Conns /\ pool[k] # NoConn /\ held[t] = NoConn
  BY <1>1, <1>2, <1>3 DEF IndInv, OwnerUses
<1>7. TypeOK'
  BY <1>1, <1>2, <1>5, <1>6 DEF IndInv, TypeOK, ThreadStates
<1>8. Holders' = Holders \cup {t} /\ t \notin Holders
  BY <1>1, <1>6, <1>7 DEF Holders, IndInv, TypeOK
<1>9. Creators' = Creators /\ t \notin Creators
  BY <1>2 DEF Creators, IndInv, TypeOK
<1>10. Exclusive'
  <2>1. \A i, j \in 1..Len(pool') : pool'[i] = pool'[j] => i = j
    BY <1>1, <1>3, <1>5 DEF IndInv, Exclusive
  <2>2. Pooled' \subseteq Pooled /\ pool[k] \in Pooled
    BY <1>1, <1>3, <1>5 DEF Pooled
  <2>3. pool[k] \notin Pooled'
    BY <1>1, <1>3, <1>5 DEF Pooled, IndInv, Exclusive
  <2>4. \A u \in Holders : held'[u] = held[u] /\ held[u] \notin Pooled
    BY <1>1, <1>8 DEF IndInv, Exclusive, TypeOK
  <2>5. held'[t] = pool[k]
    BY <1>1 DEF IndInv, TypeOK
  <2>6. \A u \in Holders' : held'[u] \notin Pooled'
    BY <1>8, <2>2, <2>3, <2>4, <2>5
  <2>7. \A u, v \in Holders' : held'[u] = held'[v] => u = v
    BY <1>8, <2>2, <2>4, <2>5 DEF IndInv, Exclusive
  <2> QED
    BY <2>1, <2>6, <2>7 DEF Exclusive
<1>11. OwnerUses'
  BY <1>1, <1>2, <1>6 DEF IndInv, OwnerUses, TypeOK
<1>12. ActiveCount'
  BY <1>2, <1>8, BusyFinite, FS_AddElement DEF IndInv, ActiveCount
<1>13. LiveBound'
  <2>1. Busy' = Busy \cup {t} /\ t \notin Busy
    BY <1>8, <1>9 DEF Busy
  <2>2. Cardinality(Busy') = Cardinality(Busy) + 1
    BY <2>1, BusyFinite, FS_AddElement
  <2> QED
    BY <1>1, <1>3, <1>5, <2>2, BusyFinite DEF IndInv, LiveBound
<1> QED
  BY <1>7, <1>10, <1>11, <1>12, <1>13 DEF IndInv

(* Dropping the whole queue: the thread may go on to create a connection,   *)
(* which takes the place of nothing, so the bound falls back on the number  *)
(* of threads.                                                              *)
LEMMA NoneUsableStep ==
  ASSUME IndInv, NEW t \in Threads, NoneUsable(t)
  PROVE  IndInv'
<1>1. PICK s \in {"creating", "null"} : pc' = [pc EXCEPT ![t] = s]
  BY DEF NoneUsable
<1>2. /\ pool' = <<>>
      /\ lost' \subseteq lost
      /\ pc[t] \in {"idle", "awake"}
      /\ UNCHANGED <<active, held, dtor, crashed, wasted>>
  BY DEF NoneUsable, Tests
<1>3. TypeOK'
  BY <1>1, <1>2 DEF IndInv, TypeOK, ThreadStates
<1>4. Holders' = Holders
  BY <1>2 DEF Holders
<1>5. Exclusive'
  BY <1>2, <1>4 DEF IndInv, Exclusive, Pooled
<1>6. OwnerUses'
  BY <1>1, <1>2 DEF IndInv, OwnerUses, TypeOK
<1>7. ActiveCount'
  BY <1>2, <1>4 DEF IndInv, ActiveCount
<1>8. LiveBound'
  <2>1. Busy' \in SUBSET Threads
    BY DEF Busy, Holders, Creators
  <2>2. Cardinality(Busy') <= Cardinality(Threads) /\ Cardinality(Busy') \in Nat
    BY <2>1, PoolAssumption, FS_Subset, FS_CardinalityType
  <2> QED
    BY <1>2, <2>2 DEF LiveBound
<1> QED
  BY <1>3, <1>5, <1>6, <1>7, <1>8 DEF IndInv

(* A creator becomes a holder: it was counted as busy already.              *)
LEMMA CreateOkStep ==
  ASSUME IndInv, NEW t \in Threads, CreateOk(t)
  PROVE  IndInv'
<1> USE PoolAssumption
<1>1. PICK c \in Conns :
        /\ c \notin Pooled
        /\ \A u \in Threads : held[u] # c
        /\ held' = [held EXCEPT ![t] = c]
        /\ lost' \subseteq lost
  BY DEF CreateOk, CountAfterGet
<1>2. /\ active' = active + 1
      /\ pc' = [pc EXCEPT ![t] = "using"]
      /\ pc[t] = "creating"
      /\ UNCHANGED <<pool, dtor, crashed, wasted>>
  BY DEF CreateOk, CountAfterGet
<1>3. held[t] = NoConn
  BY <1>2 DEF IndInv, OwnerUses
<1>4. TypeOK'
  BY <1>1, <1>2 DEF IndInv, TypeOK, ThreadStates
<1>5. Holders' = Holders \cup {t} /\ t \notin Holders
  BY <1>1, <1>3 DEF Holders, IndInv, TypeOK
<1>6. Busy' = Busy
  BY <1>2, <1>5 DEF Busy, Creators, IndInv, TypeOK
<1>7. Exclusive'
  <2>1. Pooled' = Pooled
    BY <1>2 DEF Pooled
  <2>2. held'[t] = c /\ \A u \in Holders : held'[u] = held[u]
    BY <1>1, <1>5 DEF IndInv, TypeOK, Holders
  <2>3. \A u \in Holders : held[u] # c
    BY <1>1 DEF Holders
  <2> QED
    BY <1>1, <1>2, <1>5, <2>1, <2>2, <2>3 DEF IndInv, Exclusive
<1>8. OwnerUses'
  BY <1>1, <1>2 DEF IndInv, OwnerUses, TypeOK
<1>9. ActiveCount'
  BY <1>2, <1>5, BusyFinite, FS_AddElement DEF IndInv, ActiveCount
<1>10. LiveBound'
  BY <1>2, <1>6 DEF IndInv, LiveBound
<1> QED
  BY <1>4, <1>7, <1>8, <1>9, <1>10 DEF IndInv

(* A creator that fails leaves empty-handed.                                *)
LEMMA CreateFailStep ==
  ASSUME IndInv, NEW t \in Threads, CreateFail(t)
  PROVE  IndInv'
<1>1. /\ pc' = [pc EXCEPT ![t] = "idle"]
      /\ pc[t] = "creating"
      /\ UNCHANGED <<pool, active, held, lost, dtor, crashed>>
      /\ wasted' \in BOOLEAN
  BY DEF CreateFail
<1>2. TypeOK'
  BY <1>1, SetPc DEF IndInv, ThreadStates
<1>3. Holders' = Holders /\ Pooled' = Pooled
  BY <1>1 DEF Holders, Pooled
<1>4. Exclusive' /\ ActiveCount'
  BY <1>1, <1>3 DEF IndInv, Exclusive, ActiveCount
<1>5. OwnerUses'
  BY <1>1 DEF IndInv, OwnerUses, TypeOK
<1>6. LiveBound'
  <2>1. Busy' = Busy \ {t} /\ t \in Busy
    BY <1>1, <1>3, <1>5 DEF Busy, Creators, Holders, OwnerUses, IndInv, TypeOK
  <2>2. Cardinality(Busy') = Cardinality(Busy) - 1
    BY <2>1, BusyFinite, FS_RemoveElement
  <2>3. Len(pool) \in Nat /\ pool' = pool
    BY <1>1 DEF IndInv, TypeOK
  <2> QED
    BY <2>2, <2>3, BusyFinite, PoolAssumption DEF IndInv, LiveBound
<1> QED
  BY <1>2, <1>4, <1>5, <1>6 DEF IndInv

(* notify_one moves the returning thread to "idle" and at most one waiter   *)
(* to "awake".                                                              *)
LEMMA NotifyEffect ==
  ASSUME TypeOK, NEW t \in Threads, pc[t] = "using", NotifyOne(t)
  PROVE  /\ pc' \in [Threads -> ThreadStates]
         /\ pc'[t] = "idle"
         /\ \A u \in Threads \ {t} :
              /\ pc'[u] = "using" <=> pc[u] = "using"
              /\ pc'[u] = "creating" <=> pc[u] = "creating"
<1>1. CASE Waiters = {}
  BY <1>1 DEF NotifyOne, TypeOK, ThreadStates
<1>2. CASE Waiters # {}
  <2>1. PICK w \in Waiters : pc' = [pc EXCEPT ![t] = "idle", ![w] = "awake"]
    BY <1>2 DEF NotifyOne
  <2>2. w \in Threads /\ pc[w] = "waiting" /\ w # t
    BY DEF Waiters
  <2> QED
    BY <2>1, <2>2 DEF TypeOK, ThreadStates
<1> QED
  BY <1>1, <1>2

(* A connection moves from a guard to the queue or is closed.               *)
LEMMA ReturnStep ==
  ASSUME IndInv, NEW t \in Threads, Return(t)
  PROVE  IndInv'
<1> USE PoolAssumption
<1>1. /\ pc[t] = "using"
      /\ active' = active - 1
      /\ held' = [held EXCEPT ![t] = NoConn]
      /\ lost' \subseteq lost
      /\ NotifyOne(t)
      /\ UNCHANGED <<dtor, crashed, wasted>>
      /\ \/ pool' = pool
         \/ pool' = Append(pool, held[t])
  BY DEF Return, CountAfterReturn
<1>2. /\ pc' \in [Threads -> ThreadStates]
      /\ pc'[t] = "idle"
      /\ \A u \in Threads \ {t} :
           /\ pc'[u] = "using" <=> pc[u] = "using"
           /\ pc'[u] = "creating" <=> pc[u] = "creating"
  BY <1>1, NotifyEffect DEF IndInv
<1>3. t \in Holders /\ held[t] \in Conns
  BY <1>1 DEF IndInv, OwnerUses, Holders, TypeOK
<1>4. Holders' = Holders \ {t}
  BY <1>1 DEF Holders, IndInv, TypeOK
<1>5. Cardinality(Holders') = Cardinality(Holders) - 1 /\ Cardinality(Holders') \in Nat
  BY <1>3, <1>4, BusyFinite, FS_RemoveElement, FS_CardinalityType
<1>6. ActiveCount' /\ active' \in Nat
  BY <1>1, <1>5 DEF IndInv, ActiveCount
<1>7. pool \in Seq(Conns) /\ pool' \in Seq(Conns)
  BY <1>1, <1>3 DEF IndInv, TypeOK
<1>8. TypeOK'
  BY <1>1, <1>2, <1>6, <1>7 DEF IndInv, TypeOK
<1>9. OwnerUses'
  BY <1>1, <1>2 DEF IndInv, OwnerUses, TypeOK
<1>10. \A u \in Holders' : u # t /\ held'[u] = held[u]
  BY <1>1, <1>4 DEF IndInv, TypeOK, Holders
<1>11. Exclusive'
  <2>1. CASE pool' = pool
    BY <1>4, <1>10, <2>1 DEF IndInv, Exclusive, Pooled
  <2>2. CASE pool' = Append(pool, held[t])
    <3>1. /\ Len(pool') = Len(pool) + 1
          /\ pool'[Len(pool) + 1] = held[t]
          /\ \A i \in 1..Len(pool) : pool'[i] = pool[i]
          /\ Len(pool) \in Nat
      BY <1>3, <1>7, <2>2
    <3>2. held[t] \notin Pooled
      BY <1>3 DEF IndInv, Exclusive
    <3>3. \A i, j \in 1..Len(pool') : pool'[i] = pool'[j] => i = j
      BY <3>1, <3>2 DEF IndInv, Exclusive, Pooled
    <3>4. Pooled' = Pooled \cup {held[t]}
      BY <3>1 DEF Pooled
    <3>5. \A u \in Holders' : held'[u] \notin Pooled'
      BY <1>3, <1>4, <1>10, <3>4 DEF IndInv, Exclusive
    <3>6. \A u, v \in Holders' : held'[u] = held'[v] => u = v
      BY <1>4, <1>10 DEF IndInv, Exclusive
    <3> QED
      BY <3>3, <3>5, <3>6 DEF Exclusive
  <2> QED
    BY <1>1, <2>1, <2>2
<1>12. LiveBound'
  <2>1. Busy' = Busy \ {t} /\ t \in Busy
    BY <1>1, <1>2, <1>3, <1>4 DEF Busy, Creators, Holders
  <2>2. Cardinality(Busy') = Cardinality(Busy) - 1
    BY <2>1, BusyFinite, FS_RemoveElement
  <2>3. Len(pool) \in Nat /\ Len(pool') \in Nat /\ Len(pool') <= Len(pool) + 1
    BY <1>1, <1>7
  <2> QED
    BY <2>2, <2>3, BusyFinite DEF IndInv, LiveBound
<1> QED
  BY <1>6, <1>8, <1>9, <1>11, <1>12 DEF IndInv

(* The destructor empties the queue.                                        *)
LEMMA DrainStep ==
  ASSUME IndInv, DtorDrain
  PROVE  IndInv'
<1>1. pool' = <<>> /\ lost' \subseteq lost /\ dtor' = "drained"
      /\ UNCHANGED <<active, held, pc, crashed, wasted>>
  BY DEF DtorDrain
<1>2. TypeOK'
  BY <1>1 DEF IndInv, TypeOK, DtorStates
<1>3. Holders' = Holders /\ Busy' = Busy
  BY <1>1 DEF Holders, Creators, Busy
<1>4. Exclusive' /\ ActiveCount' /\ OwnerUses'
  BY <1>1, <1>3 DEF IndInv, Exclusive, Pooled, ActiveCount, OwnerUses
<1>5. LiveBound'
  <2>1. Len(pool) \in Nat /\ Len(pool') = 0
    BY <1>1 DEF IndInv, TypeOK
  <2> QED
    BY <1>3, <2>1, BusyFinite, PoolAssumption DEF IndInv, LiveBound
<1> QED
  BY <1>2, <1>4, <1>5 DEF IndInv

(* Every other step is quiet.                                               *)
LEMMA QuietGet ==
  ASSUME IndInv, NEW t \in Threads,
         \/ Wait(t) \/ Block(t) \/ SpuriousWakeup(t) \/ Timeout(t) \/ Refuse(t)
  PROVE  IndInv'
<1>1. PICK s \in {"idle", "blocking", "waiting", "awake"} :
        /\ pc' = [pc EXCEPT ![t] = s]
        /\ UNCHANGED <<pool, active, held, lost, dtor, crashed>>
        /\ wasted' \in BOOLEAN
        /\ pc[t] \in {"idle", "blocking", "waiting", "awake"}
  BY DEF Wait, Block, SpuriousWakeup, Timeout, CanTimeOut, Refuse, Tests, IndInv, TypeOK
<1>2. TypeOK'
  BY <1>1, SetPc DEF IndInv, ThreadStates
<1>3. \A u \in Threads : /\ pc'[u] = "using" <=> pc[u] = "using"
                         /\ pc'[u] = "creating" <=> pc[u] = "creating"
  BY <1>1 DEF IndInv, TypeOK
<1> QED
  BY <1>1, <1>2, <1>3, QuietStep

LEMMA QuietOther ==
  ASSUME IndInv,
         \/ \E t \in Threads : UseNull(t) \/ TakeFaults(t) \/ ReturnFaults(t)
         \/ \E c \in Conns : Lose(c)
         \/ DtorFlag
         \/ DtorNotify
         \/ UNCHANGED vars
  PROVE  IndInv'
<1>1. /\ UNCHANGED <<pool, active, held>>
      /\ lost' \in SUBSET Conns
      /\ dtor' \in DtorStates
      /\ crashed' \in BOOLEAN
      /\ wasted' \in BOOLEAN
      /\ \/ pc' = pc
         \/ pc' = [t \in Threads |-> IF t \in Waiters THEN "awake" ELSE pc[t]]
  BY DEF UseNull, TakeFaults, ReturnFaults, Lose, DtorFlag, DtorNotify, vars,
         IndInv, TypeOK, DtorStates
<1>2. pc \in [Threads -> ThreadStates]
  BY DEF IndInv, TypeOK
<1>3. /\ pc' \in [Threads -> ThreadStates]
      /\ \A u \in Threads : /\ pc'[u] = "using" <=> pc[u] = "using"
                            /\ pc'[u] = "creating" <=> pc[u] = "creating"
  BY <1>1, <1>2 DEF Waiters, ThreadStates
<1>4. TypeOK'
  BY <1>1, <1>3 DEF IndInv, TypeOK
<1> QED
  BY <1>1, <1>3, <1>4, QuietStep

-----------------------------------------------------------------------------
LEMMA NextIndInv == IndInv /\ [Next]_vars => IndInv'
<1> SUFFICES ASSUME IndInv, [Next]_vars PROVE IndInv'
  OBVIOUS
<1>1. ASSUME NEW t \in Threads, Get(t) PROVE IndInv'
  <2>1. CASE \/ Wait(t) \/ Block(t) \/ SpuriousWakeup(t) \/ Timeout(t) \/ Refuse(t)
    BY <2>1, QuietGet
  <2>2. CASE Take(t)
    BY <2>2, TakeStep
  <2>3. CASE NoneUsable(t)
    BY <2>3, NoneUsableStep
  <2>4. CASE CreateOk(t)
    BY <2>4, CreateOkStep
  <2>5. CASE CreateFail(t)
    BY <2>5, CreateFailStep
  <2>6. CASE UseNull(t) \/ TakeFaults(t)
    BY <2>6, QuietOther
  <2> QED
    BY <1>1, <2>1, <2>2, <2>3, <2>4, <2>5, <2>6 DEF Get
<1>2. ASSUME NEW t \in Threads, GiveBack(t) PROVE IndInv'
  <2>1. CASE Return(t)
    BY <2>1, ReturnStep
  <2>2. CASE ReturnFaults(t)
    BY <2>2, QuietOther
  <2> QED
    BY <1>2, <2>1, <2>2 DEF GiveBack
<1>3. ASSUME NEW c \in Conns, Lose(c) PROVE IndInv'
  BY <1>3, QuietOther
<1>4. CASE Destroy
  BY <1>4, QuietOther, DrainStep DEF Destroy
<1>5. CASE UNCHANGED vars
  BY <1>5, QuietOther
<1> QED
  BY <1>1, <1>2, <1>3, <1>4, <1>5 DEF Next

(* Every reachable state satisfies the inductive invariant.                 *)
THEOREM Inductive == Spec => []IndInv
<1> QED
  BY InitIndInv, NextIndInv, PTL DEF Spec

(* The state keeps its types; in particular the counter of connections in   *)
(* use never goes below zero (connection_pool.cpp:68).                      *)
THEOREM TypeCorrect == Spec => []TypeOK
<1>1. IndInv => TypeOK
  BY DEF IndInv
<1> QED
  BY Inductive, <1>1, PTL

(* No connection is ever used by two threads, or used while it is queued.   *)
THEOREM ExclusiveOwnership == Spec => []Exclusive
<1>1. IndInv => Exclusive
  BY DEF IndInv
<1> QED
  BY Inductive, <1>1, PTL

(* The counter is exact: no path of a call, failed or not, leaks a unit.    *)
THEOREM ActiveIsExact == Spec => []ActiveCount
<1>1. IndInv => ActiveCount
  BY DEF IndInv
<1> QED
  BY Inductive, <1>1, PTL

(* Connections in existence or being created stay within the limit or       *)
(* within the number of threads.                                            *)
THEOREM Bounded == Spec => []LiveBound
<1>1. IndInv => LiveBound
  BY DEF IndInv
<1> QED
  BY Inductive, <1>1, PTL

(* The limit is exceeded only because it is tested before the mutex is      *)
(* released for createConnection: a step that adds a connection takes the   *)
(* total at most as far over max_connections as there are threads that were *)
(* creating one already, and over it only if there is such a thread         *)
(* (connection_pool.cpp:47-50).                                             *)
Total == Len(pool) + Cardinality(Busy)

THEOREM OnlyRacersExceedTheLimit ==
  Spec => [][Total' > Total => Total' <= MaxConnections + Cardinality(Creators)]_vars
<1>1. ASSUME IndInv, [Next]_vars, Total' > Total
      PROVE  Total' <= MaxConnections + Cardinality(Creators)
  <2>0. IndInv' /\ Len(pool) \in Nat /\ Len(pool') \in Nat
    BY <1>1, NextIndInv DEF IndInv, TypeOK
  <2>1. Creators \in SUBSET Threads /\ Creators' \in SUBSET Threads
    BY DEF Creators
  <2>2. /\ IsFiniteSet(Creators) /\ Cardinality(Creators) \in Nat
        /\ IsFiniteSet(Holders) /\ Cardinality(Holders) \in Nat
        /\ IsFiniteSet(Busy) /\ Cardinality(Busy) \in Nat
    BY <2>1, BusyFinite, PoolAssumption, FS_Subset, FS_CardinalityType
  <2>3. ASSUME NEW t \in Threads, NoneUsable(t)
        PROVE  Total' <= MaxConnections + Cardinality(Creators)
    <3>1. /\ pool' = <<>> /\ active' = active /\ held' = held
          /\ pc' = [pc EXCEPT ![t] = IF active < MaxConnections THEN "creating" ELSE "null"]
          /\ pc[t] \in {"idle", "awake"}
      BY <2>3 DEF NoneUsable, Tests
    <3>2. Holders' = Holders /\ t \notin Holders /\ t \notin Creators
      BY <1>1, <3>1 DEF Holders, Creators, IndInv, OwnerUses
    <3>3. CASE active < MaxConnections
      <4>1. Creators' = Creators \cup {t}
        BY <1>1, <3>1, <3>3 DEF Creators, IndInv, TypeOK
      <4>2. Busy' = Holders \cup (Creators \cup {t})
        BY <3>2, <4>1 DEF Busy
      <4>3. Holders \cap (Creators \cup {t}) = {}
        BY <1>1, <3>2 DEF Holders, Creators, IndInv, OwnerUses
      <4>4. IsFiniteSet(Creators \cup {t})
            /\ Cardinality(Creators \cup {t}) = Cardinality(Creators) + 1
        BY <2>2, <3>2, FS_AddElement
      <4>5. Cardinality(Busy') = Cardinality(Holders) + Cardinality(Creators) + 1
        <5>1. Cardinality(Holders \cup (Creators \cup {t}))
                = Cardinality(Holders) + Cardinality(Creators \cup {t})
                    - Cardinality(Holders \cap (Creators \cup {t}))
          BY <2>2, <4>4, FS_Union
        <5>2. Cardinality(Holders \cap (Creators \cup {t})) = 0
          BY <4>3, FS_EmptySet
        <5> QED
          BY <2>2, <4>2, <4>4, <5>1, <5>2
      <4> QED
        BY <1>1, <2>2, <3>1, <3>3, <4>5, PoolAssumption DEF Total, IndInv, ActiveCount, TypeOK
    <3>4. CASE ~(active < MaxConnections)
      <4>1. Creators' = Creators
        BY <1>1, <3>1, <3>4 DEF Creators, IndInv, TypeOK
      <4>2. Busy' = Busy
        BY <3>2, <4>1 DEF Busy
      <4> QED
        BY <1>1, <2>0, <2>2, <3>1, <4>2 DEF Total
    <3> QED
      BY <3>3, <3>4
  <2>4. ASSUME NEW t \in Threads, Take(t) PROVE FALSE
    <3>1. PICK k \in 1..Len(pool) :
            held' = [held EXCEPT ![t] = pool[k]] /\ pool' = SubSeq(pool, k + 1, Len(pool))
      BY <2>4 DEF Take, RestAfter
    <3>2. Len(pool') = Len(pool) - k
      <4>1. pool \in Seq(Conns) /\ k + 1 \in Int /\ Len(pool) \in Int
        BY <1>1, <2>0 DEF IndInv, TypeOK
      <4>2. \A i \in (k + 1)..Len(pool) : pool[i] \in Conns
        BY <4>1
      <4>3. Len(SubSeq(pool, k + 1, Len(pool)))
              = IF k + 1 <= Len(pool) THEN Len(pool) - (k + 1) + 1 ELSE 0
        BY <4>1, <4>2, SubSeqProperties
      <4> QED
        BY <2>0, <3>1, <4>3
    <3>3. Busy' \subseteq Busy \cup {t}
      BY <1>1, <2>4, <3>1 DEF Take, Busy, Holders, Creators, IndInv, TypeOK
    <3>4. /\ IsFiniteSet(Busy \cup {t})
          /\ Cardinality(Busy \cup {t}) <= Cardinality(Busy) + 1
          /\ Cardinality(Busy \cup {t}) \in Nat
      <4>1. /\ IsFiniteSet(Busy \cup {t})
            /\ Cardinality(Busy \cup {t})
                 = IF t \in Busy THEN Cardinality(Busy) ELSE Cardinality(Busy) + 1
        BY <2>2, FS_AddElement
      <4> QED
        BY <2>2, <4>1
    <3>5. Cardinality(Busy') <= Cardinality(Busy \cup {t}) /\ Cardinality(Busy') \in Nat
      BY <3>3, <3>4, FS_Subset, FS_CardinalityType
    <3> QED
      BY <1>1, <2>0, <2>2, <3>2, <3>4, <3>5 DEF Total
  <2>5. ASSUME NEW t \in Threads, Return(t) PROVE FALSE
    <3>1. /\ pc[t] = "using" /\ NotifyOne(t)
          /\ held' = [held EXCEPT ![t] = NoConn]
          /\ pool' = pool \/ pool' = Append(pool, held[t])
      BY <2>5 DEF Return
    <3>2. t \in Holders /\ Holders' = Holders \ {t}
      BY <1>1, <3>1 DEF Holders, IndInv, OwnerUses, TypeOK
    <3>3. Creators' = Creators /\ t \notin Creators
      BY <1>1, <3>1, NotifyEffect DEF Creators, IndInv
    <3>4. Busy' = Busy \ {t} /\ t \in Busy
      BY <3>2, <3>3 DEF Busy
    <3>5. Cardinality(Busy') = Cardinality(Busy) - 1
      BY <2>2, <3>4, FS_RemoveElement
    <3>6. Len(pool') <= Len(pool) + 1
      BY <1>1, <2>0, <3>1 DEF IndInv, TypeOK
    <3> QED
      BY <1>1, <2>0, <2>2, <3>5, <3>6 DEF Total
  <2>6. ASSUME NEW t \in Threads, CreateOk(t) \/ CreateFail(t) PROVE FALSE
    <3>1. pool' = pool /\ Busy' \subseteq Busy
      BY <1>1, <2>6 DEF CreateOk, CreateFail, Busy, Holders, Creators, IndInv, TypeOK
    <3>2. Cardinality(Busy') <= Cardinality(Busy) /\ Cardinality(Busy') \in Nat
      BY <2>2, <3>1, FS_Subset, FS_CardinalityType
    <3> QED
      BY <1>1, <2>0, <2>2, <3>1, <3>2 DEF Total
  <2>7. CASE DtorDrain
    <3>1. pool' = <<>> /\ Busy' = Busy
      BY <2>7 DEF DtorDrain, Busy, Holders, Creators
    <3> QED
      BY <1>1, <2>0, <2>2, <3>1 DEF Total
  <2>8. ASSUME pool' = pool, Busy' = Busy PROVE FALSE
    BY <1>1, <2>0, <2>2, <2>8 DEF Total
  <2>9. ASSUME NEW t \in Threads, \/ Wait(t) \/ Block(t) \/ SpuriousWakeup(t)
                                 \/ Timeout(t) \/ Refuse(t)
        PROVE  FALSE
    <3>1. pool' = pool /\ Busy' = Busy
      BY <1>1, <2>9 DEF Wait, Block, SpuriousWakeup, Timeout, CanTimeOut, Refuse, Tests,
                        Busy, Holders, Creators, IndInv, TypeOK
    <3> QED
      BY <2>8, <3>1
  <2>10. CASE DtorNotify
    <3>1. pool' = pool /\ Busy' = Busy
      BY <2>10 DEF DtorNotify, Waiters, Busy, Holders, Creators
    <3> QED
      BY <2>8, <3>1
  <2>11. CASE UNCHANGED <<pool, held, pc>>
    BY <2>8, <2>11 DEF Busy, Holders, Creators
  <2> QED
    BY <1>1, <2>3, <2>4, <2>5, <2>6, <2>7, <2>9, <2>10, <2>11
    DEF Next, Get, GiveBack, Destroy, TakeFaults, UseNull, ReturnFaults, Lose, DtorFlag, vars
<1>2. IndInv /\ [Next]_vars
        => [Total' > Total => Total' <= MaxConnections + Cardinality(Creators)]_vars
  BY <1>1
<1> QED
  BY <1>2, Inductive, PTL DEF Spec

-----------------------------------------------------------------------------
(* Once the destructor has drained the queue, a connection given back late  *)
(* is closed, never queued again (connection_pool.cpp:70).                  *)
DrainedStaysEmpty == dtor = "drained" => pool = <<>>

(* The queue grows in returnConnection only, and only below MinConnections; *)
(* once the destructor has drained it nothing is queued again.              *)
LEMMA QueueStep ==
  ASSUME TypeOK, TypeOK', PoolWithinMin, DrainedStaysEmpty, [Next]_vars
  PROVE  PoolWithinMin' /\ DrainedStaysEmpty'
<1> USE PoolAssumption
<1>0. pool \in Seq(Conns) /\ Len(pool) \in Nat
  BY DEF TypeOK
<1>1. CASE pool' = pool /\ (dtor' = dtor \/ dtor' # "drained")
  BY <1>1 DEF PoolWithinMin, DrainedStaysEmpty
<1>2. CASE pool' = <<>>
  BY <1>2 DEF PoolWithinMin, DrainedStaysEmpty
<1>3. ASSUME NEW t \in Threads, Take(t)
      PROVE  PoolWithinMin' /\ DrainedStaysEmpty'
  <2>1. PICK k \in 1..Len(pool) : pool' = SubSeq(pool, k + 1, Len(pool))
    BY <1>3 DEF Take, RestAfter
  <2>2. dtor' = "alive"
    BY <1>3 DEF Take, Shutdown
  <2>3. \A i \in (k + 1)..Len(pool) : pool[i] \in Conns
    BY <1>0, <2>1
  <2>4. Len(pool') <= Len(pool)
    BY <1>0, <2>1, <2>3, SubSeqProperties
  <2>5. Len(pool') \in Nat
    BY DEF TypeOK
  <2> QED
    BY <1>0, <2>2, <2>4, <2>5 DEF PoolWithinMin, DrainedStaysEmpty
<1>4. ASSUME NEW t \in Threads, Return(t)
      PROVE  PoolWithinMin' /\ DrainedStaysEmpty'
  <2>1. CASE KeepIdle(held[t])
    <3>1. pool' = Append(pool, held[t]) /\ dtor' = "alive" /\ Len(pool) < MinConnections
      BY <1>4, <2>1 DEF Return, KeepIdle, Shutdown
    <3>2. Len(pool') = Len(pool) + 1
      BY <1>0, <3>1
    <3> QED
      BY <1>0, <3>1, <3>2 DEF PoolWithinMin, DrainedStaysEmpty
  <2>2. CASE ~KeepIdle(held[t])
    BY <1>1, <1>4, <2>2 DEF Return
  <2> QED
    BY <2>1, <2>2
<1> QED
  BY <1>1, <1>2, <1>3, <1>4
  DEF Next, Get, GiveBack, Destroy, Wait, Block, SpuriousWakeup, Timeout, Refuse,
      NoneUsable, TakeFaults, CreateOk, CreateFail, UseNull, ReturnFaults, Lose,
      DtorFlag, DtorNotify, DtorDrain, vars

(* The queue stays within MinConnections, and empty once it is drained.     *)
THEOREM QueueBounded == Spec => [](PoolWithinMin /\ DrainedStaysEmpty)
<1>1. Init => PoolWithinMin /\ DrainedStaysEmpty
  <2> SUFFICES ASSUME Init PROVE PoolWithinMin /\ DrainedStaysEmpty
    OBVIOUS
  <2>1. PICK n \in 0..MinConnections : pool \in [1..n -> Conns]
    BY DEF Init
  <2>2. n \in Nat /\ Len(pool) = n
    BY <2>1, PoolAssumption
  <2> QED
    BY <2>2, PoolAssumption DEF Init, PoolWithinMin, DrainedStaysEmpty
<1>2. TypeOK /\ TypeOK' /\ (PoolWithinMin /\ DrainedStaysEmpty) /\ [Next]_vars
        => (PoolWithinMin /\ DrainedStaysEmpty)'
  BY QueueStep
<1> QED
  BY <1>1, <1>2, TypeCorrect, PTL DEF Spec

-----------------------------------------------------------------------------
(* A guard that owns nothing is handed out only over the limit: the queue   *)
(* holds connections although all of max_connections are counted as active, *)
(* and none of those in the queue is usable (connection_pool.cpp:24, 36-47).*)
NullOnlyOverLimit ==
  \A t \in Threads : pc'[t] = "null" /\ pc[t] # "null" =>
    ~TotalWithinMax /\ Pooled # {} /\ \A c \in Pooled : ~Usable(c)

THEOREM NullGuardsOnlyOverLimit == Spec => [][NullOnlyOverLimit]_vars
<1>1. TypeOK /\ [Next]_vars => [NullOnlyOverLimit]_vars
  <2> SUFFICES ASSUME TypeOK, Next PROVE NullOnlyOverLimit
    OBVIOUS
  <2>0. pc \in [Threads -> ThreadStates] /\ pool \in Seq(Conns) /\ active \in Nat
    BY DEF TypeOK
  <2>1. ASSUME NEW t \in Threads, NEW s \in ThreadStates \ {"null"},
               pc' = [pc EXCEPT ![t] = s]
        PROVE  NullOnlyOverLimit
    BY <2>0, <2>1 DEF NullOnlyOverLimit
  <2>2. CASE pc' = pc
    BY <2>2 DEF NullOnlyOverLimit
  <2>3. ASSUME NEW t \in Threads, NoneUsable(t) PROVE NullOnlyOverLimit
    <3>1. /\ ~MustWait /\ ~Shutdown
          /\ \A c \in Pooled : ~Usable(c)
          /\ pc' = [pc EXCEPT ![t] = IF active < MaxConnections THEN "creating" ELSE "null"]
      BY <2>3 DEF NoneUsable
    <3>2. CASE active < MaxConnections
      BY <2>1, <3>1, <3>2 DEF ThreadStates
    <3>3. CASE ~(active < MaxConnections)
      <4>1. active >= MaxConnections /\ pool # <<>>
        BY <2>0, <3>1, <3>3, PoolAssumption DEF MustWait
      <4>2. Len(pool) \in Nat \ {0} /\ pool[1] \in Pooled
        BY <2>0, <4>1 DEF Pooled
      <4>3. ~TotalWithinMax
        BY <2>0, <4>1, <4>2, PoolAssumption DEF TotalWithinMax
      <4> QED
        BY <3>1, <4>2, <4>3 DEF NullOnlyOverLimit
    <3> QED
      BY <3>2, <3>3
  <2>4. ASSUME NEW t \in Threads, Return(t) PROVE NullOnlyOverLimit
    <3>1. CASE Waiters = {}
      BY <2>1, <2>4, <3>1 DEF Return, NotifyOne, ThreadStates
    <3>2. CASE Waiters # {}
      BY <2>0, <2>4, <3>2 DEF Return, NotifyOne, Waiters, NullOnlyOverLimit
    <3> QED
      BY <3>1, <3>2
  <2>5. CASE DtorNotify
    BY <2>5 DEF DtorNotify, Waiters, NullOnlyOverLimit
  <2>6. ASSUME NEW t \in Threads, Get(t) PROVE NullOnlyOverLimit
    BY <2>1, <2>2, <2>3, <2>6
    DEF Get, Wait, Block, SpuriousWakeup, Timeout, Refuse, Take, TakeFaults,
        CreateOk, CreateFail, UseNull, ThreadStates
  <2> QED
    BY <2>2, <2>4, <2>5, <2>6
    DEF Next, GiveBack, ReturnFaults, Lose, Destroy, DtorFlag, DtorDrain
<1> QED
  BY <1>1, TypeCorrect, PTL DEF Spec

-----------------------------------------------------------------------------
(* Why nobody sleeps over a connection.  Whoever begins to wait has found   *)
(* nothing queued and the limit reached; from then on every connection that *)
(* comes free comes with a wake-up, and every thread that a wake-up reached *)
(* either takes what came free, creates what takes its place, or wastes it. *)
(* So there are as many woken threads as there are connections to be had.   *)
Awake == {t \in Threads : pc[t] = "awake"}

Covered ==
  ~Shutdown =>
    /\ \A t \in Threads : pc[t] = "blocking" => pool = <<>> /\ active >= MaxConnections
    /\ Waiters # {} /\ ~wasted =>
         /\ Len(pool) <= Cardinality(Awake)
         /\ MaxConnections <= active + Cardinality(Creators) + Cardinality(Awake)

LEMMA AwakeFinite ==
  /\ IsFiniteSet(Awake) /\ Cardinality(Awake) \in Nat
  /\ IsFiniteSet(Creators) /\ Cardinality(Creators) \in Nat
<1>1. Awake \in SUBSET Threads /\ Creators \in SUBSET Threads
  BY DEF Awake, Creators
<1> QED
  BY <1>1, PoolAssumption, FS_Subset, FS_CardinalityType

(* A step by which one thread only, and not a waiter, leaves "awake".       *)
LEMMA OneLessAwake ==
  ASSUME NEW t \in Threads, Awake' = Awake \/ Awake' = Awake \ {t}
  PROVE  Cardinality(Awake') \in Nat /\ Cardinality(Awake) <= Cardinality(Awake') + 1
<1>1. Cardinality(Awake \ {t}) = IF t \in Awake THEN Cardinality(Awake) - 1 ELSE Cardinality(Awake)
  BY AwakeFinite, FS_RemoveElement
<1>2. IsFiniteSet(Awake \ {t})
  BY AwakeFinite, FS_RemoveElement
<1>3. Cardinality(Awake \ {t}) \in Nat
  BY <1>2, FS_CardinalityType
<1> QED
  BY <1>1, <1>3, AwakeFinite

LEMMA CoveredStep ==
  ASSUME IndInv, Covered, [Next]_vars
  PROVE  Covered'
<1> USE PoolAssumption
<1>0. /\ pc \in [Threads -> ThreadStates] /\ pool \in Seq(Conns)
      /\ Len(pool) \in Nat /\ active \in Nat
      /\ IndInv' /\ Len(pool') \in Nat /\ active' \in Nat
  BY NextIndInv DEF IndInv, TypeOK
<1>a. Cardinality(Awake') \in Nat /\ Cardinality(Creators') \in Nat
  <2>1. Awake' \in SUBSET Threads /\ Creators' \in SUBSET Threads
    BY DEF Awake, Creators
  <2> QED
    BY <2>1, FS_Subset, FS_CardinalityType
<1>1. CASE Shutdown'
  BY <1>1 DEF Covered
<1>2. CASE UNCHANGED <<pool, active, pc, dtor, wasted>>
  BY <1>2 DEF Covered, Waiters, Awake, Creators, Shutdown
<1>3. ASSUME NEW t \in Threads, ~Shutdown, Wait(t) \/ Block(t)
      PROVE  Covered'
  <2>1. pool' = pool /\ active' = active /\ pool = <<>> /\ active >= MaxConnections
    BY <1>0, <1>3 DEF Wait, Block, MustWait, Covered
  <2> QED
    BY <1>0, <1>a, <2>1 DEF Covered
<1>4. ASSUME NEW t \in Threads, ~Shutdown, SpuriousWakeup(t)
      PROVE  Covered'
  <2>1. /\ pc[t] = "waiting" /\ pc' = [pc EXCEPT ![t] = "awake"]
        /\ UNCHANGED <<pool, active, dtor, wasted>>
    BY <1>4 DEF SpuriousWakeup
  <2>2. Awake' = Awake \cup {t} /\ Creators' = Creators /\ Waiters' \subseteq Waiters
    BY <1>0, <2>1 DEF Awake, Creators, Waiters
  <2>3. Cardinality(Awake) <= Cardinality(Awake')
    <3>1. t \notin Awake
      BY <2>1 DEF Awake
    <3>2. Cardinality(Awake \cup {t}) = Cardinality(Awake) + 1
      BY <3>1, AwakeFinite, FS_AddElement
    <3> QED
      BY <2>2, <3>2, AwakeFinite
  <2>4. \A u \in Threads : pc'[u] = "blocking" => pc[u] = "blocking"
    BY <1>0, <2>1
  <2> QED
    BY <1>0, <1>a, <1>4, <2>1, <2>2, <2>3, <2>4, AwakeFinite DEF Covered
<1>5. ASSUME NEW t \in Threads, Timeout(t) \/ CreateFail(t)
      PROVE  Covered'
  <2>1. CASE wasted'
    <3>1. \A u \in Threads : pc'[u] # "blocking"
      BY <1>0, <1>5 DEF Timeout, CreateFail, LockFree
    <3> QED
      BY <2>1, <3>1 DEF Covered
  <2>2. CASE ~wasted'
    <3>1. /\ pc[t] = "waiting" /\ pc' = [pc EXCEPT ![t] = "idle"]
          /\ UNCHANGED <<pool, active, dtor>> /\ wasted' = wasted
          /\ \A u \in Threads : pc[u] # "blocking"
      BY <1>5, <2>2 DEF Timeout, CanTimeOut, CreateFail, LockFree, IndInv, TypeOK
    <3>2. Awake' = Awake /\ Creators' = Creators /\ Waiters' \subseteq Waiters
      BY <1>0, <3>1 DEF Awake, Creators, Waiters
    <3>3. \A u \in Threads : pc'[u] # "blocking"
      BY <1>0, <3>1
    <3> QED
      BY <3>1, <3>2, <3>3 DEF Covered, Shutdown
  <2> QED
    BY <2>1, <2>2
<1>6. ASSUME NEW t \in Threads, ~Shutdown, Take(t)
      PROVE  Covered'
  <2>1. PICK k \in 1..Len(pool) : pool' = SubSeq(pool, k + 1, Len(pool))
    BY <1>6 DEF Take, RestAfter
  <2>2. /\ pc[t] \in {"idle", "awake"} /\ pc' = [pc EXCEPT ![t] = "using"]
        /\ active' = active + 1 /\ wasted' = wasted
        /\ \A u \in Threads : pc[u] # "blocking"
    BY <1>6 DEF Take, Tests, LockFree, CountAfterGet
  <2>3. Len(pool') <= Len(pool) - 1
    <3>1. k + 1 \in Int /\ Len(pool) \in Int /\ \A i \in (k + 1)..Len(pool) : pool[i] \in Conns
      BY <1>0, <2>1
    <3>2. Len(SubSeq(pool, k + 1, Len(pool)))
            = IF k + 1 <= Len(pool) THEN Len(pool) - (k + 1) + 1 ELSE 0
      BY <1>0, <3>1, SubSeqProperties
    <3> QED
      BY <1>0, <2>1, <3>2
  <2>4. Awake' = Awake \ {t} /\ Creators' = Creators /\ Waiters' = Waiters
    BY <1>0, <2>2 DEF Awake, Creators, Waiters
  <2>5. \A u \in Threads : pc'[u] # "blocking"
    BY <1>0, <2>2
  <2>6. Cardinality(Awake) <= Cardinality(Awake') + 1
    BY <2>4, OneLessAwake
  <2> QED
    BY <1>0, <1>a, <1>6, <2>2, <2>3, <2>4, <2>5, <2>6, AwakeFinite DEF Covered
<1>7. ASSUME NEW t \in Threads, ~Shutdown, NoneUsable(t)
      PROVE  Covered'
  <2>1. /\ pc[t] \in {"idle", "awake"} /\ pool' = <<>> /\ active' = active /\ wasted' = wasted
        /\ pc' = [pc EXCEPT ![t] = IF active < MaxConnections THEN "creating" ELSE "null"]
        /\ \A u \in Threads : pc[u] # "blocking"
    BY <1>7 DEF NoneUsable, Tests, LockFree
  <2>2. \A u \in Threads : pc'[u] # "blocking"
    BY <1>0, <2>1
  <2>3. CASE active >= MaxConnections
    BY <1>0, <1>a, <2>1, <2>2, <2>3 DEF Covered
  <2>4. CASE ~(active >= MaxConnections)
    <3>0. active < MaxConnections
      BY <1>0, <2>4
    <3>1. pc' = [pc EXCEPT ![t] = "creating"]
      BY <2>1, <3>0
    <3>2. /\ Awake' = Awake \ {t} /\ Waiters' = Waiters
          /\ Creators' = Creators \cup {t} /\ t \notin Creators
      BY <1>0, <2>1, <3>1 DEF Awake, Creators, Waiters
    <3>3. Cardinality(Creators') = Cardinality(Creators) + 1
      BY <3>2, AwakeFinite, FS_AddElement
    <3>4. Cardinality(Awake) <= Cardinality(Awake') + 1
      BY <3>2, OneLessAwake
    <3> QED
      BY <1>0, <1>a, <1>7, <2>1, <2>2, <3>2, <3>3, <3>4, AwakeFinite DEF Covered
  <2> QED
    BY <2>3, <2>4
<1>8. ASSUME NEW t \in Threads, ~Shutdown, CreateOk(t)
      PROVE  Covered'
  <2>1. /\ pc[t] = "creating" /\ pc' = [pc EXCEPT ![t] = "using"]
        /\ active' = active + 1 /\ pool' = pool /\ wasted' = wasted
        /\ \A u \in Threads : pc[u] # "blocking"
    BY <1>8 DEF CreateOk, LockFree, CountAfterGet
  <2>2. /\ Awake' = Awake /\ Waiters' = Waiters
        /\ Creators' = Creators \ {t} /\ t \in Creators
    BY <1>0, <2>1 DEF Awake, Creators, Waiters
  <2>3. Cardinality(Creators') = Cardinality(Creators) - 1
    BY <2>2, AwakeFinite, FS_RemoveElement
  <2>4. \A u \in Threads : pc'[u] # "blocking"
    BY <1>0, <2>1
  <2> QED
    BY <1>0, <1>a, <1>8, <2>1, <2>2, <2>3, <2>4, AwakeFinite DEF Covered
<1>9. ASSUME NEW t \in Threads, ~Shutdown, Return(t)
      PROVE  Covered'
  <2>1. /\ pc[t] = "using" /\ NotifyOne(t) /\ active' = active - 1 /\ wasted' = wasted
        /\ pool' = pool \/ pool' = Append(pool, held[t])
        /\ \A u \in Threads : pc[u] # "blocking"
    BY <1>9 DEF Return, LockFree, CountAfterReturn
  <2>2. CASE Waiters = {}
    <3>1. Waiters' = {} /\ \A u \in Threads : pc'[u] # "blocking"
      BY <1>0, <2>1, <2>2 DEF NotifyOne, Waiters
    <3> QED
      BY <3>1 DEF Covered
  <2>3. CASE Waiters # {}
    <3>1. PICK w \in Waiters : pc' = [pc EXCEPT ![t] = "idle", ![w] = "awake"]
      BY <2>1, <2>3 DEF NotifyOne
    <3>2. w \in Threads /\ pc[w] = "waiting" /\ w # t
      BY <2>1 DEF Waiters
    <3>3. Awake' = Awake \cup {w} /\ w \notin Awake /\ Creators' = Creators
      BY <1>0, <2>1, <3>1, <3>2 DEF Awake, Creators
    <3>4. Cardinality(Awake') = Cardinality(Awake) + 1
      BY <3>3, AwakeFinite, FS_AddElement
    <3>5. Len(pool') <= Len(pool) + 1
      BY <1>0, <2>1
    <3>6. \A u \in Threads : pc'[u] # "blocking"
      BY <1>0, <2>1, <3>1, <3>2
    <3> QED
      BY <1>0, <1>a, <1>9, <2>1, <2>3, <3>3, <3>4, <3>5, <3>6, AwakeFinite DEF Covered
  <2> QED
    BY <2>2, <2>3
<1>10. ASSUME NEW t \in Threads, Get(t) \/ GiveBack(t) PROVE Covered'
  <2>1. dtor' = dtor
    BY <1>10 DEF Get, GiveBack, Wait, Block, SpuriousWakeup, Timeout, Refuse, Take,
                 NoneUsable, TakeFaults, CreateOk, CreateFail, UseNull, Return, ReturnFaults
  <2>2. CASE Shutdown
    BY <1>1, <2>1, <2>2 DEF Shutdown
  <2>3. CASE ~Shutdown
    BY <1>2, <1>3, <1>4, <1>5, <1>6, <1>7, <1>8, <1>9, <1>10, <2>3
    DEF Get, GiveBack, Refuse, TakeFaults, UseNull, ReturnFaults
  <2> QED
    BY <2>2, <2>3
<1> QED
  BY <1>1, <1>2, <1>10
  DEF Next, Lose, Destroy, DtorFlag, DtorNotify, DtorDrain, Shutdown, vars

(* Whatever the number of threads, somebody sleeps over a connection that   *)
(* nobody is about to take only after a wake-up was wasted on a thread that *)
(* timed out or could not connect (connection_pool.cpp:24-27, 47-54, 75).   *)
THEOREM SleepersOnlyAfterWaste == Spec => []OnlyWasteLeavesSleepers
<1>1. Init => Covered
  BY DEF Init, Covered, Waiters
<1>2. IndInv /\ Covered /\ [Next]_vars => Covered'
  BY CoveredStep
<1>3. IndInv /\ Covered => OnlyWasteLeavesSleepers
  <2> SUFFICES ASSUME IndInv, Covered, Spare, ~Shutdown, Waiters # {}, ~wasted, Awake = {}
               PROVE  FALSE
    BY DEF OnlyWasteLeavesSleepers, Awake
  <2>1. pool \in Seq(Conns) /\ active \in Nat
    BY DEF IndInv, TypeOK
  <2>2. Cardinality(Awake) = 0
    BY FS_EmptySet
  <2>3. Len(pool) <= 0 /\ MaxConnections <= active + Cardinality(Creators)
    BY <2>1, <2>2, AwakeFinite, PoolAssumption DEF Covered
  <2>4. pool = <<>>
    BY <2>1, <2>3
  <2> QED
    BY <2>1, <2>3, <2>4, AwakeFinite, PoolAssumption DEF Spare
<1> QED
  BY <1>1, <1>2, <1>3, Inductive, PTL DEF Spec
-----------------------------------------------------------------------------
(* The pool implements ConnectionLeases.  The instance brings the library's *)
(* definitions along under its own name.                                    *)
LEMMA SameCardinality == \A S : Leases!Cardinality(S) = Cardinality(S)
BY DEF Leases!Cardinality, Cardinality

(* The queue has room for as many connections as it has places.             *)
LEMMA PooledSize ==
  ASSUME pool \in Seq(Conns)
  PROVE  Cardinality(Pooled) \in Nat /\ Cardinality(Pooled) <= Len(pool)
<1> DEFINE f == [i \in 1..Len(pool) |-> pool[i]]
<1>1. Len(pool) \in Nat
  BY LenProperties
<1>2. IsFiniteSet(1..Len(pool)) /\ Cardinality(1..Len(pool)) = Len(pool)
  BY <1>1, FS_Interval
<1>3. f \in Surjection(1..Len(pool), Pooled)
  BY DEF Surjection, Pooled
<1> QED
  BY <1>2, <1>3, FS_Surjection, FS_CardinalityType

LEMMA InitLends == Init => Leases!Init
<1> SUFFICES ASSUME Init PROVE Leases!Init
  OBVIOUS
<1>1. IndInv
  BY InitIndInv
<1>2. pool \in Seq(Conns) /\ Pooled \subseteq Conns
  BY <1>1 DEF IndInv, TypeOK, Pooled
<1>3. PICK n \in 0..MinConnections : pool \in [1..n -> Conns]
  BY DEF Init
<1>4. Len(pool) <= MinConnections /\ Len(pool) \in Nat
  BY <1>3, PoolAssumption
<1>5. Cardinality(Pooled) <= MinConnections
  BY <1>2, <1>4, PooledSize, PoolAssumption
<1> QED
  BY <1>2, <1>5, SameCardinality DEF Leases!Init, Init, Shutdown

(* Handing out a queued connection: it leaves the queue, the connections    *)
(* before it are discarded, and no other comes in.                          *)
LEMMA TakeLends ==
  ASSUME IndInv, NEW t \in Threads, Take(t)
  PROVE  Leases!Lend(t)
<1>1. PICK k \in 1..Len(pool) :
        /\ held' = [held EXCEPT ![t] = pool[k]]
        /\ pool' = SubSeq(pool, k + 1, Len(pool))
  BY DEF Take, RestAfter
<1>2. ~Shutdown /\ dtor' = dtor /\ held[t] = NoConn
  BY DEF Take, Tests, IndInv, OwnerUses
<1>3. pool \in Seq(Conns) /\ Len(pool) \in Nat
  BY LenProperties DEF IndInv, TypeOK
<1>4. /\ Len(pool') = Len(pool) - k
      /\ \A i \in 1..Len(pool') : pool'[i] = pool[k + i]
  <2>1. \A i \in (k + 1)..Len(pool) : pool[i] \in Conns
    BY <1>3
  <2>2. k + 1 \in Int /\ Len(pool) \in Int
    BY <1>3
  <2>3. /\ Len(SubSeq(pool, k + 1, Len(pool)))
             = IF k + 1 <= Len(pool) THEN Len(pool) - (k + 1) + 1 ELSE 0
        /\ \A i \in 1..(Len(pool) - (k + 1) + 1) :
             SubSeq(pool, k + 1, Len(pool))[i] = pool[k + 1 + i - 1]
    BY <2>1, <2>2, SubSeqProperties
  <2> QED
    BY <1>1, <1>3, <2>3
<1>5. Pooled' \subseteq Pooled \ {pool[k]} /\ pool[k] \in Pooled
  <2>1. Pooled' \subseteq Pooled /\ pool[k] \in Pooled
    BY <1>1, <1>3, <1>4 DEF Pooled
  <2>2. pool[k] \notin Pooled'
    BY <1>1, <1>3, <1>4 DEF Pooled, IndInv, Exclusive
  <2> QED
    BY <2>1, <2>2
<1> QED
  BY <1>1, <1>2, <1>5 DEF Leases!Lend, Shutdown

LEMMA CreateLends ==
  ASSUME IndInv, NEW t \in Threads, CreateOk(t)
  PROVE  Leases!Open(t)
<1>1. held[t] = NoConn
  BY DEF CreateOk, IndInv, OwnerUses
<1>2. Pooled' = Pooled
  BY DEF CreateOk, Pooled
<1> QED
  BY <1>1, <1>2 DEF CreateOk, Leases!Open, Leases!Leased, Shutdown

LEMMA ReturnLends ==
  ASSUME IndInv, NEW t \in Threads, Return(t)
  PROVE  Leases!GiveBack(t)
<1>1. /\ held[t] # NoConn
      /\ held' = [held EXCEPT ![t] = NoConn]
      /\ dtor' = dtor
      /\ pool' = IF KeepIdle(held[t]) THEN Append(pool, held[t]) ELSE pool
  BY DEF Return, IndInv, OwnerUses
<1>2. CASE ~KeepIdle(held[t])
  BY <1>1, <1>2 DEF Leases!GiveBack, Pooled, Shutdown
<1>3. CASE KeepIdle(held[t])
  <2>1. pool \in Seq(Conns) /\ held[t] \in Conns
    BY <1>1 DEF IndInv, TypeOK
  <2>2. /\ pool' = Append(pool, held[t])
        /\ Len(pool') = Len(pool) + 1 /\ Len(pool) \in Nat
        /\ \A i \in 1..Len(pool) : pool'[i] = pool[i]
        /\ pool'[Len(pool) + 1] = held[t]
    BY <1>1, <1>3, <2>1, AppendProperties, LenProperties
  <2>3. Pooled' = Pooled \cup {held[t]}
    BY <2>2 DEF Pooled
  <2>4. ~Shutdown /\ Len(pool) < MinConnections
    BY <1>3 DEF KeepIdle
  <2>5. Cardinality(Pooled) < MinConnections
    BY <2>1, <2>2, <2>4, PooledSize, PoolAssumption
  <2> QED
    BY <1>1, <2>3, <2>4, <2>5, SameCardinality DEF Leases!GiveBack, Shutdown
<1> QED
  BY <1>2, <1>3

LEMMA StepLends ==
  ASSUME IndInv, [Next]_vars
  PROVE  [Leases!Next]_(Leases!vars)
<1>1. ASSUME NEW t \in Threads, Take(t) \/ CreateOk(t) \/ Return(t) PROVE Leases!Next
  BY <1>1, TakeLends, CreateLends, ReturnLends DEF Leases!Next
<1>2. ASSUME NEW t \in Threads, NoneUsable(t) PROVE Leases!Next
  <2>1. Pooled' \subseteq Pooled /\ held' = held /\ dtor' = dtor
    BY <1>2 DEF NoneUsable, Pooled
  <2> QED
    BY <2>1 DEF Leases!Next, Leases!Discard, Shutdown
<1>3. CASE UNCHANGED <<pool, held, dtor>>
  BY <1>3 DEF Leases!vars, Pooled, Shutdown
<1>4. CASE DtorFlag
  <2>1. Pooled' = Pooled /\ held' = held /\ dtor = "alive" /\ dtor' = "flagged"
    BY <1>4 DEF DtorFlag, Pooled
  <2> QED
    BY <2>1 DEF Leases!Next, Leases!Close, Shutdown
<1>5. CASE DtorNotify
  <2>1. Pooled' = Pooled /\ held' = held /\ dtor = "flagged" /\ dtor' = "notified"
    BY <1>5 DEF DtorNotify, Pooled
  <2> QED
    BY <2>1 DEF Leases!vars, Shutdown
<1>6. CASE DtorDrain
  <2>1. Pooled' = {} /\ held' = held /\ dtor = "notified" /\ dtor' = "drained"
    BY <1>6 DEF DtorDrain, Pooled
  <2> QED
    BY <2>1 DEF Leases!Next, Leases!Closed, Shutdown
<1>7. ASSUME NEW t \in Threads, Get(t) \/ GiveBack(t) PROVE [Leases!Next]_(Leases!vars)
  BY <1>1, <1>2, <1>3, <1>7
  DEF Get, GiveBack, Wait, Block, SpuriousWakeup, Timeout, Refuse, TakeFaults, CreateFail,
      UseNull, ReturnFaults
<1> QED
  BY <1>3, <1>4, <1>5, <1>6, <1>7 DEF Next, Lose, Destroy, vars

(* The pool lends connections as ConnectionLeases says: from the queue or   *)
(* new, to one thread at a time, none once shutdown_ is set but those that  *)
(* were being created, and it ends up empty (connection_pool.cpp:4-12,      *)
(* 30-44, 68-76).                                                           *)
THEOREM LendsAsPromised == Spec => Lends
<1>1. IndInv /\ [Next]_vars => [Leases!Next]_(Leases!vars)
  BY StepLends
<1> QED
  BY InitLends, <1>1, Inductive, PTL DEF Spec, Lends, Leases!Spec

-----------------------------------------------------------------------------
(* The safety half of ShutdownEndsWaits, without the fairness: from the     *)
(* moment shutdown_ is set nobody sits down who was not about to, and once  *)
(* the waiting room is empty it stays empty (connection_pool.cpp:24).       *)
Sitting == {t \in Threads : pc[t] \in {"blocking", "waiting"}}

THEOREM NobodySitsDownAfterShutdown ==
  Spec => [][Shutdown => Sitting' \subseteq Sitting]_vars
<1>1. TypeOK /\ [Next]_vars => [Shutdown => Sitting' \subseteq Sitting]_vars
  <2> SUFFICES ASSUME TypeOK, Next, Shutdown PROVE Sitting' \subseteq Sitting
    OBVIOUS
  <2>0. pc \in [Threads -> ThreadStates]
    BY DEF TypeOK
  <2>1. ASSUME NEW t \in Threads, NEW s \in ThreadStates, pc' = [pc EXCEPT ![t] = s],
               s \in {"blocking", "waiting"} => t \in Sitting
        PROVE  Sitting' \subseteq Sitting
    BY <2>0, <2>1 DEF Sitting
  <2>2. CASE pc' = pc
    BY <2>2 DEF Sitting
  <2>3. ASSUME NEW t \in Threads, Return(t) PROVE Sitting' \subseteq Sitting
    <3>1. CASE Waiters = {}
      BY <2>1, <2>3, <3>1 DEF Return, NotifyOne, ThreadStates
    <3>2. CASE Waiters # {}
      BY <2>0, <2>3, <3>2 DEF Return, NotifyOne, Waiters, Sitting
    <3> QED
      BY <3>1, <3>2
  <2>4. CASE DtorNotify
    BY <2>4 DEF DtorNotify, Waiters, Sitting
  <2>5. ASSUME NEW t \in Threads, Block(t) PROVE Sitting' \subseteq Sitting
    BY <2>1, <2>5 DEF Block, Sitting, ThreadStates
  <2>6. ASSUME NEW t \in Threads, Wait(t) PROVE FALSE
    BY <2>6 DEF Wait, MustWait
  <2>7. ASSUME NEW t \in Threads,
               \/ SpuriousWakeup(t) \/ Timeout(t) \/ Refuse(t) \/ Take(t) \/ NoneUsable(t)
               \/ CreateOk(t) \/ CreateFail(t)
        PROVE  Sitting' \subseteq Sitting
    <3>1. \E s \in ThreadStates \ {"blocking", "waiting"} : pc' = [pc EXCEPT ![t] = s]
      BY <2>7 DEF SpuriousWakeup, Timeout, Refuse, Take, NoneUsable, CreateOk, CreateFail,
                  ThreadStates
    <3> QED
      BY <2>1, <3>1
  <2> QED
    BY <2>2, <2>3, <2>4, <2>5, <2>6, <2>7
    DEF Next, Get, GiveBack, TakeFaults, UseNull, ReturnFaults, Lose, Destroy, DtorFlag,
        DtorDrain
<1> QED
  BY <1>1, TypeCorrect, PTL DEF Spec
=============================================================================
