-------------------------- MODULE EmailQueueProofs --------------------------
(***************************************************************************)
(* What the mail queue guarantees for any capacity, any number of request  *)
(* threads and calls, and any contents of the memory the ring is made of:  *)
(* the indices count the claimed slots as long as no capacity test is      *)
(* shared, a stopped worker leaves nothing behind, a wake-up is lost only  *)
(* in the worker's gap.  As long as the queue is Orderly - the worker has  *)
(* taken up no slot that only looked ready, and the ring was not           *)
(* overfilled - the mails go out in order, each once, on every lap, and    *)
(* nothing terminates the process; on the first lap success then means     *)
(* that the mail was sent.                                                 *)
(*                                                                         *)
(* Called says that a producer past its test has a call, and past the      *)
(* construction a task in its slot.  Ring adds to RingCounts who may be    *)
(* between the test and the claim and that a worker with a task in hand    *)
(* has not left its slot; Closed says that a stop comes after the last     *)
(* call; Wakeups says of a worker about to sleep what                      *)
(* OnlyTheGapLosesWakeups says of one that sleeps.  InStep, which holds    *)
(* while the queue is Orderly, OwnLap, which holds on the first lap,       *)
(* Settled, and WorkLeft, which measures the way to the end of the queue,  *)
(* are stated where they are used.                                         *)
(***************************************************************************)
EXTENDS EmailQueue, TLAPS, SequenceTheorems

Called ==
  \A p \in Producers :
    /\ prod[p].at # "idle" => prod[p].calls > 0
    /\ prod[p].at \in {"built", "published", "notified"} => slot[prod[p].pos].task # Raw

Busy == worker \in {"work", "sent", "failed", "resolved"}

Ring ==
  \/ hist.raced
  \/ /\ Pending \in 0..(Capacity - 1)
     /\ tail = IF head + Pending < Capacity THEN head + Pending ELSE head + Pending - Capacity
     /\ Busy => Pending > 0
     /\ \A p \in Producers : prod[p].at = "checked" => Pending < Capacity - 1
     /\ \A p, q \in Producers : prod[p].at = "checked" /\ prod[q].at = "checked" => p = q

Closed ==
  /\ Stopped => \A p \in Producers : prod[p].at = "idle"
  /\ worker = "exited" => Stopped /\ (Pending = 0 \/ hist.raced)

Wakeups ==
  worker \in {"blocking", "asleep"} =>
    /\ HeadReady => hist.missed \/ ToBeNotified
    /\ Stopped => hist.missed \/ stopping = "flagged"

IndInv == TypeOK /\ Called /\ Ring /\ Closed /\ Wakeups

-----------------------------------------------------------------------------
LEMMA ModFacts ==
  ASSUME NEW a \in 0..(2 * Capacity - 1)
  PROVE  a % Capacity = IF a < Capacity THEN a ELSE a - Capacity
BY QueueAssumption

LEMMA FollowingFacts ==
  ASSUME NEW i \in Slots
  PROVE  /\ Following(i) = IF i + 1 = Capacity THEN 0 ELSE i + 1
         /\ Following(i) \in Slots
BY QueueAssumption, ModFacts DEF Slots, Following

LEMMA CurrentType ==
  ASSUME TypeOK, NEW p \in Producers, prod[p].calls > 0
  PROVE  Current(p) \in Tasks
BY QueueAssumption DEF TypeOK, Current, Tasks

LEMMA InitIndInv == Init => IndInv
<1> SUFFICES ASSUME Init PROVE IndInv
  OBVIOUS
<1> USE QueueAssumption DEF Init
<1>1. hist.claims \in Seq(Tasks) /\ hist.taken \in Seq(Tasks \cup {Raw})
      /\ Len(hist.claims) = 0 /\ Len(hist.taken) = 0
  BY EmptySeq
<1>2. TypeOK
  <2>1. slot \in [Slots -> [task : Tasks \cup {Raw}, ready : BOOLEAN]]
    OBVIOUS
  <2>2. head \in Slots
    BY DEF Slots
  <2>3. hist \in [claims : Seq(Tasks), taken : Seq(Tasks \cup {Raw}),
                 mailed : SUBSET (Tasks \cup {Raw}), told : SUBSET Tasks,
                 missed : BOOLEAN, raced : BOOLEAN, early : BOOLEAN]
    BY <1>1
  <2>4. prod \in [Producers ->
       [at : {"idle", "checked", "claimed", "built", "published", "notified", "waiting"},
        calls : 0..MaxCalls, pos : Slots, future : Tasks \cup {Raw}]]
    BY <2>2
  <2>5. retrieved \subseteq Tasks /\ result \in [Tasks -> {"none", "sent", "failed"}]
    OBVIOUS
  <2>6. head \in Slots /\ tail \in Slots
    BY <2>2
  <2> HIDE DEF Init
  <2>7. /\ worker \in {"check", "blocking", "asleep", "work", "sent", "failed", "resolved", "exited"}
        /\ stopping \in {"no", "flagged", "notified", "joined"} /\ crashed \in BOOLEAN
    BY DEF Init
  <2> QED
    BY <2>1, <2>3, <2>4, <2>5, <2>6, <2>7, Zenon DEF TypeOK
<1>3. Ring
  BY <1>1 DEF Ring, Pending, Busy
<1>4. Called /\ Closed /\ Wakeups
  BY DEF Called, Closed, Wakeups, Stopped
<1> QED
  BY <1>2, <1>3, <1>4 DEF IndInv

(* The records keep their types field by field.                             *)
Places == {"idle", "checked", "claimed", "built", "published", "notified", "waiting"}
Callers == [at : Places, calls : 0..MaxCalls, pos : Slots, future : Tasks \cup {Raw}]
Contents == [task : Tasks \cup {Raw}, ready : BOOLEAN]
History == [claims : Seq(Tasks), taken : Seq(Tasks \cup {Raw}), mailed : SUBSET (Tasks \cup {Raw}),
            told : SUBSET Tasks, missed : BOOLEAN, raced : BOOLEAN, early : BOOLEAN]

LEMMA CallerTypes ==
  ASSUME NEW f \in [Producers -> Callers], NEW p \in Producers, NEW a \in Places
  PROVE  /\ [f EXCEPT ![p].at = a] \in [Producers -> Callers]
         /\ \A n \in 0..MaxCalls : [f EXCEPT ![p].calls = n, ![p].at = a] \in [Producers -> Callers]
         /\ \A i \in Slots : [f EXCEPT ![p].at = a, ![p].pos = i] \in [Producers -> Callers]
         /\ \A t \in Tasks : [f EXCEPT ![p].at = a, ![p].future = t] \in [Producers -> Callers]
BY DEF Callers

LEMMA ClaimedSlot == TypeOK => \A p \in Producers : prod[p].pos \in Slots
BY DEF TypeOK

LEMMA ContentTypes ==
  ASSUME NEW f \in [Slots -> Contents], NEW i \in Slots
  PROVE  /\ [f EXCEPT ![i].ready = TRUE] \in [Slots -> Contents]
         /\ \A t \in Tasks : [f EXCEPT ![i] = [task |-> t, ready |-> FALSE]] \in [Slots -> Contents]
BY DEF Contents

LEMMA HistoryTypes ==
  ASSUME NEW h \in History
  PROVE  /\ \A b \in BOOLEAN : [h EXCEPT !.missed = b] \in History
         /\ \A b \in BOOLEAN : [h EXCEPT !.raced = b] \in History
         /\ \A b, e \in BOOLEAN : [h EXCEPT !.missed = b, !.early = e] \in History
         /\ \A t \in Tasks : [h EXCEPT !.told = h.told \cup {t}] \in History
         /\ (h.missed \/ worker = "blocking") \in BOOLEAN
BY DEF History

LEMMA TypeStep == TypeOK /\ Called /\ [Next]_vars => TypeOK'
<1> SUFFICES ASSUME TypeOK, Called, [Next]_vars PROVE TypeOK'
  OBVIOUS
<1>0. /\ prod \in [Producers -> Callers] /\ hist \in History /\ slot \in [Slots -> Contents]
      /\ head \in Slots /\ tail \in Slots
      /\ \A i \in Slots : Following(i) \in Slots
  BY FollowingFacts DEF TypeOK, Callers, Places, History, Contents
<1>1. ASSUME NEW p \in Producers, Test(p) PROVE TypeOK'
  <2>1. prod[p].calls + 1 \in 0..MaxCalls
    BY <1>0, <1>1, QueueAssumption DEF Test, Callers
  <2>2. prod' \in [Producers -> Callers]
    <3>1. (IF Available THEN "checked" ELSE "idle") \in Places
      BY DEF Places
    <3> QED
      BY <1>0, <1>1, <2>1, <3>1, CallerTypes DEF Test
  <2>3. hist' \in History
    BY <1>0, <1>1, HistoryTypes DEF Test
  <2> QED
    BY <1>1, <2>2, <2>3 DEF Test, TypeOK, promises, life, Callers, Places, History, Contents
<1>2. ASSUME NEW p \in Producers, Claim(p) PROVE TypeOK'
  <2>1. Current(p) \in Tasks
    BY <1>2, CurrentType DEF Claim, At, Called
  <2>2. Append(hist.claims, Current(p)) \in Seq(Tasks)
    BY <1>0, <2>1, AppendProperties DEF History
  <2>3. hist' \in History
    BY <1>0, <1>2, <2>2 DEF Claim, History
  <2>4. prod' \in [Producers -> Callers]
    BY <1>0, <1>2, CallerTypes DEF Claim, Places
  <2> QED
    BY <1>0, <1>2, <2>3, <2>4 DEF Claim, TypeOK, promises, life, Callers, Places, History, Contents
<1>3. ASSUME NEW p \in Producers, Construct(p) PROVE TypeOK'
  <2>1. Current(p) \in Tasks
    BY <1>3, CurrentType DEF Construct, At, Called
  <2>2. slot' \in [Slots -> Contents] /\ prod' \in [Producers -> Callers]
    BY <1>0, <1>3, <2>1, CallerTypes, ContentTypes, ClaimedSlot DEF Construct, Places
  <2> QED
    BY <1>3, <2>2 DEF Construct, TypeOK, promises, life, Callers, Places, History, Contents
<1>4. ASSUME NEW p \in Producers, Publish(p) PROVE TypeOK'
  <2>1. slot' \in [Slots -> Contents] /\ prod' \in [Producers -> Callers]
    BY <1>0, <1>4, CallerTypes, ContentTypes, ClaimedSlot DEF Publish, Places
  <2> QED
    BY <1>4, <2>1 DEF Publish, TypeOK, promises, life, Callers, Places, History, Contents
<1>5. ASSUME NEW p \in Producers, Notify(p) PROVE TypeOK'
  <2>1. prod' \in [Producers -> Callers] /\ hist' \in History
    BY <1>0, <1>5, CallerTypes, HistoryTypes DEF Notify, Missed, Places
  <2> QED
    BY <1>5, <2>1 DEF Notify, Woken, TypeOK, promises, life, Callers, Places, History, Contents
<1>6. ASSUME NEW p \in Producers, GetFuture(p) PROVE TypeOK'
  <2>1. slot[prod[p].pos].task \in Tasks
    BY <1>0, <1>6, ClaimedSlot DEF GetFuture, At, Called, Contents
  <2>2. prod' \in [Producers -> Callers]
    <3>1. "idle" \in Places /\ "waiting" \in Places
      BY DEF Places
    <3> QED
      BY <1>0, <1>6, <2>1, <3>1, CallerTypes DEF GetFuture
  <2>3. retrieved' \subseteq Tasks
    BY <1>6, <2>1 DEF GetFuture, TypeOK
  <2> QED
    BY <1>6, <2>2, <2>3 DEF GetFuture, TypeOK, life, Callers, Places
<1>7. ASSUME NEW p \in Producers, Receive(p) PROVE TypeOK'
  <2>1. Current(p) \in Tasks
    BY <1>7, CurrentType DEF Receive, At, Called
  <2>2. prod' \in [Producers -> Callers] /\ hist' \in History
    BY <1>0, <1>7, <2>1, CallerTypes, HistoryTypes DEF Receive, Places
  <2> QED
    BY <1>7, <2>2 DEF Receive, TypeOK, promises, life, Callers, Places, History, Contents
<1>8. ASSUME NEW p \in Producers, GiveUp(p) PROVE TypeOK'
  <2>1. prod' \in [Producers -> Callers]
    BY <1>0, <1>8, CallerTypes DEF GiveUp, Places
  <2> QED
    BY <1>8, <2>1 DEF GiveUp, TypeOK, promises, life, Callers, Places, History, Contents
<1>9. CASE WorkerChecks
  <2>1. hist' \in History
    <3>1. (hist.early \/ (worker' = "work" /\ LooksReady)) \in BOOLEAN
      BY <1>0 DEF History
    <3> QED
      BY <1>0, <1>9, <3>1, HistoryTypes DEF WorkerChecks
  <2> QED
    BY <1>9, <2>1 DEF WorkerChecks, TypeOK, promises, life, Callers, Places, History, Contents
<1>10. CASE WorkerBlocks \/ SpuriousWakeup \/ Terminate
  BY <1>10 DEF WorkerBlocks, SpuriousWakeup, Terminate, TypeOK, promises, life, Callers, Places, History, Contents
<1>11. CASE SendHead
  <2>1. slot[head].task \in Tasks \cup {Raw}
    BY <1>0, <1>11 DEF Contents
  <2>2. Append(hist.taken, slot[head].task) \in Seq(Tasks \cup {Raw})
    BY <1>0, <2>1, AppendProperties DEF History
  <2>3. hist' \in History
    <3>1. PICK m \in SUBSET (Tasks \cup {Raw}) :
            hist' = [hist EXCEPT !.taken = Append(hist.taken, slot[head].task), !.mailed = m]
      <4>1. hist.mailed \in SUBSET (Tasks \cup {Raw})
        BY <1>0 DEF History
      <4> QED
        BY <1>11, <2>1, <4>1 DEF SendHead
    <3> QED
      BY <1>0, <2>2, <3>1 DEF History
  <2>4. worker' \in {"sent", "failed"}
    BY <1>11 DEF SendHead, Verdicts
  <2> QED
    BY <1>11, <2>3, <2>4 DEF SendHead, TypeOK, promises, life, Callers, Places, History, Contents
<1>12. CASE Resolve
  BY <1>12 DEF Resolve, Unset, WorkerAt, TypeOK, life
<1>13. CASE Advance
  BY <1>0, <1>13 DEF Advance, NextHead, TypeOK, promises, life, Callers, Places, History, Contents
<1>14. CASE Stop
  <2>1. hist' \in History
    BY <1>0, <1>14, HistoryTypes DEF Stop, StopFlag, StopNotify, Join, Missed
  <2> QED
    BY <1>14, <2>1 DEF Stop, StopFlag, StopNotify, Join, Woken, TypeOK, promises, History
<1>15. CASE UNCHANGED vars
  BY <1>15 DEF vars, TypeOK, promises, life, Callers, Places, History, Contents
<1> QED
  BY <1>1, <1>2, <1>3, <1>4, <1>5, <1>6, <1>7, <1>8, <1>9, <1>10, <1>11, <1>12, <1>13, <1>14, <1>15
     DEF Next, AddTask, Await, Loop

(* Where each of the producer's steps leads; the others stay.               *)
Moves(q, a) ==
  /\ prod'[q].at = a
  /\ prod'[q].pos = prod[q].pos
  /\ prod'[q].calls = prod[q].calls
  /\ \A p \in Producers : p # q => prod'[p] = prod[p]

LEMMA ProducerSteps ==
  ASSUME TypeOK, NEW q \in Producers
  PROVE  /\ Test(q) => /\ prod'[q].at = IF Available THEN "checked" ELSE "idle"
                       /\ prod'[q].calls = prod[q].calls + 1
                       /\ \A p \in Producers : p # q => prod'[p] = prod[p]
         /\ Claim(q) => /\ prod'[q].at = "claimed" /\ prod'[q].pos = tail
                        /\ prod'[q].calls = prod[q].calls
                        /\ \A p \in Producers : p # q => prod'[p] = prod[p]
         /\ Construct(q) => Moves(q, "built")
         /\ Publish(q) => Moves(q, "published")
         /\ Notify(q) => Moves(q, "notified")
         /\ GetFuture(q) => Moves(q, "idle") \/ Moves(q, "waiting")
         /\ Receive(q) \/ GiveUp(q) => Moves(q, "idle")
<1>0. prod \in [Producers -> Callers]
  BY DEF TypeOK, Callers, Places
<1>1. Test(q) => /\ prod'[q].at = IF Available THEN "checked" ELSE "idle"
                 /\ prod'[q].calls = prod[q].calls + 1
                 /\ \A p \in Producers : p # q => prod'[p] = prod[p]
  BY <1>0 DEF Test, Callers
<1>2. Claim(q) => /\ prod'[q].at = "claimed" /\ prod'[q].pos = tail
                  /\ prod'[q].calls = prod[q].calls
                  /\ \A p \in Producers : p # q => prod'[p] = prod[p]
  BY <1>0 DEF Claim, Callers
<1>3. ASSUME NEW a, prod' = [prod EXCEPT ![q].at = a] PROVE Moves(q, a)
  BY <1>0, <1>3 DEF Moves, Callers
<1>4. GetFuture(q) => Moves(q, "idle") \/ Moves(q, "waiting")
  <2>1. ASSUME NEW t, prod' = [prod EXCEPT ![q].at = "waiting", ![q].future = t]
        PROVE  Moves(q, "waiting")
    BY <1>0, <2>1 DEF Moves, Callers
  <2> QED
    BY <1>3, <2>1 DEF GetFuture
<1> QED
  BY <1>1, <1>2, <1>3, <1>4 DEF Construct, Publish, Notify, Receive, GiveUp

LEMMA SlotSteps ==
  ASSUME TypeOK, NEW q \in Producers
  PROVE  /\ Construct(q) => \A i \in Slots :
              /\ slot'[i].task = IF i = prod[q].pos THEN Current(q) ELSE slot[i].task
              /\ slot'[i].ready <=> i # prod[q].pos /\ slot[i].ready
         /\ Publish(q) => \A i \in Slots :
              /\ slot'[i].task = slot[i].task
              /\ slot'[i].ready <=> i = prod[q].pos \/ slot[i].ready
         /\ Test(q) \/ Claim(q) \/ Notify(q) \/ GetFuture(q) \/ Receive(q) \/ GiveUp(q) =>
              slot' = slot
<1>0. slot \in [Slots -> Contents] /\ prod[q].pos \in Slots
  BY ClaimedSlot DEF TypeOK, Contents
<1>1. Construct(q) => \A i \in Slots :
        /\ slot'[i].task = IF i = prod[q].pos THEN Current(q) ELSE slot[i].task
        /\ slot'[i].ready <=> i # prod[q].pos /\ slot[i].ready
  BY <1>0 DEF Construct
<1>2. Publish(q) => \A i \in Slots :
        /\ slot'[i].task = slot[i].task
        /\ slot'[i].ready <=> i = prod[q].pos \/ slot[i].ready
  BY <1>0 DEF Publish, Contents
<1>3. Test(q) \/ Claim(q) \/ Notify(q) \/ GetFuture(q) \/ Receive(q) \/ GiveUp(q) => slot' = slot
  BY DEF Test, Claim, Notify, GetFuture, Receive, GiveUp
<1> QED
  BY <1>1, <1>2, <1>3

LEMMA CalledStep == TypeOK /\ Called /\ [Next]_vars => Called'
<1> SUFFICES ASSUME TypeOK, Called, [Next]_vars, NEW p \in Producers
             PROVE  /\ prod'[p].at # "idle" => prod'[p].calls > 0
                    /\ prod'[p].at \in {"built", "published", "notified"} =>
                         slot'[prod'[p].pos].task # Raw
  BY DEF Called
<1> DEFINE Goal == /\ prod'[p].at # "idle" => prod'[p].calls > 0
                   /\ prod'[p].at \in {"built", "published", "notified"} =>
                        slot'[prod'[p].pos].task # Raw
<1>0. prod \in [Producers -> Callers] /\ prod[p].pos \in Slots
  BY DEF TypeOK, Callers, Places
<1>1. ASSUME NEW q \in Producers, Test(q) PROVE Goal
  <2>1. prod[q].calls \in Nat
    BY <1>0 DEF Callers
  <2>2. slot' = slot /\ prod'[q].at \in {"checked", "idle"} /\ prod'[q].calls = prod[q].calls + 1
    BY <1>1, ProducerSteps, SlotSteps
  <2>3. p # q => prod'[p] = prod[p]
    BY <1>1, ProducerSteps
  <2> QED
    BY <2>1, <2>2, <2>3 DEF Called
<1>2. ASSUME NEW q \in Producers, Claim(q) PROVE Goal
  <2>1. prod[q].at = "checked"
    BY <1>2 DEF Claim, At
  <2> QED
    BY <1>0, <1>2, <2>1, ProducerSteps, SlotSteps DEF Called
<1>3. ASSUME NEW q \in Producers, Construct(q) PROVE Goal
  <2>1. Current(q) # Raw /\ prod[q].calls > 0
    BY <1>3, CurrentType, QueueAssumption DEF Construct, At, Called
  <2>4. /\ \A i \in Slots : slot'[i].task = IF i = prod[q].pos THEN Current(q) ELSE slot[i].task
        /\ prod'[q].pos = prod[q].pos /\ prod'[q].calls = prod[q].calls
        /\ p # q => prod'[p] = prod[p]
    BY <1>3, ProducerSteps, SlotSteps DEF Moves
  <2>2. CASE p = q
    BY <1>0, <2>1, <2>2, <2>4
  <2>3. CASE p # q
    BY <1>0, <2>1, <2>3, <2>4 DEF Called
  <2> QED
    BY <2>2, <2>3
<1>4. ASSUME NEW q \in Producers, Publish(q) \/ Notify(q) PROVE Goal
  <2>1. prod[q].at \in {"built", "published"}
    BY <1>4 DEF Publish, Notify, At
  <2>2. /\ \A i \in Slots : slot'[i].task = slot[i].task
        /\ prod'[q].pos = prod[q].pos /\ prod'[q].calls = prod[q].calls
        /\ p # q => prod'[p] = prod[p]
    BY <1>4, ProducerSteps, SlotSteps DEF Moves
  <2> QED
    BY <1>0, <2>1, <2>2 DEF Called
<1>5. ASSUME NEW q \in Producers, GetFuture(q) \/ Receive(q) \/ GiveUp(q) PROVE Goal
  <2>1. prod[q].at \in {"notified", "waiting"}
    BY <1>5 DEF GetFuture, Receive, GiveUp, At
  <2> QED
    BY <1>0, <1>5, <2>1, ProducerSteps, SlotSteps DEF Moves, Called
<1>6. CASE Loop \/ SpuriousWakeup \/ Stop \/ UNCHANGED vars
  BY <1>6
     DEF Called, Loop, WorkerChecks, WorkerBlocks, SendHead, Resolve, Terminate, Advance,
         SpuriousWakeup, Stop, StopFlag, StopNotify, Join, vars
<1> QED
  BY <1>1, <1>2, <1>3, <1>4, <1>5, <1>6 DEF Next, AddTask, Await

-----------------------------------------------------------------------------
(* A claim adds a slot, leaving it takes one away.                          *)
LEMMA PendingSteps ==
  ASSUME TypeOK
  PROVE  /\ \A p \in Producers : Claim(p) => Pending' = Pending + 1
         /\ Advance => Pending' = Pending - 1
         /\ SendHead \/ Resolve => Pending' = Pending
         /\ \A p \in Producers :
              Test(p) \/ Construct(p) \/ Publish(p) \/ Notify(p) \/ GetFuture(p)
                \/ Receive(p) \/ GiveUp(p) => Pending' = Pending
         /\ WorkerChecks \/ WorkerBlocks \/ SpuriousWakeup \/ Terminate \/ Stop
                \/ UNCHANGED vars => Pending' = Pending
<1>0. /\ hist \in History /\ hist.claims \in Seq(Tasks) /\ hist.taken \in Seq(Tasks \cup {Raw})
      /\ Len(hist.claims) \in Nat /\ Len(hist.taken) \in Nat
  <2>1. hist \in History
    BY DEF TypeOK, History
  <2> QED
    BY <2>1, LenProperties DEF History
<1>1. ASSUME NEW p \in Producers, Claim(p) PROVE Pending' = Pending + 1
  <2>1. hist'.claims = Append(hist.claims, Current(p)) /\ hist'.taken = hist.taken /\ worker' = worker
    BY <1>0, <1>1 DEF Claim, History
  <2>2. Len(hist'.claims) = Len(hist.claims) + 1
    BY <1>0, <2>1
  <2>3. hist'.taken = hist.taken /\ worker' = worker
    BY <2>1
  <2> DEFINE k == IF worker \in {"sent", "failed", "resolved"} THEN 1 ELSE 0
  <2>4. Pending' = (Len(hist.claims) + 1) - Len(hist.taken) + k
    BY <2>2, <2>3, Zenon DEF Pending
  <2>5. Pending = Len(hist.claims) - Len(hist.taken) + k /\ k \in Nat
    BY DEF Pending
  <2>6. Len(hist.claims) \in Nat /\ Len(hist.taken) \in Nat
    BY <1>0
  <2> HIDE DEF k
  <2> QED
    BY <2>4, <2>5, <2>6
<1>2. Advance => Pending' = Pending - 1
  BY <1>0 DEF Advance, WorkerAt, Pending
<1>3. SendHead => Pending' = Pending
  <2> SUFFICES ASSUME SendHead PROVE Pending' = Pending
    OBVIOUS
  <2>1. /\ hist'.taken = Append(hist.taken, slot[head].task) /\ hist'.claims = hist.claims
        /\ worker = "work" /\ worker' \in {"sent", "failed"}
    BY <1>0 DEF SendHead, WorkerAt, Verdicts, History
  <2>2. Len(hist'.taken) = Len(hist.taken) + 1
    BY <1>0, <2>1
  <2>3. hist'.claims = hist.claims /\ worker = "work" /\ worker' \in {"sent", "failed"}
    BY <2>1
  <2>4. Pending' = Len(hist.claims) - (Len(hist.taken) + 1) + 1
    <3>1. (IF worker' \in {"sent", "failed", "resolved"} THEN 1 ELSE 0) = 1
      BY <2>3
    <3> QED
      BY <2>2, <2>3, <3>1, Zenon DEF Pending
  <2>5. Pending = Len(hist.claims) - Len(hist.taken) + 0
    BY <2>3 DEF Pending
  <2> QED
    BY <1>0, <2>4, <2>5
<1>4. Resolve => Pending' = Pending
  BY <1>0 DEF Resolve, WorkerAt, Pending
<1>5. ASSUME NEW p \in Producers,
             Test(p) \/ Construct(p) \/ Publish(p) \/ Notify(p) \/ GetFuture(p)
               \/ Receive(p) \/ GiveUp(p)
      PROVE  Pending' = Pending
  <2>1. hist'.claims = hist.claims /\ hist'.taken = hist.taken
    BY <1>0, <1>5 DEF Test, Construct, Publish, Notify, GetFuture, Receive, GiveUp, Missed, History
  <2>2. worker' \in {"sent", "failed", "resolved"} <=> worker \in {"sent", "failed", "resolved"}
    BY <1>5 DEF Test, Construct, Publish, Notify, Woken, GetFuture, Receive, GiveUp
  <2> QED
    BY <2>1, <2>2 DEF Pending
<1>6. WorkerChecks \/ WorkerBlocks \/ SpuriousWakeup \/ Terminate \/ Stop \/ UNCHANGED vars =>
        Pending' = Pending
  <2> SUFFICES ASSUME WorkerChecks \/ WorkerBlocks \/ SpuriousWakeup \/ Terminate \/ Stop
                        \/ UNCHANGED vars
               PROVE  Pending' = Pending
    OBVIOUS
  <2>1. hist'.claims = hist.claims /\ hist'.taken = hist.taken
    BY <1>0
       DEF WorkerChecks, WorkerBlocks, SpuriousWakeup, Terminate, Stop, StopFlag, StopNotify, Join,
           Missed, History, vars
  <2>2. worker' \in {"sent", "failed", "resolved"} <=> worker \in {"sent", "failed", "resolved"}
    BY DEF WorkerChecks, WorkerBlocks, SpuriousWakeup, Terminate, Stop, StopFlag, StopNotify, Join,
           Woken, WorkerAt, vars
  <2> QED
    BY <2>1, <2>2 DEF Pending
<1> QED
  BY <1>1, <1>2, <1>3, <1>4, <1>5, <1>6

LEMMA RingStep == IndInv /\ [Next]_vars => Ring'
<1> SUFFICES ASSUME IndInv, [Next]_vars PROVE Ring'
  OBVIOUS
<1>0. TypeOK /\ Ring /\ hist \in History /\ head \in Slots /\ tail \in Slots /\ Capacity \in Nat \ {0}
  BY QueueAssumption DEF IndInv, TypeOK, History
<1>r. hist.raced => hist'.raced
  BY <1>0
     DEF Next, AddTask, Await, Loop, Test, Claim, Construct, Publish, Notify, GetFuture, Receive,
         GiveUp, WorkerChecks, WorkerBlocks, SendHead, Resolve, Terminate, Advance, SpuriousWakeup,
         Stop, StopFlag, StopNotify, Join, Missed, History, vars
<1> SUFFICES ASSUME ~hist.raced, ~hist'.raced PROVE Ring'
  BY <1>r DEF Ring
<1>p. Pending \in 0..(Capacity - 1)
  BY <1>0 DEF Ring
<1>1. ASSUME NEW q \in Producers, Test(q) PROVE Ring'
  <2>1. \A p \in Producers : prod[p].at # "checked"
    <3>1. ~crashed /\ ~ \E p \in Producers : At(p, "checked")
      BY <1>0, <1>1 DEF Test, At, History
    <3> QED
      BY <3>1 DEF At
  <2>2. /\ \A p \in Producers : p # q => prod'[p] = prod[p]
        /\ prod'[q].at = IF Available THEN "checked" ELSE "idle"
        /\ Pending' = Pending /\ UNCHANGED <<head, tail, worker>>
    BY <1>0, <1>1, ProducerSteps, PendingSteps DEF Test
  <2>3. Available => Pending < Capacity - 1
    BY <1>0, <1>p, FollowingFacts DEF Available, Ring, Slots
  <2> QED
    BY <1>0, <2>1, <2>2, <2>3 DEF Ring, Busy
<1>2. ASSUME NEW q \in Producers, Claim(q) PROVE Ring'
  <2>1. prod[q].at = "checked"
    BY <1>2 DEF Claim, At
  <2>2. /\ \A p \in Producers : p # q => prod'[p] = prod[p]
        /\ prod'[q].at = "claimed"
        /\ Pending' = Pending + 1 /\ UNCHANGED <<head, worker>> /\ tail' = Following(tail)
    BY <1>0, <1>2, ProducerSteps, PendingSteps DEF Claim
  <2>3. \A p \in Producers : prod'[p].at # "checked"
    BY <1>0, <2>1, <2>2 DEF Ring
  <2>4. Pending < Capacity - 1
    BY <1>0, <2>1 DEF Ring
  <2>5. tail' = IF head' + Pending' < Capacity THEN head' + Pending' ELSE head' + Pending' - Capacity
    BY <1>0, <1>p, <2>2, <2>4, FollowingFacts DEF Ring, Slots
  <2> QED
    BY <1>0, <1>p, <2>2, <2>3, <2>4, <2>5 DEF Ring, Busy
<1>3. ASSUME NEW q \in Producers,
             Construct(q) \/ Publish(q) \/ Notify(q) \/ GetFuture(q) \/ Receive(q) \/ GiveUp(q)
      PROVE  Ring'
  <2>1. Pending' = Pending /\ UNCHANGED <<head, tail>>
    BY <1>0, <1>3, PendingSteps DEF Construct, Publish, Notify, GetFuture, Receive, GiveUp
  <2>2. Busy' => Busy
    BY <1>3 DEF Construct, Publish, Notify, Woken, GetFuture, Receive, GiveUp, Busy
  <2>3. \A p \in Producers : prod'[p].at = "checked" => prod[p].at = "checked"
    BY <1>0, <1>3, ProducerSteps DEF Moves
  <2> QED
    BY <1>0, <2>1, <2>2, <2>3 DEF Ring
<1>4. CASE WorkerChecks
  <2>1. Pending' = Pending /\ UNCHANGED <<head, tail, prod>>
    BY <1>0, <1>4, PendingSteps DEF WorkerChecks
  <2>2. Busy' => head # tail
    BY <1>4 DEF WorkerChecks, Busy, HeadReady, MayExit, Empty
  <2> QED
    BY <1>0, <1>p, <2>1, <2>2 DEF Ring, Slots
<1>5. CASE Advance
  <2>1. Pending' = Pending - 1 /\ UNCHANGED <<tail, prod>> /\ head' = Following(head) /\ Busy /\ ~Busy'
    BY <1>0, <1>5, PendingSteps DEF Advance, NextHead, WorkerAt, Busy
  <2>2. Pending > 0
    BY <1>0, <2>1 DEF Ring
  <2>3. tail' = IF head' + Pending' < Capacity THEN head' + Pending' ELSE head' + Pending' - Capacity
    BY <1>0, <1>p, <2>1, <2>2, FollowingFacts DEF Ring, Slots
  <2>4. \A p \in Producers : prod'[p].at = "checked" => Pending' < Capacity - 1
    BY <1>0, <1>p, <2>1 DEF Ring
  <2> QED
    BY <1>0, <1>p, <2>1, <2>2, <2>3, <2>4 DEF Ring
<1>6. CASE SendHead \/ Resolve
  <2>1. Pending' = Pending /\ UNCHANGED <<head, tail, prod>> /\ Busy
    BY <1>0, <1>6, PendingSteps DEF SendHead, Resolve, WorkerAt, Busy
  <2> QED
    BY <1>0, <2>1 DEF Ring
<1>7. CASE WorkerBlocks \/ SpuriousWakeup \/ Terminate \/ Stop \/ UNCHANGED vars
  <2>1. Pending' = Pending /\ UNCHANGED <<head, tail, prod>>
    BY <1>0, <1>7, PendingSteps
       DEF WorkerBlocks, SpuriousWakeup, Terminate, Stop, StopFlag, StopNotify, Join, vars
  <2>2. Busy' => Busy
    BY <1>7
       DEF WorkerBlocks, SpuriousWakeup, Terminate, Stop, StopFlag, StopNotify, Join, vars, Busy, Woken
  <2> QED
    BY <1>0, <2>1, <2>2 DEF Ring
<1> QED
  BY <1>1, <1>2, <1>3, <1>4, <1>5, <1>6, <1>7 DEF Next, AddTask, Await, Loop

(* After the stop no producer moves any more.                               *)
LEMMA StoppedProducers ==
  ASSUME Closed, Stopped, NEW p \in Producers
  PROVE  ~(Test(p) \/ AddTask(p) \/ Await(p))
BY DEF Closed, Test, AddTask, Await, Claim, Construct, Publish, Notify, GetFuture, Receive,
       GiveUp, At

LEMMA ClosedStep == IndInv /\ [Next]_vars => Closed'
<1> SUFFICES ASSUME IndInv, [Next]_vars PROVE Closed'
  OBVIOUS
<1>0. TypeOK /\ Ring /\ Closed /\ hist \in History
  BY DEF IndInv, TypeOK, History
<1>1. Stopped => Stopped'
  BY DEF Stopped, Next, AddTask, Await, Loop, Test, Claim, Construct, Publish, Notify, GetFuture,
         Receive, GiveUp, WorkerChecks, WorkerBlocks, SendHead, Resolve, Terminate, Advance,
         SpuriousWakeup, Stop, StopFlag, StopNotify, Join, vars, life
<1>2. ASSUME Stopped', NEW p \in Producers PROVE prod'[p].at = "idle"
  <2>1. CASE StopFlag
    BY <2>1 DEF StopFlag, At
  <2>2. CASE Stopped
    <3>1. prod' = prod
      BY <1>0, <2>2, StoppedProducers
         DEF Next, Loop, WorkerChecks, WorkerBlocks, SendHead, Resolve, Terminate, Advance,
             SpuriousWakeup, Stop, StopFlag, StopNotify, Join, vars
    <3> QED
      BY <1>0, <2>2, <3>1 DEF Closed
  <2>3. CASE ~Stopped /\ ~StopFlag
    BY <1>2, <2>3
       DEF Stopped, Next, AddTask, Await, Loop, Test, Claim, Construct, Publish, Notify, GetFuture,
           Receive, GiveUp, WorkerChecks, WorkerBlocks, SendHead, Resolve, Terminate, Advance,
           SpuriousWakeup, Stop, StopNotify, Join, vars, life
  <2> QED
    BY <2>1, <2>2, <2>3
<1>3. ASSUME worker' = "exited" PROVE Stopped' /\ (Pending' = 0 \/ hist'.raced)
  <2>1. CASE WorkerChecks
    <3>1. Stopped /\ head = tail
      BY <1>3, <2>1 DEF WorkerChecks, MayExit, Empty
    <3>2. Pending' = Pending /\ hist'.raced = hist.raced
      BY <1>0, <2>1, PendingSteps DEF WorkerChecks, History
    <3>3. Pending = 0 \/ hist.raced
      BY <1>0, <3>1, QueueAssumption DEF Ring, TypeOK, Slots
    <3> QED
      BY <1>1, <3>1, <3>2, <3>3
  <2>2. CASE worker = "exited"
    <3>1. Stopped /\ (Pending = 0 \/ hist.raced)
      BY <1>0, <2>2 DEF Closed
    <3>2. Stop \/ Terminate \/ UNCHANGED vars
      BY <1>0, <2>2, <3>1, StoppedProducers
         DEF Next, Loop, WorkerChecks, WorkerBlocks, SendHead, Resolve, Advance, SpuriousWakeup, WorkerAt
    <3>3. Pending' = Pending /\ hist'.raced = hist.raced
      BY <1>0, <3>2, PendingSteps DEF Stop, StopFlag, StopNotify, Join, Missed, Terminate, vars, History
    <3> QED
      BY <1>1, <3>1, <3>3
  <2>3. CASE ~WorkerChecks /\ worker # "exited"
    BY <1>3, <2>3
       DEF Next, AddTask, Await, Loop, Test, Claim, Construct, Publish, Notify, GetFuture, Receive,
           GiveUp, WorkerBlocks, SendHead, Verdicts, Resolve, Terminate, Advance, SpuriousWakeup,
           Stop, StopFlag, StopNotify, Join, Woken, vars
  <2> QED
    BY <2>1, <2>2, <2>3
<1> QED
  BY <1>2, <1>3 DEF Closed

(* Before its notification a producer holds the slot it is to announce.     *)
LEMMA WakeupsStep == IndInv /\ [Next]_vars => Wakeups'
<1> SUFFICES ASSUME IndInv, [Next]_vars, worker' \in {"blocking", "asleep"}
             PROVE  /\ HeadReady' => hist'.missed \/ ToBeNotified'
                    /\ Stopped' => hist'.missed \/ stopping' = "flagged"
  BY DEF Wakeups
<1> DEFINE Goal == /\ HeadReady' => hist'.missed \/ ToBeNotified'
                   /\ Stopped' => hist'.missed \/ stopping' = "flagged"
<1>0. /\ TypeOK /\ Wakeups /\ Closed /\ hist \in History /\ head \in Slots
      /\ \A p \in Producers : prod[p].pos \in Slots
  BY ClaimedSlot DEF IndInv, TypeOK, History
<1>1. ASSUME NEW q \in Producers, Test(q) \/ Claim(q) \/ Construct(q) \/ Publish(q)
      PROVE  Goal
  <2>1. ~Stopped /\ stopping' = stopping /\ head' = head /\ hist'.missed = hist.missed
        /\ worker' = worker
    <3>1. ~Stopped
      BY <1>0, <1>1, StoppedProducers DEF AddTask
    <3> QED
      BY <1>0, <1>1, <3>1 DEF Test, Claim, Construct, Publish, life, History
  <2>2. ASSUME HeadReady', HeadReady PROVE hist'.missed \/ ToBeNotified'
    <3>1. hist.missed \/ ToBeNotified
      BY <1>0, <2>1, <2>2 DEF Wakeups
    <3>2. ASSUME ToBeNotified PROVE ToBeNotified'
      <4>1. PICK p \in Producers :
              prod[p].pos = head /\ prod[p].at \in {"claimed", "built", "published"}
        BY <3>2 DEF ToBeNotified
      <4>2. prod'[p].pos = head /\ prod'[p].at \in {"claimed", "built", "published"}
        <5>1. CASE p # q
          BY <1>0, <1>1, <4>1, <5>1, ProducerSteps DEF Moves
        <5>2. CASE p = q
          BY <1>0, <1>1, <4>1, <5>2, ProducerSteps DEF Moves, Test, Claim, Publish, At
        <5> QED
          BY <5>1, <5>2
      <4> QED
        BY <2>1, <4>2 DEF ToBeNotified
    <3> QED
      BY <2>1, <3>1, <3>2
  <2>3. ASSUME HeadReady', ~HeadReady PROVE ToBeNotified'
    <3>1. CASE Test(q)
      BY <1>0, <2>1, <2>3, <3>1, SlotSteps DEF HeadReady, Empty, Test
    <3>2. CASE Claim(q)
      <4>1. slot' = slot /\ prod'[q].pos = tail /\ prod'[q].at = "claimed"
        BY <1>0, <3>2, ProducerSteps, SlotSteps
      <4>2. head = tail
        BY <2>1, <2>3, <4>1 DEF HeadReady, Empty
      <4> QED
        BY <2>1, <4>1, <4>2 DEF ToBeNotified
    <3>3. CASE Construct(q)
      BY <1>0, <2>1, <2>3, <3>3, SlotSteps DEF HeadReady, Empty, Construct
    <3>4. CASE Publish(q)
      <4>1. prod[q].pos = head
        BY <1>0, <2>1, <2>3, <3>4, SlotSteps DEF HeadReady, Empty, Publish
      <4>2. prod'[q].pos = prod[q].pos /\ prod'[q].at = "published"
        BY <1>0, <3>4, ProducerSteps DEF Moves
      <4> QED
        BY <2>1, <4>1, <4>2 DEF ToBeNotified
    <3> QED
      BY <1>1, <3>1, <3>2, <3>3, <3>4
  <2> QED
    BY <2>1, <2>2, <2>3 DEF Stopped
<1>2. ASSUME NEW q \in Producers, GetFuture(q) \/ Receive(q) \/ GiveUp(q) PROVE Goal
  <2>1. ~Stopped /\ UNCHANGED <<stopping, head, tail, slot, worker>> /\ hist'.missed = hist.missed
    <3>1. ~Stopped
      BY <1>0, <1>2, StoppedProducers DEF AddTask, Await
    <3> QED
      BY <1>0, <1>2, <3>1 DEF GetFuture, Receive, GiveUp, life, History
  <2>2. ToBeNotified => ToBeNotified'
    <3> SUFFICES ASSUME NEW p \in Producers,
                        prod[p].pos = head, prod[p].at \in {"claimed", "built", "published"}
                 PROVE  prod'[p].pos = head' /\ prod'[p].at \in {"claimed", "built", "published"}
      BY DEF ToBeNotified
    <3>1. p # q
      BY <1>2 DEF GetFuture, Receive, GiveUp, At
    <3> QED
      BY <1>0, <1>2, <2>1, <3>1, ProducerSteps DEF Moves
  <2> QED
    BY <1>0, <2>1, <2>2 DEF Wakeups, HeadReady, Empty, Stopped
<1>3. ASSUME NEW q \in Producers, Notify(q) PROVE Goal
  BY <1>0, <1>3 DEF Notify, Woken, Missed, History
<1>4. CASE WorkerChecks
  BY <1>4 DEF WorkerChecks, HeadReady, Empty, Stopped, life
<1>5. CASE WorkerBlocks \/ Terminate \/ UNCHANGED vars
  <2>1. worker \in {"blocking", "asleep"} /\ UNCHANGED <<head, tail, slot, prod, stopping, hist>>
    BY <1>5 DEF WorkerBlocks, Terminate, WorkerAt, vars, life
  <2> QED
    BY <1>0, <2>1 DEF Wakeups, HeadReady, Empty, Stopped, ToBeNotified
<1>6. CASE SendHead \/ Resolve \/ Advance \/ SpuriousWakeup
  BY <1>6 DEF SendHead, Verdicts, Resolve, Advance, SpuriousWakeup
<1>7. CASE StopFlag
  <2>1. UNCHANGED <<head, tail, slot, prod, hist, worker>> /\ stopping' = "flagged"
    BY <1>7 DEF StopFlag
  <2> QED
    BY <1>0, <2>1 DEF Wakeups, HeadReady, Empty, ToBeNotified
<1>8. CASE StopNotify
  BY <1>0, <1>8 DEF StopNotify, Woken, Missed, History
<1>9. CASE Join
  BY <1>9 DEF Join, WorkerAt
<1> QED
  BY <1>1, <1>2, <1>3, <1>4, <1>5, <1>6, <1>7, <1>8, <1>9 DEF Next, AddTask, Await, Loop, Stop

-----------------------------------------------------------------------------
THEOREM Invariance == Spec => []IndInv
<1>1. IndInv /\ [Next]_vars => IndInv'
  BY TypeStep, CalledStep, RingStep, ClosedStep, WakeupsStep DEF IndInv
<1> QED
  BY InitIndInv, <1>1, PTL DEF Spec

(* The indices, the flags and the tasks in the slots keep their types,      *)
(* however often the ring goes round (email_queue.hpp:41-58).               *)
THEOREM TypeCorrect == Spec => []TypeOK
BY Invariance, PTL DEF IndInv

(* Equal indices mean an empty ring (email_queue.hpp:49) for any capacity   *)
(* and any number of producers, until two of them share a capacity test     *)
(* (email_queue.cpp:38-47).                                                 *)
THEOREM IndicesCount == Spec => []RingCounts
<1>1. IndInv => RingCounts
  <2> SUFFICES ASSUME IndInv, ~hist.raced
               PROVE  Pending < Capacity /\ tail = (head + Pending) % Capacity
    BY DEF RingCounts
  <2>1. /\ Pending \in 0..(Capacity - 1) /\ head \in Slots /\ Capacity \in Nat \ {0}
        /\ tail = IF head + Pending < Capacity THEN head + Pending ELSE head + Pending - Capacity
    BY QueueAssumption DEF IndInv, Ring, TypeOK
  <2> DEFINE x == head + Pending
  <2>2. x \in 0..(2 * Capacity - 1)
    BY <2>1 DEF Slots
  <2>3. tail = IF x < Capacity THEN x ELSE x - Capacity
    BY <2>1 DEF Slots
  <2>6. Pending < Capacity
    BY <2>1
  <2>4. ASSUME NEW a \in 0..(2 * Capacity - 1), tail = IF a < Capacity THEN a ELSE a - Capacity
        PROVE  tail = a % Capacity
    BY <2>4, ModFacts
  <2> HIDE DEF x
  <2>5. tail = x % Capacity
    BY <2>2, <2>3, <2>4
  <2> QED
    BY <2>5, <2>6 DEF x
<1> QED
  BY <1>1, Invariance, PTL

(* The worker leaves nothing in the ring when it exits, unless the ring was *)
(* overfilled (email_queue.cpp:62-64).                                      *)
THEOREM StoppedEmpty == Spec => []StopDrains
<1>1. IndInv => StopDrains
  BY DEF IndInv, Closed, StopDrains
<1> QED
  BY <1>1, Invariance, PTL

(* Whatever the capacity, the laps and the producers: a worker sleeps over  *)
(* a ready task or a stop only if a notification is still to come or fell   *)
(* into the gap before its sleep (email_queue.cpp:22, 50, 57-60).           *)
THEOREM WakeupsLostInTheGap == Spec => []OnlyTheGapLosesWakeups
<1>1. IndInv => OnlyTheGapLosesWakeups
  BY DEF IndInv, Wakeups, OnlyTheGapLosesWakeups
<1> QED
  BY <1>1, Invariance, PTL
-----------------------------------------------------------------------------
(* The order of the mails.  Numbered says that every claim is a call of its *)
(* own.  The claims the worker has not left behind, the pending ones, lie   *)
(* in the ring one after the other from head on; Window says so of the      *)
(* indices, Holding of the producers that have not published yet, Filled of *)
(* the tasks in the slots.  InOrder says what the worker has taken up, and  *)
(* that it has in hand nothing a producer is still at work on; Results      *)
(* which promises are set.                                                  *)

Count == Len(hist.claims)
Done == Len(hist.taken)

(* The worker has taken up the task of the head slot and not yet left it.   *)
Ahead == IF worker \in {"sent", "failed", "resolved"} THEN 1 ELSE 0
Left == Done - Ahead
Place(k) == IF head + k < Capacity THEN head + k ELSE head + k - Capacity

Numbered ==
  /\ \A i, j \in 1..Count : hist.claims[i] = hist.claims[j] => i = j
  /\ \A i \in 1..Count, p \in Producers, n \in 1..MaxCalls :
       hist.claims[i] = <<p, n>> =>
         n <= prod[p].calls /\ (prod[p].at = "checked" => n # prod[p].calls)

Window == Left \in Nat /\ Pending \in 0..Capacity /\ tail = Place(Pending)

Holds(p, k) == prod[p].pos = Place(k) /\ hist.claims[Left + k + 1] = Current(p)

HoldingOne(p) ==
  prod[p].at \in {"claimed", "built"} =>
    /\ \E k \in 0..(Pending - 1) : Holds(p, k)
    /\ prod[p].at = "built" => slot[prod[p].pos].task = Current(p)

Holding == \A p \in Producers : HoldingOne(p)

Claiming(i) == \E p \in Producers : prod[p].at = "claimed" /\ prod[p].pos = i

FilledOne(k) == slot[Place(k)].task = hist.claims[Left + k + 1] \/ Claiming(Place(k))

Filled == \A k \in 0..(Pending - 1) : FilledOne(k)

InOrder ==
  /\ \A i \in 1..Done : hist.taken[i] = hist.claims[i]
  /\ Busy => Pending > 0 /\ ~Unpublished

Results ==
  /\ \A t \in Tasks : result[t] # "none" =>
       \E i \in 1..Done :
         t = hist.claims[i] /\ (worker \in {"sent", "failed"} => i # Done)
  /\ \A t \in Tasks : result[t] = "sent" => t \in hist.mailed
  /\ worker = "sent" => slot[head].task \in hist.mailed
  /\ ~crashed

InStep == Window /\ Holding /\ Filled /\ InOrder /\ Results

SameLogs == /\ hist'.claims = hist.claims /\ hist'.taken = hist.taken /\ hist'.mailed = hist.mailed
            /\ Count' = Count /\ Done' = Done

LEMMA Lengths ==
  ASSUME TypeOK
  PROVE  /\ hist \in History /\ Count \in Nat /\ Done \in Nat
         /\ \A i \in 1..Count : hist.claims[i] \in Tasks
         /\ FirstLap <=> Count <= Capacity
<1>1. hist \in History
  BY DEF TypeOK, History
<1>2. hist.claims \in Seq(Tasks) /\ hist.taken \in Seq(Tasks \cup {Raw})
  BY <1>1 DEF History
<1>3. Count \in Nat /\ Done \in Nat /\ \A i \in 1..Count : hist.claims[i] \in Tasks
  BY <1>2, LenProperties, ElementOfSeq DEF Count, Done
<1> QED
  BY <1>1, <1>3 DEF FirstLap, Count

LEMMA ClaimLogs ==
  ASSUME TypeOK, NEW q \in Producers, Claim(q)
  PROVE  /\ Count' = Count + 1 /\ hist'.claims[Count + 1] = Current(q)
         /\ \A i \in 1..Count : hist'.claims[i] = hist.claims[i]
         /\ hist'.taken = hist.taken /\ Done' = Done
         /\ hist'.mailed = hist.mailed /\ hist'.told = hist.told
<1>1. hist \in History /\ Count \in Nat
  BY Lengths
<1>2. hist' = [hist EXCEPT !.claims = Append(hist.claims, Current(q))]
  BY DEF Claim
<1>3. /\ hist'.claims = Append(hist.claims, Current(q)) /\ hist'.taken = hist.taken
      /\ hist'.mailed = hist.mailed /\ hist'.told = hist.told
  BY <1>1, <1>2 DEF History
<1>4. hist.claims \in Seq(Tasks)
  BY <1>1 DEF History
<1>5. /\ Len(hist'.claims) = Len(hist.claims) + 1
      /\ \A i \in 1..Len(hist.claims) : hist'.claims[i] = hist.claims[i]
      /\ hist'.claims[Len(hist.claims) + 1] = Current(q)
  BY <1>3, <1>4
<1> QED
  BY <1>3, <1>5 DEF Count, Done

LEMMA SendLogs ==
  ASSUME TypeOK, SendHead
  PROVE  /\ Done' = Done + 1 /\ hist'.taken[Done + 1] = slot[head].task
         /\ \A i \in 1..Done : hist'.taken[i] = hist.taken[i]
         /\ hist'.claims = hist.claims /\ Count' = Count /\ hist'.told = hist.told
         /\ hist.mailed \subseteq hist'.mailed
         /\ worker = "work" /\ worker' \in {"sent", "failed"}
         /\ worker' = "sent" => slot[head].task \in hist'.mailed
<1>1. hist \in History /\ Done \in Nat
  BY Lengths
<1>2. PICK accepted \in BOOLEAN :
        /\ worker' \in Verdicts(accepted)
        /\ hist' = [hist EXCEPT
             !.taken = Append(hist.taken, slot[head].task),
             !.mailed = IF accepted THEN hist.mailed \cup {slot[head].task} ELSE hist.mailed]
  BY <1>1 DEF SendHead, History
<1>3. /\ hist'.taken = Append(hist.taken, slot[head].task) /\ hist'.claims = hist.claims
      /\ hist'.told = hist.told
      /\ hist'.mailed = IF accepted THEN hist.mailed \cup {slot[head].task} ELSE hist.mailed
  BY <1>1, <1>2 DEF History
<1>4. hist.taken \in Seq(Tasks \cup {Raw})
  BY <1>1 DEF History
<1>5. /\ Len(hist'.taken) = Len(hist.taken) + 1
      /\ \A i \in 1..Len(hist.taken) : hist'.taken[i] = hist.taken[i]
      /\ hist'.taken[Len(hist.taken) + 1] = slot[head].task
  BY <1>3, <1>4
<1>6. worker = "work" /\ worker' \in {"sent", "failed"} /\ (worker' = "sent" => accepted)
  BY <1>2 DEF SendHead, WorkerAt, Verdicts
<1> QED
  BY <1>3, <1>5, <1>6 DEF Count, Done

(* Any other step.                                                          *)
LEMMA OtherLogs ==
  ASSUME TypeOK
  PROVE  /\ \A q \in Producers :
              /\ Test(q) \/ Construct(q) \/ Publish(q) \/ Notify(q) \/ GetFuture(q) \/ GiveUp(q) =>
                   SameLogs /\ hist'.told = hist.told
              /\ Receive(q) =>
                   /\ SameLogs
                   /\ hist'.told = hist.told \/ /\ result[prod[q].future] = "sent"
                                                /\ hist'.told = hist.told \cup {Current(q)}
         /\ WorkerChecks \/ WorkerBlocks \/ SpuriousWakeup \/ Resolve \/ Terminate \/ Advance
              \/ Stop \/ UNCHANGED vars => SameLogs /\ hist'.told = hist.told
<1>0. hist \in History
  BY Lengths
<1>1. ASSUME NEW q \in Producers,
             Test(q) \/ Construct(q) \/ Publish(q) \/ Notify(q) \/ GetFuture(q) \/ GiveUp(q)
      PROVE  SameLogs /\ hist'.told = hist.told
  BY <1>0, <1>1 DEF Test, Construct, Publish, Notify, GetFuture, GiveUp, Missed, History,
    SameLogs, Count, Done
<1>2. ASSUME NEW q \in Producers, Receive(q)
      PROVE  /\ SameLogs
             /\ hist'.told = hist.told \/ /\ result[prod[q].future] = "sent"
                                          /\ hist'.told = hist.told \cup {Current(q)}
  BY <1>0, <1>2 DEF Receive, History, SameLogs, Count, Done
<1>3. WorkerChecks \/ WorkerBlocks \/ SpuriousWakeup \/ Resolve \/ Terminate \/ Advance
        \/ Stop \/ UNCHANGED vars => SameLogs /\ hist'.told = hist.told
  BY <1>0 DEF WorkerChecks, WorkerBlocks, SpuriousWakeup, Resolve, Terminate, Advance, Stop,
    StopFlag, StopNotify, Join, Missed, vars, History, SameLogs, Count, Done
<1> QED
  BY <1>1, <1>2, <1>3

(* What a step of the worker or of stop() leaves alone.                     *)
LEMMA WorkerLeaves ==
  Loop \/ SpuriousWakeup \/ Stop \/ UNCHANGED vars =>
    prod' = prod /\ tail' = tail /\ slot' = slot /\ (head' = head \/ Advance)
BY DEF Loop, Stop, WorkerChecks, WorkerBlocks, SpuriousWakeup, SendHead, Resolve, Terminate,
  Advance, StopFlag, StopNotify, Join, vars, promises, life

LEMMA ProducerLeaves ==
  ASSUME NEW q \in Producers, Test(q) \/ AddTask(q) \/ Await(q)
  PROVE  /\ head' = head /\ result' = result /\ crashed' = crashed
         /\ tail' = tail \/ Claim(q)
         /\ worker' = worker \/ (worker = "asleep" /\ worker' = "check")
BY DEF Test, AddTask, Await, Claim, Construct, Publish, Notify, GetFuture, Receive, GiveUp, Woken,
  promises, life

-----------------------------------------------------------------------------
LEMMA CallPair ==
  ASSUME TypeOK, NEW q \in Producers, prod[q].calls > 0
  PROVE  /\ prod[q].calls \in 1..MaxCalls /\ Current(q) = <<q, prod[q].calls>>
         /\ Current(q) \in Tasks
         /\ \A p \in Producers, n \in 1..MaxCalls :
              Current(q) = <<p, n>> => p = q /\ n = prod[q].calls
<1>1. prod[q].calls \in 1..MaxCalls
  BY QueueAssumption DEF TypeOK
<1> QED
  BY <1>1, CurrentType DEF Current

LEMMA NumberedStep ==
  ASSUME IndInv, Numbered, [Next]_vars
  PROVE  Numbered'
<1>0. TypeOK /\ Called /\ Count \in Nat /\ prod \in [Producers -> Callers]
  BY Lengths DEF IndInv, TypeOK, Callers, Places
<1>k. ASSUME hist'.claims = hist.claims, Count' = Count,
             \A p \in Producers : /\ prod[p].calls <= prod'[p].calls
                                  /\ prod'[p].at = "checked" =>
                                       \/ prod[p].at = "checked" /\ prod'[p].calls = prod[p].calls
                                       \/ prod[p].calls < prod'[p].calls,
             \A p \in Producers : prod[p].calls \in Nat /\ prod'[p].calls \in Nat
      PROVE  Numbered'
  <2>1. \A i, j \in 1..Count' : hist'.claims[i] = hist'.claims[j] => i = j
    BY <1>0, <1>k DEF Numbered
  <2>3. ASSUME NEW i \in 1..Count', NEW p \in Producers, NEW n \in 1..MaxCalls,
               hist'.claims[i] = <<p, n>>
        PROVE  n <= prod'[p].calls /\ (prod'[p].at = "checked" => n # prod'[p].calls)
    <3>1. n <= prod[p].calls /\ (prod[p].at = "checked" => n # prod[p].calls)
      BY <1>0, <1>k, <2>3 DEF Numbered
    <3> QED
      BY <1>k, <3>1, QueueAssumption
  <2> QED
    BY <2>1, <2>3 DEF Numbered
<1>n. \A p \in Producers : prod[p].calls \in Nat
  BY <1>0, QueueAssumption DEF Callers
<1>1. ASSUME NEW q \in Producers, Test(q) PROVE Numbered'
  <2>1. SameLogs
    BY <1>0, <1>1, OtherLogs
  <2>2. /\ prod'[q].calls = prod[q].calls + 1
        /\ \A p \in Producers : p # q => prod'[p] = prod[p]
    BY <1>0, <1>1, ProducerSteps
  <2> QED
    BY <1>k, <1>n, <2>1, <2>2 DEF SameLogs
<1>2. ASSUME NEW q \in Producers, Claim(q) PROVE Numbered'
  <2>1. /\ Count' = Count + 1 /\ hist'.claims[Count + 1] = Current(q)
        /\ \A i \in 1..Count : hist'.claims[i] = hist.claims[i]
    BY <1>0, <1>2, ClaimLogs
  <2>2. /\ prod'[q].at = "claimed" /\ prod'[q].calls = prod[q].calls /\ prod[q].at = "checked"
        /\ \A p \in Producers : p # q => prod'[p] = prod[p]
    BY <1>0, <1>2, ProducerSteps DEF Claim, At
  <2>3. /\ prod[q].calls \in 1..MaxCalls /\ Current(q) = <<q, prod[q].calls>>
        /\ \A p \in Producers, n \in 1..MaxCalls :
             Current(q) = <<p, n>> => p = q /\ n = prod[q].calls
    BY <1>0, <2>2, CallPair DEF Called
  <2>4. \A i \in 1..Count : hist.claims[i] # Current(q)
    BY <1>0, <2>2, <2>3 DEF Numbered
  <2>5. \A i, j \in 1..Count' : hist'.claims[i] = hist'.claims[j] => i = j
    <3> SUFFICES ASSUME NEW i \in 1..Count', NEW j \in 1..Count',
                        hist'.claims[i] = hist'.claims[j]
                 PROVE  i = j
      OBVIOUS
    <3>1. (i \in 1..Count \/ i = Count + 1) /\ (j \in 1..Count \/ j = Count + 1)
      BY <1>0, <2>1
    <3>2. CASE i \in 1..Count /\ j \in 1..Count
      BY <1>0, <2>1, <3>2 DEF Numbered
    <3> QED
      BY <2>1, <2>4, <3>1, <3>2
  <2>6. ASSUME NEW i \in 1..Count', NEW p \in Producers, NEW n \in 1..MaxCalls,
               hist'.claims[i] = <<p, n>>
        PROVE  n <= prod'[p].calls /\ (prod'[p].at = "checked" => n # prod'[p].calls)
    <3>1. CASE i \in 1..Count
      <4>1. n <= prod[p].calls /\ (prod[p].at = "checked" => n # prod[p].calls)
        BY <1>0, <2>1, <2>6, <3>1 DEF Numbered
      <4> QED
        BY <2>2, <4>1
    <3>2. CASE i = Count + 1
      <4>1. p = q /\ n = prod[q].calls
        BY <2>1, <2>3, <2>6, <3>2
      <4> QED
        BY <1>n, <2>2, <4>1
    <3> QED
      BY <1>0, <2>1, <3>1, <3>2
  <2> QED
    BY <2>5, <2>6 DEF Numbered
<1>3. ASSUME NEW q \in Producers,
             Construct(q) \/ Publish(q) \/ Notify(q) \/ GetFuture(q) \/ Await(q)
      PROVE  Numbered'
  <2>1. SameLogs
    BY <1>0, <1>3, OtherLogs DEF Await
  <2>2. /\ prod'[q].calls = prod[q].calls /\ prod'[q].at # "checked"
        /\ \A p \in Producers : p # q => prod'[p] = prod[p]
    BY <1>0, <1>3, ProducerSteps DEF Moves, Await
  <2> QED
    BY <1>k, <1>n, <2>1, <2>2 DEF SameLogs
<1>4. ASSUME Loop \/ SpuriousWakeup \/ Stop \/ UNCHANGED vars PROVE Numbered'
  <2>1. hist'.claims = hist.claims /\ Count' = Count
    BY <1>0, <1>4, OtherLogs, SendLogs DEF Loop, SameLogs
  <2>2. prod' = prod
    BY <1>4, WorkerLeaves
  <2> QED
    BY <1>k, <1>n, <2>1, <2>2
<1> QED
  BY <1>1, <1>2, <1>3, <1>4 DEF Next, AddTask

-----------------------------------------------------------------------------
(* The pending claims and their slots.                                      *)
LEMMA WindowFacts ==
  ASSUME TypeOK, Window
  PROVE  /\ Count \in Nat /\ Done \in Nat /\ Left \in Nat /\ Pending \in 0..Capacity
         /\ Pending = Count - Left /\ head \in Slots /\ Place(0) = head
         /\ \A i \in 1..Count : hist.claims[i] \in Tasks
         /\ \A k \in 0..Capacity : Place(k) \in Slots
         /\ \A j, k \in 0..(Capacity - 1) : Place(j) = Place(k) => j = k
         /\ \A k \in 0..(Capacity - 1) : Following(Place(k)) = Place(k + 1)
<1>1. /\ Count \in Nat /\ Done \in Nat /\ Left \in Nat /\ Pending \in 0..Capacity
      /\ head \in Slots /\ Capacity \in Nat \ {0}
      /\ \A i \in 1..Count : hist.claims[i] \in Tasks
  BY Lengths, QueueAssumption DEF TypeOK, Window
<1>2. Pending = Count - Left
  BY <1>1 DEF Pending, Left, Count, Done, Ahead
<1>3. Place(0) = head /\ \A k \in 0..Capacity : Place(k) \in Slots
  BY <1>1 DEF Place, Slots
<1>4. \A j, k \in 0..(Capacity - 1) : Place(j) = Place(k) => j = k
  BY <1>1 DEF Place, Slots
<1>5. ASSUME NEW k \in 0..(Capacity - 1) PROVE Following(Place(k)) = Place(k + 1)
  <2>1. Place(k) \in Slots
    BY <1>1, <1>3
  <2>2. Following(Place(k)) = IF Place(k) + 1 = Capacity THEN 0 ELSE Place(k) + 1
    BY <2>1, FollowingFacts
  <2> QED
    BY <1>1, <2>2 DEF Place, Slots
<1> QED
  BY <1>1, <1>2, <1>3, <1>4, <1>5

(* What becomes of the window: a claim lengthens it, leaving a slot         *)
(* shortens it from the front, any other step leaves it alone.              *)
LEMMA WindowMoves ==
  ASSUME TypeOK, [Next]_vars
  PROVE  \/ \E q \in Producers :
              /\ Claim(q) /\ Count' = Count + 1 /\ hist'.claims[Count + 1] = Current(q)
              /\ \A i \in 1..Count : hist'.claims[i] = hist.claims[i]
              /\ Left' = Left /\ Pending' = Pending + 1
              /\ head' = head /\ tail' = Following(tail)
         \/ /\ Advance /\ SameLogs /\ Left' = Left + 1 /\ Pending' = Pending - 1
            /\ head' = Following(head) /\ tail' = tail /\ prod' = prod /\ slot' = slot
         \/ /\ \A q \in Producers : ~Claim(q)
            /\ ~Advance /\ Count' = Count /\ hist'.claims = hist.claims
            /\ Left' = Left /\ Pending' = Pending /\ head' = head /\ tail' = tail
<1>0. Done \in Nat /\ Count \in Nat
  BY Lengths
<1>1. ASSUME NEW q \in Producers, Claim(q)
      PROVE  /\ Count' = Count + 1 /\ hist'.claims[Count + 1] = Current(q)
             /\ \A i \in 1..Count : hist'.claims[i] = hist.claims[i]
             /\ Left' = Left /\ Pending' = Pending + 1
             /\ head' = head /\ tail' = Following(tail)
  <2>1. Done' = Done /\ worker' = worker
    BY <1>1, ClaimLogs DEF Claim
  <2> QED
    BY <1>1, <2>1, ClaimLogs, PendingSteps DEF Claim, Left, Ahead
<1>2. ASSUME Advance
      PROVE  /\ SameLogs /\ Left' = Left + 1 /\ Pending' = Pending - 1
             /\ head' = Following(head) /\ tail' = tail /\ prod' = prod /\ slot' = slot
  <2>1. SameLogs /\ worker = "resolved" /\ worker' = "check"
    BY <1>2, OtherLogs DEF Advance, WorkerAt
  <2>2. Ahead = 1 /\ Ahead' = 0 /\ Done' = Done
    BY <2>1 DEF Ahead, SameLogs
  <2> QED
    BY <1>0, <1>2, <2>1, <2>2, PendingSteps DEF Advance, NextHead, Left
<1>3. ASSUME \A q \in Producers : ~Claim(q), ~Advance
      PROVE  /\ Count' = Count /\ hist'.claims = hist.claims
             /\ Left' = Left /\ Pending' = Pending /\ head' = head /\ tail' = tail
  <2>1. CASE \E q \in Producers : Test(q) \/ AddTask(q) \/ Await(q)
    <3>1. PICK q \in Producers : Test(q) \/ AddTask(q) \/ Await(q)
      BY <2>1
    <3>2. /\ head' = head /\ tail' = tail
          /\ worker' = worker \/ (worker = "asleep" /\ worker' = "check")
      BY <1>3, <3>1, ProducerLeaves
    <3>3. SameLogs /\ Pending' = Pending
      BY <1>3, <3>1, OtherLogs, PendingSteps DEF AddTask, Await
    <3>4. Ahead' = Ahead /\ Done' = Done
      BY <3>2, <3>3 DEF Ahead, SameLogs
    <3> QED
      BY <3>2, <3>3, <3>4 DEF Left, SameLogs
  <2>2. CASE SendHead
    <3>1. /\ Done' = Done + 1 /\ hist'.claims = hist.claims /\ Count' = Count
          /\ worker = "work" /\ worker' \in {"sent", "failed"}
      BY <2>2, SendLogs
    <3>2. Ahead = 0 /\ Ahead' = 1
      BY <3>1 DEF Ahead
    <3>3. head' = head /\ tail' = tail /\ Pending' = Pending
      BY <2>2, PendingSteps DEF SendHead
    <3> QED
      BY <1>0, <3>1, <3>2, <3>3 DEF Left
  <2>3. CASE WorkerChecks \/ WorkerBlocks \/ SpuriousWakeup \/ Resolve \/ Terminate
               \/ Stop \/ UNCHANGED vars
    <3>1. SameLogs /\ Pending' = Pending
      BY <2>3, OtherLogs, PendingSteps
    <3>2. head' = head /\ tail' = tail
      BY <1>3, <2>3, WorkerLeaves DEF Loop
    <3>3. Ahead' = Ahead
      BY <2>3 DEF WorkerChecks, WorkerBlocks, SpuriousWakeup, Resolve, Terminate, Stop, StopFlag,
        StopNotify, Join, Woken, WorkerAt, Ahead, vars
    <3>4. Done' = Done
      BY <3>1 DEF SameLogs
    <3> QED
      BY <3>1, <3>2, <3>3, <3>4 DEF Left, SameLogs
  <2> QED
    BY <1>3, <2>1, <2>2, <2>3 DEF Next, Loop
<1> QED
  BY <1>1, <1>2, <1>3

(* What was disorderly stays so.                                            *)
LEMMA OrderlyBefore ==
  ASSUME TypeOK, [Next]_vars
  PROVE  /\ Orderly' => Orderly
         /\ FirstLap' => FirstLap
         /\ ~hist'.early => ~hist.early
<1>0. hist \in History
  BY Lengths
<1>1. FirstLap' => FirstLap
  <2>1. Count \in Nat /\ (FirstLap <=> Count <= Capacity) /\ (FirstLap' <=> Count' <= Capacity)
    BY Lengths DEF FirstLap, Count
  <2>2. Count' = Count \/ Count' = Count + 1
    BY WindowMoves DEF SameLogs
  <2> QED
    BY <2>1, <2>2, QueueAssumption
<1>2. (hist.early => hist'.early) /\ (hist.raced => hist'.raced)
  BY <1>0
     DEF Next, AddTask, Await, Loop, Test, Claim, Construct, Publish, Notify, GetFuture, Receive,
         GiveUp, WorkerChecks, WorkerBlocks, SendHead, Resolve, Terminate, Advance, SpuriousWakeup,
         Stop, StopFlag, StopNotify, Join, Missed, History, vars
<1> QED
  BY <1>1, <1>2 DEF Orderly

(* A worker at work has a task of the head slot that is ready.              *)
LEMMA HeadTask ==
  ASSUME TypeOK, InStep, Busy
  PROVE  /\ Left + 1 \in 1..Count /\ slot[head].task = hist.claims[Left + 1]
         /\ slot[head].task \in Tasks /\ ~Claiming(head)
<1>1. /\ Window /\ Pending > 0 /\ ~Unpublished /\ Pending \in 0..Capacity /\ Pending = Count - Left
      /\ Count \in Nat /\ Left \in Nat /\ Place(0) = head /\ Capacity \in Nat
      /\ \A i \in 1..Count : hist.claims[i] \in Tasks
  BY WindowFacts, QueueAssumption DEF InStep, InOrder
<1>2. ~Claiming(head)
  BY <1>1 DEF Claiming, Unpublished
<1>3. FilledOne(0)
  <2>1. 0 \in 0..(Pending - 1)
    BY <1>1
  <2> QED
    BY <2>1 DEF InStep, Filled
<1>4. slot[head].task = hist.claims[Left + 0 + 1]
  BY <1>1, <1>2, <1>3 DEF FilledOne
<1>5. Left + 0 + 1 = Left + 1 /\ Left + 1 \in 1..Count
  BY <1>1
<1> QED
  BY <1>1, <1>2, <1>4, <1>5

LEMMA WindowStep ==
  ASSUME IndInv, IndInv', InStep, [Next]_vars, Orderly'
  PROVE  Window'
<1>0. TypeOK /\ Window /\ InOrder /\ Capacity \in Nat \ {0} /\ TypeOK' /\ Ring'
  BY QueueAssumption DEF IndInv, InStep
<1>w. /\ Count \in Nat /\ Left \in Nat /\ Pending \in 0..Capacity /\ Pending = Count - Left
      /\ tail = Place(Pending) /\ head \in Slots
      /\ \A k \in 0..(Capacity - 1) : Following(Place(k)) = Place(k + 1)
  BY <1>0, WindowFacts DEF Window
<1>1. ASSUME NEW q \in Producers, Claim(q), Count' = Count + 1, Left' = Left,
             Pending' = Pending + 1, head' = head, tail' = Following(tail)
      PROVE  Window'
  <2>1. Pending < Capacity
    <3>1. CASE ~hist'.raced
      <4>1. Pending' \in 0..(Capacity - 1)
        BY <1>0, <3>1 DEF Ring
      <4> QED
        BY <1>1, <1>w, <1>0, <4>1
    <3>2. CASE FirstLap'
      <4>1. Count' <= Capacity
        BY <3>2 DEF FirstLap, Count
      <4> QED
        BY <1>1, <1>w, <1>0, <4>1
    <3> QED
      BY <3>1, <3>2 DEF Orderly
  <2>2. tail' = Place(Pending + 1)
    <3>1. Pending \in 0..(Capacity - 1)
      BY <1>w, <1>0, <2>1
    <3> QED
      BY <1>1, <1>w, <3>1
  <2>3. Place(Pending)' = Place(Pending + 1)
    BY <1>1 DEF Place
  <2> QED
    BY <1>0, <1>1, <1>w, <2>1, <2>2, <2>3 DEF Window
<1>2. ASSUME Advance, Left' = Left + 1, Pending' = Pending - 1, head' = Following(head), tail' = tail
      PROVE  Window'
  <2>1. Pending > 0
    BY <1>0, <1>2 DEF Advance, WorkerAt, InOrder, Busy
  <2>2. head' = IF head + 1 = Capacity THEN 0 ELSE head + 1
    BY <1>2, <1>w, FollowingFacts
  <2>3. Place(Pending)' = Place(Pending)
    BY <1>0, <1>2, <1>w, <2>1, <2>2 DEF Place, Slots
  <2> QED
    BY <1>0, <1>2, <1>w, <2>1, <2>3 DEF Window
<1>3. ASSUME Left' = Left, Pending' = Pending, head' = head, tail' = tail
      PROVE  Window'
  <2>1. Place(Pending)' = Place(Pending)
    BY <1>3 DEF Place
  <2> QED
    BY <1>3, <1>w, <2>1 DEF Window
<1> QED
  BY <1>0, <1>1, <1>2, <1>3, WindowMoves

(* The k-th pending slot before a step and after it.                        *)
LEMMA PlaceMoves ==
  ASSUME TypeOK, Window
  PROVE  /\ head' = head => \A k \in Nat : Place(k)' = Place(k)
         /\ head' = Following(head) => \A k \in 0..(Capacity - 1) : Place(k)' = Place(k + 1)
<1>1. head' = head => \A k \in Nat : Place(k)' = Place(k)
  BY DEF Place
<1>2. ASSUME head' = Following(head), NEW k \in 0..(Capacity - 1) PROVE Place(k)' = Place(k + 1)
  <2>1. head \in Slots /\ Capacity \in Nat \ {0}
    BY QueueAssumption DEF TypeOK
  <2>2. head' = IF head + 1 = Capacity THEN 0 ELSE head + 1
    BY <1>2, <2>1, FollowingFacts
  <2> QED
    BY <2>1, <2>2 DEF Place, Slots
<1> QED
  BY <1>1, <1>2

LEMMA HoldingStep ==
  ASSUME IndInv, InStep, Window', [Next]_vars
  PROVE  Holding'
<1>0. TypeOK /\ Called /\ Window /\ Holding /\ InOrder
      /\ \A p \in Producers : prod[p].pos \in Slots
  BY ClaimedSlot DEF IndInv, InStep
<1>w. /\ Count \in Nat /\ Left \in Nat /\ Pending \in 0..Capacity /\ Pending = Count - Left
      /\ Capacity \in Nat \ {0} /\ Place(0) = head /\ tail = Place(Pending)
      /\ \A j, k \in 0..(Capacity - 1) : Place(j) = Place(k) => j = k
  BY <1>0, WindowFacts, QueueAssumption DEF Window
<1> SUFFICES ASSUME NEW p \in Producers PROVE HoldingOne(p)'
  BY DEF Holding
<1>h. HoldingOne(p)
  BY <1>0 DEF Holding
<1>n. ASSUME prod'[p].at \notin {"claimed", "built"} PROVE HoldingOne(p)'
  BY <1>n DEF HoldingOne
(* The producer's claim is where it was, or one further in front.           *)
<1>k. ASSUME prod'[p].pos = prod[p].pos, prod'[p].calls = prod[p].calls,
             prod[p].at \in {"claimed", "built"},
             \A i \in 1..Count : hist'.claims[i] = hist.claims[i],
             \/ head' = head /\ Left' = Left /\ Pending' \in {Pending, Pending + 1}
             \/ head' = Following(head) /\ Left' = Left + 1 /\ Pending' = Pending - 1
                  /\ prod[p].pos # head,
             prod'[p].at = "built" => slot'[prod[p].pos].task = Current(p)
      PROVE  HoldingOne(p)'
  <2>1. PICK k \in 0..(Pending - 1) : Holds(p, k)
    BY <1>h, <1>k DEF HoldingOne
  <2>2. Left + k + 1 \in 1..Count /\ k \in Nat /\ k \in 0..(Capacity - 1)
    BY <1>w
  <2>3. Current(p)' = Current(p)
    BY <1>k DEF Current
  <2>4. CASE head' = head /\ Left' = Left /\ Pending' \in {Pending, Pending + 1}
    <3>1. k \in 0..(Pending' - 1)
      <4>1. CASE Pending' = Pending
        BY <4>1
      <4>2. CASE Pending' = Pending + 1
        BY <1>w, <2>2, <4>2
      <4> QED
        BY <2>4, <4>1, <4>2
    <3>2. Place(k)' = Place(k)
      BY <1>0, <2>2, <2>4, PlaceMoves
    <3>3. Holds(p, k)'
      BY <1>k, <2>1, <2>2, <2>3, <2>4, <3>2 DEF Holds
    <3> QED
      BY <1>k, <2>3, <3>1, <3>3 DEF HoldingOne
  <2>5. CASE head' = Following(head) /\ Left' = Left + 1 /\ Pending' = Pending - 1
               /\ prod[p].pos # head
    <3>1. k # 0
      BY <1>w, <2>1, <2>5 DEF Holds
    <3>2. k - 1 \in 0..(Pending' - 1) /\ k - 1 \in 0..(Capacity - 1) /\ (k - 1) + 1 = k
          /\ Left' + (k - 1) + 1 = Left + k + 1
      BY <1>w, <2>2, <2>5, <3>1
    <3>3. Place(k - 1)' = Place(k)
      BY <1>0, <2>5, <3>2, PlaceMoves
    <3>4. Holds(p, k - 1)'
      BY <1>k, <2>1, <2>2, <2>3, <3>2, <3>3 DEF Holds
    <3> QED
      BY <1>k, <2>3, <3>2, <3>4 DEF HoldingOne
  <2> QED
    BY <1>k, <2>4, <2>5
<1>1. ASSUME NEW q \in Producers, Claim(q), Count' = Count + 1, hist'.claims[Count + 1] = Current(q),
             \A i \in 1..Count : hist'.claims[i] = hist.claims[i],
             Left' = Left, Pending' = Pending + 1, head' = head
      PROVE  HoldingOne(p)'
  <2>1. /\ prod'[q].at = "claimed" /\ prod'[q].calls = prod[q].calls /\ prod'[q].pos = tail
        /\ \A o \in Producers : o # q => prod'[o] = prod[o]
        /\ slot' = slot
    BY <1>0, <1>1, ProducerSteps, SlotSteps
  <2>2. CASE p = q
    <3>1. Pending \in 0..(Pending' - 1) /\ Left' + Pending + 1 = Count + 1
      BY <1>1, <1>w
    <3>2. Place(Pending) = prod'[p].pos /\ \A k \in Nat : Place(k)' = Place(k)
      BY <1>0, <1>1, <1>w, <2>1, <2>2, PlaceMoves
    <3>3. Current(p)' = Current(p)
      BY <2>1, <2>2 DEF Current
    <3>m. PICK m \in Nat : m = Pending
      BY <1>w
    <3>4. m \in 0..(Pending' - 1) /\ Left' + m + 1 = Count + 1
      BY <3>m, <3>1
    <3>5. prod'[p].pos = Place(m)' /\ hist'.claims[Left' + m + 1] = Current(p)'
      BY <1>1, <2>2, <3>m, <3>2, <3>3, <3>4
    <3>6. \E k \in 0..(Pending' - 1) : prod'[p].pos = Place(k)' /\ hist'.claims[Left' + k + 1] = Current(p)'
      BY <3>4, <3>5
    <3> QED
      BY <2>1, <2>2, <3>6 DEF HoldingOne, Holds
  <2>3. CASE p # q
    <3>1. prod'[p] = prod[p]
      BY <2>1, <2>3
    <3>2. CASE prod[p].at \in {"claimed", "built"}
      BY <1>h, <1>k, <1>1, <2>1, <3>1, <3>2 DEF HoldingOne
    <3> QED
      BY <1>n, <3>1, <3>2
  <2> QED
    BY <2>2, <2>3
<1>2. ASSUME Advance, SameLogs, Left' = Left + 1, Pending' = Pending - 1, head' = Following(head),
             prod' = prod, slot' = slot
      PROVE  HoldingOne(p)'
  <2>1. ~Unpublished
    BY <1>0, <1>2 DEF Advance, WorkerAt, InOrder, Busy
  <2>2. CASE prod[p].at \in {"claimed", "built"}
    <3>1. prod[p].pos # head
      BY <2>1, <2>2 DEF Unpublished
    <3> QED
      BY <1>h, <1>k, <1>2, <2>2, <3>1 DEF HoldingOne, SameLogs
  <2> QED
    BY <1>n, <1>2, <2>2
<1>3. ASSUME \A q \in Producers : ~Claim(q), ~Advance, Count' = Count, hist'.claims = hist.claims,
             Left' = Left, Pending' = Pending, head' = head
      PROVE  HoldingOne(p)'
  <2>1. CASE Loop \/ SpuriousWakeup \/ Stop \/ UNCHANGED vars
    <3>1. prod' = prod /\ slot' = slot
      BY <2>1, WorkerLeaves
    <3>2. CASE prod[p].at \in {"claimed", "built"}
      BY <1>h, <1>k, <1>3, <3>1, <3>2 DEF HoldingOne
    <3> QED
      BY <1>n, <3>1, <3>2
  <2>2. ASSUME NEW q \in Producers, Construct(q) PROVE HoldingOne(p)'
    <3>1. /\ prod[q].at = "claimed" /\ Moves(q, "built")
          /\ \A i \in Slots : slot'[i].task = IF i = prod[q].pos THEN Current(q) ELSE slot[i].task
      BY <1>0, <2>2, ProducerSteps, SlotSteps DEF Construct, At
    <3>2. CASE p = q
      BY <1>0, <1>k, <1>3, <3>1, <3>2 DEF Moves
    <3>3. CASE p # q
      <4>1. prod'[p] = prod[p]
        BY <3>1, <3>3 DEF Moves
      <4>2. CASE prod[p].at \in {"claimed", "built"}
        <5>1. PICK k \in 0..(Pending - 1) : Holds(p, k)
          BY <1>h, <4>2 DEF HoldingOne
        <5>2. PICK j \in 0..(Pending - 1) : Holds(q, j)
          BY <1>0, <3>1 DEF Holding, HoldingOne
        <5>3. Current(p) # Current(q)
          BY <3>3 DEF Current
        <5>4. k # j /\ k \in 0..(Capacity - 1) /\ j \in 0..(Capacity - 1)
          BY <1>w, <5>1, <5>2, <5>3 DEF Holds
        <5>5. prod[p].pos # prod[q].pos
          BY <1>w, <5>1, <5>2, <5>4 DEF Holds
        <5>6. slot'[prod[p].pos].task = slot[prod[p].pos].task
          BY <1>0, <3>1, <5>5
        <5> QED
          BY <1>h, <1>k, <1>3, <4>1, <4>2, <5>6 DEF HoldingOne
      <4> QED
        BY <1>n, <4>1, <4>2
    <3> QED
      BY <3>2, <3>3
  <2>3. ASSUME NEW q \in Producers, Test(q) \/ Publish(q) \/ Notify(q) \/ GetFuture(q) \/ Await(q)
        PROVE  HoldingOne(p)'
    <3>1. /\ prod'[q].at \notin {"claimed", "built"}
          /\ \A o \in Producers : o # q => prod'[o] = prod[o]
          /\ \A i \in Slots : slot'[i].task = slot[i].task
      BY <1>0, <2>3, ProducerSteps, SlotSteps DEF Moves, Await
    <3>2. CASE p # q /\ prod[p].at \in {"claimed", "built"}
      BY <1>0, <1>h, <1>k, <1>3, <3>1, <3>2 DEF HoldingOne
    <3> QED
      BY <1>n, <3>1, <3>2
  <2> QED
    BY <1>3, <2>1, <2>2, <2>3 DEF Next, AddTask
<1> QED
  BY <1>0, <1>1, <1>2, <1>3, WindowMoves

LEMMA FilledStep ==
  ASSUME IndInv, InStep, Window', [Next]_vars
  PROVE  Filled'
<1>0. TypeOK /\ Called /\ Window /\ Holding /\ Filled /\ InOrder
      /\ \A p \in Producers : prod[p].pos \in Slots
  BY ClaimedSlot DEF IndInv, InStep
<1>w. /\ Count \in Nat /\ Left \in Nat /\ Pending \in 0..Capacity /\ Pending = Count - Left
      /\ Capacity \in Nat \ {0} /\ Place(0) = head /\ tail = Place(Pending)
      /\ \A k \in 0..Capacity : Place(k) \in Slots
      /\ \A j, k \in 0..(Capacity - 1) : Place(j) = Place(k) => j = k
  BY <1>0, WindowFacts, QueueAssumption DEF Window
<1>c. ASSUME NEW i \in Slots, NEW q \in Producers, prod[q].at # "claimed" \/ prod[q].pos # i,
             \A p \in Producers : p # q => prod'[p] = prod[p], Claiming(i)
      PROVE  Claiming(i)'
  BY <1>c DEF Claiming
<1> SUFFICES ASSUME NEW k \in 0..(Pending' - 1) PROVE FilledOne(k)'
  BY DEF Filled
<1>p. Pending' \in 0..Capacity /\ k \in Nat
  BY DEF Window
<1>1. ASSUME NEW q \in Producers, Claim(q), Count' = Count + 1,
             \A i \in 1..Count : hist'.claims[i] = hist.claims[i],
             Left' = Left, Pending' = Pending + 1, head' = head
      PROVE  FilledOne(k)'
  <2>1. /\ prod'[q].at = "claimed" /\ prod'[q].pos = tail /\ prod[q].at = "checked"
        /\ \A o \in Producers : o # q => prod'[o] = prod[o]
        /\ slot' = slot /\ Place(k)' = Place(k)
    BY <1>0, <1>1, <1>p, ProducerSteps, SlotSteps, PlaceMoves DEF Claim, At
  <2>2. CASE k = Pending
    BY <1>w, <2>1, <2>2 DEF FilledOne, Claiming
  <2>3. CASE k # Pending
    <3>1. k \in 0..(Pending - 1) /\ Left + k + 1 \in 1..Count /\ Place(k) \in Slots
      BY <1>1, <1>w, <2>3
    <3>2. FilledOne(k)
      BY <1>0, <3>1 DEF Filled
    <3>3. Claiming(Place(k)) => \E o \in Producers : prod'[o].at = "claimed" /\ prod'[o].pos = Place(k)
      BY <2>1 DEF Claiming
    <3> QED
      BY <1>1, <2>1, <3>1, <3>2, <3>3 DEF FilledOne, Claiming
  <2> QED
    BY <2>2, <2>3
<1>2. ASSUME SameLogs, Left' = Left + 1, Pending' = Pending - 1, head' = Following(head),
             prod' = prod, slot' = slot
      PROVE  FilledOne(k)'
  <2>1. k + 1 \in 0..(Pending - 1) /\ Left' + k + 1 = Left + (k + 1) + 1 /\ k \in 0..(Capacity - 1)
    BY <1>2, <1>w, <1>p
  <2>2. FilledOne(k + 1) /\ Place(k)' = Place(k + 1)
    BY <1>0, <1>2, <2>1, PlaceMoves DEF Filled
  <2> QED
    BY <1>2, <2>1, <2>2 DEF FilledOne, Claiming, SameLogs
<1>3. ASSUME \A q \in Producers : ~Claim(q), ~Advance, hist'.claims = hist.claims,
             Left' = Left, Pending' = Pending, head' = head
      PROVE  FilledOne(k)'
  <2>1. /\ k \in 0..(Pending - 1) /\ k \in 0..(Capacity - 1) /\ Place(k) \in Slots
        /\ FilledOne(k) /\ Place(k)' = Place(k)
    <3>1. k \in 0..(Pending - 1) /\ k \in 0..(Capacity - 1) /\ k \in 0..Capacity
      BY <1>3, <1>w
    <3> QED
      BY <1>0, <1>3, <1>w, <1>p, <3>1, PlaceMoves DEF Filled
  <2>2. CASE Loop \/ SpuriousWakeup \/ Stop \/ UNCHANGED vars
    <3>1. prod' = prod /\ slot' = slot
      BY <2>2, WorkerLeaves
    <3> QED
      BY <1>3, <2>1, <3>1 DEF FilledOne, Claiming
  <2>3. ASSUME NEW q \in Producers, Construct(q) PROVE FilledOne(k)'
    <3>1. /\ prod[q].at = "claimed" /\ Moves(q, "built")
          /\ \A i \in Slots : slot'[i].task = IF i = prod[q].pos THEN Current(q) ELSE slot[i].task
      BY <1>0, <2>3, ProducerSteps, SlotSteps DEF Construct, At
    <3>2. PICK j \in 0..(Pending - 1) : Holds(q, j)
      BY <1>0, <3>1 DEF Holding, HoldingOne
    <3>3. j \in 0..(Capacity - 1)
      BY <1>w
    <3>4. CASE k = j
      BY <1>3, <2>1, <3>1, <3>2, <3>4 DEF FilledOne, Holds
    <3>5. CASE k # j
      <4>1. prod[q].pos # Place(k)
        BY <1>w, <2>1, <3>2, <3>3, <3>5 DEF Holds
      <4>2. Claiming(Place(k)) => \E o \in Producers : prod'[o].at = "claimed" /\ prod'[o].pos = Place(k)
        BY <3>1, <4>1 DEF Claiming, Moves
      <4>3. slot'[Place(k)].task = slot[Place(k)].task
        BY <2>1, <3>1, <4>1
      <4> QED
        BY <1>3, <2>1, <4>2, <4>3 DEF FilledOne, Claiming
    <3> QED
      BY <3>4, <3>5
  <2>4. ASSUME NEW q \in Producers, Test(q) \/ Publish(q) \/ Notify(q) \/ GetFuture(q) \/ Await(q)
        PROVE  FilledOne(k)'
    <3>1. /\ prod[q].at # "claimed" /\ \A o \in Producers : o # q => prod'[o] = prod[o]
          /\ \A i \in Slots : slot'[i].task = slot[i].task
      BY <1>0, <2>4, ProducerSteps, SlotSteps
         DEF Moves, Test, Publish, Notify, GetFuture, Await, Receive, GiveUp, At
    <3>2. Claiming(Place(k)) => \E o \in Producers : prod'[o].at = "claimed" /\ prod'[o].pos = Place(k)
      BY <3>1 DEF Claiming
    <3> QED
      BY <1>3, <2>1, <3>1, <3>2 DEF FilledOne, Claiming
  <2> QED
    BY <1>3, <2>2, <2>3, <2>4 DEF Next, AddTask
<1> QED
  BY <1>0, <1>1, <1>2, <1>3, WindowMoves

(* No producer touches the slot of a worker at work.                        *)
LEMMA HeadKept ==
  ASSUME IndInv, InStep, Orderly', [Next]_vars, Busy,
         NEW q \in Producers, Test(q) \/ AddTask(q) \/ Await(q)
  PROVE  slot'[head].task = slot[head].task /\ ~Unpublished'
<1>0. /\ TypeOK /\ Window /\ InOrder /\ ~Unpublished /\ Pending > 0 /\ head' = head
      /\ head \in Slots /\ prod[q].pos \in Slots
  BY ClaimedSlot, ProducerLeaves DEF IndInv, InStep, InOrder, TypeOK
<1>1. CASE Construct(q)
  <2>1. prod[q].pos # head /\ Moves(q, "built")
    BY <1>0, <1>1, ProducerSteps DEF Unpublished, Construct, At
  <2>2. slot'[head].task = slot[head].task
    BY <1>0, <1>1, <2>1, SlotSteps
  <2> QED
    BY <1>0, <2>1, <2>2 DEF Unpublished, Moves
<1>2. CASE Claim(q)
  <2>1. /\ prod'[q].pos = tail /\ \A p \in Producers : p # q => prod'[p] = prod[p]
        /\ slot' = slot
    BY <1>0, <1>2, ProducerSteps, SlotSteps
  <2>2. /\ Pending \in 0..Capacity /\ tail = Place(Pending) /\ Place(0) = head
        /\ Capacity \in Nat \ {0}
        /\ \A j, k \in 0..(Capacity - 1) : Place(j) = Place(k) => j = k
    BY <1>0, WindowFacts, QueueAssumption DEF Window
  <2>3. Pending < Capacity
    <3>1. Count' = Count + 1 /\ Pending = Count - Left /\ Count \in Nat /\ Left \in Nat
      BY <1>0, <1>2, ClaimLogs, WindowFacts
    <3>2. CASE FirstLap'
      <4>1. Count' <= Capacity
        BY <3>2 DEF FirstLap, Count
      <4> QED
        BY <2>2, <3>1, <4>1
    <3>3. CASE ~hist'.raced
      <4>1. ~hist.raced /\ prod[q].at = "checked"
        BY <1>0, <1>2, <3>3, Lengths DEF Claim, At, History
      <4>2. Pending < Capacity - 1
        BY <4>1 DEF IndInv, Ring
      <4> QED
        BY <2>2, <4>2
    <3> QED
      BY <3>2, <3>3 DEF Orderly
  <2>4. tail # head
    <3>1. Pending \in 0..(Capacity - 1) /\ 0 \in 0..(Capacity - 1) /\ Pending # 0
      BY <1>0, <2>2, <2>3
    <3> QED
      BY <2>2, <3>1
  <2> QED
    BY <1>0, <2>1, <2>4 DEF Unpublished
<1>3. CASE Test(q) \/ Publish(q) \/ Notify(q) \/ GetFuture(q) \/ Await(q)
  <2>1. /\ prod'[q].at \notin {"claimed", "built"}
        /\ \A p \in Producers : p # q => prod'[p] = prod[p]
        /\ slot'[head].task = slot[head].task
    BY <1>0, <1>3, ProducerSteps, SlotSteps DEF Moves, Await
  <2> QED
    BY <1>0, <2>1 DEF Unpublished
<1> QED
  BY <1>1, <1>2, <1>3 DEF AddTask

LEMMA InOrderStep ==
  ASSUME IndInv, InStep, Window', [Next]_vars, Orderly'
  PROVE  InOrder'
<1>0. /\ TypeOK /\ Window /\ InOrder /\ Count \in Nat /\ Done \in Nat /\ Left \in Nat
      /\ Pending \in 0..Capacity /\ Pending = Count - Left /\ Capacity \in Nat \ {0}
      /\ Place(0) = head /\ tail = Place(Pending) /\ ~hist'.early /\ ~hist.early
  BY WindowFacts, OrderlyBefore, QueueAssumption DEF IndInv, InStep, Window, Orderly
<1>d. Done <= Count
  BY <1>0 DEF Left, Ahead, InOrder, Busy
<1>1. \A i \in 1..Done' : hist'.taken[i] = hist'.claims[i]
  <2>1. CASE SendHead
    <3>1. /\ Done' = Done + 1 /\ hist'.taken[Done + 1] = slot[head].task
          /\ \A i \in 1..Done : hist'.taken[i] = hist.taken[i]
          /\ hist'.claims = hist.claims /\ worker = "work"
      BY <1>0, <2>1, SendLogs
    <3>2. Left = Done /\ slot[head].task = hist.claims[Left + 1]
      BY <1>0, <3>1, HeadTask DEF Left, Ahead, Busy
    <3> QED
      BY <1>0, <3>1, <3>2 DEF InOrder
  <2>2. CASE ~SendHead
    <3>1. hist'.taken = hist.taken /\ Done' = Done /\ \A i \in 1..Count : hist'.claims[i] = hist.claims[i]
      BY <1>0, <2>2, ClaimLogs, OtherLogs DEF Next, AddTask, Await, Loop, SameLogs
    <3>2. \A i \in 1..Done : i \in 1..Count
      BY <1>0, <1>d
    <3> QED
      BY <1>0, <3>1, <3>2 DEF InOrder
  <2> QED
    BY <2>1, <2>2
<1>2. ASSUME Busy' PROVE Pending' > 0 /\ ~Unpublished'
  <2>1. CASE WorkerChecks
    <3>1. /\ worker' = "work" /\ prod' = prod /\ head' = head /\ Pending' = Pending
          /\ head # tail /\ ~Unpublished
      <4>1. worker' = "work" /\ prod' = prod /\ head' = head /\ ~Empty
        BY <1>2, <2>1 DEF WorkerChecks, Busy, MayExit, HeadReady
      <4>2. hist'.early = (hist.early \/ (worker' = "work" /\ LooksReady))
        <5>1. hist \in History
          BY <1>0, Lengths
        <5> QED
          BY <2>1, <5>1 DEF WorkerChecks, History
      <4>3. Unpublished => LooksReady
        <5>1. Unpublished => ~Stopped
          BY <1>0 DEF IndInv, Closed, Unpublished
        <5> QED
          BY <2>1, <4>1, <5>1 DEF WorkerChecks, HeadReady, LooksReady
      <4> QED
        BY <1>0, <2>1, <4>1, <4>2, <4>3, PendingSteps DEF Empty
    <3>2. Pending # 0
      BY <1>0, <3>1
    <3> QED
      BY <1>0, <3>1, <3>2 DEF Unpublished
  <2>2. CASE SendHead \/ Resolve \/ Terminate \/ Stop \/ UNCHANGED vars
    <3>1. Busy /\ prod' = prod /\ head' = head /\ Pending' = Pending
      BY <1>0, <1>2, <2>2, PendingSteps
         DEF SendHead, Resolve, Terminate, Stop, StopFlag, StopNotify, Join, Woken, WorkerAt, Busy, vars
    <3> QED
      BY <1>0, <3>1 DEF InOrder, Unpublished
  <2>3. CASE WorkerBlocks \/ SpuriousWakeup \/ Advance
    BY <1>2, <2>3 DEF WorkerBlocks, SpuriousWakeup, Advance, Busy
  <2>4. ASSUME NEW q \in Producers, Test(q) \/ AddTask(q) \/ Await(q)
        PROVE  Pending' > 0 /\ ~Unpublished'
    <3>1. Busy
      BY <1>2, <2>4, ProducerLeaves DEF Busy
    <3>2. Pending' \in {Pending, Pending + 1}
      BY <1>0, <2>4, PendingSteps DEF AddTask, Await
    <3>3. Pending > 0
      BY <1>0, <3>1 DEF InOrder
    <3>4. Pending' > 0
      BY <1>0, <3>2, <3>3
    <3> QED
      BY <2>4, <3>1, <3>4, HeadKept
  <2> QED
    BY <2>1, <2>2, <2>3, <2>4 DEF Next, Loop
<1> QED
  BY <1>1, <1>2 DEF InOrder

LEMMA ResultsStep ==
  ASSUME IndInv, Numbered, InStep, [Next]_vars, Orderly'
  PROVE  Results'
<1>0. /\ TypeOK /\ Called /\ Window /\ InOrder /\ Results
      /\ Count \in Nat /\ Done \in Nat /\ Left \in Nat
      /\ Pending \in 0..Capacity /\ Pending = Count - Left
      /\ result \in [Tasks -> {"none", "sent", "failed"}]
  BY WindowFacts DEF IndInv, InStep, TypeOK
<1>d. Done <= Count /\ \A i \in 1..Done : i \in 1..Count
  BY <1>0 DEF Left, Ahead, InOrder, Busy
<1>k. ASSUME result' = result, crashed' = crashed, hist'.mailed = hist.mailed, Done' = Done,
             \A i \in 1..Count : hist'.claims[i] = hist.claims[i],
             worker' \in {"sent", "failed"} => worker' = worker,
             worker' = "sent" => slot'[head'].task = slot[head].task
      PROVE  Results'
  <2>1. ASSUME NEW t \in Tasks, result'[t] # "none"
        PROVE  \E i \in 1..Done' :
                 t = hist'.claims[i] /\ (worker' \in {"sent", "failed"} => i # Done')
    <3>1. PICK i \in 1..Done :
            t = hist.claims[i] /\ (worker \in {"sent", "failed"} => i # Done)
      BY <1>0, <1>k, <2>1 DEF Results
    <3>2. i \in 1..Done' /\ t = hist'.claims[i] /\ (worker' \in {"sent", "failed"} => i # Done')
      BY <1>0, <1>d, <1>k, <3>1
    <3> QED
      BY <3>2
  <2>2. /\ \A t \in Tasks : result'[t] = "sent" => t \in hist'.mailed
        /\ worker' = "sent" => slot'[head'].task \in hist'.mailed
        /\ ~crashed'
    BY <1>0, <1>k DEF Results
  <2> QED
    BY <2>1, <2>2 DEF Results
<1>1. ASSUME NEW q \in Producers, Test(q) \/ AddTask(q) \/ Await(q) PROVE Results'
  <2>1. /\ head' = head /\ result' = result /\ crashed' = crashed
        /\ worker' = worker \/ (worker = "asleep" /\ worker' = "check")
    BY <1>1, ProducerLeaves
  <2>2. /\ hist'.mailed = hist.mailed /\ Done' = Done
        /\ \A i \in 1..Count : hist'.claims[i] = hist.claims[i]
    BY <1>0, <1>1, ClaimLogs, OtherLogs DEF AddTask, Await, SameLogs
  <2>3. worker' = "sent" => slot'[head'].task = slot[head].task
    BY <1>0, <1>1, <2>1, HeadKept DEF Busy
  <2> QED
    BY <1>k, <2>1, <2>2, <2>3
<1>2. CASE SendHead
  <2>1. /\ Done' = Done + 1 /\ hist'.claims = hist.claims
        /\ hist.mailed \subseteq hist'.mailed
        /\ worker' = "sent" => slot[head].task \in hist'.mailed
    BY <1>0, <1>2, SendLogs
  <2>2. result' = result /\ crashed' = crashed /\ head' = head /\ slot' = slot
    BY <1>2 DEF SendHead, promises, life
  <2>3. ASSUME NEW t \in Tasks, result'[t] # "none"
        PROVE  \E i \in 1..Done' :
                 t = hist'.claims[i] /\ (worker' \in {"sent", "failed"} => i # Done')
    <3>1. PICK i \in 1..Done : t = hist.claims[i]
      BY <1>0, <2>2, <2>3 DEF Results
    <3>2. i \in 1..Done' /\ t = hist'.claims[i] /\ i # Done'
      BY <1>0, <2>1, <3>1
    <3> QED
      BY <3>2
  <2>4. /\ \A t \in Tasks : result'[t] = "sent" => t \in hist'.mailed
        /\ worker' = "sent" => slot'[head'].task \in hist'.mailed
        /\ ~crashed'
    BY <1>0, <2>1, <2>2 DEF Results
  <2> QED
    BY <2>3, <2>4 DEF Results
<1>h. ASSUME worker \in {"sent", "failed"}
      PROVE  /\ Done \in 1..Count /\ Done \in 1..Done /\ slot[head].task = hist.claims[Done]
             /\ slot[head].task \in Tasks /\ result[slot[head].task] = "none"
  <2>1. Left = Done - 1 /\ Busy
    BY <1>h DEF Left, Ahead, Busy
  <2>2. Left + 1 \in 1..Count /\ slot[head].task = hist.claims[Left + 1] /\ slot[head].task \in Tasks
    BY <1>0, <2>1, HeadTask
  <2>3. Done \in 1..Count /\ Done \in 1..Done /\ slot[head].task = hist.claims[Done]
    BY <1>0, <2>1, <2>2
  <2>4. result[slot[head].task] = "none"
    <3> SUFFICES ASSUME result[slot[head].task] # "none" PROVE FALSE
      OBVIOUS
    <3>1. PICK i \in 1..Done : slot[head].task = hist.claims[i] /\ i # Done
      BY <1>0, <1>h, <2>2 DEF Results
    <3> QED
      BY <1>0, <1>d, <2>3, <3>1 DEF Numbered
  <2> QED
    BY <2>2, <2>3, <2>4
<1>3. CASE Resolve
  <2>1. /\ worker \in {"sent", "failed"} /\ worker' = "resolved" /\ SameLogs
        /\ crashed' = crashed
        /\ result' = [result EXCEPT ![slot[head].task] = worker]
    BY <1>0, <1>3, OtherLogs DEF Resolve, WorkerAt, life
  <2>2. /\ Done \in 1..Done /\ slot[head].task = hist.claims[Done] /\ slot[head].task \in Tasks
        /\ worker = "sent" => slot[head].task \in hist.mailed
    BY <1>0, <1>h, <2>1 DEF Results
  <2>3. \A t \in Tasks : result'[t] = IF t = slot[head].task THEN worker ELSE result[t]
    BY <1>0, <2>1, <2>2
  <2>4. ASSUME NEW t \in Tasks, result'[t] # "none"
        PROVE  \E i \in 1..Done' :
                 t = hist'.claims[i] /\ (worker' \in {"sent", "failed"} => i # Done')
    <3>1. CASE t = slot[head].task
      BY <2>1, <2>2, <3>1 DEF SameLogs
    <3>2. CASE t # slot[head].task
      <4>1. PICK i \in 1..Done : t = hist.claims[i]
        BY <1>0, <2>3, <2>4, <3>2 DEF Results
      <4> QED
        BY <2>1, <4>1 DEF SameLogs
    <3> QED
      BY <3>1, <3>2
  <2>5. /\ \A t \in Tasks : result'[t] = "sent" => t \in hist'.mailed
        /\ worker' = "sent" => slot'[head'].task \in hist'.mailed
        /\ ~crashed'
    BY <1>0, <2>1, <2>2, <2>3 DEF Results, SameLogs
  <2> QED
    BY <2>4, <2>5 DEF Results
<1>4. CASE Terminate
  <2>1. \/ worker = "work" /\ slot[head].task = Raw
        \/ worker \in {"sent", "failed"} /\ slot[head].task \notin Unset
    BY <1>4 DEF Terminate, WorkerAt
  <2>2. worker = "work" => slot[head].task \in Tasks
    BY <1>0, HeadTask DEF Busy
  <2>3. worker \in {"sent", "failed"} => slot[head].task \in Unset
    BY <1>h DEF Unset
  <2> QED
    BY <2>1, <2>2, <2>3, QueueAssumption
<1>5. CASE WorkerChecks \/ WorkerBlocks \/ Advance \/ SpuriousWakeup \/ Stop \/ UNCHANGED vars
  <2>1. SameLogs
    BY <1>0, <1>5, OtherLogs
  <2>2. result' = result /\ crashed' = crashed
    BY <1>5 DEF WorkerChecks, WorkerBlocks, Advance, SpuriousWakeup, Stop, StopFlag, StopNotify,
      Join, vars, promises, life
  <2>3. \/ worker' = worker /\ slot' = slot /\ head' = head
        \/ worker' \notin {"sent", "failed"}
    BY <1>5 DEF WorkerChecks, WorkerBlocks, Advance, SpuriousWakeup, Stop, StopFlag, StopNotify,
      Join, vars, Woken
  <2> QED
    BY <1>0, <1>k, <2>1, <2>2, <2>3 DEF SameLogs
<1> QED
  BY <1>1, <1>2, <1>3, <1>4, <1>5 DEF Next, Loop

LEMMA InitInStep == Init => Numbered /\ InStep
<1> SUFFICES ASSUME Init PROVE Numbered /\ InStep
  OBVIOUS
<1>1. Count = 0 /\ Done = 0 /\ Ahead = 0 /\ Left = 0 /\ Pending = 0 /\ ~Busy
  <2>1. Count = 0 /\ Done = 0 /\ Ahead = 0 /\ ~Busy
    BY EmptySeq DEF Init, Count, Done, Ahead, Busy
  <2>2. Pending = Count - Done + Ahead /\ Left = Done - Ahead
    BY DEF Pending, Count, Done, Ahead, Left
  <2> QED
    BY <2>1, <2>2
<1>2. Numbered /\ Filled /\ InOrder
  BY <1>1 DEF Numbered, Filled, InOrder
<1>3. Window
  BY <1>1, QueueAssumption DEF Window, Init, Place
<1>4. Holding
  BY DEF Holding, HoldingOne, Init
<1>5. Results
  BY DEF Results, Init
<1> QED
  BY <1>2, <1>3, <1>4, <1>5 DEF InStep

(* However often the ring goes round and whatever its memory held, the ring *)
(* is what its claims say until a slot is taken up too early or overfilled, *)
(* for any capacity and any number of producers and calls                   *)
(* (email_queue.cpp:9, 38-76).                                              *)
THEOREM InStepInvariance == Spec => [](Numbered /\ (Orderly => InStep))
<1>1. IndInv /\ IndInv' /\ Numbered /\ (Orderly => InStep) /\ [Next]_vars
        => (Numbered /\ (Orderly => InStep))'
  <2> SUFFICES ASSUME IndInv, IndInv', Numbered, Orderly => InStep, [Next]_vars
               PROVE  Numbered' /\ (Orderly' => InStep')
    OBVIOUS
  <2>1. Orderly' => Orderly
    BY OrderlyBefore DEF IndInv
  <2>2. ASSUME Orderly' PROVE InStep'
    <3>1. InStep
      BY <2>1, <2>2
    <3>2. Window'
      BY <2>2, <3>1, WindowStep
    <3> QED
      BY <2>2, <3>1, <3>2, HoldingStep, FilledStep, InOrderStep, ResultsStep DEF InStep
  <2> QED
    BY <2>2, NumberedStep
<1> QED
  BY Invariance, InitInStep, <1>1, PTL DEF Spec

(* Mails go out in the order of their claims, each once, on every lap,      *)
(* until then (email_queue.cpp:44-49, 57-60, 66-76).                        *)
THEOREM FirstInFirstOut == Spec => []Fifo
<1>1. IndInv /\ (Orderly => InStep) => Fifo
  <2> SUFFICES ASSUME IndInv, InStep PROVE Done <= Count /\ \A i \in 1..Done : hist.taken[i] = hist.claims[i]
    BY DEF Fifo, Count, Done
  <2>1. Count \in Nat /\ Done \in Nat /\ Left \in Nat /\ Pending \in 0..Capacity /\ Pending = Count - Left
    BY WindowFacts DEF IndInv, InStep
  <2>2. Done <= Count
    BY <2>1 DEF InStep, InOrder, Left, Ahead, Busy
  <2> QED
    BY <2>2 DEF InStep, InOrder
<1> QED
  BY Invariance, InStepInvariance, <1>1, PTL

(* Until then no promise is set twice and no memory used that holds no      *)
(* task: the worker does not bring the process down (email_queue.cpp:67-76).*)
THEOREM TerminatesOnlyInHaste == Spec => []OnlyHasteTerminates
<1>1. (Orderly => InStep) => OnlyHasteTerminates
  BY DEF InStep, Results, OnlyHasteTerminates
<1> QED
  BY InStepInvariance, <1>1, PTL

-----------------------------------------------------------------------------
(* The first lap.  Until a slot is claimed a second time the n-th claim is  *)
(* of the n-th slot, whatever the worker does, and a producer that comes    *)
(* back to its slot finds its own task there.                               *)
Index(i) == IF i = Capacity THEN 0 ELSE i

Holders ==
  \A p \in Producers :
    /\ prod[p].at \in {"claimed", "built", "published", "notified"} =>
         prod[p].pos < Count /\ hist.claims[prod[p].pos + 1] = Current(p)
    /\ prod[p].at \in {"built", "published", "notified"} => slot[prod[p].pos].task = Current(p)
    /\ prod[p].at = "waiting" => prod[p].future = Current(p)

OwnLap == tail = Index(Count) /\ Holders

LEMMA IndexFacts ==
  ASSUME NEW i \in 0..Capacity
  PROVE  /\ Index(i) \in Slots
         /\ i < Capacity => Index(i) = i
         /\ i < Capacity => Following(Index(i)) = Index(i + 1)
<1>1. Index(i) \in Slots /\ (i < Capacity => Index(i) = i)
  BY QueueAssumption DEF Index, Slots
<1>2. i < Capacity => Following(Index(i)) = Index(i + 1)
  <2> SUFFICES ASSUME i < Capacity PROVE Following(i) = Index(i + 1)
    BY <1>1
  <2>1. i \in Slots
    BY <1>1
  <2> QED
    BY <2>1, FollowingFacts DEF Index
<1> QED
  BY <1>1, <1>2

LEMMA HoldersStep ==
  ASSUME IndInv, OwnLap, [Next]_vars, FirstLap'
  PROVE  Holders'
<1>0. TypeOK /\ Called /\ tail = Index(Count) /\ Holders /\ Count \in Nat
      /\ \A p \in Producers : prod[p].pos \in Nat
  BY Lengths, ClaimedSlot, QueueAssumption DEF IndInv, OwnLap, Slots
<1> DEFINE Keeps(p) ==
      /\ prod[p].at \in {"claimed", "built", "published", "notified"} =>
           prod[p].pos < Count /\ hist.claims[prod[p].pos + 1] = Current(p)
      /\ prod[p].at \in {"built", "published", "notified"} => slot[prod[p].pos].task = Current(p)
      /\ prod[p].at = "waiting" => prod[p].future = Current(p)
<1>h. \A p \in Producers : Keeps(p)
  BY <1>0 DEF Holders
<1> SUFFICES ASSUME NEW p \in Producers PROVE Keeps(p)'
  BY DEF Holders
<1>k. ASSUME prod'[p] = prod[p], Count <= Count', Count' \in Nat,
             \A i \in 1..Count : hist'.claims[i] = hist.claims[i],
             prod[p].at \in {"built", "published", "notified"} =>
               slot'[prod[p].pos].task = slot[prod[p].pos].task
      PROVE  Keeps(p)'
  <2>1. Current(p)' = Current(p)
    BY <1>k DEF Current
  <2>2. prod[p].at \in {"claimed", "built", "published", "notified"} =>
          prod[p].pos + 1 \in 1..Count
    BY <1>0, <1>h
  <2> QED
    BY <1>0, <1>h, <1>k, <2>1, <2>2
<1>1. ASSUME NEW q \in Producers, Test(q) PROVE Keeps(p)'
  <2>1. SameLogs /\ slot' = slot
    BY <1>0, <1>1, OtherLogs, SlotSteps
  <2>2. prod'[q].at \in {"checked", "idle"} /\ \A o \in Producers : o # q => prod'[o] = prod[o]
    BY <1>0, <1>1, ProducerSteps
  <2> QED
    BY <1>0, <1>k, <2>1, <2>2 DEF SameLogs
<1>2. ASSUME NEW q \in Producers, Claim(q) PROVE Keeps(p)'
  <2>1. /\ Count' = Count + 1 /\ hist'.claims[Count + 1] = Current(q)
        /\ \A i \in 1..Count : hist'.claims[i] = hist.claims[i]
        /\ slot' = slot
    BY <1>0, <1>2, ClaimLogs, SlotSteps
  <2>2. /\ prod'[q].at = "claimed" /\ prod'[q].calls = prod[q].calls /\ prod'[q].pos = tail
        /\ \A o \in Producers : o # q => prod'[o] = prod[o]
    BY <1>0, <1>2, ProducerSteps
  <2>3. tail = Count
    <3>1. Count' <= Capacity
      BY DEF FirstLap, Count
    <3> QED
      BY <1>0, <2>1, <3>1, QueueAssumption DEF Index
  <2>4. CASE p = q
    BY <1>0, <2>1, <2>2, <2>3, <2>4 DEF Current
  <2>5. CASE p # q
    BY <1>0, <1>k, <2>1, <2>2, <2>5
  <2> QED
    BY <2>4, <2>5
<1>3. ASSUME NEW q \in Producers, Construct(q) PROVE Keeps(p)'
  <2>1. SameLogs /\ prod[q].at = "claimed"
        /\ \A i \in Slots : slot'[i].task = IF i = prod[q].pos THEN Current(q) ELSE slot[i].task
    BY <1>0, <1>3, OtherLogs, SlotSteps DEF Construct, At
  <2>2. /\ prod'[q].at = "built" /\ prod'[q].calls = prod[q].calls /\ prod'[q].pos = prod[q].pos
        /\ \A o \in Producers : q # o => prod'[o] = prod[o]
    BY <1>0, <1>3, ProducerSteps DEF Moves
  <2>3. CASE p = q
    BY <1>0, <1>h, <2>1, <2>2, <2>3, ClaimedSlot DEF Current, SameLogs
  <2>4. CASE p # q
    <3>1. prod[p].at \in {"built", "published", "notified"} => prod[p].pos # prod[q].pos
      <4>1. Current(p) # Current(q)
        BY <2>4 DEF Current
      <4> QED
        BY <1>h, <2>1, <4>1
    <3> QED
      BY <1>0, <1>k, <2>1, <2>2, <2>4, <3>1, ClaimedSlot DEF SameLogs
  <2> QED
    BY <2>3, <2>4
<1>4. ASSUME NEW q \in Producers, Publish(q) \/ Notify(q) \/ GetFuture(q) \/ Await(q)
      PROVE  Keeps(p)'
  <2>1. SameLogs
    BY <1>0, <1>4, OtherLogs DEF Await
  <2>2. \A i \in Slots : slot'[i].task = slot[i].task
    BY <1>0, <1>4, SlotSteps DEF Await
  <2>3. /\ prod'[q].calls = prod[q].calls /\ prod'[q].pos = prod[q].pos
        /\ \A o \in Producers : q # o => prod'[o] = prod[o]
    BY <1>0, <1>4, ProducerSteps DEF Moves, Await
  <2>4. CASE p # q
    BY <1>0, <1>k, <2>1, <2>2, <2>3, <2>4, ClaimedSlot DEF SameLogs
  <2>5. CASE p = q
    <3>1. Current(q)' = Current(q)
      BY <2>3 DEF Current
    <3>2. CASE Publish(q) \/ Notify(q)
      <4>1. prod[q].at \in {"built", "published"} /\ prod'[q].at \in {"published", "notified"}
        BY <1>0, <3>2, ProducerSteps DEF Moves, Publish, Notify, At
      <4> QED
        BY <1>0, <1>h, <2>1, <2>2, <2>3, <2>5, <3>1, <4>1, ClaimedSlot DEF SameLogs
    <3>3. CASE GetFuture(q)
      <4>1. prod[q].at = "notified" /\ slot[prod[q].pos].task = Current(q)
        BY <1>h, <3>3 DEF GetFuture, At
      <4>2. prod'[q].at = "idle" \/ (prod'[q].at = "waiting" /\ prod'[q].future = Current(q))
        <5>1. prod \in [Producers -> Callers]
          BY <1>0 DEF TypeOK, Callers, Places
        <5>2. prod' = [prod EXCEPT ![q].at = "idle"]
              \/ prod' = [prod EXCEPT ![q].at = "waiting", ![q].future = Current(q)]
          BY <3>3, <4>1 DEF GetFuture
        <5> QED
          BY <5>1, <5>2 DEF Callers
      <4> QED
        BY <2>5, <3>1, <4>2
    <3>4. CASE Await(q)
      <4>1. prod'[q].at = "idle"
        BY <1>0, <3>4, ProducerSteps DEF Moves, Await
      <4> QED
        BY <2>5, <4>1
    <3> QED
      BY <1>4, <3>2, <3>3, <3>4
  <2> QED
    BY <2>4, <2>5
<1>5. ASSUME Loop \/ SpuriousWakeup \/ Stop \/ UNCHANGED vars PROVE Keeps(p)'
  <2>1. hist'.claims = hist.claims /\ Count' = Count
    BY <1>0, <1>5, OtherLogs, SendLogs DEF Loop, SameLogs
  <2>2. prod' = prod /\ slot' = slot
    BY <1>5, WorkerLeaves
  <2> QED
    BY <1>0, <1>k, <2>1, <2>2
<1> QED
  BY <1>1, <1>2, <1>3, <1>4, <1>5 DEF Next, AddTask

LEMMA TailStep ==
  ASSUME TypeOK, OwnLap, [Next]_vars, FirstLap'
  PROVE  tail' = Index(Count')
<1>0. Count \in Nat /\ Count' <= Capacity /\ tail = Index(Count)
  BY Lengths DEF FirstLap, Count, OwnLap
<1>1. ASSUME Count' = Count + 1, tail' = Following(tail) PROVE tail' = Index(Count + 1)
  <2>1. Count \in 0..Capacity /\ Count < Capacity
    BY <1>0, <1>1, QueueAssumption
  <2> QED
    BY <1>0, <1>1, <2>1, IndexFacts
<1> QED
  BY <1>0, <1>1, WindowMoves DEF SameLogs

THEOREM OwnInvariance == Spec => [](FirstLap => OwnLap)
<1>1. Init => OwnLap
  <2> SUFFICES ASSUME Init PROVE OwnLap
    OBVIOUS
  <2>1. Count = 0
    BY EmptySeq DEF Init, Count
  <2> QED
    BY <2>1, QueueAssumption DEF OwnLap, Holders, Index, Init
<1>2. IndInv /\ (FirstLap => OwnLap) /\ [Next]_vars => (FirstLap => OwnLap)'
  <2> SUFFICES ASSUME IndInv, FirstLap => OwnLap, [Next]_vars, FirstLap' PROVE OwnLap'
    OBVIOUS
  <2>1. TypeOK /\ OwnLap
    BY OrderlyBefore DEF IndInv
  <2>2. Index(Count)' = Index(Count')
    BY DEF Index
  <2> QED
    BY <2>1, <2>2, TailStep, HoldersStep DEF OwnLap
<1> QED
  BY Invariance, <1>1, <1>2, PTL DEF Spec

(* On the first lap a caller that is told of success has the future of its  *)
(* own task, and unless the worker was ahead of a producer that mail was    *)
(* accepted (email_queue.cpp:48-51, 57-75).                                 *)
THEOREM FirstSuccessIsMailed == Spec => []FirstSuccessMeansMailed
<1>1. Init => SuccessMeansMailed
  BY DEF Init, SuccessMeansMailed
<1>2. IndInv /\ (Orderly => InStep) /\ (FirstLap => OwnLap) /\ FirstSuccessMeansMailed
        /\ [Next]_vars => FirstSuccessMeansMailed'
  <2> SUFFICES ASSUME IndInv, Orderly => InStep, FirstLap => OwnLap, FirstSuccessMeansMailed,
                      [Next]_vars, FirstLap', ~hist'.early
               PROVE  hist'.told \subseteq hist'.mailed
    BY DEF FirstSuccessMeansMailed, SuccessMeansMailed
  <2>0. TypeOK /\ Called /\ hist.told \subseteq hist.mailed /\ InStep /\ OwnLap
    <3>1. FirstLap /\ ~hist.early
      BY OrderlyBefore DEF IndInv
    <3> QED
      BY <3>1 DEF IndInv, Orderly, FirstSuccessMeansMailed, SuccessMeansMailed
  <2>1. ASSUME NEW q \in Producers, Receive(q) PROVE hist'.told \subseteq hist'.mailed
    <3>1. prod[q].at = "waiting" /\ prod[q].future = Current(q) /\ Current(q) \in Tasks
      BY <2>0, <2>1, CurrentType, QueueAssumption DEF OwnLap, Holders, Receive, At, Called
    <3>2. result[Current(q)] = "sent" => Current(q) \in hist.mailed
      BY <2>0, <3>1 DEF InStep, Results
    <3> QED
      BY <2>0, <2>1, <3>1, <3>2, OtherLogs DEF SameLogs
  <2>2. ASSUME \A q \in Producers : ~Receive(q) PROVE hist'.told \subseteq hist'.mailed
    <3>1. hist'.told = hist.told /\ hist.mailed \subseteq hist'.mailed
      BY <2>0, <2>2, ClaimLogs, SendLogs, OtherLogs DEF Next, AddTask, Await, Loop, SameLogs
    <3> QED
      BY <2>0, <3>1
  <2> QED
    BY <2>1, <2>2
<1>3. SuccessMeansMailed => FirstSuccessMeansMailed
  BY DEF FirstSuccessMeansMailed
<1> QED
  BY Invariance, InStepInvariance, OwnInvariance, <1>1, <1>2, <1>3, PTL DEF Spec

(* The converse of Results: the promise of every mail taken up is set, that *)
(* of the mail in hand excepted.                                            *)
Settled ==
  \A i \in 1..Done :
    (worker \in {"sent", "failed"} => i # Done) => result[hist.claims[i]] # "none"

LEMMA SettledStep ==
  ASSUME IndInv, InStep, Settled, [Next]_vars
  PROVE  Settled'
<1>0. /\ TypeOK /\ Count \in Nat /\ Done \in Nat /\ Left \in Nat /\ Done <= Count
      /\ \A i \in 1..Done : i \in 1..Count /\ hist.claims[i] \in Tasks
      /\ result \in [Tasks -> {"none", "sent", "failed"}]
  <2>1. /\ TypeOK /\ Count \in Nat /\ Done \in Nat /\ Left \in Nat
        /\ Pending \in 0..Capacity /\ Pending = Count - Left
        /\ \A i \in 1..Count : hist.claims[i] \in Tasks
    BY WindowFacts DEF IndInv, InStep
  <2>2. Done <= Count
    BY <2>1 DEF InStep, InOrder, Left, Ahead, Busy
  <2> QED
    BY <2>1, <2>2 DEF TypeOK
<1>k. ASSUME result' = result, Done' = Done, \A i \in 1..Count : hist'.claims[i] = hist.claims[i],
             worker \in {"sent", "failed"} => worker' = worker
      PROVE  Settled'
  <2>1. ASSUME NEW i \in 1..Done', worker' \in {"sent", "failed"} => i # Done'
        PROVE  result'[hist'.claims[i]] # "none"
    <3>1. i \in 1..Done /\ (worker \in {"sent", "failed"} => i # Done)
      BY <1>k, <2>1
    <3> QED
      BY <1>0, <1>k, <3>1 DEF Settled
  <2> QED
    BY <2>1 DEF Settled
<1>1. ASSUME NEW q \in Producers, Test(q) \/ AddTask(q) \/ Await(q) PROVE Settled'
  <2>1. result' = result /\ (worker' = worker \/ worker = "asleep")
    BY <1>1, ProducerLeaves
  <2>2. Done' = Done /\ \A i \in 1..Count : hist'.claims[i] = hist.claims[i]
    BY <1>0, <1>1, ClaimLogs, OtherLogs DEF AddTask, Await, SameLogs
  <2> QED
    BY <1>k, <2>1, <2>2
<1>2. CASE SendHead
  <2>1. Done' = Done + 1 /\ hist'.claims = hist.claims /\ worker = "work"
        /\ worker' \in {"sent", "failed"} /\ result' = result
    BY <1>0, <1>2, SendLogs DEF SendHead, promises
  <2>2. ASSUME NEW i \in 1..Done', i # Done' PROVE result'[hist'.claims[i]] # "none"
    <3>1. i \in 1..Done
      BY <1>0, <2>1, <2>2
    <3> QED
      BY <2>1, <3>1 DEF Settled
  <2> QED
    BY <2>1, <2>2 DEF Settled
<1>3. CASE Resolve
  <2>1. /\ worker \in {"sent", "failed"} /\ worker' = "resolved" /\ SameLogs
        /\ result' = [result EXCEPT ![slot[head].task] = worker]
    BY <1>0, <1>3, OtherLogs DEF Resolve, WorkerAt
  <2>2. Left = Done - 1 /\ Busy
    BY <2>1 DEF Left, Ahead, Busy
  <2>3. slot[head].task = hist.claims[Done]
    BY <1>0, <2>2, HeadTask
  <2>4. ASSUME NEW i \in 1..Done PROVE result'[hist.claims[i]] # "none"
    <3>1. CASE i = Done
      BY <1>0, <2>1, <2>3, <3>1
    <3>2. CASE i # Done
      <4>1. result[hist.claims[i]] # "none"
        BY <3>2 DEF Settled
      <4> QED
        BY <1>0, <2>1, <4>1
    <3> QED
      BY <3>1, <3>2
  <2> QED
    BY <2>1, <2>4 DEF Settled, SameLogs
<1>4. CASE WorkerChecks \/ WorkerBlocks \/ Terminate \/ Advance \/ SpuriousWakeup \/ Stop
             \/ UNCHANGED vars
  <2>1. SameLogs
    BY <1>0, <1>4, OtherLogs
  <2>2. result' = result /\ (worker \in {"sent", "failed"} => worker' = worker)
    BY <1>4 DEF WorkerChecks, WorkerBlocks, Terminate, Advance, SpuriousWakeup, Stop, StopFlag,
      StopNotify, Join, Woken, WorkerAt, vars, promises
  <2> QED
    BY <1>k, <2>1, <2>2 DEF SameLogs
<1> QED
  BY <1>1, <1>2, <1>3, <1>4 DEF Next, Loop

(* No mail is left without an answer when the queue is destroyed, whether   *)
(* its caller still has the future or gave up: unless a capacity test was   *)
(* shared or a slot taken up too early, the worker exits only after it has  *)
(* set the promise of every mail ever queued (email_queue.cpp:62-76).       *)
THEOREM NobodyIsLeftWaiting ==
  Spec => [](~hist.early /\ ~hist.raced /\ worker = "exited" =>
               \A i \in 1..Count : result[hist.claims[i]] # "none")
<1>1. Init => Settled
  <2> SUFFICES ASSUME Init PROVE Settled
    OBVIOUS
  <2>1. Done = 0
    BY EmptySeq DEF Init, Done
  <2> QED
    BY <2>1 DEF Settled
<1>2. IndInv /\ (Orderly => InStep) /\ (Orderly => Settled) /\ [Next]_vars => (Orderly => Settled)'
  <2> SUFFICES ASSUME IndInv, Orderly => InStep, Orderly => Settled, [Next]_vars, Orderly'
               PROVE  Settled'
    OBVIOUS
  <2>1. Orderly
    BY OrderlyBefore DEF IndInv
  <2> QED
    BY <2>1, SettledStep
<1>3. IndInv /\ (Orderly => Settled) =>
        (~hist.early /\ ~hist.raced /\ worker = "exited" =>
           \A i \in 1..Count : result[hist.claims[i]] # "none")
  <2> SUFFICES ASSUME IndInv, Settled, ~hist.raced, worker = "exited", NEW i \in 1..Count
               PROVE  result[hist.claims[i]] # "none"
    BY DEF Orderly
  <2>1. Count \in Nat /\ Done \in Nat
    BY Lengths DEF IndInv
  <2>2. Pending = 0
    BY DEF IndInv, Closed
  <2>3. Count - Done + 0 = 0
    BY <2>2 DEF Pending, Count, Done
  <2>4. i \in 1..Done
    BY <2>1, <2>3
  <2> QED
    BY <2>4 DEF Settled
<1> QED
  BY Invariance, InStepInvariance, <1>1, <1>2, <1>3, PTL DEF Spec

-----------------------------------------------------------------------------
(* The end of the queue.  What is left between the destructor and its       *)
(* return: for each task still in the ring the worker's four steps, the     *)
(* rest of the round it is in, and the steps of stop(); termination ends    *)
(* all of it.                                                               *)

(* The distance the head has to go.  A worker with a task in hand can have  *)
(* the whole ring before it: two producers may have overfilled it.          *)
Before ==
  IF head < tail THEN tail - head
  ELSE IF head > tail THEN tail + Capacity - head
  ELSE IF Busy THEN Capacity ELSE 0

WorkerLeft ==
  [blocking |-> 7, asleep |-> 6, check |-> 5, work |-> 4, sent |-> 3, failed |-> 3,
   resolved |-> 2, exited |-> 0]

StopLeft == [no |-> 3, flagged |-> 2, notified |-> 1, joined |-> 0]

WorkLeft ==
  4 * Before + WorkerLeft[worker] + StopLeft[stopping] + (IF crashed THEN 0 ELSE 1)

LEMMA WorkLeftType ==
  ASSUME TypeOK
  PROVE  /\ Before \in 0..Capacity /\ WorkerLeft[worker] \in 0..7 /\ StopLeft[stopping] \in 0..3
         /\ WorkLeft \in 0..(4 * Capacity + 11)
<1>1. Before \in 0..Capacity
  BY QueueAssumption DEF TypeOK, Slots, Before
<1>2. WorkerLeft[worker] \in 0..7
  BY DEF TypeOK, WorkerLeft
<1>3. StopLeft[stopping] \in 0..3
  BY DEF TypeOK, StopLeft
<1> QED
  BY <1>1, <1>2, <1>3, QueueAssumption DEF WorkLeft

LEMMA WorkFalls ==
  ASSUME IndInv, Stopped, Next
  PROVE  WorkLeft' < WorkLeft
<1>0. /\ TypeOK /\ Closed /\ Capacity \in Nat \ {0} /\ head \in Slots /\ tail \in Slots
      /\ crashed \in BOOLEAN
  BY QueueAssumption DEF IndInv, TypeOK
<1>t. Before \in 0..Capacity /\ WorkerLeft[worker] \in 0..7 /\ StopLeft[stopping] \in 0..3
  BY <1>0, WorkLeftType
<1>k. ASSUME head' = head, tail' = tail, stopping' = stopping, crashed' = crashed,
             Busy' => Busy \/ head # tail, WorkerLeft[worker'] \in Nat,
             WorkerLeft[worker'] < WorkerLeft[worker]
      PROVE  WorkLeft' < WorkLeft
  <2>1. Before' \in 0..Capacity /\ Before' <= Before
    BY <1>0, <1>k DEF Before, Slots
  <2>2. StopLeft[stopping]' = StopLeft[stopping] /\ WorkerLeft[worker]' = WorkerLeft[worker']
    BY <1>k DEF StopLeft, WorkerLeft
  <2> QED
    BY <1>t, <1>k, <2>1, <2>2 DEF WorkLeft
<1>1. CASE WorkerChecks
  <2>1. worker = "check" /\ worker' \in {"work", "exited"} /\ (worker' = "work" => head # tail)
    BY <1>1 DEF WorkerChecks, WorkerAt, MayExit, Empty
  <2>2. WorkerLeft[worker'] \in 0..4 /\ WorkerLeft[worker] = 5
    BY <2>1 DEF WorkerLeft
  <2>3. Busy' => head # tail
    BY <2>1 DEF Busy
  <2> QED
    BY <1>k, <1>1, <2>2, <2>3 DEF WorkerChecks, life
<1>2. CASE WorkerBlocks \/ SpuriousWakeup
  <2>1. \/ worker = "blocking" /\ worker' = "asleep"
        \/ worker = "asleep" /\ worker' = "check"
    BY <1>2 DEF WorkerBlocks, SpuriousWakeup, WorkerAt
  <2>2. WorkerLeft[worker'] \in Nat /\ WorkerLeft[worker'] < WorkerLeft[worker] /\ ~Busy'
    BY <2>1 DEF WorkerLeft, Busy
  <2> QED
    BY <1>k, <1>2, <2>2 DEF WorkerBlocks, SpuriousWakeup, life
<1>3. CASE SendHead \/ Resolve
  <2>1. \/ worker = "work" /\ worker' \in {"sent", "failed"}
        \/ worker \in {"sent", "failed"} /\ worker' = "resolved"
    BY <1>3 DEF SendHead, Resolve, Verdicts, WorkerAt
  <2>2. WorkerLeft[worker'] \in Nat /\ WorkerLeft[worker'] < WorkerLeft[worker] /\ Busy
    BY <2>1 DEF WorkerLeft, Busy
  <2> QED
    BY <1>k, <1>3, <2>2 DEF SendHead, Resolve, life
<1>4. CASE Terminate
  <2>1. /\ UNCHANGED <<head, tail, worker, stopping>> /\ crashed' = TRUE /\ crashed = FALSE
    BY <1>0, <1>4 DEF Terminate, WorkerAt
  <2>2. /\ Before' = Before /\ WorkerLeft[worker]' = WorkerLeft[worker]
        /\ StopLeft[stopping]' = StopLeft[stopping]
    BY <2>1 DEF Before, Busy, WorkerLeft, StopLeft
  <2> QED
    BY <1>t, <2>1, <2>2 DEF WorkLeft
<1>5. CASE Advance
  <2>1. /\ worker = "resolved" /\ worker' = "check" /\ head' = Following(head)
        /\ UNCHANGED <<tail, stopping, crashed>>
    BY <1>5 DEF Advance, NextHead, WorkerAt, life
  <2>2. Busy /\ ~Busy'
    BY <2>1 DEF Busy
  <2>3. Before' \in Nat /\ Before' <= Before - 1
    <3>1. head' = IF head + 1 = Capacity THEN 0 ELSE head + 1
      BY <1>0, <2>1, FollowingFacts
    <3> QED
      BY <1>0, <2>1, <2>2, <3>1 DEF Before, Slots
  <2>4. /\ WorkerLeft[worker] = 2 /\ WorkerLeft[worker]' = 5
        /\ StopLeft[stopping]' = StopLeft[stopping]
    BY <2>1 DEF WorkerLeft, StopLeft
  <2> QED
    BY <1>t, <2>1, <2>3, <2>4 DEF WorkLeft
<1>6. CASE StopFlag
  BY <1>6 DEF StopFlag, Stopped
<1>7. CASE StopNotify \/ Join
  <2>1. /\ UNCHANGED <<head, tail, crashed>>
        /\ \/ stopping = "flagged" /\ stopping' = "notified"
           \/ stopping = "notified" /\ stopping' = "joined"
        /\ worker' = worker \/ (worker = "asleep" /\ worker' = "check")
    BY <1>7 DEF StopNotify, Join, Woken
  <2>2. StopLeft[stopping]' \in Nat /\ StopLeft[stopping]' < StopLeft[stopping]
    BY <2>1 DEF StopLeft
  <2>3. WorkerLeft[worker]' \in Nat /\ WorkerLeft[worker]' <= WorkerLeft[worker]
    BY <1>t, <2>1 DEF WorkerLeft
  <2>4. Before' = Before
    BY <2>1 DEF Before, Busy
  <2> QED
    BY <1>t, <2>1, <2>2, <2>3, <2>4 DEF WorkLeft
<1> QED
  BY <1>0, <1>1, <1>2, <1>3, <1>4, <1>5, <1>6, <1>7, StoppedProducers DEF Next, Loop, Stop

(* However full the ring was and however often it has gone round, the       *)
(* destructor has a bounded number of steps to wait for, and until it       *)
(* returns or the process is terminated it or the worker can take one of    *)
(* them, with a single exception: the worker sleeps and the notification    *)
(* has gone by (email_queue.cpp:21-27, 54-78).                              *)
THEOREM StopHangsOnlyOnAMissedWakeup ==
  Spec => /\ [](WorkLeft \in 0..(4 * Capacity + 11))
          /\ [][Stopped => WorkLeft' < WorkLeft]_vars
          /\ [](Stopped /\ ~crashed =>
                  \/ stopping \in {"flagged", "joined"}
                  \/ worker \in {"check", "blocking", "work", "sent", "failed", "resolved", "exited"}
                  \/ worker = "asleep" /\ hist.missed)
<1>1. IndInv => WorkLeft \in 0..(4 * Capacity + 11)
  BY WorkLeftType DEF IndInv
<1>2. IndInv /\ [Next]_vars => [Stopped => WorkLeft' < WorkLeft]_vars
  BY WorkFalls
<1>3. IndInv =>
        (Stopped /\ ~crashed =>
           \/ stopping \in {"flagged", "joined"}
           \/ worker \in {"check", "blocking", "work", "sent", "failed", "resolved", "exited"}
           \/ worker = "asleep" /\ hist.missed)
  BY DEF IndInv, TypeOK, Wakeups
<1> QED
  BY Invariance, <1>1, <1>2, <1>3, PTL DEF Spec
=============================================================================
