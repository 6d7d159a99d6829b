--------------------- MODULE SubprocessTranscoderProofs ---------------------
(***************************************************************************)
(* What SubprocessTranscoder guarantees for any number of workers, clients *)
(* and calls: no wake-up is missed, the destructor leaves no sleeper, and  *)
(* the pool implements TaskExecution's safety.                             *)
(*                                                                         *)
(* IndInv is the inductive invariant.  It adds to the checked invariants   *)
(* where a task can be (Numbered: nothing is queued, held or finished that *)
(* its client has not begun; Unique: nothing is in two places) and what    *)
(* the mutex and the flag imply (Settled: a worker about to sleep has seen *)
(* an empty queue that cannot have changed, a worker that left has seen    *)
(* stop_ and an empty queue).                                              *)
(***************************************************************************)
EXTENDS SubprocessTranscoder, TLAPS, FiniteSetTheorems, SequenceTheorems

Begun(t) == t[2] <= client[t[1]].calls

Numbered ==
  /\ \A i \in 1..Len(tasks) : Begun(tasks[i])
  /\ \A w \in Workers : job[w] # NoTask => Begun(job[w])
  /\ \A t \in Tasks : result[t] # "pending" => Begun(t)

Unique ==
  /\ \A i, j \in 1..Len(tasks) : tasks[i] = tasks[j] => i = j
  /\ \A v, w \in Workers : job[v] = job[w] /\ job[v] # NoTask => v = w
  /\ \A w \in Workers, i \in 1..Len(tasks) : job[w] # tasks[i]

Settled ==
  /\ \A w \in Workers : worker[w] = "blocking" => tasks = <<>> /\ ~Stopping
  /\ \A w \in Workers : worker[w] = "exited" => tasks = <<>> /\ Stopping

IndInv ==
  TypeOK /\ Numbered /\ Unique /\ Settled /\ NobodySleepsPastStop /\ WakeupsCoverWork

-----------------------------------------------------------------------------
(* What a step does to the queue: it keeps it, appends a new task or moves  *)
(* the head to an idle worker.                                              *)
LEMMA QueueFacts ==
  ASSUME TypeOK
  PROVE  /\ Len(tasks) \in Nat
         /\ tasks = <<>> <=> Len(tasks) = 0
         /\ \A i \in 1..Len(tasks) : tasks[i] \in Tasks /\ tasks[i] # NoTask
<1>1. tasks \in Seq(Tasks)
  BY DEF TypeOK
<1>2. \A i \in 1..Len(tasks) : tasks[i] \in Tasks
  BY <1>1, ElementOfSeq
<1> QED
  BY <1>1, <1>2, EmptySeq, LenProperties, TranscoderAssumption

LEMMA PushFacts ==
  ASSUME TypeOK, NEW c \in Clients, Push(c)
  PROVE  LET t == <<c, client[c].calls + 1>> IN
         /\ t \in Tasks
         /\ tasks' \in Seq(Tasks)
         /\ Len(tasks') = Len(tasks) + 1
         /\ \A i \in 1..Len(tasks) : tasks'[i] = tasks[i]
         /\ tasks'[Len(tasks) + 1] = t
         /\ tasks' # <<>>
<1> DEFINE t == <<c, client[c].calls + 1>>
<1>1. tasks \in Seq(Tasks) /\ tasks' = Append(tasks, t)
  BY DEF TypeOK, Push
<1>2. t \in Tasks
  BY TranscoderAssumption DEF TypeOK, Push, Tasks
<1>3. /\ tasks' \in Seq(Tasks)
      /\ Len(tasks') = Len(tasks) + 1
      /\ \A i \in 1..Len(tasks) : tasks'[i] = tasks[i]
      /\ tasks'[Len(tasks) + 1] = t
  BY <1>1, <1>2, AppendProperties
<1>4. tasks' # <<>>
  BY <1>1, <1>3, LenProperties, EmptySeq
<1> QED
  BY <1>2, <1>3, <1>4

LEMMA TakeFacts ==
  ASSUME TypeOK, NEW w \in Workers, Take(w)
  PROVE  /\ tasks' \in Seq(Tasks)
         /\ Len(tasks) > 0
         /\ Len(tasks') = Len(tasks) - 1
         /\ \A i \in 1..Len(tasks') : tasks'[i] = tasks[i + 1]
         /\ Head(tasks) = tasks[1]
         /\ Head(tasks) \in Tasks
<1>1. tasks \in Seq(Tasks) /\ tasks # <<>> /\ tasks' = Tail(tasks)
  BY DEF TypeOK, Take
<1>2. Len(tasks) \in Nat \ {0}
  BY <1>1, EmptySeq
<1>3. Head(tasks) = tasks[1] /\ Head(tasks) \in Tasks
  BY <1>1, HeadTailProperties
<1>4. tasks' \in Seq(Tasks) /\ Len(tasks') = Len(tasks) - 1
  BY <1>1, HeadTailProperties
<1>5. \A i \in 1..Len(tasks') : tasks'[i] = tasks[i + 1]
  BY <1>1, <1>2, <1>4
<1> QED
  BY <1>2, <1>3, <1>4, <1>5

-----------------------------------------------------------------------------
LEMMA InitIndInv == Init => IndInv
<1> SUFFICES ASSUME Init PROVE IndInv
  OBVIOUS
<1>1. Len(tasks) = 0 /\ tasks \in Seq(Tasks)
  BY DEF Init
<1>2. TypeOK
  BY <1>1, TranscoderAssumption DEF Init, TypeOK, Places
<1>3. Numbered /\ Unique
  BY <1>1, <1>2 DEF Init, Numbered, Unique
<1>4. Settled /\ NobodySleepsPastStop
  BY DEF Init, Settled, NobodySleepsPastStop
<1>5. WakeupsCoverWork
  BY DEF Init, WakeupsCoverWork, Asleep
<1> QED
  BY <1>2, <1>3, <1>4, <1>5 DEF IndInv

LEMMA TypeStep == TypeOK /\ [Next]_vars => TypeOK'
<1> SUFFICES ASSUME TypeOK, [Next]_vars PROVE TypeOK'
  OBVIOUS
<1> USE TranscoderAssumption DEF TypeOK, Places
<1>1. ASSUME NEW c \in Clients, Push(c) PROVE TypeOK'
  <2>1. tasks' \in Seq(Tasks)
    BY <1>1, PushFacts
  <2>2. client[c].calls + 1 \in 0..MaxCalls
    BY <1>1 DEF Push
  <2>3. client' \in [Clients -> [at : {"idle", "notify", "wait"}, calls : 0..MaxCalls]]
    BY <1>1, <2>2 DEF Push
  <2> QED
    BY <1>1, <2>1, <2>3 DEF Push
<1>2. ASSUME NEW c \in Clients, Notify(c) PROVE TypeOK'
  BY <1>2 DEF Notify, Awaken, Asleep
<1>3. ASSUME NEW c \in Clients, Receive(c) \/ DropFuture(c) PROVE TypeOK'
  BY <1>3 DEF Receive, DropFuture
<1>4. ASSUME NEW w \in Workers, Take(w) PROVE TypeOK'
  BY <1>4, TakeFacts DEF Take
<1>5. ASSUME NEW w \in Workers,
             Exit(w) \/ FindNothing(w) \/ FallAsleep(w) \/ SpuriousWakeup(w)
      PROVE  TypeOK'
  BY <1>5 DEF Exit, FindNothing, FallAsleep, SpuriousWakeup, Awaken
<1>6. ASSUME NEW w \in Workers, Run(w) PROVE TypeOK'
  BY <1>6 DEF Run, Outcomes
<1>7. CASE Destruct
  BY <1>7 DEF Destruct, SetStop, NotifyAll, Join, Asleep
<1>8. CASE UNCHANGED vars
  BY <1>8 DEF vars
<1> QED
  BY <1>1, <1>2, <1>3, <1>4, <1>5, <1>6, <1>7, <1>8
     DEF Next, ClientStep, Loop, Terminated

(* Steps that leave the queue, the jobs and the results alone, and let no   *)
(* client forget a call, leave every task where it is.                      *)
LEMMA TasksStay ==
  ASSUME IndInv, UNCHANGED <<tasks, job, result>>,
         \A c \in Clients : client'[c].calls = client[c].calls
  PROVE  Numbered' /\ Unique'
<1>1. \A t \in Tasks : Begun(t)' <=> Begun(t)
  BY DEF Begun, Tasks
<1>2. \A i \in 1..Len(tasks) : tasks[i] \in Tasks
  BY QueueFacts DEF IndInv
<1>3. \A w \in Workers : job[w] # NoTask => job[w] \in Tasks
  BY DEF IndInv, TypeOK
<1>4. \A i \in 1..Len(tasks)' : Begun(tasks[i])'
  BY <1>1, <1>2 DEF IndInv, Numbered, Begun
<1>5. \A w \in Workers : (job[w] # NoTask)' => Begun(job[w])'
  BY <1>1, <1>3 DEF IndInv, Numbered, Begun
<1>6. \A t \in Tasks : (result[t] # "pending")' => Begun(t)'
  BY <1>1 DEF IndInv, Numbered
<1>7. Numbered'
  BY <1>4, <1>5, <1>6 DEF Numbered
<1> QED
  BY <1>7 DEF IndInv, Unique

LEMMA CallsKept ==
  ASSUME TypeOK, TypeOK', NEW c \in Clients, Notify(c) \/ Receive(c) \/ DropFuture(c)
  PROVE  \A d \in Clients : client'[d].calls = client[d].calls
BY DEF TypeOK, Notify, Receive, DropFuture

LEMMA PushStep ==
  ASSUME IndInv, TypeOK', NEW c \in Clients, Push(c)
  PROVE  Numbered' /\ Unique'
<1>1. PICK new \in Tasks : new = <<c, client[c].calls + 1>>
  BY PushFacts DEF IndInv
<1>2. /\ Len(tasks') = Len(tasks) + 1
      /\ \A i \in 1..Len(tasks) : tasks'[i] = tasks[i]
      /\ tasks'[Len(tasks) + 1] = new
  BY <1>1, PushFacts DEF IndInv
<1>3. Len(tasks) \in Nat /\ \A i \in 1..Len(tasks) : tasks[i] \in Tasks
  BY QueueFacts DEF IndInv
<1>4. /\ client'[c].calls = client[c].calls + 1
      /\ client[c].calls \in Nat
      /\ \A d \in Clients \ {c} : client'[d] = client[d]
      /\ UNCHANGED <<job, result>>
  BY TranscoderAssumption DEF Push, IndInv, TypeOK
<1>5. \A t \in Tasks : Begun(t) => t[2] <= client'[t[1]].calls
  BY <1>4, TranscoderAssumption DEF Begun, Tasks
<1>6. ~Begun(new) /\ new[2] <= client'[new[1]].calls
  BY <1>1, <1>4 DEF Begun
<1>7. \A w \in Workers : job[w] \in Tasks \/ job[w] = NoTask
  BY DEF IndInv, TypeOK
<1>8. Numbered'
  <2>1. \A i \in 1..Len(tasks') : Begun(tasks[i])'
    <3>1. \A i \in 1..Len(tasks') : tasks'[i][2] <= client'[tasks'[i][1]].calls
      BY <1>2, <1>3, <1>5, <1>6 DEF IndInv, Numbered
    <3> QED
      BY <3>1 DEF Begun
  <2>2. \A w \in Workers : job'[w] # NoTask => Begun(job[w])'
    <3>1. \A w \in Workers : job[w] # NoTask => job[w][2] <= client'[job[w][1]].calls
      BY <1>5, <1>7 DEF IndInv, Numbered
    <3> QED
      BY <1>4, <3>1 DEF Begun
  <2>3. \A t \in Tasks : result'[t] # "pending" => Begun(t)'
    BY <1>4, <1>5 DEF IndInv, Numbered, Begun
  <2> QED
    BY <2>1, <2>2, <2>3 DEF Numbered
<1>9. Unique'
  <2>1. \A i \in 1..Len(tasks) : tasks[i] # new
    BY <1>6 DEF IndInv, Numbered
  <2>2. \A w \in Workers : job[w] # new
    BY <1>6, TranscoderAssumption DEF IndInv, Numbered
  <2>3. \A i, j \in 1..Len(tasks') : tasks'[i] = tasks'[j] => i = j
    BY <1>2, <1>3, <2>1 DEF IndInv, Unique
  <2>4. \A w \in Workers, i \in 1..Len(tasks') : job'[w] # tasks'[i]
    BY <1>2, <1>3, <1>4, <2>2 DEF IndInv, Unique
  <2> QED
    BY <1>4, <2>3, <2>4 DEF IndInv, Unique
<1> QED
  BY <1>8, <1>9

LEMMA TakeStep ==
  ASSUME IndInv, TypeOK', NEW w \in Workers, Take(w)
  PROVE  Numbered' /\ Unique'
<1>1. /\ Len(tasks') = Len(tasks) - 1
      /\ \A i \in 1..Len(tasks') : tasks'[i] = tasks[i + 1]
      /\ Len(tasks) \in Nat /\ Len(tasks) > 0
  BY TakeFacts, QueueFacts DEF IndInv
<1>2. /\ job' = [job EXCEPT ![w] = tasks[1]]
      /\ UNCHANGED <<client, result>>
  BY TakeFacts DEF IndInv, Take
<1>3. /\ job'[w] = tasks[1]
      /\ \A v \in Workers \ {w} : job'[v] = job[v]
  BY <1>2 DEF IndInv, TypeOK
<1>4. \A i \in 1..Len(tasks') : i + 1 \in 1..Len(tasks)
  BY <1>1
<1>5. Numbered'
  BY <1>1, <1>2, <1>3, <1>4 DEF IndInv, Numbered, Begun
<1>6. Unique'
  <2>1. \A i, j \in 1..Len(tasks') : tasks'[i] = tasks'[j] => i = j
    BY <1>1, <1>4 DEF IndInv, Unique
  <2>2. \A v \in Workers, i \in 1..Len(tasks') : job'[v] # tasks'[i]
    BY <1>1, <1>3, <1>4 DEF IndInv, Unique
  <2>3. \A u, v \in Workers : job'[u] = job'[v] /\ job'[u] # NoTask => u = v
    BY <1>1, <1>3 DEF IndInv, Unique
  <2> QED
    BY <2>1, <2>2, <2>3 DEF Unique
<1> QED
  BY <1>5, <1>6

LEMMA RunStep ==
  ASSUME IndInv, TypeOK', NEW w \in Workers, Run(w)
  PROVE  Numbered' /\ Unique'
<1>1. /\ job'[w] = NoTask
      /\ \A v \in Workers \ {w} : job'[v] = job[v]
      /\ UNCHANGED <<tasks, client>>
  BY DEF Run, IndInv, TypeOK
<1>2. /\ job[w] # NoTask
      /\ job[w] \in Tasks
      /\ \A t \in Tasks \ {job[w]} : result'[t] = result[t]
  BY DEF Run, IndInv, TypeOK
<1>3. Numbered'
  BY <1>1, <1>2 DEF IndInv, Numbered, Begun
<1>4. \A i \in 1..Len(tasks) : tasks[i] # NoTask
  BY QueueFacts DEF IndInv
<1>5. Unique'
  BY <1>1, <1>4 DEF IndInv, Unique
<1> QED
  BY <1>3, <1>5

LEMMA PlacesStep ==
  ASSUME IndInv, TypeOK', [Next]_vars
  PROVE  Numbered' /\ Unique'
<1>1. ASSUME NEW c \in Clients, Push(c) PROVE Numbered' /\ Unique'
  BY <1>1, PushStep
<1>2. ASSUME NEW c \in Clients, Notify(c) \/ Receive(c) \/ DropFuture(c)
      PROVE  Numbered' /\ Unique'
  <2>1. \A d \in Clients : client'[d].calls = client[d].calls
    BY <1>2, CallsKept, TypeStep DEF IndInv
  <2> QED
    BY <1>2, <2>1, TasksStay DEF Notify, Receive, DropFuture
<1>3. ASSUME NEW w \in Workers, Take(w) PROVE Numbered' /\ Unique'
  BY <1>3, TakeStep
<1>4. ASSUME NEW w \in Workers,
             Exit(w) \/ FindNothing(w) \/ FallAsleep(w) \/ SpuriousWakeup(w)
      PROVE  Numbered' /\ Unique'
  BY <1>4, TasksStay DEF Exit, FindNothing, FallAsleep, SpuriousWakeup
<1>5. ASSUME NEW w \in Workers, Run(w) PROVE Numbered' /\ Unique'
  BY <1>5, RunStep
<1>6. CASE Destruct \/ UNCHANGED vars
  BY <1>6, TasksStay DEF Destruct, SetStop, NotifyAll, Join, vars
<1> QED
  BY <1>1, <1>2, <1>3, <1>4, <1>5, <1>6 DEF Next, ClientStep, Loop, Terminated

-----------------------------------------------------------------------------
(* The mutex is held by a worker about to sleep, so neither a client nor    *)
(* the destructor can change what that worker has just seen.                *)
LEMMA SettledStep ==
  ASSUME IndInv, TypeOK', [Next]_vars
  PROVE  Settled'
<1> USE DEF IndInv, TypeOK, Settled, MutexFree, Stopping
<1>1. ASSUME NEW c \in Clients, Push(c) PROVE Settled'
  BY <1>1 DEF Push
<1>2. ASSUME NEW c \in Clients, Notify(c) PROVE Settled'
  BY <1>2 DEF Notify, Awaken, Asleep
<1>3. ASSUME NEW c \in Clients, Receive(c) \/ DropFuture(c) PROVE Settled'
  BY <1>3 DEF Receive, DropFuture
<1>4. ASSUME NEW w \in Workers, Take(w) PROVE Settled'
  BY <1>4 DEF Take
<1>5. ASSUME NEW w \in Workers, Exit(w) \/ FindNothing(w) PROVE Settled'
  BY <1>5 DEF Exit, FindNothing
<1>6. ASSUME NEW w \in Workers, FallAsleep(w) \/ SpuriousWakeup(w) PROVE Settled'
  BY <1>6 DEF FallAsleep, SpuriousWakeup, Awaken
<1>7. ASSUME NEW w \in Workers, Run(w) PROVE Settled'
  BY <1>7 DEF Run
<1>8. CASE Destruct
  BY <1>8 DEF Destruct, SetStop, NotifyAll, Join, Asleep
<1>9. CASE UNCHANGED vars
  BY <1>9 DEF vars
<1> QED
  BY <1>1, <1>2, <1>3, <1>4, <1>5, <1>6, <1>7, <1>8, <1>9
     DEF Next, ClientStep, Loop, Terminated

LEMMA SleeperStep ==
  ASSUME IndInv, TypeOK', [Next]_vars
  PROVE  NobodySleepsPastStop'
<1> USE DEF IndInv, TypeOK, NobodySleepsPastStop
<1>1. ASSUME NEW c \in Clients, ClientStep(c) PROVE NobodySleepsPastStop'
  BY <1>1 DEF ClientStep, Push, Notify, Receive, DropFuture, Awaken, Asleep
<1>2. ASSUME NEW w \in Workers, Loop(w) \/ SpuriousWakeup(w)
      PROVE  NobodySleepsPastStop'
  BY <1>2 DEF Loop, Take, Exit, FindNothing, FallAsleep, Run, SpuriousWakeup,
              Awaken, Stopping
<1>3. CASE SetStop
  BY <1>3 DEF SetStop
<1>4. CASE NotifyAll
  BY <1>4 DEF NotifyAll, Asleep, Settled, Stopping
<1>5. CASE Join
  BY <1>5 DEF Join
<1>6. CASE UNCHANGED vars
  BY <1>6 DEF vars
<1> QED
  BY <1>1, <1>2, <1>3, <1>4, <1>5, <1>6 DEF Next, Destruct, Terminated

-----------------------------------------------------------------------------
(* The accounting behind WakeupsCoverWork.                                  *)
LEMMA CountsAreNumbers ==
  ASSUME NEW A \in SUBSET Workers, NEW N \in SUBSET Clients
  PROVE  /\ IsFiniteSet(A) /\ Cardinality(A) \in Nat
         /\ IsFiniteSet(N) /\ Cardinality(N) \in Nat
<1>1. IsFiniteSet(A) /\ IsFiniteSet(N)
  BY FS_Subset, TranscoderAssumption
<1> QED
  BY <1>1, FS_CardinalityType

LEMMA HandsAreNumbers ==
  /\ IsFiniteSet(Awake) /\ Cardinality(Awake) \in Nat
  /\ IsFiniteSet(Notifying) /\ Cardinality(Notifying) \in Nat
  /\ IsFiniteSet(Awake') /\ Cardinality(Awake') \in Nat
  /\ IsFiniteSet(Notifying') /\ Cardinality(Notifying') \in Nat
<1>1. Awake \in SUBSET Workers /\ Notifying \in SUBSET Clients
  BY DEF Awake, Notifying
<1>2. Awake' \in SUBSET Workers /\ Notifying' \in SUBSET Clients
  BY DEF Awake, Notifying
<1> QED
  BY <1>1, <1>2, CountsAreNumbers

(* With the queue as it was, nobody newly asleep and no fewer hands, the    *)
(* sleepers are still covered.                                              *)
LEMMA CoverKept ==
  ASSUME TypeOK, WakeupsCoverWork, tasks' = tasks, Asleep' \subseteq Asleep,
         Awake \subseteq Awake', Notifying \subseteq Notifying'
  PROVE  WakeupsCoverWork'
<1>1. /\ Cardinality(Awake) <= Cardinality(Awake')
      /\ Cardinality(Notifying) <= Cardinality(Notifying')
  BY HandsAreNumbers, FS_Subset
<1> QED
  BY <1>1, HandsAreNumbers, QueueFacts DEF WakeupsCoverWork

LEMMA NothingQueued ==
  ASSUME tasks' = <<>>
  PROVE  WakeupsCoverWork'
BY HandsAreNumbers DEF WakeupsCoverWork

LEMMA CoverStep ==
  ASSUME IndInv, TypeOK', [Next]_vars
  PROVE  WakeupsCoverWork'
<1> USE DEF IndInv
<1>1. ASSUME NEW c \in Clients, Push(c) PROVE WakeupsCoverWork'
  <2>1. Asleep' = Asleep /\ Awake' = Awake
    BY <1>1 DEF Push, Asleep, Awake
  <2>2. Notifying' = Notifying \cup {c} /\ c \notin Notifying
    BY <1>1 DEF Push, Notifying, ClientAt, TypeOK
  <2>3. Cardinality(Notifying') = Cardinality(Notifying) + 1
    BY <2>2, HandsAreNumbers, FS_AddElement
  <2>4. Len(tasks') = Len(tasks) + 1
    BY <1>1, PushFacts
  <2> QED
    BY <2>1, <2>3, <2>4, HandsAreNumbers, QueueFacts DEF WakeupsCoverWork
<1>2. ASSUME NEW c \in Clients, Notify(c) PROVE WakeupsCoverWork'
  <2>1. CASE Asleep = {}
    BY <1>2, <2>1 DEF Notify, Asleep, WakeupsCoverWork
  <2>2. CASE Asleep # {}
    <3>1. PICK w \in Asleep : worker' = [worker EXCEPT ![w] = "check"]
      BY <1>2, <2>2 DEF Notify, Awaken
    <3>2. Awake' = Awake \cup {w} /\ w \notin Awake
      BY <3>1 DEF Awake, Asleep, TypeOK
    <3>3. Notifying' = Notifying \ {c} /\ c \in Notifying
      BY <1>2 DEF Notify, Notifying, ClientAt, TypeOK
    <3>4. /\ Cardinality(Awake') = Cardinality(Awake) + 1
          /\ Cardinality(Notifying') = Cardinality(Notifying) - 1
      BY <3>2, <3>3, HandsAreNumbers, FS_AddElement, FS_RemoveElement
    <3>5. tasks' = tasks
      BY <1>2 DEF Notify
    <3> QED
      BY <2>2, <3>4, <3>5, HandsAreNumbers, QueueFacts DEF WakeupsCoverWork
  <2> QED
    BY <2>1, <2>2
<1>3. ASSUME NEW c \in Clients, Receive(c) \/ DropFuture(c)
      PROVE  WakeupsCoverWork'
  <2>1. Notifying' = Notifying
    BY <1>3 DEF Receive, DropFuture, Notifying, ClientAt, TypeOK
  <2>2. Asleep' = Asleep /\ Awake' = Awake /\ tasks' = tasks
    BY <1>3 DEF Receive, DropFuture, Asleep, Awake
  <2> QED
    BY <2>1, <2>2, CoverKept
<1>4. ASSUME NEW w \in Workers, Take(w) PROVE WakeupsCoverWork'
  <2>1. Asleep' = Asleep /\ Notifying' = Notifying
    BY <1>4 DEF Take, Asleep, Notifying, ClientAt, TypeOK
  <2>2. Awake' = Awake \ {w} /\ w \in Awake
    BY <1>4 DEF Take, Awake, TypeOK
  <2>3. Cardinality(Awake') = Cardinality(Awake) - 1
    BY <2>2, HandsAreNumbers, FS_RemoveElement
  <2>4. Len(tasks') = Len(tasks) - 1
    BY <1>4, TakeFacts
  <2> QED
    BY <2>1, <2>3, <2>4, HandsAreNumbers, QueueFacts DEF WakeupsCoverWork
<1>5. ASSUME NEW w \in Workers, Exit(w) \/ FindNothing(w) \/ FallAsleep(w)
      PROVE  WakeupsCoverWork'
  BY <1>5, NothingQueued DEF Exit, FindNothing, FallAsleep, Settled
<1>6. ASSUME NEW w \in Workers, Run(w) \/ SpuriousWakeup(w)
      PROVE  WakeupsCoverWork'
  <2>1. Asleep' \subseteq Asleep /\ Awake \subseteq Awake'
    BY <1>6 DEF Run, SpuriousWakeup, Awaken, Asleep, Awake, TypeOK
  <2>2. Notifying' = Notifying /\ tasks' = tasks
    BY <1>6 DEF Run, SpuriousWakeup, Notifying, ClientAt
  <2> QED
    BY <2>1, <2>2, CoverKept
<1>7. CASE SetStop \/ Join \/ UNCHANGED vars
  <2>1. UNCHANGED <<tasks, worker, client>>
    BY <1>7 DEF SetStop, Join, vars
  <2>2. Asleep' = Asleep /\ Awake' = Awake /\ Notifying' = Notifying
    BY <2>1 DEF Asleep, Awake, Notifying, ClientAt
  <2> QED
    BY <2>1, <2>2, CoverKept
<1>8. CASE NotifyAll
  <2>1. Asleep' = {}
    BY <1>8 DEF NotifyAll, Asleep
  <2> QED
    BY <2>1 DEF WakeupsCoverWork
<1> QED
  BY <1>1, <1>2, <1>3, <1>4, <1>5, <1>6, <1>7, <1>8
     DEF Next, ClientStep, Loop, Destruct, Terminated

-----------------------------------------------------------------------------
(* IndInv holds in every reachable state of the pool                        *)
(* (subprocess_transcoder.cpp:8-46 and 115-135).                            *)
THEOREM Inductive == Spec => []IndInv
<1>1. Init => IndInv
  BY InitIndInv
<1>2. IndInv /\ [Next]_vars => IndInv'
  BY TypeStep, PlacesStep, SettledStep, SleeperStep, CoverStep DEF IndInv
<1> QED
  BY <1>1, <1>2, PTL DEF Spec

(* The types hold for any number of workers, clients and calls.             *)
THEOREM TypeCorrect == Spec => []TypeOK
<1>1. IndInv => TypeOK
  BY DEF IndInv
<1> QED
  BY <1>1, Inductive, PTL

(* No wake-up is ever missed: notify_one without the mutex (line 133) is    *)
(* enough, however the calls and the workers interleave.                    *)
THEOREM NoMissedWakeup == Spec => []WakeupsCoverWork
<1>1. IndInv => WakeupsCoverWork
  BY DEF IndInv
<1> QED
  BY <1>1, Inductive, PTL

(* The destructor's notify_all reaches every worker (lines 33-39).          *)
THEOREM NoSleeperPastStop == Spec => []NobodySleepsPastStop
<1>1. IndInv => NobodySleepsPastStop
  BY DEF IndInv
<1> QED
  BY <1>1, Inductive, PTL

-----------------------------------------------------------------------------
(* The refinement.  Running is what the workers hold, Done what has a       *)
(* result.                                                                  *)
Running == {job[w] : w \in Workers} \ {NoTask}
Done == {t \in Tasks : result[t] # "pending"}

(* The instance's copy of Cardinality is Cardinality.                       *)
LEMMA SameCardinality == \A S : Execution!Cardinality(S) = Cardinality(S)
BY DEF Execution!Cardinality, Cardinality

LEMMA InitImplements == Init => Execution!Init
<1> SUFFICES ASSUME Init PROVE Execution!Init
  OBVIOUS
<1>1. Running = {} /\ Done = {}
  BY DEF Init, Running, Done
<1> QED
  BY <1>1 DEF Init, Execution!Init, Running, Done

(* Fewer tasks run than there are workers when one worker holds none.       *)
LEMMA RoomToRun ==
  ASSUME TypeOK, NEW w \in Workers, job[w] = NoTask
  PROVE  Cardinality(Running) < Cardinality(Workers)
<1> DEFINE Others == {v \in Workers \ {w} : job[v] # NoTask}
           f == [v \in Others |-> job[v]]
<1>1. f \in Surjection(Others, Running)
  BY DEF Surjection, Running
<1>2. Others \in SUBSET (Workers \ {w})
  OBVIOUS
<1>3. /\ IsFiniteSet(Workers \ {w})
      /\ Cardinality(Workers \ {w}) = Cardinality(Workers) - 1
  BY FS_RemoveElement, TranscoderAssumption
<1>4. IsFiniteSet(Others) /\ Cardinality(Others) <= Cardinality(Workers \ {w})
  BY <1>2, <1>3, FS_Subset
<1>5. IsFiniteSet(Running) /\ Cardinality(Running) <= Cardinality(Others)
  BY <1>1, <1>4, FS_Surjection
<1>6. /\ Cardinality(Workers) \in Nat
      /\ Cardinality(Others) \in Nat
      /\ Cardinality(Running) \in Nat
  BY <1>4, <1>5, FS_CardinalityType, TranscoderAssumption
<1> QED
  BY <1>3, <1>4, <1>5, <1>6

LEMMA PushAccepts ==
  ASSUME IndInv, NEW c \in Clients, Push(c)
  PROVE  Execution!Next
<1>1. PICK new \in Tasks : new = <<c, client[c].calls + 1>>
  BY PushFacts DEF IndInv
<1>2. tasks' = Append(tasks, new) /\ UNCHANGED <<job, result, stop>>
  BY <1>1 DEF Push
<1>3. client[c].calls \in Nat
  BY TranscoderAssumption DEF IndInv, TypeOK
<1>4. ~Begun(new)
  BY <1>1, <1>3 DEF Begun
<1>5. \A i \in DOMAIN tasks : tasks[i] # new
  BY <1>4, LenProperties DEF IndInv, Numbered, TypeOK
<1>6. new \notin Running
  BY <1>4, TranscoderAssumption DEF IndInv, Numbered, Running
<1>7. new \notin Done
  BY <1>4 DEF IndInv, Numbered, Done
<1>8. stop # "joined"
  BY DEF Push, Stopping
<1>9. Execution!Accept(new)
  BY <1>2, <1>5, <1>6, <1>7, <1>8
     DEF Execution!Accept, Execution!Accepted, Running, Done
<1> QED
  BY <1>9 DEF Execution!Next

LEMMA TakeStarts ==
  ASSUME IndInv, NEW w \in Workers, Take(w)
  PROVE  Execution!Next
<1>1. job[w] = NoTask
  BY DEF IndInv, TypeOK, Take
<1>2. Cardinality(Running) < Cardinality(Workers)
  BY <1>1, RoomToRun DEF IndInv
<1>3. Head(tasks) \in Tasks /\ Head(tasks) # NoTask
  BY TakeFacts, TranscoderAssumption DEF IndInv
<1>4. Running' = Running \cup {Head(tasks)}
  <2>1. /\ job'[w] = Head(tasks)
        /\ \A v \in Workers \ {w} : job'[v] = job[v]
    BY DEF Take, IndInv, TypeOK
  <2> QED
    BY <1>1, <1>3, <2>1 DEF Running
<1>5. Done' = Done /\ tasks # <<>> /\ tasks' = Tail(tasks) /\ stop' = stop
  BY DEF Take, Done
<1>6. (stop # "joined")' = (stop # "joined")
  BY <1>5
<1>7. Execution!Start
  BY <1>2, <1>4, <1>5, <1>6, SameCardinality DEF Execution!Start, Running, Done
<1> QED
  BY <1>7 DEF Execution!Next

LEMMA RunFinishes ==
  ASSUME IndInv, NEW w \in Workers, Run(w)
  PROVE  Execution!Next
<1>1. PICK t \in Tasks : t = job[w]
  BY DEF IndInv, TypeOK, Run
<1>2. t # NoTask
  BY TranscoderAssumption
<1>3. PICK o \in {"stored", "failed"} : result' = [result EXCEPT ![t] = o]
  BY <1>1 DEF Run, Outcomes
<1>4. Running' = Running \ {t}
  <2>1. /\ job'[w] = NoTask
        /\ \A v \in Workers \ {w} : job'[v] = job[v] /\ job[v] # t
    BY <1>1, <1>2 DEF Run, IndInv, TypeOK, Unique
  <2> QED
    BY <1>1, <2>1 DEF Running
<1>5. Done' = Done \cup {t}
  BY <1>3 DEF Done, IndInv, TypeOK
<1>6. Execution!Finish(t)
  BY <1>1, <1>2, <1>4, <1>5 DEF Run, Execution!Finish, Running, Done
<1> QED
  BY <1>6 DEF Execution!Next

LEMMA JoinCloses ==
  ASSUME IndInv, Join
  PROVE  Execution!Next
<1>1. tasks = <<>>
  BY TranscoderAssumption DEF Join, IndInv, Settled
<1>2. Running = {}
  BY DEF Join, IndInv, TypeOK, Running
<1>3. Execution!Close
  BY <1>1, <1>2 DEF Join, Execution!Close, Running
<1> QED
  BY <1>3 DEF Execution!Next

LEMMA StepImplements ==
  ASSUME IndInv, [Next]_vars
  PROVE  [Execution!Next]_(Execution!vars)
<1>1. ASSUME NEW c \in Clients, Push(c) PROVE Execution!Next
  BY <1>1, PushAccepts
<1>2. ASSUME NEW w \in Workers, Take(w) PROVE Execution!Next
  BY <1>2, TakeStarts
<1>3. ASSUME NEW w \in Workers, Run(w) PROVE Execution!Next
  BY <1>3, RunFinishes
<1>4. CASE Join
  BY <1>4, JoinCloses
<1>5. ASSUME UNCHANGED <<tasks, job, result>>, stop' # "joined", stop # "joined"
      PROVE  UNCHANGED Execution!vars
  BY <1>5 DEF Execution!vars
<1>6. ASSUME NEW c \in Clients, Notify(c) \/ Receive(c) \/ DropFuture(c)
      PROVE  UNCHANGED Execution!vars
  BY <1>6 DEF Notify, Receive, DropFuture, Execution!vars
<1>7. ASSUME NEW w \in Workers,
             Exit(w) \/ FindNothing(w) \/ FallAsleep(w) \/ SpuriousWakeup(w)
      PROVE  UNCHANGED Execution!vars
  BY <1>7 DEF Exit, FindNothing, FallAsleep, SpuriousWakeup, Execution!vars
<1>8. CASE SetStop \/ NotifyAll
  BY <1>5, <1>8 DEF SetStop, NotifyAll, Stopping
<1>9. CASE UNCHANGED vars
  BY <1>9 DEF vars, Execution!vars
<1> QED
  BY <1>1, <1>2, <1>3, <1>4, <1>6, <1>7, <1>8, <1>9
     DEF Next, ClientStep, Loop, Destruct, Terminated

(* Every behaviour of the pool is one of the abstract execution service.    *)
THEOREM Implements == Spec => Executes
<1>1. Init => Execution!Init
  BY InitImplements
<1>2. IndInv /\ [Next]_vars => [Execution!Next]_(Execution!vars)
  BY StepImplements
<1> QED
  BY <1>1, <1>2, Inductive, PTL DEF Spec, Executes, Execution!Spec
-----------------------------------------------------------------------------
(* No task gets lost on its way from the queue through a worker to its      *)
(* result.                                                                  *)
Somewhere(t) ==
  \/ \E i \in 1..Len(tasks) : tasks[i] = t
  \/ \E w \in Workers : job[w] = t
  \/ result[t] # "pending"

NoneLost == \A t \in Tasks : Begun(t) => Somewhere(t)

LEMMA NoneLostInPush ==
  ASSUME IndInv, NoneLost, NEW c \in Clients, Push(c)
  PROVE  NoneLost'
<1>1. PICK new \in Tasks : new = <<c, client[c].calls + 1>>
  BY PushFacts DEF IndInv
<1>2. /\ Len(tasks') = Len(tasks) + 1 /\ Len(tasks) \in Nat
      /\ \A i \in 1..Len(tasks) : tasks'[i] = tasks[i]
      /\ tasks'[Len(tasks) + 1] = new
      /\ UNCHANGED <<job, result>>
  BY <1>1, PushFacts, QueueFacts DEF IndInv, Push
<1>3. /\ client'[c].calls = client[c].calls + 1
      /\ client[c].calls \in Nat
      /\ \A d \in Clients \ {c} : client'[d] = client[d]
  BY TranscoderAssumption DEF Push, IndInv, TypeOK
<1>4. ASSUME NEW t \in Tasks, Begun(t)' PROVE Somewhere(t)'
  <2>1. PICK d \in Clients, n \in 1..MaxCalls : t = <<d, n>>
    BY DEF Tasks
  <2>2. Begun(t) \/ t = new
    <3>1. n <= client'[d].calls /\ n \in Nat
      BY <1>4, <2>1, TranscoderAssumption DEF Begun
    <3>2. CASE d = c
      <4>1. n <= client[c].calls \/ n = client[c].calls + 1
        BY <1>3, <3>1, <3>2
      <4> QED
        BY <1>1, <2>1, <3>2, <4>1 DEF Begun
    <3>3. CASE d # c
      BY <1>3, <2>1, <3>1, <3>3 DEF Begun
    <3> QED
      BY <3>2, <3>3
  <2>3. CASE t = new
    <3>1. Len(tasks) + 1 \in 1..Len(tasks')
      BY <1>2
    <3> QED
      BY <1>2, <2>3, <3>1 DEF Somewhere
  <2>4. CASE Begun(t)
    <3>1. Somewhere(t)
      BY <2>4 DEF NoneLost
    <3>2. ASSUME NEW i \in 1..Len(tasks), tasks[i] = t
          PROVE  i \in 1..Len(tasks') /\ tasks'[i] = t
      BY <1>2, <3>2
    <3> QED
      BY <1>2, <3>1, <3>2 DEF Somewhere
  <2> QED
    BY <2>2, <2>3, <2>4
<1> QED
  BY <1>4 DEF NoneLost

LEMMA NoneLostInTake ==
  ASSUME IndInv, NoneLost, NEW w \in Workers, Take(w)
  PROVE  NoneLost'
<1>1. /\ Len(tasks') = Len(tasks) - 1
      /\ \A i \in 1..Len(tasks') : tasks'[i] = tasks[i + 1]
      /\ Len(tasks) \in Nat
  BY TakeFacts, QueueFacts DEF IndInv
<1>2. /\ job'[w] = tasks[1] /\ job[w] = NoTask
      /\ \A v \in Workers \ {w} : job'[v] = job[v]
      /\ UNCHANGED <<client, result>>
  BY TakeFacts DEF IndInv, Take, TypeOK
<1>3. ASSUME NEW t \in Tasks, Somewhere(t) PROVE Somewhere(t)'
  <2>1. ASSUME NEW i \in 1..Len(tasks), tasks[i] = t PROVE Somewhere(t)'
    <3>1. CASE i = 1
      BY <1>2, <2>1, <3>1 DEF Somewhere
    <3>2. CASE i # 1
      <4>1. i - 1 \in 1..Len(tasks') /\ (i - 1) + 1 = i
        BY <1>1, <2>1, <3>2
      <4>2. tasks'[i - 1] = t
        BY <1>1, <2>1, <4>1
      <4> QED
        BY <4>1, <4>2 DEF Somewhere
    <3> QED
      BY <3>1, <3>2
  <2>2. ASSUME NEW v \in Workers, job[v] = t PROVE Somewhere(t)'
    BY <1>2, <2>2, TranscoderAssumption DEF Somewhere
  <2> QED
    BY <1>2, <1>3, <2>1, <2>2 DEF Somewhere
<1> QED
  BY <1>2, <1>3 DEF NoneLost, Begun

LEMMA NoneLostInRun ==
  ASSUME IndInv, NoneLost, NEW w \in Workers, Run(w)
  PROVE  NoneLost'
<1>1. /\ \A v \in Workers \ {w} : job'[v] = job[v]
      /\ UNCHANGED <<tasks, client>>
  BY DEF Run, IndInv, TypeOK
<1>2. PICK o \in {"stored", "failed"} : result' = [result EXCEPT ![job[w]] = o]
  BY DEF Run, Outcomes
<1>3. \A t \in Tasks : /\ result'[t] = result[t] \/ result'[t] = o
                      /\ job[w] = t => result'[t] = o
  BY <1>2 DEF IndInv, TypeOK
<1>4. ASSUME NEW t \in Tasks, Somewhere(t) PROVE Somewhere(t)'
  <2>1. CASE job[w] = t
    BY <1>2, <1>3, <2>1 DEF Somewhere
  <2>2. CASE result[t] # "pending"
    BY <1>2, <1>3, <2>2 DEF Somewhere
  <2>3. CASE (\E i \in 1..Len(tasks) : tasks[i] = t) \/ \E v \in Workers \ {w} : job[v] = t
    BY <1>1, <2>3 DEF Somewhere
  <2> QED
    BY <1>4, <2>1, <2>2, <2>3 DEF Somewhere
<1> QED
  BY <1>1, <1>4 DEF NoneLost, Begun

LEMMA NoneLostStep == IndInv /\ NoneLost /\ [Next]_vars => NoneLost'
<1> SUFFICES ASSUME IndInv, NoneLost, [Next]_vars PROVE NoneLost'
  OBVIOUS
<1>1. ASSUME UNCHANGED <<tasks, job, result>>,
             \A c \in Clients : client'[c].calls = client[c].calls
      PROVE  NoneLost'
  <2>1. \A t \in Tasks : Begun(t)' <=> Begun(t)
    BY <1>1 DEF Begun, Tasks
  <2> QED
    BY <1>1, <2>1 DEF NoneLost, Somewhere
<1>2. ASSUME NEW c \in Clients, Notify(c) \/ Receive(c) \/ DropFuture(c)
      PROVE  NoneLost'
  <2>1. \A d \in Clients : client'[d].calls = client[d].calls
    BY <1>2, CallsKept, TypeStep DEF IndInv
  <2> QED
    BY <1>1, <1>2, <2>1 DEF Notify, Receive, DropFuture
<1>3. ASSUME NEW w \in Workers,
             Exit(w) \/ FindNothing(w) \/ FallAsleep(w) \/ SpuriousWakeup(w)
      PROVE  NoneLost'
  BY <1>1, <1>3 DEF Exit, FindNothing, FallAsleep, SpuriousWakeup
<1>4. CASE Destruct \/ UNCHANGED vars
  BY <1>1, <1>4 DEF Destruct, SetStop, NotifyAll, Join, vars
<1> QED
  BY <1>2, <1>3, <1>4, NoneLostInPush, NoneLostInTake, NoneLostInRun
     DEF Next, ClientStep, Loop, Terminated

(* A task that was accepted is in the queue, with a worker, or has its      *)
(* result, whether or not its caller kept the future                        *)
(* (subprocess_transcoder.cpp:15-27, 115-135).                              *)
THEOREM NothingDropped == Spec => []NoneLost
<1>1. Init => NoneLost
  BY TranscoderAssumption DEF Init, NoneLost, Begun, Tasks
<1> QED
  BY <1>1, NoneLostStep, Inductive, PTL DEF Spec

(* When the destructor has returned, every call that was ever made has its  *)
(* result, also if it was still queued when stop_ was set (lines 22-28,     *)
(* 33-46).                                                                  *)
THEOREM DestroyedWhenDone ==
  Spec => [](stop = "joined" => \A t \in Tasks : Begun(t) => result[t] # "pending")
<1> DEFINE Gone == stop = "joined" => tasks = <<>> /\ \A w \in Workers : worker[w] = "exited"
<1>1. Init => Gone
  BY DEF Init
<1>2. IndInv /\ Gone /\ [Next]_vars => Gone'
  <2> SUFFICES ASSUME IndInv, Gone, [Next]_vars, stop' = "joined"
               PROVE  tasks' = <<>> /\ \A w \in Workers : worker'[w] = "exited"
    OBVIOUS
  <2>1. CASE stop = "joined"
    <3>1. tasks = <<>> /\ \A w \in Workers : worker[w] = "exited"
      BY <2>1
    <3>2. UNCHANGED <<tasks, worker>>
      BY <2>1, <3>1
         DEF Next, ClientStep, Push, Notify, Receive, DropFuture, Asleep, Loop, Take, Exit,
             FindNothing, FallAsleep, Run, SpuriousWakeup, Destruct, SetStop, NotifyAll, Join,
             Terminated, Stopping, vars
    <3> QED
      BY <3>1, <3>2
  <2>2. CASE stop # "joined"
    <3>1. Join
      BY <2>2
         DEF Next, ClientStep, Push, Notify, Receive, DropFuture, Loop, Take, Exit, FindNothing,
             FallAsleep, Run, SpuriousWakeup, Destruct, SetStop, NotifyAll, Terminated, vars
    <3>2. \A w \in Workers : worker'[w] = "exited" /\ worker[w] = "exited"
      BY <3>1 DEF Join
    <3>3. tasks = <<>> /\ tasks' = tasks
      BY <3>1, <3>2, TranscoderAssumption DEF Join, IndInv, Settled
    <3> QED
      BY <3>2, <3>3
  <2> QED
    BY <2>1, <2>2
<1>3. IndInv /\ Gone /\ NoneLost
        => (stop = "joined" => \A t \in Tasks : Begun(t) => result[t] # "pending")
  <2> SUFFICES ASSUME IndInv, Gone, NoneLost, stop = "joined", NEW t \in Tasks, Begun(t)
               PROVE  result[t] # "pending"
    OBVIOUS
  <2>1. Len(tasks) = 0 /\ \A w \in Workers : job[w] = NoTask
    BY QueueFacts DEF IndInv, TypeOK
  <2>2. Somewhere(t)
    BY DEF NoneLost
  <2> QED
    BY <2>1, <2>2, TranscoderAssumption DEF Somewhere
<1> HIDE DEF Gone
<1> QED
  BY <1>1, <1>2, <1>3, NothingDropped, Inductive, PTL DEF Spec
-----------------------------------------------------------------------------
(* How much a destructor that has set stop_ still waits for: each queued    *)
(* task is taken and run, each sleeper wakes, each worker leaves, and its   *)
(* own steps.                                                               *)
Left == [no |-> 3, flagged |-> 2, notified |-> 1, joined |-> 0]
Occupied == {w \in Workers : worker[w] \in {"asleep", "running"}}
Work(n, o, a, d) == 3 * n + 2 * o + a + d
WorkLeft == Work(Len(tasks), Cardinality(Occupied), Cardinality(Awake), Left[stop])

(* Nobody is inside the pool but its workers.                               *)
Quiet == Stopping => \A c \in Clients : ClientAt(c, "idle")

LEMMA QuietStep == IndInv /\ Quiet /\ [Next]_vars => Quiet'
<1> SUFFICES ASSUME IndInv, Quiet, [Next]_vars PROVE Quiet'
  OBVIOUS
<1> USE DEF Quiet, Stopping, ClientAt
<1>1. ASSUME NEW c \in Clients, ClientStep(c) PROVE Quiet'
  <2>1. ~Stopping /\ stop' = stop
    BY <1>1 DEF ClientStep, Push, Notify, Receive, DropFuture
  <2> QED
    BY <2>1
<1>2. ASSUME NEW w \in Workers, Loop(w) \/ SpuriousWakeup(w) PROVE Quiet'
  BY <1>2 DEF Loop, Take, Exit, FindNothing, FallAsleep, Run, SpuriousWakeup
<1>3. CASE Destruct \/ UNCHANGED vars
  BY <1>3 DEF Destruct, SetStop, NotifyAll, Join, vars
<1> QED
  BY <1>1, <1>2, <1>3 DEF Next, Terminated

LEMMA WorkersAreNumbers ==
  /\ IsFiniteSet(Occupied) /\ Cardinality(Occupied) \in Nat
  /\ IsFiniteSet(Awake) /\ Cardinality(Awake) \in Nat
  /\ IsFiniteSet(Asleep) /\ Cardinality(Asleep) \in Nat
  /\ IsFiniteSet(Workers) /\ Cardinality(Workers) \in Nat
<1>1. /\ Occupied \in SUBSET Workers /\ Awake \in SUBSET Workers
      /\ Asleep \in SUBSET Workers /\ {} \in SUBSET Clients
  BY DEF Occupied, Awake, Asleep
<1> QED
  BY <1>1, CountsAreNumbers, TranscoderAssumption, FS_CardinalityType

LEMMA WorkFalls ==
  ASSUME NEW n \in Nat, NEW o \in Nat, NEW a \in Nat, NEW d \in Nat
  PROVE  /\ Work(n, o, a, d) \in Nat
         /\ Work(n - 1, o + 1, a - 1, d) < Work(n, o, a, d)
         /\ Work(n, o - 1, a + 1, d) < Work(n, o, a, d)
         /\ Work(n, o, a - 1, d) < Work(n, o, a, d)
         /\ Work(n, o, a, d - 1) < Work(n, o, a, d)
         /\ \A k \in 0..o : Work(n, o - k, a + k, d - 1) < Work(n, o, a, d)
BY DEF Work

(* A worker that goes from one place to another.                            *)
LEMMA WorkerMoves ==
  ASSUME TypeOK, NEW w \in Workers, NEW place, worker' = [worker EXCEPT ![w] = place]
  PROVE  /\ worker[w] = "check" /\ place = "running" =>
              /\ Cardinality(Awake') = Cardinality(Awake) - 1
              /\ Cardinality(Occupied') = Cardinality(Occupied) + 1
         /\ worker[w] \in {"asleep", "running"} /\ place = "check" =>
              /\ Cardinality(Awake') = Cardinality(Awake) + 1
              /\ Cardinality(Occupied') = Cardinality(Occupied) - 1
         /\ worker[w] = "check" /\ place = "exited" =>
              /\ Cardinality(Awake') = Cardinality(Awake) - 1
              /\ Cardinality(Occupied') = Cardinality(Occupied)
<1>0. worker'[w] = place /\ \A v \in Workers \ {w} : worker'[v] = worker[v]
  BY DEF TypeOK
<1>1. ASSUME worker[w] = "check", place # "check"
      PROVE  Cardinality(Awake') = Cardinality(Awake) - 1
  <2>1. Awake' = Awake \ {w} /\ w \in Awake
    BY <1>0, <1>1 DEF Awake
  <2> QED
    BY <2>1, WorkersAreNumbers, FS_RemoveElement
<1>2. ASSUME worker[w] # "check", place = "check"
      PROVE  Cardinality(Awake') = Cardinality(Awake) + 1
  <2>1. Awake' = Awake \cup {w} /\ w \notin Awake
    BY <1>0, <1>2 DEF Awake
  <2> QED
    BY <2>1, WorkersAreNumbers, FS_AddElement
<1>3. ASSUME worker[w] = "check", place = "running"
      PROVE  Cardinality(Occupied') = Cardinality(Occupied) + 1
  <2>1. Occupied' = Occupied \cup {w} /\ w \notin Occupied
    BY <1>0, <1>3 DEF Occupied
  <2> QED
    BY <2>1, WorkersAreNumbers, FS_AddElement
<1>4. ASSUME worker[w] \in {"asleep", "running"}, place = "check"
      PROVE  Cardinality(Occupied') = Cardinality(Occupied) - 1
  <2>1. Occupied' = Occupied \ {w} /\ w \in Occupied
    BY <1>0, <1>4 DEF Occupied
  <2> QED
    BY <2>1, WorkersAreNumbers, FS_RemoveElement
<1>5. ASSUME worker[w] = "check", place = "exited"
      PROVE  Occupied' = Occupied
  BY <1>0, <1>5 DEF Occupied
<1> QED
  BY <1>1, <1>2, <1>3, <1>4, <1>5

LEMMA SleepersWake ==
  ASSUME TypeOK, NotifyAll
  PROVE  \E k \in 0..Cardinality(Occupied) :
           /\ Cardinality(Occupied') = Cardinality(Occupied) - k
           /\ Cardinality(Awake') = Cardinality(Awake) + k
<1>1. \A w \in Workers : worker'[w] = IF worker[w] = "asleep" THEN "check" ELSE worker[w]
  BY DEF NotifyAll, Asleep
<1>2. Asleep \in SUBSET Occupied /\ Occupied' = Occupied \ Asleep
  BY <1>1 DEF Asleep, Occupied
<1>3. Awake' = Awake \cup Asleep /\ Awake \cap Asleep = {}
  BY <1>1 DEF Asleep, Awake
<1>4. Cardinality(Occupied') = Cardinality(Occupied) - Cardinality(Asleep)
  <2>1. Occupied \cap Asleep = Asleep
    BY <1>2
  <2> QED
    BY <1>2, <2>1, WorkersAreNumbers, FS_Difference
<1>5. Cardinality(Awake') = Cardinality(Awake) + Cardinality(Asleep)
  <2>1. Cardinality(Awake \cap Asleep) = 0
    BY <1>3, FS_EmptySet
  <2>2. Cardinality(Awake \cup Asleep)
          = Cardinality(Awake) + Cardinality(Asleep) - Cardinality(Awake \cap Asleep)
    BY WorkersAreNumbers, FS_Union
  <2> QED
    BY <1>3, <2>1, <2>2, WorkersAreNumbers
<1>6. Cardinality(Asleep) \in 0..Cardinality(Occupied)
  BY <1>2, WorkersAreNumbers, FS_Subset
<1> QED
  BY <1>4, <1>5, <1>6

LEMMA DestructionAdvances ==
  ASSUME IndInv, Quiet, Stopping, Next, ~UNCHANGED vars
  PROVE  WorkLeft' < WorkLeft
<1>0. /\ TypeOK /\ Len(tasks) \in Nat
      /\ Cardinality(Occupied) \in Nat /\ Cardinality(Awake) \in Nat
      /\ Left[stop] \in Nat
  BY QueueFacts, WorkersAreNumbers DEF IndInv, TypeOK, Left
<1>1. ASSUME NEW w \in Workers, Take(w) PROVE WorkLeft' < WorkLeft
  <2>1. Len(tasks') = Len(tasks) - 1
    BY <1>0, <1>1, TakeFacts
  <2>2. /\ Cardinality(Awake') = Cardinality(Awake) - 1
        /\ Cardinality(Occupied') = Cardinality(Occupied) + 1
        /\ stop' = stop
    BY <1>0, <1>1, WorkerMoves DEF Take
  <2> QED
    BY <1>0, <2>1, <2>2, WorkFalls DEF WorkLeft
<1>2. ASSUME NEW w \in Workers, Run(w) \/ SpuriousWakeup(w) PROVE WorkLeft' < WorkLeft
  <2>1. /\ worker[w] \in {"asleep", "running"}
        /\ worker' = [worker EXCEPT ![w] = "check"]
        /\ tasks' = tasks /\ stop' = stop
    BY <1>2 DEF Run, SpuriousWakeup, Awaken
  <2>2. /\ Cardinality(Awake') = Cardinality(Awake) + 1
        /\ Cardinality(Occupied') = Cardinality(Occupied) - 1
    BY <1>0, <2>1, WorkerMoves
  <2> QED
    BY <1>0, <2>1, <2>2, WorkFalls DEF WorkLeft
<1>3. ASSUME NEW w \in Workers, Exit(w) PROVE WorkLeft' < WorkLeft
  <2>1. /\ Cardinality(Awake') = Cardinality(Awake) - 1
        /\ Cardinality(Occupied') = Cardinality(Occupied)
        /\ tasks' = tasks /\ stop' = stop
    BY <1>0, <1>3, WorkerMoves DEF Exit
  <2> QED
    BY <1>0, <2>1, WorkFalls DEF WorkLeft
<1>4. ASSUME NEW w \in Workers, FindNothing(w) \/ FallAsleep(w) PROVE FALSE
  BY <1>4 DEF FindNothing, FallAsleep, IndInv, Settled
<1>5. CASE NotifyAll
  <2>1. tasks' = tasks /\ Left[stop'] = Left[stop] - 1
    BY <1>5 DEF NotifyAll, Left
  <2> QED
    BY <1>0, <1>5, <2>1, SleepersWake, WorkFalls DEF WorkLeft
<1>6. CASE Join
  <2>1. /\ tasks' = tasks /\ Left[stop'] = Left[stop] - 1
        /\ Occupied' = Occupied /\ Awake' = Awake
    BY <1>6 DEF Join, Left, Occupied, Awake
  <2> QED
    BY <1>0, <2>1, WorkFalls DEF WorkLeft
<1>7. ASSUME NEW c \in Clients, ClientStep(c) PROVE FALSE
  BY <1>7 DEF ClientStep, Push, Notify, Receive, DropFuture, Quiet, ClientAt
<1> QED
  BY <1>1, <1>2, <1>3, <1>4, <1>5, <1>6, <1>7 DEF Next, Loop, Destruct, SetStop, Terminated

(* A destructor that has set stop_ is never stuck: it can notify or join,   *)
(* or a worker runs a task or can have the mutex, to take one or to leave;  *)
(* and every step of anybody brings it nearer to its end, so that it waits  *)
(* for nothing but a bounded number of steps, whatever is queued (lines     *)
(* 12-28, 33-46).                                                           *)
THEOREM DestructionProceeds ==
  Spec =>
    /\ [](Stopping => WorkLeft \in Nat)
    /\ [](Stopping =>
           \/ stop \in {"flagged", "joined"}
           \/ \E w \in Workers : worker[w] \in {"check", "running"} /\ MutexFree
           \/ \A w \in Workers : worker[w] = "exited")
    /\ [][Stopping => WorkLeft' < WorkLeft]_vars
<1>1. Init => Quiet
  BY DEF Init, Quiet, Stopping
<1>2. Spec => []Quiet
  BY <1>1, QuietStep, Inductive, PTL DEF Spec
<1>3. IndInv => (Stopping => WorkLeft \in Nat)
  <2> SUFFICES ASSUME IndInv PROVE WorkLeft \in Nat
    OBVIOUS
  <2>1. Len(tasks) \in Nat /\ Left[stop] \in Nat
    BY QueueFacts DEF IndInv, TypeOK, Left
  <2> QED
    BY <2>1, WorkersAreNumbers, WorkFalls DEF WorkLeft
<1>4. IndInv => (Stopping =>
           \/ stop \in {"flagged", "joined"}
           \/ \E w \in Workers : worker[w] \in {"check", "running"} /\ MutexFree
           \/ \A w \in Workers : worker[w] = "exited")
  BY DEF IndInv, TypeOK, Places, Stopping, NobodySleepsPastStop, MutexFree
<1>5. IndInv /\ Quiet /\ [Next]_vars => [Stopping => WorkLeft' < WorkLeft]_vars
  BY DestructionAdvances
<1> QED
  BY <1>2, <1>3, <1>4, <1>5, Inductive, PTL DEF Spec
=============================================================================
