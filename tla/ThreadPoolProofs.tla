-------------------------- MODULE ThreadPoolProofs --------------------------
(***************************************************************************)
(* Proofs about ThreadPool for any number of workers, producers and tasks. *)
(* The inductive invariant adds to the invariants of ThreadPool what ties  *)
(* the program counters of the workers, the producers and the destructor   *)
(* to the shared state (Shape).                                            *)
(***************************************************************************)
EXTENDS ThreadPool, TLAPS

(* A worker holds a task exactly while it runs one; running_ is cleared    *)
(* exactly by the destructor, which starts after the last notify_one; a    *)
(* worker that has returned saw a stopped pool with an empty deque.        *)
Shape == /\ \A w \in Workers : cur[w] # NoTask <=> pc[w] = "running"
         /\ Len(tasks) <= submitted
         /\ running <=> dpc = "alive"
         /\ dpc # "alive" => \A p \in Producers : ppc[p] = "idle"
         /\ \A w \in Workers : pc[w] = "exited" => ~running /\ tasks = <<>>
         /\ dpc = "destroyed" => \A w \in Workers : pc[w] = "exited"

IndInv == TypeOK /\ Shape /\ Fifo /\ ExactlyOnce /\ NoLostWakeup

USE DEF NoTask

(* The constructor establishes the inductive invariant. *)
LEMMA InitIndInv == Init => IndInv
  BY ThreadPoolAssumption
     DEF Init, IndInv, TypeOK, Shape, Fifo, ExactlyOnce, NoLostWakeup, Taken, Waiting

(* Every step of a producer, a worker or the destructor preserves the type *)
(* invariant and Shape.                                                    *)
LEMMA ShapeStep == IndInv /\ [Next]_vars => TypeOK' /\ Shape'
<1> SUFFICES ASSUME IndInv, [Next]_vars PROVE TypeOK' /\ Shape'
  OBVIOUS
<1> USE ThreadPoolAssumption DEF IndInv, TypeOK, Shape
<1>1. ASSUME NEW p \in Producers, Enqueue(p) PROVE TypeOK' /\ Shape'
  BY <1>1 DEF Enqueue
<1>2. ASSUME NEW p \in Producers, NotifyOne(p) PROVE TypeOK' /\ Shape'
  BY <1>2 DEF NotifyOne, Waiting
<1>3. ASSUME NEW w \in Workers, WorkerWait(w) PROVE TypeOK' /\ Shape'
  BY <1>3 DEF WorkerWait
<1>4. ASSUME NEW w \in Workers, WorkerTake(w) PROVE TypeOK' /\ Shape'
  BY <1>4 DEF WorkerTake
<1>5. ASSUME NEW w \in Workers, WorkerExit(w) PROVE TypeOK' /\ Shape'
  BY <1>5 DEF WorkerExit
<1>6. ASSUME NEW w \in Workers, WorkerRun(w) PROVE TypeOK' /\ Shape'
  <2>1. cur[w] \in 1..MaxTasks
    BY <1>6 DEF WorkerRun
  <2>2. finished' \subseteq 1..MaxTasks
    BY <1>6, <2>1 DEF WorkerRun
  <2>3. /\ cur' \in [Workers -> 0..MaxTasks]
        /\ pc' \in [Workers -> {"ready", "waiting", "running", "exited"}]
    BY <1>6 DEF WorkerRun
  <2>4. TypeOK'
    BY <1>6, <2>2, <2>3 DEF WorkerRun
  <2>5. Shape'
    BY <1>6 DEF WorkerRun
  <2> QED
    BY <2>4, <2>5
<1>7. ASSUME NEW w \in Workers, SpuriousWakeup(w) PROVE TypeOK' /\ Shape'
  BY <1>7 DEF SpuriousWakeup
<1>8. CASE DtorStop
  BY <1>8 DEF DtorStop
<1>9. CASE DtorNotifyAll
  BY <1>9 DEF DtorNotifyAll
<1>10. CASE DtorJoin
  BY <1>10 DEF DtorJoin
<1>11. CASE UNCHANGED vars
  BY <1>11 DEF vars
<1> QED
  BY <1>1, <1>2, <1>3, <1>4, <1>5, <1>6, <1>7, <1>8, <1>9, <1>10, <1>11
     DEF Next, WorkerStep, Destructor, Done

(* The deque stays the gap-free run of the most recent tasks. *)
LEMMA FifoStep == IndInv /\ [Next]_vars => Fifo'
<1> SUFFICES ASSUME IndInv, [Next]_vars PROVE Fifo'
  OBVIOUS
<1> USE DEF IndInv, TypeOK, Fifo, Taken
<1>1. ASSUME NEW p \in Producers, Enqueue(p) PROVE Fifo'
  <2>1. /\ Len(tasks') = Len(tasks) + 1
        /\ \A k \in 1..Len(tasks) : tasks'[k] = tasks[k]
        /\ tasks'[Len(tasks) + 1] = submitted + 1
    BY <1>1 DEF Enqueue
  <2> QED
    BY <1>1, <2>1 DEF Enqueue
<1>2. ASSUME NEW w \in Workers, WorkerTake(w) PROVE Fifo'
  <2>1. /\ Len(tasks') = Len(tasks) - 1
        /\ \A k \in 1..Len(tasks') : tasks'[k] = tasks[k + 1]
    BY <1>2 DEF WorkerTake
  <2> QED
    BY <1>2, <2>1 DEF WorkerTake
<1>3. CASE UNCHANGED <<tasks, submitted>>
  BY <1>3
<1> QED
  BY <1>1, <1>2, <1>3
     DEF Next, WorkerStep, Destructor, Done, vars, NotifyOne, WorkerWait, WorkerExit,
         WorkerRun, SpuriousWakeup, DtorStop, DtorNotifyAll, DtorJoin

(* A step that takes a task hands the next number to one worker, a step    *)
(* that returns from a task moves it to finished, no other step touches    *)
(* tasks that have left the deque.                                         *)
LEMMA ExactlyOnceStep == IndInv /\ [Next]_vars => ExactlyOnce'
<1> SUFFICES ASSUME IndInv, [Next]_vars PROVE ExactlyOnce'
  OBVIOUS
<1> USE DEF IndInv, TypeOK, ExactlyOnce, Taken
<1>1. ASSUME NEW p \in Producers, Enqueue(p) PROVE ExactlyOnce'
  <2>1. Taken' = Taken /\ UNCHANGED <<cur, finished>>
    BY <1>1 DEF Enqueue
  <2> QED
    BY <2>1
<1>2. ASSUME NEW w \in Workers, WorkerTake(w) PROVE ExactlyOnce'
  <2>1. Len(tasks) \in Nat \ {0} /\ Head(tasks) = tasks[1] /\ Len(Tail(tasks)) = Len(tasks) - 1
    BY <1>2 DEF WorkerTake
  <2>2. tasks[1] = Taken + 1
    BY <2>1 DEF Fifo
  <2>3. Taken \in Nat /\ Taken' = Taken + 1
    BY <1>2, <2>1 DEF WorkerTake, Shape
  <2>4. cur' = [cur EXCEPT ![w] = Taken + 1] /\ UNCHANGED finished
    BY <1>2, <2>1, <2>2 DEF WorkerTake
  <2>5. cur[w] = 0
    BY <1>2 DEF WorkerTake, Shape
  <2> HIDE DEF Taken
  <2> QED
    BY <2>3, <2>4, <2>5
<1>3. ASSUME NEW w \in Workers, WorkerRun(w) PROVE ExactlyOnce'
  <2>1. Taken' = Taken /\ Taken \in Nat /\ cur[w] # 0
    BY <1>3 DEF WorkerRun, Shape
  <2> HIDE DEF Taken
  <2> QED
    BY <1>3, <2>1 DEF WorkerRun
<1>4. CASE UNCHANGED <<tasks, submitted, cur, finished>>
  BY <1>4
<1> QED
  BY <1>1, <1>2, <1>3, <1>4
     DEF Next, WorkerStep, Destructor, Done, vars, NotifyOne, WorkerWait, WorkerExit,
         SpuriousWakeup, DtorStop, DtorNotifyAll, DtorJoin

(* No step of any thread loses a wake-up. *)
LEMMA NoLostWakeupStep == IndInv /\ [Next]_vars => NoLostWakeup'
<1> SUFFICES ASSUME IndInv, [Next]_vars PROVE NoLostWakeup'
  OBVIOUS
<1> USE ThreadPoolAssumption DEF IndInv, TypeOK, Shape, NoLostWakeup, Waiting
<1>1. ASSUME NEW p \in Producers, Enqueue(p) PROVE NoLostWakeup'
  BY <1>1 DEF Enqueue
<1>2. ASSUME NEW p \in Producers, NotifyOne(p) PROVE NoLostWakeup'
  <2>1. running /\ dpc = "alive"
    BY <1>2 DEF NotifyOne
  <2>2. \E w \in Workers : pc'[w] \in {"ready", "running"}
    <3>1. CASE Waiting = {}
      BY <1>2, <2>1, <3>1 DEF NotifyOne
    <3>2. CASE Waiting # {}
      BY <1>2, <3>2 DEF NotifyOne
    <3> QED
      BY <3>1, <3>2
  <2> QED
    BY <1>2, <2>1, <2>2 DEF NotifyOne
<1>3. ASSUME NEW w \in Workers, WorkerWait(w) PROVE NoLostWakeup'
  BY <1>3 DEF WorkerWait
<1>4. ASSUME NEW w \in Workers, WorkerTake(w) PROVE NoLostWakeup'
  BY <1>4 DEF WorkerTake
<1>5. ASSUME NEW w \in Workers, WorkerExit(w) PROVE NoLostWakeup'
  BY <1>5 DEF WorkerExit
<1>6. ASSUME NEW w \in Workers, WorkerRun(w) PROVE NoLostWakeup'
  BY <1>6 DEF WorkerRun
<1>7. ASSUME NEW w \in Workers, SpuriousWakeup(w) PROVE NoLostWakeup'
  BY <1>7 DEF SpuriousWakeup
<1>8. CASE DtorStop
  BY <1>8 DEF DtorStop
<1>9. CASE DtorNotifyAll
  BY <1>9 DEF DtorNotifyAll
<1>10. CASE DtorJoin
  BY <1>10 DEF DtorJoin
<1>11. CASE UNCHANGED vars
  BY <1>11 DEF vars
<1> QED
  BY <1>1, <1>2, <1>3, <1>4, <1>5, <1>6, <1>7, <1>8, <1>9, <1>10, <1>11
     DEF Next, WorkerStep, Destructor, Done

(* The inductive invariant holds in every reachable state. *)
THEOREM Invariance == SafeSpec => []IndInv
<1>1. IndInv /\ [Next]_vars => IndInv'
  BY ShapeStep, FifoStep, ExactlyOnceStep, NoLostWakeupStep DEF IndInv
<1> QED
  BY InitIndInv, <1>1, PTL DEF SafeSpec

(* The members of the pool always have their types. *)
THEOREM TypeCorrect == SafeSpec => []TypeOK
<1>1. IndInv => TypeOK
  BY DEF IndInv
<1> QED
  BY Invariance, <1>1, PTL

(* No enqueued task is lost or run twice, and tasks start in the order of  *)
(* their enqueue, for any number of threads.                               *)
THEOREM TasksRunOnceInOrder == SafeSpec => [](Fifo /\ ExactlyOnce)
<1>1. IndInv => Fifo /\ ExactlyOnce
  BY DEF IndInv
<1> QED
  BY Invariance, <1>1, PTL

(* No wake-up of the condition variable is ever lost. *)
THEOREM WakeupsArrive == SafeSpec => []NoLostWakeup
<1>1. IndInv => NoLostWakeup
  BY DEF IndInv
<1> QED
  BY Invariance, <1>1, PTL

(* In a pool whose workers have all returned, every enqueued task is done. *)
LEMMA AllExitedDrained ==
    IndInv /\ (\A w \in Workers : pc[w] = "exited") => tasks = <<>> /\ finished = 1..submitted
<1> SUFFICES ASSUME IndInv, \A w \in Workers : pc[w] = "exited"
             PROVE  tasks = <<>> /\ finished = 1..submitted
  OBVIOUS
<1>1. tasks = <<>>
  BY ThreadPoolAssumption DEF IndInv, Shape
<1>2. Taken = submitted
  BY <1>1 DEF IndInv, TypeOK, Taken
<1>3. \A w \in Workers : cur[w] = 0
  BY DEF IndInv, Shape, TypeOK
<1>4. \A i \in 1..submitted : i \in finished
  BY <1>2, <1>3 DEF IndInv, ExactlyOnce, TypeOK
<1> QED
  BY <1>1, <1>2, <1>4 DEF IndInv, ExactlyOnce

(* The destructor returns only when every enqueued task has run. *)
THEOREM DestructorDrains == SafeSpec => []DrainedAtDestruction
<1>1. IndInv => DrainedAtDestruction
  BY AllExitedDrained DEF IndInv, Shape, DrainedAtDestruction
<1> QED
  BY Invariance, <1>1, PTL

-----------------------------------------------------------------------------
(* The mapped initial state is the initial state of TaskPool. *)
LEMMA RefinesInit == Init => TP!PInit
  BY DEF Init, TP!PInit, Held, Phase

(* Every step of the pool is, for its user, a step of TaskPool or nothing. *)
LEMMA RefinesStep == IndInv /\ [Next]_vars => [TP!PNext]_(TP!pvars)
<1> SUFFICES ASSUME IndInv, [Next]_vars PROVE [TP!PNext]_(TP!pvars)
  OBVIOUS
<1> USE DEF IndInv, TypeOK, Shape
<1>1. ASSUME NEW p \in Producers, Enqueue(p) PROVE TP!Submit
  BY <1>1 DEF Enqueue, TP!Submit, Phase, Held
<1>2. ASSUME NEW p \in Producers, NotifyOne(p) PROVE UNCHANGED TP!pvars
  <2>1. \A w \in Workers : pc'[w] = "running" <=> pc[w] = "running"
    BY <1>2 DEF NotifyOne, Waiting
  <2>2. Held' = Held
    BY <1>2, <2>1 DEF NotifyOne, Held
  <2> QED
    BY <1>2, <2>2 DEF NotifyOne, TP!pvars, Phase
<1>3. ASSUME NEW w \in Workers, WorkerWait(w) \/ WorkerExit(w) \/ SpuriousWakeup(w)
      PROVE UNCHANGED TP!pvars
  <2>1. \A v \in Workers : pc'[v] = "running" <=> pc[v] = "running"
    BY <1>3 DEF WorkerWait, WorkerExit, SpuriousWakeup
  <2>2. Held' = Held
    BY <1>3, <2>1 DEF WorkerWait, WorkerExit, SpuriousWakeup, Held
  <2> QED
    BY <1>3, <2>2 DEF WorkerWait, WorkerExit, SpuriousWakeup, TP!pvars, Phase
<1>4. ASSUME NEW w \in Workers, WorkerTake(w) PROVE TP!StartTask
  <2>1. dpc # "destroyed"
    BY <1>4 DEF WorkerTake
  <2>2. Held' = Held \union {Head(tasks)}
    BY <1>4 DEF WorkerTake, Held
  <2> QED
    BY <1>4, <2>1, <2>2 DEF WorkerTake, TP!StartTask, Phase
<1>5. ASSUME NEW w \in Workers, WorkerRun(w) PROVE TP!FinishTask
  <2>1. cur[w] \in Held /\ cur[w] # 0
    BY <1>5 DEF WorkerRun, Held
  <2>2. \A v \in Workers : v # w => cur[v] # cur[w]
    BY <2>1 DEF ExactlyOnce
  <2>3. Held' = Held \ {cur[w]}
    BY <1>5, <2>2 DEF WorkerRun, Held
  <2> QED
    BY <1>5, <2>1, <2>3 DEF WorkerRun, TP!FinishTask, Phase
<1>6. CASE DtorStop
  BY <1>6 DEF DtorStop, TP!PNext, TP!Close, Phase, Held
<1>7. CASE DtorNotifyAll
  <2>1. \A w \in Workers : pc'[w] = "running" <=> pc[w] = "running"
    BY <1>7 DEF DtorNotifyAll
  <2>2. Held' = Held
    BY <1>7, <2>1 DEF DtorNotifyAll, Held
  <2> QED
    BY <1>7, <2>2 DEF DtorNotifyAll, TP!pvars, Phase
<1>8. CASE DtorJoin
  <2>1. finished = 1..submitted
    BY <1>8, AllExitedDrained DEF DtorJoin
  <2> QED
    BY <1>8, <2>1 DEF DtorJoin, TP!PNext, TP!Terminate, Phase, Held
<1>9. CASE UNCHANGED vars
  BY <1>9 DEF vars, TP!pvars, Phase, Held
<1> QED
  BY <1>1, <1>2, <1>3, <1>4, <1>5, <1>6, <1>7, <1>8, <1>9
     DEF Next, WorkerStep, Destructor, Done, TP!PNext

(* The thread pool implements TaskPool (its safety part), for any number   *)
(* of threads.                                                             *)
THEOREM Refinement == SafeSpec => TP!PSafe
<1>1. IndInv /\ [Next]_vars => [TP!PNext]_(TP!pvars)
  BY RefinesStep
<1> QED
  BY RefinesInit, <1>1, Invariance, PTL DEF SafeSpec, TP!PSafe
=============================================================================
