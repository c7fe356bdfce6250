---------------------------- MODULE ThreadPool -----------------------------
(***************************************************************************)
(* class ThreadPool of src/include/EpollServer.h: worker threads that take *)
(* tasks from a deque guarded by a mutex and a condition variable, and a   *)
(* destructor that drains the deque and joins the workers.                 *)
(*                                                                         *)
(* A block that runs under mutex_ is one step: nothing else can see or     *)
(* change the guarded members while it runs.  The notify_one and           *)
(* notify_all calls come after the unlock, so they are steps of their own  *)
(* and anything may happen in between.  A worker in condition_.wait is in  *)
(* pc "waiting"; a notification, or a spurious wake-up, moves it to        *)
(* "ready", where it competes for the mutex again and repeats the test.    *)
(***************************************************************************)
EXTENDS Naturals, Sequences, FiniteSets

CONSTANTS Workers,      \* the threads of workers_
          Producers,    \* the threads that call enqueue
          MaxTasks      \* bound on the number of tasks ever enqueued

ASSUME ThreadPoolAssumption == /\ IsFiniteSet(Workers) /\ Workers # {}
                               /\ MaxTasks \in Nat

VARIABLES tasks,        \* tasks_: task numbers, in the order of their enqueue
          running,      \* running_
          pc,           \* pc[w]: where worker w stands in its loop
          cur,          \* cur[w]: the task worker w holds, 0 when none
          ppc,          \* ppc[p]: "idle" or, between unlock and notify_one, "notify"
          dpc,          \* progress of ~ThreadPool
          submitted,    \* number of tasks enqueued so far; numbers the tasks
          finished      \* the tasks whose task() has returned

vars == <<tasks, running, pc, cur, ppc, dpc, submitted, finished>>

NoTask == 0

Waiting == {w \in Workers : pc[w] = "waiting"}

Init == /\ tasks = <<>>
        /\ running = TRUE
        /\ pc = [w \in Workers |-> "ready"]
        /\ cur = [w \in Workers |-> NoTask]
        /\ ppc = [p \in Producers |-> "idle"]
        /\ dpc = "alive"
        /\ submitted = 0
        /\ finished = {}

-----------------------------------------------------------------------------
(* enqueue, the locked block.  The pool's user keeps the C++ rule that a   *)
(* member function is not called on an object whose destructor has begun:  *)
(* EpollServer::stop joins the only enqueuing thread first.                *)
Enqueue(p) == /\ ppc[p] = "idle"
              /\ dpc = "alive"
              /\ submitted < MaxTasks
              /\ submitted' = submitted + 1
              /\ tasks' = Append(tasks, submitted + 1)
              /\ ppc' = [ppc EXCEPT ![p] = "notify"]
              /\ UNCHANGED <<running, pc, cur, dpc, finished>>

(* Mutant: enqueue without its notify_one. *)
NotifyNobody(p) == /\ ppc[p] = "notify"
                   /\ ppc' = [ppc EXCEPT ![p] = "idle"]
                   /\ UNCHANGED <<tasks, running, pc, cur, dpc, submitted, finished>>

(* condition_.notify_one(): wakes one waiter, or nobody when none waits. *)
NotifyOne(p) == /\ ppc[p] = "notify"
                /\ ppc' = [ppc EXCEPT ![p] = "idle"]
                /\ \/ Waiting = {} /\ pc' = pc
                   \/ \E w \in Waiting : pc' = [pc EXCEPT ![w] = "ready"]
                /\ UNCHANGED <<tasks, running, cur, dpc, submitted, finished>>

(* The wait predicate is false: the worker releases the mutex and sleeps. *)
WorkerWait(w) == /\ pc[w] = "ready"
                 /\ running /\ tasks = <<>>
                 /\ pc' = [pc EXCEPT ![w] = "waiting"]
                 /\ UNCHANGED <<tasks, running, cur, ppc, dpc, submitted, finished>>

(* A return of condition_.wait's inner wait that nobody asked for. *)
SpuriousWakeup(w) == /\ pc[w] = "waiting"
                     /\ pc' = [pc EXCEPT ![w] = "ready"]
                     /\ UNCHANGED <<tasks, running, cur, ppc, dpc, submitted, finished>>

(* Mutant: the task is copied and left in the deque. *)
WorkerTakeNoPop(w) == /\ pc[w] = "ready"
                      /\ tasks # <<>>
                      /\ cur' = [cur EXCEPT ![w] = Head(tasks)]
                      /\ pc' = [pc EXCEPT ![w] = "running"]
                      /\ UNCHANGED <<tasks, running, ppc, dpc, submitted, finished>>

(* The predicate holds and there is a task: move it out and unlock. *)
WorkerTake(w) == /\ pc[w] = "ready"
                 /\ tasks # <<>>
                 /\ cur' = [cur EXCEPT ![w] = Head(tasks)]
                 /\ tasks' = Tail(tasks)
                 /\ pc' = [pc EXCEPT ![w] = "running"]
                 /\ UNCHANGED <<running, ppc, dpc, submitted, finished>>

(* Mutant: a stopped pool's worker leaves without looking at the deque. *)
WorkerExitEarly(w) == /\ pc[w] = "ready"
                      /\ ~running
                      /\ pc' = [pc EXCEPT ![w] = "exited"]
                      /\ UNCHANGED <<tasks, running, cur, ppc, dpc, submitted, finished>>

(* The predicate holds because of running_ alone: the thread returns. *)
WorkerExit(w) == /\ pc[w] = "ready"
                 /\ ~running /\ tasks = <<>>
                 /\ pc' = [pc EXCEPT ![w] = "exited"]
                 /\ UNCHANGED <<tasks, running, cur, ppc, dpc, submitted, finished>>

(* task() returns and the loop starts over. *)
WorkerRun(w) == /\ pc[w] = "running"
                /\ finished' = finished \union {cur[w]}
                /\ cur' = [cur EXCEPT ![w] = NoTask]
                /\ pc' = [pc EXCEPT ![w] = "ready"]
                /\ UNCHANGED <<tasks, running, ppc, dpc, submitted>>

-----------------------------------------------------------------------------
(* ~ThreadPool: the locked block, then notify_all, then the joins. *)
DtorStop == /\ dpc = "alive"
            /\ \A p \in Producers : ppc[p] = "idle"
            /\ running' = FALSE
            /\ dpc' = "notify"
            /\ UNCHANGED <<tasks, pc, cur, ppc, submitted, finished>>

(* Mutant: notify_one where notify_all is needed. *)
DtorNotifyOne == /\ dpc = "notify"
                 /\ \/ Waiting = {} /\ pc' = pc
                    \/ \E w \in Waiting : pc' = [pc EXCEPT ![w] = "ready"]
                 /\ dpc' = "join"
                 /\ UNCHANGED <<tasks, running, cur, ppc, submitted, finished>>

DtorNotifyAll == /\ dpc = "notify"
                 /\ pc' = [w \in Workers |-> IF pc[w] = "waiting" THEN "ready" ELSE pc[w]]
                 /\ dpc' = "join"
                 /\ UNCHANGED <<tasks, running, cur, ppc, submitted, finished>>

(* Mutant: the workers are detached instead of joined. *)
DtorDetach == /\ dpc = "join"
              /\ dpc' = "destroyed"
              /\ UNCHANGED <<tasks, running, pc, cur, ppc, submitted, finished>>

DtorJoin == /\ dpc = "join"
            /\ \A w \in Workers : pc[w] = "exited"
            /\ dpc' = "destroyed"
            /\ UNCHANGED <<tasks, running, pc, cur, ppc, submitted, finished>>

(* The destroyed pool: the only state in which nothing happens any more. *)
Done == dpc = "destroyed" /\ UNCHANGED vars

WorkerStep(w) == WorkerWait(w) \/ WorkerTake(w) \/ WorkerExit(w) \/ WorkerRun(w)
Destructor == DtorStop \/ DtorNotifyAll \/ DtorJoin

Next == \/ \E p \in Producers : Enqueue(p) \/ NotifyOne(p)
        \/ \E w \in Workers : WorkerStep(w) \/ SpuriousWakeup(w)
        \/ Destructor
        \/ Done

SafeSpec == Init /\ [][Next]_vars

(***************************************************************************)
(* Every thread that can take a step eventually does (the operating        *)
(* system's scheduler and its mutex; the tasks themselves return).  Nobody *)
(* is obliged to call enqueue, and no wake-up happens by itself.  The      *)
(* owner destroys the pool at some time or never.                          *)
(***************************************************************************)
Spec == /\ SafeSpec
        /\ \A w \in Workers : WF_vars(WorkerStep(w))
        /\ \A p \in Producers : WF_vars(NotifyOne(p))
        /\ WF_vars(DtorNotifyAll) /\ WF_vars(DtorJoin)
-----------------------------------------------------------------------------
(* Type invariant. *)
TypeOK == /\ tasks \in Seq(1..MaxTasks)
          /\ running \in BOOLEAN
          /\ pc \in [Workers -> {"ready", "waiting", "running", "exited"}]
          /\ cur \in [Workers -> 0..MaxTasks]
          /\ ppc \in [Producers -> {"idle", "notify"}]
          /\ dpc \in {"alive", "notify", "join", "destroyed"}
          /\ submitted \in 0..MaxTasks
          /\ finished \subseteq 1..MaxTasks

(* The number of tasks that workers have taken from the deque. *)
Taken == submitted - Len(tasks)

(* Tasks leave the deque in the order of their enqueue: what is left is    *)
(* always the gap-free run of the most recent tasks.                       *)
Fifo == \A k \in 1..Len(tasks) : tasks[k] = Taken + k

(* A task that left the deque is held by exactly one worker or has         *)
(* returned, never both: nothing that is enqueued is lost or run twice.    *)
ExactlyOnce ==
    /\ \A w \in Workers : cur[w] # NoTask => /\ cur[w] \in 1..Taken
                                             /\ cur[w] \notin finished
    /\ \A v, w \in Workers : cur[v] = cur[w] /\ cur[v] # NoTask => v = w
    /\ finished \subseteq 1..Taken
    /\ \A i \in 1..Taken : i \in finished \/ \E w \in Workers : cur[w] = i

(* No lost wake-up: while tasks wait in the deque, some worker is awake or *)
(* some producer still owes its notify_one; and once the destructor has    *)
(* called notify_all no worker sleeps.                                     *)
NoLostWakeup ==
    /\ tasks # <<>> => \/ \E w \in Workers : pc[w] \in {"ready", "running"}
                       \/ \E p \in Producers : ppc[p] = "notify"
    /\ dpc \in {"join", "destroyed"} => Waiting = {}

(* The destructor returns only after every enqueued task has run, also the *)
(* ones that were still in the deque when it was called.                   *)
DrainedAtDestruction ==
    dpc = "destroyed" => tasks = <<>> /\ finished = 1..submitted

(* A destructor that has begun returns. *)
DestructorReturns == dpc = "notify" ~> dpc = "destroyed"

(* The pool as its user sees it. *)
Phase == CASE dpc = "alive" -> "open"
           [] dpc \in {"notify", "join"} -> "closed"
           [] dpc = "destroyed" -> "terminated"

Held == {cur[w] : w \in {v \in Workers : pc[v] = "running"}}

TP == INSTANCE TaskPool WITH pending <- tasks, active <- Held, phase <- Phase

(* The pool implements TaskPool, its fairness included. *)
ImplementsTaskPool == TP!PSpec
=============================================================================
