----------------------------- MODULE TaskPool ------------------------------
(***************************************************************************)
(* What the thread pool of EpollServer.h promises its user, without        *)
(* threads, locks or condition variables: tasks are numbered in the order  *)
(* in which they are submitted, start in that order, run once each, and a  *)
(* pool that is closed terminates only after it has run all of them.       *)
(* ThreadPool implements this specification; EpollServer uses the pool at  *)
(* this level of detail.                                                   *)
(***************************************************************************)
EXTENDS Naturals, Sequences

CONSTANT MaxTasks       \* bound on the number of tasks ever submitted

VARIABLES submitted,    \* number of tasks submitted so far
          pending,      \* the submitted tasks that have not started, in order
          active,       \* the tasks that are running
          finished,     \* the tasks that have returned
          phase         \* "open", "closed" (no more submissions), "terminated"

pvars == <<submitted, pending, active, finished, phase>>

PInit == /\ submitted = 0
         /\ pending = <<>>
         /\ active = {}
         /\ finished = {}
         /\ phase = "open"

(* The user hands over one more task. *)
Submit == /\ phase = "open"
          /\ submitted < MaxTasks
          /\ submitted' = submitted + 1
          /\ pending' = Append(pending, submitted + 1)
          /\ UNCHANGED <<active, finished, phase>>

(* The oldest waiting task starts to run. *)
StartTask == /\ pending # <<>>
             /\ phase # "terminated"
             /\ active' = active \union {Head(pending)}
             /\ pending' = Tail(pending)
             /\ UNCHANGED <<submitted, finished, phase>>

(* A running task returns. *)
FinishTask == \E t \in active : /\ active' = active \ {t}
                                /\ finished' = finished \union {t}
                                /\ UNCHANGED <<submitted, pending, phase>>

Close == /\ phase = "open"
         /\ phase' = "closed"
         /\ UNCHANGED <<submitted, pending, active, finished>>

(* A closed pool terminates when every submitted task has returned. *)
Terminate == /\ phase = "closed"
             /\ finished = 1..submitted
             /\ phase' = "terminated"
             /\ UNCHANGED <<submitted, pending, active, finished>>

PNext == Submit \/ StartTask \/ FinishTask \/ Close \/ Terminate

PSafe == PInit /\ [][PNext]_pvars

PSpec == PSafe /\ WF_pvars(StartTask) /\ WF_pvars(FinishTask) /\ WF_pvars(Terminate)
=============================================================================
