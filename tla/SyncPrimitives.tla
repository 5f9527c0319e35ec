--------------------------- MODULE SyncPrimitives ---------------------------
(***************************************************************************)
(* The waiting primitives of the coroutine runtime under one model: the    *)
(* tasks use one of them, the subject, and leave the others alone.  The    *)
(* primitives share no state, so nothing is lost by checking them apart.   *)
(***************************************************************************)
EXTENDS AsyncRwLock, AsyncSemaphore, AsyncBarrier, OneshotChannel, AsyncPipe, TaskGroup

vars == <<tvars, rwvars, semvars, barvars, onevars, pipevars, groupvars>>

Init ==
  /\ TasksInit(Subjects)
  /\ RwInit /\ SemInit /\ BarInit /\ OneInit /\ PipeInit /\ GroupInit
  /\ subject # "semaphore" => \A t \in Tasks : need[t] = 0

NotRw == <<semvars, barvars, onevars, pipevars, groupvars>>
NotSem == <<rwvars, barvars, onevars, pipevars, groupvars>>
NotBar == <<rwvars, semvars, onevars, pipevars, groupvars>>
NotOne == <<rwvars, semvars, barvars, pipevars, groupvars>>
NotPipe == <<rwvars, semvars, barvars, onevars, groupvars>>
NotGroup == <<rwvars, semvars, barvars, onevars, pipevars>>

Next ==
  \/ RwNext /\ UNCHANGED NotRw
  \/ SemNext /\ UNCHANGED NotSem
  \/ BarNext /\ UNCHANGED NotBar
  \/ OneNext /\ UNCHANGED NotOne
  \/ PipeNext /\ UNCHANGED NotPipe
  \/ GroupNext /\ UNCHANGED NotGroup

Spec == Init /\ [][Next]_vars

\* A step of the task t as the subject has it: a poll, or the drop of a guard.
Step(t) ==
  \/ subject = "rwlock" /\ RwStep(t) /\ UNCHANGED NotRw
  \/ subject = "semaphore" /\ SemStep(t) /\ UNCHANGED NotSem
  \/ subject = "barrier" /\ BarStep(t) /\ UNCHANGED NotBar
  \/ subject = "oneshot" /\ OneStep(t) /\ UNCHANGED NotOne
  \/ subject = "pipe" /\ PipeStep(t) /\ UNCHANGED NotPipe

\* A task that can run is run and drops its guard, and somebody closes the pipe.
Fairness ==
  /\ \A t \in Tasks : WF_vars(Step(t))
  /\ WF_vars(subject = "pipe" /\ PipeClose /\ UNCHANGED NotPipe)

FairSpec == Spec /\ Fairness

-----------------------------------------------------------------------------
\* Types of the state of every primitive.
TypeOK ==
  TasksTypeOK /\ RwTypeOK /\ SemTypeOK /\ BarTypeOK /\ OneTypeOK /\ PipeTypeOK /\ GroupTypeOK

\* The guards of the lock and of the semaphore are accounted for: a write guard excludes
\* every other guard, the counters count the guards that live, and no permit is lost or
\* made up, whoever barges in between a wake and its poll or is cancelled.
GuardsCounted == RwExclusion /\ SemConserved

\* Nobody sleeps next to what it waits for: the parts for the lock, the semaphore, the
\* barrier and the pipe, across barging, cancelled waiters and spurious polls.
NoneStranded == RwNoStranded /\ SemNoIdlePermits /\ BarNoneLeft /\ PipeNoStall

\* What is sent through a oneshot channel or a pipe arrives, once and in order.
Delivers == OneDelivers /\ PipeStream

\* A cancelled waiter, a lost race for the lock and a spurious poll leave nobody
\* behind: everyone gets through a lock, a pipe and a oneshot channel unless a wake
\* was lost, everyone through a semaphore if no request exceeds its permits, and a
\* barrier keeps fewer tasks than its threshold.
AllServed == <>[](
  LET through(S) == \A t \in S : pc[t] \in {"done", "gone"} IN
  CASE subject = "rwlock" -> lost \/ through(Tasks)
    [] subject = "semaphore" -> (\A t \in Tasks : need[t] <= Permits) => through(Tasks)
    [] subject = "barrier" -> Cardinality({t \in Tasks : Waiting(t)}) < Threshold
    [] subject = "oneshot" -> through({OneSender, OneReceiver})
    [] subject = "pipe" -> lost \/ through(PipeReaders \cup PipeWriters)
    [] OTHER -> TRUE)
=============================================================================
