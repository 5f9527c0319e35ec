----------------------------- MODULE AsyncTasks -----------------------------
(***************************************************************************)
(* The tasks that wait on the primitives of coroutine/sync.rs, channel.rs  *)
(* and io.rs, as those primitives see them: a task is polled when it       *)
(* starts and whenever it was woken (Scheduler.tla says how), a poll runs  *)
(* one critical section of the primitive's std mutex, and a poll that      *)
(* returns Pending has left the task's waker somewhere in the primitive.   *)
(***************************************************************************)
EXTENDS Naturals, Sequences, FiniteSets, FiniteSetsExt, SequencesExt

CONSTANTS
  Tasks,
  Abandoners,  \* tasks that may be cancelled while they wait
  Joiners    \* tasks that wait in a join next to another future

ASSUME TaskSets ==
  /\ IsFiniteSet(Tasks)
  /\ Abandoners \subseteq Tasks
  /\ Joiners \subseteq Tasks

VARIABLES
  subject, \* the primitive the tasks use
  pc,      \* where each task is
  woken,   \* woken[t]: t is in the scheduler's queue
  nudged,  \* the tasks whose other future has woken them
  lost     \* history: a wake went to a task that did not wait, or a stored waker
           \* was overwritten

tvars == <<subject, pc, woken, nudged, lost>>

TasksInit(S) ==
  /\ subject \in S
  /\ pc = [t \in Tasks |-> "start"]
  /\ woken = [t \in Tasks |-> FALSE]
  /\ nudged = {}
  /\ lost = FALSE

\* What there is to wait on.
Subjects == {"rwlock", "semaphore", "barrier", "oneshot", "pipe", "group"}

\* t's future is polled: for the first time, or because it was woken.
Runs(t) == pc[t] = "start" \/ (pc[t] = "wait" /\ woken[t])

Waiting(t) == pc[t] = "wait"
Holders(S) == {t \in S : pc[t] = "held"}

\* t goes on to l and wakes the tasks in S.  A task polled now is off the queue.
Goto(t, l, S) ==
  /\ pc' = [pc EXCEPT ![t] = l]
  /\ woken' = [u \in Tasks |-> (woken[u] \/ u \in S) /\ u # t]
  /\ lost' = (lost \/ \E u \in S : ~Waiting(u))
  /\ UNCHANGED <<subject, nudged>>

\* A waiting task is cancelled: it is never polled again, and the waker it left in
\* the primitive stays there.
Cancel(t) ==
  /\ t \in Abandoners
  /\ Waiting(t)
  /\ pc' = [pc EXCEPT ![t] = "gone"]
  /\ woken' = [woken EXCEPT ![t] = FALSE]
  /\ lost' = (lost \/ woken[t])
  /\ UNCHANGED <<subject, nudged>>

\* The other future of the join wakes the task: a poll of JoinFut polls both.
Nudge(t) ==
  /\ t \in Joiners \ nudged
  /\ Waiting(t)
  /\ nudged' = nudged \cup {t}
  /\ woken' = [woken EXCEPT ![t] = TRUE]
  /\ UNCHANGED <<subject, pc, lost>>

TasksTypeOK ==
  /\ subject \in Subjects
  /\ pc \in [Tasks -> {"start", "wait", "held", "done", "gone"}]
  /\ woken \in [Tasks -> BOOLEAN]
  /\ nudged \subseteq Tasks
  /\ lost \in BOOLEAN
=============================================================================
