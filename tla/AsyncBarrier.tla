---------------------------- MODULE AsyncBarrier ----------------------------
(***************************************************************************)
(* AsyncBarrier of coroutine/sync.rs.  Every task calls wait() up to       *)
(* BarRounds times; with more tasks than the threshold, a task can be      *)
(* released long after the generation it belongs to.                       *)
(***************************************************************************)
EXTENDS AsyncTasks

CONSTANTS
  Threshold,
  BarRounds    \* bound: calls of wait() per task

ASSUME BarBounds == Threshold \in Nat \ {0} /\ BarRounds \in Nat \ {0}

VARIABLES
  count, generation, barWaiters,  \* BarrierState
  myGen,                          \* myGen[t]: BarrierFuture::generation of t's last call
  joined,                         \* history: joined[g], the tasks registered in generation g
  leaders,                        \* history: leaders[g], those that wait() returned true to
  released                        \* released[t]: the calls that returned to t

barvars == <<count, generation, barWaiters, myGen, joined, leaders, released>>

BarGens == 0 .. (Cardinality(Tasks) * BarRounds)

BarInit ==
  /\ count = 0
  /\ generation = 0
  /\ barWaiters = <<>>
  /\ myGen = [t \in Tasks |-> 0]
  /\ joined = [g \in BarGens |-> {}]
  /\ leaders = [g \in BarGens |-> {}]
  /\ released = [t \in Tasks |-> 0]

\* wait() has returned to t, which calls it again while it has rounds left.
AfterWait(t) == IF released[t] + 1 < BarRounds THEN "start" ELSE "done"

Join(t) ==
  /\ pc[t] = "start"
  /\ myGen' = [myGen EXCEPT ![t] = generation]
  /\ joined' = [joined EXCEPT ![generation] = @ \cup {t}]

\* First poll of BarrierFuture by the task that fills its generation: everybody in it is
\* woken, and left of them stay counted.
Release(t, full, left) ==
  /\ Join(t)
  /\ full
  /\ count' = left
  /\ generation' = generation + 1
  /\ barWaiters' = <<>>
  /\ leaders' = [leaders EXCEPT ![generation] = @ \cup {t}]
  /\ released' = [released EXCEPT ![t] = @ + 1]
  /\ Goto(t, AfterWait(t), ToSet(barWaiters))

\* Mutation of BarLead: the count is not reset for the next generation.
BarLeadKeepsCount(t) == Release(t, count + 1 >= Threshold, count + 1)

\* Mutation of BarLead: the next generation begins with one task too many.
BarLeadOneLess(t) == Release(t, count + 1 = Threshold, 1)

BarLead(t) == Release(t, count + 1 = Threshold, 0)

\* First poll of BarrierFuture by a task that has to wait.
BarRegister(t) ==
  /\ Join(t)
  /\ count + 1 # Threshold
  /\ count' = count + 1
  /\ barWaiters' = Append(barWaiters, t)
  /\ Goto(t, "wait", {})
  /\ UNCHANGED <<generation, leaders, released>>

\* Every later poll: released once the generation has moved on; otherwise Pending,
\* and no waker is stored again.
BarRepoll(t) ==
  /\ Waiting(t) /\ woken[t]
  /\ \/ /\ generation # myGen[t]
        /\ released' = [released EXCEPT ![t] = @ + 1]
        /\ Goto(t, AfterWait(t), {})
     \/ /\ generation = myGen[t]
        /\ Goto(t, "wait", {})
        /\ UNCHANGED released
  /\ UNCHANGED <<count, generation, barWaiters, myGen, joined, leaders>>

BarStep(t) == BarLead(t) \/ BarRegister(t) \/ BarRepoll(t)

BarNext ==
  /\ subject = "barrier"
  /\ \E t \in Tasks : BarStep(t) \/ ((Cancel(t) \/ Nudge(t)) /\ UNCHANGED barvars)

-----------------------------------------------------------------------------
BarTypeOK ==
  /\ count \in 0 .. (Threshold - 1)
  /\ generation \in BarGens
  /\ barWaiters \in Seq(Tasks)
  /\ myGen \in [Tasks -> BarGens]

\* wait() returns to a task only after the threshold of different tasks, cancelled
\* ones included, arrived in its generation, and returned true to exactly one of
\* them.
BarTogether == subject = "barrier" =>
  /\ \A g \in BarGens : g < generation =>
       Cardinality(joined[g]) = Threshold /\ Cardinality(leaders[g] \cap joined[g]) = 1
  /\ \A t \in Tasks : released[t] > 0 /\ ~Waiting(t) /\ pc[t] # "gone" =>
       myGen[t] < generation
  /\ Cardinality(joined[generation]) = count /\ leaders[generation] = {}

\* No task is left behind by its generation: one that waits in an earlier generation
\* was woken, and one of this generation has its waker stored, also after polls that
\* did not release it.
BarNoneLeft == subject = "barrier" => \A t \in Tasks : Waiting(t) =>
  IF myGen[t] = generation THEN t \in ToSet(barWaiters) ELSE woken[t]
=============================================================================
