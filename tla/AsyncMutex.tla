----------------------------- MODULE AsyncMutex -----------------------------
(***************************************************************************)
(* AsyncMutex and AsyncCondvar of coroutine/sync.rs, used by a program of  *)
(* producers and consumers: a producer locks, adds an item, notifies; a    *)
(* consumer locks and, while there is no item, waits on the condvar.       *)
(*                                                                         *)
(* Every action is one critical section of the code's std mutexes.  The    *)
(* scheduler (Scheduler.tla) appears as woken[t]: a wake puts the task in  *)
(* the run queue, and a task in the run queue is polled again.  A task     *)
(* that is driven by block_on has the dummy waker, so waking it does       *)
(* nothing, and it is polled again and again without being woken.          *)
(***************************************************************************)
EXTENDS Naturals, Sequences

CONSTANTS
  Producers, Consumers,
  Pollers,       \* tasks whose future is run by block_on
  Abandoners,    \* tasks that may be cancelled while they wait
  MaxWaiters     \* bound: entries in the mutex's waiter queue when a poller adds one

Tasks == Producers \cup Consumers

\* A queued condvar wait: the task, and whether its waker is stored yet.
Entries == Tasks \X BOOLEAN

ASSUME MutexTasks ==
  /\ Producers \cap Consumers = {}
  /\ Pollers \subseteq Tasks
  /\ Abandoners \subseteq Tasks
ASSUME MutexBound == MaxWaiters \in Nat

VARIABLES
  locked,     \* MutexState::locked
  waiters,    \* MutexState::waiters, the tasks whose wakers are queued
  cwaiters,   \* AsyncCondvar::waiters, as <<task, its waker is stored>>
  notified,   \* notified[t]: the AtomicBool shared by t's wait and its entry
  pc,         \* where each task is
  woken,      \* woken[t]: t is in the scheduler's queue
  items,      \* the data the mutex protects
  did,        \* did[t]: t has added or taken its item
  owes,       \* owes[t]: producer t has yet to notify
  lost        \* history: a wake or notification went to a task that no longer waits
              \* for it, or that only polls

mvars == <<locked, waiters, cwaiters, notified>>
vars == <<mvars, pc, woken, items, did, owes, lost>>

\* Tasks that hold an AsyncMutexGuard.
HoldsGuard(t) == pc[t] \in {"held", "release"}

Init ==
  /\ locked = FALSE
  /\ waiters = <<>>
  /\ cwaiters = <<>>
  /\ notified = [t \in Tasks |-> FALSE]
  /\ pc = [t \in Tasks |-> "lock"]
  /\ woken = [t \in Tasks |-> FALSE]
  /\ items = 0
  /\ did = [t \in Tasks |-> FALSE]
  /\ owes = [t \in Tasks |-> FALSE]
  /\ lost = FALSE

-----------------------------------------------------------------------------
\* Wakers: what waking the tasks in S does to the run queue.
Wake(S) == woken' = [t \in Tasks |-> woken[t] \/ (t \in S /\ t \notin Pollers)]

\* The same when t itself is polled in this step, which takes it off the queue.
Polled(t) == woken' = [woken EXCEPT ![t] = FALSE]

\* t's future is polled: for the first time, because it was woken, or by block_on.
Runs(t, first, suspended) ==
  \/ pc[t] = first
  \/ pc[t] = suspended /\ (woken[t] \/ t \in Pollers)

-----------------------------------------------------------------------------
\* AsyncMutex::lock, the poll of LockFuture.  A try_lock that succeeds does the same
\* as LockAcquire; one that fails changes nothing.

\* Mutation of LockAcquire: a woken task takes the lock without looking at it.
LockAcquireWoken(t) ==
  /\ Runs(t, "lock", "lockwait")
  /\ ~locked \/ woken[t]
  /\ locked' = TRUE
  /\ pc' = [pc EXCEPT ![t] = "held"]
  /\ Polled(t)
  /\ UNCHANGED <<waiters, cwaiters, notified, items, did, owes, lost>>

LockAcquire(t) ==
  /\ Runs(t, "lock", "lockwait")
  /\ ~locked
  /\ locked' = TRUE
  /\ pc' = [pc EXCEPT ![t] = "held"]
  /\ Polled(t)
  /\ UNCHANGED <<waiters, cwaiters, notified, items, did, owes, lost>>

\* Every poll that finds the mutex locked queues a waker, also a repeated one.
LockSuspend(t) ==
  /\ Runs(t, "lock", "lockwait")
  /\ locked
  /\ (t \in Pollers /\ pc[t] = "lockwait") => Len(waiters) < MaxWaiters
  /\ waiters' = Append(waiters, t)
  /\ pc' = [pc EXCEPT ![t] = "lockwait"]
  /\ Polled(t)
  /\ UNCHANGED <<locked, cwaiters, notified, items, did, owes, lost>>

\* Mutation of DropGuard: no waiter is woken.
DropGuardSilent ==
  /\ locked' = FALSE
  /\ UNCHANGED <<waiters, woken, lost>>

\* Drop for AsyncMutexGuard: unlock, then wake the first waiter in the queue.
DropGuard ==
  /\ locked' = FALSE
  /\ IF waiters = <<>>
     THEN UNCHANGED <<waiters, woken, lost>>
     ELSE LET w == Head(waiters) IN
          /\ waiters' = Tail(waiters)
          /\ Wake({w})
          /\ lost' = (lost \/ pc[w] # "lockwait" \/ w \in Pollers)

Unlock(t) ==
  /\ pc[t] = "held"
  /\ did[t]
  /\ DropGuard
  /\ pc' = [pc EXCEPT ![t] = "out"]
  /\ UNCHANGED <<cwaiters, notified, items, did, owes>>

-----------------------------------------------------------------------------
\* AsyncCondvar.

\* wait, first part: a fresh flag is queued before the guard is released.
WaitEnqueue(t) ==
  /\ pc[t] = "held"
  /\ t \in Consumers /\ ~did[t] /\ items = 0
  /\ cwaiters' = Append(cwaiters, <<t, FALSE>>)
  /\ notified' = [notified EXCEPT ![t] = FALSE]
  /\ pc' = [pc EXCEPT ![t] = "release"]
  /\ UNCHANGED <<locked, waiters, woken, items, did, owes, lost>>

\* wait, second part: drop(guard).
WaitRelease(t) ==
  /\ pc[t] = "release"
  /\ DropGuard
  /\ pc' = [pc EXCEPT ![t] = "condpoll"]
  /\ UNCHANGED <<cwaiters, notified, items, did, owes>>

\* Mutation of WaitPoll: the first poll does not look at the flag.
WaitPollBlind(t) ==
  /\ Runs(t, "condpoll", "condwait")
  /\ Polled(t)
  /\ IF notified[t] /\ pc[t] = "condwait"
     THEN /\ pc' = [pc EXCEPT ![t] = "lock"]
          /\ UNCHANGED cwaiters
     ELSE /\ pc' = [pc EXCEPT ![t] = "condwait"]
          /\ cwaiters' = [i \in DOMAIN cwaiters |->
                            IF cwaiters[i][1] = t THEN <<t, TRUE>> ELSE cwaiters[i]]
  /\ UNCHANGED <<locked, waiters, notified, items, did, owes, lost>>

\* Mutation of WaitPoll: a poll queues its waker again, as every poll of LockFuture does.
WaitPollPushes(t) ==
  /\ Runs(t, "condpoll", "condwait")
  /\ Polled(t)
  /\ IF notified[t]
     THEN /\ pc' = [pc EXCEPT ![t] = "lock"]
          /\ UNCHANGED cwaiters
     ELSE /\ pc' = [pc EXCEPT ![t] = "condwait"]
          /\ cwaiters' = Append(cwaiters, <<t, TRUE>>)
  /\ UNCHANGED <<locked, waiters, notified, items, did, owes, lost>>

\* wait, third part: the poll of WaitFut, which rechecks the flag under the lock
\* of the waiter queue before it stores its waker there; then mutex.lock().
WaitPoll(t) ==
  /\ Runs(t, "condpoll", "condwait")
  /\ Polled(t)
  /\ IF notified[t]
     THEN /\ pc' = [pc EXCEPT ![t] = "lock"]
          /\ UNCHANGED cwaiters
     ELSE /\ pc' = [pc EXCEPT ![t] = "condwait"]
          /\ cwaiters' = [i \in DOMAIN cwaiters |->
                            IF cwaiters[i][1] = t THEN <<t, TRUE>> ELSE cwaiters[i]]
  /\ UNCHANGED <<locked, waiters, notified, items, did, owes, lost>>

\* Mutation of NotifyFirst: the waiters are flagged and not woken.
NotifyFirstSilent(n) ==
  LET tasks == {cwaiters[i][1] : i \in 1 .. n}
  IN  /\ cwaiters' = SubSeq(cwaiters, n + 1, Len(cwaiters))
      /\ notified' = [t \in Tasks |-> notified[t] \/ t \in tasks]
      /\ UNCHANGED woken
      /\ lost' = (lost \/ \E t \in tasks : pc[t] = "gone")

\* The first n condvar waiters are taken out, flagged and, if they stored a waker,
\* woken.
NotifyFirst(n) ==
  LET hit == {cwaiters[i] : i \in 1 .. n}
      tasks == {e[1] : e \in hit}
  IN  /\ cwaiters' = SubSeq(cwaiters, n + 1, Len(cwaiters))
      /\ notified' = [t \in Tasks |-> notified[t] \/ t \in tasks]
      /\ Wake({e[1] : e \in {x \in hit : x[2]}})
      /\ lost' = (lost \/ \E t \in tasks : pc[t] = "gone")

\* notify_one or notify_all, called while holding the mutex or after releasing it.
Notify(t) ==
  /\ owes[t]
  /\ pc[t] \in {"held", "out"}
  /\ \/ /\ cwaiters = <<>>
        /\ UNCHANGED <<cwaiters, notified, woken, lost>>
     \/ cwaiters # <<>> /\ NotifyFirst(1)
     \/ cwaiters # <<>> /\ NotifyFirst(Len(cwaiters))
  /\ owes' = [owes EXCEPT ![t] = FALSE]
  /\ UNCHANGED <<locked, waiters, pc, items, did>>

-----------------------------------------------------------------------------
\* The program.

Produce(t) ==
  /\ pc[t] = "held"
  /\ t \in Producers /\ ~did[t]
  /\ items' = items + 1
  /\ did' = [did EXCEPT ![t] = TRUE]
  /\ owes' = [owes EXCEPT ![t] = TRUE]
  /\ UNCHANGED <<mvars, pc, woken, lost>>

Consume(t) ==
  /\ pc[t] = "held"
  /\ t \in Consumers /\ ~did[t] /\ items > 0
  /\ items' = items - 1
  /\ did' = [did EXCEPT ![t] = TRUE]
  /\ UNCHANGED <<mvars, pc, woken, owes, lost>>

\* A waiting task is cancelled: it is never polled again, and what it queued in
\* the mutex or the condvar stays there.
Abandon(t) ==
  /\ t \in Abandoners
  /\ pc[t] \in {"lockwait", "condwait"}
  /\ lost' = (lost \/ woken[t] \/ notified[t])
  /\ pc' = [pc EXCEPT ![t] = "gone"]
  /\ Polled(t)
  /\ UNCHANGED <<mvars, items, did, owes>>

Finished(t) == pc[t] = "gone" \/ (pc[t] = "out" /\ ~owes[t])

-----------------------------------------------------------------------------
Step(t) ==
  \/ LockAcquire(t) \/ LockSuspend(t) \/ Unlock(t)
  \/ WaitEnqueue(t) \/ WaitRelease(t) \/ WaitPoll(t) \/ Notify(t)
  \/ Produce(t) \/ Consume(t)

Next == \E t \in Tasks : Step(t) \/ Abandon(t)

Spec == Init /\ [][Next]_vars

\* A task that can run is run: workers keep taking tasks off the queue, and
\* block_on keeps polling.  A waiting poller's step is enabled whenever the mutex
\* is free, which other tasks may make it only for a while, hence SF.
Fairness == \A t \in Tasks : SF_vars(Step(t))

FairSpec == Spec /\ Fairness

-----------------------------------------------------------------------------
\* Properties.

\* Types: what MutexState and AsyncCondvar queue are tasks of the program, also after
\* cancelled waits, and the protected count never goes below zero.
TypeOK ==
  /\ locked \in BOOLEAN
  /\ waiters \in Seq(Tasks)
  /\ cwaiters \in Seq(Entries)
  /\ notified \in [Tasks -> BOOLEAN]
  /\ pc \in [Tasks -> {"lock", "lockwait", "held", "release", "condpoll",
                       "condwait", "out", "gone"}]
  /\ woken \in [Tasks -> BOOLEAN]
  /\ items \in Nat
  /\ did \in [Tasks -> BOOLEAN]
  /\ owes \in [Tasks -> BOOLEAN]
  /\ lost \in BOOLEAN

\* Two guards never exist at the same time, and the flag is set exactly while one
\* does: what makes the UnsafeCell behind AsyncMutexGuard sound, across barging
\* lockers, condvar waits, cancelled waiters and pollers.
MutualExclusion ==
  /\ \A t, u \in Tasks : HoldsGuard(t) /\ HoldsGuard(u) => t = u
  /\ locked <=> \E t \in Tasks : HoldsGuard(t)

\* While the mutex is free and tasks are queued for it, one of those that wait has
\* been woken, so that the next release is not needed: unless a wake was lost.
NoStrandedLocker ==
  ~lost /\ ~locked /\ (\E t \in Tasks : pc[t] = "lockwait" /\ t \notin Pollers) =>
    \E t \in Tasks : pc[t] = "lockwait" /\ (woken[t] \/ t \in Pollers)

\* A notification between queueing and the first poll of WaitFut is not missed: a
\* waiting task is still queued with its waker stored, or it was notified and will
\* be polled.
NoMissedNotify == \A t \in Tasks : pc[t] = "condwait" =>
  \/ \E i \in DOMAIN cwaiters : cwaiters[i] = <<t, TRUE>>
  \/ notified[t] /\ (woken[t] \/ t \in Pollers)

\* A wait has one entry in the condvar's queue, however often it is polled, and none once
\* it was notified: of n calls of notify_one none is spent on a wait that is already
\* over, and each takes a wait of its own.
OneEntryPerWait ==
  /\ \A i, j \in DOMAIN cwaiters : cwaiters[i][1] = cwaiters[j][1] => i = j
  /\ \A i \in DOMAIN cwaiters : ~notified[cwaiters[i][1]]

\* Every task gets the lock, every consumer its item, and no notify_one is wasted:
\* unless a wake went to a task that could not use it.
AllFinish == <>(lost \/ \A t \in Tasks : Finished(t))

\* "Asynchronously acquires the lock, suspending until available."
SuspendsUntilAvailable == \A t \in Tasks :
  pc[t] = "lockwait" ~> (pc[t] # "lockwait" \/ locked)
=============================================================================
