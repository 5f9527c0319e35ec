-------------------------- MODULE AsyncMutexProofs --------------------------
(***************************************************************************)
(* Mutual exclusion of AsyncMutex, that a free mutex has woken a locker,   *)
(* and that AsyncCondvar misses no notification, for any number of tasks,  *)
(* pollers and cancelled waiters.                                          *)
(***************************************************************************)
EXTENDS AsyncMutex, SequenceTheorems, TLAPS

\* MutualExclusion is inductive once the types are known.
IInv == TypeOK /\ MutualExclusion

\* The initial states satisfy the invariant.
LEMMA InitInv == Init => IInv
<1> SUFFICES ASSUME Init PROVE IInv
  OBVIOUS
<1>1. TypeOK
  <2>1. waiters \in Seq(Tasks) /\ cwaiters \in Seq(Entries)
    BY DEF Init
  <2>2. pc \in [Tasks -> {"lock", "lockwait", "held", "release", "condpoll",
                          "condwait", "out", "gone"}]
    BY DEF Init
  <2> QED BY <2>1, <2>2 DEF Init, TypeOK
<1>2. MutualExclusion
  BY DEF Init, MutualExclusion, HoldsGuard
<1> QED BY <1>1, <1>2 DEF IInv

\* Dropping a guard clears the flag and takes at most one entry off the queue.
LEMMA DropGuardEffect ==
  ASSUME TypeOK, DropGuard
  PROVE  /\ locked' = FALSE
         /\ waiters' \in Seq(Tasks)
         /\ woken' \in [Tasks -> BOOLEAN]
         /\ lost' \in BOOLEAN
<1>1. CASE waiters = <<>>
  BY <1>1 DEF TypeOK, DropGuard
<1>2. CASE waiters # <<>>
  <2>1. waiters' = Tail(waiters)
    BY <1>2 DEF DropGuard
  <2>2. woken' \in [Tasks -> BOOLEAN] /\ lost' \in BOOLEAN
    BY <1>2 DEF TypeOK, DropGuard, Wake
  <2> QED BY <1>2, <2>1, <2>2 DEF TypeOK, DropGuard
<1> QED BY <1>1, <1>2

\* Types are preserved.
LEMMA TypeInv == TypeOK /\ [Next]_vars => TypeOK'
<1> SUFFICES ASSUME TypeOK, [Next]_vars PROVE TypeOK'
  OBVIOUS
<1> USE DEF mvars
<1>1. ASSUME NEW t \in Tasks, LockAcquire(t) PROVE TypeOK'
  BY <1>1 DEF TypeOK, LockAcquire, Polled
<1>2. ASSUME NEW t \in Tasks, LockSuspend(t) PROVE TypeOK'
  BY <1>2 DEF TypeOK, LockSuspend, Polled
<1>3. ASSUME NEW t \in Tasks, Unlock(t) PROVE TypeOK'
  BY <1>3, DropGuardEffect DEF TypeOK, Unlock
<1>4. ASSUME NEW t \in Tasks, WaitEnqueue(t) PROVE TypeOK'
  <2>1. <<t, FALSE>> \in Entries
    BY DEF Entries
  <2> QED BY <1>4, <2>1 DEF TypeOK, WaitEnqueue
<1>5. ASSUME NEW t \in Tasks, WaitRelease(t) PROVE TypeOK'
  BY <1>5, DropGuardEffect DEF TypeOK, WaitRelease
<1>6. ASSUME NEW t \in Tasks, WaitPoll(t) PROVE TypeOK'
  <2>1. cwaiters' \in Seq(Entries)
    <3>1. CASE notified[t]
      BY <1>6, <3>1 DEF TypeOK, WaitPoll
    <3>2. CASE ~notified[t]
      <4>1. <<t, TRUE>> \in Entries
        BY DEF Entries
      <4>2. Len(cwaiters) \in Nat /\ cwaiters \in [1 .. Len(cwaiters) -> Entries]
        BY DEF TypeOK
      <4>3. cwaiters' = [i \in 1 .. Len(cwaiters) |->
                           IF cwaiters[i][1] = t THEN <<t, TRUE>> ELSE cwaiters[i]]
        BY <1>6, <3>2, <4>2 DEF WaitPoll
      <4>4. cwaiters' \in [1 .. Len(cwaiters) -> Entries]
        BY <4>1, <4>2, <4>3
      <4> QED BY <4>2, <4>4, SeqDef
    <3> QED BY <3>1, <3>2
  <2> QED BY <1>6, <2>1 DEF TypeOK, WaitPoll, Polled
<1>7. ASSUME NEW t \in Tasks, Notify(t) PROVE TypeOK'
  <2>1. ASSUME NEW n \in 1 .. Len(cwaiters), NotifyFirst(n)
        PROVE  /\ cwaiters' \in Seq(Entries)
               /\ notified' \in [Tasks -> BOOLEAN]
               /\ woken' \in [Tasks -> BOOLEAN]
               /\ lost' \in BOOLEAN
    BY <2>1 DEF TypeOK, NotifyFirst, Wake
  <2>2. cwaiters # <<>> => 1 \in 1 .. Len(cwaiters) /\ Len(cwaiters) \in 1 .. Len(cwaiters)
    BY DEF TypeOK
  <2> QED BY <1>7, <2>1, <2>2 DEF TypeOK, Notify
<1>8. ASSUME NEW t \in Tasks, Produce(t) PROVE TypeOK'
  BY <1>8 DEF TypeOK, Produce
<1>9. ASSUME NEW t \in Tasks, Consume(t) PROVE TypeOK'
  BY <1>9 DEF TypeOK, Consume
<1>10. ASSUME NEW t \in Tasks, Abandon(t) PROVE TypeOK'
  BY <1>10 DEF TypeOK, Abandon, Polled
<1>11. CASE UNCHANGED vars
  BY <1>11 DEF TypeOK, vars
<1> QED BY <1>1, <1>2, <1>3, <1>4, <1>5, <1>6, <1>7, <1>8, <1>9, <1>10, <1>11
        DEF Next, Step

\* A step that changes neither the flag nor who holds a guard keeps exclusion.
LEMMA GuardsKept ==
  ASSUME MutualExclusion, locked' = locked,
         \A u \in Tasks : HoldsGuard(u)' <=> HoldsGuard(u)
  PROVE  MutualExclusion'
BY DEF MutualExclusion

\* Exclusion is preserved.
LEMMA ExclusionInv == IInv /\ [Next]_vars => MutualExclusion'
<1> SUFFICES ASSUME IInv, [Next]_vars PROVE MutualExclusion'
  OBVIOUS
<1> USE DEF IInv
<1>acq. ASSUME NEW t \in Tasks, LockAcquire(t) PROVE MutualExclusion'
  <2>1. \A u \in Tasks : ~HoldsGuard(u)
    BY <1>acq DEF LockAcquire, MutualExclusion
  <2>2. \A u \in Tasks : HoldsGuard(u)' <=> u = t
    BY <1>acq, <2>1 DEF LockAcquire, HoldsGuard, TypeOK
  <2> QED BY <1>acq, <2>2 DEF LockAcquire, MutualExclusion
<1>rel. ASSUME NEW t \in Tasks, Unlock(t) \/ WaitRelease(t) PROVE MutualExclusion'
  <2>1. HoldsGuard(t) /\ ~HoldsGuard(t)' /\ \A u \in Tasks : u # t => pc'[u] = pc[u]
    BY <1>rel DEF Unlock, WaitRelease, HoldsGuard, TypeOK
  <2>2. \A u \in Tasks : ~HoldsGuard(u)'
    BY <2>1 DEF MutualExclusion, HoldsGuard
  <2>3. locked' = FALSE
    BY <1>rel, DropGuardEffect DEF Unlock, WaitRelease
  <2> QED BY <2>2, <2>3 DEF MutualExclusion
<1>1. ASSUME NEW t \in Tasks, LockSuspend(t) PROVE MutualExclusion'
  BY <1>1, GuardsKept DEF LockSuspend, Runs, HoldsGuard, TypeOK
<1>2. ASSUME NEW t \in Tasks, WaitEnqueue(t) PROVE MutualExclusion'
  BY <1>2, GuardsKept DEF WaitEnqueue, HoldsGuard, TypeOK
<1>3. ASSUME NEW t \in Tasks, WaitPoll(t) PROVE MutualExclusion'
  BY <1>3, GuardsKept DEF WaitPoll, Runs, HoldsGuard, TypeOK
<1>4. ASSUME NEW t \in Tasks, Abandon(t) PROVE MutualExclusion'
  BY <1>4, GuardsKept DEF Abandon, HoldsGuard, TypeOK, mvars
<1>5. ASSUME NEW t \in Tasks, Notify(t) \/ Produce(t) \/ Consume(t)
      PROVE  MutualExclusion'
  BY <1>5, GuardsKept DEF Notify, Produce, Consume, HoldsGuard, mvars
<1>6. CASE UNCHANGED vars
  BY <1>6, GuardsKept DEF vars, mvars, HoldsGuard
<1> QED BY <1>acq, <1>rel, <1>1, <1>2, <1>3, <1>4, <1>5, <1>6 DEF Next, Step

\* The mutex keeps its inductive invariant.
THEOREM Invariance == Spec => []IInv
<1>1. IInv /\ [Next]_vars => IInv'
  BY TypeInv, ExclusionInv DEF IInv
<1> QED BY <1>1, InitInv, PTL DEF Spec

\* The queues of the mutex and of the condvar hold tasks only, and the count the mutex
\* protects never goes below zero, for any number of producers and consumers.
THEOREM TypeCorrect == Spec => []TypeOK
BY Invariance, PTL DEF IInv

\* At most one AsyncMutexGuard exists, and MutexState::locked says so, for any
\* number of tasks, whether they barge, wait on the condvar, poll from block_on
\* or are cancelled while they wait.
THEOREM Exclusion == Spec => []MutualExclusion
BY Invariance, PTL DEF IInv

-----------------------------------------------------------------------------
\* Nobody waits in vain: lockers.

\* t has an entry in the mutex's queue.
Queued(t) == \E i \in DOMAIN waiters : waiters[i] = t

\* The strengthening of NoStrandedLocker: a locker that waits is queued or woken, and
\* while the mutex is free one of those that wait is woken, not merely polled.
LockersInv ==
  /\ \A t \in Tasks \ Pollers : pc[t] = "lockwait" => Queued(t) \/ woken[t]
  /\ ~lost /\ ~locked /\ (\E t \in Tasks \ Pollers : pc[t] = "lockwait") =>
       \E t \in Tasks : pc[t] = "lockwait" /\ woken[t]

\* A step that leaves the mutex's queue alone, lets nobody start to wait and takes no
\* waiting locker off the run queue.
LEMMA LockersKept ==
  ASSUME LockersInv, waiters' = waiters, locked' = locked, lost => lost',
         \A t \in Tasks : pc'[t] = "lockwait" => pc[t] = "lockwait" /\ (woken[t] => woken'[t]),
         ~lost' => \A t \in Tasks : pc[t] = "lockwait" /\ woken[t] => pc'[t] = "lockwait"
  PROVE  LockersInv'
<1>1. \A t \in Tasks \ Pollers : pc'[t] = "lockwait" => Queued(t)' \/ woken'[t]
  BY DEF LockersInv, Queued
<1>2. ASSUME ~lost', ~locked', NEW t \in Tasks \ Pollers, pc'[t] = "lockwait"
      PROVE  \E u \in Tasks : pc'[u] = "lockwait" /\ woken'[u]
  <2>1. PICK u \in Tasks : pc[u] = "lockwait" /\ woken[u]
    BY <1>2 DEF LockersInv
  <2> QED BY <1>2, <2>1
<1> QED BY <1>1, <1>2 DEF LockersInv

\* Releasing the guard hands the free mutex to a waiting locker, or nobody is queued.
LEMMA DropLockers ==
  ASSUME TypeOK, LockersInv, NEW t \in Tasks, pc[t] # "lockwait", DropGuard,
         \A u \in Tasks : u # t => pc'[u] = pc[u], pc'[t] # "lockwait"
  PROVE  LockersInv'
<1>1. CASE waiters = <<>>
  <2>1. UNCHANGED <<waiters, woken, lost>>
    BY <1>1 DEF DropGuard
  <2>2. \A u \in Tasks : ~Queued(u)
    BY <1>1 DEF Queued
  <2>3. \A u \in Tasks \ Pollers : pc'[u] = "lockwait" => pc[u] = "lockwait" /\ woken'[u]
    BY <2>1, <2>2 DEF LockersInv
  <2> QED BY <2>3 DEF LockersInv
<1>2. CASE waiters # <<>>
  <2>1. PICK w \in Tasks : w = Head(waiters)
    BY <1>2 DEF TypeOK
  <2>2. /\ waiters' = Tail(waiters)
        /\ woken' = [u \in Tasks |-> woken[u] \/ (u = w /\ u \notin Pollers)]
        /\ lost' = (lost \/ pc[w] # "lockwait" \/ w \in Pollers)
    BY <1>2, <2>1 DEF DropGuard, Wake
  <2>3. ASSUME NEW u \in Tasks \ Pollers, pc'[u] = "lockwait" PROVE Queued(u)' \/ woken'[u]
    <3>1. pc[u] = "lockwait"
      BY <2>3
    <3>2. CASE woken[u]
      BY <2>2, <3>2
    <3>3. ASSUME NEW i \in DOMAIN waiters, waiters[i] = u, i # 1 PROVE Queued(u)'
      <4>1. /\ i - 1 \in DOMAIN Tail(waiters) /\ Tail(waiters)[i - 1] = waiters[i]
        BY <1>2, <3>3 DEF TypeOK
      <4> QED BY <2>2, <3>3, <4>1 DEF Queued
    <3>4. CASE waiters[1] = u
      <4>1. u = w /\ u \notin Pollers /\ u \in Tasks
        BY <1>2, <2>1, <3>4 DEF TypeOK
      <4> QED BY <2>2, <4>1
    <3> QED BY <3>1, <3>2, <3>3, <3>4 DEF LockersInv, Queued
  <2>4. ~lost' => pc'[w] = "lockwait" /\ woken'[w]
    BY <2>2 DEF TypeOK
  <2> QED BY <2>3, <2>4 DEF LockersInv
<1> QED BY <1>1, <1>2

\* Every step keeps the waiting lockers watched.
LEMMA LockersNext == IInv /\ LockersInv /\ [Next]_vars => LockersInv'
<1> SUFFICES ASSUME TypeOK, LockersInv, [Next]_vars PROVE LockersInv'
  BY DEF IInv
<1>1. ASSUME NEW t \in Tasks, LockAcquire(t) PROVE LockersInv'
  <2>1. /\ locked' = TRUE /\ waiters' = waiters /\ pc'[t] = "held"
        /\ \A u \in Tasks : u # t => pc'[u] = pc[u] /\ woken'[u] = woken[u]
    BY <1>1 DEF LockAcquire, Polled, TypeOK
  <2> QED BY <2>1 DEF LockersInv, Queued
<1>2. ASSUME NEW t \in Tasks, LockSuspend(t) PROVE LockersInv'
  <2>1. /\ locked' = locked /\ locked /\ waiters' = Append(waiters, t)
        /\ \A u \in Tasks : u # t => pc'[u] = pc[u] /\ woken'[u] = woken[u]
    BY <1>2 DEF LockSuspend, Polled, TypeOK
  <2>2. /\ DOMAIN waiters' = 1 .. Len(waiters) + 1 /\ DOMAIN waiters = 1 .. Len(waiters)
        /\ Len(waiters) \in Nat /\ waiters'[Len(waiters) + 1] = t
        /\ \A i \in DOMAIN waiters : waiters'[i] = waiters[i]
    BY <2>1 DEF TypeOK
  <2>3. Queued(t)' /\ \A u \in Tasks : Queued(u) => Queued(u)'
    BY <2>2 DEF Queued
  <2> QED BY <2>1, <2>3 DEF LockersInv
<1>3. ASSUME NEW t \in Tasks, Unlock(t) \/ WaitRelease(t) PROVE LockersInv'
  <2>1. /\ pc[t] # "lockwait" /\ DropGuard /\ pc'[t] # "lockwait"
        /\ \A u \in Tasks : u # t => pc'[u] = pc[u]
    BY <1>3 DEF Unlock, WaitRelease, TypeOK
  <2> QED BY <2>1, DropLockers
<1>4. ASSUME NEW t \in Tasks, WaitEnqueue(t) \/ Produce(t) \/ Consume(t) PROVE LockersInv'
  <2>1. /\ UNCHANGED <<waiters, lost, locked, woken>>
        /\ \A u \in Tasks : pc'[u] = "lockwait" <=> pc[u] = "lockwait"
    BY <1>4 DEF WaitEnqueue, Produce, Consume, TypeOK, mvars
  <2> QED BY <2>1, LockersKept
<1>5. ASSUME NEW t \in Tasks, WaitPoll(t) PROVE LockersInv'
  <2>1. /\ UNCHANGED <<waiters, lost, locked>> /\ pc[t] # "lockwait" /\ pc'[t] # "lockwait"
        /\ \A u \in Tasks : u # t => pc'[u] = pc[u] /\ woken'[u] = woken[u]
    BY <1>5 DEF WaitPoll, Polled, Runs, TypeOK
  <2> QED BY <2>1, LockersKept
<1>6. ASSUME NEW t \in Tasks, Notify(t) PROVE LockersInv'
  <2>1. UNCHANGED <<waiters, locked, pc>>
    BY <1>6 DEF Notify
  <2>3. lost => lost'
    <3>1. ASSUME NEW n, NotifyFirst(n) PROVE lost => lost'
      BY <3>1, Zenon DEF NotifyFirst
    <3> QED BY <1>6, <3>1 DEF Notify
  <2>2. \A u \in Tasks : woken[u] => woken'[u]
    BY <1>6 DEF Notify, NotifyFirst, Wake, TypeOK
  <2> QED BY <2>1, <2>2, <2>3, LockersKept
<1>7. ASSUME NEW t \in Tasks, Abandon(t) PROVE LockersInv'
  <2>1. /\ UNCHANGED <<waiters, locked>> /\ (lost => lost') /\ pc'[t] # "lockwait"
        /\ \A u \in Tasks : u # t => pc'[u] = pc[u] /\ woken'[u] = woken[u]
        /\ ~lost' => ~woken[t]
    BY <1>7 DEF Abandon, Polled, TypeOK, mvars
  <2> QED BY <2>1, LockersKept
<1>8. CASE UNCHANGED vars
  BY <1>8 DEF LockersInv, Queued, vars, mvars
<1> QED BY <1>1, <1>2, <1>3, <1>4, <1>5, <1>6, <1>7, <1>8 DEF Next, Step

\* As long as no wake is lost, a free mutex has woken one of the tasks that wait for it.
THEOREM LockersWoken == Spec => []NoStrandedLocker
<1>1. Init => LockersInv
  BY DEF Init, LockersInv
<1>2. LockersInv => NoStrandedLocker
  BY DEF LockersInv, NoStrandedLocker
<1> QED BY <1>1, <1>2, LockersNext, Invariance, PTL DEF Spec

-----------------------------------------------------------------------------
\* Nobody waits in vain: condvar waits.

\* t has an entry in the condvar's queue; it has one with its waker stored.
Enlisted(t) == \E i \in DOMAIN cwaiters : cwaiters[i][1] = t
Stored(t) == \E i \in DOMAIN cwaiters : cwaiters[i][1] = t /\ cwaiters[i][2]

\* NoMissedNotify needs what holds between the queueing and the first poll.
NotifyInv ==
  /\ \A t \in Tasks : pc[t] = "condwait" =>
       Stored(t) \/ (notified[t] /\ (woken[t] \/ t \in Pollers))
  /\ \A t \in Tasks : pc[t] \in {"release", "condpoll"} => Enlisted(t) \/ notified[t]

\* What an entry of the condvar's queue is made of.
LEMMA EntryParts ==
  ASSUME NEW t \in Tasks, NEW b \in BOOLEAN
  PROVE  <<t, b>> \in Entries /\ <<t, b>>[1] = t /\ <<t, b>>[2] = b
BY DEF Entries

\* An entry is known by its parts.
LEMMA EntryOf ==
  ASSUME NEW e \in Entries, NEW t \in Tasks, e[1] = t, e[2]
  PROVE  e = <<t, TRUE>>
<1>1. PICK a \in Tasks, b \in BOOLEAN : e = <<a, b>>
  BY DEF Entries
<1>2. a = t
  BY <1>1
<1>3. e[2] = b
  BY <1>1
<1>4. b = TRUE
  BY <1>3
<1> QED BY <1>1, <1>2, <1>4

\* Steps that leave the condvar alone and let nobody start to wait on it.
LEMMA NotifyKept ==
  ASSUME NotifyInv, UNCHANGED <<cwaiters, notified>>,
         \A t \in Tasks : pc'[t] \in {"release", "condpoll"} =>
                            pc[t] \in {"release", "condpoll"},
         \A t \in Tasks : pc'[t] = "condwait" => pc[t] = "condwait" /\ (woken[t] => woken'[t])
  PROVE  NotifyInv'
BY DEF NotifyInv, Enlisted, Stored

\* A notification flags and wakes those it takes out of the queue, the others stay.
LEMMA NotifyFirstKept ==
  ASSUME TypeOK, NotifyInv, NEW n \in 1 .. Len(cwaiters), NotifyFirst(n), pc' = pc
  PROVE  NotifyInv'
<1>1. /\ Len(cwaiters) \in Nat /\ DOMAIN cwaiters = 1 .. Len(cwaiters)
      /\ \A i \in DOMAIN cwaiters : cwaiters[i] \in Tasks \X BOOLEAN
  BY DEF TypeOK, Entries
<1>2. cwaiters' = SubSeq(cwaiters, n + 1, Len(cwaiters))
  BY DEF NotifyFirst
<1>3. /\ DOMAIN cwaiters' = 1 .. Len(cwaiters) - n
      /\ \A i \in 1 .. Len(cwaiters) - n : cwaiters'[i] = cwaiters[i + n]
  BY <1>1, <1>2 DEF TypeOK
<1>4. ASSUME NEW i \in DOMAIN cwaiters, i > n
      PROVE  i - n \in DOMAIN cwaiters' /\ cwaiters'[i - n] = cwaiters[i]
  BY <1>1, <1>3, <1>4
<1>5. ASSUME NEW i \in DOMAIN cwaiters, i <= n
      PROVE  notified'[cwaiters[i][1]]
  <2>1. cwaiters[i] \in {cwaiters[j] : j \in 1 .. n} /\ cwaiters[i][1] \in Tasks
    BY <1>1, <1>5
  <2> QED BY <2>1 DEF NotifyFirst
<1>6. ASSUME NEW t \in Tasks, NEW i \in DOMAIN cwaiters, i <= n, cwaiters[i][1] = t, cwaiters[i][2]
      PROVE  notified'[t] /\ (woken'[t] \/ t \in Pollers)
  <2>1. cwaiters[i] \in {x \in {cwaiters[j] : j \in 1 .. n} : x[2]}
    BY <1>1, <1>6
  <2>2. t \in {e[1] : e \in {x \in {cwaiters[j] : j \in 1 .. n} : x[2]}}
    BY <1>6, <2>1
  <2> QED BY <1>5, <1>6, <2>2 DEF NotifyFirst, Wake
<1>7. \A t \in Tasks : (notified[t] => notified'[t]) /\ (woken[t] => woken'[t])
  BY DEF NotifyFirst, Wake
<1>8. ASSUME NEW t \in Tasks, Enlisted(t) PROVE Enlisted(t)' \/ notified'[t]
  <2>1. PICK i \in DOMAIN cwaiters : cwaiters[i][1] = t
    BY <1>8 DEF Enlisted
  <2>2. CASE i > n
    BY <1>4, <2>1, <2>2 DEF Enlisted
  <2>3. CASE i <= n
    BY <1>5, <2>1, <2>3
  <2> QED BY <1>1, <2>2, <2>3
<1>9. ASSUME NEW t \in Tasks, NEW i \in DOMAIN cwaiters, cwaiters[i][1] = t, cwaiters[i][2]
      PROVE  Stored(t)' \/ (notified'[t] /\ (woken'[t] \/ t \in Pollers))
  <2>1. CASE i > n
    BY <1>4, <1>9, <2>1 DEF Stored
  <2>2. CASE i <= n
    BY <1>6, <1>9, <2>2
  <2> QED BY <1>1, <2>1, <2>2
<1> QED BY <1>7, <1>8, <1>9 DEF NotifyInv, Stored

\* Every step keeps the condvar's waiters reachable.
LEMMA NotifyNext == IInv /\ NotifyInv /\ [Next]_vars => NotifyInv'
<1> SUFFICES ASSUME TypeOK, NotifyInv, [Next]_vars PROVE NotifyInv'
  BY DEF IInv
<1>1. ASSUME NEW t \in Tasks,
             LockAcquire(t) \/ LockSuspend(t) \/ Abandon(t) \/ Produce(t) \/ Consume(t)
      PROVE  NotifyInv'
  <2>1. /\ UNCHANGED <<cwaiters, notified>>
        /\ \A u \in Tasks : u # t => pc'[u] = pc[u] /\ woken'[u] = woken[u]
        /\ \/ pc'[t] \notin {"release", "condpoll", "condwait"}
           \/ pc'[t] = pc[t] /\ woken'[t] = woken[t]
    BY <1>1 DEF LockAcquire, LockSuspend, Abandon, Produce, Consume, Polled, TypeOK, mvars
  <2> QED BY <2>1, NotifyKept
<1>2. ASSUME NEW t \in Tasks, Unlock(t) \/ WaitRelease(t) PROVE NotifyInv'
  <2>1. /\ UNCHANGED <<cwaiters, notified>> /\ DropGuard
        /\ \A u \in Tasks : u # t => pc'[u] = pc[u]
        /\ pc'[t] = "out" \/ (pc'[t] = "condpoll" /\ pc[t] = "release")
    BY <1>2 DEF Unlock, WaitRelease, TypeOK
  <2>2. \A u \in Tasks : woken[u] => woken'[u]
    BY <2>1 DEF DropGuard, Wake
  <2> QED BY <2>1, <2>2, NotifyKept
<1>3. ASSUME NEW t \in Tasks, WaitEnqueue(t) PROVE NotifyInv'
  <2>0. PICK e \in Entries : e = <<t, FALSE>> /\ e[1] = t
    BY EntryParts
  <2>1. /\ cwaiters' = Append(cwaiters, e) /\ woken' = woken
        /\ \A u \in Tasks : u # t => pc'[u] = pc[u] /\ notified'[u] = notified[u]
        /\ pc'[t] = "release"
    BY <1>3, <2>0 DEF WaitEnqueue, TypeOK
  <2>2. e[1] = t
    BY <2>0
  <2>3. /\ DOMAIN cwaiters' = 1 .. Len(cwaiters) + 1 /\ DOMAIN cwaiters = 1 .. Len(cwaiters)
        /\ Len(cwaiters) \in Nat /\ cwaiters'[Len(cwaiters) + 1] = e
        /\ \A i \in DOMAIN cwaiters : cwaiters'[i] = cwaiters[i]
    BY <2>1 DEF TypeOK
  <2>4. Len(cwaiters) + 1 \in DOMAIN cwaiters' /\ cwaiters'[Len(cwaiters) + 1][1] = t
    BY <2>2, <2>3
  <2>5. \A i \in DOMAIN cwaiters : i \in DOMAIN cwaiters'
    BY <2>3
  <2>6. /\ Enlisted(t)' /\ \A u \in Tasks : Enlisted(u) => Enlisted(u)'
        /\ \A u \in Tasks : Stored(u) => Stored(u)'
    BY <2>3, <2>4, <2>5 DEF Enlisted, Stored
  <2> QED BY <2>1, <2>6 DEF NotifyInv
<1>4. ASSUME NEW t \in Tasks, WaitPoll(t) PROVE NotifyInv'
  <2>0. /\ notified' = notified /\ pc[t] \in {"condpoll", "condwait"}
        /\ \A u \in Tasks : u # t => woken'[u] = woken[u]
    BY <1>4 DEF WaitPoll, Polled, Runs, TypeOK
  <2>1. CASE notified[t]
    <3>1. /\ cwaiters' = cwaiters /\ pc'[t] = "lock"
          /\ \A u \in Tasks : u # t => pc'[u] = pc[u]
      BY <1>4, <2>1 DEF WaitPoll, TypeOK
    <3> QED BY <2>0, <3>1, NotifyKept
  <2>2. CASE ~notified[t]
    <3>0. PICK e \in Entries : e = <<t, TRUE>> /\ e[1] = t /\ e[2] = TRUE
      BY EntryParts
    <3>1. /\ pc'[t] = "condwait" /\ \A u \in Tasks : u # t => pc'[u] = pc[u]
          /\ DOMAIN cwaiters' = DOMAIN cwaiters
          /\ \A i \in DOMAIN cwaiters : cwaiters'[i] =
               IF cwaiters[i][1] = t THEN e ELSE cwaiters[i]
      BY <1>4, <2>2, <3>0 DEF WaitPoll, TypeOK
    <3>2. PICK i \in DOMAIN cwaiters : cwaiters[i][1] = t
      BY <2>0, <2>2 DEF NotifyInv, Enlisted, Stored
    <3>3. Stored(t)'
      <4>1. i \in DOMAIN cwaiters' /\ cwaiters'[i] = e
        BY <3>1, <3>2
      <4> QED BY <3>0, <4>1 DEF Stored
    <3>4. ASSUME NEW u \in Tasks, u # t, NEW j \in DOMAIN cwaiters, cwaiters[j][1] = u
          PROVE  j \in DOMAIN cwaiters' /\ cwaiters'[j] = cwaiters[j]
      BY <3>1, <3>4
    <3>5. \A u \in Tasks : u # t /\ Enlisted(u) => Enlisted(u)'
      BY <3>4 DEF Enlisted
    <3>6. \A u \in Tasks : u # t /\ Stored(u) => Stored(u)'
      BY <3>4 DEF Stored
    <3> QED BY <2>0, <3>1, <3>3, <3>5, <3>6 DEF NotifyInv
  <2> QED BY <2>1, <2>2
<1>5. ASSUME NEW t \in Tasks, Notify(t) PROVE NotifyInv'
  <2>1. pc' = pc
    BY <1>5 DEF Notify
  <2>2. CASE UNCHANGED <<cwaiters, notified, woken, lost>>
    BY <2>1, <2>2, NotifyKept
  <2>3. ASSUME NEW n \in 1 .. Len(cwaiters), NotifyFirst(n) PROVE NotifyInv'
    BY <2>1, <2>3, NotifyFirstKept
  <2>4. cwaiters # <<>> => 1 \in 1 .. Len(cwaiters) /\ Len(cwaiters) \in 1 .. Len(cwaiters)
    BY DEF TypeOK
  <2> QED BY <1>5, <2>2, <2>3, <2>4 DEF Notify
<1>6. CASE UNCHANGED vars
  BY <1>6 DEF NotifyInv, Enlisted, Stored, vars, mvars
<1> QED BY <1>1, <1>2, <1>3, <1>4, <1>5, <1>6 DEF Next, Step

\* A notification that comes between queueing and the first poll reaches its task.
THEOREM NotificationsArrive == Spec => []NoMissedNotify
<1>1. Init => NotifyInv
  BY DEF Init, NotifyInv
<1>2. IInv /\ NotifyInv => NoMissedNotify
  <2> SUFFICES ASSUME TypeOK, NEW t \in Tasks, NEW i \in DOMAIN cwaiters,
                      cwaiters[i][1] = t, cwaiters[i][2]
               PROVE  cwaiters[i] = <<t, TRUE>>
    BY DEF IInv, NotifyInv, NoMissedNotify, Stored
  <2>1. cwaiters[i] \in Entries
    BY DEF TypeOK
  <2> QED BY <2>1, EntryOf
<1> QED BY <1>1, <1>2, NotifyNext, Invariance, PTL DEF Spec

-----------------------------------------------------------------------------
\* No notification is spent twice on one wait.

\* OneEntryPerWait needs that what is queued belongs to a wait that is under way, or
\* that was cancelled.
WaitsInv ==
  /\ OneEntryPerWait
  /\ \A i \in DOMAIN cwaiters :
       pc[cwaiters[i][1]] \in {"release", "condpoll", "condwait", "gone"}

\* Steps that leave the condvar alone and after which every wait is still one.
LEMMA WaitsKept ==
  ASSUME TypeOK, WaitsInv, UNCHANGED <<cwaiters, notified>>,
         \A t \in Tasks : pc[t] \in {"release", "condpoll", "condwait", "gone"} =>
           pc'[t] \in {"release", "condpoll", "condwait", "gone"} \/ notified[t]
  PROVE  WaitsInv'
<1>1. \A i \in DOMAIN cwaiters : cwaiters[i][1] \in Tasks
  BY DEF TypeOK, Entries
<1> QED BY <1>1 DEF WaitsInv, OneEntryPerWait

\* A notification takes whole waits out of the queue.
LEMMA NotifyFirstWaits ==
  ASSUME TypeOK, WaitsInv, NEW n \in 1 .. Len(cwaiters), NotifyFirst(n), pc' = pc
  PROVE  WaitsInv'
<1>1. /\ Len(cwaiters) \in Nat /\ DOMAIN cwaiters = 1 .. Len(cwaiters)
      /\ \A i \in DOMAIN cwaiters : cwaiters[i] \in Tasks \X BOOLEAN
  BY DEF TypeOK, Entries
<1>2. cwaiters' = SubSeq(cwaiters, n + 1, Len(cwaiters))
  BY DEF NotifyFirst
<1>3. /\ DOMAIN cwaiters' = 1 .. Len(cwaiters) - n
      /\ \A i \in 1 .. Len(cwaiters) - n :
           i + n \in DOMAIN cwaiters /\ i + n > n /\ cwaiters'[i] = cwaiters[i + n]
  BY <1>1, <1>2 DEF TypeOK
<1>4. ASSUME NEW i \in DOMAIN cwaiters, i > n PROVE ~notified'[cwaiters[i][1]]
  <2>1. cwaiters[i][1] \in Tasks /\ ~notified[cwaiters[i][1]]
    BY <1>1 DEF WaitsInv, OneEntryPerWait
  <2>2. \A j \in 1 .. n : cwaiters[j][1] # cwaiters[i][1]
    BY <1>1, <1>4 DEF WaitsInv, OneEntryPerWait
  <2> QED BY <2>1, <2>2 DEF NotifyFirst
<1>5. \A i, j \in DOMAIN cwaiters' : cwaiters'[i][1] = cwaiters'[j][1] => i = j
  <2> SUFFICES ASSUME NEW i \in DOMAIN cwaiters', NEW j \in DOMAIN cwaiters',
                      cwaiters'[i][1] = cwaiters'[j][1]
               PROVE  i = j
    OBVIOUS
  <2>1. i + n = j + n
    BY <1>3 DEF WaitsInv, OneEntryPerWait
  <2> QED BY <1>1, <1>3, <2>1
<1>6. \A i \in DOMAIN cwaiters' :
        pc'[cwaiters'[i][1]] \in {"release", "condpoll", "condwait", "gone"}
  BY <1>3 DEF WaitsInv
<1> QED BY <1>3, <1>4, <1>5, <1>6 DEF WaitsInv, OneEntryPerWait

\* Every step keeps one entry per wait.
LEMMA WaitsNext == IInv /\ WaitsInv /\ [Next]_vars => WaitsInv'
<1> SUFFICES ASSUME TypeOK, WaitsInv, [Next]_vars PROVE WaitsInv'
  BY DEF IInv
<1>0. /\ Len(cwaiters) \in Nat /\ DOMAIN cwaiters = 1 .. Len(cwaiters)
      /\ \A i \in DOMAIN cwaiters : cwaiters[i] \in Entries /\ cwaiters[i][1] \in Tasks
  BY DEF TypeOK, Entries
<1>1. ASSUME NEW t \in Tasks,
             LockAcquire(t) \/ LockSuspend(t) \/ Abandon(t) \/ Produce(t) \/ Consume(t)
      PROVE  WaitsInv'
  <2>1. /\ UNCHANGED <<cwaiters, notified>>
        /\ \A u \in Tasks : u # t => pc'[u] = pc[u]
        /\ pc'[t] = "gone" \/ pc[t] \notin {"release", "condpoll", "condwait", "gone"}
    BY <1>1 DEF LockAcquire, LockSuspend, Abandon, Produce, Consume, Runs, TypeOK, mvars
  <2> QED BY <2>1, WaitsKept
<1>2. ASSUME NEW t \in Tasks, Unlock(t) \/ WaitRelease(t) PROVE WaitsInv'
  <2>1. /\ UNCHANGED <<cwaiters, notified>>
        /\ \A u \in Tasks : u # t => pc'[u] = pc[u]
        /\ pc[t] = "held" \/ pc'[t] = "condpoll"
    BY <1>2 DEF Unlock, WaitRelease, TypeOK
  <2> QED BY <2>1, WaitsKept
<1>3. ASSUME NEW t \in Tasks, WaitEnqueue(t) PROVE WaitsInv'
  <2>0. PICK e \in Entries : e = <<t, FALSE>> /\ e[1] = t
    BY EntryParts
  <2>1. /\ cwaiters' = Append(cwaiters, e) /\ pc[t] = "held"
        /\ \A u \in Tasks : u # t => pc'[u] = pc[u] /\ notified'[u] = notified[u]
        /\ pc'[t] = "release" /\ ~notified'[t]
    BY <1>3, <2>0 DEF WaitEnqueue, TypeOK
  <2>2. \A i \in DOMAIN cwaiters : cwaiters[i][1] # t
    BY <2>1 DEF WaitsInv
  <2>3. /\ DOMAIN cwaiters' = 1 .. Len(cwaiters) + 1
        /\ cwaiters'[Len(cwaiters) + 1] = e
        /\ \A i \in DOMAIN cwaiters : cwaiters'[i] = cwaiters[i]
    BY <1>0, <2>1 DEF TypeOK
  <2>4. \A i \in DOMAIN cwaiters' : i \in DOMAIN cwaiters \/ i = Len(cwaiters) + 1
    BY <1>0, <2>3
  <2>5. \A i \in DOMAIN cwaiters' : cwaiters'[i][1] \in Tasks
                                 /\ (cwaiters'[i][1] = t => i = Len(cwaiters) + 1)
    BY <1>0, <2>0, <2>2, <2>3, <2>4
  <2>6. \A i, j \in DOMAIN cwaiters' : cwaiters'[i][1] = cwaiters'[j][1] => i = j
    <3> SUFFICES ASSUME NEW i \in DOMAIN cwaiters', NEW j \in DOMAIN cwaiters',
                        cwaiters'[i][1] = cwaiters'[j][1]
                 PROVE  i = j
      OBVIOUS
    <3>1. CASE cwaiters'[i][1] = t
      BY <2>5, <3>1
    <3>2. CASE cwaiters'[i][1] # t
      <4>1. i \in DOMAIN cwaiters /\ j \in DOMAIN cwaiters
        BY <2>0, <2>3, <2>4, <3>2
      <4> QED BY <2>3, <4>1 DEF WaitsInv, OneEntryPerWait
    <3> QED BY <3>1, <3>2
  <2>7. ASSUME NEW i \in DOMAIN cwaiters'
        PROVE  /\ ~notified'[cwaiters'[i][1]]
               /\ pc'[cwaiters'[i][1]] \in {"release", "condpoll", "condwait", "gone"}
    <3>1. CASE cwaiters'[i][1] = t
      BY <2>1, <3>1
    <3>2. CASE cwaiters'[i][1] # t
      <4>1. i \in DOMAIN cwaiters /\ cwaiters'[i][1] = cwaiters[i][1]
        BY <2>0, <2>3, <2>4, <3>2
      <4> QED BY <1>0, <2>1, <3>2, <4>1 DEF WaitsInv, OneEntryPerWait
    <3> QED BY <3>1, <3>2
  <2> QED BY <2>6, <2>7 DEF WaitsInv, OneEntryPerWait
<1>4. ASSUME NEW t \in Tasks, WaitPoll(t) PROVE WaitsInv'
  <2>1. CASE notified[t]
    <3>1. /\ UNCHANGED <<cwaiters, notified>> /\ \A u \in Tasks : u # t => pc'[u] = pc[u]
      BY <1>4, <2>1 DEF WaitPoll, TypeOK
    <3> QED BY <2>1, <3>1, WaitsKept
  <2>2. CASE ~notified[t]
    <3>0. PICK e \in Entries : e = <<t, TRUE>> /\ e[1] = t
      BY EntryParts
    <3>1. /\ pc'[t] = "condwait" /\ notified' = notified
          /\ \A u \in Tasks : u # t => pc'[u] = pc[u]
          /\ DOMAIN cwaiters' = DOMAIN cwaiters
          /\ \A i \in DOMAIN cwaiters : cwaiters'[i] =
               IF cwaiters[i][1] = t THEN e ELSE cwaiters[i]
      BY <1>4, <2>2, <3>0 DEF WaitPoll, TypeOK
    <3>2. \A i \in DOMAIN cwaiters : cwaiters'[i][1] = cwaiters[i][1]
      BY <3>0, <3>1
    <3> QED BY <1>0, <3>1, <3>2 DEF WaitsInv, OneEntryPerWait
  <2> QED BY <2>1, <2>2
<1>5. ASSUME NEW t \in Tasks, Notify(t) PROVE WaitsInv'
  <2>1. pc' = pc
    BY <1>5 DEF Notify
  <2>2. CASE UNCHANGED <<cwaiters, notified, woken, lost>>
    BY <2>1, <2>2, WaitsKept
  <2>3. ASSUME NEW n \in 1 .. Len(cwaiters), NotifyFirst(n) PROVE WaitsInv'
    BY <2>1, <2>3, NotifyFirstWaits
  <2>4. cwaiters # <<>> => 1 \in 1 .. Len(cwaiters) /\ Len(cwaiters) \in 1 .. Len(cwaiters)
    BY DEF TypeOK
  <2> QED BY <1>5, <2>2, <2>3, <2>4 DEF Notify
<1>6. CASE UNCHANGED vars
  BY <1>6 DEF WaitsInv, OneEntryPerWait, vars, mvars
<1> QED BY <1>1, <1>2, <1>3, <1>4, <1>5, <1>6 DEF Next, Step

\* A condvar wait is queued once and leaves the queue when it is notified, for any number
\* of tasks, pollers and cancelled waiters.
THEOREM WaitsQueuedOnce == Spec => []OneEntryPerWait
<1>1. Init => WaitsInv
  BY DEF Init, WaitsInv, OneEntryPerWait
<1>2. WaitsInv => OneEntryPerWait
  BY DEF WaitsInv
<1> QED BY <1>1, <1>2, WaitsNext, Invariance, PTL DEF Spec
=============================================================================
