------------------------- MODULE SyncPrimitivesProofs -----------------------
(***************************************************************************)
(* Proofs about SyncPrimitives.tla, for any finite set of tasks and any    *)
(* parameters of the primitives: the lock, the semaphore, the barrier, the *)
(* oneshot channel, the pipe and the task group, each with its inductive   *)
(* invariant.  A step of one of them leaves the state of the others alone. *)
(***************************************************************************)
EXTENDS SyncPrimitives, FiniteSetTheorems, SequenceTheorems, TLAPS

-----------------------------------------------------------------------------
\* The invariants.

\* AsyncRwLock: whoever waits without having been woken is queued.
RwQueued ==
  /\ \A t \in RwReaders : Waiting(t) /\ ~woken[t] => t \in ToSet(readWaiters)
  /\ \A t \in RwWriters : Waiting(t) /\ ~woken[t] => t \in ToSet(writeWaiters)

RwInv == RwTypeOK /\ RwExclusion /\ RwNoStranded /\ (subject = "rwlock" => RwQueued)

\* AsyncSemaphore: the same, and the head of the queue does not fit, also when it is the
\* waker of a task that is gone.
SemQueued == \A t \in Tasks : Waiting(t) /\ ~woken[t] => t \in ToSet(semWaiters)
HeadTooLarge == semWaiters # <<>> => permits < need[Head(semWaiters)]

SemInv ==
  SemTypeOK /\ SemConserved /\ (subject = "semaphore" => SemQueued /\ HeadTooLarge)

\* The calls of wait() that have returned, each as its task and its round, when
\* n[t] have returned to t.
Returns(n) == {r \in Tasks \X (1 .. BarRounds) : r[2] <= n[r[1]]}

\* AsyncBarrier: a task is in at most one generation it was not released from; every
\* generation ends with a call that returns, so their number is bounded.
BarCore ==
  /\ joined \in [BarGens -> SUBSET Tasks] /\ leaders \in [BarGens -> SUBSET Tasks]
  /\ released \in [Tasks -> 0 .. BarRounds]
  /\ \A t \in Tasks : pc[t] = "start" => released[t] < BarRounds
  /\ \A t \in Tasks : Waiting(t) => released[t] < BarRounds
  /\ \A t \in Tasks : myGen[t] <= generation
  /\ \A t \in joined[generation] : myGen[t] = generation /\ pc[t] \in {"wait", "gone"}
  /\ \A g \in BarGens : g > generation => joined[g] = {} /\ leaders[g] = {}
  /\ generation <= Cardinality(Returns(released))

BarInv == BarTypeOK /\ BarTogether /\ BarNoneLeft /\ (subject = "barrier" => BarCore)

\* Oneshot channel: what the sender did, and what the receiver can have got.
OneCore ==
  /\ pc[OneSender] = "start" => ~oneSent /\ ~oneClosed
  /\ pc[OneSender] = "held" => oneSent /\ ~oneClosed
  /\ oneValue => oneSent
  /\ oneGot = "nothing" => (oneSent => oneValue)
  /\ oneGot = "nothing" <=> pc[OneReceiver] # "done"
  /\ oneGot = "value" => oneSent
  /\ oneGot = "closed" => ~oneSent /\ oneClosed

OneInv == OneTypeOK /\ OneDelivers /\ (subject = "oneshot" => OneCore)

\* Pipe: bytes are numbered per writer, and only readers and writers wait.
Bytes == PipeWriters \X (1 .. PipeBytes)

PipeCore ==
  /\ buffer \in Seq(Bytes) /\ got \in Seq(Bytes) /\ sent \in Seq(Bytes)
  /\ \A t \in Tasks : Waiting(t) => t \in PipeReaders \cup PipeWriters

PipeInv == PipeTypeOK /\ PipeStream /\ PipeNoStall /\ (subject = "pipe" => PipeCore)

\* Task group: until wait_all returns, a child that may run is listed, awaited or about
\* to be listed.
GroupCore ==
  /\ parent \in {"open", "wait", "timedwait", "returned", "exited"}
  /\ parent = "open" => handles = <<>>
  /\ result = "none" <=> parent \notin {"returned", "exited"}
  /\ result = "none" => \A t \in Children :
       Alive(t) => t \in ToSet(groupTasks) \cup ToSet(handles) \cup current

GroupInv == GroupTypeOK /\ GroupJoined /\ GroupCore

IInv == TasksTypeOK /\ RwInv /\ SemInv /\ BarInv /\ OneInv /\ PipeInv /\ GroupInv
-----------------------------------------------------------------------------
\* Tasks and queues.

Places == {"start", "wait", "held", "done", "gone"}

\* What a poll or a drop does to the tasks, pointwise.
Moved(t, l, S) ==
  /\ subject' = subject /\ pc' \in [Tasks -> Places] /\ pc'[t] = l
  /\ \A u \in Tasks : u # t => pc'[u] = pc[u]
  /\ \A u \in Tasks : woken'[u] <=> (woken[u] \/ u \in S) /\ u # t
  /\ lost' <=> (lost \/ \E u \in S : ~Waiting(u))

\* A step of Goto does that.
LEMMA GotoMoves ==
  ASSUME TasksTypeOK, NEW t \in Tasks, NEW l \in Places, NEW S, Goto(t, l, S)
  PROVE  TasksTypeOK' /\ Moved(t, l, S)
<1>1. /\ subject' = subject /\ nudged' = nudged /\ pc' \in [Tasks -> Places] /\ pc'[t] = l
      /\ \A u \in Tasks : u # t => pc'[u] = pc[u]
  BY DEF TasksTypeOK, Goto, Places
<1>2. /\ woken' \in [Tasks -> BOOLEAN]
      /\ \A u \in Tasks : woken'[u] <=> (woken[u] \/ u \in S) /\ u # t
  <2>1. woken' = [u \in Tasks |-> (woken[u] \/ u \in S) /\ u # t]
    BY DEF Goto
  <2>2. \A u \in Tasks : ((woken[u] \/ u \in S) /\ u # t) \in BOOLEAN
    BY Zenon
  <2> QED BY <2>1, <2>2
<1>3. lost' \in BOOLEAN /\ (lost' <=> (lost \/ \E u \in S : ~Waiting(u)))
  <2>1. lost' = (lost \/ \E u \in S : ~Waiting(u))
    BY DEF Goto
  <2> QED BY <2>1, Zenon
<1>4. TasksTypeOK'
  BY <1>1, <1>2, <1>3 DEF TasksTypeOK, Places
<1> QED BY <1>1, <1>2, <1>3, <1>4 DEF Moved

\* A task is cancelled, or woken by the other future of its join.
LEMMA AsideMoves ==
  ASSUME TasksTypeOK, NEW t \in Tasks, Cancel(t) \/ Nudge(t)
  PROVE  /\ TasksTypeOK' /\ subject' = subject
         /\ \A u \in Tasks : pc'[u] = "held" <=> pc[u] = "held"
         /\ \A u \in Tasks : \/ pc'[u] = pc[u] /\ (woken'[u] <=> woken[u])
                             \/ pc[u] = "wait" /\ pc'[u] = "gone"
                             \/ pc[u] = "wait" /\ pc'[u] = "wait" /\ woken'[u]
         /\ \A u \in Tasks : Waiting(u) /\ woken[u] =>
              lost' \/ (pc'[u] = "wait" /\ woken'[u])
         /\ lost => lost'
<1>1. CASE Cancel(t)
  <2>1. /\ pc[t] = "wait" /\ pc' = [pc EXCEPT ![t] = "gone"] /\ subject' = subject
        /\ woken' = [woken EXCEPT ![t] = FALSE] /\ nudged' = nudged
    BY <1>1 DEF Cancel, Waiting
  <2>2. lost' \in BOOLEAN /\ (lost' <=> (lost \/ woken[t]))
    <3>1. lost' = (lost \/ woken[t])
      BY <1>1 DEF Cancel
    <3> QED BY <3>1, Zenon
  <2>3. TasksTypeOK'
    BY <2>1, <2>2 DEF TasksTypeOK
  <2> QED BY <2>1, <2>2, <2>3 DEF TasksTypeOK, Waiting
<1>2. CASE Nudge(t)
  <2>1. /\ pc[t] = "wait" /\ pc' = pc /\ subject' = subject /\ lost' = lost
        /\ woken' = [woken EXCEPT ![t] = TRUE] /\ nudged' \subseteq Tasks
    BY <1>2 DEF Nudge, Waiting, TasksTypeOK
  <2> QED BY <2>1 DEF TasksTypeOK, Waiting
<1> QED BY <1>1, <1>2

\* A queue with one more waiter.
LEMMA AppendToSet ==
  ASSUME NEW T, NEW s \in Seq(T), NEW t \in T
  PROVE  /\ ToSet(Append(s, t)) = ToSet(s) \cup {t} /\ Append(s, t) \in Seq(T)
         /\ Append(s, t) # <<>>
<1> DEFINE a == Append(s, t)
<1>1. a \in Seq(T) /\ Len(a) = Len(s) + 1 /\ a[Len(s) + 1] = t /\ a # <<>>
  OBVIOUS
<1>2. \A i \in 1 .. Len(s) : a[i] = s[i]
  OBVIOUS
<1> HIDE DEF a
<1>3. ASSUME NEW u \in ToSet(a) PROVE u \in ToSet(s) \cup {t}
  BY <1>1, <1>2 DEF ToSet
<1>4. ASSUME NEW u \in ToSet(s) PROVE u \in ToSet(a)
  BY <1>1, <1>2 DEF ToSet
<1>5. t \in ToSet(a)
  <2>1. Len(s) + 1 \in DOMAIN a
    BY <1>1
  <2> QED BY <1>1, <2>1 DEF ToSet
<1> QED BY <1>1, <1>3, <1>4, <1>5 DEF a

\* A queue without its first k waiters: who is not in it any more was among them.
LEMMA SubSeqToSet ==
  ASSUME NEW T, NEW s \in Seq(T), NEW k \in 0 .. Len(s)
  PROVE  /\ SubSeq(s, k + 1, Len(s)) \in Seq(T)
         /\ Len(SubSeq(s, k + 1, Len(s))) = Len(s) - k
         /\ k < Len(s) => Head(SubSeq(s, k + 1, Len(s))) = s[k + 1]
         /\ \A t \in ToSet(s) : t \in ToSet(SubSeq(s, k + 1, Len(s)))
                                \/ t \in {s[i] : i \in 1 .. k}
<1> DEFINE r == SubSeq(s, k + 1, Len(s))
<1>1. r \in Seq(T) /\ Len(r) = Len(s) - k
  OBVIOUS
<1>2. \A i \in 1 .. Len(r) : r[i] = s[i + k]
  OBVIOUS
<1>3. k < Len(s) => Head(r) = s[k + 1]
  BY <1>1, <1>2
<1>4. ASSUME NEW t \in ToSet(s) PROVE t \in ToSet(r) \/ t \in {s[i] : i \in 1 .. k}
  <2>1. PICK i \in 1 .. Len(s) : t = s[i]
    BY DEF ToSet
  <2>2. CASE i <= k
    BY <2>1, <2>2
  <2>3. CASE i > k
    <3>1. i - k \in 1 .. Len(r) /\ r[i - k] = t
      BY <1>1, <1>2, <2>1, <2>3
    <3> HIDE DEF r
    <3> QED BY <1>1, <3>1 DEF ToSet
  <2> QED BY <2>1, <2>2, <2>3
<1> QED BY <1>1, <1>3, <1>4

\* A queue without its head.
LEMMA TailToSet ==
  ASSUME NEW T, NEW s \in Seq(T), s # <<>>
  PROVE  /\ Tail(s) \in Seq(T) /\ Head(s) \in T /\ Head(s) \in ToSet(s)
         /\ \A t \in ToSet(s) : t \in ToSet(Tail(s)) \/ t = Head(s)
<1>1. /\ Tail(s) \in Seq(T) /\ Len(s) \in Nat /\ Len(s) # 0 /\ Head(s) = s[1] /\ s[1] \in T
      /\ Len(Tail(s)) = Len(s) - 1 /\ 1 \in DOMAIN s /\ DOMAIN s = 1 .. Len(s)
      /\ DOMAIN Tail(s) = 1 .. Len(s) - 1
  OBVIOUS
<1>2. \A i \in 1 .. Len(s) - 1 : Tail(s)[i] = s[i + 1]
  OBVIOUS
<1>3. ASSUME NEW t \in ToSet(s) PROVE t \in ToSet(Tail(s)) \/ t = Head(s)
  <2>1. PICK i \in 1 .. Len(s) : t = s[i]
    BY <1>1 DEF ToSet
  <2>2. CASE i = 1
    BY <1>1, <2>1, <2>2
  <2>3. CASE i # 1
    <3>1. i - 1 \in DOMAIN Tail(s) /\ Tail(s)[i - 1] = t
      BY <1>1, <1>2, <2>1, <2>3
    <3> QED BY <3>1 DEF ToSet
  <2> QED BY <2>2, <2>3
<1>4. Head(s) \in ToSet(s)
  BY <1>1 DEF ToSet
<1> QED BY <1>1, <1>3, <1>4
-----------------------------------------------------------------------------
\* AsyncRwLock.

\* The part of the types that the counters depend on; the queues play no role.
Counters ==
  /\ subject = "rwlock"
  /\ pc \in [Tasks -> {"start", "wait", "held", "done", "gone"}]
  /\ readers \in Nat
  /\ writer \in BOOLEAN

RwGuards == Counters /\ RwExclusion

\* The guards are finitely many.
LEMMA HoldersFinite == ASSUME NEW S \in SUBSET Tasks PROVE IsFiniteSet(Holders(S))
BY TaskSets, FS_Subset DEF Holders

\* A step that moves one task, neither from nor to a guard, and leaves the counters alone.
LEMMA Elsewhere ==
  ASSUME RwGuards, NEW t \in Tasks, NEW l \in {"start", "wait", "done", "gone"},
         pc[t] # "held", pc' = [pc EXCEPT ![t] = l], UNCHANGED <<subject, readers, writer>>
  PROVE  RwGuards'
<1>1. Counters'
  BY DEF RwGuards, Counters
<1>2. \A S \in SUBSET Tasks : Holders(S)' = Holders(S)
  BY DEF RwGuards, Counters, Holders
<1>3. /\ Holders(RwReaders)' = Holders(RwReaders)
      /\ Holders(RwWriters)' = Holders(RwWriters)
      /\ Holders(Tasks)' = Holders(Tasks)
  BY <1>2, RwSets DEF RwReaders
<1>4. RwExclusion'
  BY <1>3 DEF RwGuards, RwExclusion
<1> QED BY <1>1, <1>4 DEF RwGuards

\* A reader is let in only while there is no writer, and is counted.
LEMMA ReadGuards ==
  ASSUME RwGuards, NEW t \in Tasks, ReadPoll(t)
  PROVE  RwGuards'
<1>1. t \in RwReaders /\ t \notin RwWriters /\ pc[t] # "held"
  BY DEF ReadPoll, Runs, RwReaders
<1>2. CASE writer
  <2>1. pc' = [pc EXCEPT ![t] = "wait"] /\ UNCHANGED <<subject, readers, writer>>
    BY <1>2 DEF ReadPoll, Goto
  <2> QED BY <1>1, <2>1, Elsewhere
<1>3. CASE ~writer
  <2>1. /\ readers' = readers + 1 /\ pc' = [pc EXCEPT ![t] = "held"]
        /\ UNCHANGED <<subject, writer>>
    BY <1>3 DEF ReadPoll, Goto
  <2>2. Counters'
    BY <2>1 DEF RwGuards, Counters
  <2>3. Holders(RwReaders)' = Holders(RwReaders) \cup {t} /\ t \notin Holders(RwReaders)
    BY <1>1, <2>1 DEF RwGuards, Counters, Holders, RwReaders
  <2>4. Holders(RwWriters)' = {}
    BY <1>1, <1>3, <2>1, RwSets DEF RwGuards, Counters, RwExclusion, Holders
  <2>5. Cardinality(Holders(RwReaders)') = Cardinality(Holders(RwReaders)) + 1
    BY <2>3, HoldersFinite, FS_AddElement DEF RwReaders
  <2>6. RwExclusion'
    BY <1>3, <2>1, <2>4, <2>5 DEF RwGuards, Counters, RwExclusion
  <2> QED BY <2>2, <2>6 DEF RwGuards
<1> QED BY <1>2, <1>3 DEF RwGuards, Counters

\* A writer is let in only when no guard exists.
LEMMA WriteGuards ==
  ASSUME RwGuards, NEW t \in Tasks, WritePoll(t)
  PROVE  RwGuards'
<1>1. t \in RwWriters /\ t \notin RwReaders /\ pc[t] # "held"
  BY DEF WritePoll, TakeWrite, Runs, RwReaders
<1>2. CASE writer \/ readers # 0
  <2>1. pc' = [pc EXCEPT ![t] = "wait"] /\ UNCHANGED <<subject, readers, writer>>
    BY <1>2 DEF WritePoll, TakeWrite, Goto
  <2> QED BY <1>1, <2>1, Elsewhere
<1>3. CASE ~writer /\ readers = 0
  <2>1. /\ writer' = TRUE /\ pc' = [pc EXCEPT ![t] = "held"]
        /\ UNCHANGED <<subject, readers>>
    BY <1>3 DEF WritePoll, TakeWrite, Goto
  <2>2. Counters'
    BY <2>1 DEF RwGuards, Counters
  <2>3. Holders(RwReaders) = {} /\ Holders(RwWriters) = {}
    BY <1>3, HoldersFinite, FS_EmptySet DEF RwGuards, Counters, RwExclusion, RwReaders
  <2>4. Holders(RwReaders)' = {} /\ Holders(RwWriters)' = {t} /\ Holders(Tasks)' = {t}
    BY <1>1, <2>1, <2>3, RwSets DEF RwGuards, Counters, Holders, RwReaders
  <2>5. RwExclusion'
    BY <1>3, <2>1, <2>4, FS_EmptySet DEF RwExclusion
  <2> QED BY <2>2, <2>5 DEF RwGuards
<1> QED BY <1>2, <1>3 DEF RwGuards, Counters

\* A reader's guard counts itself out; the saturating subtraction never saturates.
LEMMA DropReadGuards ==
  ASSUME RwGuards, NEW t \in Tasks, DropReadGuard(t)
  PROVE  RwGuards'
<1>1. t \in RwReaders /\ t \notin RwWriters /\ pc[t] = "held"
  BY DEF DropReadGuard, RwReaders
<1>2. /\ readers' = IF readers = 0 THEN 0 ELSE readers - 1
      /\ pc' = [pc EXCEPT ![t] = "done"] /\ UNCHANGED <<subject, writer>>
  BY DEF DropReadGuard, Goto
<1>3. Holders(RwReaders)' = Holders(RwReaders) \ {t} /\ t \in Holders(RwReaders)
  BY <1>1, <1>2 DEF RwGuards, Counters, Holders, RwReaders
<1>4. Holders(RwWriters)' = {} /\ Holders(RwWriters) = {}
  BY <1>1, <1>2, RwSets DEF RwGuards, Counters, RwExclusion, Holders
<1>5. /\ Cardinality(Holders(RwReaders)') = Cardinality(Holders(RwReaders)) - 1
      /\ Cardinality(Holders(RwReaders)) \in Nat \ {0}
  BY <1>3, HoldersFinite, FS_RemoveElement, FS_CardinalityType, FS_EmptySet DEF RwReaders
<1>6. Counters'
  BY <1>2 DEF RwGuards, Counters
<1>7. RwExclusion'
  BY <1>2, <1>4, <1>5 DEF RwGuards, Counters, RwExclusion
<1> QED BY <1>6, <1>7 DEF RwGuards

\* A writer's guard was the only one.
LEMMA DropWriteGuards ==
  ASSUME RwGuards, NEW t \in Tasks, DropWriteGuard(t)
  PROVE  RwGuards'
<1>1. t \in RwWriters /\ pc[t] = "held"
  BY DEF DropWriteGuard, ReleaseWrite
<1>2. /\ writer' = FALSE /\ pc' = [pc EXCEPT ![t] = "done"]
      /\ UNCHANGED <<subject, readers>>
  BY DEF DropWriteGuard, ReleaseWrite, Goto
<1>3. Holders(Tasks) = {t}
  BY <1>1, RwSets DEF RwGuards, Counters, RwExclusion, Holders
<1>4. /\ Holders(RwReaders) = {} /\ Holders(RwReaders)' = {}
      /\ Holders(RwWriters)' = {}
  BY <1>1, <1>2, <1>3, RwSets DEF RwGuards, Counters, Holders, RwReaders
<1>5. Counters'
  BY <1>2 DEF RwGuards, Counters
<1>6. RwExclusion'
  BY <1>2, <1>4 DEF RwGuards, Counters, RwExclusion
<1> QED BY <1>5, <1>6 DEF RwGuards


\* A waiter that is not woken was queued before, or is queued by this step.
LEMMA RwPollQueues ==
  ASSUME TasksTypeOK, RwInv, subject = "rwlock", NEW t \in Tasks, ReadPoll(t) \/ WritePoll(t)
  PROVE  /\ TasksTypeOK' /\ RwTypeOK' /\ RwNoStranded' /\ RwQueued'
<1>1. /\ readers \in Nat /\ writer \in BOOLEAN /\ readWaiters \in Seq(RwReaders)
      /\ writeWaiters \in Seq(RwWriters) /\ RwQueued
  BY DEF RwInv, RwTypeOK
<1>2. RwReaders \cap RwWriters = {} /\ \A u \in Tasks : u \in RwReaders \/ u \in RwWriters
  BY DEF RwReaders
<1>3. CASE /\ ReadPoll(t) /\ ~writer
  <2>1. /\ readers' = readers + 1 /\ Goto(t, "held", {})
        /\ UNCHANGED <<writer, readWaiters, writeWaiters>> /\ t \in RwReaders
    BY <1>3 DEF ReadPoll
  <2>2. TasksTypeOK' /\ Moved(t, "held", {})
    BY <2>1, GotoMoves DEF Places
  <2>3. RwTypeOK'
    BY <1>1, <2>1 DEF RwTypeOK
  <2>4. RwQueued'
    BY <1>1, <1>2, <2>1, <2>2, RwSets DEF RwQueued, Moved, Waiting, RwReaders
  <2>5. RwNoStranded'
    <3> SUFFICES ASSUME ~lost', ~writer',
                        NEW u \in RwReaders, pc'[u] = "wait", ~woken'[u]
                 PROVE  \/ writeWaiters # <<>>
                        \/ \E w \in RwWriters : pc'[w] = "wait" /\ woken'[w]
      <4>1. readers' > 0
        BY <1>1, <2>1
      <4> QED BY <2>1, <4>1 DEF RwNoStranded, Waiting
    <3>1. u # t /\ u \in Tasks /\ pc[u] = "wait" /\ ~woken[u] /\ ~lost
      BY <2>2 DEF Moved, RwReaders
    <3>2. \/ writeWaiters # <<>>
          \/ \E w \in RwWriters : pc[w] = "wait" /\ woken[w]
      BY <1>3, <3>1 DEF RwInv, RwNoStranded, Waiting
    <3> QED BY <1>2, <2>1, <2>2, <3>2, RwSets DEF Moved
  <2> QED BY <2>2, <2>3, <2>4, <2>5
<1>4. CASE /\ ReadPoll(t) /\ writer
  <2>1. /\ readWaiters' = Append(readWaiters, t) /\ Goto(t, "wait", {})
        /\ UNCHANGED <<writer, readers, writeWaiters>> /\ t \in RwReaders
    BY <1>4 DEF ReadPoll
  <2>2. TasksTypeOK' /\ Moved(t, "wait", {})
    BY <2>1, GotoMoves DEF Places
  <2>3. /\ readWaiters' \in Seq(RwReaders)
        /\ ToSet(readWaiters') = ToSet(readWaiters) \cup {t}
    BY <1>1, <2>1, AppendToSet
  <2>4. RwTypeOK'
    BY <1>1, <2>1, <2>3 DEF RwTypeOK
  <2>5. RwQueued'
    BY <1>1, <1>2, <2>1, <2>2, <2>3, RwSets DEF RwQueued, Moved, Waiting, RwReaders
  <2>6. RwNoStranded'
    BY <1>4, <2>1 DEF RwNoStranded
  <2> QED BY <2>2, <2>4, <2>5, <2>6
<1>5. CASE WritePoll(t) /\ ~writer /\ readers = 0
  <2>1. /\ writer' = TRUE /\ Goto(t, "held", {})
        /\ UNCHANGED <<readers, readWaiters, writeWaiters>> /\ t \in RwWriters
    BY <1>5 DEF WritePoll, TakeWrite
  <2>2. TasksTypeOK' /\ Moved(t, "held", {})
    BY <2>1, GotoMoves DEF Places
  <2>3. RwTypeOK'
    BY <1>1, <2>1 DEF RwTypeOK
  <2>4. RwQueued'
    BY <1>1, <1>2, <2>1, <2>2, RwSets DEF RwQueued, Moved, Waiting, RwReaders
  <2>5. RwNoStranded'
    BY <2>1 DEF RwNoStranded
  <2> QED BY <2>2, <2>3, <2>4, <2>5
<1>6. CASE WritePoll(t) /\ ~(~writer /\ readers = 0)
  <2>1. /\ writeWaiters' = Append(writeWaiters, t) /\ Goto(t, "wait", {})
        /\ UNCHANGED <<writer, readers, readWaiters>> /\ t \in RwWriters
    BY <1>6 DEF WritePoll, TakeWrite
  <2>2. TasksTypeOK' /\ Moved(t, "wait", {})
    BY <2>1, GotoMoves DEF Places
  <2>3. /\ writeWaiters' \in Seq(RwWriters) /\ writeWaiters' # <<>>
        /\ ToSet(writeWaiters') = ToSet(writeWaiters) \cup {t}
    BY <1>1, <2>1, AppendToSet
  <2>4. RwTypeOK'
    BY <1>1, <2>1, <2>3 DEF RwTypeOK
  <2>5. RwQueued'
    BY <1>1, <1>2, <2>1, <2>2, <2>3, RwSets DEF RwQueued, Moved, Waiting, RwReaders
  <2>6. RwNoStranded'
    <3>1. ~writer' => readers' > 0
      BY <1>1, <1>6, <2>1
    <3> QED BY <2>3, <3>1 DEF RwNoStranded
  <2> QED BY <2>2, <2>4, <2>5, <2>6
<1> QED BY <1>3, <1>4, <1>5, <1>6

\* The first queued writer is woken: it waits, unless the wake is lost.
LEMMA RwWakesWriter ==
  ASSUME TasksTypeOK, RwInv, subject = "rwlock", NEW t \in Tasks, pc[t] = "held",
         writeWaiters # <<>>, writeWaiters' = Tail(writeWaiters),
         Goto(t, "done", {Head(writeWaiters)}), UNCHANGED readWaiters
  PROVE  /\ TasksTypeOK' /\ writeWaiters' \in Seq(RwWriters) /\ RwNoStranded' /\ RwQueued'
<1>1. /\ readWaiters \in Seq(RwReaders) /\ writeWaiters \in Seq(RwWriters) /\ RwQueued
  BY DEF RwInv, RwTypeOK
<1>2. RwReaders \cap RwWriters = {} /\ \A u \in Tasks : u \in RwReaders \/ u \in RwWriters
  BY DEF RwReaders
<1>3. PICK h \in RwWriters : /\ h = Head(writeWaiters) /\ writeWaiters' \in Seq(RwWriters)
                             /\ \A u \in ToSet(writeWaiters) : u \in ToSet(writeWaiters') \/ u = h
  BY <1>1, TailToSet
<1>4. TasksTypeOK' /\ Moved(t, "done", {h})
  BY <1>3, GotoMoves DEF Places
<1>5. RwQueued'
  BY <1>1, <1>2, <1>3, <1>4, RwSets DEF RwQueued, Moved, Waiting, RwReaders
<1>6. ~lost' => pc'[h] = "wait" /\ woken'[h]
  BY <1>3, <1>4, RwSets DEF Moved, Waiting
<1>7. RwNoStranded'
  BY <1>3, <1>6, RwSets DEF RwNoStranded, Waiting
<1> QED BY <1>3, <1>4, <1>5, <1>7

\* A guard is dropped.
LEMMA RwDropQueues ==
  ASSUME TasksTypeOK, RwInv, subject = "rwlock", NEW t \in Tasks,
         DropReadGuard(t) \/ DropWriteGuard(t)
  PROVE  /\ TasksTypeOK' /\ RwTypeOK' /\ RwNoStranded' /\ RwQueued'
<1>1. /\ readers \in Nat /\ writer \in BOOLEAN /\ readWaiters \in Seq(RwReaders)
      /\ writeWaiters \in Seq(RwWriters) /\ RwQueued
  BY DEF RwInv, RwTypeOK
<1>2. RwReaders \cap RwWriters = {} /\ \A u \in Tasks : u \in RwReaders \/ u \in RwWriters
  BY DEF RwReaders
<1>3. readers' \in Nat /\ writer' \in BOOLEAN /\ pc[t] = "held"
  <2>1. CASE DropReadGuard(t)
    BY <1>1, <2>1 DEF DropReadGuard
  <2>2. CASE DropWriteGuard(t)
    BY <1>1, <2>2 DEF DropWriteGuard, ReleaseWrite
  <2> QED BY <2>1, <2>2
<1>4. CASE DropReadGuard(t) /\ readers' = 0 /\ writeWaiters # <<>>
  BY <1>1, <1>3, <1>4, RwWakesWriter DEF DropReadGuard, RwTypeOK
<1>5. CASE DropReadGuard(t) /\ ~(readers' = 0 /\ writeWaiters # <<>>)
  <2>1. /\ Goto(t, "done", {}) /\ UNCHANGED <<writer, readWaiters, writeWaiters>>
    BY <1>5 DEF DropReadGuard
  <2>2. TasksTypeOK' /\ Moved(t, "done", {})
    BY <2>1, GotoMoves DEF Places
  <2>3. RwTypeOK'
    BY <1>1, <1>3, <2>1 DEF RwTypeOK
  <2>4. RwQueued'
    BY <1>1, <1>2, <2>1, <2>2, RwSets DEF RwQueued, Moved, Waiting, RwReaders
  <2>5. \A u \in Tasks : /\ pc'[u] = "wait" => pc[u] = "wait" /\ (woken'[u] <=> woken[u])
                         /\ pc[u] = "wait" => pc'[u] = "wait" /\ (woken'[u] <=> woken[u])
    BY <1>3, <2>2 DEF Moved
  <2>6. ASSUME NEW u \in RwWriters, pc'[u] = "wait", ~woken'[u] PROVE readers' > 0
    <3>1. writeWaiters # <<>>
      <4>1. u \in ToSet(writeWaiters)
        BY <1>1, <2>5, <2>6, RwSets DEF RwQueued, Waiting
      <4>2. ToSet(<<>>) = {}
        BY DEF ToSet
      <4> QED BY <4>1, <4>2
    <3> QED BY <1>3, <1>5, <3>1
  <2>7. ASSUME NEW u \in RwReaders, pc'[u] = "wait", ~woken'[u], ~lost', ~writer'
        PROVE  \/ writeWaiters' # <<>>
               \/ \E w \in RwWriters : pc'[w] = "wait" /\ woken'[w]
    <3>1. pc[u] = "wait" /\ ~woken[u] /\ ~lost /\ ~writer
      BY <2>1, <2>2, <2>5, <2>7 DEF Moved, RwReaders
    <3>2. \/ writeWaiters # <<>>
          \/ \E w \in RwWriters : pc[w] = "wait" /\ woken[w]
      BY <3>1 DEF RwInv, RwNoStranded, Waiting
    <3> QED BY <2>1, <2>5, <3>2, RwSets
  <2>8. RwNoStranded'
    BY <2>6, <2>7 DEF RwNoStranded, Waiting
  <2> QED BY <2>2, <2>3, <2>4, <2>8
<1>6. CASE DropWriteGuard(t) /\ writeWaiters # <<>>
  BY <1>1, <1>3, <1>6, RwWakesWriter DEF DropWriteGuard, ReleaseWrite, RwTypeOK
<1>7. CASE DropWriteGuard(t) /\ writeWaiters = <<>>
  <2> DEFINE n == Len(readWaiters)
             S == {readWaiters[i] : i \in 1 .. n}
  <2>1. /\ readWaiters' = SubSeq(readWaiters, n + 1, n) /\ Goto(t, "done", S)
        /\ UNCHANGED <<readers, writeWaiters>>
    BY <1>7 DEF DropWriteGuard, ReleaseWrite
  <2>2. readWaiters' \in Seq(RwReaders)
    BY <1>1, <2>1, SubSeqToSet
  <2>3. ToSet(readWaiters) = S /\ ToSet(writeWaiters) = {}
    BY <1>1, <1>7 DEF ToSet
  <2> HIDE DEF S, n
  <2>4. TasksTypeOK' /\ Moved(t, "done", S)
    BY <2>1, GotoMoves DEF Places
  <2>5. RwTypeOK'
    BY <1>1, <1>3, <2>1, <2>2 DEF RwTypeOK
  <2>6. \A u \in Tasks : pc'[u] = "wait" => woken'[u]
    BY <1>1, <1>2, <1>3, <2>3, <2>4 DEF RwQueued, Moved, Waiting
  <2>7. RwQueued' /\ RwNoStranded'
    BY <2>6, RwSets DEF RwQueued, RwNoStranded, Waiting, RwReaders
  <2> QED BY <2>4, <2>5, <2>7
<1> QED BY <1>4, <1>5, <1>6, <1>7

\* Every step of a task on the lock keeps the invariant.
LEMMA RwPreserved ==
  ASSUME TasksTypeOK, RwInv, RwNext
  PROVE  TasksTypeOK' /\ RwInv' /\ subject' = subject
<1>1. subject = "rwlock"
  BY DEF RwNext
<1>2. RwGuards
  BY <1>1 DEF RwInv, RwGuards, Counters, TasksTypeOK, RwTypeOK
<1>3. ASSUME NEW t \in Tasks, RwStep(t) PROVE TasksTypeOK' /\ RwInv' /\ subject' = subject
  <2>1. RwGuards'
    BY <1>2, <1>3, ReadGuards, WriteGuards, DropReadGuards, DropWriteGuards DEF RwStep
  <2>2. TasksTypeOK' /\ RwTypeOK' /\ RwNoStranded' /\ RwQueued'
    BY <1>1, <1>3, RwPollQueues, RwDropQueues DEF RwStep
  <2> QED BY <1>1, <2>1, <2>2 DEF RwInv, RwGuards, Counters
<1>4. ASSUME NEW t \in Tasks, Cancel(t) \/ Nudge(t), UNCHANGED rwvars
      PROVE  TasksTypeOK' /\ RwInv' /\ subject' = subject
  <2>1. UNCHANGED <<readers, writer, readWaiters, writeWaiters>>
    BY <1>4 DEF rwvars
  <2>2. /\ TasksTypeOK' /\ subject' = subject
        /\ \A u \in Tasks : pc'[u] = "held" <=> pc[u] = "held"
        /\ \A u \in Tasks : pc'[u] = "wait" /\ ~woken'[u] => pc[u] = "wait" /\ ~woken[u]
        /\ \A u \in Tasks : pc[u] = "wait" /\ woken[u] =>
             lost' \/ (pc'[u] = "wait" /\ woken'[u])
        /\ lost => lost'
    BY <1>4, AsideMoves DEF Waiting
  <2>3. RwExclusion'
    <3>1. /\ Holders(RwReaders)' = Holders(RwReaders) /\ Holders(RwWriters)' = Holders(RwWriters)
          /\ Holders(Tasks)' = Holders(Tasks)
      BY <2>2, RwSets DEF Holders, RwReaders
    <3> QED BY <2>1, <2>2, <3>1 DEF RwInv, RwExclusion
  <2>4. RwTypeOK' /\ RwQueued'
    BY <1>1, <2>1, <2>2, RwSets DEF RwInv, RwTypeOK, RwQueued, Waiting, RwReaders
  <2>5. RwNoStranded'
    <3> SUFFICES ASSUME ~lost', ~writer'
                 PROVE  /\ \A u \in RwReaders : pc'[u] = "wait" /\ ~woken'[u] =>
                             \/ writeWaiters' # <<>>
                             \/ \E w \in RwWriters : pc'[w] = "wait" /\ woken'[w]
                        /\ \A u \in RwWriters : pc'[u] = "wait" /\ ~woken'[u] =>
                             readers' > 0 \/ \E v \in Tasks : pc'[v] = "wait" /\ woken'[v]
      BY DEF RwNoStranded, Waiting
    <3>1. ~lost /\ ~writer
      BY <2>1, <2>2
    <3>2. /\ \A u \in RwReaders : pc[u] = "wait" /\ ~woken[u] =>
               \/ writeWaiters # <<>>
               \/ \E w \in RwWriters : pc[w] = "wait" /\ woken[w]
          /\ \A u \in RwWriters : pc[u] = "wait" /\ ~woken[u] =>
               readers > 0 \/ \E v \in Tasks : pc[v] = "wait" /\ woken[v]
      BY <1>1, <3>1 DEF RwInv, RwNoStranded, Waiting
    <3> QED BY <2>1, <2>2, <3>2, RwSets DEF RwReaders
  <2> QED BY <1>1, <2>2, <2>3, <2>4, <2>5 DEF RwInv
<1> QED BY <1>3, <1>4 DEF RwNext
-----------------------------------------------------------------------------
\* AsyncSemaphore.

\* The permits that t takes.
PermitsOf(t) == {h \in Tasks \X (1 .. MaxNeed) : h[1] = t /\ h[2] <= need[t]}

\* They are as many as it needs.
LEMMA PermitsOfCount ==
  ASSUME SemTypeOK, NEW t \in Tasks
  PROVE  IsFiniteSet(PermitsOf(t)) /\ Cardinality(PermitsOf(t)) = need[t]
<1>1. PICK n \in 0 .. MaxNeed : n = need[t]
  BY DEF SemTypeOK
<1>2. n \in Nat /\ \A i \in 1 .. MaxNeed : i <= n <=> i \in 1 .. n
  BY SemBounds
<1>3. \A i \in 1 .. n : i \in 1 .. MaxNeed
  BY SemBounds
<1>4. PermitsOf(t) = {t} \X (1 .. n)
  <2>1. ASSUME NEW h \in PermitsOf(t) PROVE h \in {t} \X (1 .. n)
    <3>1. h \in Tasks \X (1 .. MaxNeed) /\ h[1] = t /\ h[2] <= n
      BY <1>1 DEF PermitsOf
    <3>2. h = <<h[1], h[2]>> /\ h[2] \in 1 .. MaxNeed
      BY <3>1
    <3> QED BY <1>2, <3>1, <3>2
  <2>2. ASSUME NEW h \in {t} \X (1 .. n) PROVE h \in PermitsOf(t)
    <3>1. h[1] = t /\ h[2] \in 1 .. n /\ h = <<h[1], h[2]>>
      BY <2>2
    <3>2. h[2] \in 1 .. MaxNeed /\ h[2] <= n
      BY <1>2, <1>3, <3>1
    <3> QED BY <1>1, <3>1, <3>2 DEF PermitsOf
  <2> QED BY <2>1, <2>2
<1>5. IsFiniteSet(1 .. n) /\ Cardinality(1 .. n) = n
  BY <1>2, FS_Interval
<1>6. IsFiniteSet({t}) /\ Cardinality({t}) = 1
  BY FS_Singleton
<1>7. IsFiniteSet({t} \X (1 .. n)) /\ Cardinality({t} \X (1 .. n)) = 1 * n
  BY <1>5, <1>6, FS_Product, ZenonT(30)
<1> QED BY <1>1, <1>2, <1>4, <1>7

\* There are finitely many.
LEMMA HeldFinite == IsFiniteSet(HeldPermits) /\ Cardinality(HeldPermits) \in Nat
<1>1. IsFiniteSet(1 .. MaxNeed)
  BY SemBounds, FS_Interval
<1>2. IsFiniteSet(Tasks \X (1 .. MaxNeed))
  BY <1>1, TaskSets, FS_Product
<1>3. HeldPermits \in SUBSET (Tasks \X (1 .. MaxNeed))
  BY DEF HeldPermits
<1>4. IsFiniteSet(HeldPermits)
  BY <1>2, <1>3, FS_Subset
<1> QED BY <1>4, FS_CardinalityType

\* A permit is given out: there are need[t] more.
LEMMA TakenPermits ==
  ASSUME SemTypeOK, NEW t \in Tasks, pc[t] # "held", need' = need, pc'[t] = "held",
         \A u \in Tasks : u # t => pc'[u] = pc[u]
  PROVE  Cardinality(HeldPermits') = Cardinality(HeldPermits) + need[t]
<1>1. HeldPermits' = HeldPermits \cup PermitsOf(t)
  <2>1. \A h \in Tasks \X (1 .. MaxNeed) : h \in HeldPermits' <=> h \in HeldPermits \cup PermitsOf(t)
    <3> SUFFICES ASSUME NEW h \in Tasks \X (1 .. MaxNeed)
                 PROVE  h \in HeldPermits' <=> h \in HeldPermits \cup PermitsOf(t)
      OBVIOUS
    <3>1. h[1] \in Tasks
      OBVIOUS
    <3>2. CASE h[1] = t
      BY <3>1, <3>2 DEF HeldPermits, PermitsOf
    <3>3. CASE h[1] # t
      BY <3>1, <3>3 DEF HeldPermits, PermitsOf
    <3> QED BY <3>2, <3>3
  <2>2. HeldPermits' \subseteq Tasks \X (1 .. MaxNeed)
    BY DEF HeldPermits
  <2>3. HeldPermits \cup PermitsOf(t) \subseteq Tasks \X (1 .. MaxNeed)
    BY DEF HeldPermits, PermitsOf
  <2> QED BY <2>1, <2>2, <2>3
<1>2. HeldPermits \cap PermitsOf(t) = {}
  BY DEF HeldPermits, PermitsOf
<1>3. Cardinality(HeldPermits \cup PermitsOf(t)) =
        Cardinality(HeldPermits) + Cardinality(PermitsOf(t)) - Cardinality(HeldPermits \cap PermitsOf(t))
  BY HeldFinite, PermitsOfCount, FS_Union
<1>4. need[t] \in Nat
  BY SemBounds DEF SemTypeOK
<1>5. Cardinality(HeldPermits \cap PermitsOf(t)) = 0
  BY <1>2, FS_EmptySet
<1>6. Cardinality(HeldPermits') = Cardinality(HeldPermits \cup PermitsOf(t))
  BY <1>1
<1> QED BY <1>3, <1>4, <1>5, <1>6, HeldFinite, PermitsOfCount

\* A permit is dropped: there are need[t] fewer.
LEMMA GivenPermits ==
  ASSUME SemTypeOK, NEW t \in Tasks, pc[t] = "held", need' = need, pc'[t] # "held",
         \A u \in Tasks : u # t => pc'[u] = pc[u]
  PROVE  Cardinality(HeldPermits') = Cardinality(HeldPermits) - need[t]
<1>1. HeldPermits' = HeldPermits \ PermitsOf(t)
  <2>1. \A h \in Tasks \X (1 .. MaxNeed) : h \in HeldPermits' <=> h \in HeldPermits \ PermitsOf(t)
    <3> SUFFICES ASSUME NEW h \in Tasks \X (1 .. MaxNeed)
                 PROVE  h \in HeldPermits' <=> h \in HeldPermits \ PermitsOf(t)
      OBVIOUS
    <3>1. h[1] \in Tasks
      OBVIOUS
    <3>2. CASE h[1] = t
      BY <3>1, <3>2 DEF HeldPermits, PermitsOf
    <3>3. CASE h[1] # t
      BY <3>1, <3>3 DEF HeldPermits, PermitsOf
    <3> QED BY <3>2, <3>3
  <2>2. HeldPermits' \subseteq Tasks \X (1 .. MaxNeed) /\ HeldPermits \subseteq Tasks \X (1 .. MaxNeed)
    BY DEF HeldPermits
  <2> QED BY <2>1, <2>2
<1>2. HeldPermits \cap PermitsOf(t) = PermitsOf(t)
  BY DEF HeldPermits, PermitsOf
<1>3. Cardinality(HeldPermits \ PermitsOf(t)) =
        Cardinality(HeldPermits) - Cardinality(HeldPermits \cap PermitsOf(t))
  BY HeldFinite, FS_Difference
<1> QED BY <1>1, <1>2, <1>3, PermitsOfCount

\* A step that neither takes nor gives a permit back.
LEMMA SamePermits ==
  ASSUME need' = need, \A u \in Tasks : pc'[u] = "held" <=> pc[u] = "held"
  PROVE  HeldPermits' = HeldPermits
<1>1. \A h \in Tasks \X (1 .. MaxNeed) : h[1] \in Tasks
  OBVIOUS
<1> QED BY <1>1 DEF HeldPermits

\* A poll takes permits, which makes nobody fit, or queues the task that does not fit.
LEMMA AcquireKeeps ==
  ASSUME TasksTypeOK, SemInv, subject = "semaphore", NEW t \in Tasks, AcquirePoll(t)
  PROVE  TasksTypeOK' /\ SemInv'
<1>1. /\ permits \in Nat /\ semWaiters \in Seq(Tasks) /\ need \in [Tasks -> 0 .. MaxNeed]
      /\ SemQueued /\ HeadTooLarge /\ permits + Cardinality(HeldPermits) = Permits /\ need' = need
      /\ need[t] \in Nat /\ pc[t] # "held" /\ SemTypeOK
  BY SemBounds DEF SemInv, SemTypeOK, SemConserved, AcquirePoll, Runs
<1>2. semWaiters # <<>> => Head(semWaiters) \in Tasks /\ need[Head(semWaiters)] \in Nat
  BY <1>1, SemBounds
<1>3. CASE permits >= need[t]
  <2>1. permits' = permits - need[t] /\ semWaiters' = semWaiters /\ Goto(t, "held", {})
    BY <1>1, <1>3 DEF AcquirePoll
  <2>2. TasksTypeOK' /\ Moved(t, "held", {})
    BY <2>1, GotoMoves DEF Places
  <2>3. SemTypeOK'
    BY <1>1, <1>3, <2>1 DEF SemTypeOK
  <2>4. SemQueued'
    BY <1>1, <2>1, <2>2 DEF SemQueued, Moved, Waiting
  <2>5. HeadTooLarge'
    BY <1>1, <1>2, <1>3, <2>1 DEF HeadTooLarge
  <2>6. SemConserved'
    <3>1. Cardinality(HeldPermits') = Cardinality(HeldPermits) + need[t]
      BY <1>1, <2>2, TakenPermits DEF Moved
    <3> QED BY <1>1, <2>1, <3>1, HeldFinite DEF SemConserved
  <2> QED BY <2>2, <2>3, <2>4, <2>5, <2>6 DEF SemInv
<1>4. CASE permits < need[t]
  <2>1. semWaiters' = Append(semWaiters, t) /\ permits' = permits /\ Goto(t, "wait", {})
    BY <1>1, <1>4 DEF AcquirePoll
  <2>2. TasksTypeOK' /\ Moved(t, "wait", {})
    BY <2>1, GotoMoves DEF Places
  <2>3. semWaiters' \in Seq(Tasks) /\ ToSet(semWaiters') = ToSet(semWaiters) \cup {t}
    BY <1>1, <2>1, AppendToSet
  <2>4. SemTypeOK'
    BY <1>1, <2>1, <2>3 DEF SemTypeOK
  <2>5. SemQueued'
    BY <1>1, <2>2, <2>3 DEF SemQueued, Moved, Waiting
  <2>6. HeadTooLarge'
    <3>1. Head(semWaiters') = IF semWaiters = <<>> THEN t ELSE Head(semWaiters)
      BY <1>1, <2>1
    <3> QED BY <1>1, <1>4, <2>1, <3>1 DEF HeadTooLarge
  <2>7. SemConserved'
    <3>1. \A u \in Tasks : pc'[u] = "held" <=> pc[u] = "held"
      BY <1>1, <2>2 DEF Moved
    <3> QED BY <1>1, <2>1, <3>1, SamePermits DEF SemConserved
  <2> QED BY <2>2, <2>4, <2>5, <2>6, <2>7 DEF SemInv
<1> QED BY <1>1, <1>3, <1>4

\* A dropped permit wakes everybody up to the first that does not fit.
LEMMA DropKeeps ==
  ASSUME TasksTypeOK, SemInv, subject = "semaphore", NEW t \in Tasks, DropPermit(t)
  PROVE  TasksTypeOK' /\ SemInv'
<1>1. /\ permits \in Nat /\ semWaiters \in Seq(Tasks) /\ need \in [Tasks -> 0 .. MaxNeed]
      /\ SemQueued /\ HeadTooLarge /\ permits + Cardinality(HeldPermits) = Permits /\ need' = need
      /\ need[t] \in Nat /\ pc[t] = "held" /\ SemTypeOK /\ permits' = permits + need[t]
  BY SemBounds DEF SemInv, SemTypeOK, SemConserved, DropPermit, GiveBack
<1>2. PICK k \in 0 .. Len(semWaiters) :
        /\ k < Len(semWaiters) => need[semWaiters[k + 1]] > permits'
        /\ semWaiters' = SubSeq(semWaiters, k + 1, Len(semWaiters))
        /\ Goto(t, "done", {semWaiters[i] : i \in 1 .. k})
  BY DEF DropPermit, GiveBack
<1> DEFINE S == {semWaiters[i] : i \in 1 .. k}
<1>3. /\ semWaiters' \in Seq(Tasks) /\ Len(semWaiters') = Len(semWaiters) - k
      /\ k < Len(semWaiters) => Head(semWaiters') = semWaiters[k + 1]
      /\ \A u \in ToSet(semWaiters) : u \in ToSet(semWaiters') \/ u \in S
  BY <1>1, <1>2, SubSeqToSet
<1>4. TasksTypeOK' /\ Moved(t, "done", S)
  BY <1>2, GotoMoves DEF Places
<1> HIDE DEF S
<1>5. SemTypeOK'
  BY <1>1, <1>3 DEF SemTypeOK
<1>6. SemQueued'
  BY <1>1, <1>3, <1>4 DEF SemQueued, Moved, Waiting
<1>7. HeadTooLarge'
  <2> SUFFICES ASSUME semWaiters' # <<>> PROVE permits' < need'[Head(semWaiters')]
    BY DEF HeadTooLarge
  <2>1. k < Len(semWaiters) /\ semWaiters[k + 1] \in Tasks
    BY <1>1, <1>3
  <2>2. need[semWaiters[k + 1]] \in Nat
    BY <1>1, <2>1, SemBounds
  <2> QED BY <1>1, <1>2, <1>3, <2>1, <2>2
<1>8. SemConserved'
  <2>1. Cardinality(HeldPermits') = Cardinality(HeldPermits) - need[t]
    BY <1>1, <1>4, GivenPermits DEF Moved
  <2> QED BY <1>1, <2>1, HeldFinite DEF SemConserved
<1> QED BY <1>4, <1>5, <1>6, <1>7, <1>8 DEF SemInv

\* Every step of a task on the semaphore keeps the invariant.
LEMMA SemPreserved ==
  ASSUME TasksTypeOK, SemInv, SemNext
  PROVE  TasksTypeOK' /\ SemInv' /\ subject' = subject
<1>1. subject = "semaphore"
  BY DEF SemNext
<1>2. ASSUME NEW t \in Tasks, SemStep(t) PROVE TasksTypeOK' /\ SemInv' /\ subject' = subject
  <2>1. subject' = subject
    BY <1>2 DEF SemStep, AcquirePoll, DropPermit, GiveBack, Goto
  <2> QED BY <1>1, <1>2, <2>1, AcquireKeeps, DropKeeps DEF SemStep
<1>3. ASSUME NEW t \in Tasks, Cancel(t) \/ Nudge(t), UNCHANGED semvars
      PROVE  TasksTypeOK' /\ SemInv' /\ subject' = subject
  <2>1. UNCHANGED <<permits, semWaiters, need>>
    BY <1>3 DEF semvars
  <2>2. /\ TasksTypeOK' /\ subject' = subject
        /\ \A u \in Tasks : pc'[u] = "held" <=> pc[u] = "held"
        /\ \A u \in Tasks : pc'[u] = "wait" /\ ~woken'[u] => pc[u] = "wait" /\ ~woken[u]
    BY <1>3, AsideMoves DEF Waiting
  <2>3. HeldPermits' = HeldPermits
    BY <2>1, <2>2, SamePermits
  <2> QED BY <1>1, <2>1, <2>2, <2>3 DEF SemInv, SemTypeOK, SemConserved, SemQueued, HeadTooLarge, Waiting
<1> QED BY <1>2, <1>3 DEF SemNext
-----------------------------------------------------------------------------
\* Oneshot channel.

\* The sender stores its value, or closes the channel, and wakes the receiver.
LEMMA OneSenderKeeps ==
  ASSUME TasksTypeOK, OneInv, subject = "oneshot", OneSend \/ OneDropSender
  PROVE  TasksTypeOK' /\ OneInv' /\ subject' = subject
<1>1. OneSender \in Tasks /\ OneReceiver \in Tasks /\ OneSender # OneReceiver
  BY OneTasks
<1>2. OneTypeOK /\ OneDelivers /\ OneCore
  BY DEF OneInv
<1>3. PICK l \in {"held", "done"} : Goto(OneSender, l, oneWaker)
  BY DEF OneSend, OneDropSender
<1>4. TasksTypeOK' /\ Moved(OneSender, l, oneWaker)
  BY <1>1, <1>3, GotoMoves DEF Places
<1>5. /\ pc'[OneReceiver] = pc[OneReceiver] /\ subject' = subject
      /\ woken'[OneReceiver] <=> (woken[OneReceiver] \/ OneReceiver \in oneWaker)
  BY <1>1, <1>4 DEF Moved
<1>6. pc[OneReceiver] = "wait" => woken'[OneReceiver]
  BY <1>2, <1>5 DEF OneDelivers, Waiting
<1>7. CASE OneSend
  <2>1. /\ pc[OneSender] = "start" /\ ~oneClosed /\ oneValue' = TRUE /\ oneSent' = TRUE
        /\ oneWaker' = {} /\ UNCHANGED <<oneClosed, oneGot>> /\ Goto(OneSender, "held", oneWaker)
    BY <1>7 DEF OneSend
  <2>2. pc'[OneSender] = "held"
    BY <1>1, <2>1 DEF Goto, TasksTypeOK
  <2>3. OneTypeOK'
    BY <1>2, <2>1 DEF OneTypeOK
  <2>4. OneCore'
    BY <1>2, <1>5, <2>1, <2>2 DEF OneCore
  <2>5. OneDelivers'
    BY <1>2, <1>5, <1>6, <2>1, <2>3, <2>4 DEF OneCore, OneDelivers, OneTypeOK, Waiting
  <2> QED BY <1>4, <1>5, <2>3, <2>4, <2>5 DEF OneInv
<1>8. CASE OneDropSender
  <2>1. /\ oneClosed' = TRUE /\ oneWaker' = {} /\ UNCHANGED <<oneValue, oneSent, oneGot>>
        /\ Goto(OneSender, "done", oneWaker)
    BY <1>8 DEF OneDropSender
  <2>2. pc'[OneSender] = "done"
    BY <1>1, <2>1 DEF Goto, TasksTypeOK
  <2>3. OneTypeOK'
    BY <1>2, <2>1 DEF OneTypeOK
  <2>4. OneCore'
    BY <1>2, <1>5, <2>1, <2>2 DEF OneCore
  <2>5. OneDelivers'
    BY <1>2, <1>5, <1>6, <2>1, <2>3, <2>4 DEF OneCore, OneDelivers, OneTypeOK, Waiting
  <2> QED BY <1>4, <1>5, <2>3, <2>4, <2>5 DEF OneInv
<1> QED BY <1>7, <1>8

\* The receiver takes the value, is told that the channel is closed, or leaves its waker.
LEMMA OneReceiverKeeps ==
  ASSUME TasksTypeOK, OneInv, subject = "oneshot", OneRecvPoll
  PROVE  TasksTypeOK' /\ OneInv' /\ subject' = subject
<1>1. OneSender \in Tasks /\ OneReceiver \in Tasks /\ OneSender # OneReceiver
  BY OneTasks
<1>2. OneTypeOK /\ OneCore
  BY DEF OneInv
<1>3. PICK l \in {"wait", "done"} :
        /\ Goto(OneReceiver, l, {})
        /\ UNCHANGED <<oneClosed, oneSent>>
        /\ \/ /\ oneValue /\ oneValue' = FALSE /\ oneGot' = "value" /\ l = "done"
              /\ UNCHANGED oneWaker
           \/ /\ ~oneValue /\ oneClosed /\ oneGot' = "closed" /\ l = "done"
              /\ UNCHANGED <<oneWaker, oneValue>>
           \/ /\ ~oneValue /\ ~oneClosed /\ oneWaker' = {OneReceiver} /\ l = "wait"
              /\ UNCHANGED <<oneValue, oneGot>>
  BY DEF OneRecvPoll, OneReceive
<1>4. TasksTypeOK' /\ Moved(OneReceiver, l, {})
  BY <1>1, <1>3, GotoMoves DEF Places
<1>5. pc'[OneReceiver] = l /\ pc'[OneSender] = pc[OneSender] /\ subject' = subject
  BY <1>1, <1>4 DEF Moved
<1>6. pc[OneReceiver] # "done"
  BY DEF OneRecvPoll, OneReceive, Runs
<1>7. oneGot = "nothing"
  BY <1>2, <1>6 DEF OneInv, OneDelivers, OneCore, OneTypeOK
<1>8. OneTypeOK'
  BY <1>2, <1>3 DEF OneTypeOK
<1>9. OneCore'
  BY <1>2, <1>3, <1>5, <1>7 DEF OneCore
<1>10. OneDelivers'
  BY <1>2, <1>3, <1>5, <1>7 DEF OneCore, OneDelivers, Waiting
<1> QED BY <1>4, <1>5, <1>8, <1>9, <1>10 DEF OneInv

\* Every step on the oneshot channel keeps the invariant.
LEMMA OnePreserved ==
  ASSUME TasksTypeOK, OneInv, OneNext
  PROVE  TasksTypeOK' /\ OneInv' /\ subject' = subject
<1>1. subject = "oneshot" /\ OneSender \in Tasks /\ OneReceiver \in Tasks
  BY OneTasks DEF OneNext
<1>2. ASSUME NEW t \in Tasks, OneStep(t) PROVE TasksTypeOK' /\ OneInv' /\ subject' = subject
  BY <1>1, <1>2, OneSenderKeeps, OneReceiverKeeps DEF OneStep
<1>3. ASSUME NEW t \in Tasks, Cancel(t) \/ Nudge(t), UNCHANGED onevars
      PROVE  TasksTypeOK' /\ OneInv' /\ subject' = subject
  <2>1. UNCHANGED <<oneValue, oneWaker, oneClosed, oneSent, oneGot>>
    BY <1>3 DEF onevars
  <2>2. /\ TasksTypeOK' /\ subject' = subject
        /\ \A u \in Tasks : \/ pc'[u] = pc[u] /\ (woken'[u] <=> woken[u])
                            \/ pc[u] = "wait" /\ pc'[u] = "gone"
                            \/ pc[u] = "wait" /\ pc'[u] = "wait" /\ woken'[u]
    BY <1>3, AsideMoves
  <2>3. OneCore'
    BY <1>1, <2>1, <2>2 DEF OneInv, OneCore
  <2>4. OneDelivers'
    BY <1>1, <2>1, <2>2 DEF OneInv, OneDelivers, Waiting
  <2>5. OneTypeOK'
    BY <2>1 DEF OneInv, OneTypeOK
  <2> QED BY <2>2, <2>3, <2>4, <2>5 DEF OneInv
<1> QED BY <1>2, <1>3 DEF OneNext
-----------------------------------------------------------------------------
\* Task group.

\* An empty list has no handles.
LEMMA NoHandles == ToSet(<<>>) = {} /\ <<>> \in Seq(Children)
BY DEF ToSet

\* A child is spawned and listed.
LEMMA SpawnKeeps ==
  ASSUME GroupInv, NEW t \in Children, GroupSpawn(t) \/ GroupPush(t)
  PROVE  GroupInv'
<1>1. GroupTypeOK /\ GroupJoined /\ GroupCore
  BY DEF GroupInv
<1>2. CASE GroupSpawn(t)
  <2>1. GroupTypeOK'
    BY <1>1, <1>2 DEF GroupTypeOK, GroupSpawn
  <2>2. GroupJoined'
    BY <1>1, <1>2 DEF GroupTypeOK, GroupSpawn, GroupJoined, Alive
  <2>3. GroupCore'
    BY <1>1, <1>2 DEF GroupTypeOK, GroupSpawn, GroupCore, Alive
  <2> QED BY <2>1, <2>2, <2>3 DEF GroupInv
<1>3. CASE GroupPush(t)
  <2>1. /\ groupTasks' = Append(groupTasks, t) /\ current' = current \ {t}
        /\ UNCHANGED <<groupCancelled, handles, child, state, flagged, parent, canceller, result>>
    BY <1>3 DEF GroupPush
  <2>2. /\ groupTasks' \in Seq(Children)
        /\ ToSet(groupTasks') = ToSet(groupTasks) \cup {t}
    BY <1>1, <2>1, AppendToSet DEF GroupTypeOK
  <2>3. GroupTypeOK'
    BY <1>1, <2>1, <2>2 DEF GroupTypeOK
  <2>4. GroupJoined'
    BY <1>1, <2>1, <2>2 DEF GroupJoined, Alive
  <2>5. GroupCore'
    BY <1>1, <2>1, <2>2 DEF GroupCore, Alive
  <2> QED BY <2>3, <2>4, <2>5 DEF GroupInv
<1> QED BY <1>2, <1>3

\* The parent's steps.
LEMMA ParentKeeps ==
  ASSUME GroupInv, ParentStep
  PROVE  GroupInv'
<1> USE DEF GroupInv
<1>1. GroupTypeOK /\ GroupJoined /\ GroupCore
  OBVIOUS
<1>4. CASE GroupWait
  <2>1. /\ parent = "open" /\ handles' = groupTasks /\ groupTasks' = <<>>
        /\ parent' \in {"wait", "timedwait"}
        /\ UNCHANGED <<groupCancelled, child, state, flagged, current, canceller, result>>
    BY <1>4 DEF GroupWait
  <2>2. handles = <<>> /\ ToSet(handles) = {} /\ ToSet(groupTasks') = {} /\ groupTasks' \in Seq(Children)
    BY <1>1, <2>1, NoHandles DEF GroupCore
  <2>3. GroupTypeOK'
    BY <1>1, <2>1, <2>2 DEF GroupTypeOK
  <2>4. GroupJoined'
    BY <1>1, <2>1 DEF GroupJoined, GroupCore
  <2>5. GroupCore'
    BY <1>1, <2>1, <2>2 DEF GroupCore, Alive
  <2> QED BY <2>3, <2>4, <2>5
<1>5. CASE GroupJoin
  <2>1. /\ parent \in {"wait", "timedwait"} /\ handles # <<>>
        /\ state[Head(handles)] = "finished"
        /\ state' = [state EXCEPT ![Head(handles)] = "cancelled"]
        /\ handles' = Tail(handles)
        /\ UNCHANGED <<groupCancelled, groupTasks, child, flagged, parent, current, canceller,
                       result>>
    BY <1>5 DEF GroupJoin, Joined
  <2>2. PICK h \in Children : /\ h = Head(handles) /\ handles' \in Seq(Children)
                              /\ \A t \in ToSet(handles) : t \in ToSet(handles') \/ t = h
    BY <1>1, <2>1, TailToSet DEF GroupTypeOK
  <2>3. child[h] \in {"ended", "skipped"}
    BY <1>1, <2>1, <2>2 DEF GroupJoined
  <2>4. GroupTypeOK'
    BY <1>1, <2>1, <2>2 DEF GroupTypeOK
  <2>5. GroupJoined'
    BY <1>1, <2>1, <2>2 DEF GroupJoined, Alive, GroupTypeOK
  <2>6. GroupCore'
    BY <1>1, <2>1, <2>2, <2>3 DEF GroupCore, Alive
  <2> QED BY <2>4, <2>5, <2>6
<1>6. CASE GroupReturn
  <2>1. /\ parent \in {"wait", "timedwait"}
        /\ result' = (IF handles = <<>> THEN "ok" ELSE "error")
        /\ handles' = <<>> /\ parent' = "returned"
        /\ UNCHANGED <<groupCancelled, groupTasks, child, state, flagged, current, canceller>>
    BY <1>6 DEF GroupReturn
  <2>2. handles = <<>> => \A t \in Children : Alive(t) => t \in current \cup ToSet(groupTasks)
    BY <1>1, <2>1, NoHandles DEF GroupCore
  <2>3. GroupTypeOK'
    BY <1>1, <2>1, NoHandles DEF GroupTypeOK
  <2>4. GroupJoined'
    BY <1>1, <2>1, <2>2 DEF GroupJoined, Alive
  <2>5. GroupCore'
    BY <1>1, <2>1 DEF GroupCore
  <2> QED BY <2>3, <2>4, <2>5
<1>7. CASE GroupTimeout
  <2>1. /\ parent = "timedwait" /\ groupCancelled' = TRUE /\ handles' = <<>> /\ result' = "timeout"
        /\ parent' = "returned" /\ UNCHANGED <<groupTasks, child, current, canceller>>
        /\ flagged' = flagged \cup ToSet(groupTasks)
        /\ state' = [t \in Children |->
                       IF t \in ToSet(groupTasks) /\ state[t] = "running" THEN "cancelled" ELSE state[t]]
    BY <1>7 DEF GroupTimeout, CancelHandles
  <2>2. ToSet(groupTasks) \subseteq Children
    BY <1>1 DEF ToSet, GroupTypeOK
  <2>3. GroupTypeOK'
    BY <1>1, <2>1, <2>2, NoHandles DEF GroupTypeOK
  <2>4. GroupJoined'
    BY <1>1, <2>1 DEF GroupJoined
  <2>5. GroupCore'
    BY <1>1, <2>1 DEF GroupCore
  <2> QED BY <2>3, <2>4, <2>5
<1>8. CASE GroupExit
  <2>1. /\ parent = "returned" /\ parent' = "exited"
        /\ UNCHANGED <<groupCancelled, groupTasks, handles, child, state, flagged, current,
                       canceller, result>>
    BY <1>8 DEF GroupExit
  <2>2. GroupTypeOK' /\ GroupJoined'
    BY <1>1, <2>1 DEF GroupTypeOK, GroupJoined, Alive
  <2>3. GroupCore'
    BY <1>1, <2>1 DEF GroupCore
  <2> QED BY <2>2, <2>3
<1> QED BY <1>4, <1>5, <1>6, <1>7, <1>8 DEF ParentStep

\* cancel_all from another thread, and the children: nobody becomes alive again, and only
\* the end of a poll or of the wrapper makes a handle finished.
LEMMA ChildKeeps ==
  ASSUME GroupInv,
         \/ GroupCancelFlag \/ GroupCancelList
         \/ \E t \in Children : ChildRun(t) \/ ChildPolled(t)
  PROVE  GroupInv'
<1>1. GroupTypeOK /\ GroupJoined /\ GroupCore
  BY DEF GroupInv
<1>2. UNCHANGED <<groupTasks, handles, parent, current, result>>
  BY DEF GroupCancelFlag, GroupCancelList, ChildRun, ChildPolled
<1>3. ASSUME NEW t \in Children PROVE Alive(t)' => Alive(t)
  BY <1>1 DEF Alive, GroupCancelFlag, GroupCancelList, ChildRun, ChildPolled, GroupTypeOK
<1>4. GroupCore'
  BY <1>1, <1>2, <1>3 DEF GroupCore
<1>5. CASE GroupCancelFlag
  BY <1>1, <1>4, <1>5 DEF GroupInv, GroupCancelFlag, GroupTypeOK, GroupJoined, Alive
<1>6. CASE GroupCancelList
  <2>1. /\ flagged' = flagged \cup ToSet(groupTasks) /\ UNCHANGED <<groupCancelled, child>>
        /\ state' = [t \in Children |->
                       IF t \in ToSet(groupTasks) /\ state[t] = "running" THEN "cancelled" ELSE state[t]]
    BY <1>6 DEF GroupCancelList, CancelHandles
  <2>2. ToSet(groupTasks) \subseteq Children
    BY <1>1 DEF ToSet, GroupTypeOK
  <2>3. GroupTypeOK'
    BY <1>1, <1>2, <2>1, <2>2 DEF GroupTypeOK
  <2>4. GroupJoined'
    BY <1>1, <1>2, <2>1 DEF GroupJoined, Alive
  <2> QED BY <1>4, <2>3, <2>4 DEF GroupInv
<1>7. ASSUME NEW t \in Children, ChildRun(t) \/ ChildPolled(t) PROVE GroupInv'
  <2>1. GroupTypeOK'
    BY <1>1, <1>2, <1>7 DEF GroupTypeOK, ChildRun, ChildPolled
  <2>2. \A u \in Children : state'[u] = "finished" => child'[u] \in {"ended", "skipped"}
    BY <1>1, <1>7 DEF GroupTypeOK, GroupJoined, ChildRun, ChildPolled
  <2>3. GroupJoined'
    BY <1>1, <1>2, <1>3, <2>2 DEF GroupJoined
  <2> QED BY <1>4, <2>1, <2>3 DEF GroupInv
<1> QED BY <1>5, <1>6, <1>7

\* Every step of a task group keeps the invariant.
LEMMA GroupPreserved ==
  ASSUME TasksTypeOK, GroupInv, GroupNext
  PROVE  TasksTypeOK' /\ GroupInv' /\ subject' = subject
<1>1. TasksTypeOK' /\ subject' = subject
  BY DEF GroupNext, tvars, TasksTypeOK
<1> QED BY <1>1, ParentKeeps, SpawnKeeps, ChildKeeps DEF GroupNext
-----------------------------------------------------------------------------
\* Pipe.

\* A poll returns Pending: its waker takes the slot.
LEMMA ParkMoves ==
  ASSUME TasksTypeOK, NEW t \in Tasks, NEW slot, Park(t, slot)
  PROVE  /\ TasksTypeOK' /\ subject' = subject /\ pc'[t] = "wait" /\ ~woken'[t]
         /\ \A u \in Tasks : u # t => pc'[u] = pc[u] /\ (woken'[u] <=> woken[u])
         /\ lost' <=> (lost \/ \E u \in slot : u # t /\ Waiting(u) /\ ~woken[u])
<1>1. /\ pc' = [pc EXCEPT ![t] = "wait"] /\ woken' = [woken EXCEPT ![t] = FALSE]
      /\ UNCHANGED <<subject, nudged>>
  BY DEF Park
<1>2. /\ lost' \in BOOLEAN
      /\ lost' <=> (lost \/ \E u \in slot : u # t /\ Waiting(u) /\ ~woken[u])
  <2>1. lost' = (lost \/ \E u \in slot : u # t /\ Waiting(u) /\ ~woken[u])
    BY DEF Park
  <2> QED BY <2>1, Zenon
<1> QED BY <1>1, <1>2 DEF TasksTypeOK

\* A byte is a writer and a number.
LEMMA ByteParts ==
  ASSUME NEW t \in PipeWriters, NEW i \in 1 .. PipeBytes
  PROVE  <<t, i>> \in Bytes /\ <<t, i>>[1] = t /\ <<t, i>>[2] = i
BY DEF Bytes

\* What readers and writers that wait have in common.
PipeSleeper(u) ==
  /\ ~pipeClosed
  /\ u \in PipeReaders => buffer = <<>> /\ u \in readWaker
  /\ u \in PipeWriters => Len(buffer) = Capacity /\ u \in writeWaker

\* As PipeNoStall has it.
LEMMA SleepersKeep ==
  ASSUME PipeInv, subject = "pipe", NEW u \in Tasks, ~lost, pc[u] = "wait", ~woken[u]
  PROVE  PipeSleeper(u) /\ (u \in PipeReaders \/ u \in PipeWriters)
BY DEF PipeInv, PipeNoStall, PipeCore, PipeSleeper, Waiting

\* Nobody sleeps after a step that woke everybody who could.
LEMMA AllAwake ==
  ASSUME \A u \in Tasks : ~lost' => ~(pc'[u] = "wait" /\ ~woken'[u])
  PROVE  PipeNoStall'
BY DEF PipeNoStall, Waiting

\* Cutting the buffer in two loses nothing.
LEMMA CutBuffer ==
  ASSUME NEW g \in Seq(Bytes), NEW b \in Seq(Bytes), NEW n \in 0 .. Len(b)
  PROVE  /\ g \o SubSeq(b, 1, n) \in Seq(Bytes) /\ SubSeq(b, n + 1, Len(b)) \in Seq(Bytes)
         /\ Len(SubSeq(b, n + 1, Len(b))) <= Len(b)
         /\ (g \o SubSeq(b, 1, n)) \o SubSeq(b, n + 1, Len(b)) = g \o b
<1>1. Len(b) \in Nat /\ n \in Nat /\ n <= Len(b) /\ \A i \in 1 .. Len(b) : b[i] \in Bytes
  OBVIOUS
<1>2. SubSeq(b, 1, n) \in Seq(Bytes)
  BY <1>1
<1>3. SubSeq(b, n + 1, Len(b)) \in Seq(Bytes) /\ Len(SubSeq(b, n + 1, Len(b))) <= Len(b)
  BY <1>1
<1>4. SubSeq(b, 1, n) \o SubSeq(b, n + 1, Len(b)) = SubSeq(b, 1, Len(b))
  <2>1. 1 \in 1 .. Len(b) + 1 /\ n \in 1 - 1 .. Len(b) /\ Len(b) \in n .. Len(b)
    BY <1>1
  <2> QED BY <2>1, ConcatAdjacentSubSeq
<1>5. SubSeq(b, 1, Len(b)) = b
  BY SubSeqFull
<1>6. (g \o SubSeq(b, 1, n)) \o SubSeq(b, n + 1, Len(b))
        = g \o (SubSeq(b, 1, n) \o SubSeq(b, n + 1, Len(b)))
  <2>1. PICK u \in Seq(Bytes), v \in Seq(Bytes) :
          u = SubSeq(b, 1, n) /\ v = SubSeq(b, n + 1, Len(b))
    BY <1>2, <1>3, Zenon
  <2>2. (g \o u) \o v = g \o (u \o v)
    BY ConcatAssociative, SMTT(30)
  <2> QED BY <2>1, <2>2, Zenon
<1>7. g \o SubSeq(b, 1, n) \in Seq(Bytes)
  BY <1>2, ConcatProperties
<1> QED BY <1>3, <1>4, <1>5, <1>6, <1>7

\* A reader drains the buffer and wakes the writer in the slot, sees the end, or parks.
LEMMA ReadKeeps ==
  ASSUME TasksTypeOK, PipeInv, subject = "pipe", NEW t \in Tasks, PipeRead(t)
  PROVE  TasksTypeOK' /\ PipeInv' /\ subject' = subject
<1>1. /\ PipeTypeOK /\ PipeStream /\ PipeCore /\ t \in PipeReaders /\ t \notin PipeWriters
      /\ UNCHANGED <<pipeClosed, offset, broken, sent>>
  BY PipeBounds DEF PipeInv, PipeRead, Drain
<1>2. /\ readWaker \subseteq PipeReaders /\ writeWaker \subseteq PipeWriters
      /\ PipeReaders \subseteq Tasks /\ PipeWriters \subseteq Tasks
  BY <1>1, PipeBounds DEF PipeTypeOK
<1>3. CASE buffer # <<>>
  <2>1. PICK n \in 0 .. Len(buffer) :
          /\ got' = got \o SubSeq(buffer, 1, n)
          /\ buffer' = SubSeq(buffer, n + 1, Len(buffer))
          /\ writeWaker' = {} /\ readWaker' = readWaker
          /\ Goto(t, "start", writeWaker)
    <3>1. Len(buffer) \in Nat
      BY <1>1 DEF PipeCore
    <3>2. (IF BufLen < Len(buffer) THEN BufLen ELSE Len(buffer)) \in 0 .. Len(buffer)
      BY <3>1, PipeBounds
    <3> QED BY <1>3, <3>2 DEF PipeRead, Drain
  <2>2. TasksTypeOK' /\ Moved(t, "start", writeWaker)
    BY <2>1, GotoMoves DEF Places
  <2>3. /\ got' \in Seq(Bytes) /\ buffer' \in Seq(Bytes) /\ Len(buffer') <= Len(buffer)
        /\ got' \o buffer' = got \o buffer
    BY <1>1, <2>1, CutBuffer DEF PipeCore
  <2>4. PipeTypeOK'
    <3>1. Len(buffer) \in Nat /\ Len(buffer') \in Nat
      BY <1>1, <2>3 DEF PipeCore
    <3>2. Len(buffer') <= Capacity
      BY <1>1, <2>3, <3>1, PipeBounds DEF PipeTypeOK
    <3>3. Cardinality({}) = 0
      BY FS_EmptySet
    <3> QED BY <1>1, <2>1, <3>2, <3>3 DEF PipeTypeOK
  <2>5. \A u \in PipeReaders : pc'[u] # "done"
    BY <1>1, <1>2, <1>3, <2>2 DEF PipeStream, Moved
  <2>6. PipeStream'
    BY <1>1, <2>2, <2>3, <2>5 DEF PipeStream, Moved
  <2>7. PipeNoStall'
    <3> SUFFICES ASSUME NEW u \in Tasks, ~lost', pc'[u] = "wait", ~woken'[u] PROVE FALSE
      BY AllAwake
    <3>1. u # t /\ pc[u] = "wait" /\ ~woken[u] /\ ~lost /\ u \notin writeWaker
      BY <2>2 DEF Moved
    <3> QED BY <1>3, <3>1, SleepersKeep DEF PipeSleeper
  <2>8. PipeCore'
    BY <1>1, <2>2, <2>3 DEF PipeCore, Moved, Waiting
  <2> QED BY <2>2, <2>4, <2>6, <2>7, <2>8 DEF PipeInv, Moved
<1>4. CASE buffer = <<>> /\ pipeClosed
  <2>1. Goto(t, "done", {}) /\ UNCHANGED <<buffer, got, readWaker, writeWaker>>
    BY <1>4 DEF PipeRead, Drain
  <2>2. TasksTypeOK' /\ Moved(t, "done", {})
    BY <2>1, GotoMoves DEF Places
  <2>3. PipeTypeOK'
    BY <1>1, <2>1 DEF PipeTypeOK
  <2>4. PipeStream'
    BY <1>1, <1>4, <2>1, <2>2 DEF PipeStream, Moved
  <2>5. PipeNoStall'
    <3> SUFFICES ASSUME NEW u \in Tasks, ~lost', pc'[u] = "wait", ~woken'[u] PROVE FALSE
      BY AllAwake
    <3>1. u # t /\ pc[u] = "wait" /\ ~woken[u] /\ ~lost
      BY <2>2 DEF Moved
    <3> QED BY <1>4, <3>1, SleepersKeep DEF PipeSleeper
  <2>6. PipeCore'
    BY <1>1, <2>1, <2>2 DEF PipeCore, Moved, Waiting
  <2> QED BY <2>2, <2>3, <2>4, <2>5, <2>6 DEF PipeInv, Moved
<1>5. CASE buffer = <<>> /\ ~pipeClosed
  <2>1. readWaker' = {t} /\ Park(t, readWaker) /\ UNCHANGED <<buffer, got, writeWaker>>
    BY <1>5 DEF PipeRead, Drain
  <2>2. /\ TasksTypeOK' /\ subject' = subject /\ pc'[t] = "wait" /\ ~woken'[t]
        /\ \A u \in Tasks : u # t => pc'[u] = pc[u] /\ (woken'[u] <=> woken[u])
        /\ lost' <=> (lost \/ \E u \in readWaker : u # t /\ Waiting(u) /\ ~woken[u])
    BY <2>1, ParkMoves
  <2>3. PipeTypeOK'
    <3>1. Cardinality({t}) = 1
      BY FS_Singleton
    <3> QED BY <1>1, <2>1, <3>1 DEF PipeTypeOK
  <2>4. PipeStream'
    BY <1>1, <1>2, <2>1, <2>2 DEF PipeStream
  <2>5. PipeNoStall'
    <3> SUFFICES ASSUME NEW u \in Tasks, ~lost', pc'[u] = "wait", ~woken'[u]
                 PROVE  PipeSleeper(u)'
      BY DEF PipeNoStall, PipeSleeper, Waiting
    <3>1. CASE u = t
      BY <1>1, <1>5, <2>1, <3>1 DEF PipeSleeper
    <3>2. CASE u # t
      <4>1. pc[u] = "wait" /\ ~woken[u] /\ ~lost /\ u \notin readWaker
        BY <2>2, <3>2 DEF Waiting
      <4>2. PipeSleeper(u)
        BY <4>1, SleepersKeep
      <4> QED BY <1>1, <2>1, <4>1, <4>2 DEF PipeSleeper
    <3> QED BY <3>1, <3>2
  <2>6. PipeCore'
    BY <1>1, <2>1, <2>2 DEF PipeCore, Waiting
  <2> QED BY <2>2, <2>3, <2>4, <2>5, <2>6 DEF PipeInv
<1> QED BY <1>3, <1>4, <1>5

\* AsyncPipe::close wakes both slots.
LEMMA CloseKeeps ==
  ASSUME TasksTypeOK, PipeInv, subject = "pipe", PipeClose
  PROVE  TasksTypeOK' /\ PipeInv' /\ subject' = subject
<1> DEFINE S == readWaker \cup writeWaker
<1>1. /\ pipeClosed' = TRUE /\ readWaker' = {} /\ writeWaker' = {} /\ ~pipeClosed
      /\ woken' = [u \in Tasks |-> woken[u] \/ u \in S]
      /\ UNCHANGED <<subject, pc, nudged, buffer, offset, broken, got, sent>>
  BY DEF PipeClose
<1>2. lost' \in BOOLEAN /\ (lost => lost')
  <2>1. lost' = (lost \/ \E u \in S : ~Waiting(u))
    BY DEF PipeClose
  <2> QED BY <2>1, Zenon
<1>3. woken' \in [Tasks -> BOOLEAN]
  <2> HIDE DEF S
  <2>1. \A u \in Tasks : (woken[u] \/ u \in S) \in BOOLEAN
    BY Zenon
  <2> QED BY <1>1, <2>1
<1>4. TasksTypeOK' /\ subject' = subject
  BY <1>1, <1>2, <1>3 DEF TasksTypeOK
<1>5. PipeTypeOK'
  BY <1>1, FS_EmptySet DEF PipeInv, PipeTypeOK
<1>6. PipeStream'
  BY <1>1 DEF PipeInv, PipeStream
<1>7. PipeNoStall'
  <2> SUFFICES ASSUME NEW u \in Tasks, ~lost', pc'[u] = "wait", ~woken'[u] PROVE FALSE
    BY AllAwake
  <2>1. pc[u] = "wait" /\ ~woken[u] /\ ~lost /\ u \notin S
    BY <1>1, <1>2
  <2> QED BY <2>1, SleepersKeep DEF PipeSleeper
<1>8. PipeCore'
  BY <1>1 DEF PipeInv, PipeCore, Waiting
<1> QED BY <1>4, <1>5, <1>6, <1>7, <1>8 DEF PipeInv

\* What the writer t appends: its next n bytes, after the o it has written.
Chunk(b, t, o, n) ==
  /\ b \in Seq(Bytes) /\ Len(b) = n
  /\ \A j \in 1 .. n : b[j] = <<t, o + j>> /\ b[j][1] = t /\ b[j][2] = o + j

\* The bytes of one poll are such a chunk.
LEMMA ChunkMade ==
  ASSUME NEW t \in PipeWriters, NEW o \in Nat, NEW n \in Nat, o + n <= PipeBytes
  PROVE  Chunk([i \in 1 .. n |-> <<t, o + i>>], t, o, n)
<1>1. PICK b : b = [i \in 1 .. n |-> <<t, o + i>>]
  OBVIOUS
<1>2. \A j \in 1 .. n : o + j \in 1 .. PipeBytes
  BY PipeBounds
<1>3. \A j \in 1 .. n : b[j] = <<t, o + j>>
  BY <1>1
<1>4. \A j \in 1 .. n : b[j] \in Bytes /\ b[j][1] = t /\ b[j][2] = o + j
  <2> TAKE j \in 1 .. n
  <2>1. PICK i \in 1 .. PipeBytes : i = o + j
    BY <1>2
  <2>2. b[j] = <<t, i>>
    BY <1>3, <2>1
  <2>3. <<t, i>> \in Bytes /\ <<t, i>>[1] = t /\ <<t, i>>[2] = i
    BY ByteParts
  <2> QED BY <2>1, <2>2, <2>3, Zenon
<1>5. b \in [1 .. n -> Bytes]
  BY <1>1, <1>4
<1>6. b \in Seq(Bytes)
  <2>1. [1 .. n -> Bytes] \in {[1 .. k -> Bytes] : k \in Nat}
    BY Zenon
  <2>2. b \in UNION {[1 .. k -> Bytes] : k \in Nat}
    BY <1>5, <2>1, Zenon
  <2> QED BY <2>2, SeqDef, Zenon
<1>7. Len(b) = n
  <2>1. DOMAIN b = 1 .. n /\ DOMAIN b = 1 .. Len(b) /\ Len(b) \in Nat
    BY <1>5, <1>6
  <2>2. PICK l \in Nat : l = Len(b)
    BY <2>1
  <2>3. 1 .. l = 1 .. n
    BY <2>1, <2>2
  <2>4. l = n
    BY <2>3
  <2> QED BY <2>2, <2>4
<1> QED BY <1>1, <1>3, <1>4, <1>6, <1>7 DEF Chunk

\* The bytes sent, with a chunk at their end.
LEMMA Extended ==
  ASSUME NEW s \in Seq(Bytes), NEW b \in Seq(Bytes)
  PROVE  /\ s \o b \in Seq(Bytes) /\ Len(s) \in Nat /\ Len(b) \in Nat
         /\ DOMAIN s = 1 .. Len(s) /\ DOMAIN (s \o b) = 1 .. Len(s) + Len(b)
         /\ \A k \in DOMAIN s : k \in DOMAIN (s \o b) /\ (s \o b)[k] = s[k]
         /\ \A j \in 1 .. Len(b) : Len(s) + j \in DOMAIN (s \o b) /\ (s \o b)[Len(s) + j] = b[j]
         /\ \A k \in DOMAIN (s \o b) : k \in DOMAIN s \/ k - Len(s) \in 1 .. Len(b)
<1>0. PICK r : r = s \o b
  OBVIOUS
<1>1. /\ r \in Seq(Bytes) /\ Len(r) = Len(s) + Len(b)
      /\ \A i \in 1 .. Len(s) + Len(b) :
           r[i] = IF i <= Len(s) THEN s[i] ELSE b[i - Len(s)]
  <2>1. /\ s \o b \in Seq(Bytes) /\ Len(s \o b) = Len(s) + Len(b)
        /\ \A i \in 1 .. Len(s) + Len(b) :
             (s \o b)[i] = IF i <= Len(s) THEN s[i] ELSE b[i - Len(s)]
    BY ConcatProperties
  <2> QED BY <1>0, <2>1
<1>2. PICK m \in Nat, n \in Nat : m = Len(s) /\ n = Len(b)
  OBVIOUS
<1>3. DOMAIN s = 1 .. m /\ DOMAIN r = 1 .. m + n
  BY <1>1, <1>2
<1>4. \A i \in 1 .. m + n : r[i] = IF i <= m THEN s[i] ELSE b[i - m]
  BY <1>1, <1>2
<1>5. /\ \A k \in 1 .. m : k \in 1 .. m + n /\ k <= m
      /\ \A j \in 1 .. n : m + j \in 1 .. m + n /\ ~(m + j <= m) /\ (m + j) - m = j
      /\ \A k \in 1 .. m + n : k \in 1 .. m \/ k - m \in 1 .. n
  OBVIOUS
<1>6. \A k \in 1 .. m : r[k] = s[k]
  BY <1>4, <1>5
<1>7. \A j \in 1 .. n : r[m + j] = b[j]
  BY <1>4, <1>5
<1> QED BY <1>0, <1>1, <1>2, <1>3, <1>5, <1>6, <1>7

\* The bytes s of every writer, o of them each: in order, none twice, none left out.
Stream(s, o) ==
  /\ \A k \in DOMAIN s : s[k][1] \in PipeWriters /\ s[k][2] \in 1 .. o[s[k][1]]
  /\ \A k, l \in DOMAIN s : k < l /\ s[k][1] = s[l][1] => s[k][2] < s[l][2]
  /\ \A t \in PipeWriters : \A i \in 1 .. o[t] : \E k \in DOMAIN s : s[k] = <<t, i>>

\* A chunk at the end of the stream keeps it one.
LEMMA StreamGrows ==
  ASSUME NEW s \in Seq(Bytes), NEW b \in Seq(Bytes), NEW o \in [Tasks -> 0 .. PipeBytes],
         NEW t \in PipeWriters, NEW n \in Nat, NEW r, NEW p,
         Stream(s, o), Chunk(b, t, o[t], n), r = s \o b, p = [o EXCEPT ![t] = @ + n]
  PROVE  Stream(r, p)
<1>1. PICK m \in Nat : m = Len(s)
  OBVIOUS
<1>2. t \in Tasks /\ PipeWriters \subseteq Tasks
  BY PipeBounds
<1>3. PICK d \in Nat : d = o[t]
  BY <1>2, PipeBounds
<1>4. p[t] = d + n /\ \A u \in PipeWriters : u # t => p[u] = o[u]
  BY <1>2, <1>3
<1>5. Len(b) = n /\ \A j \in 1 .. n : b[j] = <<t, d + j>> /\ b[j][1] = t /\ b[j][2] = d + j
  BY <1>3 DEF Chunk
<1>6. /\ DOMAIN s = 1 .. m /\ DOMAIN r = 1 .. m + n
      /\ \A k \in 1 .. m : k \in DOMAIN r /\ r[k] = s[k]
      /\ \A j \in 1 .. n : m + j \in DOMAIN r /\ r[m + j] = b[j]
      /\ \A k \in DOMAIN r : k \in 1 .. m \/ k - m \in 1 .. n
  <2>1. /\ DOMAIN s = 1 .. Len(s) /\ DOMAIN r = 1 .. Len(s) + Len(b)
        /\ \A k \in DOMAIN s : k \in DOMAIN r /\ r[k] = s[k]
        /\ \A j \in 1 .. Len(b) : Len(s) + j \in DOMAIN r /\ r[Len(s) + j] = b[j]
        /\ \A k \in DOMAIN r : k \in DOMAIN s \/ k - Len(s) \in 1 .. Len(b)
    BY Extended
  <2> QED BY <1>1, <1>5, <2>1
<1>7. \A k \in 1 .. m : s[k][1] \in PipeWriters /\ s[k][2] \in 1 .. o[s[k][1]]
  BY <1>6 DEF Stream
<1>8. \A u \in PipeWriters : o[u] \in Nat
  BY <1>2, PipeBounds
<1>9. \A k \in DOMAIN r : \/ k \in 1 .. m /\ r[k] = s[k]
                          \/ \E j \in 1 .. n : k = m + j /\ r[k] = b[j]
  <2> TAKE k \in DOMAIN r
  <2>1. CASE k \in 1 .. m
    BY <1>6, <2>1
  <2>2. CASE k - m \in 1 .. n
    <3>1. k \in Int
      BY <1>6
    <3>2. k = m + (k - m)
      BY <3>1
    <3>3. PICK j \in 1 .. n : j = k - m
      BY <2>2
    <3>4. k = m + j
      BY <3>2, <3>3
    <3> QED BY <1>6, <3>4
  <2> QED BY <1>6, <2>1, <2>2
<1>10. ASSUME NEW k \in DOMAIN r
       PROVE  r[k][1] \in PipeWriters /\ r[k][2] \in 1 .. p[r[k][1]]
  <2>1. CASE k \in 1 .. m /\ r[k] = s[k]
    <3>0. PICK u, i : u = r[k][1] /\ i = r[k][2]
      OBVIOUS
    <3>1. u \in PipeWriters /\ i \in 1 .. o[u]
      BY <1>7, <2>1, <3>0
    <3>2. CASE u = t
      <4>1. i \in 1 .. d + n
        BY <1>3, <3>1, <3>2
      <4> QED BY <1>4, <3>0, <3>1, <3>2, <4>1
    <3>3. CASE u # t
      BY <1>4, <3>0, <3>1, <3>3
    <3> QED BY <3>2, <3>3
  <2>2. CASE \E j \in 1 .. n : k = m + j /\ r[k] = b[j]
    <3>1. PICK j \in 1 .. n : r[k] = b[j]
      BY <2>2
    <3>2. r[k][1] = t /\ r[k][2] = d + j
      BY <1>5, <3>1
    <3>3. d + j \in 1 .. d + n
      OBVIOUS
    <3> QED BY <1>4, <3>2, <3>3
  <2> QED BY <1>9, <2>1, <2>2
<1>11. ASSUME NEW k \in DOMAIN r, NEW l \in DOMAIN r, k < l, r[k][1] = r[l][1]
       PROVE  r[k][2] < r[l][2]
  <2>1. CASE k \in 1 .. m /\ r[k] = s[k] /\ l \in 1 .. m /\ r[l] = s[l]
    <3>1. s[k][2] < s[l][2]
      BY <1>6, <1>11, <2>1 DEF Stream
    <3> QED BY <2>1, <3>1
  <2>2. CASE k \in 1 .. m /\ r[k] = s[k] /\ \E j \in 1 .. n : l = m + j /\ r[l] = b[j]
    <3>1. PICK j \in 1 .. n : r[l] = b[j]
      BY <2>2
    <3>2. r[l][1] = t /\ r[l][2] = d + j
      BY <1>5, <3>1
    <3>3. s[k][1] = t /\ s[k][2] \in 1 .. d
      BY <1>3, <1>7, <1>11, <2>2, <3>2
    <3>4. PICK i \in 1 .. d : i = s[k][2]
      BY <3>3
    <3>5. i < d + j
      OBVIOUS
    <3> QED BY <2>2, <3>2, <3>4, <3>5
  <2>3. CASE /\ \E j \in 1 .. n : k = m + j /\ r[k] = b[j]
             /\ \E j \in 1 .. n : l = m + j /\ r[l] = b[j]
    <3>1. PICK i \in 1 .. n : k = m + i /\ r[k] = b[i]
      BY <2>3
    <3>2. PICK j \in 1 .. n : l = m + j /\ r[l] = b[j]
      BY <2>3
    <3>3. d + i < d + j
      BY <1>11, <3>1, <3>2
    <3> QED BY <1>5, <3>1, <3>2, <3>3
  <2>4. CASE l \in 1 .. m /\ \E j \in 1 .. n : k = m + j /\ r[k] = b[j]
    BY <1>11, <2>4
  <2> QED BY <1>9, <2>1, <2>2, <2>3, <2>4
<1>12. ASSUME NEW u \in PipeWriters, NEW i \in 1 .. p[u]
       PROVE  \E k \in DOMAIN r : r[k] = <<u, i>>
  <2>1. CASE i \in 1 .. o[u]
    <3>1. PICK k \in DOMAIN s : s[k] = <<u, i>>
      BY <2>1 DEF Stream
    <3> QED BY <1>6, <3>1
  <2>2. CASE i \notin 1 .. o[u]
    <3>1. u = t
      BY <1>4, <1>12, <2>2
    <3>2. i \in 1 .. d + n /\ i \notin 1 .. d
      BY <1>3, <1>4, <1>12, <2>2, <3>1
    <3>3. PICK j \in 1 .. n : i = d + j
      <4>1. i - d \in 1 .. n /\ i = d + (i - d)
        BY <3>2
      <4> QED BY <4>1
    <3>4. m + j \in DOMAIN r /\ r[m + j] = <<t, i>>
      BY <1>5, <1>6, <3>3
    <3> QED BY <3>1, <3>4
  <2> QED BY <2>1, <2>2
<1> QED BY <1>10, <1>11, <1>12 DEF Stream

\* A writer finds the pipe closed, appends what fits and wakes the reader, or parks.
LEMMA WriteKeeps ==
  ASSUME TasksTypeOK, PipeInv, subject = "pipe", NEW t \in Tasks, PipeWrite(t)
  PROVE  TasksTypeOK' /\ PipeInv' /\ subject' = subject
<1>1. /\ PipeTypeOK /\ PipeStream /\ PipeCore /\ t \in PipeWriters /\ t \notin PipeReaders
      /\ UNCHANGED <<pipeClosed, got>>
  BY PipeBounds DEF PipeInv, PipeWrite
<1>2. /\ readWaker \subseteq PipeReaders /\ writeWaker \subseteq PipeWriters
      /\ PipeReaders \subseteq Tasks /\ PipeWriters \subseteq Tasks
  BY <1>1, PipeBounds DEF PipeTypeOK
<1>3. CASE pipeClosed
  <2>1. /\ Goto(t, "done", {})
        /\ UNCHANGED <<buffer, sent, offset, readWaker, writeWaker>>
    BY <1>3 DEF PipeWrite
  <2>2. TasksTypeOK' /\ Moved(t, "done", {})
    BY <2>1, GotoMoves DEF Places
  <2>3. PipeTypeOK'
    BY <1>1, <2>1 DEF PipeTypeOK
  <2>4. PipeStream'
    BY <1>1, <1>2, <2>1, <2>2 DEF PipeStream, Moved
  <2>5. PipeNoStall'
    <3> SUFFICES ASSUME NEW u \in Tasks, ~lost', pc'[u] = "wait", ~woken'[u] PROVE FALSE
      BY AllAwake
    <3>1. u # t /\ pc[u] = "wait" /\ ~woken[u] /\ ~lost
      BY <2>2 DEF Moved
    <3> QED BY <1>3, <3>1, SleepersKeep DEF PipeSleeper
  <2>6. PipeCore'
    BY <1>1, <2>1, <2>2 DEF PipeCore, Moved, Waiting
  <2> QED BY <2>2, <2>3, <2>4, <2>5, <2>6 DEF PipeInv, Moved
<1>4. CASE ~pipeClosed /\ Len(buffer) < Capacity
  <2>0. PICK d \in 0 .. PipeBytes, m \in Nat : d = offset[t] /\ m = Len(buffer)
    BY <1>1 DEF PipeTypeOK, PipeCore
  <2>a. PICK n \in Nat :
          /\ d + n <= PipeBytes /\ m + n <= Capacity /\ n > 0
          /\ buffer' = buffer \o [i \in 1 .. n |-> <<t, d + i>>]
          /\ sent' = sent \o [i \in 1 .. n |-> <<t, d + i>>]
          /\ offset' = [offset EXCEPT ![t] = @ + n]
          /\ readWaker' = {}
          /\ Goto(t, "done", readWaker) \/ Goto(t, "start", readWaker)
          /\ UNCHANGED <<writeWaker, broken>>
    <3> DEFINE left == PipeBytes - d
               free == IF Capacity > m THEN Capacity - m ELSE 0
               k == IF left < free THEN left ELSE free
               c == [i \in 1 .. k |-> <<t, d + i>>]
    <3>1. /\ left > 0
          /\ \/ pipeClosed
             \/ /\ ~pipeClosed /\ free > 0
                /\ buffer' = buffer \o c /\ sent' = sent \o c
                /\ offset' = [offset EXCEPT ![t] = @ + k]
                /\ readWaker' = {}
                /\ Goto(t, IF k = left THEN "done" ELSE "start", readWaker)
                /\ UNCHANGED <<writeWaker, broken>>
             \/ ~pipeClosed /\ free = 0
      BY <2>0 DEF PipeWrite
    <3>2. m < Capacity /\ Capacity \in Nat /\ PipeBytes \in Nat
      BY <1>4, <2>0, PipeBounds
    <3>3. free > 0 /\ k \in Nat /\ k > 0 /\ d + k <= PipeBytes /\ m + k <= Capacity
      BY <3>1, <3>2
    <3>4. PICK n \in Nat : n = k
      BY <3>3
    <3>5. c = [i \in 1 .. n |-> <<t, d + i>>]
      BY <3>4
    <3>6. d + n <= PipeBytes /\ m + n <= Capacity /\ n > 0
      BY <3>3, <3>4
    <3> HIDE DEF free, k, left, c
    <3>7. /\ buffer' = buffer \o c /\ sent' = sent \o c
          /\ offset' = [offset EXCEPT ![t] = @ + n] /\ readWaker' = {}
          /\ Goto(t, "done", readWaker) \/ Goto(t, "start", readWaker)
          /\ UNCHANGED <<writeWaker, broken>>
      BY <1>4, <3>1, <3>3, <3>4, SMTT(30)
    <3> QED BY <3>5, <3>6, <3>7
  <2>b. PICK b : b = [i \in 1 .. n |-> <<t, d + i>>]
    OBVIOUS
  <2>1. /\ d + n <= PipeBytes /\ m + n <= Capacity /\ n > 0
        /\ buffer' = buffer \o b /\ sent' = sent \o b
        /\ offset' = [offset EXCEPT ![t] = @ + n]
        /\ readWaker' = {}
        /\ Goto(t, "done", readWaker) \/ Goto(t, "start", readWaker)
        /\ UNCHANGED <<writeWaker, broken>>
    BY <2>a, <2>b
  <2>2. Chunk(b, t, d, n) /\ b \in Seq(Bytes) /\ Len(b) = n
    <3>1. d \in Nat
      BY PipeBounds
    <3>2. Chunk(b, t, d, n)
      BY <1>1, <2>1, <2>b, <3>1, ChunkMade
    <3> QED BY <3>2 DEF Chunk
  <2>3. PICK l \in {"done", "start"} : Goto(t, l, readWaker)
    BY <2>1
  <2>4. TasksTypeOK' /\ Moved(t, l, readWaker)
    BY <2>3, GotoMoves DEF Places
  <2>5. /\ buffer' \in Seq(Bytes) /\ Len(buffer') = m + n /\ sent' \in Seq(Bytes)
    BY <1>1, <2>0, <2>1, <2>2, ConcatProperties DEF PipeCore
  <2>6. got' \o buffer' = sent'
    <3>0. got \in Seq(Bytes) /\ buffer \in Seq(Bytes)
      BY <1>1 DEF PipeCore
    <3>1. (got \o buffer) \o b = got \o (buffer \o b)
      <4>1. \A x, y, z \in Seq(Bytes) : (x \o y) \o z = x \o (y \o z)
        BY ConcatAssociative
      <4> QED BY <2>2, <3>0, <4>1, Zenon
    <3>2. got \o buffer = sent
      BY <1>1 DEF PipeStream
    <3> QED BY <1>1, <2>1, <3>1, <3>2, Zenon
  <2>7. PipeTypeOK'
    <3>1. offset' \in [Tasks -> 0 .. PipeBytes]
      <4>1. d + n \in 0 .. PipeBytes
        BY <2>1, PipeBounds
      <4> QED BY <1>1, <2>0, <2>1, <4>1 DEF PipeTypeOK
    <3>2. Cardinality({}) = 0
      BY FS_EmptySet
    <3>3. Len(buffer') <= Capacity
      BY <2>1, <2>5
    <3> QED BY <1>1, <2>1, <3>1, <3>2, <3>3 DEF PipeTypeOK
  <2>8. Stream(sent', offset')
    <3>1. Stream(sent, offset)
      BY <1>1 DEF PipeStream, Stream
    <3>2. offset \in [Tasks -> 0 .. PipeBytes] /\ sent \in Seq(Bytes)
      BY <1>1 DEF PipeTypeOK, PipeCore
    <3>3. Chunk(b, t, offset[t], n)
      BY <2>0, <2>2
    <3>4. PICK r, p : r = sent \o b /\ p = [offset EXCEPT ![t] = @ + n]
      OBVIOUS
    <3>5. Stream(r, p)
      BY <1>1, <2>2, <3>1, <3>2, <3>3, <3>4, StreamGrows
    <3> QED BY <2>1, <3>4, <3>5
  <2>9. PipeStream'
    <3>1. \A u \in PipeReaders : pc'[u] = "done" => pipeClosed
      BY <1>1, <1>2, <2>4 DEF PipeStream, Moved
    <3> QED BY <1>4, <2>6, <2>8, <3>1 DEF PipeStream, Stream
  <2>10. PipeNoStall'
    <3> SUFFICES ASSUME NEW u \in Tasks, ~lost', pc'[u] = "wait", ~woken'[u] PROVE FALSE
      BY AllAwake
    <3>1. u # t /\ pc[u] = "wait" /\ ~woken[u] /\ ~lost /\ u \notin readWaker
      BY <2>3, <2>4 DEF Moved
    <3>2. m # Capacity
      BY <1>4, <2>0, PipeBounds
    <3> QED BY <2>0, <3>1, <3>2, SleepersKeep DEF PipeSleeper
  <2>11. PipeCore'
    BY <1>1, <2>3, <2>4, <2>5 DEF PipeCore, Moved, Waiting
  <2> QED BY <2>4, <2>7, <2>9, <2>10, <2>11 DEF PipeInv, Moved
<1>5. CASE ~pipeClosed /\ ~(Len(buffer) < Capacity)
  <2>0. Len(buffer) = Capacity /\ ~(Capacity > Len(buffer))
    <3>1. Len(buffer) \in Nat
      BY <1>1 DEF PipeCore
    <3> QED BY <1>1, <1>5, <3>1, PipeBounds DEF PipeTypeOK
  <2>1. /\ writeWaker' = {t} /\ Park(t, writeWaker)
        /\ UNCHANGED <<buffer, sent, offset, readWaker>>
    BY <1>5, <2>0 DEF PipeWrite
  <2>2. /\ TasksTypeOK' /\ subject' = subject /\ pc'[t] = "wait" /\ ~woken'[t]
        /\ \A u \in Tasks : u # t => pc'[u] = pc[u] /\ (woken'[u] <=> woken[u])
        /\ lost' <=> (lost \/ \E u \in writeWaker : u # t /\ Waiting(u) /\ ~woken[u])
    BY <2>1, ParkMoves
  <2>3. PipeTypeOK'
    <3>1. Cardinality({t}) = 1
      BY FS_Singleton
    <3> QED BY <1>1, <2>1, <3>1 DEF PipeTypeOK
  <2>4. PipeStream'
    BY <1>1, <1>2, <2>1, <2>2 DEF PipeStream
  <2>5. PipeNoStall'
    <3> SUFFICES ASSUME NEW u \in Tasks, ~lost', pc'[u] = "wait", ~woken'[u]
                 PROVE  PipeSleeper(u)'
      BY DEF PipeNoStall, PipeSleeper, Waiting
    <3>1. CASE u = t
      BY <1>1, <1>5, <2>0, <2>1, <3>1 DEF PipeSleeper
    <3>2. CASE u # t
      <4>1. pc[u] = "wait" /\ ~woken[u] /\ ~lost /\ u \notin writeWaker
        BY <2>2, <3>2 DEF Waiting
      <4>2. PipeSleeper(u)
        BY <4>1, SleepersKeep
      <4> QED BY <1>1, <2>1, <4>1, <4>2 DEF PipeSleeper
    <3> QED BY <3>1, <3>2
  <2>6. PipeCore'
    BY <1>1, <2>1, <2>2 DEF PipeCore, Waiting
  <2> QED BY <2>2, <2>3, <2>4, <2>5, <2>6 DEF PipeInv
<1> QED BY <1>3, <1>4, <1>5

\* The invariant is kept by every step of the pipe.
LEMMA PipePreserved ==
  ASSUME TasksTypeOK, PipeInv, PipeNext
  PROVE  TasksTypeOK' /\ PipeInv' /\ subject' = subject
<1>1. subject = "pipe"
  BY DEF PipeNext
<1>2. CASE PipeClose
  BY <1>1, <1>2, CloseKeeps
<1>3. ASSUME NEW t \in Tasks, PipeStep(t)
      PROVE  TasksTypeOK' /\ PipeInv' /\ subject' = subject
  BY <1>1, <1>3, ReadKeeps, WriteKeeps DEF PipeStep
<1>4. ASSUME NEW t \in Tasks, Cancel(t) \/ Nudge(t), UNCHANGED pipevars
      PROVE  TasksTypeOK' /\ PipeInv' /\ subject' = subject
  <2>1. /\ buffer' = buffer /\ readWaker' = readWaker /\ writeWaker' = writeWaker
        /\ pipeClosed' = pipeClosed /\ offset' = offset /\ got' = got /\ sent' = sent
    BY <1>4 DEF pipevars
  <2>2. /\ TasksTypeOK' /\ subject' = subject
        /\ \A u \in Tasks : \/ pc'[u] = pc[u] /\ (woken'[u] <=> woken[u])
                            \/ pc[u] = "wait" /\ pc'[u] = "gone"
                            \/ pc[u] = "wait" /\ pc'[u] = "wait" /\ woken'[u]
        /\ lost => lost'
    BY <1>4, AsideMoves
  <2>3. PipeTypeOK'
    BY <2>1 DEF PipeInv, PipeTypeOK
  <2>4. \A u \in PipeReaders : pc'[u] = "done" => pc[u] = "done"
    BY <2>2, PipeBounds
  <2>5. PipeStream'
    BY <2>1, <2>2, <2>4 DEF PipeInv, PipeStream
  <2>6. PipeNoStall'
    BY <2>1, <2>2 DEF PipeInv, PipeNoStall, Waiting
  <2>7. PipeCore'
    BY <1>1, <2>1, <2>2 DEF PipeInv, PipeCore, Waiting
  <2> QED BY <2>2, <2>3, <2>5, <2>6, <2>7 DEF PipeInv
<1> QED BY <1>2, <1>3, <1>4 DEF PipeNext
-----------------------------------------------------------------------------
\* Barrier.

\* A task has at most BarRounds calls.
LEMMA ReturnsBounded ==
  ASSUME NEW n
  PROVE  /\ IsFiniteSet(Returns(n)) /\ Cardinality(Returns(n)) \in Nat
         /\ Cardinality(Tasks) \in Nat /\ Cardinality(Tasks) * BarRounds \in Nat
         /\ Cardinality(Returns(n)) <= Cardinality(Tasks) * BarRounds
<1>1. IsFiniteSet(1 .. BarRounds) /\ Cardinality(1 .. BarRounds) = BarRounds
  <2>1. 1 \in Int /\ BarRounds \in Int /\ ~(1 > BarRounds) /\ BarRounds - 1 + 1 = BarRounds
    BY BarBounds
  <2> QED BY <2>1, FS_Interval
<1>2. /\ IsFiniteSet(Tasks \X (1 .. BarRounds))
      /\ Cardinality(Tasks \X (1 .. BarRounds)) = Cardinality(Tasks) * BarRounds
  BY <1>1, FS_Product, TaskSets
<1>3. Returns(n) \in SUBSET (Tasks \X (1 .. BarRounds))
  BY DEF Returns
<1>4. /\ IsFiniteSet(Returns(n))
      /\ Cardinality(Returns(n)) <= Cardinality(Tasks \X (1 .. BarRounds))
  BY <1>2, <1>3, FS_Subset
<1> QED BY <1>2, <1>4, FS_CardinalityType, TaskSets

\* One call more returns.
LEMMA ReturnsGrow ==
  ASSUME NEW n \in [Tasks -> 0 .. BarRounds], NEW t \in Tasks, n[t] < BarRounds
  PROVE  /\ [n EXCEPT ![t] = @ + 1] \in [Tasks -> 0 .. BarRounds]
         /\ Cardinality(Returns([n EXCEPT ![t] = @ + 1])) = Cardinality(Returns(n)) + 1
<1>1. PICK q : q = [n EXCEPT ![t] = @ + 1]
  OBVIOUS
<1>2. PICK k \in 1 .. BarRounds : k = n[t] + 1
  BY BarBounds
<1>3. q \in [Tasks -> 0 .. BarRounds] /\ q[t] = k /\ \A u \in Tasks : u # t => q[u] = n[u]
  BY <1>1, <1>2, BarBounds
<1>0. PICK c : c = <<t, k>>
  OBVIOUS
<1>4. c = <<t, k>> /\ c \in Tasks \X (1 .. BarRounds) /\ c[1] = t /\ c[2] = k
  BY <1>0
<1>5. \A r \in Tasks \X (1 .. BarRounds) :
        /\ r[1] \in Tasks /\ r[2] \in 1 .. BarRounds /\ r = <<r[1], r[2]>>
  OBVIOUS
<1>6. ASSUME NEW r \in Tasks \X (1 .. BarRounds)
      PROVE  r[2] <= q[r[1]] <=> r[2] <= n[r[1]] \/ r = c
  <2>1. PICK u \in Tasks, j \in 1 .. BarRounds : u = r[1] /\ j = r[2]
    BY <1>5
  <2>2. r = c <=> u = t /\ j = k
    BY <1>4, <1>5, <2>1
  <2>3. j <= q[u] <=> j <= n[u] \/ (u = t /\ j = k)
    BY <1>2, <1>3
  <2> QED BY <2>1, <2>2, <2>3
<1>7. Returns(q) = Returns(n) \cup {c}
  BY <1>4, <1>6 DEF Returns
<1>8. c \notin Returns(n)
  BY <1>2, <1>4 DEF Returns
<1>9. Cardinality(Returns(q)) = Cardinality(Returns(n)) + 1
  BY <1>7, <1>8, ReturnsBounded, FS_AddElement
<1> QED BY <1>1, <1>3, <1>9

\* What the types and the number of calls say of the generations.
LEMMA GensBounded ==
  ASSUME BarTypeOK
  PROVE  generation \in Nat /\ \A g \in BarGens : g \in Nat
BY ReturnsBounded DEF BarTypeOK, BarGens

\* Who is in the open generation has not been released from it.
LEMMA NotJoined ==
  ASSUME BarTypeOK, BarCore, NEW t \in Tasks, pc[t] \notin {"wait", "gone"} \/ myGen[t] # generation
  PROVE  t \notin joined[generation]
BY DEF BarCore

\* Wherever a task that had a call returned goes, it calls again only with rounds left.
LEMMA AfterPlaces ==
  ASSUME NEW t \in Tasks
  PROVE  /\ AfterWait(t) \in {"start", "done"} /\ AfterWait(t) \in Places
         /\ AfterWait(t) = "start" => released[t] + 1 < BarRounds
BY DEF AfterWait, Places

\* The open generation with one task more.
LEMMA JoinCounts ==
  ASSUME BarTypeOK, BarTogether, BarCore, subject = "barrier", NEW t \in Tasks, Join(t)
  PROVE  /\ joined' \in [BarGens -> SUBSET Tasks]
         /\ joined'[generation] = joined[generation] \cup {t}
         /\ Cardinality(joined'[generation]) = count + 1
         /\ \A g \in BarGens : g # generation => joined'[g] = joined[g]
         /\ myGen' \in [Tasks -> BarGens] /\ myGen'[t] = generation
         /\ \A u \in Tasks : u # t => myGen'[u] = myGen[u]
<1>1. /\ pc[t] = "start" /\ myGen' = [myGen EXCEPT ![t] = generation]
      /\ joined' = [joined EXCEPT ![generation] = @ \cup {t}]
  BY DEF Join
<1>2. /\ generation \in BarGens /\ myGen \in [Tasks -> BarGens]
      /\ joined \in [BarGens -> SUBSET Tasks] /\ joined[generation] \in SUBSET Tasks
  BY DEF BarTypeOK, BarCore
<1>3. t \notin joined[generation]
  BY <1>1, NotJoined
<1>4. IsFiniteSet(joined[generation])
  BY <1>2, FS_Subset, TaskSets
<1>5. Cardinality(joined[generation] \cup {t}) = Cardinality(joined[generation]) + 1
  BY <1>3, <1>4, FS_AddElement
<1>6. Cardinality(joined[generation]) = count
  BY DEF BarTogether
<1> QED BY <1>1, <1>2, <1>5, <1>6

\* The task that fills the generation ends it and wakes everybody in it.
LEMMA LeadKeeps ==
  ASSUME TasksTypeOK, BarInv, subject = "barrier", NEW t \in Tasks, BarLead(t)
  PROVE  TasksTypeOK' /\ BarInv' /\ subject' = subject
<1>1. /\ BarTypeOK /\ BarTogether /\ BarNoneLeft /\ BarCore /\ Join(t) /\ pc[t] = "start"
      /\ count + 1 = Threshold /\ count' = 0 /\ generation' = generation + 1
      /\ barWaiters' = <<>>
      /\ leaders' = [leaders EXCEPT ![generation] = @ \cup {t}]
      /\ released' = [released EXCEPT ![t] = @ + 1]
      /\ Goto(t, AfterWait(t), ToSet(barWaiters))
  BY DEF BarInv, BarLead, Release, Join
<1>2. PICK l \in {"start", "done"} : l = AfterWait(t)
  BY AfterPlaces
<1>3. TasksTypeOK' /\ Moved(t, l, ToSet(barWaiters))
  <2>1. l \in Places
    BY <1>2, AfterPlaces
  <2> QED BY <1>1, <1>2, <2>1, GotoMoves
<1>4. /\ joined' \in [BarGens -> SUBSET Tasks]
      /\ joined'[generation] = joined[generation] \cup {t}
      /\ Cardinality(joined'[generation]) = Threshold
      /\ \A g \in BarGens : g # generation => joined'[g] = joined[g]
      /\ myGen' \in [Tasks -> BarGens] /\ myGen'[t] = generation
      /\ \A u \in Tasks : u # t => myGen'[u] = myGen[u]
  BY <1>1, JoinCounts
<1>5. /\ released \in [Tasks -> 0 .. BarRounds] /\ released[t] < BarRounds
      /\ generation <= Cardinality(Returns(released))
      /\ leaders \in [BarGens -> SUBSET Tasks]
  BY <1>1 DEF BarCore
<1>6. /\ released' \in [Tasks -> 0 .. BarRounds] /\ released'[t] = released[t] + 1
      /\ \A u \in Tasks : u # t => released'[u] = released[u]
      /\ Cardinality(Returns(released')) = Cardinality(Returns(released)) + 1
  BY <1>1, <1>5, ReturnsGrow
<1>7. generation \in Nat /\ generation \in BarGens /\ \A g \in BarGens : g \in Nat
  BY <1>1, GensBounded DEF BarTypeOK
<1>8. generation' <= Cardinality(Returns(released')) /\ generation' \in BarGens
  <2>1. PICK a \in Nat, b \in Nat, c \in Nat :
          a = Cardinality(Returns(released)) /\ b = Cardinality(Returns(released'))
          /\ c = Cardinality(Tasks) * BarRounds
    BY ReturnsBounded
  <2>2. b <= c
    BY <2>1, ReturnsBounded
  <2>3. generation + 1 <= b /\ generation + 1 \in 0 .. c
    BY <1>5, <1>6, <1>7, <2>1, <2>2
  <2> QED BY <1>1, <2>1, <2>3 DEF BarGens
<1>9. /\ leaders' \in [BarGens -> SUBSET Tasks]
      /\ leaders'[generation] = leaders[generation] \cup {t}
      /\ \A g \in BarGens : g # generation => leaders'[g] = leaders[g]
  BY <1>1, <1>5, <1>7
<1>10. BarTypeOK'
  <2>1. count' \in 0 .. (Threshold - 1)
    BY <1>1, BarBounds
  <2>2. barWaiters' \in Seq(Tasks)
    BY <1>1
  <2> QED BY <1>4, <1>8, <2>1, <2>2 DEF BarTypeOK, BarGens
<1>11. \A g \in BarGens : g > generation => joined[g] = {} /\ leaders[g] = {}
  BY <1>1 DEF BarCore
<1>12. generation' > generation /\ generation' # generation
  BY <1>1, <1>7
<1>13. \A g \in BarGens : g >= generation' => joined'[g] = {} /\ leaders'[g] = {}
  <2> TAKE g \in BarGens
  <2>1. g >= generation' => g > generation /\ g # generation
    BY <1>1, <1>7
  <2> QED BY <1>4, <1>9, <1>11, <2>1
<1>14. joined'[generation'] = {} /\ leaders'[generation'] = {}
  <2>1. generation' >= generation'
    BY <1>1, <1>7
  <2> QED BY <1>8, <1>13, <2>1
<1>15. ASSUME NEW g \in BarGens, g < generation'
       PROVE  Cardinality(joined'[g]) = Threshold /\ Cardinality(leaders'[g] \cap joined'[g]) = 1
  <2>1. CASE g = generation
    <3>1. leaders[generation] = {}
      BY <1>1 DEF BarTogether
    <3>2. leaders'[g] \cap joined'[g] = {t}
      BY <1>4, <1>9, <2>1, <3>1
    <3> QED BY <1>4, <2>1, <3>2, FS_Singleton
  <2>2. CASE g # generation
    <3>1. g < generation
      BY <1>1, <1>7, <1>15, <2>2
    <3>2. Cardinality(joined[g]) = Threshold /\ Cardinality(leaders[g] \cap joined[g]) = 1
      BY <1>1, <3>1 DEF BarTogether
    <3> QED BY <1>4, <1>9, <2>2, <3>2
  <2> QED BY <2>1, <2>2
<1>16. \A u \in Tasks : myGen'[u] <= generation /\ myGen'[u] < generation'
  <2> TAKE u \in Tasks
  <2>1. myGen'[u] <= generation
    BY <1>1, <1>4, <1>7 DEF BarCore
  <2>2. myGen'[u] \in Nat
    BY <1>4, <1>7
  <2> QED BY <1>1, <1>7, <2>1, <2>2
<1>17. BarTogether'
  BY <1>1, <1>14, <1>15, <1>16, FS_EmptySet DEF BarTogether, BarGens
<1>18. ASSUME NEW u \in Tasks, pc'[u] = "wait" PROVE woken'[u] /\ u # t /\ pc[u] = "wait"
  <2>1. u # t /\ pc[u] = "wait"
    BY <1>2, <1>3, <1>18 DEF Moved
  <2>2. woken[u] \/ u \in ToSet(barWaiters)
    BY <1>1, <2>1 DEF BarNoneLeft, Waiting
  <2> QED BY <1>3, <2>1, <2>2 DEF Moved
<1>19. BarNoneLeft'
  <2>1. \A u \in Tasks : myGen'[u] # generation'
    BY <1>4, <1>7, <1>8, <1>16
  <2> QED BY <1>18, <2>1 DEF BarNoneLeft, Waiting
<1>20. BarCore'
  <2>1. ASSUME NEW u \in Tasks, pc'[u] = "start" PROVE released'[u] < BarRounds
    <3>1. CASE u = t
      BY <1>2, <1>3, <1>6, <2>1, <3>1, AfterPlaces DEF Moved
    <3>2. CASE u # t
      BY <1>1, <1>3, <1>6, <2>1, <3>2 DEF Moved, BarCore
    <3> QED BY <3>1, <3>2
  <2>2. ASSUME NEW u \in Tasks, pc'[u] = "wait" PROVE released'[u] < BarRounds
    BY <1>1, <1>6, <1>18, <2>2 DEF BarCore, Waiting
  <2>3. \A u \in Tasks : myGen'[u] <= generation'
    <3> TAKE u \in Tasks
    <3>1. myGen'[u] \in Nat /\ generation' \in Nat /\ myGen'[u] < generation'
      BY <1>4, <1>7, <1>8, <1>16
    <3> QED BY <3>1
  <2>4. \A g \in BarGens : g > generation' => joined'[g] = {} /\ leaders'[g] = {}
    <3> TAKE g \in BarGens
    <3>1. g \in Nat /\ generation' \in Nat
      BY <1>7, <1>8
    <3>2. g > generation' => g >= generation'
      BY <3>1
    <3> QED BY <1>13, <3>2
  <2> QED BY <1>4, <1>6, <1>8, <1>9, <1>14, <2>1, <2>2, <2>3, <2>4 DEF BarCore, BarGens, Waiting
<1> QED BY <1>3, <1>10, <1>17, <1>19, <1>20 DEF BarInv, Moved

\* A task that has to wait is counted and leaves its waker.
LEMMA RegisterKeeps ==
  ASSUME TasksTypeOK, BarInv, subject = "barrier", NEW t \in Tasks, BarRegister(t)
  PROVE  TasksTypeOK' /\ BarInv' /\ subject' = subject
<1>1. /\ BarTypeOK /\ BarTogether /\ BarNoneLeft /\ BarCore /\ Join(t) /\ pc[t] = "start"
      /\ count + 1 # Threshold /\ count' = count + 1
      /\ barWaiters' = Append(barWaiters, t)
      /\ Goto(t, "wait", {})
      /\ generation' = generation /\ leaders' = leaders /\ released' = released
  BY DEF BarInv, BarRegister, Join
<1>2. TasksTypeOK' /\ Moved(t, "wait", {})
  BY <1>1, GotoMoves DEF Places
<1>3. /\ joined' \in [BarGens -> SUBSET Tasks]
      /\ joined'[generation] = joined[generation] \cup {t}
      /\ Cardinality(joined'[generation]) = count + 1
      /\ \A g \in BarGens : g # generation => joined'[g] = joined[g]
      /\ myGen' \in [Tasks -> BarGens] /\ myGen'[t] = generation
      /\ \A u \in Tasks : u # t => myGen'[u] = myGen[u]
  BY <1>1, JoinCounts
<1>4. /\ barWaiters \in Seq(Tasks) /\ barWaiters' \in Seq(Tasks)
      /\ ToSet(barWaiters') = ToSet(barWaiters) \cup {t}
  BY <1>1, AppendToSet DEF BarTypeOK
<1>5. generation \in Nat /\ generation \in BarGens /\ \A g \in BarGens : g \in Nat
  BY <1>1, GensBounded DEF BarTypeOK
<1>6. BarTypeOK'
  <2>1. count' \in 0 .. (Threshold - 1)
    BY <1>1, BarBounds DEF BarTypeOK
  <2> QED BY <1>1, <1>3, <1>4, <1>5, <2>1 DEF BarTypeOK, BarGens
<1>7. BarTogether'
  <2>1. ASSUME NEW g \in BarGens, g < generation
        PROVE  Cardinality(joined'[g]) = Threshold /\ Cardinality(leaders[g] \cap joined'[g]) = 1
    <3>1. g # generation
      BY <1>5, <2>1
    <3>2. Cardinality(joined[g]) = Threshold /\ Cardinality(leaders[g] \cap joined[g]) = 1
      BY <1>1, <2>1 DEF BarTogether
    <3> QED BY <1>3, <3>1, <3>2
  <2>2. ASSUME NEW u \in Tasks, released[u] > 0, pc'[u] # "wait", pc'[u] # "gone"
        PROVE  myGen'[u] < generation
    <3>1. u # t /\ pc'[u] = pc[u]
      BY <1>2, <2>2 DEF Moved
    <3> QED BY <1>1, <1>3, <2>2, <3>1 DEF BarTogether, Waiting
  <2>3. leaders[generation] = {}
    BY <1>1 DEF BarTogether
  <2> QED BY <1>1, <1>3, <2>1, <2>2, <2>3 DEF BarTogether, BarGens, Waiting
<1>8. BarNoneLeft'
  <2> SUFFICES ASSUME NEW u \in Tasks, pc'[u] = "wait"
               PROVE  IF myGen'[u] = generation THEN u \in ToSet(barWaiters') ELSE woken'[u]
    BY <1>1 DEF BarNoneLeft, Waiting
  <2>1. CASE u = t
    BY <1>3, <1>4, <2>1
  <2>2. CASE u # t
    BY <1>1, <1>2, <1>3, <1>4, <2>2 DEF BarNoneLeft, Waiting, Moved
  <2> QED BY <2>1, <2>2
<1>9. BarCore'
  <2>1. ASSUME NEW u \in Tasks
        PROVE  /\ pc'[u] = "start" => released[u] < BarRounds
               /\ pc'[u] = "wait" => released[u] < BarRounds
    BY <1>1, <1>2 DEF BarCore, Moved, Waiting
  <2>2. \A u \in Tasks : myGen'[u] <= generation
    <3> TAKE u \in Tasks
    <3>1. CASE u = t
      BY <1>3, <1>5, <3>1
    <3>2. CASE u # t
      BY <1>1, <1>3, <3>2 DEF BarCore
    <3> QED BY <3>1, <3>2
  <2>3. ASSUME NEW u \in joined'[generation]
        PROVE  myGen'[u] = generation /\ pc'[u] \in {"wait", "gone"}
    <3>1. CASE u = t
      BY <1>2, <1>3, <3>1 DEF Moved
    <3>2. CASE u # t
      <4>1. u \in joined[generation] /\ u \in Tasks
        BY <1>3, <1>5, <2>3, <3>2
      <4>2. myGen[u] = generation /\ pc[u] \in {"wait", "gone"}
        BY <1>1, <4>1 DEF BarCore
      <4> QED BY <1>2, <1>3, <3>2, <4>1, <4>2 DEF Moved
    <3> QED BY <3>1, <3>2
  <2>4. ASSUME NEW g \in BarGens, g > generation PROVE joined'[g] = {} /\ leaders[g] = {}
    <3>1. g # generation
      BY <1>5, <2>4
    <3> QED BY <1>1, <1>3, <2>4, <3>1 DEF BarCore
  <2>5. /\ leaders \in [BarGens -> SUBSET Tasks] /\ released \in [Tasks -> 0 .. BarRounds]
        /\ generation <= Cardinality(Returns(released))
    BY <1>1 DEF BarCore
  <2> QED BY <1>1, <1>3, <2>1, <2>2, <2>3, <2>4, <2>5 DEF BarCore, BarGens, Waiting
<1> QED BY <1>2, <1>6, <1>7, <1>8, <1>9 DEF BarInv, Moved

\* A later poll: released once the generation has moved on.
LEMMA RepollKeeps ==
  ASSUME TasksTypeOK, BarInv, subject = "barrier", NEW t \in Tasks, BarRepoll(t)
  PROVE  TasksTypeOK' /\ BarInv' /\ subject' = subject
<1>1. /\ BarTypeOK /\ BarTogether /\ BarNoneLeft /\ BarCore /\ pc[t] = "wait" /\ woken[t]
      /\ count' = count /\ generation' = generation /\ barWaiters' = barWaiters
      /\ myGen' = myGen /\ joined' = joined /\ leaders' = leaders
  BY DEF BarInv, BarRepoll, Waiting
<1>2. /\ generation \in Nat /\ \A g \in BarGens : g \in Nat
      /\ \A u \in Tasks : myGen[u] \in Nat /\ myGen[u] <= generation
  BY <1>1, GensBounded DEF BarTypeOK, BarCore
<1>3. BarTypeOK'
  BY <1>1 DEF BarTypeOK
<1>4. /\ released \in [Tasks -> 0 .. BarRounds] /\ released[t] < BarRounds
      /\ generation <= Cardinality(Returns(released))
      /\ joined[generation] \subseteq Tasks
  BY <1>1 DEF BarCore, Waiting, BarTypeOK
<1>5. CASE generation # myGen[t]
  <2>1. released' = [released EXCEPT ![t] = @ + 1] /\ Goto(t, AfterWait(t), {})
    BY <1>5 DEF BarRepoll
  <2>2. PICK l \in {"start", "done"} : l = AfterWait(t)
    BY AfterPlaces
  <2>3. TasksTypeOK' /\ Moved(t, l, {})
    <3>1. l \in Places
      BY <2>2, AfterPlaces
    <3> QED BY <2>1, <2>2, <3>1, GotoMoves
  <2>4. /\ released' \in [Tasks -> 0 .. BarRounds] /\ released'[t] = released[t] + 1
        /\ \A u \in Tasks : u # t => released'[u] = released[u]
        /\ Cardinality(Returns(released')) = Cardinality(Returns(released)) + 1
    BY <1>4, <2>1, ReturnsGrow
  <2>5. generation <= Cardinality(Returns(released'))
    <3>1. Cardinality(Returns(released)) \in Nat
      BY ReturnsBounded
    <3> QED BY <1>2, <1>4, <2>4, <3>1
  <2>6. myGen[t] < generation
    BY <1>2, <1>5
  <2>7. BarTogether'
    <3>1. ASSUME NEW u \in Tasks, released'[u] > 0, pc'[u] # "wait", pc'[u] # "gone"
          PROVE  myGen[u] < generation
      <4>1. CASE u = t
        BY <2>6, <4>1
      <4>2. CASE u # t
        <5>1. pc'[u] = pc[u] /\ released'[u] = released[u]
          BY <2>3, <2>4, <4>2 DEF Moved
        <5> QED BY <1>1, <3>1, <5>1 DEF BarTogether, Waiting
      <4> QED BY <4>1, <4>2
    <3> QED BY <1>1, <3>1 DEF BarTogether, BarGens, Waiting
  <2>8. BarNoneLeft'
    BY <1>1, <2>2, <2>3 DEF BarNoneLeft, Waiting, Moved
  <2>9. BarCore'
    <3>1. ASSUME NEW u \in Tasks
          PROVE  /\ pc'[u] = "start" => released'[u] < BarRounds
                 /\ pc'[u] = "wait" => released'[u] < BarRounds
      <4>1. CASE u = t
        BY <2>2, <2>3, <2>4, <4>1, AfterPlaces DEF Moved
      <4>2. CASE u # t
        BY <1>1, <2>3, <2>4, <4>2 DEF Moved, BarCore, Waiting
      <4> QED BY <4>1, <4>2
    <3>2. ASSUME NEW u \in joined[generation]
          PROVE  myGen[u] = generation /\ pc'[u] \in {"wait", "gone"}
      <4>1. u \in Tasks /\ myGen[u] = generation /\ pc[u] \in {"wait", "gone"}
        BY <1>1, <1>4, <3>2 DEF BarCore
      <4> QED BY <1>5, <2>3, <4>1 DEF Moved
    <3> QED BY <1>1, <2>4, <2>5, <3>1, <3>2 DEF BarCore, BarGens, Waiting
  <2> QED BY <1>3, <2>3, <2>7, <2>8, <2>9 DEF BarInv, Moved
<1>6. CASE generation = myGen[t]
  <2>1. released' = released /\ Goto(t, "wait", {})
    BY <1>6 DEF BarRepoll
  <2>2. TasksTypeOK' /\ Moved(t, "wait", {})
    BY <2>1, GotoMoves DEF Places
  <2>3. \A u \in Tasks : pc'[u] = pc[u]
    BY <1>1, <2>2 DEF Moved
  <2>4. BarTogether'
    BY <1>1, <2>1, <2>2, <2>3 DEF BarTogether, BarGens, Waiting
  <2>5. BarNoneLeft'
    BY <1>1, <1>6, <2>2, <2>3 DEF BarNoneLeft, Waiting, Moved
  <2>6. BarCore'
    <3>1. \A u \in joined[generation] : u \in Tasks
      BY <1>4
    <3> QED BY <1>1, <2>1, <2>3, <3>1 DEF BarCore, BarGens, Waiting
  <2> QED BY <1>3, <2>2, <2>4, <2>5, <2>6 DEF BarInv, Moved
<1> QED BY <1>5, <1>6

\* The invariant is kept by every step of the barrier.
LEMMA BarPreserved ==
  ASSUME TasksTypeOK, BarInv, BarNext
  PROVE  TasksTypeOK' /\ BarInv' /\ subject' = subject
<1>1. subject = "barrier"
  BY DEF BarNext
<1>2. ASSUME NEW t \in Tasks, BarStep(t)
      PROVE  TasksTypeOK' /\ BarInv' /\ subject' = subject
  BY <1>1, <1>2, LeadKeeps, RegisterKeeps, RepollKeeps DEF BarStep
<1>3. ASSUME NEW t \in Tasks, Cancel(t) \/ Nudge(t), UNCHANGED barvars
      PROVE  TasksTypeOK' /\ BarInv' /\ subject' = subject
  <2>1. /\ count' = count /\ generation' = generation /\ barWaiters' = barWaiters
        /\ myGen' = myGen /\ joined' = joined /\ leaders' = leaders /\ released' = released
    BY <1>3 DEF barvars
  <2>2. /\ TasksTypeOK' /\ subject' = subject
        /\ \A u \in Tasks : \/ pc'[u] = pc[u] /\ (woken'[u] <=> woken[u])
                            \/ pc[u] = "wait" /\ pc'[u] = "gone"
                            \/ pc[u] = "wait" /\ pc'[u] = "wait" /\ woken'[u]
    BY <1>3, AsideMoves
  <2>3. BarTypeOK'
    BY <2>1 DEF BarInv, BarTypeOK
  <2>4. BarTogether'
    BY <1>1, <2>1, <2>2 DEF BarInv, BarTogether, BarGens, Waiting
  <2>5. BarNoneLeft'
    BY <2>1, <2>2 DEF BarInv, BarNoneLeft, Waiting
  <2>6. BarCore'
    <3>1. joined[generation] \subseteq Tasks
      BY <1>1 DEF BarInv, BarCore, BarTypeOK
    <3> QED BY <1>1, <2>1, <2>2, <3>1 DEF BarInv, BarCore, BarGens, Waiting
  <2> QED BY <2>2, <2>3, <2>4, <2>5, <2>6 DEF BarInv
<1> QED BY <1>2, <1>3 DEF BarNext
-----------------------------------------------------------------------------
\* All of them.

\* A primitive that the tasks do not use keeps its state, and so its invariant; so does
\* every primitive in a step that changes nothing.
LEMMA RwIdle ==
  ASSUME RwInv, UNCHANGED rwvars, subject' = subject, subject # "rwlock" \/ UNCHANGED tvars
  PROVE  RwInv'
<1>1. RwTypeOK'
  BY DEF RwInv, RwTypeOK, rwvars
<1>2. CASE subject # "rwlock"
  BY <1>1, <1>2 DEF RwInv, RwExclusion, RwNoStranded
<1>3. CASE UNCHANGED tvars
  BY <1>1, <1>3 DEF RwInv, RwExclusion, RwNoStranded, RwQueued, rwvars, tvars, Holders, Waiting
<1> QED BY <1>2, <1>3

\* The same for the semaphore.
LEMMA SemIdle ==
  ASSUME SemInv, UNCHANGED semvars, subject' = subject, subject # "semaphore" \/ UNCHANGED tvars
  PROVE  SemInv'
<1>1. SemTypeOK'
  BY DEF SemInv, SemTypeOK, semvars
<1>2. CASE subject # "semaphore"
  BY <1>1, <1>2 DEF SemInv, SemConserved
<1>3. CASE UNCHANGED tvars
  <2>1. HeldPermits' = HeldPermits
    BY <1>3 DEF HeldPermits, tvars, semvars
  <2> QED BY <1>1, <1>3, <2>1
          DEF SemInv, SemConserved, SemQueued, HeadTooLarge, semvars, tvars, Waiting
<1> QED BY <1>2, <1>3

\* The same for the barrier.
LEMMA BarIdle ==
  ASSUME BarInv, UNCHANGED barvars, subject' = subject, subject # "barrier" \/ UNCHANGED tvars
  PROVE  BarInv'
<1>1. BarTypeOK'
  BY DEF BarInv, BarTypeOK, barvars
<1>2. CASE subject # "barrier"
  BY <1>1, <1>2 DEF BarInv, BarTogether, BarNoneLeft
<1>3. CASE UNCHANGED tvars
  BY <1>1, <1>3 DEF BarInv, BarTogether, BarNoneLeft, BarCore, barvars, tvars, Waiting
<1> QED BY <1>2, <1>3

\* The same for the oneshot channel.
LEMMA OneIdle ==
  ASSUME OneInv, UNCHANGED onevars, subject' = subject, subject # "oneshot" \/ UNCHANGED tvars
  PROVE  OneInv'
<1>1. OneTypeOK'
  BY DEF OneInv, OneTypeOK, onevars
<1>2. CASE subject # "oneshot"
  BY <1>1, <1>2 DEF OneInv, OneDelivers
<1>3. CASE UNCHANGED tvars
  BY <1>1, <1>3 DEF OneInv, OneDelivers, OneCore, onevars, tvars, Waiting
<1> QED BY <1>2, <1>3

\* The same for the pipe.
LEMMA PipeIdle ==
  ASSUME PipeInv, UNCHANGED pipevars, subject' = subject, subject # "pipe" \/ UNCHANGED tvars
  PROVE  PipeInv'
<1>1. PipeTypeOK'
  BY DEF PipeInv, PipeTypeOK, pipevars
<1>2. CASE subject # "pipe"
  BY <1>1, <1>2 DEF PipeInv, PipeStream, PipeNoStall
<1>3. CASE UNCHANGED tvars
  BY <1>1, <1>3 DEF PipeInv, PipeStream, PipeNoStall, PipeCore, pipevars, tvars, Waiting
<1> QED BY <1>2, <1>3

\* The same for the group, whose state does not depend on the tasks.
LEMMA GroupIdle == ASSUME GroupInv, UNCHANGED groupvars PROVE GroupInv'
BY DEF GroupInv, GroupTypeOK, GroupJoined, GroupCore, Alive, groupvars

\* Every primitive starts idle, and every task before its first poll.
LEMMA InitInv == Init => IInv
<1> SUFFICES ASSUME Init PROVE IInv
  OBVIOUS
<1>1. /\ subject \in Subjects /\ pc = [t \in Tasks |-> "start"]
      /\ woken = [t \in Tasks |-> FALSE] /\ nudged = {} /\ lost = FALSE
      /\ RwInit /\ SemInit /\ BarInit /\ OneInit /\ PipeInit /\ GroupInit
  BY DEF Init, TasksInit
<1>2. TasksTypeOK /\ \A t \in Tasks : pc[t] = "start"
  BY <1>1 DEF TasksTypeOK
<1>3. \A t \in Tasks : ~Waiting(t)
  BY <1>2 DEF Waiting
<1>4. \A S : <<>> \in Seq(S)
  OBVIOUS
<1>5. RwInv
  <2>1. \A S \in SUBSET Tasks : Holders(S) = {}
    BY <1>2 DEF Holders
  <2>2. RwReaders \in SUBSET Tasks /\ RwWriters \in SUBSET Tasks
    BY RwSets DEF RwReaders
  <2>3. Cardinality({}) = 0
    BY FS_EmptySet
  <2>4. RwTypeOK
    BY <1>1, <1>4 DEF RwInit, RwTypeOK
  <2>5. RwExclusion
    BY <1>1, <2>1, <2>2, <2>3 DEF RwInit, RwExclusion
  <2> QED BY <1>3, <2>2, <2>4, <2>5 DEF RwInv, RwNoStranded, RwQueued
<1>6. SemInv
  <2>1. SemTypeOK
    BY <1>1, <1>4, SemBounds DEF SemInit, SemTypeOK
  <2>2. HeldPermits = {}
    <3>1. \A h \in Tasks \X (1 .. MaxNeed) : h[1] \in Tasks
      OBVIOUS
    <3> QED BY <1>2, <3>1 DEF HeldPermits
  <2>3. SemConserved
    BY <1>1, <2>2, FS_EmptySet, SemBounds DEF SemInit, SemConserved
  <2> QED BY <1>1, <1>3, <2>1, <2>3 DEF SemInv, SemQueued, HeadTooLarge, SemInit
<1>7. BarInv
  <2>1. /\ count = 0 /\ generation = 0 /\ barWaiters = <<>> /\ myGen = [t \in Tasks |-> 0]
        /\ joined = [g \in BarGens |-> {}] /\ leaders = [g \in BarGens |-> {}]
        /\ released = [t \in Tasks |-> 0]
    BY <1>1 DEF BarInit
  <2>2. 0 \in BarGens /\ \A g \in BarGens : ~(g < 0)
    BY ReturnsBounded DEF BarGens
  <2>3. 0 \in 0 .. (Threshold - 1) /\ 0 \in 0 .. BarRounds /\ 0 < BarRounds
    BY BarBounds
  <2>4. BarTypeOK
    BY <1>4, <2>1, <2>2, <2>3 DEF BarTypeOK
  <2>5. joined[0] = {} /\ leaders[0] = {}
    BY <2>1, <2>2
  <2>6. BarTogether
    BY <2>1, <2>2, <2>5, FS_EmptySet DEF BarTogether
  <2>7. 0 <= Cardinality(Returns(released))
    BY ReturnsBounded
  <2>8. BarCore
    BY <1>3, <2>1, <2>2, <2>3, <2>5, <2>7 DEF BarCore
  <2> QED BY <1>3, <2>4, <2>6, <2>8 DEF BarInv, BarNoneLeft
<1>8. OneInv
  <2>1. /\ OneReceiver \in Tasks /\ OneSender \in Tasks
    BY OneTasks
  <2>2. OneTypeOK
    BY <1>1 DEF OneInit, OneTypeOK
  <2> QED BY <1>1, <1>2, <1>3, <2>1, <2>2 DEF OneInv, OneInit, OneDelivers, OneCore
<1>9. PipeInv
  <2>1. /\ buffer = <<>> /\ got = <<>> /\ sent = <<>> /\ readWaker = {} /\ writeWaker = {}
        /\ offset = [t \in Tasks |-> 0]
    BY <1>1 DEF PipeInit
  <2>2. PipeWriters \subseteq Tasks /\ PipeReaders \subseteq Tasks
    BY PipeBounds
  <2>3. Len(<<>>) = 0 /\ DOMAIN <<>> = {} /\ <<>> \o <<>> = <<>>
    BY <1>4, ConcatEmptySeq
  <2>4. 0 \in 0 .. PipeBytes /\ 0 <= Capacity /\ 0 <= 1 /\ 1 .. 0 = {}
    BY PipeBounds
  <2>5. PipeTypeOK
    BY <2>1, <2>3, <2>4, FS_EmptySet DEF PipeTypeOK
  <2>6. PipeStream
    BY <1>2, <2>1, <2>2, <2>3, <2>4 DEF PipeStream
  <2>7. PipeCore
    BY <1>3, <1>4, <2>1 DEF PipeCore
  <2> QED BY <1>3, <2>5, <2>6, <2>7 DEF PipeInv, PipeNoStall
<1>10. GroupInv
  BY <1>1, <1>4 DEF GroupInv, GroupTypeOK, GroupJoined, GroupCore, GroupInit, Alive
<1> QED BY <1>2, <1>5, <1>6, <1>7, <1>8, <1>9, <1>10 DEF IInv

\* A step is a step of the primitive in use, or of the group, and the others are idle.
LEMMA NextInv == ASSUME IInv, [Next]_vars PROVE IInv'
<1> USE DEF IInv
<1>1. CASE RwNext /\ UNCHANGED NotRw
  <2>1. TasksTypeOK' /\ RwInv' /\ subject' = subject /\ subject = "rwlock"
    BY <1>1, RwPreserved DEF RwNext
  <2> QED BY <1>1, <2>1, SemIdle, BarIdle, OneIdle, PipeIdle, GroupIdle DEF NotRw
<1>2. CASE SemNext /\ UNCHANGED NotSem
  <2>1. TasksTypeOK' /\ SemInv' /\ subject' = subject /\ subject = "semaphore"
    BY <1>2, SemPreserved DEF SemNext
  <2> QED BY <1>2, <2>1, RwIdle, BarIdle, OneIdle, PipeIdle, GroupIdle DEF NotSem
<1>3. CASE BarNext /\ UNCHANGED NotBar
  <2>1. TasksTypeOK' /\ BarInv' /\ subject' = subject /\ subject = "barrier"
    BY <1>3, BarPreserved DEF BarNext
  <2> QED BY <1>3, <2>1, RwIdle, SemIdle, OneIdle, PipeIdle, GroupIdle DEF NotBar
<1>4. CASE OneNext /\ UNCHANGED NotOne
  <2>1. TasksTypeOK' /\ OneInv' /\ subject' = subject /\ subject = "oneshot"
    BY <1>4, OnePreserved DEF OneNext
  <2> QED BY <1>4, <2>1, RwIdle, SemIdle, BarIdle, PipeIdle, GroupIdle DEF NotOne
<1>5. CASE PipeNext /\ UNCHANGED NotPipe
  <2>1. TasksTypeOK' /\ PipeInv' /\ subject' = subject /\ subject = "pipe"
    BY <1>5, PipePreserved DEF PipeNext
  <2> QED BY <1>5, <2>1, RwIdle, SemIdle, BarIdle, OneIdle, GroupIdle DEF NotPipe
<1>6. CASE GroupNext /\ UNCHANGED NotGroup
  <2>1. TasksTypeOK' /\ GroupInv' /\ subject' = subject /\ subject = "group"
    BY <1>6, GroupPreserved DEF GroupNext
  <2> QED BY <1>6, <2>1, RwIdle, SemIdle, BarIdle, OneIdle, PipeIdle DEF NotGroup
<1>7. CASE UNCHANGED vars
  <2>1. /\ UNCHANGED tvars /\ UNCHANGED rwvars /\ UNCHANGED semvars /\ UNCHANGED barvars
        /\ UNCHANGED onevars /\ UNCHANGED pipevars /\ UNCHANGED groupvars
    BY <1>7 DEF vars
  <2>2. TasksTypeOK' /\ subject' = subject
    BY <2>1 DEF TasksTypeOK, tvars
  <2> QED BY <2>1, <2>2, RwIdle, SemIdle, BarIdle, OneIdle, PipeIdle, GroupIdle
<1> QED BY <1>1, <1>2, <1>3, <1>4, <1>5, <1>6, <1>7 DEF Next

\* The inductive invariant holds in every reachable state.
THEOREM Invariance == Spec => []IInv
BY InitInv, NextInv, PTL DEF Spec

\* The types of every primitive's state; a barrier never runs out of generations.
THEOREM TypeCorrect == Spec => []TypeOK
<1>1. IInv => TypeOK
  BY DEF IInv, TypeOK, RwInv, SemInv, BarInv, OneInv, PipeInv, GroupInv
<1> QED BY <1>1, Invariance, PTL

\* AsyncRwLock: a write guard excludes every other guard, and the counters count guards,
\* whoever barges in between a wake and its poll.
THEOREM RwLockExcludes == Spec => []RwExclusion
<1>1. IInv => RwExclusion
  BY DEF IInv, RwInv
<1> QED BY <1>1, Invariance, PTL

\* AsyncSemaphore: no permit is lost or made up.
THEOREM PermitsConserved == Spec => []SemConserved
<1>1. IInv => SemConserved
  BY DEF IInv, SemInv
<1> QED BY <1>1, Invariance, PTL

\* The guards of the lock and of the semaphore are accounted for.
THEOREM GuardsAreCounted == Spec => []GuardsCounted
BY RwLockExcludes, PermitsConserved, PTL DEF GuardsCounted

\* AsyncSemaphore: no task sleeps next to permits that nobody in front of it waits for.
THEOREM NoIdlePermits == Spec => []SemNoIdlePermits
<1>1. ASSUME IInv PROVE SemNoIdlePermits
  <2> SUFFICES ASSUME subject = "semaphore", NEW t \in Tasks, Waiting(t), ~woken[t]
               PROVE  t \in ToSet(semWaiters) /\ permits < need[Head(semWaiters)]
    BY DEF SemNoIdlePermits
  <2>1. t \in ToSet(semWaiters) /\ HeadTooLarge
    BY <1>1 DEF IInv, SemInv, SemQueued
  <2>2. semWaiters # <<>>
    BY <2>1, NoHandles DEF ToSet
  <2> QED BY <2>1, <2>2 DEF HeadTooLarge
<1> QED BY <1>1, Invariance, PTL

\* AsyncBarrier: wait() returns only after the threshold of different tasks arrived in
\* its generation, and true to exactly one of them.
THEOREM BarrierTogether == Spec => []BarTogether
<1>1. IInv => BarTogether
  BY DEF IInv, BarInv
<1> QED BY <1>1, Invariance, PTL

\* Nobody sleeps next to what it waits for at a lock, a semaphore, a barrier or a pipe.
THEOREM NobodyStranded == Spec => []NoneStranded
<1>1. IInv => RwNoStranded /\ BarNoneLeft /\ PipeNoStall
  BY DEF IInv, RwInv, BarInv, PipeInv
<1> QED BY <1>1, NoIdlePermits, Invariance, PTL DEF NoneStranded

\* What is sent through a oneshot channel or a pipe arrives, once and in order.
THEOREM AllDelivered == Spec => []Delivers
<1>1. IInv => Delivers
  BY DEF IInv, Delivers, OneInv, PipeInv
<1> QED BY <1>1, Invariance, PTL

\* nursery.rs: when wait_all has returned Ok the only children that can run are those
\* listed after it had taken the handles, and a handle reports as finished only a child
\* that is.
THEOREM GroupChildrenJoined == Spec => []GroupJoined
<1>1. IInv => GroupJoined
  BY DEF IInv, GroupInv
<1> QED BY <1>1, Invariance, PTL

-----------------------------------------------------------------------------
\* The oneshot channel implements ChannelStream.

\* The stream of the channel, by its own variables.
OneSentCount == [s \in {OneSender} |-> IF oneSent THEN 1 ELSE 0]
OneGotCount == [s \in {OneSender} |-> IF oneGot = "value" THEN 1 ELSE 0]
OnePhase == IF oneGot = "closed" THEN "ended" ELSE IF oneClosed THEN "closed" ELSE "open"

\* Steps that leave what was sent, what was received and the close alone.
LEMMA OneStutters ==
  ASSUME UNCHANGED <<oneSent, oneGot, oneClosed>>
  PROVE  UNCHANGED OneStream!svars
BY DEF OneStream!svars

\* send is accepted.
LEMMA OneSendAccepts ==
  ASSUME IInv, subject = "oneshot", OneSend
  PROVE  OneStream!Accept(OneSender)
<1>1. /\ pc[OneSender] = "start" /\ ~oneClosed /\ oneSent' = TRUE
      /\ UNCHANGED <<oneClosed, oneGot>>
  BY DEF OneSend
<1>2. ~oneSent /\ oneGot # "closed"
  BY <1>1 DEF IInv, OneInv, OneCore
<1>3. OnePhase = "open" /\ OnePhase' = OnePhase /\ OneGotCount' = OneGotCount
  BY <1>1, <1>2 DEF OnePhase, OneGotCount
<1>4. OneSentCount' = [OneSentCount EXCEPT ![OneSender] = @ + 1]
  BY <1>1, <1>2 DEF OneSentCount
<1> QED BY <1>3, <1>4 DEF OneStream!Accept, OnePhase, OneGotCount, OneSentCount

\* The sender's drop closes the channel.
LEMMA OneDropCloses ==
  ASSUME IInv, subject = "oneshot", OneDropSender
  PROVE  OneStream!Close
<1>1. /\ pc[OneSender] \in {"start", "held"} /\ oneClosed' = TRUE
      /\ UNCHANGED <<oneSent, oneGot>>
  BY DEF OneDropSender
<1>2. ~oneClosed /\ oneGot # "closed"
  BY <1>1 DEF IInv, OneInv, OneCore
<1> QED BY <1>1, <1>2 DEF OneStream!Close

\* A poll takes the value, is told the end, or waits.
LEMMA OnePollReceives ==
  ASSUME IInv, subject = "oneshot", OneRecvPoll
  PROVE  \/ OneStream!Deliver(OneSender) \/ OneStream!End
         \/ UNCHANGED OneStream!svars
<1>1. pc[OneReceiver] # "done" /\ UNCHANGED <<oneClosed, oneSent>>
  BY DEF OneRecvPoll, OneReceive, Runs
<1>2. oneGot = "nothing" /\ OneCore
  BY <1>1 DEF IInv, OneInv, OneCore
<1>3. CASE oneValue /\ oneGot' = "value"
  <2>1. oneSent
    BY <1>2, <1>3 DEF OneCore
  <2>2. OneGotCount' = [OneGotCount EXCEPT ![OneSender] = @ + 1]
    BY <1>2, <1>3 DEF OneGotCount
  <2>3. OneGotCount[OneSender] < OneSentCount[OneSender] /\ OneSentCount' = OneSentCount
    BY <1>1, <1>2, <2>1 DEF OneGotCount, OneSentCount
  <2>4. OnePhase # "ended" /\ OnePhase' = OnePhase
    BY <1>1, <1>2, <1>3 DEF OnePhase
  <2>5. OneStream!Deliver(OneSender)
    BY <2>2, <2>3, <2>4 DEF OneStream!Deliver, OnePhase, OneGotCount, OneSentCount
  <2> QED BY <2>5
<1>4. CASE ~oneValue /\ oneClosed /\ oneGot' = "closed"
  <2>1. ~oneSent
    BY <1>2, <1>4 DEF OneCore
  <2>2. OneGotCount = OneSentCount /\ OneGotCount' = OneGotCount /\ OneSentCount' = OneSentCount
    BY <1>1, <1>2, <1>4, <2>1 DEF OneGotCount, OneSentCount
  <2>3. OnePhase = "closed" /\ OnePhase' = "ended"
    BY <1>2, <1>4 DEF OnePhase
  <2>4. OneStream!End
    BY <2>2, <2>3 DEF OneStream!End, OnePhase, OneGotCount, OneSentCount
  <2> QED BY <2>4
<1>5. CASE oneGot' = oneGot
  BY <1>1, <1>5, OneStutters
<1> QED BY <1>3, <1>4, <1>5 DEF OneRecvPoll, OneReceive

\* Every step is a step of the stream or invisible there.
LEMMA OneStreamStep == ASSUME IInv, [Next]_vars PROVE [OneStream!Next]_(OneStream!svars)
<1>1. CASE UNCHANGED onevars
  BY <1>1, OneStutters DEF onevars
<1>2. CASE OneNext
  <2>1. subject = "oneshot"
    BY <1>2 DEF OneNext
  <2>2. PICK t \in Tasks : OneStep(t) \/ ((Cancel(t) \/ Nudge(t)) /\ UNCHANGED onevars)
    BY <1>2 DEF OneNext
  <2>3. CASE OneSend
    BY <2>1, <2>3, OneSendAccepts DEF OneStream!Next
  <2>4. CASE OneDropSender
    BY <2>1, <2>4, OneDropCloses DEF OneStream!Next
  <2>5. CASE OneRecvPoll
    BY <2>1, <2>5, OnePollReceives DEF OneStream!Next
  <2> QED BY <1>1, <2>2, <2>3, <2>4, <2>5 DEF OneStep
<1> QED BY <1>1, <1>2 DEF Next, vars, NotRw, NotSem, NotBar, NotPipe, NotGroup

\* channel.rs: the two ends of a oneshot channel see a stream of one message: the value
\* that was sent, or its end if there was none, however send, drop and polls interleave.
THEOREM OneshotRefinement == Spec => OneImplementsStream
<1>1. Init => OneStream!Init
  BY DEF Init, OneInit, OneStream!Init
<1> QED BY <1>1, OneStreamStep, Invariance, PTL DEF Spec, OneImplementsStream, OneStream!Spec
=============================================================================
