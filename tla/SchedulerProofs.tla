--------------------------- MODULE SchedulerProofs --------------------------
(***************************************************************************)
(* Proofs about Scheduler.tla, for any number of tasks and workers: type   *)
(* correctness, exclusive polling of futures, consistency of a task's      *)
(* handle, that the scheduler implements TaskLifecycle, that no suspended  *)
(* task is forgotten and that no worker sleeps while tasks are queued.     *)
(***************************************************************************)
EXTENDS Scheduler, FiniteSetTheorems, TLAPS

\* The inductive invariant.  PollExclusion and HandleConsistent need to know
\* which task each thread is working on and that what it is about to do to it
\* is still justified, which is ThreadConsistent.
IInv == TypeOK /\ PollExclusion /\ HandleConsistent /\ ThreadConsistent

-----------------------------------------------------------------------------
\* Threads, tasks and NoOne are told apart (NamesDistinct).
LEMMA Names ==
  /\ Main \notin Tasks /\ Main \notin Workers
  /\ NoOne \notin Tasks /\ NoOne \notin Workers /\ NoOne # Main
BY NamesDistinct DEF Owners, Threads

\* The positions a thread can be given.
LEMMA PcNames ==
  /\ {"loop", "pop", "check", "parking", "wait", "exit"} \subseteq Pcs
  /\ {"run", "abort", "lock", "polling", "armed", "finish"} \subseteq Pcs
  /\ {"poll", "notify", "drop", "cancel"} \subseteq Pcs
BY DEF Pcs, WorkerPcs, RunPcs, MainPcs

-----------------------------------------------------------------------------
\* What notify_one, Push and Wake may do to the threads and to the queue.

\* q is p with at most some waiting workers sent back to the loop.
Notified(p, q) ==
  /\ q \in [Threads -> Pcs]
  /\ \A u \in Threads : q[u] = p[u] \/ (p[u] = "wait" /\ q[u] = "loop")

\* The queue grew by entries of o only.
QueueGrew(o) ==
  /\ injector' \in Seq(Tasks)
  /\ \A i \in DOMAIN injector' :
       \/ o \in Tasks /\ injector'[i] = o
       \/ i \in DOMAIN injector /\ injector'[i] = injector[i]

\* Condvar::notify_one moves nothing but a waiting worker.
LEMMA NotifyOneEffect ==
  ASSUME NEW p \in [Threads -> Pcs], NEW q \in NotifyOne(p)
  PROVE  Notified(p, q)
<1>1. CASE q = p
  BY <1>1 DEF Notified
<1>2. CASE \E w \in Workers : p[w] = "wait" /\ q = [p EXCEPT ![w] = "loop"]
  <2>1. PICK w \in Workers : p[w] = "wait" /\ q = [p EXCEPT ![w] = "loop"]
    BY <1>2
  <2> QED BY <2>1, PcNames DEF Notified, Threads
<1> QED BY <1>1, <1>2 DEF NotifyOne

\* A push adds one entry at the end of the queue.
LEMMA PushEffect ==
  ASSUME injector \in Seq(Tasks), NEW t \in Tasks, NEW p \in [Threads -> Pcs],
         Push(t, p)
  PROVE  Notified(p, pc') /\ QueueGrew(t)
<1>1. Notified(p, pc')
  BY NotifyOneEffect DEF Push
<1>2. injector' = Append(injector, t)
  BY DEF Push
<1> QED BY <1>1, <1>2 DEF QueueGrew

\* A wake adds at most one entry, of the task woken.
LEMMA WakeEffect ==
  ASSUME injector \in Seq(Tasks), NEW o, NEW p \in [Threads -> Pcs], Wake(o, p)
  PROVE  Notified(p, pc') /\ QueueGrew(o)
<1>1. CASE o \in Tasks /\ ~cancelled[o]
  BY <1>1, PushEffect DEF Wake
<1>2. CASE ~(o \in Tasks /\ ~cancelled[o])
  BY <1>2 DEF Wake, Notified, QueueGrew
<1> QED BY <1>1, <1>2

-----------------------------------------------------------------------------
\* How the polling of futures changes in a step: not at all, or one thread
\* starts or stops to poll one task.

\* Exclusion survives a step that changes neither slots nor who polls.
LEMMA ExclusionKept ==
  ASSUME PollExclusion, fut' = fut,
         \A u \in Threads, t \in Tasks : Polls(u, t)' <=> Polls(u, t)
  PROVE  PollExclusion'
BY DEF PollExclusion

\* Exclusion survives a thread that takes a future nobody polls.
LEMMA ExclusionStart ==
  ASSUME PollExclusion, NEW th \in Threads, NEW t \in Tasks,
         fut \in [Tasks -> {"none", "some", "taken", "gone"}],
         \A u \in Threads : ~Polls(u, t),
         fut' = [fut EXCEPT ![t] = "taken"],
         \A u \in Threads, x \in Tasks :
           Polls(u, x)' <=> (Polls(u, x) \/ (u = th /\ x = t))
  PROVE  PollExclusion'
BY DEF PollExclusion

\* Exclusion survives a thread that gives up the future it polls.
LEMMA ExclusionStop ==
  ASSUME PollExclusion, NEW t \in Tasks, NEW v, v # "taken",
         fut \in [Tasks -> {"none", "some", "taken", "gone"}],
         fut' = [fut EXCEPT ![t] = v],
         \A u \in Threads, x \in Tasks :
           Polls(u, x)' <=> (Polls(u, x) /\ x # t)
  PROVE  PollExclusion'
BY DEF PollExclusion

\* A step of th that forgets no spawned task and withdraws no cancellation
\* leaves the other threads consistent.
LEMMA ThreadsKept ==
  ASSUME TypeOK, ThreadConsistent, NEW th,
         \A x \in Tasks : fut[x] # "none" => fut'[x] # "none",
         \A x \in Tasks : cancelled[x] => cancelled'[x],
         \A u \in Threads : u # th =>
           /\ pc'[u] = pc[u] \/ (pc[u] = "wait" /\ pc'[u] = "loop")
           /\ cur'[u] = cur[u] /\ target'[u] = target[u],
         th \in Threads => ThreadOK(th)',
         WakersOK'
  PROVE  ThreadConsistent'
<1>1. ASSUME NEW u \in Threads, u # th
      PROVE  ThreadOK(u)'
  <2>1. ThreadOK(u) /\ cur[u] \in Tasks \cup {NoOne} /\ target[u] \in Tasks \cup {NoOne}
    BY DEF ThreadConsistent, TypeOK
  <2> QED BY <1>1, <2>1, Names DEF ThreadOK, RunPcs
<1> QED BY <1>1 DEF ThreadConsistent

\* The queue and the wakers stay those of spawned tasks when the queue only grew
\* by a spawned task and no waker was stored.
LEMMA WakersKept ==
  ASSUME TypeOK, WakersOK, NEW o, QueueGrew(o),
         o \in Tasks => fut'[o] # "none",
         \A x \in Tasks : fut[x] # "none" => fut'[x] # "none",
         \A x \in Tasks : waiter'[x] = waiter[x] \/ waiter'[x] = NoOne,
         \A x \in Tasks : ext'[x] => ext[x]
  PROVE  WakersOK'
<1>1. \A i \in DOMAIN injector' : fut'[injector'[i]] # "none"
  BY DEF QueueGrew, WakersOK, TypeOK
<1>2. \A x \in Tasks : waiter'[x] \in Tasks => fut'[waiter'[x]] # "none"
  BY Names DEF WakersOK, TypeOK
<1> QED BY <1>1, <1>2 DEF WakersOK

-----------------------------------------------------------------------------
\* The invariant is preserved by each action: first the steps of worker_loop,
\* pop_task and the bodies, which call no waker.

\* The top of worker_loop: only the position of one worker changes.
LEMMA LoopTopInv ==
  ASSUME IInv, NEW th \in Workers, LoopTop(th)
  PROVE  IInv'
<1> USE DEF IInv
<1>1. TypeOK'
  BY Names, PcNames DEF TypeOK, Threads, Owners, LoopTop, qvars, tvars,
                        cvars, uvars
<1>2. PollExclusion'
  <2>1. \A u \in Threads, t \in Tasks : Polls(u, t)' <=> Polls(u, t)
    BY Names DEF TypeOK, Polls, HoldsFuture, ThreadConsistent, ThreadOK,
                 RunPcs, Threads, LoopTop, qvars, tvars, cvars, uvars
  <2> QED BY <2>1, ExclusionKept DEF LoopTop, qvars, tvars, cvars, uvars
<1>3. HandleConsistent'
  BY DEF TypeOK, HandleConsistent, Completed, LoopTop, qvars, tvars, cvars,
         uvars
<1>4. ThreadConsistent'
  <2>1. WakersOK'
    BY Names DEF TypeOK, ThreadConsistent, WakersOK, ThreadOK, RunPcs,
                 Owners, LoopTop, qvars, tvars, cvars, uvars
  <2>2. ThreadOK(th)'
    BY Names DEF TypeOK, ThreadConsistent, WakersOK, HandleConsistent,
                 ThreadOK, RunPcs, Threads, LoopTop, qvars, tvars, cvars,
                 uvars
  <2> QED BY <2>1, <2>2, ThreadsKept DEF TypeOK, Threads, LoopTop, qvars, tvars,
                                         cvars, uvars
<1> QED BY <1>1, <1>2, <1>3, <1>4

\* The emptiness check under the injector's lock touches no task.
LEMMA ParkCheckInv ==
  ASSUME IInv, NEW th \in Workers, ParkCheck(th)
  PROVE  IInv'
<1> USE DEF IInv
<1>1. TypeOK'
  BY Names, PcNames DEF TypeOK, Threads, Owners, ParkCheck, qvars, tvars,
                        cvars, uvars
<1>2. PollExclusion'
  <2>1. \A u \in Threads, t \in Tasks : Polls(u, t)' <=> Polls(u, t)
    BY Names DEF TypeOK, Polls, HoldsFuture, ThreadConsistent, ThreadOK,
                 RunPcs, Threads, ParkCheck, qvars, tvars, cvars, uvars
  <2> QED BY <2>1, ExclusionKept DEF ParkCheck, qvars, tvars, cvars, uvars
<1>3. HandleConsistent'
  BY DEF TypeOK, HandleConsistent, Completed, ParkCheck, qvars, tvars,
         cvars, uvars
<1>4. ThreadConsistent'
  <2>1. WakersOK'
    BY Names DEF TypeOK, ThreadConsistent, WakersOK, ThreadOK, RunPcs,
                 Owners, ParkCheck, qvars, tvars, cvars, uvars
  <2>2. ThreadOK(th)'
    BY Names DEF TypeOK, ThreadConsistent, WakersOK, HandleConsistent,
                 ThreadOK, RunPcs, Threads, ParkCheck, qvars, tvars, cvars,
                 uvars
  <2> QED BY <2>1, <2>2, ThreadsKept DEF TypeOK, Threads, ParkCheck, qvars, tvars,
                                         cvars, uvars
<1> QED BY <1>1, <1>2, <1>3, <1>4

\* Going to sleep on the condvar touches no task.
LEMMA ParkWaitInv ==
  ASSUME IInv, NEW th \in Workers, ParkWait(th)
  PROVE  IInv'
<1> USE DEF IInv
<1>1. TypeOK'
  BY Names, PcNames DEF TypeOK, Threads, Owners, ParkWait, qvars, tvars,
                        cvars, uvars
<1>2. PollExclusion'
  <2>1. \A u \in Threads, t \in Tasks : Polls(u, t)' <=> Polls(u, t)
    BY Names DEF TypeOK, Polls, HoldsFuture, ThreadConsistent, ThreadOK,
                 RunPcs, Threads, ParkWait, qvars, tvars, cvars, uvars
  <2> QED BY <2>1, ExclusionKept DEF ParkWait, qvars, tvars, cvars, uvars
<1>3. HandleConsistent'
  BY DEF TypeOK, HandleConsistent, Completed, ParkWait, qvars, tvars, cvars,
         uvars
<1>4. ThreadConsistent'
  <2>1. WakersOK'
    BY Names DEF TypeOK, ThreadConsistent, WakersOK, ThreadOK, RunPcs,
                 Owners, ParkWait, qvars, tvars, cvars, uvars
  <2>2. ThreadOK(th)'
    BY Names DEF TypeOK, ThreadConsistent, WakersOK, HandleConsistent,
                 ThreadOK, RunPcs, Threads, ParkWait, qvars, tvars, cvars,
                 uvars
  <2> QED BY <2>1, <2>2, ThreadsKept DEF TypeOK, Threads, ParkWait, qvars, tvars,
                                         cvars, uvars
<1> QED BY <1>1, <1>2, <1>3, <1>4

\* Waking up from the condvar touches no task.
LEMMA ParkTimeoutInv ==
  ASSUME IInv, NEW th \in Workers, ParkTimeout(th)
  PROVE  IInv'
<1> USE DEF IInv
<1>1. TypeOK'
  BY Names, PcNames DEF TypeOK, Threads, Owners, ParkTimeout, qvars, tvars,
                        cvars, uvars
<1>2. PollExclusion'
  <2>1. \A u \in Threads, t \in Tasks : Polls(u, t)' <=> Polls(u, t)
    BY Names DEF TypeOK, Polls, HoldsFuture, ThreadConsistent, ThreadOK,
                 RunPcs, Threads, ParkTimeout, qvars, tvars, cvars, uvars
  <2> QED BY <2>1, ExclusionKept DEF ParkTimeout, qvars, tvars, cvars, uvars
<1>3. HandleConsistent'
  BY DEF TypeOK, HandleConsistent, Completed, ParkTimeout, qvars, tvars,
         cvars, uvars
<1>4. ThreadConsistent'
  <2>1. WakersOK'
    BY Names DEF TypeOK, ThreadConsistent, WakersOK, ThreadOK, RunPcs,
                 Owners, ParkTimeout, qvars, tvars, cvars, uvars
  <2>2. ThreadOK(th)'
    BY Names DEF TypeOK, ThreadConsistent, WakersOK, HandleConsistent,
                 ThreadOK, RunPcs, Threads, ParkTimeout, qvars, tvars,
                 cvars, uvars
  <2> QED BY <2>1, <2>2, ThreadsKept DEF TypeOK, Threads, ParkTimeout, qvars, tvars,
                                         cvars, uvars
<1> QED BY <1>1, <1>2, <1>3, <1>4

\* pop_task hands an entry of the queue, a spawned task, to one thread.
LEMMA PopTaskInv ==
  ASSUME IInv, NEW th \in Threads, PopTask(th)
  PROVE  IInv'
<1> USE DEF IInv
<1>1. TypeOK'
  BY Names, PcNames DEF TypeOK, Threads, Owners, PopTask, qvars, tvars,
                        cvars, uvars
<1>2. PollExclusion'
  <2>1. \A u \in Threads, t \in Tasks : Polls(u, t)' <=> Polls(u, t)
    BY Names DEF TypeOK, Polls, HoldsFuture, ThreadConsistent, ThreadOK,
                 RunPcs, Threads, PopTask, qvars, tvars, cvars, uvars
  <2> QED BY <2>1, ExclusionKept DEF PopTask, qvars, tvars, cvars, uvars
<1>3. HandleConsistent'
  BY DEF TypeOK, HandleConsistent, Completed, PopTask, qvars, tvars, cvars,
         uvars
<1>4. ThreadConsistent'
  <2>1. WakersOK'
    BY Names DEF TypeOK, ThreadConsistent, WakersOK, ThreadOK, RunPcs,
                 Owners, PopTask, qvars, tvars, cvars, uvars
  <2>2. ThreadOK(th)'
    BY Names DEF TypeOK, ThreadConsistent, WakersOK, HandleConsistent,
                 ThreadOK, RunPcs, Threads, PopTask, qvars, tvars, cvars,
                 uvars
  <2> QED BY <2>1, <2>2, ThreadsKept DEF TypeOK, Threads, PopTask, qvars, tvars,
                                         cvars, uvars
<1> QED BY <1>1, <1>2, <1>3, <1>4

\* pop_task finds nothing: only a position changes.
LEMMA PopNoneInv ==
  ASSUME IInv, NEW th \in Threads, PopNone(th)
  PROVE  IInv'
<1> USE DEF IInv
<1>1. TypeOK'
  BY Names, PcNames DEF TypeOK, Threads, Owners, PopNone, qvars, tvars,
                        cvars, uvars
<1>2. PollExclusion'
  <2>1. \A u \in Threads, t \in Tasks : Polls(u, t)' <=> Polls(u, t)
    BY Names DEF TypeOK, Polls, HoldsFuture, ThreadConsistent, ThreadOK,
                 RunPcs, Threads, PopNone, qvars, tvars, cvars, uvars
  <2> QED BY <2>1, ExclusionKept DEF PopNone, qvars, tvars, cvars, uvars
<1>3. HandleConsistent'
  BY DEF TypeOK, HandleConsistent, Completed, PopNone, qvars, tvars, cvars,
         uvars
<1>4. ThreadConsistent'
  <2>1. WakersOK'
    BY Names DEF TypeOK, ThreadConsistent, WakersOK, ThreadOK, RunPcs,
                 Owners, PopNone, qvars, tvars, cvars, uvars
  <2>2. ThreadOK(th)'
    BY Names DEF TypeOK, ThreadConsistent, WakersOK, HandleConsistent,
                 ThreadOK, RunPcs, Threads, PopNone, qvars, tvars, cvars,
                 uvars
  <2> QED BY <2>1, <2>2, ThreadsKept DEF TypeOK, Threads, PopNone, qvars, tvars,
                                         cvars, uvars
<1> QED BY <1>1, <1>2, <1>3, <1>4

\* The cancellation check of run: the flag that was seen stays up.
LEMMA RunCheckInv ==
  ASSUME IInv, NEW th \in Threads, RunCheck(th)
  PROVE  IInv'
<1> USE DEF IInv
<1>1. TypeOK'
  BY Names, PcNames DEF TypeOK, Threads, Owners, RunCheck, qvars, tvars,
                        cvars, uvars
<1>2. PollExclusion'
  <2>1. \A u \in Threads, t \in Tasks : Polls(u, t)' <=> Polls(u, t)
    BY Names DEF TypeOK, Polls, HoldsFuture, ThreadConsistent, ThreadOK,
                 RunPcs, Threads, RunCheck, qvars, tvars, cvars, uvars
  <2> QED BY <2>1, ExclusionKept DEF RunCheck, qvars, tvars, cvars, uvars
<1>3. HandleConsistent'
  BY DEF TypeOK, HandleConsistent, Completed, RunCheck, qvars, tvars, cvars,
         uvars
<1>4. ThreadConsistent'
  <2>1. WakersOK'
    BY Names DEF TypeOK, ThreadConsistent, WakersOK, ThreadOK, RunPcs,
                 Owners, RunCheck, qvars, tvars, cvars, uvars
  <2>2. ThreadOK(th)'
    BY Names DEF TypeOK, ThreadConsistent, WakersOK, HandleConsistent,
                 ThreadOK, RunPcs, Threads, RunCheck, qvars, tvars, cvars,
                 uvars
  <2> QED BY <2>1, <2>2, ThreadsKept DEF TypeOK, Threads, RunCheck, qvars, tvars,
                                         cvars, uvars
<1> QED BY <1>1, <1>2, <1>3, <1>4

\* A future that returned Ready is still held by its thread.
LEMMA PollReadyInv ==
  ASSUME IInv, NEW th \in Threads, PollReady(th)
  PROVE  IInv'
<1> USE DEF IInv
<1>1. TypeOK'
  BY Names, PcNames DEF TypeOK, Threads, Owners, PollReady, qvars, tvars,
                        cvars, uvars
<1>2. PollExclusion'
  <2>1. \A u \in Threads, t \in Tasks : Polls(u, t)' <=> Polls(u, t)
    BY Names DEF TypeOK, Polls, HoldsFuture, ThreadConsistent, ThreadOK,
                 RunPcs, Threads, PollReady, qvars, tvars, cvars, uvars
  <2> QED BY <2>1, ExclusionKept DEF PollReady, qvars, tvars, cvars, uvars
<1>3. HandleConsistent'
  BY DEF TypeOK, HandleConsistent, Completed, PollReady, qvars, tvars,
         cvars, uvars
<1>4. ThreadConsistent'
  <2>1. WakersOK'
    BY Names DEF TypeOK, ThreadConsistent, WakersOK, ThreadOK, RunPcs,
                 Owners, PollReady, qvars, tvars, cvars, uvars
  <2>2. ThreadOK(th)'
    BY Names DEF TypeOK, ThreadConsistent, WakersOK, HandleConsistent,
                 ThreadOK, RunPcs, Threads, PollReady, qvars, tvars, cvars,
                 uvars
  <2> QED BY <2>1, <2>2, ThreadsKept DEF TypeOK, Threads, PollReady, qvars, tvars,
                                         cvars, uvars
<1> QED BY <1>1, <1>2, <1>3, <1>4

\* JoinHandle::cancel raises the flag of a spawned task.
LEMMA CancelFlagInv ==
  ASSUME IInv, NEW th \in Threads, NEW o \in Owners, NEW c \in Tasks, CancelFlag(th, o, c)
  PROVE  IInv'
<1> USE DEF IInv
<1>1. TypeOK'
  BY Names, PcNames DEF TypeOK, Threads, Owners, CancelFlag, Running, qvars,
                        tvars, cvars, uvars
<1>2. PollExclusion'
  <2>1. \A u \in Threads, t \in Tasks : Polls(u, t)' <=> Polls(u, t)
    BY Names, ZenonT(30) DEF TypeOK, Polls, HoldsFuture, ThreadConsistent, ThreadOK,
                 RunPcs, Threads, CancelFlag, Running, qvars, tvars, cvars,
                 uvars
  <2> QED BY <2>1, ExclusionKept DEF CancelFlag, Running, qvars, tvars, cvars, uvars
<1>3. HandleConsistent'
  BY DEF TypeOK, HandleConsistent, Completed, CancelFlag, Running, qvars,
         tvars, cvars, uvars
<1>4. ThreadConsistent'
  <2>1. WakersOK'
    BY Names DEF TypeOK, ThreadConsistent, WakersOK, ThreadOK, RunPcs,
                 Owners, CancelFlag, Running, qvars, tvars, cvars, uvars
  <2>2. ThreadOK(th)'
    BY Names DEF TypeOK, ThreadConsistent, WakersOK, HandleConsistent,
                 ThreadOK, RunPcs, Threads, CancelFlag, Running, qvars,
                 tvars, cvars, uvars
  <2> QED BY <2>1, <2>2, ThreadsKept DEF TypeOK, Threads, CancelFlag, Running, qvars,
                                         tvars, cvars, uvars
<1> QED BY <1>1, <1>2, <1>3, <1>4

\* JoinHandle::poll on a Running task stores a waker of a running task.
LEMMA JoinPendingInv ==
  ASSUME IInv, NEW th \in Threads, NEW o \in Owners, NEW c \in Tasks, JoinPending(th, o, c)
  PROVE  IInv'
<1> USE DEF IInv
<1>1. TypeOK'
  BY Names, PcNames DEF TypeOK, Threads, Owners, JoinPending, Running,
                        qvars, tvars, cvars, uvars
<1>2. PollExclusion'
  <2>1. \A u \in Threads, t \in Tasks : Polls(u, t)' <=> Polls(u, t)
    BY Names DEF TypeOK, Polls, HoldsFuture, ThreadConsistent, ThreadOK,
                 RunPcs, Threads, JoinPending, Running, qvars, tvars, cvars,
                 uvars
  <2> QED BY <2>1, ExclusionKept DEF JoinPending, Running, qvars, tvars, cvars, uvars
<1>3. HandleConsistent'
  BY DEF TypeOK, HandleConsistent, Completed, JoinPending, Running, qvars,
         tvars, cvars, uvars
<1>4. ThreadConsistent'
  <2>1. WakersOK'
    BY Names DEF TypeOK, ThreadConsistent, WakersOK, ThreadOK, RunPcs,
                 Owners, JoinPending, Running, qvars, tvars, cvars, uvars
  <2>2. ThreadOK(th)'
    <3>1. ThreadOK(th) /\ cur[th] \in Tasks \cup {NoOne}
      BY DEF ThreadConsistent, TypeOK
    <3>2. CASE o = Main
      <4>1. cur[th] = NoOne /\ pc'[th] = "pop" /\ cur' = cur
        BY <3>1, <3>2, Names DEF JoinPending, Running, ThreadOK, TypeOK, RunPcs
      <4> QED BY <4>1, Names DEF ThreadOK, RunPcs
    <3>3. CASE o # Main
      <4>1. /\ cur[th] \in Tasks /\ cur' = cur /\ fut' = fut
            /\ pc'[th] = "armed"
        BY <3>1, <3>3 DEF JoinPending, Running, ThreadOK, TypeOK, RunPcs
      <4> QED BY <3>1, <4>1 DEF ThreadOK, RunPcs
    <3> QED BY <3>2, <3>3
  <2> QED BY <2>1, <2>2, ThreadsKept DEF TypeOK, Threads, JoinPending, Running, qvars,
                                         tvars, cvars, uvars
<1> QED BY <1>1, <1>2, <1>3, <1>4

\* JoinHandle::poll on a settled task keeps state, flag and result in step.
LEMMA JoinReadyInv ==
  ASSUME IInv, NEW th \in Threads, NEW o \in Owners, NEW c \in Tasks, JoinReady(th, o, c)
  PROVE  IInv'
<1> USE DEF IInv
<1>1. TypeOK'
  BY Names, PcNames DEF TypeOK, Threads, Owners, JoinReady, Running, qvars,
                        tvars, cvars, uvars
<1>2. PollExclusion'
  <2>1. \A u \in Threads, t \in Tasks : Polls(u, t)' <=> Polls(u, t)
    BY Names DEF TypeOK, Polls, HoldsFuture, ThreadConsistent, ThreadOK,
                 RunPcs, Threads, JoinReady, Running, qvars, tvars, cvars,
                 uvars
  <2> QED BY <2>1, ExclusionKept DEF JoinReady, Running, qvars, tvars, cvars, uvars
<1>3. HandleConsistent'
  BY DEF TypeOK, HandleConsistent, Completed, JoinReady, Running, qvars,
         tvars, cvars, uvars
<1>4. ThreadConsistent'
  <2>1. WakersOK'
    BY Names DEF TypeOK, ThreadConsistent, WakersOK, ThreadOK, RunPcs,
                 Owners, JoinReady, Running, qvars, tvars, cvars, uvars
  <2>2. ThreadOK(th)'
    BY Names DEF TypeOK, ThreadConsistent, WakersOK, HandleConsistent,
                 ThreadOK, RunPcs, Threads, JoinReady, Running, qvars,
                 tvars, cvars, uvars
  <2> QED BY <2>1, <2>2, ThreadsKept DEF TypeOK, Threads, JoinReady, Running, qvars,
                                         tvars, cvars, uvars
<1> QED BY <1>1, <1>2, <1>3, <1>4

\* A body that waits outside the runtime is a spawned task.
LEMMA AwaitOutsideInv ==
  ASSUME IInv, NEW th \in Threads, NEW o \in Tasks, AwaitOutside(th, o)
  PROVE  IInv'
<1> USE DEF IInv
<1>1. TypeOK'
  BY Names, PcNames, BoundAssumption DEF TypeOK, Threads, Owners,
                                         AwaitOutside, Running, qvars,
                                         tvars, cvars, uvars
<1>2. PollExclusion'
  <2>1. \A u \in Threads, t \in Tasks : Polls(u, t)' <=> Polls(u, t)
    BY Names DEF TypeOK, Polls, HoldsFuture, ThreadConsistent, ThreadOK,
                 RunPcs, Threads, AwaitOutside, Running, qvars, tvars,
                 cvars, uvars
  <2> QED BY <2>1, ExclusionKept DEF AwaitOutside, Running, qvars, tvars, cvars, uvars
<1>3. HandleConsistent'
  BY DEF TypeOK, HandleConsistent, Completed, AwaitOutside, Running, qvars,
         tvars, cvars, uvars
<1>4. ThreadConsistent'
  <2>1. WakersOK'
    BY Names DEF TypeOK, ThreadConsistent, WakersOK, ThreadOK, RunPcs,
                 Owners, AwaitOutside, Running, qvars, tvars, cvars, uvars
  <2>2. ThreadOK(th)'
    BY Names DEF TypeOK, ThreadConsistent, WakersOK, HandleConsistent,
                 ThreadOK, RunPcs, Threads, AwaitOutside, Running, qvars,
                 tvars, cvars, uvars
  <2> QED BY <2>1, <2>2, ThreadsKept DEF TypeOK, Threads, AwaitOutside, Running,
                                         qvars, tvars, cvars, uvars
<1> QED BY <1>1, <1>2, <1>3, <1>4

\* The thread behind spawn_blocking touches no task.
LEMMA BlockingDoneInv ==
  ASSUME IInv, NEW c \in Tasks, BlockingDone(c)
  PROVE  IInv'
<1> USE DEF IInv
<1>1. TypeOK'
  BY Names, PcNames DEF TypeOK, Threads, Owners, BlockingDone, qvars, tvars,
                        cvars, uvars
<1>2. PollExclusion'
  <2>1. \A u \in Threads, t \in Tasks : Polls(u, t)' <=> Polls(u, t)
    BY Names DEF TypeOK, Polls, HoldsFuture, ThreadConsistent, ThreadOK,
                 RunPcs, Threads, BlockingDone, qvars, tvars, cvars, uvars
  <2> QED BY <2>1, ExclusionKept DEF BlockingDone, qvars, tvars, cvars, uvars
<1>3. HandleConsistent'
  BY DEF TypeOK, HandleConsistent, Completed, BlockingDone, qvars, tvars,
         cvars, uvars
<1>4. ThreadConsistent'
  <2>1. WakersOK'
    BY Names DEF TypeOK, ThreadConsistent, WakersOK, ThreadOK, RunPcs,
                 Owners, BlockingDone, qvars, tvars, cvars, uvars
  <2>2. ThreadOK(Main)'
    BY Names DEF TypeOK, ThreadConsistent, WakersOK, HandleConsistent,
                 ThreadOK, RunPcs, Threads, BlockingDone, qvars, tvars,
                 cvars, uvars
  <2> QED BY <2>1, <2>2, ThreadsKept DEF TypeOK, Threads, BlockingDone, qvars, tvars,
                                         cvars, uvars
<1> QED BY <1>1, <1>2, <1>3, <1>4

\* block_on returns: only the position of Main changes.
LEMMA BlockOnReturnInv ==
  ASSUME IInv, BlockOnReturn
  PROVE  IInv'
<1> USE DEF IInv
<1>1. TypeOK'
  BY Names, PcNames DEF TypeOK, Threads, Owners, BlockOnReturn, qvars,
                        tvars, cvars, uvars
<1>2. PollExclusion'
  <2>1. \A u \in Threads, t \in Tasks : Polls(u, t)' <=> Polls(u, t)
    BY Names DEF TypeOK, Polls, HoldsFuture, ThreadConsistent, ThreadOK,
                 RunPcs, Threads, BlockOnReturn, qvars, tvars, cvars, uvars
  <2> QED BY <2>1, ExclusionKept DEF BlockOnReturn, qvars, tvars, cvars, uvars
<1>3. HandleConsistent'
  BY DEF TypeOK, HandleConsistent, Completed, BlockOnReturn, qvars, tvars,
         cvars, uvars
<1>4. ThreadConsistent'
  <2>1. WakersOK'
    BY Names DEF TypeOK, ThreadConsistent, WakersOK, ThreadOK, RunPcs,
                 Owners, BlockOnReturn, qvars, tvars, cvars, uvars
  <2>2. ThreadOK(Main)'
    BY Names DEF TypeOK, ThreadConsistent, WakersOK, HandleConsistent,
                 ThreadOK, RunPcs, Threads, BlockOnReturn, qvars, tvars,
                 cvars, uvars
  <2> QED BY <2>1, <2>2, ThreadsKept DEF TypeOK, Threads, BlockOnReturn, qvars, tvars,
                                         cvars, uvars
<1> QED BY <1>1, <1>2, <1>3, <1>4

\* Dropping the Runtime sends waiting workers back to their loop.
LEMMA DropRuntimeInv ==
  ASSUME IInv, DropRuntime
  PROVE  IInv'
<1> USE DEF IInv
<1>1. TypeOK'
  BY Names, PcNames DEF TypeOK, Threads, Owners, DropRuntime, qvars, tvars,
                        cvars, uvars
<1>2. PollExclusion'
  <2>1. \A u \in Threads, t \in Tasks : Polls(u, t)' <=> Polls(u, t)
    BY Names DEF TypeOK, Polls, HoldsFuture, ThreadConsistent, ThreadOK,
                 RunPcs, Threads, DropRuntime, qvars, tvars, cvars, uvars
  <2> QED BY <2>1, ExclusionKept DEF DropRuntime, qvars, tvars, cvars, uvars
<1>3. HandleConsistent'
  BY DEF TypeOK, HandleConsistent, Completed, DropRuntime, qvars, tvars,
         cvars, uvars
<1>4. ThreadConsistent'
  <2>1. WakersOK'
    BY Names DEF TypeOK, ThreadConsistent, WakersOK, ThreadOK, RunPcs,
                 Owners, DropRuntime, qvars, tvars, cvars, uvars
  <2>2. ThreadOK(Main)'
    BY Names DEF TypeOK, ThreadConsistent, WakersOK, HandleConsistent,
                 ThreadOK, RunPcs, Threads, DropRuntime, qvars, tvars,
                 cvars, uvars
  <2> QED BY <2>1, <2>2, ThreadsKept DEF TypeOK, Threads, DropRuntime, qvars, tvars,
                                         cvars, uvars
<1> QED BY <1>1, <1>2, <1>3, <1>4

-----------------------------------------------------------------------------
\* The steps of TaskCell::run that take the future out of its slot or put it back.

\* run locks the future: nobody else holds it, so polling stays exclusive.
LEMMA LockFutureInv ==
  ASSUME IInv, NEW th \in Threads, LockFuture(th)
  PROVE  IInv'
<1> USE DEF IInv
<1>t. cur[th] \in Tasks /\ fut[cur[th]] # "none"
  BY DEF LockFuture, ThreadConsistent, ThreadOK, RunPcs
<1>1. TypeOK'
  <2>1. pc' \in [Threads -> Pcs]
    <3>1. PICK v \in Pcs : pc' = [pc EXCEPT ![th] = v]
      BY PcNames DEF LockFuture, Dies, AfterRun
    <3> QED BY <3>1 DEF TypeOK
  <2>2. cur' \in [Threads -> Tasks \cup {NoOne}]
    BY DEF TypeOK, LockFuture, Dies
  <2>3. fut' \in [Tasks -> {"none", "some", "taken", "gone"}]
    <3>1. fut' = fut \/ fut' = [fut EXCEPT ![cur[th]] = "taken"]
      BY DEF LockFuture
    <3> QED BY <3>1 DEF TypeOK
  <2> QED BY <2>1, <2>2, <2>3 DEF TypeOK, LockFuture, qvars, uvars
<1>2. PollExclusion'
  <2>1. CASE fut' = fut /\ pc'[th] # "polling"
    <3>1. \A u \in Threads, t \in Tasks : Polls(u, t)' <=> Polls(u, t)
      BY <2>1, <1>t DEF TypeOK, Polls, HoldsFuture, LockFuture, Dies, AfterRun
    <3> QED BY <2>1, <3>1, ExclusionKept
  <2>2. CASE /\ fut' = [fut EXCEPT ![cur[th]] = "taken"]
             /\ pc' = [pc EXCEPT ![th] = "polling"]
             /\ cur' = cur
    <3>1. \A u \in Threads, x \in Tasks :
            Polls(u, x)' <=> (Polls(u, x) \/ (u = th /\ x = cur[th]))
      BY <2>2, <1>t DEF TypeOK, Polls, HoldsFuture, LockFuture
    <3>2. \A u \in Threads : ~Polls(u, cur[th])
      BY DEF LockFuture
    <3>3. fut \in [Tasks -> {"none", "some", "taken", "gone"}]
      BY DEF TypeOK
    <3> HIDE DEF IInv
    <3> QED BY <2>2, <3>1, <3>2, <3>3, <1>t, ExclusionStart DEF IInv
  <2> QED BY <2>1, <2>2 DEF LockFuture, Dies, AfterRun, TypeOK
<1>3. HandleConsistent'
  BY <1>t DEF TypeOK, HandleConsistent, Completed, LockFuture, qvars, uvars
<1>4. ThreadConsistent'
  <2>1. \A x \in Tasks : fut[x] # "none" => fut'[x] # "none"
    BY <1>t DEF TypeOK, LockFuture
  <2>2. WakersOK'
    BY <2>1, Names DEF TypeOK, ThreadConsistent, WakersOK, LockFuture, qvars, uvars
  <2>3. ThreadOK(th)'
    BY <1>t, <2>1, Names DEF TypeOK, ThreadOK, LockFuture, Dies, AfterRun, RunPcs
  <2> QED BY <2>1, <2>2, <2>3, ThreadsKept DEF TypeOK, LockFuture, Dies
<1> QED BY <1>1, <1>2, <1>3, <1>4

\* run puts a pending future back: its slot is full, nobody polls it.
LEMMA PollPendingInv ==
  ASSUME IInv, NEW th \in Threads, PollPending(th)
  PROVE  IInv'
<1> USE DEF IInv
<1>t. cur[th] \in Tasks /\ Polls(th, cur[th]) /\ fut[cur[th]] = "taken"
  BY DEF PollPending, ThreadConsistent, ThreadOK, RunPcs, Polls, HoldsFuture,
         PollExclusion
<1>1. TypeOK'
  BY <1>t, PcNames DEF TypeOK, PollPending, AfterRun, qvars, uvars
<1>2. PollExclusion'
  <2>1. \A u \in Threads, x \in Tasks :
          Polls(u, x)' <=> (Polls(u, x) /\ x # cur[th])
    BY <1>t, Names DEF TypeOK, Polls, HoldsFuture, PollPending, AfterRun, PollExclusion
  <2>2. fut' = [fut EXCEPT ![cur[th]] = "some"]
    BY DEF PollPending
  <2> QED BY <2>1, <2>2, <1>t, ExclusionStop DEF TypeOK
<1>3. HandleConsistent'
  BY <1>t DEF TypeOK, HandleConsistent, Completed, PollPending, qvars, uvars
<1>4. ThreadConsistent'
  <2>1. \A x \in Tasks : fut[x] # "none" => fut'[x] # "none"
    BY <1>t DEF TypeOK, PollPending
  <2>2. WakersOK'
    BY <2>1, Names DEF TypeOK, ThreadConsistent, WakersOK, PollPending, qvars, uvars
  <2>3. ThreadOK(th)'
    BY <1>t, Names DEF TypeOK, ThreadOK, PollPending, AfterRun, RunPcs
  <2> QED BY <2>1, <2>2, <2>3, ThreadsKept DEF TypeOK, PollPending
<1> QED BY <1>1, <1>2, <1>3, <1>4

\* A panicking body leaves a poisoned, empty slot that nobody polls.
LEMMA PollPanicInv ==
  ASSUME IInv, NEW th \in Threads, PollPanic(th)
  PROVE  IInv'
<1> USE DEF IInv
<1>t. cur[th] \in Tasks /\ Polls(th, cur[th]) /\ fut[cur[th]] = "taken"
  BY DEF PollPanic, ThreadConsistent, ThreadOK, RunPcs, Polls, HoldsFuture,
         PollExclusion
<1>1. TypeOK'
  BY <1>t, PcNames DEF TypeOK, PollPanic, Dies, qvars, uvars
<1>2. PollExclusion'
  <2>1. \A u \in Threads, x \in Tasks :
          Polls(u, x)' <=> (Polls(u, x) /\ x # cur[th])
    BY <1>t, Names DEF TypeOK, Polls, HoldsFuture, PollPanic, Dies, PollExclusion
  <2>2. fut' = [fut EXCEPT ![cur[th]] = "gone"]
    BY DEF PollPanic
  <2> QED BY <2>1, <2>2, <1>t, ExclusionStop DEF TypeOK
<1>3. HandleConsistent'
  BY <1>t DEF TypeOK, HandleConsistent, Completed, PollPanic, qvars, uvars
<1>4. ThreadConsistent'
  <2>1. \A x \in Tasks : fut[x] # "none" => fut'[x] # "none"
    BY <1>t DEF TypeOK, PollPanic
  <2>2. WakersOK'
    BY <2>1, Names DEF TypeOK, ThreadConsistent, WakersOK, PollPanic, qvars, uvars
  <2>3. ThreadOK(th)'
    BY <1>t, Names DEF TypeOK, ThreadOK, PollPanic, Dies, RunPcs
  <2> QED BY <2>1, <2>2, <2>3, ThreadsKept DEF TypeOK, PollPanic, Dies
<1> QED BY <1>1, <1>2, <1>3, <1>4

-----------------------------------------------------------------------------
\* The steps that may call a waker: first what they do to the queue and to the
\* other threads, then the parts of the invariant.

\* run records an output: the slot is empty for good, the state Finished.
LEMMA FinishInv ==
  ASSUME IInv, NEW th \in Threads, Finish(th)
  PROVE  IInv'
<1> USE DEF IInv
<1> DEFINE t == cur[th]
           p == [pc EXCEPT ![th] = AfterRun(th)]
<1>t. t \in Tasks /\ Polls(th, t) /\ fut[t] = "taken"
  BY DEF Finish, ThreadConsistent, ThreadOK, RunPcs, Polls, HoldsFuture, PollExclusion
<1>p. p \in [Threads -> Pcs] /\ p[th] = AfterRun(th)
      /\ \A u \in Threads : u # th => p[u] = pc[u]
  BY PcNames DEF TypeOK, AfterRun
<1>w. Notified(p, pc') /\ QueueGrew(waiter[t])
  <2>1. CASE state[t] = "Running"
    BY <1>p, <2>1, WakeEffect DEF Finish, TypeOK
  <2>2. CASE state[t] # "Running"
    BY <1>p, <2>2 DEF Finish, TypeOK, Notified, QueueGrew
  <2> QED BY <2>1, <2>2
<1> HIDE DEF p
<1>1. TypeOK'
  BY <1>t, <1>w DEF TypeOK, Finish, Notified, QueueGrew, uvars
<1>2. PollExclusion'
  <2>1. \A u \in Threads, x \in Tasks : Polls(u, x)' <=> (Polls(u, x) /\ x # t)
    BY <1>t, <1>p, <1>w, Names DEF TypeOK, Polls, HoldsFuture, Finish, AfterRun,
                                   Notified, PollExclusion
  <2>2. fut' = [fut EXCEPT ![t] = "gone"]
    BY DEF Finish
  <2> QED BY <2>1, <2>2, <1>t, ExclusionStop DEF TypeOK
<1>3. HandleConsistent'
  BY <1>t DEF TypeOK, HandleConsistent, Completed, Finish, uvars
<1>4. ThreadConsistent'
  <2>1. \A x \in Tasks : fut[x] # "none" => fut'[x] # "none"
    BY <1>t DEF TypeOK, Finish
  <2>2. WakersOK'
    <3>1. waiter[t] \in Tasks => fut'[waiter[t]] # "none"
      BY <1>t, <2>1 DEF ThreadConsistent, WakersOK
    <3> QED BY <1>t, <1>w, <2>1, <3>1, WakersKept
            DEF ThreadConsistent, Finish, TypeOK, uvars
  <2>3. ThreadOK(th)'
    BY <1>t, <1>p, <1>w, Names DEF TypeOK, ThreadOK, Finish, AfterRun, Notified, RunPcs
  <2>4. \A u \in Threads : u # th =>
          /\ pc'[u] = pc[u] \/ (pc[u] = "wait" /\ pc'[u] = "loop")
          /\ cur'[u] = cur[u] /\ target'[u] = target[u]
    BY <1>p, <1>w DEF TypeOK, Finish, Notified
  <2>5. \A x \in Tasks : cancelled[x] => cancelled'[x]
    BY DEF Finish
  <2> QED BY <2>1, <2>2, <2>3, <2>4, <2>5, ThreadsKept
<1> QED BY <1>1, <1>2, <1>3, <1>4

\* run on a cancelled task: the flag justifies the state Cancelled.
LEMMA RunCancelledInv ==
  ASSUME IInv, NEW th \in Threads, RunCancelled(th)
  PROVE  IInv'
<1> USE DEF IInv
<1> DEFINE t == cur[th]
           p == [pc EXCEPT ![th] = AfterRun(th)]
<1>t. t \in Tasks /\ fut[t] # "none" /\ cancelled[t]
  BY DEF RunCancelled, ThreadConsistent, ThreadOK, RunPcs
<1>p. p \in [Threads -> Pcs] /\ p[th] = AfterRun(th)
      /\ \A u \in Threads : u # th => p[u] = pc[u]
  BY PcNames DEF TypeOK, AfterRun
<1>w. Notified(p, pc') /\ QueueGrew(waiter[t])
  <2>1. CASE state[t] = "Running"
    BY <1>p, <2>1, WakeEffect DEF RunCancelled, TypeOK
  <2>2. CASE state[t] # "Running"
    BY <1>p, <2>2 DEF RunCancelled, TypeOK, Notified, QueueGrew
  <2> QED BY <2>1, <2>2
<1> HIDE DEF p
<1>1. TypeOK'
  BY <1>t, <1>w DEF TypeOK, RunCancelled, Notified, QueueGrew, uvars
<1>2. PollExclusion'
  <2>1. \A u \in Threads, x \in Tasks : Polls(u, x)' <=> Polls(u, x)
    BY <1>t, <1>p, <1>w, Names DEF TypeOK, Polls, HoldsFuture, RunCancelled, AfterRun,
                                   Notified
  <2> QED BY <2>1, ExclusionKept DEF RunCancelled
<1>3. HandleConsistent'
  BY <1>t DEF TypeOK, HandleConsistent, Completed, RunCancelled, uvars
<1>4. ThreadConsistent'
  <2>1. fut' = fut /\ cancelled' = cancelled
    BY DEF RunCancelled
  <2>2. WakersOK'
    <3>1. waiter[t] \in Tasks => fut'[waiter[t]] # "none"
      BY <1>t, <2>1 DEF ThreadConsistent, WakersOK
    <3> QED BY <1>t, <1>w, <2>1, <3>1, WakersKept
            DEF ThreadConsistent, RunCancelled, TypeOK, uvars
  <2>3. ThreadOK(th)'
    BY <1>t, <1>p, <1>w, Names DEF TypeOK, ThreadOK, RunCancelled, AfterRun, Notified,
                                   RunPcs
  <2>4. \A u \in Threads : u # th =>
          /\ pc'[u] = pc[u] \/ (pc[u] = "wait" /\ pc'[u] = "loop")
          /\ cur'[u] = cur[u] /\ target'[u] = target[u]
    BY <1>p, <1>w DEF TypeOK, RunCancelled, Notified
  <2>5. \A x \in Tasks : cancelled[x] => cancelled'[x]
    BY DEF RunCancelled
  <2> QED BY <2>1, <2>2, <2>3, <2>4, <2>5, ThreadsKept
<1> QED BY <1>1, <1>2, <1>3, <1>4

\* JoinHandle::cancel settles a Running task whose flag it raised.
LEMMA CancelStateInv ==
  ASSUME IInv, NEW th \in Threads, CancelState(th)
  PROVE  IInv'
<1> USE DEF IInv
<1> DEFINE c == target[th]
           p == [pc EXCEPT ![th] = InBody(th)]
<1>t. c \in Tasks /\ fut[c] # "none" /\ cancelled[c] /\ ThreadOK(th)
  BY DEF CancelState, ThreadConsistent, ThreadOK
<1>p. p \in [Threads -> Pcs] /\ p[th] = InBody(th)
      /\ \A u \in Threads : u # th => p[u] = pc[u]
  BY PcNames DEF TypeOK, InBody
<1>w. Notified(p, pc') /\ QueueGrew(waiter[c])
  <2>1. CASE state[c] = "Running"
    BY <1>p, <2>1, WakeEffect DEF CancelState, TypeOK
  <2>2. CASE state[c] # "Running"
    BY <1>p, <2>2 DEF CancelState, TypeOK, Notified, QueueGrew
  <2> QED BY <2>1, <2>2
<1> HIDE DEF p
<1>1. TypeOK'
  <2>1. state' \in [Tasks -> {"Unspawned", "Running", "Finished", "Cancelled"}]
    <3>1. state' = state \/ state' = [state EXCEPT ![c] = "Cancelled"]
      BY DEF CancelState
    <3> QED BY <3>1 DEF TypeOK
  <2>2. waiter' \in [Tasks -> Owners \cup {NoOne}]
    BY <1>t DEF TypeOK, CancelState
  <2>3. target' \in [Threads -> Tasks \cup {NoOne}]
    BY DEF TypeOK, CancelState
  <2> QED BY <1>w, <2>1, <2>2, <2>3
          DEF TypeOK, CancelState, Notified, QueueGrew, uvars
<1>2. PollExclusion'
  <2>1. \A u \in Threads, x \in Tasks : Polls(u, x)' <=> Polls(u, x)
    BY <1>t, <1>p, <1>w, Names, ZenonT(30) DEF TypeOK, Polls, HoldsFuture, CancelState, InBody,
                                   Notified
  <2> QED BY <2>1, ExclusionKept DEF CancelState
<1>3. HandleConsistent'
  BY <1>t DEF TypeOK, HandleConsistent, Completed, CancelState, uvars
<1>4. ThreadConsistent'
  <2>1. fut' = fut /\ cancelled' = cancelled
    BY DEF CancelState
  <2>2. WakersOK'
    <3>1. waiter[c] \in Tasks => fut'[waiter[c]] # "none"
      BY <1>t, <2>1 DEF ThreadConsistent, WakersOK
    <3> QED BY <1>t, <1>w, <2>1, <3>1, WakersKept
            DEF ThreadConsistent, CancelState, TypeOK, uvars
  <2>3. ThreadOK(th)'
    BY <1>t, <1>p, <1>w, Names DEF TypeOK, ThreadOK, CancelState, InBody, Notified,
                                   RunPcs
  <2>4. \A u \in Threads : u # th =>
          /\ pc'[u] = pc[u] \/ (pc[u] = "wait" /\ pc'[u] = "loop")
          /\ cur'[u] = cur[u] /\ target'[u] = target[u]
    BY <1>p, <1>w DEF TypeOK, CancelState, Notified
  <2>5. \A x \in Tasks : cancelled[x] => cancelled'[x]
    BY DEF CancelState
  <2> QED BY <2>1, <2>2, <2>3, <2>4, <2>5, ThreadsKept
<1> QED BY <1>1, <1>2, <1>3, <1>4

\* yield_now queues the task that yields.
LEMMA YieldNowInv ==
  ASSUME IInv, NEW th \in Threads, NEW o \in Tasks, YieldNow(th, o)
  PROVE  IInv'
<1> USE DEF IInv
<1> DEFINE p == [pc EXCEPT ![th] = "armed"]
<1>t. cur[th] = o /\ pc[th] \in {"polling", "armed"} /\ fut[o] # "none"
  BY Names DEF YieldNow, Running, ThreadConsistent, ThreadOK, RunPcs
<1>p. p \in [Threads -> Pcs] /\ p[th] = "armed"
      /\ \A u \in Threads : u # th => p[u] = pc[u]
  BY PcNames DEF TypeOK
<1>w. Notified(p, pc') /\ QueueGrew(o)
  BY <1>p, WakeEffect DEF YieldNow, TypeOK
<1> HIDE DEF p
<1>1. TypeOK'
  BY <1>w, BoundAssumption DEF TypeOK, YieldNow, Notified, QueueGrew, cvars
<1>2. PollExclusion'
  <2>1. \A u \in Threads, x \in Tasks : Polls(u, x)' <=> Polls(u, x)
    BY <1>t, <1>p, <1>w DEF TypeOK, Polls, HoldsFuture, YieldNow, Notified
  <2> QED BY <2>1, ExclusionKept DEF YieldNow, cvars
<1>3. HandleConsistent'
  BY DEF TypeOK, HandleConsistent, Completed, YieldNow, cvars
<1>4. ThreadConsistent'
  <2>1. fut' = fut /\ cancelled' = cancelled /\ waiter' = waiter /\ ext' = ext
    BY DEF YieldNow, cvars
  <2>2. WakersOK'
    BY <1>t, <1>w, <2>1, WakersKept DEF ThreadConsistent
  <2>3. ThreadOK(th)'
    BY <1>t, <1>p, <1>w, <2>1 DEF TypeOK, ThreadOK, YieldNow, Notified, RunPcs
  <2> QED BY <1>p, <1>w, <2>1, <2>2, <2>3, ThreadsKept DEF YieldNow, Notified
<1> QED BY <1>1, <1>2, <1>3, <1>4

\* A waker called from outside queues a spawned task.
LEMMA OutsideWakeInv ==
  ASSUME IInv, NEW t \in Tasks, OutsideWake(t)
  PROVE  IInv'
<1> USE DEF IInv
<1>t. fut[t] # "none"
  BY DEF OutsideWake, ThreadConsistent, WakersOK
<1>w. Notified(pc, pc') /\ QueueGrew(t)
  BY WakeEffect DEF OutsideWake, TypeOK
<1>1. TypeOK'
  BY <1>w DEF TypeOK, OutsideWake, Notified, QueueGrew, cvars
<1>2. PollExclusion'
  <2>1. \A u \in Threads, x \in Tasks : Polls(u, x)' <=> Polls(u, x)
    BY <1>w DEF Polls, HoldsFuture, OutsideWake, Notified
  <2> QED BY <2>1, ExclusionKept DEF OutsideWake, cvars
<1>3. HandleConsistent'
  BY DEF HandleConsistent, Completed, OutsideWake, cvars
<1>4. ThreadConsistent'
  <2>1. fut' = fut /\ cancelled' = cancelled /\ waiter' = waiter
    BY DEF OutsideWake, cvars
  <2>2. WakersOK'
    BY <1>t, <1>w, <2>1, WakersKept DEF ThreadConsistent, OutsideWake, TypeOK
  <2>3. NoOne \notin Threads
    BY NamesDistinct
  <2> QED BY <1>w, <2>1, <2>2, <2>3, ThreadsKept DEF OutsideWake, Notified
<1> QED BY <1>1, <1>2, <1>3, <1>4

\* spawn queues a new task whose future waits in its slot.
LEMMA SpawnInv ==
  ASSUME IInv, NEW c \in Tasks, Spawn(c)
  PROVE  IInv'
<1> USE DEF IInv
<1>t. fut[c] = "none" /\ fut' = [fut EXCEPT ![c] = "some"]
  BY DEF Spawn, HandleConsistent
<1>p. pc[Main] = "poll" /\ pc' = [pc EXCEPT ![Main] = "notify"]
  BY DEF Spawn
<1>w. QueueGrew(c)
  BY DEF Spawn, TypeOK, QueueGrew
<1>1. TypeOK'
  BY <1>p, <1>w, PcNames DEF TypeOK, Spawn, QueueGrew
<1>2. PollExclusion'
  <2>1. \A u \in Threads, x \in Tasks : Polls(u, x)' <=> Polls(u, x)
    BY <1>p DEF Polls, HoldsFuture, Spawn, TypeOK
  <2>2. \A x \in Tasks : fut'[x] = "taken" <=> fut[x] = "taken"
    BY <1>t DEF TypeOK
  <2> QED BY <2>1, <2>2 DEF PollExclusion
<1>3. HandleConsistent'
  BY <1>t DEF TypeOK, HandleConsistent, Completed, Spawn
<1>4. ThreadConsistent'
  <2>1. \A x \in Tasks : fut[x] # "none" => fut'[x] # "none"
    BY <1>t DEF TypeOK
  <2>2. WakersOK'
    BY <1>t, <1>w, <2>1, WakersKept DEF ThreadConsistent, Spawn, TypeOK
  <2>3. ThreadOK(Main)'
    BY <1>p DEF ThreadConsistent, ThreadOK, RunPcs, Threads, TypeOK, Spawn
  <2>4. \A u \in Threads : u # Main => pc'[u] = pc[u]
    BY <1>p DEF TypeOK
  <2> QED BY <2>1, <2>2, <2>3, <2>4, ThreadsKept DEF Spawn
<1> QED BY <1>1, <1>2, <1>3, <1>4

\* spawn notifies a worker after it released the lock.
LEMMA SpawnNotifyInv ==
  ASSUME IInv, SpawnNotify
  PROVE  IInv'
<1> USE DEF IInv
<1>p. pc[Main] = "notify" /\ [pc EXCEPT ![Main] = "poll"] \in [Threads -> Pcs]
  BY PcNames DEF SpawnNotify, TypeOK
<1>w. Notified([pc EXCEPT ![Main] = "poll"], pc')
  BY <1>p, NotifyOneEffect DEF SpawnNotify
<1>m. /\ pc'[Main] = "poll"
      /\ \A u \in Threads : u # Main =>
           pc'[u] = pc[u] \/ (pc[u] = "wait" /\ pc'[u] = "loop")
  BY <1>w DEF Notified, TypeOK, Threads
<1>1. TypeOK'
  BY <1>w DEF TypeOK, SpawnNotify, Notified, qvars, cvars, uvars
<1>2. PollExclusion'
  <2>1. \A u \in Threads, x \in Tasks : Polls(u, x)' <=> Polls(u, x)
    BY <1>p, <1>m DEF Polls, HoldsFuture, SpawnNotify
  <2> QED BY <2>1, ExclusionKept DEF SpawnNotify, cvars
<1>3. HandleConsistent'
  BY DEF HandleConsistent, Completed, SpawnNotify, cvars, uvars
<1>4. ThreadConsistent'
  <2>1. fut' = fut /\ cancelled' = cancelled
    BY DEF SpawnNotify, cvars
  <2>2. WakersOK'
    BY DEF ThreadConsistent, WakersOK, SpawnNotify, qvars, cvars, uvars
  <2>3. ThreadOK(Main)'
    BY <1>p, <1>m, Names DEF ThreadConsistent, ThreadOK, RunPcs, Threads, SpawnNotify,
                              TypeOK, cvars
  <2> QED BY <1>m, <2>1, <2>2, <2>3, ThreadsKept DEF SpawnNotify
<1> QED BY <1>1, <1>2, <1>3, <1>4

-----------------------------------------------------------------------------
\* The initial states satisfy the invariant.
LEMMA InitInv == Init => IInv
<1> SUFFICES ASSUME Init PROVE IInv
  OBVIOUS
<1>1. TypeOK
  <2>1. pc \in [Threads -> Pcs]
    BY PcNames DEF Init
  <2>2. injector \in Seq(Tasks)
    BY DEF Init
  <2>3. suspends \in [Tasks -> 0 .. MaxSuspends]
    BY BoundAssumption DEF Init
  <2> QED BY <2>1, <2>2, <2>3 DEF Init, TypeOK
<1>2. PollExclusion
  BY Names DEF Init, PollExclusion, Polls, HoldsFuture
<1>3. HandleConsistent
  BY DEF Init, HandleConsistent, Completed
<1>4. ThreadConsistent
  BY Names DEF Init, ThreadConsistent, WakersOK, ThreadOK, RunPcs
<1> QED BY <1>1, <1>2, <1>3, <1>4 DEF IInv

\* Every step preserves it.
LEMMA NextInv == IInv /\ [Next]_vars => IInv'
<1> SUFFICES ASSUME IInv, [Next]_vars PROVE IInv'
  OBVIOUS
<1>run. ASSUME NEW th \in Threads, RunStep(th) PROVE IInv'
  <2>1. CASE BodyStep(th)
    BY <2>1, CancelFlagInv, JoinPendingInv, JoinReadyInv, YieldNowInv, AwaitOutsideInv
       DEF BodyStep
  <2> QED BY <1>run, <2>1, PopTaskInv, PopNoneInv, RunCheckInv, RunCancelledInv,
             LockFutureInv, PollPendingInv, PollReadyInv, FinishInv, PollPanicInv,
             CancelStateInv
          DEF RunStep
<1>1. ASSUME NEW w \in Workers, WorkerStep(w) \/ ParkTimeout(w) PROVE IInv'
  BY <1>1, <1>run, LoopTopInv, ParkCheckInv, ParkWaitInv, ParkTimeoutInv
     DEF WorkerStep, Threads
<1>2. CASE MainStep
  BY <1>2, <1>run, BlockOnReturnInv, DropRuntimeInv, SpawnInv,
     SpawnNotifyInv
     DEF MainStep, Threads
<1>3. ASSUME NEW t \in Tasks, OutsideWake(t) \/ BlockingDone(t) PROVE IInv'
  BY <1>3, OutsideWakeInv, BlockingDoneInv
<1>4. CASE UNCHANGED vars
  BY <1>4 DEF IInv, TypeOK, PollExclusion, Polls, HoldsFuture, HandleConsistent,
              Completed, ThreadConsistent, WakersOK, ThreadOK,
              vars, qvars, tvars, cvars, uvars
<1> QED BY <1>1, <1>2, <1>3, <1>4 DEF Next, Terminated

\* The scheduler keeps its inductive invariant.
THEOREM Invariance == Spec => []IInv
BY InitInv, NextInv, PTL DEF Spec

\* Every variable keeps its type, for any number of tasks and workers.
THEOREM TypeCorrect == Spec => []TypeOK
BY Invariance, PTL DEF IInv

\* However often a task is queued and popped, its future is never polled by two
\* threads at once, and it is out of its slot only while a thread polls it.
THEOREM ExclusivePolling == Spec => []PollExclusion
BY Invariance, PTL DEF IInv

\* TaskState, the future slot, the cancel flag and the joiner's result agree.
THEOREM ConsistentHandles == Spec => []HandleConsistent
BY Invariance, PTL DEF IInv

-----------------------------------------------------------------------------
\* The scheduler implements TaskLifecycle.

\* The lifecycle stutters when no task's state, flag, completion or result changes.
LEMMA LifecycleStutters ==
  ASSUME state' = state, cancelled' = cancelled, joined' = joined,
         \A t \in Tasks : Completed(t)' <=> Completed(t)
  PROVE  UNCHANGED Lifecycle!lvars
<1>1. \A t \in Tasks : (Completed(t)') = Completed(t)
  BY DEF Completed
<1>2. [t \in Tasks |-> Completed(t)]' = [t \in Tasks |-> Completed(t)]
  BY <1>1
<1> QED BY <1>2 DEF Lifecycle!lvars

\* A step that leaves alone the task state, the flag, the result, the future slot
\* and its poisoning is invisible to the holder of a handle.
LEMMA InvisibleStep ==
  ASSUME UNCHANGED <<fut, poisoned, state, cancelled, joined>>
  PROVE  UNCHANGED Lifecycle!lvars
BY LifecycleStutters DEF Completed

\* Finish, recording an output, is the abstract Complete.
LEMMA FinishCompletes ==
  ASSUME IInv, NEW th \in Threads, Finish(th)
  PROVE  Lifecycle!Complete(cur[th])
<1> DEFINE t == cur[th]
<1>t. t \in Tasks /\ fut[t] = "taken"
  BY DEF IInv, Finish, ThreadConsistent, ThreadOK, RunPcs, Polls, HoldsFuture,
         PollExclusion
<1>1. ~poisoned[t] /\ ~Completed(t) /\ joined[t] # "ok"
  BY <1>t DEF IInv, HandleConsistent, Completed
<1>2. state[t] = "Running" \/ (state[t] = "Cancelled" /\ cancelled[t])
  BY <1>t, <1>1 DEF IInv, TypeOK, HandleConsistent
<1>3. fut' = [fut EXCEPT ![t] = "gone"] /\ poisoned' = poisoned
  BY DEF Finish
<1>4. \A x \in Tasks : (Completed(x)') = (IF x = t THEN TRUE ELSE Completed(x))
  BY <1>t, <1>1, <1>3 DEF Completed, IInv, TypeOK
<1>5. [x \in Tasks |-> Completed(x)]' = [[x \in Tasks |-> Completed(x)] EXCEPT ![t] = TRUE]
  BY <1>4, <1>t
<1>6. ~[x \in Tasks |-> Completed(x)][t]
  BY <1>1, <1>t
<1> QED BY <1>2, <1>5, <1>6 DEF Lifecycle!Complete, Finish, uvars

\* Storing Cancelled for a task whose cancellation was requested.
LEMMA CancelAborts ==
  ASSUME IInv, NEW t \in Tasks, cancelled[t], fut[t] # "none",
         state' = [state EXCEPT ![t] = "Cancelled"],
         UNCHANGED <<fut, poisoned, cancelled, joined>>
  PROVE  Lifecycle!Abort(t) \/ UNCHANGED Lifecycle!lvars
<1>1. \A x \in Tasks : Completed(x)' <=> Completed(x)
  BY DEF Completed
<1>2. CASE state[t] = "Cancelled"
  <2>1. state' = state
    BY <1>2 DEF IInv, TypeOK
  <2> QED BY <2>1, InvisibleStep
<1>3. CASE state[t] \in {"Running", "Finished"}
  <2>1. [x \in Tasks |-> Completed(x)]' = [x \in Tasks |-> Completed(x)]
    BY DEF Completed
  <2> QED BY <1>3, <2>1 DEF Lifecycle!Abort
<1> QED BY <1>2, <1>3 DEF IInv, TypeOK, HandleConsistent

\* A JoinHandle::poll that returns Ready is one of the abstract deliveries.
LEMMA JoinDelivers ==
  ASSUME IInv, NEW th \in Threads, NEW o \in Owners, NEW c \in Tasks,
         JoinReady(th, o, c)
  PROVE  Lifecycle!DeliverOutput(c) \/ Lifecycle!DeliverCancelled(c)
<1>1. [x \in Tasks |-> Completed(x)]' = [x \in Tasks |-> Completed(x)]
  BY DEF Completed, JoinReady
<1>2. CASE state[c] = "Finished"
  <2>1. [x \in Tasks |-> Completed(x)][c]
    BY <1>2 DEF IInv, HandleConsistent
  <2> QED BY <1>1, <1>2, <2>1 DEF Lifecycle!DeliverOutput, JoinReady
<1>3. CASE state[c] = "Cancelled"
  <2>1. cancelled[c]
    BY <1>3 DEF IInv, HandleConsistent, JoinReady
  <2> QED BY <1>1, <1>3, <2>1 DEF Lifecycle!DeliverCancelled, JoinReady
<1> QED BY <1>2, <1>3 DEF JoinReady

\* Every step of the scheduler is a step of TaskLifecycle or invisible there.
LEMMA StepSimulation ==
  IInv /\ [Next]_vars => [Lifecycle!Next]_(Lifecycle!lvars)
<1> SUFFICES ASSUME IInv, [Next]_vars
             PROVE  Lifecycle!Next \/ UNCHANGED Lifecycle!lvars
  OBVIOUS
<1> USE DEF qvars, tvars, cvars, uvars
<1>lock. ASSUME NEW th \in Threads, LockFuture(th) \/ PollPending(th) \/ PollPanic(th)
         PROVE  UNCHANGED Lifecycle!lvars
  <2>1. cur[th] \in Tasks
    BY <1>lock DEF IInv, ThreadConsistent, ThreadOK, RunPcs, LockFuture, PollPending,
                   PollPanic
  <2>3. \A t \in Tasks : Completed(t)' <=> Completed(t)
    <3>1. CASE LockFuture(th)
      BY <2>1, <3>1 DEF LockFuture, Completed, IInv, TypeOK
    <3>2. CASE PollPending(th)
      <4>1. fut[cur[th]] = "taken"
        BY <2>1, <3>2 DEF IInv, PollExclusion, Polls, HoldsFuture, PollPending
      <4> QED BY <2>1, <3>2, <4>1 DEF PollPending, Completed, IInv, TypeOK
    <3>3. CASE PollPanic(th)
      <4>1. fut[cur[th]] = "taken"
        BY <2>1, <3>3 DEF IInv, PollExclusion, Polls, HoldsFuture, PollPanic
      <4> QED BY <2>1, <3>3, <4>1 DEF PollPanic, Completed, IInv, TypeOK
    <3> QED BY <1>lock, <3>1, <3>2, <3>3
  <2> QED BY <1>lock, <2>3, LifecycleStutters DEF LockFuture, PollPending, PollPanic
<1>abort. ASSUME NEW th \in Threads, RunCancelled(th) \/ CancelState(th)
          PROVE  Lifecycle!Next \/ UNCHANGED Lifecycle!lvars
  <2>1. CASE RunCancelled(th)
    <3>1. cur[th] \in Tasks /\ cancelled[cur[th]] /\ fut[cur[th]] # "none"
      BY <2>1 DEF IInv, ThreadConsistent, ThreadOK, RunPcs, RunCancelled
    <3> QED BY <2>1, <3>1, CancelAborts DEF RunCancelled, Lifecycle!Next
  <2>2. CASE CancelState(th)
    <3>1. /\ target[th] \in Tasks /\ cancelled[target[th]]
          /\ fut[target[th]] # "none"
      BY <2>2 DEF IInv, ThreadConsistent, ThreadOK, CancelState
    <3>2. CASE state[target[th]] = "Running"
      BY <2>2, <3>1, <3>2, CancelAborts DEF CancelState, Lifecycle!Next
    <3>3. CASE state[target[th]] # "Running"
      BY <2>2, <3>3, InvisibleStep DEF CancelState
    <3> QED BY <3>2, <3>3
  <2> QED BY <1>abort, <2>1, <2>2
<1>body. ASSUME NEW th \in Threads, BodyStep(th)
         PROVE  Lifecycle!Next \/ UNCHANGED Lifecycle!lvars
  <2>1. ASSUME NEW o \in Owners, NEW c \in Tasks, CancelFlag(th, o, c)
        PROVE  Lifecycle!Request(c)
    <3>1. [x \in Tasks |-> Completed(x)]' = [x \in Tasks |-> Completed(x)]
      BY <2>1 DEF Completed, CancelFlag
    <3> QED BY <2>1, <3>1 DEF CancelFlag, Lifecycle!Request
  <2>2. ASSUME NEW o \in Owners, NEW c \in Tasks, JoinPending(th, o, c)
        PROVE  UNCHANGED Lifecycle!lvars
    BY <2>2, InvisibleStep DEF JoinPending
  <2>3. ASSUME NEW o \in Tasks, YieldNow(th, o) \/ AwaitOutside(th, o)
        PROVE  UNCHANGED Lifecycle!lvars
    BY <2>3, InvisibleStep DEF YieldNow, AwaitOutside
  <2> QED BY <1>body, <2>1, <2>2, <2>3, JoinDelivers DEF BodyStep, Lifecycle!Next
<1>finish. ASSUME NEW th \in Threads, Finish(th)
           PROVE  Lifecycle!Next
  <2>1. cur[th] \in Tasks
    BY <1>finish DEF IInv, ThreadConsistent, ThreadOK, RunPcs, Finish
  <2> QED BY <1>finish, <2>1, FinishCompletes DEF Lifecycle!Next
<1>spawn. ASSUME NEW c \in Tasks, Spawn(c)
          PROVE  Lifecycle!Next
  <2>1. fut[c] = "none" /\ fut' = [fut EXCEPT ![c] = "some"] /\ poisoned' = poisoned
    BY <1>spawn DEF IInv, HandleConsistent, Spawn
  <2>2. \A x \in Tasks : (Completed(x)') = Completed(x)
    BY <2>1 DEF Completed, IInv, TypeOK
  <2>3. [x \in Tasks |-> Completed(x)]' = [x \in Tasks |-> Completed(x)]
    BY <2>2
  <2>4. Lifecycle!Spawn(c)
    BY <1>spawn, <2>3 DEF Spawn, Lifecycle!Spawn
  <2> QED BY <2>4 DEF Lifecycle!Next
<1>run. ASSUME NEW th \in Threads, RunStep(th)
        PROVE  Lifecycle!Next \/ UNCHANGED Lifecycle!lvars
  <2>1. CASE PopTask(th) \/ PopNone(th) \/ RunCheck(th) \/ PollReady(th)
    BY <2>1, InvisibleStep DEF PopTask, PopNone, RunCheck, PollReady
  <2> QED BY <1>run, <1>lock, <1>abort, <1>body, <1>finish, <2>1 DEF RunStep
<1>1. ASSUME NEW w \in Workers, WorkerStep(w) \/ ParkTimeout(w)
      PROVE  Lifecycle!Next \/ UNCHANGED Lifecycle!lvars
  <2>1. CASE LoopTop(w) \/ ParkCheck(w) \/ ParkWait(w) \/ ParkTimeout(w)
    BY <2>1, InvisibleStep DEF LoopTop, ParkCheck, ParkWait, ParkTimeout
  <2> QED BY <1>1, <1>run, <2>1 DEF WorkerStep, Threads
<1>2. CASE MainStep
  <2>1. CASE BlockOnReturn \/ DropRuntime \/ SpawnNotify
    BY <2>1, InvisibleStep DEF BlockOnReturn, DropRuntime, SpawnNotify
  <2> QED BY <1>2, <1>run, <1>spawn, <2>1 DEF MainStep, Threads
<1>3. ASSUME NEW t \in Tasks, OutsideWake(t) \/ BlockingDone(t)
      PROVE  UNCHANGED Lifecycle!lvars
  BY <1>3, InvisibleStep DEF OutsideWake, BlockingDone
<1>4. CASE UNCHANGED vars
  BY <1>4, InvisibleStep DEF vars
<1> QED BY <1>1, <1>2, <1>3, <1>4 DEF Next, Terminated

\* Initial states map to initial states.
LEMMA InitSimulation == Init => Lifecycle!Init
<1> SUFFICES ASSUME Init PROVE Lifecycle!Init
  OBVIOUS
<1>1. \A t \in Tasks : Completed(t) = FALSE
  BY DEF Init, Completed
<1>2. [t \in Tasks |-> Completed(t)] = [t \in Tasks |-> FALSE]
  BY <1>1
<1> QED BY <1>2 DEF Init, Lifecycle!Init

\* What the holder of a JoinHandle observes is what TaskLifecycle promises: one
\* completion and one delivery at most, and no cancellation nobody asked for.
THEOREM Refinement == Spec => ImplementsLifecycle
BY InitSimulation, StepSimulation, Invariance, PTL
   DEF Spec, ImplementsLifecycle, Lifecycle!Spec

-----------------------------------------------------------------------------
\* No suspended task is forgotten.

\* Something outside t's cell is bound to bring t back to a thread.
Source(t) ==
  \/ \E i \in DOMAIN injector : injector[i] = t
  \/ ext[t]
  \/ \E c \in Tasks : waiter[c] = t /\ state[c] = "Running"

\* A task that matters: neither settled nor about to be.
Pending(t) == state[t] = "Running" /\ ~cancelled[t]

\* The strengthening of NoLostWakeup: a body that may return Pending has, while it is
\* still being polled, stored a waker or was popped again by another thread.
Watched == \A t \in Tasks : Pending(t) =>
  /\ fut[t] = "some" => Source(t) \/ \E th \in Threads : cur[th] = t
  /\ \A th \in Threads : pc[th] = "armed" /\ cur[th] = t =>
       Source(t) \/ \E u \in Threads \ {th} : cur[u] = t

\* Only the holder of a handle stores its waker there.
HoldersWait == \A c \in Tasks : waiter[c] \in {NoOne, Holder[c]}

WakeInv == Watched /\ HoldersWait

\* A wake queues the task, unless it was cancelled, and loses nothing that was queued.
LEMMA WakeQueues ==
  ASSUME injector \in Seq(Tasks), NEW o, NEW p, Wake(o, p)
  PROVE  /\ \A t \in Tasks : (\E i \in DOMAIN injector : injector[i] = t)
                             => \E i \in DOMAIN injector' : injector'[i] = t
         /\ o \in Tasks /\ ~cancelled[o] => \E i \in DOMAIN injector' : injector'[i] = o
<1>1. CASE o \in Tasks /\ ~cancelled[o]
  <2>1. injector' = Append(injector, o)
    BY <1>1 DEF Wake, Push
  <2>2. /\ Len(injector') = Len(injector) + 1 /\ Len(injector) \in Nat
        /\ DOMAIN injector' = 1 .. Len(injector) + 1 /\ DOMAIN injector = 1 .. Len(injector)
        /\ injector'[Len(injector) + 1] = o
        /\ \A i \in DOMAIN injector : injector'[i] = injector[i]
    BY <1>1, <2>1
  <2> QED BY <1>1, <2>2
<1>2. CASE ~(o \in Tasks /\ ~cancelled[o])
  BY <1>2 DEF Wake
<1> QED BY <1>1, <1>2

\* Steps in which no thread takes or leaves a task.
LEMMA WatchedKept ==
  ASSUME Watched, cur' = cur,
         \A t \in Tasks : Pending(t)' => Pending(t) /\ (Source(t) => Source(t)'),
         \A t \in Tasks : fut'[t] = "some" => fut[t] = "some",
         \A th \in Threads : pc'[th] = "armed" =>
           pc[th] = "armed" \/ \A t \in Tasks : cur[th] = t => Source(t)'
  PROVE  Watched'
<1> SUFFICES ASSUME NEW t \in Tasks, Pending(t)'
             PROVE  /\ fut'[t] = "some" => Source(t)' \/ \E th \in Threads : cur[th] = t
                    /\ \A th \in Threads : pc'[th] = "armed" /\ cur[th] = t =>
                         Source(t)' \/ \E u \in Threads \ {th} : cur[u] = t
  BY DEF Watched
<1> QED BY DEF Watched

\* Steps of worker_loop and bodies that neither wake nor run anybody.
LEMMA QuietWatched ==
  ASSUME IInv, WakeInv, NEW th \in Threads,
         \/ LoopTop(th) \/ ParkCheck(th) \/ ParkWait(th) \/ ParkTimeout(th) \/ PopNone(th)
         \/ RunCheck(th) \/ PollReady(th)
  PROVE  WakeInv'
<1>1. /\ UNCHANGED <<injector, cur, ext, waiter, state, cancelled, fut>>
      /\ \A u \in Threads : pc'[u] = "armed" => pc[u] = "armed"
  BY DEF LoopTop, ParkCheck, ParkWait, ParkTimeout, PopNone, RunCheck, PollReady,
         qvars, cvars, uvars, IInv, TypeOK
<1>2. \A t \in Tasks : Pending(t)' => Pending(t) /\ (Source(t) => Source(t)')
  BY <1>1 DEF Pending, Source
<1> QED BY <1>1, <1>2, WatchedKept DEF WakeInv, HoldersWait

\* The steps of Main around the bodies, and the end of a blocking closure.
LEMMA MainWatched ==
  ASSUME IInv, WakeInv, SpawnNotify \/ BlockOnReturn \/ DropRuntime
                        \/ \E t \in Tasks : BlockingDone(t)
  PROVE  WakeInv'
<1>1. UNCHANGED <<injector, cur, ext, waiter, state, cancelled, fut>>
  BY DEF SpawnNotify, BlockOnReturn, DropRuntime, BlockingDone, qvars, tvars, cvars, uvars
<1>2. \A u \in Threads : pc'[u] = "armed" => pc[u] = "armed"
  <2>1. CASE SpawnNotify
    <3>1. [pc EXCEPT ![Main] = "poll"] \in [Threads -> Pcs]
      BY PcNames DEF IInv, TypeOK
    <3>2. Notified([pc EXCEPT ![Main] = "poll"], pc')
      BY <2>1, <3>1, NotifyOneEffect DEF SpawnNotify
    <3> QED BY <3>2 DEF Notified, IInv, TypeOK
  <2>2. CASE BlockOnReturn \/ DropRuntime \/ \E t \in Tasks : BlockingDone(t)
    BY <2>2 DEF BlockOnReturn, DropRuntime, BlockingDone, tvars, IInv, TypeOK
  <2> QED BY <2>1, <2>2
<1>3. \A t \in Tasks : Pending(t)' => Pending(t) /\ (Source(t) => Source(t)')
  BY <1>1 DEF Pending, Source
<1> QED BY <1>1, <1>2, <1>3, WatchedKept DEF WakeInv, HoldersWait

\* What a body does: it settles nothing that is Running, and arms itself only with a
\* waker stored.
LEMMA BodyWatched ==
  ASSUME IInv, WakeInv, NEW th \in Threads, BodyStep(th)
  PROVE  WakeInv'
<1>1. ASSUME NEW o \in Owners, NEW c \in Tasks, CancelFlag(th, o, c) PROVE WakeInv'
  <2>1. /\ UNCHANGED <<injector, cur, ext, waiter, state, fut>>
        /\ cancelled' = [cancelled EXCEPT ![c] = TRUE]
        /\ \A u \in Threads : pc'[u] = "armed" => pc[u] = "armed"
    BY <1>1 DEF CancelFlag, qvars, uvars, IInv, TypeOK
  <2>2. \A t \in Tasks : Pending(t)' => Pending(t) /\ (Source(t) => Source(t)')
    BY <2>1 DEF Pending, Source, IInv, TypeOK
  <2> QED BY <2>1, <2>2, WatchedKept DEF WakeInv, HoldersWait
<1>2. ASSUME NEW o \in Owners, NEW c \in Tasks, JoinPending(th, o, c) PROVE WakeInv'
  <2>1. /\ UNCHANGED <<injector, cur, ext, cancelled, state, fut>>
        /\ waiter' = [waiter EXCEPT ![c] = o] /\ o = Holder[c] /\ state[c] = "Running"
        /\ pc' = [pc EXCEPT ![th] = IF o = Main THEN "pop" ELSE "armed"]
        /\ Running(th, o)
    BY <1>2 DEF JoinPending, qvars, uvars
  <2>2. HoldersWait'
    BY <2>1 DEF WakeInv, HoldersWait, IInv, TypeOK
  <2>3. \A t \in Tasks : Pending(t)' => Pending(t) /\ (Source(t) => Source(t)')
    <3> SUFFICES ASSUME NEW t \in Tasks, Source(t) PROVE Source(t)'
      BY <2>1 DEF Pending
    <3>1. \A d \in Tasks : waiter[d] = t => waiter'[d] = t
      BY <2>1, Names DEF WakeInv, HoldersWait, IInv, TypeOK
    <3> QED BY <2>1, <3>1 DEF Source
  <2>4. ASSUME NEW u \in Threads, pc'[u] = "armed", pc[u] # "armed",
               NEW t \in Tasks, cur[u] = t
        PROVE  Source(t)'
    <3>1. u = th /\ o # Main
      BY <2>1, <2>4 DEF IInv, TypeOK
    <3>2. o = t
      BY <2>1, <2>4, <3>1 DEF Running
    <3>3. waiter'[c] = o /\ state'[c] = "Running"
      BY <2>1 DEF IInv, TypeOK
    <3> QED BY <2>1, <3>2, <3>3 DEF Source
  <2> QED BY <2>1, <2>2, <2>3, <2>4, WatchedKept DEF WakeInv
<1>3. ASSUME NEW o \in Owners, NEW c \in Tasks, JoinReady(th, o, c) PROVE WakeInv'
  <2>1. /\ UNCHANGED <<injector, cur, pc, ext, waiter, cancelled, fut>>
        /\ \A t \in Tasks : state'[t] = "Running" <=> state[t] = "Running"
    BY <1>3 DEF JoinReady, qvars, tvars, IInv, TypeOK
  <2>2. \A t \in Tasks : Pending(t)' => Pending(t) /\ (Source(t) => Source(t)')
    BY <2>1 DEF Pending, Source
  <2> QED BY <2>1, <2>2, WatchedKept DEF WakeInv, HoldersWait
<1>4. ASSUME NEW o \in Tasks, YieldNow(th, o) PROVE WakeInv'
  <2>1. /\ UNCHANGED <<cur, ext, waiter, cancelled, state, fut>>
        /\ Wake(o, [pc EXCEPT ![th] = "armed"]) /\ Running(th, o)
    BY <1>4 DEF YieldNow, cvars
  <2>2. [pc EXCEPT ![th] = "armed"] \in [Threads -> Pcs] /\ injector \in Seq(Tasks)
    BY PcNames DEF IInv, TypeOK
  <2>3. Notified([pc EXCEPT ![th] = "armed"], pc')
    BY <2>1, <2>2, WakeEffect
  <2>4. \A t \in Tasks : Pending(t)' => Pending(t) /\ (Source(t) => Source(t)')
    BY <2>1, <2>2, WakeQueues DEF Pending, Source
  <2>5. CASE cancelled[o]
    <3>1. cur[th] = o
      BY <2>1, Names DEF Running
    <3>2. ASSUME NEW t \in Tasks, Pending(t)', NEW u \in Threads, pc'[u] = "armed", cur[u] = t
          PROVE  Source(t)' \/ \E v \in Threads \ {u} : cur[v] = t
      <4>1. u # th
        BY <2>1, <2>5, <3>1, <3>2 DEF Pending
      <4>2. pc[u] = "armed"
        BY <2>3, <3>2, <4>1 DEF Notified, IInv, TypeOK
      <4>3. Pending(t)
        BY <2>1, <3>2 DEF Pending
      <4> QED BY <2>4, <3>2, <4>2, <4>3 DEF WakeInv, Watched
    <3>3. ASSUME NEW t \in Tasks, Pending(t)', fut'[t] = "some"
          PROVE  Source(t)' \/ \E v \in Threads : cur[v] = t
      BY <2>1, <2>4, <3>3 DEF WakeInv, Watched
    <3> QED BY <2>1, <3>2, <3>3 DEF WakeInv, Watched, HoldersWait
  <2>6. CASE ~cancelled[o]
    <3>1. cur[th] = o
      BY <2>1, Names DEF Running
    <3>2. Source(o)'
      BY <2>1, <2>2, <2>6, WakeQueues DEF Source
    <3>3. \A u \in Threads : pc'[u] = "armed" => pc[u] = "armed" \/ u = th
      BY <2>3 DEF Notified, IInv, TypeOK
    <3>4. \A u \in Threads : pc'[u] = "armed" =>
            pc[u] = "armed" \/ \A t \in Tasks : cur[u] = t => Source(t)'
      BY <3>1, <3>2, <3>3
    <3> QED BY <2>1, <2>4, <3>4, WatchedKept DEF WakeInv, HoldersWait
  <2> QED BY <2>5, <2>6
<1>5. ASSUME NEW o \in Tasks, AwaitOutside(th, o) PROVE WakeInv'
  <2>1. /\ UNCHANGED <<injector, cur, waiter, cancelled, state, fut>>
        /\ ext' = [ext EXCEPT ![o] = TRUE] /\ pc' = [pc EXCEPT ![th] = "armed"]
        /\ Running(th, o)
    BY <1>5 DEF AwaitOutside, qvars, cvars
  <2>2. \A t \in Tasks : Pending(t)' => Pending(t) /\ (Source(t) => Source(t)')
    BY <2>1 DEF Pending, Source, IInv, TypeOK
  <2>3. cur[th] = o /\ Source(o)'
    BY <2>1, Names DEF Running, Source, IInv, TypeOK
  <2>4. \A u \in Threads : pc'[u] = "armed" =>
          pc[u] = "armed" \/ \A t \in Tasks : cur[u] = t => Source(t)'
    BY <2>1, <2>3 DEF IInv, TypeOK
  <2> QED BY <2>1, <2>2, <2>4, WatchedKept DEF WakeInv, HoldersWait
<1> QED BY <1>1, <1>2, <1>3, <1>4, <1>5 DEF BodyStep

\* An outside waker that is called has queued its task.
LEMMA OutsideWatched ==
  ASSUME IInv, WakeInv, NEW o \in Tasks, OutsideWake(o)
  PROVE  WakeInv'
<1>1. /\ UNCHANGED <<cur, waiter, cancelled, state, fut>>
      /\ ext' = [ext EXCEPT ![o] = FALSE] /\ Wake(o, pc)
  BY DEF OutsideWake, cvars
<1>2. pc \in [Threads -> Pcs] /\ injector \in Seq(Tasks)
  BY DEF IInv, TypeOK
<1>3. \A u \in Threads : pc'[u] = "armed" => pc[u] = "armed"
  BY <1>1, <1>2, WakeEffect DEF Notified
<1>4. \A t \in Tasks : Pending(t)' => Pending(t) /\ (Source(t) => Source(t)')
  <2> SUFFICES ASSUME NEW t \in Tasks, Pending(t)', Source(t) PROVE Source(t)'
    BY <1>1 DEF Pending
  <2>1. CASE t = o
    BY <1>1, <1>2, <2>1, WakeQueues DEF Pending, Source
  <2>2. CASE t # o
    <3>1. ext'[t] = ext[t]
      BY <1>1, <2>2 DEF IInv, TypeOK
    <3> QED BY <1>1, <1>2, <3>1, WakeQueues DEF Source
  <2> QED BY <2>1, <2>2
<1> QED BY <1>1, <1>3, <1>4, WatchedKept DEF WakeInv, HoldersWait

\* A Running task c is settled and its joiner woken: whoever waited for c is queued.
LEMMA SettledWakes ==
  ASSUME IInv, WakeInv, NEW c \in Tasks, NEW p,
         IF state[c] = "Running" THEN Wake(waiter[c], p) ELSE UNCHANGED injector,
         state' = [state EXCEPT ![c] = state'[c]], state'[c] # "Running",
         waiter' = [waiter EXCEPT ![c] = NoOne],
         UNCHANGED <<ext, cancelled>>,
         NEW t \in Tasks, Pending(t)', Source(t)
  PROVE  Source(t)'
<1>0. injector \in Seq(Tasks)
  BY DEF IInv, TypeOK
<1>1. \A d \in Tasks : d # c => waiter'[d] = waiter[d] /\ state'[d] = state[d]
  BY DEF IInv, TypeOK
<1>2. (\E i \in DOMAIN injector : injector[i] = t)
        => \E i \in DOMAIN injector' : injector'[i] = t
  BY <1>0, WakeQueues
<1>3. waiter[c] = t /\ state[c] = "Running" => \E i \in DOMAIN injector' : injector'[i] = t
  BY <1>0, WakeQueues DEF Pending
<1> QED BY <1>1, <1>2, <1>3 DEF Source

\* pop_task moves an entry from the queue to a thread.
LEMMA PopWatched ==
  ASSUME IInv, WakeInv, NEW th \in Threads, PopTask(th)
  PROVE  WakeInv'
<1>1. /\ UNCHANGED <<ext, waiter, state, cancelled, fut>>
      /\ injector # <<>> /\ injector' = Tail(injector)
      /\ cur' = [cur EXCEPT ![th] = Head(injector)] /\ pc' = [pc EXCEPT ![th] = "run"]
      /\ pc[th] = "pop"
  BY DEF PopTask, cvars, uvars
<1>2. cur[th] = NoOne /\ pc \in [Threads -> Pcs] /\ cur \in [Threads -> Tasks \cup {NoOne}]
  BY <1>1 DEF IInv, TypeOK, ThreadConsistent, ThreadOK, RunPcs
<1>3. ASSUME NEW t \in Tasks, Source(t) PROVE Source(t)' \/ Head(injector) = t
  <2>1. injector \in Seq(Tasks)
    BY DEF IInv, TypeOK
  <2>2. (\E i \in DOMAIN injector : injector[i] = t)
          => (\E i \in DOMAIN injector' : injector'[i] = t) \/ Head(injector) = t
    <3> SUFFICES ASSUME NEW i \in DOMAIN injector, injector[i] = t, i # 1
                 PROVE  \E j \in DOMAIN injector' : injector'[j] = t
      BY <1>1, <2>1
    <3>1. i - 1 \in DOMAIN injector' /\ injector'[i - 1] = t
      BY <1>1, <2>1
    <3> QED BY <3>1
  <2> QED BY <1>1, <1>3, <2>2 DEF Source
<1>4. Watched'
  <2>1. ASSUME NEW t \in Tasks, Pending(t)', fut'[t] = "some"
        PROVE  Source(t)' \/ \E u \in Threads : cur'[u] = t
    <3>1. Source(t) \/ \E u \in Threads : cur[u] = t
      BY <1>1, <2>1 DEF WakeInv, Watched, Pending
    <3> QED BY <1>1, <1>2, <1>3, <3>1, Names
  <2>2. ASSUME NEW t \in Tasks, Pending(t)', NEW u \in Threads, pc'[u] = "armed", cur'[u] = t
        PROVE  Source(t)' \/ \E v \in Threads \ {u} : cur'[v] = t
    <3>1. u # th /\ pc[u] = "armed" /\ cur[u] = t
      BY <1>1, <1>2, <2>2
    <3>2. Source(t) \/ \E v \in Threads \ {u} : cur[v] = t
      BY <1>1, <2>2, <3>1 DEF WakeInv, Watched, Pending
    <3> QED BY <1>1, <1>2, <1>3, <3>1, <3>2, Names
  <2> QED BY <2>1, <2>2 DEF Watched
<1> QED BY <1>1, <1>4 DEF WakeInv, HoldersWait

\* A thread leaves its task x: somebody else must be bound to run it if it waits.
LEMMA LeaveWatched ==
  ASSUME IInv, Watched, NEW th \in Threads, NEW x \in Tasks, cur[th] = x,
         cur' = [cur EXCEPT ![th] = NoOne],
         \A t \in Tasks : Pending(t)' => Pending(t) /\ (Source(t) => Source(t)'),
         \A t \in Tasks : t # x /\ fut'[t] = "some" => fut[t] = "some",
         \A u \in Threads : pc'[u] = "armed" => u # th /\ pc[u] = "armed",
         Pending(x)' =>
           /\ fut'[x] = "some" => Source(x)' \/ \E u \in Threads \ {th} : cur[u] = x
           /\ \A u \in Threads \ {th} : ~(pc[u] = "armed" /\ cur[u] = x)
  PROVE  Watched'
<1>0. cur \in [Threads -> Tasks \cup {NoOne}]
  BY DEF IInv, TypeOK
<1>1. ASSUME NEW t \in Tasks, Pending(t)', fut'[t] = "some"
      PROVE  Source(t)' \/ \E u \in Threads : cur'[u] = t
  <2>1. CASE t = x
    BY <1>0, <1>1, <2>1
  <2>2. CASE t # x
    <3>1. Source(t) \/ \E u \in Threads : cur[u] = t
      BY <1>1, <2>2 DEF Watched
    <3> QED BY <1>0, <1>1, <2>2, <3>1
  <2> QED BY <2>1, <2>2
<1>2. ASSUME NEW t \in Tasks, Pending(t)', NEW u \in Threads, pc'[u] = "armed", cur'[u] = t
      PROVE  Source(t)' \/ \E v \in Threads \ {u} : cur'[v] = t
  <2>1. u # th /\ pc[u] = "armed" /\ cur[u] = t /\ t # x
    BY <1>0, <1>2
  <2>2. Source(t) \/ \E v \in Threads \ {u} : cur[v] = t
    BY <1>2, <2>1 DEF Watched
  <2> QED BY <1>0, <1>2, <2>1, <2>2
<1> QED BY <1>1, <1>2 DEF Watched

\* Nobody else polls the task that th polls.
LEMMA PollsAlone ==
  ASSUME IInv, NEW th \in Threads, HoldsFuture(th), cur[th] \in Tasks,
         NEW u \in Threads, pc[u] = "armed", cur[u] = cur[th]
  PROVE  u = th
BY DEF IInv, PollExclusion, Polls, HoldsFuture

\* Taking the future, or finding it gone.
LEMMA LockWatched ==
  ASSUME IInv, WakeInv, NEW th \in Threads, LockFuture(th)
  PROVE  WakeInv'
<1>0. PICK x \in Tasks : cur[th] = x
  BY DEF LockFuture, IInv, ThreadConsistent, ThreadOK, RunPcs
<1>1. /\ UNCHANGED <<injector, ext, waiter, state, cancelled>>
      /\ pc[th] = "lock" /\ \A u \in Threads : ~Polls(u, x)
  BY <1>0 DEF LockFuture, qvars, uvars
<1>2. \A t \in Tasks : Pending(t)' => Pending(t) /\ (Source(t) => Source(t)')
  BY <1>1 DEF Pending, Source
<1>3. \A u \in Threads : pc'[u] = "armed" => u # th /\ pc[u] = "armed"
  BY DEF LockFuture, Dies, AfterRun, IInv, TypeOK
<1>4. CASE poisoned[x] \/ fut[x] = "gone"
  <2>1. fut[x] = "gone"
    BY <1>1, <1>4 DEF IInv, HandleConsistent
  <2>2. cur' = [cur EXCEPT ![th] = NoOne] /\ fut' = fut
    BY <1>0, <1>4, <2>1 DEF LockFuture, Dies
  <2>3. \A u \in Threads : ~(pc[u] = "armed" /\ cur[u] = x)
    BY <1>1 DEF Polls, HoldsFuture
  <2>4. Watched'
    BY <1>0, <1>1, <1>2, <1>3, <2>1, <2>2, <2>3, LeaveWatched DEF WakeInv
  <2> QED BY <1>1, <2>4 DEF WakeInv, HoldersWait
<1>5. CASE ~poisoned[x] /\ fut[x] # "gone"
  <2>1. cur' = cur /\ fut' = [fut EXCEPT ![x] = "taken"]
    BY <1>0, <1>5 DEF LockFuture
  <2>2. \A t \in Tasks : fut'[t] = "some" => fut[t] = "some"
    BY <2>1 DEF IInv, TypeOK
  <2> QED BY <1>1, <1>2, <1>3, <2>1, <2>2, WatchedKept DEF WakeInv, HoldersWait
<1> QED BY <1>4, <1>5

\* poll returned Pending: the body was armed, so it is watched.  A body that panicked
\* has no future left.
LEMMA PutBackWatched ==
  ASSUME IInv, WakeInv, NEW th \in Threads, PollPending(th) \/ PollPanic(th)
  PROVE  WakeInv'
<1>0. PICK x \in Tasks : cur[th] = x
  BY DEF PollPending, PollPanic, IInv, ThreadConsistent, ThreadOK, RunPcs
<1>1. /\ UNCHANGED <<injector, ext, waiter, state, cancelled>>
      /\ HoldsFuture(th) /\ cur' = [cur EXCEPT ![th] = NoOne]
  BY DEF PollPending, PollPanic, Dies, qvars, uvars, HoldsFuture
<1>2. \A t \in Tasks : Pending(t)' => Pending(t) /\ (Source(t) => Source(t)')
  BY <1>1 DEF Pending, Source
<1>3. \A u \in Threads : pc'[u] = "armed" => u # th /\ pc[u] = "armed"
  BY DEF PollPending, PollPanic, Dies, AfterRun, IInv, TypeOK
<1>4. \A u \in Threads \ {th} : ~(pc[u] = "armed" /\ cur[u] = x)
  BY <1>0, <1>1, PollsAlone
<1>5. \A t \in Tasks : t # x /\ fut'[t] = "some" => fut[t] = "some"
  BY <1>0 DEF PollPending, PollPanic, IInv, TypeOK
<1>6. Pending(x)' /\ fut'[x] = "some" => Source(x)' \/ \E u \in Threads \ {th} : cur[u] = x
  <2>1. CASE PollPending(th)
    <3>1. pc[th] = "armed"
      BY <2>1 DEF PollPending
    <3>2. Pending(x) => Source(x) \/ \E u \in Threads \ {th} : cur[u] = x
      BY <1>0, <3>1 DEF WakeInv, Watched
    <3> QED BY <1>2, <3>2
  <2>2. CASE PollPanic(th)
    BY <1>0, <2>2 DEF PollPanic, IInv, TypeOK
  <2> QED BY <2>1, <2>2
<1>7. Watched'
  BY <1>0, <1>1, <1>2, <1>3, <1>4, <1>5, <1>6, LeaveWatched DEF WakeInv
<1> QED BY <1>1, <1>7 DEF WakeInv, HoldersWait

\* A task that ends, or is found cancelled, is no longer waited for; its joiner is woken.
LEMMA SettleWatched ==
  ASSUME IInv, WakeInv, NEW th \in Threads, Finish(th) \/ RunCancelled(th)
  PROVE  WakeInv'
<1>0. PICK x \in Tasks : cur[th] = x
  BY DEF Finish, RunCancelled, IInv, ThreadConsistent, ThreadOK, RunPcs
<1> DEFINE p == [pc EXCEPT ![th] = AfterRun(th)]
<1>1. /\ UNCHANGED <<ext, cancelled>> /\ cur' = [cur EXCEPT ![th] = NoOne]
      /\ waiter' = [waiter EXCEPT ![x] = NoOne]
      /\ state' = [state EXCEPT ![x] = state'[x]] /\ state'[x] # "Running"
      /\ \A t \in Tasks : t # x => fut'[t] = fut[t]
  BY <1>0 DEF Finish, RunCancelled, uvars, IInv, TypeOK
<1>2. IF state[x] = "Running" THEN Wake(waiter[x], p) ELSE pc' = p /\ UNCHANGED injector
  BY <1>0 DEF Finish, RunCancelled
<1>3. p \in [Threads -> Pcs] /\ injector \in Seq(Tasks)
  BY PcNames DEF AfterRun, IInv, TypeOK
<1>4. Notified(p, pc')
  BY <1>2, <1>3, WakeEffect DEF Notified
<1>5. \A u \in Threads : pc'[u] = "armed" => u # th /\ pc[u] = "armed"
  BY <1>4 DEF Notified, AfterRun, IInv, TypeOK
<1> HIDE DEF p
<1>6. \A t \in Tasks : Pending(t)' => Pending(t) /\ t # x
  BY <1>1 DEF Pending, IInv, TypeOK
<1>7. \A t \in Tasks : Pending(t)' /\ Source(t) => Source(t)'
  BY <1>1, <1>2, SettledWakes
<1>8. Watched'
  <2>1. \A t \in Tasks : Pending(t)' => Pending(t) /\ (Source(t) => Source(t)')
    BY <1>6, <1>7
  <2>2. \A t \in Tasks : t # x /\ fut'[t] = "some" => fut[t] = "some"
    BY <1>1
  <2>3. ~(Pending(x)')
    BY <1>6
  <2> QED BY <1>0, <1>1, <1>5, <2>1, <2>2, <2>3, LeaveWatched DEF WakeInv
<1>9. HoldersWait'
  BY <1>1 DEF WakeInv, HoldersWait, IInv, TypeOK
<1> QED BY <1>8, <1>9 DEF WakeInv

\* JoinHandle::cancel wakes the joiner of the task it cancels.
LEMMA CancelWatched ==
  ASSUME IInv, WakeInv, NEW th \in Threads, CancelState(th)
  PROVE  WakeInv'
<1>0. PICK c \in Tasks : target[th] = c
  BY DEF CancelState, IInv, ThreadConsistent, ThreadOK
<1> DEFINE p == [pc EXCEPT ![th] = InBody(th)]
<1>1. UNCHANGED <<ext, cancelled, cur, fut>>
  BY DEF CancelState, uvars
<1>2. IF state[c] = "Running" THEN Wake(waiter[c], p) ELSE pc' = p /\ UNCHANGED injector
  BY <1>0 DEF CancelState
<1>3. p \in [Threads -> Pcs] /\ injector \in Seq(Tasks)
  BY PcNames DEF InBody, IInv, TypeOK
<1>4. Notified(p, pc')
  BY <1>2, <1>3, WakeEffect DEF Notified
<1>5. \A u \in Threads : pc'[u] = "armed" => pc[u] = "armed"
  BY <1>4 DEF Notified, InBody, IInv, TypeOK
<1> HIDE DEF p
<1>6. CASE state[c] = "Running"
  <2>1. /\ waiter' = [waiter EXCEPT ![c] = NoOne]
        /\ state' = [state EXCEPT ![c] = state'[c]] /\ state'[c] # "Running"
    BY <1>0, <1>6 DEF CancelState, IInv, TypeOK
  <2>2. \A t \in Tasks : Pending(t)' => Pending(t)
    BY <1>1, <2>1 DEF Pending, IInv, TypeOK
  <2>3. \A t \in Tasks : Pending(t)' /\ Source(t) => Source(t)'
    BY <1>1, <1>2, <1>6, <2>1, SettledWakes
  <2>4. HoldersWait'
    BY <2>1 DEF WakeInv, HoldersWait, IInv, TypeOK
  <2> QED BY <1>1, <1>5, <2>2, <2>3, <2>4, WatchedKept DEF WakeInv
<1>7. CASE state[c] # "Running"
  <2>1. UNCHANGED <<injector, state, waiter>>
    BY <1>0, <1>7 DEF CancelState
  <2>2. \A t \in Tasks : Pending(t)' => Pending(t) /\ (Source(t) => Source(t)')
    BY <1>1, <2>1 DEF Pending, Source
  <2> QED BY <1>1, <1>5, <2>1, <2>2, WatchedKept DEF WakeInv, HoldersWait
<1> QED BY <1>6, <1>7

\* A spawned task starts in the queue.
LEMMA SpawnWatched ==
  ASSUME IInv, WakeInv, NEW c \in Tasks, Spawn(c)
  PROVE  WakeInv'
<1>1. /\ UNCHANGED <<ext, waiter, cancelled, cur>>
      /\ state' = [state EXCEPT ![c] = "Running"] /\ state[c] = "Unspawned"
      /\ fut' = [fut EXCEPT ![c] = "some"]
      /\ injector' = Append(injector, c) /\ injector \in Seq(Tasks)
      /\ \A u \in Threads : pc'[u] = "armed" => pc[u] = "armed"
  BY DEF Spawn, IInv, TypeOK
<1>2. /\ Len(injector') = Len(injector) + 1 /\ Len(injector) \in Nat
      /\ DOMAIN injector' = 1 .. Len(injector) + 1 /\ DOMAIN injector = 1 .. Len(injector)
      /\ injector'[Len(injector) + 1] = c
      /\ \A i \in DOMAIN injector : injector'[i] = injector[i]
  BY <1>1
<1>3. \E i \in DOMAIN injector' : injector'[i] = c
  BY <1>2
<1>4. Source(c)'
  BY <1>3 DEF Source
<1>5. \A t \in Tasks : Source(t) => Source(t)'
  <2> SUFFICES ASSUME NEW t \in Tasks, Source(t) PROVE Source(t)'
    OBVIOUS
  <2>1. (\E i \in DOMAIN injector : injector[i] = t)
          => \E i \in DOMAIN injector' : injector'[i] = t
    BY <1>2
  <2>2. \A d \in Tasks : state[d] = "Running" => state'[d] = "Running"
    BY <1>1 DEF IInv, TypeOK
  <2> QED BY <1>1, <2>1, <2>2 DEF Source
<1>6. \A t \in Tasks : t # c => /\ Pending(t)' => Pending(t)
                                /\ fut'[t] = fut[t]
  BY <1>1 DEF Pending, IInv, TypeOK
<1>7. Watched'
  <2>1. ASSUME NEW t \in Tasks, Pending(t)', fut'[t] = "some"
        PROVE  Source(t)' \/ \E u \in Threads : cur'[u] = t
    BY <1>1, <1>4, <1>5, <1>6, <2>1 DEF WakeInv, Watched
  <2>2. ASSUME NEW t \in Tasks, Pending(t)', NEW u \in Threads, pc'[u] = "armed", cur'[u] = t
        PROVE  Source(t)' \/ \E v \in Threads \ {u} : cur'[v] = t
    BY <1>1, <1>4, <1>5, <1>6, <2>2 DEF WakeInv, Watched
  <2> QED BY <2>1, <2>2 DEF Watched
<1> QED BY <1>1, <1>7 DEF WakeInv, HoldersWait

\* Nothing is pending before the first spawn.
LEMMA InitWatched == Init => WakeInv
BY DEF Init, WakeInv, Watched, Pending, HoldersWait

\* Every step keeps pending tasks watched.
LEMMA NextWatched == IInv /\ WakeInv /\ [Next]_vars => WakeInv'
<1> SUFFICES ASSUME IInv, WakeInv, [Next]_vars PROVE WakeInv'
  OBVIOUS
<1>run. ASSUME NEW th \in Threads, RunStep(th) PROVE WakeInv'
  BY <1>run, PopWatched, QuietWatched, SettleWatched, LockWatched, PutBackWatched,
     CancelWatched, BodyWatched
     DEF RunStep
<1>1. ASSUME NEW w \in Workers, WorkerStep(w) \/ ParkTimeout(w) PROVE WakeInv'
  BY <1>1, <1>run, QuietWatched DEF WorkerStep, Threads
<1>2. CASE MainStep
  BY <1>2, <1>run, MainWatched, SpawnWatched DEF MainStep, Threads
<1>3. ASSUME NEW t \in Tasks, OutsideWake(t) \/ BlockingDone(t) PROVE WakeInv'
  BY <1>3, OutsideWatched, MainWatched
<1>4. CASE UNCHANGED vars
  BY <1>4 DEF WakeInv, Watched, HoldersWait, Pending, Source,
              vars, qvars, tvars, cvars, uvars
<1> QED BY <1>1, <1>2, <1>3, <1>4 DEF Next, Terminated

\* A task that waits in its slot, Running and not cancelled, is queued, popped, known to
\* an outside waker or awaits a Running task, on every interleaving.
THEOREM NoTaskForgotten == Spec => []NoLostWakeup
<1>1. WakeInv => NoLostWakeup
  BY DEF WakeInv, Watched, Pending, Source, NoLostWakeup
<1> QED BY <1>1, InitWatched, NextWatched, Invariance, PTL DEF Spec

-----------------------------------------------------------------------------
\* No worker sleeps on work.

\* The workers that look for a task, and those asleep on the condvar, at positions p.
SeekPcs == {"loop", "pop", "check"}
SeekingIn(p) == {w \in Workers : p[w] \in SeekPcs}
ParkedIn(p) == {w \in Workers : p[w] = "wait"}

\* spawn has queued a task and not notified yet.
Token(p) == IF p[Main] = "notify" THEN 1 ELSE 0

\* NoSleepOnWork is not inductive: how many entries may be queued while a worker sleeps
\* has to be counted.  Each entry is owed to a worker that looks for a task, or to the
\* notification that spawn still owes.  After the shutdown only one worker, the one that
\* held the lock then, can fall asleep, and it does on an empty queue.
SleepInv ==
  /\ \A w \in Workers : pc[w] = "parking" <=> injLock = w
  /\ injLock # NoOne => injector = <<>>
  /\ shutdown => pc[Main] = "exit"
  /\ shutdown => \A w, u \in Workers :
       pc[w] \in {"wait", "parking"} /\ pc[u] \in {"wait", "parking"} => u = w
  /\ shutdown /\ ParkedIn(pc) # {} => injector = <<>>
  /\ ~shutdown /\ ParkedIn(pc) # {} =>
       Len(injector) <= Cardinality(SeekingIn(pc)) + Token(pc)

\* p is pc after a move of a thread that keeps looking for tasks if it did, falls not
\* asleep, and leaves the lock and the owed notification alone.
Moved(p) ==
  /\ p \in [Threads -> Pcs]
  /\ ~shutdown => SeekingIn(pc) \subseteq SeekingIn(p)
  /\ ParkedIn(p) \subseteq ParkedIn(pc)
  /\ \A w \in Workers : p[w] = "parking" <=> pc[w] = "parking"
  /\ pc[Main] = "notify" => p[Main] = "notify"
  /\ shutdown => p[Main] = "exit"

\* There are finitely many workers, so the seekers can be counted.
LEMMA SeekingFinite ==
  ASSUME NEW p
  PROVE  IsFiniteSet(SeekingIn(p)) /\ Cardinality(SeekingIn(p)) \in Nat
<1>1. SeekingIn(p) \subseteq Workers
  BY DEF SeekingIn
<1>2. IsFiniteSet(SeekingIn(p))
  BY <1>1, WorkersFinite, FS_Subset
<1> QED BY <1>2, FS_CardinalityType

\* More seekers, larger count.
LEMMA SeekingMore ==
  ASSUME NEW p, NEW q, SeekingIn(p) \subseteq SeekingIn(q)
  PROVE  Cardinality(SeekingIn(p)) <= Cardinality(SeekingIn(q))
BY SeekingFinite, FS_Subset

\* The move of one thread.
LEMMA OneMoved ==
  ASSUME TypeOK, SleepInv, NEW th \in Threads, NEW v \in Pcs,
         v \notin {"wait", "parking"}, pc[th] \notin {"parking", "notify", "exit"},
         ~shutdown /\ pc[th] \in SeekPcs => v \in SeekPcs \/ th = Main
  PROVE  Moved([pc EXCEPT ![th] = v])
<1>1. pc \in [Threads -> Pcs] /\ Main \in Threads /\ Workers \subseteq Threads
  BY DEF TypeOK, Threads
<1> QED BY <1>1, Names DEF Moved, SeekingIn, ParkedIn, SleepInv

\* A move that leaves the queue alone.
LEMMA MoveSleeps ==
  ASSUME TypeOK, SleepInv, NEW p, Moved(p), pc' = p, UNCHANGED qvars
  PROVE  SleepInv'
<1>1. ~shutdown => Cardinality(SeekingIn(pc)) <= Cardinality(SeekingIn(p))
  BY SeekingMore DEF Moved
<1>2. /\ Cardinality(SeekingIn(pc)) \in Nat /\ Cardinality(SeekingIn(p)) \in Nat
      /\ Len(injector) \in Nat
  BY SeekingFinite DEF TypeOK
<1>3. Token(pc) \in Nat /\ Token(p) \in Nat /\ Token(pc) <= Token(p)
  BY DEF Moved, Token
<1>4. ParkedIn(p) # {} => ParkedIn(pc) # {}
  BY DEF Moved
<1>5. \A w \in Workers : p[w] \in {"wait", "parking"} => pc[w] \in {"wait", "parking"}
  BY DEF Moved, ParkedIn
<1>6. /\ \A w \in Workers : p[w] = "parking" <=> injLock = w
      /\ shutdown => p[Main] = "exit"
  BY DEF Moved, SleepInv
<1>7. ~shutdown /\ ParkedIn(p) # {} => Len(injector) <= Cardinality(SeekingIn(p)) + Token(p)
  BY <1>1, <1>2, <1>3, <1>4 DEF SleepInv
<1>8. shutdown => \A w, u \in Workers :
        p[w] \in {"wait", "parking"} /\ p[u] \in {"wait", "parking"} => u = w
  BY <1>5 DEF SleepInv
<1> QED BY <1>4, <1>6, <1>7, <1>8 DEF SleepInv, qvars

\* What notify_one does to the counts: if a worker still sleeps, another one seeks now.
LEMMA NotifyCounts ==
  ASSUME NEW p \in [Threads -> Pcs], NEW q \in NotifyOne(p), ParkedIn(q) # {}
  PROVE  /\ Cardinality(SeekingIn(q)) = Cardinality(SeekingIn(p)) + 1
         /\ \E w, u \in ParkedIn(p) : w # u
<1>1. PICK u \in Workers : q[u] = "wait"
  BY DEF ParkedIn
<1>2. ParkedIn(p) # {}
  BY <1>1 DEF NotifyOne, ParkedIn
<1>3. PICK w \in Workers : p[w] = "wait" /\ q = [p EXCEPT ![w] = "loop"]
  BY <1>2 DEF NotifyOne, ParkedIn
<1>4. w \in Threads /\ Workers \subseteq Threads
  BY DEF Threads
<1>5. SeekingIn(q) = SeekingIn(p) \cup {w}
  BY <1>3, <1>4 DEF SeekingIn, SeekPcs
<1>6. w \notin SeekingIn(p)
  BY <1>3 DEF SeekingIn, SeekPcs
<1>7. Cardinality(SeekingIn(q)) = Cardinality(SeekingIn(p)) + 1
  BY <1>5, <1>6, SeekingFinite, FS_AddElement
<1>8. u # w /\ u \in ParkedIn(p) /\ w \in ParkedIn(p)
  BY <1>1, <1>3, <1>4 DEF ParkedIn
<1> QED BY <1>7, <1>8

\* A push that notifies: one entry more, one seeker more if anybody sleeps on.
LEMMA PushSleeps ==
  ASSUME TypeOK, SleepInv, NEW p, Moved(p), NEW t \in Tasks, Push(t, p),
         UNCHANGED <<injLock, shutdown>>
  PROVE  SleepInv'
<1>1. /\ injLock = NoOne /\ injector' = Append(injector, t) /\ pc' \in NotifyOne(p)
      /\ p \in [Threads -> Pcs]
  BY DEF Push, Moved
<1>2. Notified(p, pc')
  BY <1>1, NotifyOneEffect
<1>3. /\ \A w \in Workers : pc'[w] = "parking" <=> pc[w] = "parking"
      /\ \A w \in Workers : pc'[w] = "wait" => p[w] = "wait"
      /\ ParkedIn(p) \subseteq ParkedIn(pc)
      /\ pc'[Main] = p[Main]
      /\ shutdown => p[Main] = "exit"
  <2>1. Workers \subseteq Threads /\ Main \in Threads
    BY DEF Threads
  <2>2. p[Main] = "wait" => pc'[Main] = p[Main]
    <3>1. \A w \in Workers : w # Main
      BY Names
    <3> QED BY <1>1, <2>1, <3>1 DEF NotifyOne
  <2> QED BY <1>2, <2>1, <2>2 DEF Notified, Moved
<1>4. ASSUME ParkedIn(pc') # {} PROVE \E w, u \in ParkedIn(pc) : w # u
  BY <1>1, <1>3, <1>4, NotifyCounts
<1>5. shutdown => ParkedIn(pc') = {}
  BY <1>4 DEF SleepInv, ParkedIn
<1>6. ~shutdown /\ ParkedIn(pc') # {} =>
        Len(injector') <= Cardinality(SeekingIn(pc')) + Token(pc')
  <2> SUFFICES ASSUME ~shutdown, ParkedIn(pc') # {}
               PROVE  Len(injector') <= Cardinality(SeekingIn(pc')) + Token(pc')
    OBVIOUS
  <2>1. Cardinality(SeekingIn(pc')) = Cardinality(SeekingIn(p)) + 1
    BY <1>1, NotifyCounts
  <2>2. Cardinality(SeekingIn(pc)) <= Cardinality(SeekingIn(p))
    BY SeekingMore DEF Moved
  <2>3. Len(injector) <= Cardinality(SeekingIn(pc)) + Token(pc)
    BY <1>4 DEF SleepInv
  <2>4. Token(pc) \in Nat /\ Token(pc') \in Nat /\ Token(pc) <= Token(pc')
    BY <1>3 DEF Token, Moved
  <2>5. Len(injector') = Len(injector) + 1 /\ Len(injector) \in Nat
    BY <1>1 DEF TypeOK
  <2>6. Cardinality(SeekingIn(pc)) \in Nat /\ Cardinality(SeekingIn(p)) \in Nat
    BY SeekingFinite
  <2> QED BY <2>1, <2>2, <2>3, <2>4, <2>5, <2>6
<1>7. shutdown => \A w, u \in Workers :
        pc'[w] \in {"wait", "parking"} /\ pc'[u] \in {"wait", "parking"} => u = w
  BY <1>3 DEF SleepInv, ParkedIn
<1>8. /\ \A w \in Workers : pc'[w] = "parking" <=> injLock' = w
      /\ shutdown => pc'[Main] = "exit"
  BY <1>3 DEF SleepInv
<1> QED BY <1>1, <1>5, <1>6, <1>7, <1>8 DEF SleepInv

\* A wake is one of the two.
LEMMA WakeSleeps ==
  ASSUME TypeOK, SleepInv, NEW p, Moved(p), NEW o, Wake(o, p),
         UNCHANGED <<injLock, shutdown>>
  PROVE  SleepInv'
BY PushSleeps, MoveSleeps DEF Wake, qvars

\* The steps that move one thread and leave the queue alone.
LEMMA QuietSleeps ==
  ASSUME IInv, SleepInv, NEW th \in Threads,
         \/ th \in Workers /\ (LoopTop(th) \/ ParkTimeout(th))
         \/ PopNone(th) \/ RunCheck(th) \/ LockFuture(th) \/ PollPending(th)
         \/ PollReady(th) \/ PollPanic(th)
  PROVE  SleepInv'
<1>1. TypeOK /\ UNCHANGED qvars
  BY DEF IInv, LoopTop, ParkTimeout, PopNone, RunCheck, LockFuture, PollPending,
         PollReady, PollPanic
<1>2. \E v \in Pcs : /\ pc' = [pc EXCEPT ![th] = v]
                     /\ v \notin {"wait", "parking"}
                     /\ ~shutdown /\ pc[th] \in SeekPcs => v \in SeekPcs \/ th = Main
  BY PcNames DEF LoopTop, ParkTimeout, PopNone, RunCheck, LockFuture, PollPending,
         PollReady, PollPanic, Dies, AfterRun, SeekPcs
<1>3. pc[th] \notin {"parking", "notify", "exit"}
  BY DEF LoopTop, ParkTimeout, PopNone, RunCheck, LockFuture, PollPending,
         PollReady, PollPanic
<1> QED BY <1>1, <1>2, <1>3, OneMoved, MoveSleeps

\* What a body does: it moves its own thread, and yield_now wakes.
LEMMA BodySleeps ==
  ASSUME IInv, SleepInv, NEW th \in Threads, BodyStep(th)
  PROVE  SleepInv'
<1>0. TypeOK /\ pc \in [Threads -> Pcs]
  BY DEF IInv, TypeOK
<1>1. ASSUME NEW o \in Owners, NEW c \in Tasks, CancelFlag(th, o, c) \/ JoinPending(th, o, c)
      PROVE  SleepInv'
  <2>1. pc[th] \in {"polling", "armed", "poll"} /\ UNCHANGED qvars
    BY <1>1 DEF CancelFlag, JoinPending, Running
  <2>2. \E v \in Pcs : pc' = [pc EXCEPT ![th] = v] /\ v \notin {"wait", "parking"}
    BY <1>1, PcNames DEF CancelFlag, JoinPending
  <2> QED BY <1>0, <2>1, <2>2, OneMoved, MoveSleeps DEF SeekPcs
<1>2. ASSUME NEW o \in Owners, NEW c \in Tasks, JoinReady(th, o, c) PROVE SleepInv'
  BY <1>2 DEF JoinReady, qvars, tvars, SleepInv
<1>3. ASSUME NEW o \in Tasks, YieldNow(th, o) \/ AwaitOutside(th, o) PROVE SleepInv'
  <2>1. pc[th] \in {"polling", "armed", "poll"} /\ UNCHANGED <<injLock, shutdown>>
    BY <1>3 DEF YieldNow, AwaitOutside, Running, qvars
  <2>2. Moved([pc EXCEPT ![th] = "armed"])
    BY <1>0, <2>1, OneMoved, PcNames DEF SeekPcs
  <2>3. CASE YieldNow(th, o)
    BY <1>0, <2>1, <2>2, <2>3, WakeSleeps DEF YieldNow
  <2>4. CASE AwaitOutside(th, o)
    BY <1>0, <2>2, <2>4, MoveSleeps DEF AwaitOutside
  <2> QED BY <1>3, <2>3, <2>4
<1> QED BY <1>1, <1>2, <1>3 DEF BodyStep

\* A task that ends or is cancelled: its joiner is woken by a thread that was not asleep.
LEMMA SettleSleeps ==
  ASSUME IInv, SleepInv, NEW th \in Threads,
         Finish(th) \/ RunCancelled(th) \/ CancelState(th)
  PROVE  SleepInv'
<1>0. TypeOK /\ UNCHANGED <<injLock, shutdown>> /\ pc[th] \in {"finish", "abort", "cancel"}
  BY DEF IInv, Finish, RunCancelled, CancelState
<1>1. ASSUME NEW v \in {AfterRun(th), InBody(th)} PROVE Moved([pc EXCEPT ![th] = v])
  BY <1>0, OneMoved, PcNames DEF AfterRun, InBody, SeekPcs
<1>2. \E v \in {AfterRun(th), InBody(th)} :
        \/ \E o : Wake(o, [pc EXCEPT ![th] = v])
        \/ pc' = [pc EXCEPT ![th] = v] /\ UNCHANGED injector
  BY DEF Finish, RunCancelled, CancelState
<1> QED BY <1>0, <1>1, <1>2, WakeSleeps, MoveSleeps DEF qvars

\* A wake from outside the runtime, and the end of a blocking closure.
LEMMA OutsideSleeps ==
  ASSUME IInv, SleepInv, NEW t \in Tasks, OutsideWake(t) \/ BlockingDone(t)
  PROVE  SleepInv'
<1>1. CASE OutsideWake(t)
  <2>1. TypeOK /\ Moved(pc)
    BY DEF IInv, TypeOK, Moved, SleepInv
  <2> QED BY <1>1, <2>1, WakeSleeps DEF OutsideWake
<1>2. CASE BlockingDone(t)
  BY <1>2 DEF BlockingDone, qvars, tvars, SleepInv
<1> QED BY <1>1, <1>2

\* pop_task: one entry and, if a worker popped it, one seeker less.
LEMMA PopSleeps ==
  ASSUME IInv, SleepInv, NEW th \in Threads, PopTask(th)
  PROVE  SleepInv'
<1>1. /\ injLock = NoOne /\ injector # <<>> /\ injector' = Tail(injector)
      /\ pc[th] = "pop" /\ pc' = [pc EXCEPT ![th] = "run"] /\ UNCHANGED <<injLock, shutdown>>
      /\ injector \in Seq(Tasks) /\ pc \in [Threads -> Pcs]
      /\ Workers \subseteq Threads /\ Main \in Threads
  BY DEF PopTask, IInv, TypeOK, Threads
<1>2. Len(injector') = Len(injector) - 1 /\ Len(injector) \in Nat
  BY <1>1
<1>3. ParkedIn(pc') = ParkedIn(pc) /\ Token(pc') = Token(pc)
  BY <1>1 DEF ParkedIn, Token
<1>4. Cardinality(SeekingIn(pc')) >= Cardinality(SeekingIn(pc)) - 1
  <2>1. CASE th \in Workers
    <3>1. th \in SeekingIn(pc) /\ SeekingIn(pc') = SeekingIn(pc) \ {th}
      BY <1>1, <2>1 DEF SeekingIn, SeekPcs
    <3>2. Cardinality(SeekingIn(pc')) = Cardinality(SeekingIn(pc)) - 1
      BY <3>1, SeekingFinite, FS_RemoveElement
    <3> QED BY <3>2, SeekingFinite
  <2>2. CASE th = Main
    <3>1. SeekingIn(pc') = SeekingIn(pc)
      BY <1>1, <2>2, Names DEF SeekingIn
    <3> QED BY <3>1, SeekingFinite
  <2> QED BY <2>1, <2>2 DEF Threads
<1>5. /\ Cardinality(SeekingIn(pc)) \in Nat /\ Cardinality(SeekingIn(pc')) \in Nat
      /\ Token(pc) \in Nat
  BY SeekingFinite DEF Token
<1>6. ~shutdown /\ ParkedIn(pc') # {} =>
        Len(injector') <= Cardinality(SeekingIn(pc')) + Token(pc')
  BY <1>2, <1>3, <1>4, <1>5 DEF SleepInv
<1>7. /\ \A w \in Workers : pc'[w] \in {"wait", "parking"} => pc'[w] = pc[w]
      /\ \A w \in Workers : pc'[w] = "parking" <=> pc[w] = "parking"
      /\ pc'[Main] = "exit" <=> pc[Main] = "exit"
  BY <1>1
<1> QED BY <1>1, <1>3, <1>6, <1>7 DEF SleepInv

\* Going to sleep: the lock is held from the look at the queue until the wait.
LEMMA ParkSleeps ==
  ASSUME IInv, SleepInv, NEW w \in Workers, ParkCheck(w) \/ ParkWait(w)
  PROVE  SleepInv'
<1>0. pc \in [Threads -> Pcs] /\ w \in Threads /\ w # Main /\ Workers \subseteq Threads
      /\ NoOne \notin Workers
  BY Names DEF IInv, TypeOK, Threads
<1>1. CASE ParkCheck(w) /\ ~(injector = <<>> /\ ~shutdown)
  <2>1. TypeOK /\ UNCHANGED qvars /\ pc' = [pc EXCEPT ![w] = "loop"] /\ pc[w] = "check"
    BY <1>1 DEF IInv, ParkCheck, qvars
  <2> QED BY <1>0, <2>1, OneMoved, MoveSleeps, PcNames DEF SeekPcs
<1>2. CASE ParkCheck(w) /\ injector = <<>> /\ ~shutdown
  <2>1. /\ injLock = NoOne /\ injLock' = w /\ pc' = [pc EXCEPT ![w] = "parking"]
        /\ UNCHANGED <<injector, shutdown>>
    BY <1>2 DEF ParkCheck
  <2>2. \A u \in Workers : pc'[u] = "parking" <=> injLock' = u
    BY <1>0, <2>1 DEF SleepInv
  <2>3. Len(injector') <= Cardinality(SeekingIn(pc')) + Token(pc')
    BY <1>2, <2>1, SeekingFinite DEF Token
  <2> QED BY <1>2, <2>1, <2>2, <2>3 DEF SleepInv
<1>3. CASE ParkWait(w)
  <2>1. /\ pc[w] = "parking" /\ injLock' = NoOne /\ pc' = [pc EXCEPT ![w] = "wait"]
        /\ UNCHANGED <<injector, shutdown>> /\ injLock = w
    BY <1>3 DEF ParkWait, SleepInv
  <2>2. injector = <<>>
    BY <1>0, <2>1 DEF SleepInv
  <2>3. \A u \in Workers : pc'[u] = "parking" <=> injLock' = u
    BY <1>0, <2>1 DEF SleepInv
  <2>4. Len(injector') <= Cardinality(SeekingIn(pc')) + Token(pc')
    BY <2>1, <2>2, SeekingFinite DEF Token
  <2>5. \A u \in Workers : pc'[u] \in {"wait", "parking"} => pc[u] \in {"wait", "parking"}
    BY <1>0, <2>1
  <2>6. shutdown => pc'[Main] = "exit"
    BY <1>0, <2>1 DEF SleepInv
  <2> QED BY <2>1, <2>2, <2>3, <2>4, <2>5, <2>6 DEF SleepInv
<1> QED BY <1>1, <1>2, <1>3

\* The steps of Main around the bodies.
LEMMA MainSleeps ==
  ASSUME IInv, SleepInv, BlockOnReturn \/ DropRuntime \/ SpawnNotify
                         \/ \E c \in Tasks : Spawn(c)
  PROVE  SleepInv'
<1>0. /\ TypeOK /\ pc \in [Threads -> Pcs] /\ Main \in Threads
      /\ Workers \subseteq Threads /\ Main \notin Workers
  BY Names DEF IInv, TypeOK, Threads
<1>1. CASE BlockOnReturn
  <2>1. UNCHANGED qvars /\ pc' = [pc EXCEPT ![Main] = "drop"] /\ pc[Main] = "poll"
    BY <1>1 DEF BlockOnReturn
  <2> QED BY <1>0, <2>1, OneMoved, MoveSleeps, PcNames DEF SeekPcs
<1>2. CASE DropRuntime
  <2>1. /\ shutdown' = TRUE /\ UNCHANGED <<injector, injLock>>
        /\ pc'[Main] = "exit"
        /\ \A w \in Workers : pc'[w] = IF pc[w] = "wait" THEN "loop" ELSE pc[w]
    BY <1>0, <1>2 DEF DropRuntime
  <2>2. ParkedIn(pc') = {}
    BY <2>1 DEF ParkedIn
  <2>3. \A w \in Workers : pc'[w] = "parking" <=> injLock = w
    BY <2>1 DEF SleepInv
  <2>4. \A w \in Workers : pc'[w] \in {"wait", "parking"} => injLock = w
    BY <2>1, <2>3
  <2> QED BY <2>1, <2>2, <2>3, <2>4 DEF SleepInv
<1>3. CASE SpawnNotify
  <2> DEFINE p == [pc EXCEPT ![Main] = "poll"]
  <2>1. /\ pc[Main] = "notify" /\ pc' \in NotifyOne(p) /\ UNCHANGED qvars
        /\ p \in [Threads -> Pcs] /\ ~shutdown
    BY <1>0, <1>3, PcNames DEF SpawnNotify, SleepInv
  <2>2. \A w \in Workers : p[w] = pc[w]
    BY <1>0
  <2>3. ParkedIn(p) = ParkedIn(pc) /\ SeekingIn(p) = SeekingIn(pc)
    BY <2>2 DEF ParkedIn, SeekingIn
  <2> HIDE DEF p
  <2>4. Notified(p, pc')
    BY <2>1, NotifyOneEffect
  <2>5. \A w \in Workers : pc'[w] = "parking" <=> pc[w] = "parking"
    BY <1>0, <2>2, <2>4 DEF Notified
  <2>6. ParkedIn(pc') # {} => Len(injector') <= Cardinality(SeekingIn(pc')) + Token(pc')
    <3> SUFFICES ASSUME ParkedIn(pc') # {}
                 PROVE  Len(injector') <= Cardinality(SeekingIn(pc')) + Token(pc')
      OBVIOUS
    <3>1. /\ Cardinality(SeekingIn(pc')) = Cardinality(SeekingIn(pc)) + 1
          /\ ParkedIn(pc) # {}
      BY <2>1, <2>3, NotifyCounts
    <3>2. Len(injector) <= Cardinality(SeekingIn(pc)) + 1
      BY <2>1, <3>1 DEF SleepInv, Token
    <3>3. /\ Token(pc') \in Nat /\ Cardinality(SeekingIn(pc)) \in Nat
          /\ Len(injector) \in Nat /\ injector' = injector
      BY <2>1, <1>0, SeekingFinite DEF Token, qvars, TypeOK
    <3> QED BY <3>1, <3>2, <3>3
  <2> QED BY <2>1, <2>5, <2>6 DEF SleepInv, qvars
<1>4. ASSUME NEW c \in Tasks, Spawn(c) PROVE SleepInv'
  <2>1. /\ pc[Main] = "poll" /\ pc' = [pc EXCEPT ![Main] = "notify"]
        /\ injLock = NoOne /\ injector' = Append(injector, c)
        /\ UNCHANGED <<injLock, shutdown>> /\ ~shutdown
    BY <1>4 DEF Spawn, SleepInv
  <2>2. \A w \in Workers : pc'[w] = pc[w]
    BY <1>0, <2>1
  <2>3. ParkedIn(pc') = ParkedIn(pc) /\ SeekingIn(pc') = SeekingIn(pc)
    BY <2>2 DEF ParkedIn, SeekingIn
  <2>4. Token(pc) = 0 /\ Token(pc') = 1
    BY <1>0, <2>1 DEF Token
  <2>5. Len(injector') = Len(injector) + 1 /\ Len(injector) \in Nat
    BY <1>0, <2>1 DEF TypeOK
  <2>6. ParkedIn(pc') # {} => Len(injector') <= Cardinality(SeekingIn(pc')) + Token(pc')
    <3>1. ParkedIn(pc) # {} => Len(injector) <= Cardinality(SeekingIn(pc)) + Token(pc)
      BY <2>1 DEF SleepInv
    <3>2. Cardinality(SeekingIn(pc)) \in Nat
      BY SeekingFinite
    <3> QED BY <2>3, <2>4, <2>5, <3>1, <3>2
  <2> QED BY <2>1, <2>2, <2>6 DEF SleepInv
<1> QED BY <1>1, <1>2, <1>3, <1>4

\* At the start nobody sleeps.
LEMMA InitSleeps == Init => SleepInv
<1> SUFFICES ASSUME Init PROVE SleepInv
  OBVIOUS
<1>1. \A w \in Workers : pc[w] = "loop" /\ w # NoOne
  BY Names DEF Init, Threads
<1>2. ParkedIn(pc) = {}
  BY <1>1 DEF ParkedIn
<1> QED BY <1>1, <1>2 DEF Init, SleepInv

\* Every step keeps the queue accounted for.
LEMMA NextSleeps == IInv /\ SleepInv /\ [Next]_vars => SleepInv'
<1> SUFFICES ASSUME IInv, SleepInv, [Next]_vars PROVE SleepInv'
  OBVIOUS
<1>run. ASSUME NEW th \in Threads, RunStep(th) PROVE SleepInv'
  BY <1>run, PopSleeps, QuietSleeps, SettleSleeps, BodySleeps DEF RunStep
<1>1. ASSUME NEW w \in Workers, WorkerStep(w) \/ ParkTimeout(w) PROVE SleepInv'
  BY <1>1, <1>run, QuietSleeps, ParkSleeps DEF WorkerStep, Threads
<1>2. CASE MainStep
  BY <1>2, <1>run, MainSleeps DEF MainStep, Threads
<1>3. ASSUME NEW t \in Tasks, OutsideWake(t) \/ BlockingDone(t) PROVE SleepInv'
  BY <1>3, OutsideSleeps
<1>4. CASE UNCHANGED vars
  BY <1>4 DEF SleepInv, vars, qvars, tvars
<1> QED BY <1>1, <1>2, <1>3, <1>4 DEF Next, Terminated

\* Whatever the number of workers, a queued task is never left to the 10 ms timeout.
THEOREM WorkersStayAwake == Spec => []NoSleepOnWork
<1>1. IInv /\ SleepInv => NoSleepOnWork
  <2> SUFFICES ASSUME IInv, SleepInv, injector # <<>>, pc[Main] # "notify",
                      NEW w \in Workers, pc[w] # "exit",
                      \A u \in Workers : pc[u] \in {"wait", "exit"}
               PROVE  FALSE
    BY DEF NoSleepOnWork
  <2>1. w \in ParkedIn(pc)
    BY DEF ParkedIn
  <2>2. SeekingIn(pc) = {}
    BY DEF SeekingIn, SeekPcs
  <2>3. Cardinality(SeekingIn(pc)) = 0 /\ Token(pc) = 0
    BY <2>2, FS_EmptySet DEF Token
  <2>4. Len(injector) \in Nat /\ Len(injector) # 0
    BY DEF IInv, TypeOK
  <2> QED BY <2>1, <2>3, <2>4 DEF SleepInv
<1> QED BY <1>1, InitSleeps, NextSleeps, Invariance, PTL DEF Spec
=============================================================================
