------------------------------ MODULE Scheduler -----------------------------
(***************************************************************************)
(* The multi-threaded coroutine runtime: coroutine/task.rs (TaskCell,      *)
(* JoinHandle, the task waker) and coroutine/scheduler.rs (spawn,          *)
(* spawn_blocking, block_on, pop_task, worker_loop, YieldNow, Drop).       *)
(*                                                                         *)
(* A thread is a worker running worker_loop, or Main, the thread that      *)
(* called block_on and then drops the Runtime.  The body of a task is user *)
(* code: while it is polled it may cancel and await the tasks whose        *)
(* handles it was given, yield, wait for an event outside the runtime,     *)
(* return or panic.  Main, which owns the Runtime, spawns the tasks.  The  *)
(* scheduling around the bodies is the code's.  One action is one critical *)
(* section of the code: what happens under one lock, or one atomic access. *)
(*                                                                         *)
(* The per-worker local queues are left out: no code pushes to them, so    *)
(* the first and third parts of pop_task never find a task.                *)
(***************************************************************************)
EXTENDS Naturals, Sequences, FiniteSets

CONSTANTS
  Tasks,       \* tasks the program may spawn
  Workers,     \* threads running worker_loop
  Main,        \* the thread inside block_on
  NoOne,       \* no task, no waker
  Holder,      \* Holder[t]: the task (or Main) whose code keeps t's JoinHandle
  Blocking,    \* tasks created by spawn_blocking
  Panicky,     \* tasks whose body (or blocking closure) may panic
  Cancellable, \* tasks whose owner may call JoinHandle::cancel
  MaxSuspends  \* bound: how often a body yields or waits for an outside event

Owners == Tasks \cup {Main}
Threads == Workers \cup {Main}

ASSUME NamesDistinct ==
  /\ Main \notin Tasks \cup Workers
  /\ NoOne \notin Owners \cup Threads
  /\ Tasks \cap Workers = {}
ASSUME HolderAssumption ==
  /\ Holder \in [Tasks -> Owners]
  /\ \A t \in Tasks : Holder[t] # t
ASSUME SetsAssumption ==
  /\ Blocking \subseteq Tasks
  /\ Panicky \subseteq Tasks
  /\ Cancellable \subseteq Tasks
ASSUME BoundAssumption == MaxSuspends \in Nat
ASSUME WorkersFinite == IsFiniteSet(Workers)

VARIABLES
  injector,    \* the shared queue of runnable tasks; a task may be in it twice
  injLock,     \* the worker between the emptiness check and the condvar wait
  shutdown,    \* SchedulerInner::shutdown
  pc,          \* where each thread is
  cur,         \* cur[th]: the task the thread popped and is running
  target,      \* target[th]: the task being cancelled by the code on th
  fut,         \* fut[t]: the future slot of the TaskCell
  poisoned,    \* poisoned[t]: a panic unwound while the future's mutex was held
  state,       \* state[t]: the variant of TaskState
  waiter,      \* waiter[t]: the waker inside TaskState::Running
  cancelled,   \* cancelled[t]: the AtomicBool shared by handle and cell
  ext,         \* ext[t]: something outside the runtime holds a waker of t
  suspends,    \* suspends[t]: bounded count of yields and outside waits
  blk,         \* blk[t]: the thread and channel behind spawn_blocking
  joined       \* history: joined[t]: what polling t's JoinHandle returned

qvars == <<injector, injLock, shutdown>>
tvars == <<pc, cur, target>>
cvars == <<fut, poisoned, state, waiter, cancelled>>
uvars == <<ext, suspends, blk, joined>>
vars == <<qvars, tvars, cvars, uvars>>

WorkerPcs == {"loop", "pop", "check", "parking", "wait", "exit"}
RunPcs == {"run", "abort", "lock", "polling", "armed", "finish"}
MainPcs == {"poll", "notify", "drop", "pop", "exit"}
Pcs == WorkerPcs \cup RunPcs \cup MainPcs \cup {"cancel"}

\* Where a thread holds the mutex of the future of the task it runs.
HoldsFuture(th) == pc[th] \in {"polling", "armed", "finish"}
                   \/ (pc[th] = "cancel" /\ cur[th] # NoOne)
Polls(th, t) == cur[th] = t /\ HoldsFuture(th)

-----------------------------------------------------------------------------
\* Initial state: Runtime::new has started the workers, and the caller is in
\* its first poll of the future given to block_on.
Init ==
  /\ injector = <<>>
  /\ injLock = NoOne
  /\ shutdown = FALSE
  /\ pc = [th \in Threads |-> IF th = Main THEN "poll" ELSE "loop"]
  /\ cur = [th \in Threads |-> NoOne]
  /\ target = [th \in Threads |-> NoOne]
  /\ fut = [t \in Tasks |-> "none"]
  /\ poisoned = [t \in Tasks |-> FALSE]
  /\ state = [t \in Tasks |-> "Unspawned"]
  /\ waiter = [t \in Tasks |-> NoOne]
  /\ cancelled = [t \in Tasks |-> FALSE]
  /\ ext = [t \in Tasks |-> FALSE]
  /\ suspends = [t \in Tasks |-> 0]
  /\ blk = [t \in Tasks |-> "none"]
  /\ joined = [t \in Tasks |-> "none"]

-----------------------------------------------------------------------------
\* Wakers and the condvar.

\* Condvar::notify_one on top of the thread positions p.
NotifyOne(p) ==
  LET parked == {w \in Workers : p[w] = "wait"}
  IN  IF parked = {} THEN {p} ELSE {[p EXCEPT ![w] = "loop"] : w \in parked}

\* Push t and notify one waiting worker, under the injector's lock; p is what the
\* step makes of pc.
Push(t, p) ==
  /\ injLock = NoOne
  /\ injector' = Append(injector, t)
  /\ pc' \in NotifyOne(p)

\* Mutation of Wake: any stored waker is queued, the dummy waker too.
WakeAnyone(o, p) ==
  IF o # NoOne THEN Push(o, p) ELSE pc' = p /\ UNCHANGED injector

\* wake and wake_by_ref: nothing for a cancelled task, for block_on's dummy
\* waker, and when no waker is stored; otherwise a push, even of a queued task.
\* (Looking at the flag and pushing are one step: a cancellation between the two
\* is one that comes right after the push.)
Wake(o, p) ==
  IF o \in Tasks /\ ~cancelled[o]
  THEN Push(o, p)
  ELSE pc' = p /\ UNCHANGED injector

\* Where a thread goes on when TaskCell::run returns.
AfterRun(th) == IF th = Main THEN "poll" ELSE "loop"

\* Where the code running on th goes on after a call that did not suspend it.
InBody(th) == IF cur[th] = NoOne THEN "poll" ELSE "polling"

-----------------------------------------------------------------------------
\* worker_loop and pop_task.

\* Mutation of LoopTop: the shutdown flag is not looked at.
LoopTopForever(w) ==
  /\ pc[w] = "loop"
  /\ pc' = [pc EXCEPT ![w] = "pop"]
  /\ UNCHANGED <<qvars, cur, target, cvars, uvars>>

LoopTop(w) ==
  /\ pc[w] = "loop"
  /\ pc' = [pc EXCEPT ![w] = IF shutdown THEN "exit" ELSE "pop"]
  /\ UNCHANGED <<qvars, cur, target, cvars, uvars>>

\* pop_task: try_lock the injector and take its front.
PopTask(th) ==
  /\ pc[th] = "pop"
  /\ injLock = NoOne
  /\ injector # <<>>
  /\ cur' = [cur EXCEPT ![th] = Head(injector)]
  /\ injector' = Tail(injector)
  /\ pc' = [pc EXCEPT ![th] = "run"]
  /\ UNCHANGED <<injLock, shutdown, target, cvars, uvars>>

\* pop_task finds nothing: the queue is empty, or try_lock fails because another
\* thread (a waker, a thread that pops, one that is about to wait) holds the lock at
\* that moment, which can happen at any time.  A worker goes to sleep on the condvar,
\* block_on sleeps 50 us and polls again.
PopNone(th) ==
  /\ pc[th] = "pop"
  /\ pc' = [pc EXCEPT ![th] = IF th = Main THEN "poll" ELSE "check"]
  /\ UNCHANGED <<qvars, cur, target, cvars, uvars>>

\* Mutation of ParkCheck: the queue is not looked at again under the lock.
ParkCheckStale(w) ==
  /\ pc[w] = "check"
  /\ injLock = NoOne
  /\ pc' = [pc EXCEPT ![w] = IF shutdown THEN "loop" ELSE "parking"]
  /\ injLock' = IF shutdown THEN NoOne ELSE w
  /\ UNCHANGED <<injector, shutdown, cur, target, cvars, uvars>>

\* Under the injector's lock: wait only if the queue is still empty and no
\* shutdown was seen.
ParkCheck(w) ==
  /\ pc[w] = "check"
  /\ injLock = NoOne
  /\ IF injector = <<>> /\ ~shutdown
     THEN /\ pc' = [pc EXCEPT ![w] = "parking"]
          /\ injLock' = w
     ELSE /\ pc' = [pc EXCEPT ![w] = "loop"]
          /\ UNCHANGED injLock
  /\ UNCHANGED <<injector, shutdown, cur, target, cvars, uvars>>

\* Condvar::wait_timeout releases the lock and starts to wait in one step.
ParkWait(w) ==
  /\ pc[w] = "parking"
  /\ injLock' = NoOne
  /\ pc' = [pc EXCEPT ![w] = "wait"]
  /\ UNCHANGED <<injector, shutdown, cur, target, cvars, uvars>>

\* The 10 ms timeout of wait_timeout.
ParkTimeout(w) ==
  /\ pc[w] = "wait"
  /\ pc' = [pc EXCEPT ![w] = "loop"]
  /\ UNCHANGED <<qvars, cur, target, cvars, uvars>>

-----------------------------------------------------------------------------
\* TaskCell::run.

\* The cancellation check at the top of run.
RunCheck(th) ==
  /\ pc[th] = "run"
  /\ pc' = [pc EXCEPT ![th] = IF cancelled[cur[th]] THEN "abort" ELSE "lock"]
  /\ UNCHANGED <<qvars, cur, target, cvars, uvars>>

\* A cancelled task is not polled: wake the joiner of a Running task and store
\* Cancelled over whatever was there.
RunCancelled(th) == LET t == cur[th] IN
  /\ pc[th] = "abort"
  /\ LET p == [pc EXCEPT ![th] = AfterRun(th)]
     IN  IF state[t] = "Running" THEN Wake(waiter[t], p)
                                 ELSE pc' = p /\ UNCHANGED injector
  /\ state' = [state EXCEPT ![t] = "Cancelled"]
  /\ waiter' = [waiter EXCEPT ![t] = NoOne]
  /\ cur' = [cur EXCEPT ![th] = NoOne]
  /\ UNCHANGED <<injLock, shutdown, target, fut, poisoned, cancelled, uvars>>

\* Thread th dies: a worker thread ends, block_on unwinds its caller, which
\* drops the Runtime.
Dies(th) ==
  /\ pc' = [pc EXCEPT ![th] = IF th = Main THEN "drop" ELSE "exit"]
  /\ cur' = [cur EXCEPT ![th] = NoOne]

\* Mutation of LockFuture: the future is polled in its slot, after the mutex was
\* released.
LockFutureInPlace(th) == LET t == cur[th] IN
  /\ pc[th] = "lock"
  /\ fut[t] = "some"
  /\ pc' = [pc EXCEPT ![th] = "polling"]
  /\ UNCHANGED <<qvars, cur, target, cvars, uvars>>

\* Lock the future's mutex.  It may be held by another thread that popped the
\* same task; if that thread panicked, unwrap() panics here too.
LockFuture(th) == LET t == cur[th] IN
  /\ pc[th] = "lock"
  /\ \A u \in Threads : ~Polls(u, t)
  /\ \/ /\ poisoned[t]
        /\ Dies(th)
        /\ UNCHANGED fut
     \/ /\ ~poisoned[t] /\ fut[t] = "some"
        /\ fut' = [fut EXCEPT ![t] = "taken"]
        /\ pc' = [pc EXCEPT ![th] = "polling"]
        /\ UNCHANGED cur
     \/ /\ ~poisoned[t] /\ fut[t] = "gone"
        /\ pc' = [pc EXCEPT ![th] = AfterRun(th)]
        /\ cur' = [cur EXCEPT ![th] = NoOne]
        /\ UNCHANGED fut
  /\ UNCHANGED <<qvars, target, poisoned, state, waiter, cancelled, uvars>>

\* poll returned Pending: the future goes back into its slot.
PollPending(th) == LET t == cur[th] IN
  /\ pc[th] = "armed"
  /\ fut' = [fut EXCEPT ![t] = "some"]
  /\ pc' = [pc EXCEPT ![th] = AfterRun(th)]
  /\ cur' = [cur EXCEPT ![th] = NoOne]
  /\ UNCHANGED <<qvars, target, poisoned, state, waiter, cancelled, uvars>>

\* poll returned Ready; the blocking task's poll is a recv() on its channel.
PollReady(th) == LET t == cur[th] IN
  /\ pc[th] \in {"polling", "armed"}
  /\ t \in Blocking => blk[t] = "sent"
  /\ pc' = [pc EXCEPT ![th] = "finish"]
  /\ UNCHANGED <<qvars, cur, target, cvars, uvars>>

\* Mutation of Finish: the joiner is not woken.
FinishSilent(th) == LET t == cur[th] IN
  /\ pc[th] = "finish"
  /\ pc' = [pc EXCEPT ![th] = AfterRun(th)]
  /\ state' = [state EXCEPT ![t] = "Finished"]
  /\ waiter' = [waiter EXCEPT ![t] = NoOne]
  /\ fut' = [fut EXCEPT ![t] = "gone"]
  /\ cur' = [cur EXCEPT ![th] = NoOne]
  /\ UNCHANGED <<qvars, target, poisoned, cancelled, uvars>>

\* Mutation of Finish: the future goes back into its slot after Ready, too.
FinishPutBack(th) == LET t == cur[th] IN
  /\ pc[th] = "finish"
  /\ pc' = [pc EXCEPT ![th] = AfterRun(th)]
  /\ state' = [state EXCEPT ![t] = "Finished"]
  /\ waiter' = [waiter EXCEPT ![t] = NoOne]
  /\ fut' = [fut EXCEPT ![t] = "some"]
  /\ cur' = [cur EXCEPT ![th] = NoOne]
  /\ UNCHANGED <<qvars, target, poisoned, cancelled, uvars>>

\* Record the output and wake the joiner.  TaskState::Finished overwrites
\* whatever a concurrent cancel stored.
Finish(th) == LET t == cur[th] IN
  /\ pc[th] = "finish"
  /\ LET p == [pc EXCEPT ![th] = AfterRun(th)]
     IN  IF state[t] = "Running" THEN Wake(waiter[t], p)
                                 ELSE pc' = p /\ UNCHANGED injector
  /\ state' = [state EXCEPT ![t] = "Finished"]
  /\ waiter' = [waiter EXCEPT ![t] = NoOne]
  /\ fut' = [fut EXCEPT ![t] = "gone"]
  /\ cur' = [cur EXCEPT ![th] = NoOne]
  /\ UNCHANGED <<injLock, shutdown, target, poisoned, cancelled, uvars>>

\* The body panics: the future's mutex is poisoned, its slot stays empty, the
\* TaskState keeps its value and the thread running it dies.
PollPanic(th) == LET t == cur[th] IN
  /\ pc[th] \in {"polling", "armed"}
  /\ t \in Panicky
  /\ t \in Blocking => blk[t] = "dropped"
  /\ poisoned' = [poisoned EXCEPT ![t] = TRUE]
  /\ fut' = [fut EXCEPT ![t] = "gone"]
  /\ Dies(th)
  /\ UNCHANGED <<qvars, target, state, waiter, cancelled, uvars>>

-----------------------------------------------------------------------------
\* What the code of o does while thread th runs it: o is the task th polls, or
\* the future given to block_on.  Once "armed" a body has stored its waker
\* somewhere and may return Pending, but select and join go on polling their
\* other futures, so it may as well store another waker or return Ready.
Running(th, o) ==
  \/ pc[th] \in {"polling", "armed"} /\ cur[th] = o /\ o \notin Blocking
  \/ pc[th] = "poll" /\ o = Main

\* Runtime::spawn, and spawn_blocking, which first starts its own thread.  The
\* handles a body owns are moved into it, so their tasks were spawned before.  A
\* worker is notified after the injector's lock was released.
Spawn(c) ==
  /\ pc[Main] = "poll"
  /\ state[c] = "Unspawned"
  /\ \A d \in Tasks : Holder[d] = c => state[d] # "Unspawned"
  /\ state' = [state EXCEPT ![c] = "Running"]
  /\ fut' = [fut EXCEPT ![c] = "some"]
  /\ blk' = [blk EXCEPT ![c] = IF c \in Blocking THEN "computing" ELSE "none"]
  /\ injLock = NoOne
  /\ injector' = Append(injector, c)
  /\ pc' = [pc EXCEPT ![Main] = "notify"]
  /\ UNCHANGED <<injLock, shutdown, cur, target, poisoned, waiter, cancelled,
                 ext, suspends, joined>>

SpawnNotify ==
  /\ pc[Main] = "notify"
  /\ pc' \in NotifyOne([pc EXCEPT ![Main] = "poll"])
  /\ UNCHANGED <<qvars, cur, target, cvars, uvars>>

\* JoinHandle::cancel, first half: the flag.
CancelFlag(th, o, c) ==
  /\ Running(th, o) /\ Holder[c] = o
  /\ c \in Cancellable
  /\ state[c] # "Unspawned" /\ ~cancelled[c] /\ joined[c] = "none"
  /\ cancelled' = [cancelled EXCEPT ![c] = TRUE]
  /\ target' = [target EXCEPT ![th] = c]
  /\ pc' = [pc EXCEPT ![th] = "cancel"]
  /\ UNCHANGED <<qvars, cur, fut, poisoned, state, waiter, uvars>>

\* JoinHandle::cancel, second half: a Running task becomes Cancelled and its
\* waiter is woken.
CancelState(th) == LET c == target[th] IN
  /\ pc[th] = "cancel"
  /\ LET p == [pc EXCEPT ![th] = InBody(th)]
     IN  IF state[c] = "Running"
         THEN /\ Wake(waiter[c], p)
              /\ state' = [state EXCEPT ![c] = "Cancelled"]
              /\ waiter' = [waiter EXCEPT ![c] = NoOne]
         ELSE pc' = p /\ UNCHANGED <<injector, state, waiter>>
  /\ target' = [target EXCEPT ![th] = NoOne]
  /\ UNCHANGED <<injLock, shutdown, cur, fut, poisoned, cancelled, uvars>>

\* JoinHandle::poll on a Running task: store the waker and suspend.
JoinPending(th, o, c) ==
  /\ Running(th, o) /\ Holder[c] = o
  /\ state[c] = "Running" /\ joined[c] = "none"
  /\ waiter' = [waiter EXCEPT ![c] = o]
  /\ pc' = [pc EXCEPT ![th] = IF o = Main THEN "pop" ELSE "armed"]
  /\ UNCHANGED <<qvars, cur, target, fut, poisoned, state, cancelled, uvars>>

\* Mutation of JoinReady: the output is copied and stays in the TaskState.
JoinReadyCopies(th, o, c) ==
  /\ Running(th, o) /\ Holder[c] = o
  /\ joined[c] = "none"
  /\ state[c] \in {"Finished", "Cancelled"}
  /\ joined' = [joined EXCEPT ![c] =
                  IF state[c] = "Finished" THEN "ok" ELSE "cancelled"]
  /\ UNCHANGED <<qvars, tvars, cvars, ext, suspends, blk>>

\* JoinHandle::poll on a settled task: the output is moved out once.
JoinReady(th, o, c) ==
  /\ Running(th, o) /\ Holder[c] = o
  /\ joined[c] = "none"
  /\ \/ /\ state[c] = "Finished"
        /\ joined' = [joined EXCEPT ![c] = "ok"]
        /\ state' = [state EXCEPT ![c] = "Cancelled"]
     \/ /\ state[c] = "Cancelled"
        /\ joined' = [joined EXCEPT ![c] = "cancelled"]
        /\ UNCHANGED state
  /\ UNCHANGED <<qvars, tvars, fut, poisoned, waiter, cancelled,
                 ext, suspends, blk>>

\* yield_now: wake_by_ref on the task's own waker, then Pending.
YieldNow(th, t) ==
  /\ Running(th, t)
  /\ suspends[t] < MaxSuspends
  /\ suspends' = [suspends EXCEPT ![t] = @ + 1]
  /\ Wake(t, [pc EXCEPT ![th] = "armed"])
  /\ UNCHANGED <<injLock, shutdown, cur, target, cvars, ext, blk, joined>>

\* The body hands its waker to something outside the runtime, then Pending.
AwaitOutside(th, t) ==
  /\ Running(th, t)
  /\ suspends[t] < MaxSuspends
  /\ suspends' = [suspends EXCEPT ![t] = @ + 1]
  /\ ext' = [ext EXCEPT ![t] = TRUE]
  /\ pc' = [pc EXCEPT ![th] = "armed"]
  /\ UNCHANGED <<qvars, cur, target, cvars, blk, joined>>

\* A timer or I/O thread calls that waker.
OutsideWake(t) ==
  /\ ext[t]
  /\ ext' = [ext EXCEPT ![t] = FALSE]
  /\ Wake(t, pc)
  /\ UNCHANGED <<injLock, shutdown, cur, target, cvars, suspends, blk, joined>>

\* The thread of spawn_blocking sends its result, or panics and drops its sender.
BlockingDone(t) ==
  /\ blk[t] = "computing"
  /\ \E r \in {"sent", "dropped"} :
       /\ r = "dropped" => t \in Panicky
       /\ blk' = [blk EXCEPT ![t] = r]
  /\ UNCHANGED <<qvars, tvars, cvars, ext, suspends, joined>>

-----------------------------------------------------------------------------
\* block_on returns once its future has joined everything it owns, and the
\* caller drops the Runtime.
BlockOnReturn ==
  /\ pc[Main] = "poll"
  /\ \A c \in Tasks : Holder[c] = Main => joined[c] # "none"
  /\ pc' = [pc EXCEPT ![Main] = "drop"]
  /\ UNCHANGED <<qvars, cur, target, cvars, uvars>>

\* Drop for Runtime: set the flag without the injector's lock, then notify_all.
\* Workers are not joined; a worker between its check and its wait misses the
\* notification.
DropRuntime ==
  /\ pc[Main] = "drop"
  /\ shutdown' = TRUE
  /\ pc' = [th \in Threads |->
              IF th = Main THEN "exit"
              ELSE IF pc[th] = "wait" THEN "loop" ELSE pc[th]]
  /\ UNCHANGED <<injector, injLock, cur, target, cvars, uvars>>

\* Every thread has ended.
Terminated ==
  /\ \A th \in Threads : pc[th] = "exit"
  /\ UNCHANGED vars

-----------------------------------------------------------------------------
BodyStep(th) == \E o \in Owners :
  \/ \E c \in Tasks : \/ CancelFlag(th, o, c) \/ JoinPending(th, o, c)
                      \/ JoinReady(th, o, c)
  \/ o \in Tasks /\ (YieldNow(th, o) \/ AwaitOutside(th, o))

RunStep(th) ==
  \/ PopTask(th) \/ PopNone(th)
  \/ RunCheck(th) \/ RunCancelled(th) \/ LockFuture(th)
  \/ PollPending(th) \/ PollReady(th) \/ Finish(th) \/ PollPanic(th)
  \/ CancelState(th) \/ BodyStep(th)

WorkerStep(w) ==
  \/ LoopTop(w) \/ ParkCheck(w) \/ ParkWait(w) \/ RunStep(w)

MainStep ==
  \/ RunStep(Main) \/ BlockOnReturn \/ DropRuntime \/ SpawnNotify
  \/ \E c \in Tasks : Spawn(c)

Next ==
  \/ \E w \in Workers : WorkerStep(w) \/ ParkTimeout(w)
  \/ MainStep
  \/ \E t \in Tasks : OutsideWake(t) \/ BlockingDone(t)
  \/ Terminated

Spec == Init /\ [][Next]_vars

\* The operating system keeps running every thread and no thread is starved of a
\* mutex (hence SF where a step takes one), try_lock on the queue does not fail for
\* every thread forever, condvar waits time out, and outside events happen.
Fairness ==
  /\ \A w \in Workers : SF_vars(WorkerStep(w)) /\ WF_vars(ParkTimeout(w))
  /\ SF_vars(MainStep)
  /\ SF_vars(\E th \in Threads : PopTask(th))
  /\ \A t \in Tasks : SF_vars(OutsideWake(t)) /\ WF_vars(BlockingDone(t))

FairSpec == Spec /\ Fairness

-----------------------------------------------------------------------------
\* Properties.

\* Types: the queue only holds tasks, a thread is somewhere in worker_loop, run or
\* block_on, and bounded counts stay within their bounds.
TypeOK ==
  /\ injector \in Seq(Tasks)
  /\ injLock \in Workers \cup {NoOne}
  /\ shutdown \in BOOLEAN
  /\ pc \in [Threads -> Pcs]
  /\ cur \in [Threads -> Tasks \cup {NoOne}]
  /\ target \in [Threads -> Tasks \cup {NoOne}]
  /\ fut \in [Tasks -> {"none", "some", "taken", "gone"}]
  /\ poisoned \in [Tasks -> BOOLEAN]
  /\ state \in [Tasks -> {"Unspawned", "Running", "Finished", "Cancelled"}]
  /\ waiter \in [Tasks -> Owners \cup {NoOne}]
  /\ cancelled \in [Tasks -> BOOLEAN]
  /\ ext \in [Tasks -> BOOLEAN]
  /\ suspends \in [Tasks -> 0 .. MaxSuspends]
  /\ blk \in [Tasks -> {"none", "computing", "sent", "dropped"}]
  /\ joined \in [Tasks -> {"none", "ok", "cancelled"}]

\* A task may sit in the queue several times and be popped by several threads,
\* but its future is polled by at most one of them, and it is out of its slot
\* exactly while one of them polls it (the future mutex and take() in run).
PollExclusion == \A t \in Tasks :
  /\ \A th, u \in Threads : Polls(th, t) /\ Polls(u, t) => th = u
  /\ fut[t] = "taken" <=> \E th \in Threads : Polls(th, t)

\* The future returned Ready and run recorded it.
Completed(t) == fut[t] = "gone" /\ ~poisoned[t]

\* TaskState, the future slot, the cancel flag and what the joiner was told tell
\* the same story about a task although run, cancel and JoinHandle::poll update
\* them separately: Finished and a delivered output mean that the body returned;
\* Cancelled means that a cancellation was requested or the output was taken.
HandleConsistent == \A t \in Tasks :
  /\ state[t] = "Unspawned" <=> fut[t] = "none"
  /\ poisoned[t] => fut[t] = "gone"
  /\ state[t] = "Running" => ~Completed(t)
  /\ state[t] = "Finished" => Completed(t)
  /\ state[t] = "Cancelled" => cancelled[t] \/ joined[t] = "ok"
  /\ joined[t] = "ok" => Completed(t)
  /\ joined[t] = "cancelled" => cancelled[t]

\* What a thread is doing fits the task it does it to.
ThreadOK(th) ==
  /\ pc[th] \in RunPcs => cur[th] \in Tasks
  /\ pc[th] \notin RunPcs \cup {"cancel"} => cur[th] = NoOne
  /\ cur[th] \in Tasks => fut[cur[th]] # "none"
  /\ pc[th] = "abort" => cancelled[cur[th]]
  /\ pc[th] = "cancel" => /\ target[th] \in Tasks
                          /\ cancelled[target[th]]
                          /\ fut[target[th]] # "none"

\* Everything that is queued or gave its waker away is a spawned task.
WakersOK ==
  /\ \A i \in DOMAIN injector : fut[injector[i]] # "none"
  /\ \A t \in Tasks : waiter[t] \in Tasks => fut[waiter[t]] # "none"
  /\ \A t \in Tasks : ext[t] => fut[t] # "none"

ThreadConsistent == WakersOK /\ \A th \in Threads : ThreadOK(th)

\* No suspended task is forgotten: while it is Running, not cancelled, and its
\* future waits in its slot, something is bound to run it again: a queue entry,
\* a thread that popped it, an outside waker, or a Running task it awaits (the
\* wakers stored and called by task.rs, with their cancellation check).
NoLostWakeup == \A t \in Tasks :
  fut[t] = "some" /\ state[t] = "Running" /\ ~cancelled[t] =>
    \/ \E i \in DOMAIN injector : injector[i] = t
    \/ \E th \in Threads : cur[th] = t
    \/ ext[t]
    \/ \E c \in Tasks : waiter[c] = t /\ state[c] = "Running"

\* Runnable tasks never wait for the 10 ms timeout: while the queue is not empty,
\* some worker that is still alive is awake or about to be notified (worker_loop
\* checks the queue under the lock it waits with, and every push notifies).
NoSleepOnWork ==
  injector # <<>> /\ (\E w \in Workers : pc[w] # "exit") =>
    pc[Main] = "notify" \/ \E w \in Workers : pc[w] \notin {"wait", "exit"}

\* The handle of a task, as its owner sees it, behaves as TaskLifecycle allows.
Lifecycle == INSTANCE TaskLifecycle WITH
  phase <- state,
  requested <- cancelled,
  completed <- [t \in Tasks |-> Completed(t)],
  result <- joined

\* What the joiner is told and the task's history agree, on every interleaving
\* of run, cancel and JoinHandle::poll.
ImplementsLifecycle == Lifecycle!Spec

\* Unless a body panics, block_on comes back and, after the Runtime is dropped,
\* every worker ends, whichever tasks yield, wait, are cancelled or popped twice.
AllThreadsEnd ==
  <>((\E t \in Tasks : poisoned[t]) \/ (\A th \in Threads : pc[th] = "exit"))

\* A task that panics is reported to the holder of its handle: "Panicked" is one
\* of the errors TaskError lists for "task execution or joining".
PanicReachesJoiner == \A t \in Tasks :
  poisoned[t] ~> (joined[t] # "none" \/ shutdown)
=============================================================================
