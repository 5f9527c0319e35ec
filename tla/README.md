# TLA+ specifications of the Agam runtime

Agam is a compiled language with a Rust toolchain. Most of the repository is a
sequential compiler. Two parts are hard to get right by testing: the runtime
library `crates/runtime/agam_runtime`, which brings its own multi-threaded
coroutine scheduler, asynchronous synchronisation primitives, channels and task
groups, and an actor system; and the processes of the toolchain that share files
without a lock: the build daemon and its commands, the warm and compile caches, and
the registry index. This directory models both, checks them with TLC on small
instances, and proves every safety invariant and every refinement of the passing runs with TLAPS
for every instance.

Paths below are relative to `src/crates/`.

## 1. Inventory

### 1.1 Components that keep shared state

| Component | State | Operations | Interaction | What is hard | What makes it correct |
|---|---|---|---|---|---|
| Tasks and scheduler (`runtime/agam_runtime/src/coroutine/task.rs`, `scheduler.rs`) | injector queue and its mutex/condvar, shutdown flag; per task: future slot, `TaskState` with the joiner's waker, cancel flag | `spawn`, `spawn_blocking`, `block_on`, `worker_loop`, `pop_task`, `TaskCell::run`, `JoinHandle::{poll,cancel}`, wakers, `yield_now`, `Drop` | runs the futures of everything else; every waker ends in a push to the injector | a task can be queued twice and popped by two threads; cancel, run and join update flag, slot and state separately; lost wakeups; sleeping workers; panics | one poller at a time; the handle tells the truth; no suspended task is forgotten; no worker sleeps on work; everything ends |
| Async mutex and condvar (`coroutine/sync.rs`) | `locked`, queue of wakers; condvar queue of flag and waker | `lock`, `try_lock`, guard drop, `wait`, `notify_one`, `notify_all` | wakers of the scheduler; a condvar wait releases and takes the mutex | barging, stale wakers, notification between queueing and first poll, cancelled waiters | mutual exclusion; no missed notification; waiters are not stranded |
| RwLock, semaphore, barrier (`coroutine/sync.rs`) | reader count and writer flag, permits, count and generation; queues of wakers | `read`, `write`, `acquire_many`, `wait`, guard and permit drops | as the mutex | woken tasks own nothing yet; writers and readers queue separately; a waker left by a cancelled task; a barrier stores a waker only once | exclusion, permit conservation, no sleeper beside free permits, a generation is released together |
| mpsc channel (`coroutine/channel.rs`) | queue, receiver's waker, queue of sender wakers, sender count, closed flag | `send`, `recv`, `clone`, `drop`, bounded and unbounded | wakers of the scheduler | clone/drop in any order, close against send and recv, full queue, dropped sends | exactly once and in order; None only at the end; free places are used |
| oneshot channel (`coroutine/channel.rs`) | value, waker, closed | `send`, `recv`, `drop` | as above | drop against recv | delivered or refused, never both |
| Actor system (`runtime/agam_runtime/src/actor.rs`) | mailbox, alive flag, stop flag per actor; registry, thread list, shutdown flag | `spawn`, `tell`, `ask`, `stop`, `ActorCell::run`, `shutdown` | one thread per actor, handlers call back into the system | spawn against shutdown, registration after the thread was started, timeouts of `ask`, failing `pre_start`, panics | shutdown forgets nobody and returns; messages once and in order; `is_alive` is true |
| Task groups (`coroutine/nursery.rs`) | list of handles | `spawn`, `wait_all`, `wait_with_timeout`, `cancel_all` | on top of `JoinHandle` | first error, timeout | no child outlives its group |
| Async pipe (`coroutine/io.rs`) | buffer, one reader and one writer waker | read, write, close | wakers of the scheduler | a full or closed buffer | bytes in order, end of file last |
| Timers and combinators (`coroutine/timer.rs`, `combinators.rs`) | a sleeping thread per poll; the futures polled in turn | `sleep`, `timeout`, `interval`, `select`, `join` | wakers from outside the runtime | late wakes, dropped futures | seen here as outside wakers and abandoned waits |
| Compile cache (`runtime/agam_runtime/src/cache.rs`, used in `tooling/agam_driver/src/build.rs`, `packaging.rs`) | artifact and metadata files | lookup, store, evict | concurrent compiler processes | kill between two writes, a file that is being rewritten, concurrent eviction | a hit is a complete entry |
| Reference counts (`runtime/agam_runtime/src/arc.rs`) | 32-bit counters | retain, release, weak upgrade | generated code on several threads | width, release/upgrade races | freed once, when nobody refers to it |
| Build daemon (`tooling/agam_driver/src/daemon.rs`) | pid, port, sentinel and status files; snapshot and warm cache in memory, artifacts and index on disk | start, stop, clear, cycles, requests, warm lookups | command line processes and the daemon, through files and a socket | crashes, stale heartbeats, pid written by parent and child | a daemon ends only for a stop that was meant for it; answers match the sources |
| Package registry (`tooling/agam_pkg/src/lib.rs`) | index files, lock file | publish, yank, resolve | several publishers | read, check, write without a lock; a kill in the middle; the order of versions | a published version stays and keeps its content (finding 6: not under concurrent publishers); the newest match is chosen |
| Language server, debugger, profiler (`tooling/agam_lsp`, `agam_debug`, `agam_profile`) | open documents, breakpoints, samples | request loops | editor | order of requests | answers belong to the current text |

### 1.2 Components without behaviour for a state machine

Effects, capabilities and contracts (`effects.rs`, `capability.rs`,
`contract.rs`, `security.rs`) are tables with lookups. The sandbox and hardware
layer call the operating system. Crypto and SIMD kernels, the standard library,
the lexer, parser, semantic analysis, HIR, MIR, code generation, the JIT and the
batch tools (lint, format, doc, test, driver commands) are sequential
transformations of large data; single algorithms among them (MIR passes, the
call cache of the JIT, the remote actor framing) are candidates for operators
checked against a reference definition. The experiments are prototypes.

`PROJECT.json` lists every component with its status, and under `hazards` every
place found so far where an interleaving, a failure or a bound could break it.

## 2. Modules

| Module | Models |
|---|---|
| `TaskLifecycle` | abstract specification: what the holder of a `JoinHandle` may observe of a task |
| `Scheduler` | `task.rs` and `scheduler.rs`; implements `TaskLifecycle` |
| `MCScheduler` | a program of two nested tasks |
| `SchedulerProofs` | its theorems |
| `AsyncMutex`, `AsyncMutexProofs` | `AsyncMutex`, its guard and `AsyncCondvar`, with a program of producers and consumers |
| `ChannelStream` | abstract specification: what the two ends of a channel may observe |
| `MpscChannel`, `MpscChannelProofs` | both mpsc channels; implement `ChannelStream` |
| `ActorSystem`, `ActorSystemProofs` | `actor.rs` without remoting |
| `AsyncTasks` | the tasks that wait on a primitive, as the primitive sees them |
| `AsyncRwLock`, `AsyncSemaphore`, `AsyncBarrier` | the other primitives of `sync.rs` |
| `OneshotChannel` | the oneshot channel of `channel.rs`; implements `ChannelStream` |
| `AsyncPipe` | the pipe of `io.rs` |
| `TaskGroup` | `nursery.rs` |
| `SyncPrimitives`, `SyncPrimitivesProofs` | composes the seven modules above; the theorems about all of them |
| `BuildDaemon`, `BuildDaemonProofs` | start, stop and clear commands and the daemon processes (`daemon.rs`) |
| `WarmCache` | what the daemon's cycles keep warm, and what compiler processes take from it |
| `CompileCache` | the processes that share the compile cache |
| `RegistryIndex`, `RegistryIndexProofs` | publishing, yanking and selecting releases |
| `MCRegistry` | versions and requirements for its runs |
| `Tooling`, `ToolingProofs` | composes the four modules above; the theorems about the warm and the compile cache, and about the composition |

An action is one critical section of the code, or one access to an atomic. The
bodies of tasks and handlers are user code and therefore nondeterministic
within what the API allows. Every module also holds *mutations*: operators named
after the action they change (`FinishSilent`, `DropSenderWraps`) that contain a
plausible mistake. `PROJECT.json` names at least one for each property; putting it in
place of the original makes TLC report that property, which shows that the
property depends on the code being right.

### Scheduler

`pc[th]` says where a thread is. A worker goes through `loop` (the shutdown
check of `worker_loop`), `pop` (`pop_task`), `check`, `parking` and `wait` (the
emptiness check under the lock, and `wait_timeout`), and for a popped task
through `run`, `lock`, `polling`, `armed` and `finish` (`TaskCell::run`), or
`run`, `abort` if the task was cancelled. `Main` is the thread inside
`block_on`: it alternates between polling its own future (`poll`) and running
queued tasks itself (`pop` and then the same path). `spawn` pushes and then
notifies in a second step (`notify`). `JoinHandle::cancel` is two steps, flag and
state (`cancel`). The code of a body may, while it is polled, cancel and await
the tasks whose handles it holds, yield, hand its waker to something outside
(timers, I/O, channels), return or panic. The future slot is `none` before the
spawn, `some` when it can be taken, `taken` while it is polled, and `gone`
afterwards; a panic leaves it `gone` and the mutex poisoned.

What was abstracted:

- the per-worker local queues: nothing in the code pushes to them, so the steps
  of `pop_task` that look at them find nothing;
- `try_lock` in `pop_task` may fail at any time: another thread may hold the lock
  for a moment, and those short critical sections are single steps here;
- reading the cancel flag in `wake` and pushing are one step: a cancellation
  between the two has the same effect as one right after the push;
- metrics, which nothing reads back; outputs, of which only their existence
  matters.

`TaskLifecycle` is the promise: a task completes at most once, its output is
handed over at most once and only if it completed, and "cancelled" is only
reported after a request. The refinement maps `TaskState` to the phase, the cancel
flag to the request, an emptied and unpoisoned slot to completion. It documents a
behaviour that is easy to overlook: a poll that was in flight when its task was
cancelled still stores its output over `Cancelled`, and a cancellation can replace
an output that nobody has collected.

### AsyncMutex

`woken[t]` stands for an entry in the scheduler's queue. A task in `Pollers` is
one that `block_on` drives: its waker is the dummy waker, so waking it does
nothing and it is polled without being woken. A task in `Abandoners` may be
cancelled while it waits; its wakers stay behind. `lost` records that a wake or
a notification went to a task that could not use it. The properties about
progress are stated relative to it, because the code does not pass such a wake
on. A successful `try_lock` is the same step as the poll that acquires.

### MpscChannel

Both constructors share `MpscInner`; `kind` tells which one made the channel.
They differ in three places: only the bounded one can be full, only the unbounded
one counts clones, and an unbounded `send` never waits. An item is the sender and
its number, so that order and loss can be stated. `lost` records a wake of a send
that was dropped, or that was already awake. Dropping a pending `send` (as `timeout` and `select`
do) is the action `Abandon`.

`ChannelStream` is the promise of both kinds of channel: messages are accepted while the
channel is open, the receiver gets each sender's messages one after the other, a close
takes nothing back and lets nothing in, and the end is told once, after the last message.
The refinement maps `closed` and the receiver that got `None` to the phase. That a bounded
channel can be closed under a live sender (finding 3) is a `Close` like any other: the
stream is still cut off cleanly. The oneshot channel is a stream of at most one message,
whose receiver's "closed" is the end.

### ActorSystem

One thread per actor (`apc`), one client, and the thread that calls `shutdown`.
`spawn` is four steps: check, start the thread, list it, register it; the new
thread runs from the second on. `pre_start`, `handle` and `post_stop` are user
code that may spawn actors, ask its actor to stop, fail or panic. `shutdown`
sets the flag, stops and drains what is registered, takes the lock of the thread
list and keeps it until all listed threads are joined. `tell`'s look at the alive
flag and its send are one step. `watch` has no caller, so watchers and
`Terminated` are left out. Only the client sends messages: a handler that sends
does to a mailbox what the client does. A handler that calls `shutdown` itself is
left out; it would join its own thread.

### AsyncTasks and the waiting primitives

Every primitive of `sync.rs`, `channel.rs` and `io.rs` keeps its state behind a
`std` mutex, and a poll is one critical section of it: one action. `AsyncTasks`
holds what they have in common. `Runs(t)` says that the scheduler may poll `t`;
`Goto` moves it on and wakes others; `Cancel` drops a waiting task for good and
leaves its waker behind; `Nudge` polls a task that nobody released, as the
other future of a `join` does. `lost` records that a wake went to a task that could not
use it, or that a stored waker was overwritten: the code passes no wake on, so the
properties about progress of the lock and the pipe are relative to it. Those of the
semaphore, the barrier and the oneshot channel are not, because they hold anyway: a
release wakes everyone at the front who fits, and a full generation wakes all.

The modules follow the code where it is not obvious: readers barge past queued
writers, a write guard's drop wakes one writer and only without one all readers, a
permit's drop wakes the front of the queue without reserving anything, a barrier
future stores its waker on the first poll only, the drop of a `OneshotSender`
after `send` closes the channel as well, and the pipe has one waker slot per
direction. The threshold of a barrier is at least 1; with 0 the counter never equals
it and nobody is released. A pipe's writer calls `write_all`, whose loop is the
task staying at `start`.

`TaskGroup` has the parent (`wait_all`, `wait_with_timeout`, the end of the scope), threads
that call `spawn` in its two steps or `cancel_all` at any moment until the scope ends (the
methods take `&self`, so also while `wait_all` runs), and the children as the group
sees them: their handle's state and flag, and a poll in two steps so that a cancel can
fall into it. A child listed after `wait_all` took the handles is nobody's: `GroupJoined`
speaks of the children the wait took, and so does `ScopedLifecycle`, whose violation is
therefore not about late spawns. `SyncPrimitives` lets the tasks use one of the primitives at a time: they
share no state, and a product of them would only multiply it.

### BuildDaemon

A file that names a process holds the daemon's number. `dpc[d]` follows
`run_daemon_foreground` in the background child: write the pid file, remove an old
sentinel, bind and write the port file, then the loop (sentinel check, cycle with
its heartbeat, wait interval in which requests are served). `cpc[u]` follows the
commands. Every read, write or removal of one of the four files is a step of its own, so the
parent's late pid write, a start that takes a slow daemon for dead and removes the pid its
successor has just written, a stop that goes to another daemon than the
pid file names and a daemon that removes the files of its successor all happen. Two things
are coarser: a removal goes with the test whether the file is there (whether it
was makes no difference to the code), and the write of these small files is one step, so nobody reads half
a number. Binding the port and writing the port file may each fail; the daemon
then runs without server (`deaf`). `Crash` kills a daemon anywhere. `signalled`, `missed`
and `acked` are history.

The code does not promise one daemon per workspace, and the model has two: a start
whose check falls before the first heartbeat, or after a stale one, spawns another.
Nor is every stop heard: the sentinel is one file for all daemons, and a daemon that
boots, a `clear`, or another daemon that ends for it removes it under the eyes of the daemon it was
written for, which then runs on although the command reported success. `missed` records
the daemons this happened to. What holds is stated instead: daemons end only when they were
meant to (`StopIsMeant`), and a daemon that was in its loop when a stop was signalled
ends, unless somebody removed its sentinel (`StopIsHeard`).

### WarmCache

A file's content is a number, and its hash and its MIR are that number: what
matters is whether the MIR that is handed out belongs to the content that was hashed.
A cycle is a snapshot, parallel parses of what misses (each reads the disk when it is
its turn), the merge up to the first error, the artifacts one by one, the index, and the
package of the entry file. The package is made of the cached MIR and of the entry's text, read
a second time for the source map; its key in the compile cache is made of the text, read a
third time, and of the package's manifest, which has counts and places of the functions
and not their bodies (`Shape`); and when the cache has that key already, the package found there takes
the place of the one just made. The package command does the same for its own MIR and
shares the key space with the daemon; the cache may evict a package at any time.
Compiler processes ask the daemon, or read the warm index and then the artifact, or take the announced package.
The `clear` command removes the status file, the index and the artifacts while the
daemon runs. Editors write at any moment and the daemon can be killed between any two
writes.

Wrong answers are real. `tainted` is history: the pairs of a file and a content under
which the MIR of another content was filed. Three things put a pair there:

- the file changed between its fingerprint and its parse, so that the MIR is cached
  under the hash of before;
- the artifact was overwritten while the index, or a reader that had already looked at the
  index, still had the old hash;
- the entry changed before the package got its key, or between the fingerprint and
  the key under which an earlier package was found, so that a package is filed or
  announced for a content it was not made of.

`WarmAnswer` says that whoever is misled is misled about such a pair. A pair stays tainted
for good, so a content that was once filed wrongly is excepted also after it was
filed correctly; the property says nothing about it. `failed` says that a cycle had a parse error, or the
index was cleared, after the last prewarm: the cycles after it see no change, so the index on disk stays old, and
`WarmEventually` does not claim that it catches up. The manifest is path
0 and its change clears the cache.

What is coarser than the code: a snapshot of all files is one step, so is the look of
`load_daemon_prewarmed_entry` at the status file, the entry and the compile cache, and so are the package's key, lookup
and store; at most one other process (a query, a package command or a clear) works beside the daemon
at a time, any number of them one after the other. Reading half-written files is modelled for
kills only. Which of the ways to the index a query takes is not tied to the daemon's
state: it may find no port file, or no server, while the daemon runs.

### CompileCache

A write is truncate and fill; a process can be killed or overtaken in between. The
modes are the four ways the driver uses the cache. `contended` names keys that were stored
over an existing entry or while another process was busy with them: there the artifact is rewritten
in place under valid metadata, and a lookup can hand it out torn. For all other keys the order of the
writes suffices. A torn call profile does not parse and is dropped by its loader. Eviction
lists an entry's directory, removes the files it found in any order and then the
directory, which fails when somebody has put a file there meanwhile. The sizes of entries are left out:
`MAX_CACHE_BYTES` may ask for the eviction of any number of the oldest entries, the one just
stored included, on top of what `MAX_CACHE_ENTRIES` asks for.

### RegistryIndex

Publishing and yanking read the file, decide, truncate and write, without a lock. All
interleavings of these steps are there, and so are kills: a process killed between the
truncation and the write leaves an empty file, which no later command can parse, and every release is lost with it
(`file` stays `"empty"`; nothing in the code repairs that). Two writers may leave a mixture of their
texts. `saw` keeps, per change under way, the receipts that had been given out when it read
the file, and `outdated` collects those that were given out while a change was
under way that has written the file since. Exactly these may be lost from a readable
index: `RegistryKept` says that the others are in it with their content, and finding 6
that the comment's "immutable" does not hold for all. The order of versions and the match of a
requirement are operators on identifiers, and `Newer` is an independent definition of the precedence
to compare the selection with. An identifier that is a number fits the `u64` the code parses it into, and a core has only
numbers, as the semver contract asks (`RegistryVersions`): the code compares anything else in a core by its letters. The selection is `max_by`'s single
pass, a recursive function over the list. The metadata of a package beside its releases is left out.

## 3. Runs

| Run | Bounds | Shows |
|---|---|---|
| `scheduler` | 2 tasks (one holds the other's handle, the inner one by `spawn_blocking`), 2 workers and `block_on`, both may panic, the outer one be cancelled, 1 suspension each | `TypeOK`, `PollExclusion`, `HandleConsistent`, `NoLostWakeup`, `NoSleepOnWork`, refinement of `TaskLifecycle`; every thread ends (`AllThreadsEnd`) unless a body panicked; no deadlock |
| `scheduler_panic` | as above, no cancellation | **violated**: a panic never reaches the joiner |
| `mutex_condvar` | 3 producers, 2 consumers, one poller, one task cancelled while it waits | `OneEntryPerWait`, `MutualExclusion`, `NoStrandedLocker`, `NoMissedNotify`, `AllFinish` |
| `mutex_block_on` | 3 producers, one of them a poller | **violated**: a suspended locker stays suspended on a free mutex |
| `channel` | 3 senders, 2 items each, 2 places, 1 dropped send, both kinds | `InOrder`, `EndIsFinal`, `EveryPlaceClaimed`, refinement of `ChannelStream` (`ImplementsStream`), `Delivered`, `AllFinish` |
| `channel_clone` | 2 senders, 1 item | **violated**: dropping one clone closes a bounded channel |
| `actor` | 2 actors, one spawned by the other or the client, 2 messages, panics | `NoActorForgotten`, `ShutdownJoins`, `AliveIsTrue`, `OnceAndInOrder`, `AllActorsEnd` |
| `actor_shutdown` | 2 actors, 1 message | **violated**: shutdown and a spawning handler wait for each other |
| `sync` | 4 tasks, 2 may be cancelled and 2 polled without cause; 2 readers and 2 writers; 2 permits for requests of 0 to 3; barrier of 2 with 2 rounds; pipe of 2 places, 2 bytes per writer, reads of 1; 3 children in a group | `TypeOK`, `GuardsCounted` (exclusion of the lock, conservation of the permits), `BarTogether`, `NoneStranded` (lock, semaphore, barrier and pipe), `Delivers`, `GroupJoined`, refinement of `ChannelStream` by the oneshot channel (`OneImplementsStream`), `AllServed` |
| `task_group` | 2 children | **violated**: children outlive their group |
| `tooling` | 2 users, 3 commands, 2 daemons; 2 files and a manifest, 3 contents (one that does not parse), 2 events (edits, failures, clears, evictions, kills); 2 builders, 2 keys, room for 1 entry, 3 uses or kills; 2 publishers, 5 versions, 4 requirements, 3 changes | `StopIsMeant`, `StopIsHeard`, `WarmAnswer`, `WarmEventually`, `CacheWhole`, `RegistryKept`, `RegistryNewest` |
| `registry_race` | 2 publishers, 2 changes | **violated**: one version is published with two contents |

Why these bounds. Two tasks and three threads are the least with which one task
is popped twice while a third thread runs its owner, and with which a worker is parked
while another is between its check and its wait; one suspension is enough to
queue a task a second time. In the mutex three producers and two consumers make
a waiter queue of two behind a holder, two condvar waiters for one `notify_one`,
and a barging task. In the channel three senders on two places make two wait
and one race for the freed place, and two items per sender make order visible.
Two actors make nested spawning against shutdown, and two messages an `ask`
that times out before another one. Four tasks on a primitive make two queued readers behind
a writer with another writer waiting, a semaphore queue whose head is larger than what is free while
others would fit, and two generations of a barrier of two with stragglers of the
first; a request of 3 exceeds the 2 permits. Two daemons and three commands make a
start overtake a stop, a stop reach the older of two daemons, and a sentinel meet a
daemon that boots. Two events make an edit during a parse followed by another,
a broken file that is repaired, a save before the package's key and one after it, an edit followed by a kill
or by a clear. One entry of room makes every second key evict the
first. Three changes make a publication overlap a yank and a second publication, and
the five versions contain equal ones, a prerelease and its extension. `MaxSuspends`, `MaxWaiters`, `MaxItems`, `MaxAbandons` and `MaxSends` only
bound what the program does, not what the runtime does, except `MaxWaiters`, which
stops a poller from growing the waiter queue without end.

Fairness. Threads are scheduled by the operating system and futexes do not starve
a thread forever: strong fairness for the scheduler's threads and, one level
up, for tasks that compete for the mutex; weak fairness where a step stays enabled
until taken (channel, actors, the tasks on the other primitives, the pipe's close, the
daemon's steps, each daemon by itself, and its commands' steps, all commands together, of which
there are finitely many). A Stop request is served under strong fairness:
the wait interval in which the daemon takes requests ends and comes back. `try_lock` on the queue does not fail for every
thread forever. Timeouts fire (`ParkTimeout`, `ReceiveTimeout`,
`AskReturns`), outside events happen, handlers return, and `shutdown` is called
in the end. Nothing is assumed of user code beyond that: in particular cancelling, dropping
a send, stopping, commands, edits, kills and evictions are never forced.

Deadlock checking is off where the program may rightly stop: when all tasks of the
mutex, channel, actor and primitive programs have ended, when commands, edits and uses are used up, or where a lost wake, which the
properties account for, strands one. The scheduler has an explicit `Terminated` step,
and TLC checks that nothing else gets stuck, panics included.

### What the runs disagree with

1. `TaskError` has a variant `Panicked` for "Errors occurring during task
   execution or joining", but nothing stores it: `TaskCell::run` does not catch
   the unwind, so the worker dies, `TaskState` stays `Running` and the joiner
   waits forever (`scheduler_panic`).
2. `AsyncMutex::lock` queues a waker on every poll that finds it locked. Under
   `block_on`, which polls in a loop with a waker that does nothing, the queue
   fills with dead wakers; a release is spent on one of them and a suspended
   task stays suspended although the mutex is free (`mutex_block_on`).
3. The bounded `Sender` derives `Clone` without counting, while every drop
   counts down: the first dropped clone closes the channel (`channel_clone`).
   `UnboundedSender` counts.
4. `ActorSystem::shutdown` joins threads under the lock that `spawn` needs; a
   handler past `spawn`'s shutdown check and `shutdown` wait for each other
   (`actor_shutdown`).
5. `nursery.rs` guarantees that children complete or abort before the group leaves its
   scope. `wait_all` takes the handles out of the group before it awaits them, so
   `cancel_all` after a timeout finds an empty list; the first error drops the
   other handles, and dropping a handle or the group cancels nothing (`task_group`).
6. "Each published version is immutable", says the registry (`tooling/agam_pkg/src/lib.rs`). The
   check for the version and the write of the index are not one step, and nothing locks the
   file: two publishers of one version with different contents both pass the check and both
   get a receipt; the later write replaces the release of the earlier (`registry_race`).

The passing runs are stated around these: `AllThreadsEnd`, `AllFinish` and
`AllActorsEnd` name the situation as an alternative, so they hold for every other
execution.

## 4. Proofs

Every theorem holds for any sets of tasks, workers, senders, actors and users (workers,
senders and the tasks on a primitive finite) and any bounds, from the named assumptions of
the modules: the names are distinct, a task does not hold its own handle, the sets of
special tasks are subsets of the tasks, bounds are natural numbers, and versions have the shape
the semver contract gives them. TLC evaluates the
same assumptions in the runs.

**Scheduler** (`SchedulerProofs`): `TypeCorrect`, `ExclusivePolling`, `ConsistentHandles`,
`Refinement`, `NoTaskForgotten` and `WorkersStayAwake`. The inductive invariant of the first four is

    IInv == TypeOK /\ PollExclusion /\ HandleConsistent /\ ThreadConsistent

`ThreadConsistent` is the strengthening: what a thread is about to do must fit the
task it does it to. A thread in `abort` has a cancelled task, one in `cancel` a
target whose flag is set, and everything that is queued or whose waker is stored
was spawned. Without it, `RunCancelled` could store `Cancelled` for a task nobody
cancelled. There is one lemma per action, and a few about what the wakers leave
alone (`NotifyOneEffect`, `PushEffect`, `WakeEffect`), about starting and stopping a poll
(`ExclusionStart`, `ExclusionStop`) and about steps that only move threads.
`Refinement` shows from it that every step is a step of `TaskLifecycle` or a
stutter.

`NoTaskForgotten` (`NoLostWakeup`) adds `WakeInv`. The property speaks of a task whose future
is back in its slot, but its waker has to be somewhere *before* that: `Watched` also covers
the poll itself, where a body that may return `Pending` has stored a waker or was popped again by
another thread, which waits for the mutex of its slot. `HoldersWait` says that only
the holder of a handle stores its waker there, so that finishing a task wakes everybody who
waits for it.

`WorkersStayAwake` (`NoSleepOnWork`) adds `SleepInv`, which counts: while a worker sleeps, the
queue is no longer than the workers that look for a task plus the notification that `spawn`
still owes. Notifying one worker per push is enough exactly because of that count. After
the shutdown only the worker that held the queue's lock at that moment can still fall
asleep, and it does on an empty queue. The count needs finitely many workers
(`WorkersFinite`).

**AsyncMutex** (`AsyncMutexProofs`): `TypeCorrect`, `Exclusion` and `WaitsQueuedOnce`, with the invariant
`TypeOK /\ MutualExclusion`. Saying that the flag is set *exactly* while a guard exists makes it
inductive, condvar waits and cancelled waiters included. `LockersWoken`
(`NoStrandedLocker`) uses `LockersInv`: whoever waits is queued or woken, and while the
mutex is free one of them is woken, not merely polled by chance. `NotificationsArrive`
(`NoMissedNotify`) uses `NotifyInv`, which also covers the task that is queued
on the condvar and still releases the mutex or has not been polled: its entry has no waker
yet, so a notification can only leave its mark in the flag. `WaitsQueuedOnce`
(`OneEntryPerWait`) uses `WaitsInv`, which adds where a task that is queued can be: a
wait that is about to queue itself has no entry left over from an earlier one.

**MpscChannel** (`MpscChannelProofs`): `TypeCorrect`, `DeliveryInOrder`, `FinalEnd`,
`Refinement` and `PlacesClaimed`, from

    IInv == TypeOK /\ InOrder /\ EndKept /\ HandlesCounted

`InOrder` is inductive with the types: `HeadIsNext` shows that the head of the queue is
the number after the last one received, because everything in between is in the
queue and in order. `EndKept` says that nothing is queued after the end, and
`HandlesCounted` that an unbounded channel counts its live handles exactly and is
closed when there are none; it uses the cardinality of finite sets. For a bounded
channel that part of `EndIsFinal` is not claimed: finding 3. `Refinement` shows that every
step is a step of `ChannelStream` or a stutter: `HeadIsNext` makes a `recv` the delivery of
the next message, `EmptyIsReceived` makes `None` the end, and `EndKept` keeps sends out of a
stream that has ended. `PlacesClaimed`
(`EveryPlaceClaimed`) adds `PlacesInv`: a send that waits and was not woken has its waker in the
channel, so that the next `recv` finds one to call, and while there is such a send the
sends on their way and the messages queued fill the capacity.

**ActorSystem** (`ActorSystemProofs`): `TypeCorrect`, `AliveTruthful`,
`ShutdownForgetsNobody`, `ShutdownJoinsListed` and `HandledOnce`, from

    IInv == TypeOK /\ LifeInv /\ MailInv /\ ReplyInv

`LifeInv` relates an actor's thread to its flags and to who knows of it: an actor is
spawned by one spawner at a time and not started before (`SpawnedOnce`), its flag is up until it
has left its loop (`FlagInv`), and a running thread is in the thread list, was taken by the
shutdown that is joining, or is about to be listed (`Listed`; this is what `ShutdownJoins` needs and does
not say while shutdown still runs). `MailInv` follows the numbers of messages: each is
in one mailbox or was handled, never both, and what an actor has handled, followed by its
mailbox, is sorted; so the next message received is later than all before. `ReplyInv` ties an
answer to the channel of its ask and to the message its handler was given: a late reply goes into the channel of
the ask that timed out, which nobody reads any more.

**SyncPrimitives** (`SyncPrimitivesProofs`): `TypeCorrect`, `RwLockExcludes`,
`PermitsConserved` (together `GuardsAreCounted`), `NoIdlePermits`, `BarrierTogether`,
`NobodyStranded`, `AllDelivered`, `GroupChildrenJoined` and `OneshotRefinement`, all of the
composed specification. The inductive invariant has one part per primitive:

    IInv == TasksTypeOK /\ RwInv /\ SemInv /\ BarInv /\ OneInv /\ PipeInv /\ GroupInv

- *Lock.* `RwExclusion` says that the counter *is* the number of read guards; the
  cardinality facts then show that the saturating subtraction of a read guard's drop
  never saturates and that a writer that finds 0 readers is alone. Queues and wakes play
  no role in that, so barging and cancelled waiters are covered. That nobody is stranded
  needs `RwQueued`: whoever waits without having been woken is in its queue.
- *Semaphore.* `SemConserved` counts the permits held as pairs of a task and a number, so that
  the sum is the cardinality of a finite set. For `NoIdlePermits` the strengthening is
  that the head of a queue never fits, whoever it belongs to (`HeadTooLarge`): it may be the
  waker of a task that was cancelled or polled meanwhile. A drop wakes up to the first that
  does not fit, and taking permits makes nobody fit, so no later waiter can be queued
  behind a head that would.
- *Barrier.* `BarCore`: a task that joined the current generation is still in its call or was
  cancelled, later generations are empty, and every completed generation took at least
  one call of `wait` that returned. The last part bounds the generation, which the type
  needs, since calls per task are bounded and generations are not.
- *Oneshot channel.* `OneCore` relates what the sender did to what the receiver can
  have got, before and after the drop of the sender. It also carries the refinement of
  `ChannelStream`, whose counters are 0 or 1.
- *Pipe.* What was read, followed by what is buffered, is what was written. The lemmas on
  `Chunk` and `Stream` show it for reads and writes of any length; at most one waker per
  direction is stored, and `PipeNoStall` is inductive with it.
- *Task group.* A child that may run is listed, awaited or about to be listed until
  `wait_all` returns (`GroupCore`); so when the last handle was awaited without an error
  only those are left that were listed, or will be, after the handles had been taken.

**BuildDaemon** (`BuildDaemonProofs`): `StopsAreMeant`, from

    DaemonInv == DaemonTypeOK /\ StopIsMeant /\ StopsOnTheWay

`StopsOnTheWay` follows a stop to its daemon: while the sentinel exists, every daemon past its
start-up was signalled (a booting daemon removes the sentinel before it counts as one); a
Stop request is at a daemon that was signalled; and daemons beyond `spawned` are unborn, so that a
new one carries no history. Crashes and `clear` are covered.

**Tooling** (`ToolingProofs`): `AnswersAreWarm` and `EntriesAreWhole`, from `WarmInv /\ CacheInv`;
and `RunsItsParts`, that a behaviour of the composition is one of `BuildDaemon` and one of
`RegistryIndex`, so that their theorems hold of the specification that the run checks.

`WarmInv` follows MIR from the parse to whoever takes it, always up to the pairs in
`tainted`: what is cached in memory is the MIR of the content it is filed under (`TrueMir`); a
package is of the content in its key and of the one it is announced for, and a key has
one package (`TruePackages`); a prewarm runs only when every file is warm and writes what is
cached (`Prewarming`); the index names the MIR that is on disk (`TrueIndex`); a
compiler process that found its hash in the index can rely on the artifact, and one that
packages has the MIR of what it began with (`TrueQuery`). It is inductive because every
place where MIR is filed under a hash checks the two against each other at that moment, and
records the pair if they differ. The theorem therefore says that these places are all
there are: edits, failed cycles, clears, evictions and kills mislead nobody by themselves.

`CacheInv` is about torn artifacts: while the artifact of a key that nobody contended is
torn, its entry has no metadata, and whoever uses the key has yet to open the artifact or is
the one writing it (`TornAlone`). The metadata is written last, removed with the entry, and so
never stands beside a torn artifact, wherever a process is killed and in whatever order an
eviction removes the files.

**RegistryIndex** (`RegistryIndexProofs`): `PublishedIsKept`, from

    RegistryInv == Types /\ Unique /\ Based

`Unique` extends one release per version to what publishers are about to write. `Based`
says that the file, and what every change under way will put there, has the receipts that
are not outdated: for a change, those given out before it read the file, and its
own. Nothing is assumed about overlaps or kills. What the theorem does not say is that a receipt is safe: with concurrent
changes it may become outdated (finding 6), and a kill can leave a file nobody can read.

`NewestIsSelected` (`RegistryNewest`) rests on three theorems about the operators, for
versions and lists of any length:

- `VersionsOrdered`: the comparison is a total preorder, without which `max_by` would
  return whatever the order of the list makes of it. It is lexicographic: `IdAt` continues a
  core with zeros and a prerelease with something less than every identifier, and
  `Before` compares at the first place that differs, which exists because a set of numbers
  has a least element.
- `ComparesByPrecedence`: it is the order of `Newer`, which pads to equal length and says
  separately that the longer prerelease is greater.
- `SelectsGreatest`: the single pass returns a greatest release among those that pass the
  filters. The recursion is shown to define a function (`SelectionExists`), and then by
  induction over the list that what is kept so far is greatest so far (`PickGreatest`).

The induction principle of the library takes an operator as a parameter, which the provers
do not instantiate. `Induction` is therefore proved for *sets* of numbers, from the
well-foundedness of `<`: the least number outside the set leads to a contradiction. Proving
this found a mistake in an earlier form of the model: `CompareVersions` was one `CASE` whose
first guard overlapped the others, and of several true guards TLA+ leaves the choice open
while TLC takes the first. It is an `IF` now, and so is `Lookup` of `CompileCache`.

Model-checked only: all liveness (`AllThreadsEnd`, `AllFinish`, `Delivered`,
`AllActorsEnd`, `AllServed`, `StopIsHeard`, `WarmEventually`). It needs fairness and
`ENABLED`, which the installed provers do not handle.

No module that is proved about uses a recursive operator.

## 5. Not modelled

- Reference counts (`arc.rs`): retain, release and upgrade are single atomic
  operations on counters, called by generated code; what is interesting is whether that
  code balances them, which is a property of the compiler's output.
- Remote actor framing and the artifact codecs: encoders and decoders whose content is
  the layout of bytes.
- Generators and state machines, effects, capabilities, contracts: sequential tables and
  enumerations with one owner.
- Sandbox, hardware detection, crypto and SIMD kernels: calls to the operating system or
  arithmetic on data.
- Lexer, parser, semantic analysis, HIR, MIR, code generation, JIT and the standard library: sequential
  transformations of large trees. They are most of the repository's lines. A model that keeps their
  control would be the program again, and one that abstracts the trees would say
  nothing about them.
- Of the daemon: its foreground mode, the dev workflow and the output of status. Of the package
  manager: manifests, the solver's graph, downloads and the SDK; only the index is shared
  state.
- Language server, debugger, profiler and the batch tools: one thread that handles one request after the
  other.
- Of publishing, versions whose core is not made of numbers. The code accepts any text that is not
  empty; it compares words in a core by their letters, and then the order is not transitive, so that
  nothing could be said about the selection.
- Errors of the file system other than a kill or a torn file, and reuse of process
  numbers and ports.

Five hazards in `PROJECT.json` have no property, and others are covered in part; each has a
note that says why.

## 6. Plan

Done: the scheduler and the channels with their abstract specifications, all of the
coroutine runtime's primitives, task groups, the actor system; the daemon, the warm and
compile caches and the registry index; the theorems above, which state every safety
invariant and every refinement of the passing runs.

What would come next:

1. Action properties: what a step may never undo (a settled handle, a generation of the
   barrier), and a pipe as a `ChannelStream` of bytes.
2. Solving a whole set of requirements, on top of the selection of one release.
3. Passes of the compiler's middle end as operators against a reference definition.
