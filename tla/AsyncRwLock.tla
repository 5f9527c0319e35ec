---------------------------- MODULE AsyncRwLock -----------------------------
(***************************************************************************)
(* AsyncRwLock of coroutine/sync.rs.  Every task takes the lock once.      *)
(***************************************************************************)
EXTENDS AsyncTasks

CONSTANT RwWriters   \* the tasks that call write(); the others call read()

ASSUME RwSets == RwWriters \subseteq Tasks

VARIABLES readers, writer, readWaiters, writeWaiters   \* RwLockState

rwvars == <<readers, writer, readWaiters, writeWaiters>>

RwReaders == Tasks \ RwWriters

RwInit ==
  /\ readers = 0
  /\ writer = FALSE
  /\ readWaiters = <<>>
  /\ writeWaiters = <<>>

\* Poll of ReadFuture: a reader only looks at the writer flag, never at the queues.
ReadPoll(t) ==
  /\ t \in RwReaders /\ Runs(t)
  /\ \/ /\ ~writer
        /\ readers' = readers + 1
        /\ Goto(t, "held", {})
        /\ UNCHANGED readWaiters
     \/ /\ writer
        /\ readWaiters' = Append(readWaiters, t)
        /\ Goto(t, "wait", {})
        /\ UNCHANGED readers
  /\ UNCHANGED <<writer, writeWaiters>>

\* Poll of WriteFuture by t, which finds the lock free or queues up.
TakeWrite(t, free) ==
  /\ t \in RwWriters /\ Runs(t)
  /\ \/ /\ free
        /\ writer' = TRUE
        /\ Goto(t, "held", {})
        /\ UNCHANGED writeWaiters
     \/ /\ ~free
        /\ writeWaiters' = Append(writeWaiters, t)
        /\ Goto(t, "wait", {})
        /\ UNCHANGED writer
  /\ UNCHANGED <<readers, readWaiters>>

\* Mutation of WritePoll: a woken writer takes the lock past readers that barged in.
WritePollWoken(t) == TakeWrite(t, ~writer /\ (readers = 0 \/ woken[t]))

WritePoll(t) == TakeWrite(t, ~writer /\ readers = 0)

\* Drop for AsyncRwLockReadGuard: the last reader wakes the first queued writer.
DropReadGuard(t) ==
  /\ t \in RwReaders /\ pc[t] = "held"
  /\ readers' = IF readers = 0 THEN 0 ELSE readers - 1
  /\ IF readers' = 0 /\ writeWaiters # <<>>
     THEN /\ writeWaiters' = Tail(writeWaiters)
          /\ Goto(t, "done", {Head(writeWaiters)})
     ELSE /\ Goto(t, "done", {})
          /\ UNCHANGED writeWaiters
  /\ UNCHANGED <<writer, readWaiters>>

\* Drop for AsyncRwLockWriteGuard: the first queued writer is woken, or else n readers.
ReleaseWrite(t, n) ==
  /\ t \in RwWriters /\ pc[t] = "held"
  /\ writer' = FALSE
  /\ IF writeWaiters # <<>>
     THEN /\ writeWaiters' = Tail(writeWaiters)
          /\ Goto(t, "done", {Head(writeWaiters)})
          /\ UNCHANGED readWaiters
     ELSE /\ readWaiters' = SubSeq(readWaiters, n + 1, Len(readWaiters))
          /\ Goto(t, "done", {readWaiters[i] : i \in 1 .. n})
          /\ UNCHANGED writeWaiters
  /\ UNCHANGED readers

\* Mutation of DropWriteGuard: one reader is woken, not all.
DropWriteGuardOne(t) == ReleaseWrite(t, IF readWaiters = <<>> THEN 0 ELSE 1)

DropWriteGuard(t) == ReleaseWrite(t, Len(readWaiters))

RwStep(t) == ReadPoll(t) \/ WritePoll(t) \/ DropReadGuard(t) \/ DropWriteGuard(t)

RwNext ==
  /\ subject = "rwlock"
  /\ \E t \in Tasks : RwStep(t) \/ ((Cancel(t) \/ Nudge(t)) /\ UNCHANGED rwvars)

-----------------------------------------------------------------------------
RwTypeOK ==
  /\ readers \in Nat
  /\ writer \in BOOLEAN
  /\ readWaiters \in Seq(RwReaders)
  /\ writeWaiters \in Seq(RwWriters)

\* The counters are the guards that exist, and a write guard excludes every other:
\* what makes the UnsafeCell behind the guards sound, whoever barges in between a
\* wake and the poll it causes.
RwExclusion == subject = "rwlock" =>
  /\ readers = Cardinality(Holders(RwReaders))
  /\ writer <=> Holders(RwWriters) # {}
  /\ \A t \in Holders(RwWriters) : Holders(Tasks) = {t}

\* A waiter of a lock without writer has something to wait for: unless a wake was
\* lost, a queued reader waits for a writer that is queued or was woken, and a queued
\* writer for the last reader or for a task that was woken.
RwNoStranded ==
  subject = "rwlock" /\ ~lost /\ ~writer =>
    /\ \A t \in RwReaders : Waiting(t) /\ ~woken[t] =>
         writeWaiters # <<>> \/ \E w \in RwWriters : Waiting(w) /\ woken[w]
    /\ \A t \in RwWriters : Waiting(t) /\ ~woken[t] =>
         readers > 0 \/ \E u \in Tasks : Waiting(u) /\ woken[u]
=============================================================================
