--------------------------- MODULE AsyncSemaphore ---------------------------
(***************************************************************************)
(* AsyncSemaphore of coroutine/sync.rs.  Every task acquires need[t]       *)
(* permits once (acquire() is acquire_many(1)) and gives them back.        *)
(***************************************************************************)
EXTENDS AsyncTasks

CONSTANTS
  Permits,   \* the permits the semaphore is created with
  MaxNeed    \* bound: the largest count given to acquire_many

ASSUME SemBounds == Permits \in Nat /\ MaxNeed \in Nat

VARIABLES
  permits, semWaiters,   \* SemaphoreState; the queued (count, waker) as the task
  need                   \* need[t]: AcquireFuture::count, then SemaphorePermit::count

semvars == <<permits, semWaiters, need>>

SemInit ==
  /\ permits = Permits
  /\ semWaiters = <<>>
  /\ need \in [Tasks -> 0 .. MaxNeed]

\* Poll of AcquireFuture: barging, the queue is not looked at.
AcquirePoll(t) ==
  /\ Runs(t)
  /\ \/ /\ permits >= need[t]
        /\ permits' = permits - need[t]
        /\ Goto(t, "held", {})
        /\ UNCHANGED semWaiters
     \/ /\ permits < need[t]
        /\ semWaiters' = Append(semWaiters, t)
        /\ Goto(t, "wait", {})
        /\ UNCHANGED permits
  /\ UNCHANGED need

\* Drop for SemaphorePermit: n permits go back, and the waiters at the front of the queue
\* that each fit into what is free, at most so many, are woken; nothing is reserved.
GiveBack(t, n, most) ==
  /\ pc[t] = "held"
  /\ permits' = permits + n
  /\ \E k \in 0 .. most :
       /\ \A i \in 1 .. k : need[semWaiters[i]] <= permits'
       /\ k < most => need[semWaiters[k + 1]] > permits'
       /\ semWaiters' = SubSeq(semWaiters, k + 1, Len(semWaiters))
       /\ Goto(t, "done", {semWaiters[i] : i \in 1 .. k})
  /\ UNCHANGED need

\* Mutation of DropPermit: only the first waiter is woken.
DropPermitOne(t) == GiveBack(t, need[t], IF semWaiters = <<>> THEN 0 ELSE 1)

\* Mutation of DropPermit: a permit taken with acquire_many gives back one.
DropPermitSingle(t) == GiveBack(t, 1, Len(semWaiters))

DropPermit(t) == GiveBack(t, need[t], Len(semWaiters))

SemStep(t) == AcquirePoll(t) \/ DropPermit(t)

SemNext ==
  /\ subject = "semaphore"
  /\ \E t \in Tasks : SemStep(t) \/ ((Cancel(t) \/ Nudge(t)) /\ UNCHANGED semvars)

-----------------------------------------------------------------------------
SemTypeOK ==
  /\ permits \in Nat
  /\ semWaiters \in Seq(Tasks)
  /\ need \in [Tasks -> 0 .. MaxNeed]

\* The permits that are held, each as its holder and its place among the holder's.
HeldPermits == {h \in Tasks \X (1 .. MaxNeed) : pc[h[1]] = "held" /\ h[2] <= need[h[1]]}

\* No permit is lost or made up: what is free and what is held is always what the
\* semaphore was created with.
SemConserved == subject = "semaphore" => permits + Cardinality(HeldPermits) = Permits

\* No task sleeps next to permits that nobody in front of it waits for: one that
\* waits and was not woken is queued, and the head of the queue does not fit.  It
\* holds with cancelled and with repeated waiters, and however woken tasks lose the
\* permits to newcomers, since a wake reserves nothing.
SemNoIdlePermits == subject = "semaphore" =>
  \A t \in Tasks : Waiting(t) /\ ~woken[t] =>
    /\ t \in ToSet(semWaiters)
    /\ permits < need[Head(semWaiters)]
=============================================================================
