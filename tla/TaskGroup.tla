----------------------------- MODULE TaskGroup ------------------------------
(***************************************************************************)
(* TaskGroup of coroutine/nursery.rs: children are spawned into the group, *)
(* a parent waits for them with wait_all or wait_with_timeout and leaves   *)
(* the group's scope.  The methods take &self: other threads may spawn, or *)
(* call cancel_all, as long as the parent is in the scope.  A child        *)
(* is the wrapped future of TaskGroup::spawn in a TaskCell: its handle     *)
(* shares the cancelled flag and the TaskState with the cell (Scheduler    *)
(* has the details of the runtime; here a poll is two steps, its start     *)
(* and its end).                                                           *)
(***************************************************************************)
EXTENDS AsyncTasks

CONSTANT Children   \* the tasks spawned into the group

ASSUME GroupSets == Children \subseteq Tasks

VARIABLES
  groupCancelled,  \* TaskGroup::cancelled
  groupTasks,      \* TaskGroup::tasks, the children whose handles are listed
  handles,         \* the handles wait_all took and has yet to await
  child,           \* child[t]: what the runtime has done with t's future
  state,           \* state[t]: TaskState behind t's handle
  flagged,         \* the children whose cancelled flag is set
  parent,          \* where the parent is
  current,         \* the children calls of TaskGroup::spawn are about to list
  canceller,       \* where the thread that calls cancel_all is
  result           \* what wait_all or wait_with_timeout returned

groupvars == <<groupCancelled, groupTasks, handles, child, state, flagged, parent,
               current, canceller, result>>

\* A child that the runtime may still run.
Alive(t) == child[t] \in {"queued", "polled", "pending"}

GroupInit ==
  /\ groupCancelled = FALSE
  /\ groupTasks = <<>> /\ handles = <<>>
  /\ child = [t \in Children |-> "none"]
  /\ state = [t \in Children |-> "running"]
  /\ flagged = {}
  /\ parent = "open" /\ canceller = "idle"
  /\ current = {}
  /\ result = "none"

\* TaskGroup::spawn, by the parent or by another thread, first part: Runtime::spawn
\* queues the child.
GroupSpawn(t) ==
  /\ parent # "exited" /\ child[t] = "none"
  /\ child' = [child EXCEPT ![t] = "queued"]
  /\ current' = current \cup {t}
  /\ UNCHANGED <<groupCancelled, groupTasks, handles, state, flagged, parent, canceller,
                 result>>

\* TaskGroup::spawn, second part: the handle is listed.
GroupPush(t) ==
  /\ t \in current
  /\ groupTasks' = Append(groupTasks, t)
  /\ current' = current \ {t}
  /\ UNCHANGED <<groupCancelled, handles, child, state, flagged, parent, canceller, result>>

\* JoinHandle::cancel of every child in S: it does not touch the future.
CancelHandles(S) ==
  /\ flagged' = flagged \cup S
  /\ state' = [t \in Children |->
                 IF t \in S /\ state[t] = "running" THEN "cancelled" ELSE state[t]]

\* cancel_all from another thread: the group's flag, then the listed handles.
GroupCancelFlag ==
  /\ canceller = "idle" /\ parent # "exited"
  /\ groupCancelled' = TRUE
  /\ canceller' = "list"
  /\ UNCHANGED <<groupTasks, handles, child, state, flagged, parent, current, result>>

GroupCancelList ==
  /\ canceller = "list"
  /\ CancelHandles(ToSet(groupTasks))
  /\ canceller' = "over"
  /\ UNCHANGED <<groupCancelled, groupTasks, handles, child, parent, current, result>>

\* wait_all takes the handles out of the group; with a timeout or without.
GroupWait ==
  /\ parent = "open"
  /\ handles' = groupTasks
  /\ groupTasks' = <<>>
  /\ parent' \in {"wait", "timedwait"}
  /\ UNCHANGED <<groupCancelled, child, state, flagged, current, canceller, result>>

\* handle.await? finds a finished child: its result is taken, and rest is awaited.
Joined(rest) ==
  /\ parent \in {"wait", "timedwait"}
  /\ handles # <<>>
  /\ state[Head(handles)] = "finished"
  /\ state' = [state EXCEPT ![Head(handles)] = "cancelled"]
  /\ handles' = rest
  /\ UNCHANGED <<groupCancelled, groupTasks, child, flagged, parent, current, canceller,
                 result>>

\* Mutation of GroupJoin: the first result is taken for that of all.
GroupJoinEarly == Joined(<<>>)

GroupJoin == Joined(Tail(handles))

\* The end of wait_all: Ok after the last handle, or the first error, which drops the
\* other handles.
GroupReturn ==
  /\ parent \in {"wait", "timedwait"}
  /\ handles # <<>> => state[Head(handles)] = "cancelled"
  /\ result' = IF handles = <<>> THEN "ok" ELSE "error"
  /\ handles' = <<>>
  /\ parent' = "returned"
  /\ UNCHANGED <<groupCancelled, groupTasks, child, state, flagged, current, canceller>>

\* wait_with_timeout, Err(Elapsed): the wait_all future is dropped with its handles,
\* then cancel_all finds what is still listed.
GroupTimeout ==
  /\ parent = "timedwait"
  /\ handles # <<>> /\ state[Head(handles)] = "running"
  /\ groupCancelled' = TRUE
  /\ CancelHandles(ToSet(groupTasks))
  /\ handles' = <<>>
  /\ result' = "timeout"
  /\ parent' = "returned"
  /\ UNCHANGED <<groupTasks, child, current, canceller>>

\* The parent leaves the scope, when nobody borrows the group: TaskGroup has no Drop.
GroupExit ==
  /\ parent = "returned" /\ current = {} /\ canceller # "list"
  /\ parent' = "exited"
  /\ UNCHANGED <<groupCancelled, groupTasks, handles, child, state, flagged, current,
                 canceller, result>>

\* TaskCell::run of a child: aborted when its own flag is set; otherwise the wrapper
\* looks at the group's flag before it runs the future for the first time.
ChildRun(t) ==
  /\ child[t] \in {"queued", "pending"}
  /\ \/ /\ t \in flagged
        /\ child' = [child EXCEPT ![t] = "aborted"]
        /\ state' = [state EXCEPT ![t] = "cancelled"]
     \/ /\ t \notin flagged /\ child[t] = "queued" /\ groupCancelled
        /\ child' = [child EXCEPT ![t] = "skipped"]
        /\ state' = [state EXCEPT ![t] = "finished"]
     \/ /\ t \notin flagged /\ (child[t] = "pending" \/ ~groupCancelled)
        /\ child' = [child EXCEPT ![t] = "polled"]
        /\ UNCHANGED state
  /\ UNCHANGED <<groupCancelled, groupTasks, handles, flagged, parent, current, canceller,
                 result>>

\* The poll ends: Pending, or the child's body is over, which also overwrites a
\* cancelled state.
ChildPolled(t) ==
  /\ child[t] = "polled"
  /\ \/ /\ child' = [child EXCEPT ![t] = "pending"]
        /\ UNCHANGED state
     \/ /\ child' = [child EXCEPT ![t] = "ended"]
        /\ state' = [state EXCEPT ![t] = "finished"]
  /\ UNCHANGED <<groupCancelled, groupTasks, handles, flagged, parent, current, canceller,
                 result>>

ParentStep == GroupWait \/ GroupJoin \/ GroupReturn \/ GroupTimeout \/ GroupExit

GroupNext ==
  /\ subject = "group"
  /\ \/ ParentStep \/ GroupCancelFlag \/ GroupCancelList
     \/ \E t \in Children : GroupSpawn(t) \/ GroupPush(t) \/ ChildRun(t) \/ ChildPolled(t)
  /\ UNCHANGED tvars

GroupSpec == TasksInit({"group"}) /\ GroupInit /\ [][GroupNext]_<<tvars, groupvars>>

-----------------------------------------------------------------------------
GroupTypeOK ==
  /\ groupCancelled \in BOOLEAN
  /\ groupTasks \in Seq(Children) /\ handles \in Seq(Children)
  /\ child \in [Children -> {"none", "queued", "polled", "pending", "ended", "skipped",
                          "aborted"}]
  /\ state \in [Children -> {"running", "finished", "cancelled"}]
  /\ flagged \subseteq Children /\ current \subseteq Children

\* When wait_all has returned Ok the only children that can run are those that were
\* listed after it had taken the handles, or will be, although cancel_all and other
\* spawns may race with the wait; and a handle reports as finished only a child that is.
GroupJoined ==
  /\ result = "ok" => \A t \in Children : Alive(t) => t \in current \cup ToSet(groupTasks)
  /\ \A t \in Children : state[t] = "finished" => child[t] \in {"ended", "skipped"}

\* "all child tasks spawned inside a nursery are guaranteed to complete or abort before
\* the parent nursery exits scope.": at least those whose handles the wait has taken.
ScopedLifecycle ==
  parent = "exited" => \A t \in Children : Alive(t) => t \in ToSet(groupTasks)
=============================================================================
