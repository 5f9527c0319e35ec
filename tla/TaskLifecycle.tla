--------------------------- MODULE TaskLifecycle ---------------------------
(***************************************************************************)
(* What the coroutine runtime promises the holder of a JoinHandle about    *)
(* one task, whatever the worker threads do: the future runs to completion *)
(* at most once, its output is handed over at most once, an output is only *)
(* handed over if the future really completed, and the joiner is told      *)
(* "cancelled" only if somebody asked for the cancellation.                *)
(*                                                                         *)
(* Scheduler.tla (task.rs and scheduler.rs) is shown to implement this     *)
(* specification.                                                          *)
(***************************************************************************)
CONSTANT Tasks       \* the tasks a program may spawn

VARIABLES
  phase,       \* phase[t]: the variant of TaskState<T> stored for t
  requested,   \* requested[t]: JoinHandle::cancel was called
  completed,   \* completed[t]: the future returned Ready and that was recorded
  result       \* result[t]: what polling the JoinHandle returned

lvars == <<phase, requested, completed, result>>

Phases == {"Unspawned", "Running", "Finished", "Cancelled"}
Results == {"none", "ok", "cancelled"}

Init ==
  /\ phase = [t \in Tasks |-> "Unspawned"]
  /\ requested = [t \in Tasks |-> FALSE]
  /\ completed = [t \in Tasks |-> FALSE]
  /\ result = [t \in Tasks |-> "none"]

Spawn(t) ==
  /\ phase[t] = "Unspawned"
  /\ phase' = [phase EXCEPT ![t] = "Running"]
  /\ UNCHANGED <<requested, completed, result>>

Request(t) ==
  /\ phase[t] # "Unspawned"
  /\ requested' = [requested EXCEPT ![t] = TRUE]
  /\ UNCHANGED <<phase, completed, result>>

\* The future completes.  A poll that was in flight when the task was cancelled
\* still records its output.
Complete(t) ==
  /\ ~completed[t]
  /\ phase[t] = "Running" \/ (phase[t] = "Cancelled" /\ requested[t])
  /\ phase' = [phase EXCEPT ![t] = "Finished"]
  /\ completed' = [completed EXCEPT ![t] = TRUE]
  /\ UNCHANGED <<requested, result>>

\* A requested cancellation takes effect, also on an output nobody collected yet.
Abort(t) ==
  /\ requested[t]
  /\ phase[t] \in {"Running", "Finished"}
  /\ phase' = [phase EXCEPT ![t] = "Cancelled"]
  /\ UNCHANGED <<requested, completed, result>>

DeliverOutput(t) ==
  /\ phase[t] = "Finished"
  /\ completed[t]
  /\ result[t] = "none"
  /\ result' = [result EXCEPT ![t] = "ok"]
  /\ phase' = [phase EXCEPT ![t] = "Cancelled"]
  /\ UNCHANGED <<requested, completed>>

DeliverCancelled(t) ==
  /\ phase[t] = "Cancelled"
  /\ requested[t]
  /\ result[t] = "none"
  /\ result' = [result EXCEPT ![t] = "cancelled"]
  /\ UNCHANGED <<phase, requested, completed>>

Next == \E t \in Tasks :
  \/ Spawn(t) \/ Request(t) \/ Complete(t) \/ Abort(t)
  \/ DeliverOutput(t) \/ DeliverCancelled(t)

Spec == Init /\ [][Next]_lvars
=============================================================================
