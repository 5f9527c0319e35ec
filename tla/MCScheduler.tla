---------------------------- MODULE MCScheduler ----------------------------
(***************************************************************************)
(* A small program for Scheduler.tla: the future given to block_on holds   *)
(* the handle of a, the body of a holds the handle of b.                   *)
(***************************************************************************)
EXTENDS Scheduler

CONSTANTS a, b

HolderOf == [t \in {a, b} |-> IF t = b THEN a ELSE Main]
=============================================================================
