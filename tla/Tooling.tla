------------------------------ MODULE Tooling -------------------------------
(***************************************************************************)
(* The parts of the toolchain that keep state on disk, under one model: the *)
(* build daemon's life, what it keeps warm, the compile cache and the       *)
(* registry index.  They share no variable (WarmCache has the packages of   *)
(* the compile cache and the clear command as its own actions), so each is  *)
(* checked while the others are left alone.                                 *)
(***************************************************************************)
EXTENDS BuildDaemon, WarmCache, CompileCache, MCRegistry

\* Every content but the broken ones has the same functions.
MCShape == [c \in Contents |-> IF c \in Broken THEN 2 ELSE 1]

VARIABLE part   \* the part that runs

vars == <<part, dvars, wvars, cvars, rvars>>

Init ==
  /\ part \in {"daemon", "warm", "cache", "registry"}
  /\ DaemonInit /\ WarmInit /\ CacheInit /\ RegistryInit

OnlyDaemon == part = "daemon" /\ UNCHANGED <<part, wvars, cvars, rvars>>
OnlyWarm == part = "warm" /\ UNCHANGED <<part, dvars, cvars, rvars>>
OnlyCache == part = "cache" /\ UNCHANGED <<part, dvars, wvars, rvars>>
OnlyRegistry == part = "registry" /\ UNCHANGED <<part, dvars, wvars, cvars>>

Next ==
  \/ OnlyDaemon /\ DaemonNext
  \/ OnlyWarm /\ WarmNext
  \/ OnlyCache /\ CacheNext
  \/ OnlyRegistry /\ RegistryNext

\* Processes that can go on do so.  A Stop request that is with the daemon is served in
\* its next interval: the interval comes back again and again, hence SF.  Commands are few
\* and so are the stops they ask for: one condition for all of them is enough.
Fairness ==
  /\ WF_vars(OnlyDaemon /\ \E u \in Users : CommandStep(u))
  /\ \A d \in Daemons : WF_vars(OnlyDaemon /\ DaemonStep(d))
  /\ SF_vars(OnlyDaemon /\ \E d \in Daemons, u \in Users : ServeStop(d, u))
  /\ WF_vars(OnlyWarm /\ WarmStep)

Spec == Init /\ [][Next]_vars /\ Fairness

=============================================================================
