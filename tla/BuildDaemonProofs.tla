-------------------------- MODULE BuildDaemonProofs -------------------------
(***************************************************************************)
(* The daemons that end are those a stop was meant for, for any number of  *)
(* users, daemons and commands.                                            *)
(***************************************************************************)
EXTENDS BuildDaemon, TLAPS

\* What is on its way to a daemon was signalled to it: a sentinel to every daemon past
\* its start-up, a Stop request to the daemon it is at; and no daemon that has yet to be
\* spawned ended.
StopsOnTheWay ==
  /\ sentinel => \A d \in Daemons : InLoop(d) => d \in signalled
  /\ \A u \in Users : cpc[u] = "asked" => target[u] \in signalled
  /\ \A d \in Daemons : d > spawned => dpc[d] = "unborn"

DaemonInv == DaemonTypeOK /\ StopIsMeant /\ StopsOnTheWay

\* Nothing is signalled and nobody has ended when the first command is run.
LEMMA DaemonStarts == DaemonInit => DaemonInv
<1> SUFFICES ASSUME DaemonInit PROVE DaemonInv
  OBVIOUS
<1>0. 0 \in 0 .. MaxDaemons /\ 0 \in 0 .. MaxCommands
  BY DaemonBounds
<1>1. DaemonTypeOK
  BY <1>0 DEF DaemonInit, DaemonTypeOK
<1>2. StopIsMeant
  BY DEF DaemonInit, StopIsMeant, Ending
<1>3. StopsOnTheWay
  BY DEF DaemonInit, StopsOnTheWay
<1> QED BY <1>1, <1>2, <1>3 DEF DaemonInv

\* The steps of start, up to the spawn and after it, and of clear touch no daemon's control.
LEMMA FilesKeep ==
  ASSUME DaemonInv, NEW u \in Users,
         \/ StartCheck(u) \/ StartReadPid(u) \/ StartLiveness(u) \/ StartRemovePid(u)
         \/ StartWritePid(u)
         \/ ClearStatus(u) \/ ClearPid(u) \/ ClearSentinel(u) \/ ClearPort(u)
  PROVE  DaemonInv'
<1>0. 0 \in 0 .. MaxDaemons /\ (commands < MaxCommands => commands + 1 \in 0 .. MaxCommands)
  BY DaemonBounds DEF DaemonInv, DaemonTypeOK
<1>1. DaemonTypeOK'
  BY <1>0 DEF DaemonInv, DaemonTypeOK, StartCheck, StartReadPid, StartLiveness, StartRemovePid,
     StartWritePid, ClearStatus, ClearPid, ClearSentinel, ClearPort, RemoveSentinel, Command,
     Goes, daemons, stops
<1>2. UNCHANGED <<dpc, spawned, signalled, acked>>
  BY DEF StartCheck, StartReadPid, StartLiveness, StartRemovePid, StartWritePid, ClearStatus,
     ClearPid, ClearSentinel, ClearPort, RemoveSentinel, daemons, stops
<1>3. StopIsMeant'
  BY <1>2 DEF DaemonInv, StopIsMeant
<1>4. sentinel' => sentinel
  BY DEF StartCheck, StartReadPid, StartLiveness, StartRemovePid, StartWritePid, ClearStatus,
     ClearPid, ClearSentinel, ClearPort, RemoveSentinel
<1>5. \A v \in Users : cpc'[v] = "asked" => cpc[v] = "asked" /\ target'[v] = target[v]
  BY DEF DaemonInv, DaemonTypeOK, StartCheck, StartReadPid, StartLiveness, StartRemovePid,
     StartWritePid, ClearStatus, ClearPid, ClearSentinel, ClearPort, Command, Goes
<1>6. StopsOnTheWay'
  BY <1>2, <1>4, <1>5 DEF DaemonInv, StopsOnTheWay, InLoop
<1> QED BY <1>1, <1>3, <1>6 DEF DaemonInv

\* A spawned daemon is new: nothing was signalled to it and it has acknowledged nothing.
LEMMA SpawnKeeps ==
  ASSUME DaemonInv, NEW u \in Users, StartSpawn(u)
  PROVE  DaemonInv'
<1>0. spawned + 1 \in Daemons /\ spawned \in Nat
  BY DaemonBounds DEF DaemonInv, DaemonTypeOK, Daemons, StartSpawn
<1>1. DaemonTypeOK'
  BY <1>0, DaemonBounds DEF DaemonInv, DaemonTypeOK, Daemons, StartSpawn, Goes, stops
<1>2. \A d \in Daemons : dpc'[d] = IF d = spawned + 1 THEN "boot" ELSE dpc[d]
  BY <1>0 DEF DaemonInv, DaemonTypeOK, StartSpawn
<1>3. dpc[spawned + 1] = "unborn"
  BY <1>0 DEF DaemonInv, StopsOnTheWay
<1>4. StopIsMeant'
  BY <1>2, <1>3 DEF DaemonInv, DaemonTypeOK, StopIsMeant, StartSpawn, stops, Ending
<1>5. StopsOnTheWay'
  <2>1. \A v \in Users : cpc'[v] = "asked" => cpc[v] = "asked" /\ target'[v] = target[v]
    BY DEF DaemonInv, DaemonTypeOK, StartSpawn, Goes
  <2>2. sentinel' = sentinel /\ signalled' = signalled /\ spawned' = spawned + 1
    BY DEF StartSpawn, stops
  <2>3. \A d \in Daemons : d > spawned + 1 => d > spawned /\ d # spawned + 1
    BY <1>0 DEF Daemons
  <2> QED BY <1>2, <2>1, <2>2, <2>3 DEF DaemonInv, StopsOnTheWay, InLoop, Running
<1> QED BY <1>1, <1>4, <1>5 DEF DaemonInv

\* A stop that is sent, refused, or left as a sentinel is signalled in the same step.
LEMMA StopKeeps ==
  ASSUME DaemonInv, NEW u \in Users,
         StopReadPid(u) \/ StopReadPort(u) \/ StopConnect(u) \/ StopRefused(u) \/ StopSentinel(u)
  PROVE  DaemonInv'
<1>0. /\ commands < MaxCommands => commands + 1 \in 0 .. MaxCommands
      /\ portFile # 0 => portFile \in Daemons
  BY DaemonBounds DEF DaemonInv, DaemonTypeOK, Daemons
<1>1. DaemonTypeOK'
  <2>1. CASE StopReadPid(u)
    BY <1>0, <2>1 DEF DaemonInv, DaemonTypeOK, StopReadPid, Command, daemons, stops
  <2>2. CASE StopReadPort(u)
    BY <1>0, <2>2 DEF DaemonInv, DaemonTypeOK, StopReadPort, Goes, daemons, stops
  <2>3. CASE StopConnect(u)
    BY <2>3 DEF DaemonInv, DaemonTypeOK, StopConnect, Goes, daemons
  <2>4. CASE StopRefused(u)
    BY <2>4 DEF DaemonInv, DaemonTypeOK, StopRefused, Goes, daemons, stops
  <2>5. CASE StopSentinel(u)
    BY <2>5 DEF DaemonInv, DaemonTypeOK, StopSentinel, Goes, daemons
  <2> QED BY <2>1, <2>2, <2>3, <2>4, <2>5
<1>2. signalled \subseteq signalled' /\ UNCHANGED <<dpc, spawned, acked>>
  BY DEF StopReadPid, StopReadPort, StopConnect, StopRefused, StopSentinel, daemons, stops
<1>3. StopIsMeant'
  BY <1>2 DEF DaemonInv, StopIsMeant
<1>4. sentinel' => \A d \in Daemons : InLoop(d)' => d \in signalled'
  BY <1>2 DEF DaemonInv, StopsOnTheWay, InLoop, StopReadPid, StopReadPort, StopConnect,
     StopRefused, StopSentinel
<1>5. ASSUME NEW v \in Users, cpc'[v] = "asked" PROVE target'[v] \in signalled'
  <2>1. CASE v # u
    BY <1>2, <1>5, <2>1 DEF DaemonInv, DaemonTypeOK, StopsOnTheWay, StopReadPid, StopReadPort,
       StopConnect, StopRefused, StopSentinel, Command, Goes
  <2>2. CASE v = u
    BY <1>2, <1>5, <2>2 DEF DaemonInv, DaemonTypeOK, StopsOnTheWay, StopReadPid, StopReadPort,
       StopConnect, StopRefused, StopSentinel, Command, Goes
  <2> QED BY <2>1, <2>2
<1>6. StopsOnTheWay'
  BY <1>2, <1>4, <1>5 DEF DaemonInv, StopsOnTheWay
<1> QED BY <1>1, <1>3, <1>6 DEF DaemonInv

\* A daemon that goes from a place to another: what has to hold of the two for the
\* invariant to stay.
LEMMA MovesKeep ==
  ASSUME DaemonInv, NEW d \in Daemons, NEW from, NEW to, Moves(d, from, to), DaemonTypeOK',
         from # "unborn", signalled' = signalled, target' = target,
         sentinel' => sentinel,
         \A u \in Users : cpc'[u] = "asked" => cpc[u] = "asked",
         to \in Ending => d \in signalled,
         sentinel' /\ to \in Running => from \in Running,
         acked' \subseteq acked \cup {d},
         d \in acked' => to \in {"leaving", "unport", "dead", "crashed"}
  PROVE  DaemonInv'
<1>1. /\ \A e \in Daemons : dpc'[e] = IF e = d THEN to ELSE dpc[e]
      /\ dpc[d] = from /\ spawned' = spawned
  BY DEF DaemonInv, DaemonTypeOK, Moves
<1>2. StopIsMeant'
  BY <1>1 DEF DaemonInv, DaemonTypeOK, StopIsMeant
<1>3. StopsOnTheWay'
  BY <1>1 DEF DaemonInv, StopsOnTheWay, InLoop
<1> QED BY <1>2, <1>3 DEF DaemonInv

\* A daemon that starts up removes the sentinel before it is one that a sentinel is for.
LEMMA BootDaemonKeeps ==
  ASSUME DaemonInv, NEW d \in Daemons,
         BootWritePid(d) \/ BootRemoveSentinel(d) \/ BootBind(d) \/ BootPort(d)
  PROVE  DaemonInv'
<1>0. d \in 0 .. MaxDaemons
  BY DaemonBounds DEF Daemons
<1>1. DaemonTypeOK'
  BY <1>0 DEF DaemonInv, DaemonTypeOK, BootWritePid, BootRemoveSentinel, BootBind, BootPort,
     RemoveSentinel, Moves, Running, clients, stops
<1>2. /\ signalled' = signalled /\ acked' = acked /\ target' = target /\ cpc' = cpc
      /\ sentinel' => sentinel
  BY DEF BootWritePid, BootRemoveSentinel, BootBind, BootPort, RemoveSentinel, clients, stops
<1>3. dpc[d] \in {"boot", "remove", "bind", "port"} => d \notin acked
  BY DEF DaemonInv, StopIsMeant
<1>4. CASE BootWritePid(d)
  <2>1. Moves(d, "boot", "remove")
    BY <1>4 DEF BootWritePid
  <2> QED BY <1>1, <1>2, <1>3, <2>1, MovesKeep DEF Moves, Ending, Running
<1>5. CASE BootRemoveSentinel(d)
  <2>1. Moves(d, "remove", "bind") /\ ~sentinel'
    BY <1>5 DEF BootRemoveSentinel, RemoveSentinel
  <2> QED BY <1>1, <1>2, <1>3, <2>1, MovesKeep DEF Moves, Ending, Running
<1>6. CASE BootBind(d) \/ BootPort(d)
  <2>1. PICK from \in {"bind", "port"}, to \in {"port", "top"} : Moves(d, from, to)
    BY <1>6 DEF BootBind, BootPort
  <2> QED BY <1>1, <1>2, <1>3, <2>1, MovesKeep DEF Moves, Ending, Running
<1> QED BY <1>4, <1>5, <1>6

\* The loop ends for a sentinel or a Stop request, which were signalled.
LEMMA LoopKeeps ==
  ASSUME DaemonInv, NEW d \in Daemons,
         \/ LoopTop(d) \/ TakeSentinel(d) \/ TakePid(d) \/ Cycle(d) \/ WaitOver(d)
         \/ LeavePid(d) \/ LeavePort(d)
  PROVE  DaemonInv'
<1>0. 0 \in 0 .. MaxDaemons
  BY DaemonBounds
<1>1. DaemonTypeOK'
  BY <1>0 DEF DaemonInv, DaemonTypeOK, LoopTop, TakeSentinel, TakePid, Cycle, WaitOver, LeavePid,
     LeavePort, RemoveSentinel, Moves, Running, Ending, clients, stops
<1>2. /\ signalled' = signalled /\ acked' = acked /\ target' = target /\ cpc' = cpc
      /\ sentinel' => sentinel
  BY DEF LoopTop, TakeSentinel, TakePid, Cycle, WaitOver, LeavePid, LeavePort, RemoveSentinel,
     clients, stops
<1>3. /\ dpc[d] \notin {"leaving", "unport", "dead", "crashed"} => d \notin acked
      /\ dpc[d] \in Ending => d \in signalled
      /\ sentinel /\ dpc[d] \in Running => d \in signalled
  BY DEF DaemonInv, StopIsMeant, StopsOnTheWay, InLoop
<1>4. CASE LoopTop(d)
  <2>1. PICK to \in {"taken", "cycle"} : Moves(d, "top", to) /\ (to = "taken" => sentinel)
    BY <1>4 DEF LoopTop
  <2> QED BY <1>1, <1>2, <1>3, <2>1, MovesKeep DEF Moves, Ending, Running
<1>5. CASE TakeSentinel(d) \/ TakePid(d)
  <2>1. PICK from \in {"taken", "unpid"}, to \in {"unpid", "dead"} : Moves(d, from, to)
    BY <1>5 DEF TakeSentinel, TakePid
  <2> QED BY <1>1, <1>2, <1>3, <2>1, MovesKeep DEF Moves, Ending, Running
<1>6. CASE LeavePid(d) \/ LeavePort(d)
  <2>1. PICK from \in {"leaving", "unport"}, to \in {"unport", "dead"} : Moves(d, from, to)
    BY <1>6 DEF LeavePid, LeavePort
  <2> QED BY <1>1, <1>2, <1>3, <2>1, MovesKeep DEF Moves, Ending, Running
<1>7. CASE Cycle(d) \/ WaitOver(d)
  <2>1. PICK from \in {"cycle", "wait"}, to \in {"wait", "top"} : Moves(d, from, to)
    BY <1>7 DEF Cycle, WaitOver
  <2> QED BY <1>1, <1>2, <1>3, <2>1, MovesKeep DEF Moves, Ending, Running
<1> QED BY <1>4, <1>5, <1>6, <1>7

\* A Stop request that is answered was signalled to this daemon.
LEMMA ServeKeeps ==
  ASSUME DaemonInv, NEW d \in Daemons, NEW u \in Users, ServeStop(d, u)
  PROVE  DaemonInv'
<1>1. DaemonTypeOK'
  BY DEF DaemonInv, DaemonTypeOK, ServeStop, Moves, Ending
<1>2. /\ Moves(d, "wait", "leaving") /\ d \in signalled
      /\ signalled' = signalled /\ target' = target /\ sentinel' = sentinel
      /\ acked' \subseteq acked \cup {d}
  BY DEF DaemonInv, StopsOnTheWay, ServeStop
<1>3. \A v \in Users : cpc'[v] = "asked" => cpc[v] = "asked"
  BY DEF DaemonInv, DaemonTypeOK, ServeStop
<1> QED BY <1>1, <1>2, <1>3, MovesKeep DEF Ending, Running

\* A daemon that crashes has signalled and removed nothing.
LEMMA CrashKeeps ==
  ASSUME DaemonInv, NEW d \in Daemons, Crash(d)
  PROVE  DaemonInv'
<1>1. DaemonTypeOK'
  BY DEF DaemonInv, DaemonTypeOK, Crash, clients, stops
<1>2. /\ Moves(d, dpc[d], "crashed") /\ dpc[d] # "unborn"
      /\ UNCHANGED <<signalled, acked, target, cpc, sentinel>>
  BY DEF Crash, Live, Moves, clients, stops
<1> QED BY <1>1, <1>2, MovesKeep DEF Ending, Running

\* Every step of the daemons and their commands keeps the invariant.
LEMMA DaemonPreserved == DaemonInv /\ [DaemonNext]_dvars => DaemonInv'
<1> SUFFICES ASSUME DaemonInv, [DaemonNext]_dvars PROVE DaemonInv'
  OBVIOUS
<1>1. ASSUME NEW u \in Users, StartCheck(u) \/ StopReadPid(u) \/ ClearStatus(u) \/ CommandStep(u)
      PROVE  DaemonInv'
  BY <1>1, FilesKeep, SpawnKeeps, StopKeeps DEF CommandStep
<1>2. ASSUME NEW d \in Daemons, DaemonStep(d) \/ Crash(d)
      PROVE  DaemonInv'
  BY <1>2, BootDaemonKeeps, LoopKeeps, ServeKeeps, CrashKeeps DEF DaemonStep
<1>3. CASE HeartbeatAges
  BY <1>3 DEF DaemonInv, DaemonTypeOK, StopIsMeant, StopsOnTheWay, HeartbeatAges, InLoop,
     daemons, clients, stops
<1>4. CASE UNCHANGED dvars
  BY <1>4 DEF DaemonInv, DaemonTypeOK, StopIsMeant, StopsOnTheWay, dvars, InLoop,
     daemons, clients, stops
<1> QED BY <1>1, <1>2, <1>3, <1>4 DEF DaemonNext

\* start, stop and clear, crashes and restarts in any order: a daemon that ended by
\* itself was in its loop when a stop was signalled, and one that answered a Stop request
\* does no further cycle.
THEOREM StopsAreMeant == DaemonSpec => []StopIsMeant
<1>1. DaemonInv => StopIsMeant
  BY DEF DaemonInv
<1> QED BY DaemonStarts, DaemonPreserved, <1>1, PTL DEF DaemonSpec
=============================================================================
