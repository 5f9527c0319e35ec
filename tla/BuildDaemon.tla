---------------------------- MODULE BuildDaemon -----------------------------
(***************************************************************************)
(* The life of background build daemons of one workspace (daemon.rs): the  *)
(* commands start, stop and clear, run by users in processes of their own, *)
(* the daemon processes they spawn, and the four files they share: the pid *)
(* file, the port file, the shutdown sentinel and the status file with its *)
(* heartbeat.  Nothing locks these files, and every read, write or removal *)
(* of one is a step of its own (a removal with its test whether the file   *)
(* is there).  A file that names a process holds the daemon's number, 0    *)
(* when it does not exist.                                                 *)
(***************************************************************************)
EXTENDS Naturals, FiniteSets

CONSTANTS
  Users,        \* processes that run commands
  MaxDaemons,   \* bound: daemons spawned altogether
  MaxCommands   \* bound: commands run altogether

ASSUME DaemonBounds == MaxDaemons \in Nat /\ MaxCommands \in Nat

Daemons == 1 .. MaxDaemons

VARIABLES
  pidFile, portFile, sentinel,
  heartbeat,    \* the status file: "none", "fresh" or "stale" (older than 5 s)
  dpc,          \* dpc[d]: where daemon process d is
  deaf,         \* the daemons whose spawn_ipc_server failed
  spawned,      \* how many daemons were spawned
  cpc,          \* cpc[u]: where the command of user u is
  target,       \* target[u]: the daemon u spawned, or the one its Stop request is for
  commands,     \* how many commands were run
  signalled,    \* history: the daemons that were in their loop when a stop was signalled
  missed,       \* history: the daemons whose sentinel another process has removed
  acked         \* history: the daemons whose answer to Stop reached the command

daemons == <<dpc, deaf, spawned>>
clients == <<cpc, target, commands>>
stops == <<signalled, missed, acked>>
dvars == <<pidFile, portFile, sentinel, heartbeat, daemons, clients, stops>>

\* Where a daemon is after its start-up, and once it has decided to end.
Running == {"bind", "port", "top", "cycle", "wait"}
Ending == {"taken", "unpid", "leaving", "unport", "dead"}

\* The process exists; its listener is bound; it is past its start-up and goes on.
Live(d) == dpc[d] \notin {"unborn", "dead", "crashed"}
Listening(d) == Live(d) /\ dpc[d] \notin {"boot", "remove", "bind"} /\ d \notin deaf
InLoop(d) == dpc[d] \in Running

DaemonInit ==
  /\ pidFile = 0 /\ portFile = 0 /\ sentinel = FALSE
  /\ heartbeat = "none"
  /\ dpc = [d \in Daemons |-> "unborn"] /\ deaf = {}
  /\ spawned = 0
  /\ cpc = [u \in Users |-> "idle"]
  /\ target = [u \in Users |-> 0]
  /\ commands = 0
  /\ signalled = {} /\ missed = {} /\ acked = {}

Command(u, l) ==
  /\ cpc[u] = "idle" /\ commands < MaxCommands
  /\ commands' = commands + 1
  /\ cpc' = [cpc EXCEPT ![u] = l]
  /\ UNCHANGED target

Goes(u, from, to) ==
  /\ cpc[u] = from
  /\ cpc' = [cpc EXCEPT ![u] = to]
  /\ UNCHANGED commands

Moves(d, from, to) ==
  /\ dpc[d] = from
  /\ dpc' = [dpc EXCEPT ![d] = to]
  /\ UNCHANGED spawned

\* The sentinel goes: a stop that nobody but d has seen is missed.
RemoveSentinel(d) ==
  /\ sentinel' = FALSE
  /\ missed' = missed \cup {e \in Daemons \ {d} : sentinel /\ InLoop(e)}
  /\ UNCHANGED <<signalled, acked>>

-----------------------------------------------------------------------------
\* start_daemon_background.  Is there a pid file,
StartCheck(u) ==
  /\ Command(u, IF pidFile = 0 THEN "spawn" ELSE "read")
  /\ UNCHANGED <<pidFile, portFile, sentinel, heartbeat, daemons, stops>>

\* and can it still be read?
StartReadPid(u) ==
  /\ Goes(u, "read", IF pidFile = 0 THEN "stale" ELSE "alive")
  /\ UNCHANGED <<pidFile, portFile, sentinel, heartbeat, daemons, target, stops>>

\* With a fresh heartbeat: "already running".
StartLiveness(u) ==
  /\ Goes(u, "alive", IF heartbeat = "fresh" THEN "idle" ELSE "stale")
  /\ UNCHANGED <<pidFile, portFile, sentinel, heartbeat, daemons, target, stops>>

\* Otherwise the pid file is taken for stale and removed, also before the daemon's first
\* heartbeat, after one that is too old because a cycle took long, or when another
\* daemon has written its pid meanwhile.
StartRemovePid(u) ==
  /\ Goes(u, "stale", "spawn")
  /\ pidFile' = 0
  /\ UNCHANGED <<portFile, sentinel, heartbeat, daemons, target, stops>>

StartSpawn(u) ==
  /\ Goes(u, "spawn", "writepid") /\ spawned < MaxDaemons
  /\ spawned' = spawned + 1
  /\ dpc' = [dpc EXCEPT ![spawned + 1] = "boot"]
  /\ target' = [target EXCEPT ![u] = spawned + 1]
  /\ UNCHANGED <<pidFile, portFile, sentinel, heartbeat, deaf, stops>>

\* The parent writes the child's pid, whatever the child has done meanwhile.
StartWritePid(u) ==
  /\ Goes(u, "writepid", "idle")
  /\ pidFile' = target[u]
  /\ UNCHANGED <<portFile, sentinel, heartbeat, daemons, target, stops>>

-----------------------------------------------------------------------------
\* stop_daemon_background: an error without pid file.
StopReadPid(u) ==
  /\ pidFile # 0
  /\ Command(u, "port")
  /\ UNCHANGED <<pidFile, portFile, sentinel, heartbeat, daemons, stops>>

\* send_daemon_ipc_request: the port file, not the pid file, says which daemon is asked.
StopReadPort(u) ==
  /\ Goes(u, "port", IF portFile = 0 THEN "sentinel" ELSE "connect")
  /\ target' = [target EXCEPT ![u] = portFile]
  /\ UNCHANGED <<pidFile, portFile, sentinel, heartbeat, daemons, stops>>

StopConnect(u) ==
  /\ Goes(u, "connect", IF Listening(target[u]) THEN "asked" ELSE "sentinel")
  /\ signalled' = signalled \cup {d \in {target[u]} : Listening(d)}
  /\ UNCHANGED <<pidFile, portFile, sentinel, heartbeat, daemons, target, missed, acked>>

\* The connection breaks because the daemon ended without answering.
StopRefused(u) ==
  /\ Goes(u, "asked", "sentinel") /\ ~Live(target[u])
  /\ UNCHANGED <<pidFile, portFile, sentinel, heartbeat, daemons, target, stops>>

\* The fallback: the sentinel is written for whichever daemon sees it first.
StopSentinel(u) ==
  /\ Goes(u, "sentinel", "idle")
  /\ sentinel' = TRUE
  /\ signalled' = signalled \cup {d \in Daemons : InLoop(d)}
  /\ missed' = {d \in missed : ~InLoop(d)}
  /\ UNCHANGED <<pidFile, portFile, heartbeat, daemons, target, acked>>

\* clear_daemon_status: the status file, the warm state, the pid file, the sentinel and
\* the port file, of a running daemon or not.
ClearStatus(u) ==
  /\ Command(u, "clearpid")
  /\ heartbeat' = "none"
  /\ UNCHANGED <<pidFile, portFile, sentinel, daemons, stops>>

ClearPid(u) ==
  /\ Goes(u, "clearpid", "clearsentinel")
  /\ pidFile' = 0
  /\ UNCHANGED <<portFile, sentinel, heartbeat, daemons, target, stops>>

ClearSentinel(u) ==
  /\ Goes(u, "clearsentinel", "clearport")
  /\ RemoveSentinel(0)
  /\ UNCHANGED <<pidFile, portFile, heartbeat, daemons, target>>

ClearPort(u) ==
  /\ Goes(u, "clearport", "idle")
  /\ portFile' = 0
  /\ UNCHANGED <<pidFile, sentinel, heartbeat, daemons, target, stops>>

-----------------------------------------------------------------------------
\* run_daemon_foreground in the background child.

BootWritePid(d) ==
  /\ Moves(d, "boot", "remove")
  /\ pidFile' = d
  /\ UNCHANGED <<portFile, sentinel, heartbeat, deaf, clients, stops>>

\* Mutation of BootRemoveSentinel: a sentinel from before is left in place.
BootKeepSentinel(d) ==
  /\ Moves(d, "remove", "bind")
  /\ UNCHANGED <<pidFile, portFile, sentinel, heartbeat, deaf, clients, stops>>

\* "Remove any stale shutdown sentinel", or one that is meant for another daemon.
BootRemoveSentinel(d) ==
  /\ Moves(d, "remove", "bind")
  /\ RemoveSentinel(d)
  /\ UNCHANGED <<pidFile, portFile, heartbeat, deaf, clients>>

\* spawn_ipc_server binds a port and writes the port file.  When one of them fails the
\* loop does without server.
BootBind(d) ==
  /\ \/ Moves(d, "bind", "port") /\ UNCHANGED deaf
     \/ Moves(d, "bind", "top") /\ deaf' = deaf \cup {d}
  /\ UNCHANGED <<pidFile, portFile, sentinel, heartbeat, clients, stops>>

BootPort(d) ==
  /\ Moves(d, "port", "top")
  /\ \/ portFile' = d /\ UNCHANGED deaf
     \/ deaf' = deaf \cup {d} /\ UNCHANGED portFile
  /\ UNCHANGED <<pidFile, sentinel, heartbeat, clients, stops>>

\* Mutation of LoopTop: the sentinel is not looked at.
LoopTopDeaf(d) ==
  /\ Moves(d, "top", "cycle")
  /\ UNCHANGED <<pidFile, portFile, sentinel, heartbeat, deaf, clients, stops>>

\* The top of the loop: with a sentinel
LoopTop(d) ==
  /\ Moves(d, "top", IF sentinel THEN "taken" ELSE "cycle")
  /\ UNCHANGED <<pidFile, portFile, sentinel, heartbeat, deaf, clients, stops>>

\* the daemon removes it, or the one that is there by now,
TakeSentinel(d) ==
  /\ Moves(d, "taken", "unpid")
  /\ RemoveSentinel(d)
  /\ UNCHANGED <<pidFile, portFile, heartbeat, deaf, clients>>

\* and the pid file, whose ever that is, and ends; the port file stays behind.
TakePid(d) ==
  /\ Moves(d, "unpid", "dead")
  /\ pidFile' = 0
  /\ UNCHANGED <<portFile, sentinel, heartbeat, deaf, clients, stops>>

\* run_daemon_cycle, then write_daemon_status: the only place a heartbeat is written.
Cycle(d) ==
  /\ Moves(d, "cycle", "wait")
  /\ heartbeat' = "fresh"
  /\ UNCHANGED <<pidFile, portFile, sentinel, deaf, clients, stops>>

\* The poll interval is over; requests that only read were answered in it.
WaitOver(d) ==
  /\ Moves(d, "wait", "top")
  /\ UNCHANGED <<pidFile, portFile, sentinel, heartbeat, deaf, clients, stops>>

\* DaemonIpcRequest::Stop: the answer is handed to the server's thread, which may send
\* it before the process is gone, or not.
ServeStop(d, u) ==
  /\ Moves(d, "wait", "leaving")
  /\ cpc[u] = "asked" /\ target[u] = d
  /\ \/ /\ cpc' = [cpc EXCEPT ![u] = "idle"]
        /\ acked' = acked \cup {d}
     \/ UNCHANGED <<cpc, acked>>
  /\ UNCHANGED <<pidFile, portFile, sentinel, heartbeat, deaf, target, commands, signalled,
                 missed>>

\* Then it removes the pid file and the port file, also those of a daemon started
\* meanwhile.
LeavePid(d) ==
  /\ Moves(d, "leaving", "unport")
  /\ pidFile' = 0
  /\ UNCHANGED <<portFile, sentinel, heartbeat, deaf, clients, stops>>

LeavePort(d) ==
  /\ Moves(d, "unport", "dead")
  /\ portFile' = 0
  /\ UNCHANGED <<pidFile, sentinel, heartbeat, deaf, clients, stops>>

\* The process is killed, or returns with an error: it cleans up nothing.
Crash(d) ==
  /\ Live(d)
  /\ dpc' = [dpc EXCEPT ![d] = "crashed"]
  /\ UNCHANGED <<pidFile, portFile, sentinel, heartbeat, deaf, spawned, clients, stops>>

\* Five seconds pass without a heartbeat.
HeartbeatAges ==
  /\ heartbeat = "fresh"
  /\ heartbeat' = "stale"
  /\ UNCHANGED <<pidFile, portFile, sentinel, daemons, clients, stops>>

CommandStep(u) ==
  \/ StartReadPid(u) \/ StartLiveness(u) \/ StartRemovePid(u) \/ StartSpawn(u)
  \/ StartWritePid(u)
  \/ StopReadPort(u) \/ StopConnect(u) \/ StopRefused(u) \/ StopSentinel(u)
  \/ ClearPid(u) \/ ClearSentinel(u) \/ ClearPort(u)

DaemonStep(d) ==
  \/ BootWritePid(d) \/ BootRemoveSentinel(d) \/ BootBind(d) \/ BootPort(d)
  \/ LoopTop(d) \/ TakeSentinel(d) \/ TakePid(d) \/ Cycle(d) \/ WaitOver(d)
  \/ LeavePid(d) \/ LeavePort(d)
  \/ \E u \in Users : ServeStop(d, u)

DaemonNext ==
  \/ \E u \in Users : StartCheck(u) \/ StopReadPid(u) \/ ClearStatus(u) \/ CommandStep(u)
  \/ \E d \in Daemons : DaemonStep(d) \/ Crash(d)
  \/ HeartbeatAges

DaemonSpec == DaemonInit /\ [][DaemonNext]_dvars

-----------------------------------------------------------------------------
\* Where daemons and commands are, and that the files name daemons.
DaemonTypeOK ==
  /\ pidFile \in 0 .. MaxDaemons /\ portFile \in 0 .. MaxDaemons
  /\ sentinel \in BOOLEAN
  /\ heartbeat \in {"none", "fresh", "stale"}
  /\ dpc \in [Daemons -> {"unborn", "boot", "remove", "crashed"} \cup Running \cup Ending]
  /\ deaf \subseteq Daemons
  /\ spawned \in 0 .. MaxDaemons
  /\ cpc \in [Users -> {"idle", "read", "alive", "stale", "spawn", "writepid", "port",
                        "connect", "asked", "sentinel", "clearpid", "clearsentinel",
                        "clearport"}]
  /\ target \in [Users -> 0 .. MaxDaemons]
  /\ \A u \in Users : cpc[u] \in {"writepid", "connect", "asked"} => target[u] \in Daemons
  /\ commands \in 0 .. MaxCommands
  /\ signalled \subseteq Daemons /\ missed \subseteq Daemons /\ acked \subseteq Daemons

\* A daemon ends by itself only when a stop was signalled after it had cleared what
\* earlier stops left behind, and one that answered a Stop does no further cycle;
\* whatever order starts, stops, clears and crashes come in.
StopIsMeant ==
  /\ \A d \in Daemons : dpc[d] \in Ending => d \in signalled
  /\ \A d \in acked : dpc[d] \in {"leaving", "unport", "dead", "crashed"}

\* Which stops are heard: once the commands are over, every daemon that was in its loop
\* when a stop was signalled has ended, unless the sentinel was removed before it looked
\* (by a daemon starting up, by a clear, or by another daemon that ended for it); and no
\* command is left waiting for the answer to its Stop request.
StopIsHeard == <>[](
  /\ \A d \in signalled \ missed : ~InLoop(d)
  /\ \A u \in Users : cpc[u] # "asked")
=============================================================================
