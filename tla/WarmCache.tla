----------------------------- MODULE WarmCache ------------------------------
(***************************************************************************)
(* What the build daemon keeps warm (daemon.rs) and what a compiler process *)
(* takes from it.  A cycle fingerprints the workspace, drops what the diff  *)
(* makes invalid, parses the files whose fingerprint is not cached, and     *)
(* mirrors the cache to disk: one MIR artifact per file, an index of their  *)
(* hashes and the status file with the package of the entry file, which is  *)
(* filed in the compile cache as the package command files its own.         *)
(* Editors write while it works, and the process can be killed.             *)
(*                                                                          *)
(* A file's content is a number, 0 for no file; its hash is its content,    *)
(* and so is the MIR lowered from it.  Path 0 is the manifest, 1 the entry. *)
(***************************************************************************)
EXTENDS Naturals, FiniteSets

CONSTANTS
  NFiles,      \* bound: source files
  MaxContent,  \* bound: contents a file can have
  Broken,      \* the contents that do not parse
  Shape,       \* Shape[c]: what the manifest of a package tells of content c: the counts
               \* and the places of its functions
  Asked,       \* files that compiler processes look up
  MaxEvents    \* bound: edits, evictions, clears, kills, failed packagings or builds

ASSUME WarmBounds ==
  /\ NFiles \in Nat \ {0} /\ MaxContent \in Nat
  /\ Broken \subseteq 2 .. MaxContent
  /\ Asked \subseteq 1 .. NFiles
  /\ DOMAIN Shape = 0 .. MaxContent

Files == 1 .. NFiles
Paths == 0 .. NFiles
Contents == 0 .. MaxContent

VARIABLES
  disk,      \* disk[p]: the workspace
  events,
  session,   \* the daemon process: DaemonSession and what is local to its loop
  art,       \* art[f]: the MIR artifact on disk, 0 when none or unreadable
  index,     \* index[f]: the hash the warm index has for f, 0 for none
  status,    \* the packaged entry the status file announces: its hash and its cache key
  packages,  \* the packages in the compile cache: pairs of a key and the packaged MIR
  query,     \* a process beside the daemon, one at a time: it looks for the warm state of
             \* a file, packages the entry or clears what the daemon left
  misled,    \* history: files and contents answered with the MIR of another content
  tainted,   \* history: files and contents under which the MIR of another one was filed
  failed     \* history: a cycle failed, or the index was cleared, after the last prewarm

disks == <<disk, events>>
mirror == <<art, index, status, packages>>
client == <<query, misled>>
excuses == <<tainted, failed>>
wvars == <<disks, session, mirror, client, excuses>>

Nothing == [hash |-> 0, mir |-> 0]
NoPackage == [hash |-> 0, key |-> <<>>]
NoQuery == [at |-> "idle", file |-> 1, hash |-> 0, mir |-> 0, manifest |-> <<>>]
Unseen == [p \in Paths |-> 0]

NoDaemonProcess ==
  [at      |-> "down",
   boot    |-> Unseen,                    \* initial_snapshot
   snap    |-> Unseen,                    \* session.snapshot, Unseen for None
   cache   |-> [f \in Files |-> Nothing], \* session.cache: a file has at most one version
   parsed  |-> <<>>,                      \* what the warm workers have read so far
   first   |-> TRUE,                      \* first_cycle
   dirty   |-> FALSE,                     \* the diff of this cycle has changes
   source  |-> 0,                         \* the entry as read for its package
   entry   |-> NoPackage,                 \* session.last_prewarm: the packaged entry
   error   |-> FALSE,                     \* session.last_prewarm.last_error
   written |-> {}]                        \* artifacts this prewarm has written

WarmInit ==
  /\ disk = [p \in Paths |-> 1]
  /\ events = 0
  /\ session = NoDaemonProcess
  /\ art = [f \in Files |-> 0] /\ index = [f \in Files |-> 0]
  /\ status = NoPackage /\ packages = {}
  /\ query = NoQuery
  /\ misled = {} /\ tainted = {} /\ failed = FALSE

\* Somebody saves or removes a file.  The manifest and the entry are never removed.
WarmEdit(p, c) ==
  /\ events < MaxEvents
  /\ c # disk[p] /\ (c = 0 => p > 1)
  /\ disk' = [disk EXCEPT ![p] = c]
  /\ events' = events + 1
  /\ UNCHANGED <<session, mirror, client, excuses>>

-----------------------------------------------------------------------------
\* run_daemon_foreground takes its first snapshot before anything else.
WarmBoot ==
  /\ session.at = "down" /\ disk[0] \notin Broken
  /\ session' = [NoDaemonProcess EXCEPT !.at = "boot", !.boot = disk]
  /\ UNCHANGED <<disks, mirror, client, excuses>>

AllWritten == \A f \in Files : f \in session.written \/ session.snap[f] = 0

\* The process is killed; a file being written is left unreadable.
WarmKill ==
  /\ events < MaxEvents /\ session.at # "down"
  /\ events' = events + 1
  /\ session' = NoDaemonProcess
  /\ \/ UNCHANGED <<art, index>>
     \/ /\ session.at = "prewarm"
        /\ IF AllWritten
           THEN index' = [f \in Files |-> 0] /\ UNCHANGED art
           ELSE /\ \E f \in Files \ session.written : art' = [art EXCEPT ![f] = 0]
                /\ UNCHANGED index
  /\ failed' = FALSE
  /\ UNCHANGED <<disk, status, packages, client, tainted>>

\* diff_workspace_snapshots; there is none in the first cycle.
Diff(next) == {p \in Paths : session.snap # Unseen /\ session.snap[p] # next[p]}

\* apply_diff: a manifest change clears the cache, otherwise only removed files lose
\* their entry.
ApplyDiff(next) ==
  [f \in Files |-> IF 0 \in Diff(next) \/ (f \in Diff(next) /\ next[f] = 0)
                  THEN Nothing ELSE session.cache[f]]

\* The interval is over and a cycle begins: snapshot_workspace_from_path, or the initial
\* snapshot in the first cycle; an error ends the cycle with a status that announces the
\* package of before.  Then refresh_daemon_session.
TakesSnapshot(first) ==
  LET next == IF first THEN session.boot ELSE disk IN
  /\ session.at \in {"boot", "wait"}
  /\ session' =
       IF next[0] \in Broken THEN [session EXCEPT !.at = "wait", !.first = first]
       ELSE [session EXCEPT !.at = "warm", !.first = first, !.snap = next,
                            !.dirty = (Diff(next) # {}), !.cache = ApplyDiff(next)]
  /\ status' = IF next[0] \in Broken THEN session.entry ELSE status
  /\ UNCHANGED <<disks, art, index, packages, client, excuses>>

\* Mutation of WarmSnapshot: first_cycle is not reset.
WarmSnapshotFirst == TakesSnapshot(TRUE)

WarmSnapshot == TakesSnapshot(session.at = "boot")

\* The files warm_workspace_session has to warm.
Misses == {f \in Files : session.snap[f] # 0 /\ session.cache[f].hash # session.snap[f]}

\* A worker parses one of them as it is on disk now.
WarmParse(f) ==
  /\ session.at = "warm" /\ f \in Misses \ DOMAIN session.parsed
  /\ session' = [session EXCEPT !.parsed =
                   [g \in DOMAIN @ \cup {f} |-> IF g = f THEN disk[f] ELSE @[g]]]
  /\ UNCHANGED <<disks, mirror, client, excuses>>

\* What the compile cache has under a key.
Stored(key) == {p[2] : p \in {q \in packages : q[1] = key}}

\* daemon_prewarm_needs_refresh.
PackageMissing == session.entry # NoPackage /\ Stored(session.entry.key) = {}

\* The results are merged in the order of the files up to the first error, under the
\* hash of the snapshot; after an error there is no prewarm in this cycle.  Without one
\* write_daemon_status announces the prewarm of an earlier cycle.
WarmMerge ==
  LET bad == {f \in Misses : session.parsed[f] \in Broken \cup {0}}
      merged == {f \in Misses : \A g \in bad : f < g}
  IN
  /\ session.at = "warm" /\ Misses = DOMAIN session.parsed
  /\ session' = [session EXCEPT
       !.cache = [f \in Files |-> IF f \in merged
                                  THEN [hash |-> session.snap[f], mir |-> session.parsed[f]]
                                  ELSE @[f]],
       !.parsed = <<>>,
       !.at = IF bad = {} /\ (session.first \/ session.dirty \/ session.error \/ PackageMissing)
              THEN "prewarm" ELSE "wait"]
  /\ status' = IF session'.at = "wait" THEN session.entry ELSE status
  /\ tainted' = tainted \cup {<<f, session.snap[f]>> :
                               f \in {g \in merged : session.parsed[g] # session.snap[g]}}
  /\ failed' = (failed \/ bad # {})
  /\ UNCHANGED <<disks, art, index, packages, client>>

\* The hashes the artifact of f stands for: the one in the index, and the one somebody has
\* found there before.
Indexed(f) ==
  ({index[f]} \cup {h \in {query.hash} : query.at = "artifact" /\ query.file = f}) \ {0}

\* prewarm_daemon_entry_artifacts: artifacts, whose paths do not depend on the content,
\* are overwritten one after the other while the index still has the old hashes,
WriteWarmArtifact(f, mir) ==
  /\ session.at = "prewarm" /\ f \notin session.written /\ session.snap[f] # 0
  /\ \A g \in Files : g < f => g \in session.written \/ session.snap[g] = 0
  /\ art' = [art EXCEPT ![f] = mir]
  /\ session' = [session EXCEPT !.written = @ \cup {f}]
  /\ tainted' = tainted \cup ({f} \X (Indexed(f) \ {mir}))
  /\ UNCHANGED <<disks, index, status, packages, client, failed>>

\* Mutation of WarmArtifact: an artifact that is there already is kept.
WarmArtifactOnce(f) == WriteWarmArtifact(f, IF art[f] # 0 THEN art[f] ELSE session.cache[f].mir)

WarmArtifact(f) == WriteWarmArtifact(f, session.cache[f].mir)

\* then the index is written and artifacts it does not name are removed,
WarmIndex ==
  /\ session.at = "prewarm" /\ AllWritten
  /\ index' = [f \in Files |-> session.snap[f]]
  /\ art' = [f \in Files |-> IF session.snap[f] = 0 THEN 0 ELSE art[f]]
  /\ session' = [session EXCEPT !.at = "source", !.written = {}]
  /\ failed' = FALSE
  /\ UNCHANGED <<disks, status, packages, client, tainted>>

\* and the entry file is read once more for the source map of its package.
WarmSource ==
  /\ session.at = "source"
  /\ session' = [session EXCEPT !.at = "package", !.source = disk[1]]
  /\ UNCHANGED <<disks, mirror, client, excuses>>

\* build_portable_package: what the manifest has of the MIR and of the text.
Manifest(mir, source) == <<Shape[mir], Shape[source]>>

\* write_portable_package_with_cache: the key is made of the manifest and of what the entry
\* file has by now.  An earlier package under the key is kept and takes the place of the
\* one that was made.
Filed(key, mir) == IF Stored(key) = {} THEN {mir} ELSE Stored(key)

\* The package is filed and announced, the entry is built, both of which may fail, and
\* write_daemon_status ends the cycle.
WarmPackage ==
  LET mir == session.cache[1].mir
      hash == session.snap[1]
      key == <<disk[1], Manifest(mir, session.source)>>
      late == IF Stored(key) = {} THEN {disk[1], hash} ELSE {hash} \ {disk[1]}
  IN
  /\ session.at = "package"
  /\ \E packaged, built \in BOOLEAN, filed \in Filed(key, mir) :
       LET ok == packaged /\ built IN
       /\ session' = [session EXCEPT !.at = "wait", !.error = ~ok,
                        !.entry = IF packaged THEN [hash |-> hash, key |-> key] ELSE NoPackage]
       /\ packages' = IF packaged THEN packages \cup {<<key, filed>>} ELSE packages
       /\ tainted' = tainted \cup (IF packaged THEN {1} \X (late \ {filed}) ELSE {})
       /\ events' = IF ok THEN events ELSE events + 1
       /\ ok \/ events < MaxEvents
  /\ status' = session'.entry
  /\ UNCHANGED <<disk, art, index, client, failed>>

\* The compile cache drops a package to make room.
WarmEvict ==
  /\ events < MaxEvents
  /\ \E p \in packages : packages' = packages \ {p}
  /\ events' = events + 1
  /\ UNCHANGED <<disk, session, art, index, status, client, excuses>>

\* The clear command: clear_daemon_status removes the status file,
WarmClear ==
  /\ query.at = "idle" /\ events < MaxEvents
  /\ status' = NoPackage
  /\ query' = [NoQuery EXCEPT !.at = "clear"] /\ events' = events + 1
  /\ UNCHANGED <<disk, session, art, index, packages, misled, excuses>>

\* the warm index,
ClearIndex ==
  /\ query.at = "clear"
  /\ index' = [f \in Files |-> 0] /\ failed' = TRUE
  /\ query' = [query EXCEPT !.at = "cleared"]
  /\ UNCHANGED <<disks, session, art, status, packages, misled, tainted>>

\* and the artifacts one by one; whether all of them went is not looked at.
ClearArtifacts ==
  /\ query.at = "cleared"
  /\ \/ \E f \in Files : art[f] # 0 /\ art' = [art EXCEPT ![f] = 0] /\ UNCHANGED query
     \/ query' = NoQuery /\ UNCHANGED art
  /\ UNCHANGED <<disks, session, index, status, packages, misled, excuses>>

-----------------------------------------------------------------------------
\* load_daemon_warm_state_for_file: the file is hashed, and the daemon is asked.
AskWarm(f) ==
  /\ query.at = "idle" /\ disk[f] # 0
  /\ query' = [NoQuery EXCEPT !.at = "ask", !.file = f, !.hash = disk[f]]
  /\ UNCHANGED <<disks, session, mirror, misled, excuses>>

Answered(m) ==
  /\ query' = NoQuery
  /\ misled' = misled \cup ({query.file} \X {h \in {query.hash} : m \notin {0, h}})
  /\ UNCHANGED <<disks, session, mirror, excuses>>

\* The daemon answers between its cycles, and its miss is final.
AnswerIpc ==
  /\ query.at = "ask" /\ session.at = "wait"
  /\ LET warm == session.cache[query.file]
     IN Answered(IF warm.hash = query.hash THEN warm.mir ELSE 0)

\* There is no port file, nobody listens, or the connection breaks: the warm index is
\* tried.  A daemon may be running none the less, without server or port file.
NoDaemon ==
  /\ query.at = "ask"
  /\ query' = [query EXCEPT !.at = "index"]
  /\ UNCHANGED <<disks, session, mirror, misled, excuses>>

ReadIndex ==
  /\ query.at = "index"
  /\ IF index[query.file] = query.hash
     THEN /\ query' = [query EXCEPT !.at = "artifact"]
          /\ UNCHANGED <<disks, session, mirror, misled, excuses>>
     ELSE Answered(0)

\* and then the artifact it names.
ReadArtifact ==
  /\ query.at = "artifact"
  /\ Answered(art[query.file])

\* load_daemon_prewarmed_entry: the package the status file announces for what the entry
\* has now.
Prewarmed == {m \in Stored(status.key) : status # NoPackage /\ status.hash = disk[1]}

UsePrewarmed ==
  /\ query.at = "idle"
  /\ \E m \in Prewarmed : misled' = misled \cup ({1} \X ({disk[1]} \ {m}))
  /\ UNCHANGED <<disks, session, mirror, query, excuses>>

\* The package command: build_portable_package_file takes that package, or parses the
\* entry,
PackBegin ==
  /\ query.at = "idle"
  /\ \/ \E m \in Prewarmed :
          query' = [at |-> "pack", file |-> 1, hash |-> disk[1], mir |-> m,
                    manifest |-> status.key[2]]
     \/ /\ Prewarmed = {} /\ disk[1] \notin Broken
        /\ query' = [at |-> "pack", file |-> 1, hash |-> disk[1], mir |-> disk[1],
                     manifest |-> Manifest(disk[1], disk[1])]
  /\ UNCHANGED <<disks, session, mirror, misled, excuses>>

\* and files it like the daemon.  The package it writes is right if it is of the content
\* the command began with, or of the present one.
PackFile ==
  LET key == <<disk[1], query.manifest>>
      new == Stored(key) = {}
      announced == {e.hash : e \in {x \in {session.entry, status} : x.key = key}}
  IN
  /\ query.at = "pack"
  /\ \E filed \in Filed(key, query.mir) :
       /\ packages' = packages \cup {<<key, filed>>}
       /\ tainted' = tainted \cup (IF new THEN {1} \X (({disk[1]} \cup announced) \ {filed}) ELSE {})
       /\ misled' = misled \cup ({1} \X {h \in {IF new THEN query.hash ELSE disk[1]} :
                                           filed \notin {query.hash, disk[1]}})
  /\ query' = NoQuery
  /\ UNCHANGED <<disks, session, art, index, status, failed>>

WarmStep ==
  \/ WarmBoot \/ WarmSnapshot \/ WarmMerge \/ WarmIndex \/ WarmSource \/ WarmPackage
  \/ \E f \in Files : WarmParse(f) \/ WarmArtifact(f)

WarmNext ==
  \/ WarmStep \/ WarmKill \/ WarmEvict \/ WarmClear \/ ClearIndex \/ ClearArtifacts
  \/ \E p \in Paths, c \in Contents : WarmEdit(p, c)
  \/ \E f \in Asked : AskWarm(f)
  \/ AnswerIpc \/ NoDaemon \/ ReadIndex \/ ReadArtifact \/ UsePrewarmed
  \/ PackBegin \/ PackFile

-----------------------------------------------------------------------------
\* Whoever takes warm state for the content it has gets the MIR of that content: from
\* the daemon, the warm index, the announced package or the compile cache, across edits at
\* any moment, failed cycles, clears, evictions, kills and restarts.  Excepted is a content
\* under which the MIR of another one was filed: because the file changed between its
\* fingerprint and its parse, because its artifact was overwritten while the index or a
\* reader still had the old hash, or because the entry changed before the package got its
\* key or its announcement.
WarmAnswer == misled \subseteq tainted

\* When the edits are over and every file parses, a running daemon has the current
\* content of every file cached, also after failed cycles; the index on disk catches up
\* unless the cycle that saw the last change failed or the index was cleared since.
WarmEventually == <>[](
  (session.at # "down" /\ \A p \in Paths : disk[p] \notin Broken)
  => /\ \A f \in Files : /\ session.cache[f].hash = disk[f]
                         /\ session.cache[f].mir = disk[f] \/ <<f, disk[f]>> \in tainted
     /\ failed \/ \A f \in Files : index[f] = disk[f])
=============================================================================
