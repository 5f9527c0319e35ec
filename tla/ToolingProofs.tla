--------------------------- MODULE ToolingProofs ----------------------------
(***************************************************************************)
(* Proofs about Tooling.tla, for any number of files, contents, processes, *)
(* keys, edits and kills: what compilers take from the build daemon's warm *)
(* state, what the compile cache hands out, and that what is proved of the *)
(* daemon's life and of the registry index holds in the composition.       *)
(***************************************************************************)
EXTENDS Tooling, BuildDaemonProofs, RegistryIndexProofs, TLAPS

-----------------------------------------------------------------------------
\* What the daemon keeps warm.

\* The session keeps its fields, and the set of artifacts written so far is that of the
\* prewarm under way.
Fields == {"at", "boot", "snap", "cache", "parsed", "first", "dirty", "source", "entry",
           "error", "written"}

Fielded(s) == DOMAIN s = Fields /\ s = [x \in Fields |-> s[x]]

SessionShape ==
  /\ Fielded(session)
  /\ session.written \subseteq Files
  /\ session.at # "prewarm" => session.written = {}

\* m is the MIR of the content of f that has hash h, or h is an excepted one.
TrueFor(f, h, m) == m = h \/ <<f, h>> \in tainted

\* MIR in memory is that of the content it is filed under.
TrueMir == \A f \in Files : TrueFor(f, session.cache[f].hash, session.cache[f].mir)

\* A package is of the content in its key and of the one it is announced for.
Announces(e) == e # NoPackage => \A p \in packages : p[1] = e.key => TrueFor(1, e.hash, p[2])

TruePackages ==
  /\ \A p \in packages : TrueFor(1, p[1][1], p[2])
  /\ \A p, q \in packages : p[1] = q[1] => p[2] = q[2]
  /\ Announces(session.entry) /\ Announces(status)

\* A prewarm runs only when every file is warm, and writes what is cached; somebody may
\* remove it again.
Prewarming ==
  session.at = "prewarm" =>
    /\ \A f \in Files : session.snap[f] # 0 => session.cache[f].hash = session.snap[f]
    /\ \A f \in session.written : art[f] \in {0, session.cache[f].mir}

\* The index names the MIR that is on disk.
TrueIndex == \A f \in Files : 0 \in {index[f], art[f]} \/ TrueFor(f, index[f], art[f])

\* A compiler process that has found its hash in the index can rely on the artifact, and
\* one that packages has the MIR of what it began with.
TrueQuery ==
  /\ query = [at |-> query.at, file |-> query.file, hash |-> query.hash, mir |-> query.mir,
              manifest |-> query.manifest]
  /\ query.file \in Files
  /\ query.at \in {"ask", "index", "artifact"} => query.hash # 0
  /\ query.at = "artifact" =>
       art[query.file] = 0 \/ TrueFor(query.file, query.hash, art[query.file])
  /\ query.at = "pack" => TrueFor(1, query.hash, query.mir)

DisksShape == /\ art = [f \in Files |-> art[f]] /\ index = [f \in Files |-> index[f]]

WarmInv ==
  /\ WarmAnswer /\ SessionShape /\ TrueMir /\ TruePackages /\ Prewarming /\ TrueIndex
  /\ TrueQuery /\ DisksShape

-----------------------------------------------------------------------------
\* The compile cache.

Stages == {"idle", "lookup", "touch", "touched", "restore", "dir", "open", "write",
           "describe", "described", "limit", "evict", "unlink"}

\* Processes and files keep their shape, and a process has a key while it uses the cache.
CacheShape ==
  /\ artifact = [k \in Keys |-> artifact[k]] /\ meta = [k \in Keys |-> meta[k]]
  /\ \A k \in Keys : meta[k] \in {"none", "torn", "whole"}
  /\ builder = [p \in Builders |-> builder[p]]
  /\ \A p \in Builders :
       /\ builder[p] = [at |-> builder[p].at, key |-> builder[p].key,
                        mode |-> builder[p].mode, victims |-> builder[p].victims,
                        listed |-> builder[p].listed]
       /\ builder[p].at \in Stages
       /\ builder[p].at # "idle" => builder[p].key \in Keys

\* While the artifact of a key that nobody contended is torn, its entry has no metadata,
\* and whoever uses the key has yet to open the artifact or is writing it.
TornAlone ==
  \A k \in Keys \ contended : artifact[k] = "torn" =>
    /\ meta[k] # "whole"
    /\ \A p \in Builders : builder[p].key = k =>
         builder[p].at \in {"idle", "lookup", "dir", "open", "write"}

CacheInv == CacheShape /\ TornAlone /\ (\A k \in Keys \ contended : k \notin tornOut)

IInv == WarmInv /\ CacheInv

-----------------------------------------------------------------------------
\* Steps of the compile cache.

\* How a step moves the process p: to l, with its key unless it is through.
BuilderMoves(p, l) ==
  /\ builder' = [q \in Builders |-> builder'[q]]
  /\ \A q \in Builders : q # p => builder'[q] = builder[q]
  /\ builder'[p] = [at |-> builder'[p].at, key |-> builder'[p].key,
                    mode |-> builder'[p].mode, victims |-> builder'[p].victims,
                    listed |-> builder'[p].listed]
  /\ builder'[p].at = l
  /\ l # "idle" => builder'[p].key = builder[p].key

\* A step of BuilderGoes does that.
LEMMA GoesMoves ==
  ASSUME CacheShape, NEW p \in Builders, NEW l, BuilderGoes(p, l)
  PROVE  BuilderMoves(p, l)
<1>1. builder = [q \in Builders |-> builder[q]]
  BY DEF CacheShape
<1>2. CASE l = "idle"
  <2>1. builder' = [builder EXCEPT ![p] = Away]
    BY <1>2 DEF BuilderGoes
  <2>2. builder'[p] = Away /\ \A q \in Builders : q # p => builder'[q] = builder[q]
    BY <1>1, <2>1
  <2>3. builder' = [q \in Builders |-> builder'[q]]
    BY <1>1, <2>1
  <2> QED BY <1>2, <2>2, <2>3 DEF BuilderMoves, Away
<1>3. CASE l # "idle"
  <2>1. PICK b : b = builder[p]
    OBVIOUS
  <2>2. b = [at |-> b.at, key |-> b.key, mode |-> b.mode, victims |-> b.victims,
         listed |-> b.listed]
    BY <2>1 DEF CacheShape
  <2>3. builder' = [builder EXCEPT ![p] = [b EXCEPT !.at = l]]
    BY <1>1, <1>3, <2>1 DEF BuilderGoes
  <2>4. /\ builder'[p] = [b EXCEPT !.at = l]
        /\ \A q \in Builders : q # p => builder'[q] = builder[q]
    BY <1>1, <2>3
  <2>5. builder' = [q \in Builders |-> builder'[q]]
    BY <1>1, <2>3
  <2>6. builder'[p] = [at |-> l, key |-> b.key, mode |-> b.mode, victims |-> b.victims,
         listed |-> b.listed]
    BY <2>2, <2>4
  <2> QED BY <1>3, <2>1, <2>4, <2>5, <2>6 DEF BuilderMoves
<1> QED BY <1>2, <1>3

\* The stages in which a process has yet to write an artifact or is writing it.
Early == {"idle", "lookup", "dir", "open", "write"}

\* What a step that writes no artifact must not do: bring a process past those stages,
\* or give the entry its metadata, while the artifact is torn.
LEMMA CacheStep ==
  ASSUME CacheInv, NEW p \in Builders, NEW l \in Stages, BuilderMoves(p, l),
         builder[p].key \in Keys \/ l = "idle",
         artifact' = [k \in Keys |-> artifact'[k]], meta' = [k \in Keys |-> meta'[k]],
         \A k \in Keys : meta'[k] \in {"none", "torn", "whole"},
         contended' = contended,
         \A k \in Keys : artifact'[k] = "torn" => artifact[k] = "torn",
         \A k \in Keys \ contended : artifact'[k] = "torn" /\ meta'[k] = "whole" => meta[k] = "whole",
         \A k \in Keys \ contended : artifact'[k] = "torn" /\ builder[p].key = k => l \in Early,
         \A k \in Keys \ contended : k \notin tornOut'
  PROVE  CacheInv'
<1>1. CacheShape'
  BY DEF CacheInv, CacheShape, BuilderMoves
<1>2. TornAlone'
  <2> SUFFICES ASSUME NEW k \in Keys \ contended, artifact'[k] = "torn"
               PROVE  /\ meta'[k] # "whole"
                      /\ \A q \in Builders : builder'[q].key = k => builder'[q].at \in Early
    BY DEF TornAlone, Early
  <2>1. /\ artifact[k] = "torn" /\ meta[k] # "whole"
        /\ \A q \in Builders : builder[q].key = k => builder[q].at \in Early
    BY DEF CacheInv, TornAlone, Early
  <2>2. meta'[k] # "whole"
    BY <2>1
  <2>3. ASSUME NEW q \in Builders, builder'[q].key = k PROVE builder'[q].at \in Early
    <3>1. CASE q # p
      BY <2>1, <2>3, <3>1 DEF BuilderMoves
    <3>2. CASE q = p
      BY <2>3, <3>2 DEF BuilderMoves, Early
    <3> QED BY <3>1, <3>2
  <2> QED BY <2>2, <2>3
<1> QED BY <1>1, <1>2 DEF CacheInv

\* Nothing of the files changes.
LEMMA FilesKept ==
  ASSUME CacheInv, UNCHANGED <<artifact, meta>>
  PROVE  /\ artifact' = [k \in Keys |-> artifact'[k]] /\ meta' = [k \in Keys |-> meta'[k]]
         /\ \A k \in Keys : meta'[k] \in {"none", "torn", "whole"}
         /\ \A k \in Keys : artifact'[k] = "torn" => artifact[k] = "torn"
         /\ \A k \in Keys \ contended : artifact'[k] = "torn" /\ meta'[k] = "whole" => meta[k] = "whole"
BY DEF CacheInv, CacheShape

\* Past the early stages a process knows that its artifact is not torn.
LEMMA LateWhole ==
  ASSUME CacheInv, NEW p \in Builders, builder[p].at \notin Early
  PROVE  \A k \in Keys \ contended : builder[p].key = k => artifact[k] # "torn"
BY DEF CacheInv, TornAlone, Early

\* A process begins to use the cache.
LEMMA UseKeeps ==
  ASSUME CacheInv, NEW p \in Builders, NEW k \in Keys, NEW mode \in Modes, CacheUse(p, k, mode)
  PROVE  CacheInv'
<1>1. /\ builder = [q \in Builders |-> builder[q]]
      /\ UNCHANGED <<artifact, meta, contended, tornOut>>
  BY DEF CacheInv, CacheShape, CacheUse, store
<1>2. PICK b : b = [Away EXCEPT !.at = IF mode = "profile" THEN "dir" ELSE "lookup",
                                !.key = k, !.mode = mode]
  OBVIOUS
<1>3. builder' = [builder EXCEPT ![p] = b]
  BY <1>2 DEF CacheUse
<1>4. /\ b = [at |-> b.at, key |-> b.key, mode |-> b.mode, victims |-> b.victims,
         listed |-> b.listed]
      /\ b.at \in {"dir", "lookup"} /\ b.key = k
  BY <1>2 DEF Away
<1>5. /\ builder'[p] = b /\ builder' = [q \in Builders |-> builder'[q]]
      /\ \A q \in Builders : q # p => builder'[q] = builder[q]
  BY <1>1, <1>3
<1>6. CacheShape'
  BY <1>1, <1>4, <1>5 DEF CacheInv, CacheShape, Stages
<1>7. TornAlone'
  BY <1>1, <1>4, <1>5 DEF CacheInv, TornAlone
<1> QED BY <1>1, <1>6, <1>7 DEF CacheInv

\* Where a process goes on after a miss, an error or a store.
LEMMA NextStages ==
  ASSUME NEW p \in Builders
  PROVE  /\ OnMiss(p) \in {"idle", "dir"} /\ OnError(p) \in {"idle", "dir"}
         /\ AfterStore(p) \in {"restore", "idle"}
BY DEF OnMiss, OnError, AfterStore

\* A lookup goes on to the artifact only if there is metadata.
LEMMA LookupKeeps ==
  ASSUME CacheInv, NEW p \in Builders, Lookup(p)
  PROVE  CacheInv'
<1>1. /\ builder[p].at = "lookup" /\ builder[p].key \in Keys
      /\ UNCHANGED <<artifact, meta, contended, tornOut>>
  BY DEF Lookup, At, store, CacheInv, CacheShape
<1>2. PICK k \in Keys : k = builder[p].key
  BY <1>1
<1>3. PICK l : /\ BuilderGoes(p, l) /\ l \in {"idle", "dir", "touch"}
               /\ l = "touch" => meta[k] = "whole"
  <2>1. /\ BuilderGoes(p, IF meta[k] = "torn" THEN OnError(p)
                          ELSE IF "none" \in {meta[k], artifact[k]} THEN OnMiss(p)
                          ELSE "touch")
        /\ meta[k] \in {"none", "torn", "whole"}
    BY <1>2 DEF Lookup, Key, CacheInv, CacheShape
  <2>2. CASE meta[k] = "torn"
    BY <2>1, <2>2, NextStages
  <2>3. CASE meta[k] # "torn" /\ "none" \in {meta[k], artifact[k]}
    BY <2>1, <2>3, NextStages
  <2>4. CASE meta[k] # "torn" /\ ~("none" \in {meta[k], artifact[k]})
    BY <2>1, <2>4
  <2> QED BY <2>2, <2>3, <2>4
<1>4. BuilderMoves(p, l) /\ l \in Stages
  BY <1>3, GoesMoves DEF CacheInv, Stages
<1>5. \A c \in Keys \ contended : artifact'[c] = "torn" /\ builder[p].key = c => l \in Early
  BY <1>1, <1>2, <1>3 DEF CacheInv, TornAlone, Early
<1>6. \A c \in Keys \ contended : c \notin tornOut'
  BY <1>1 DEF CacheInv
<1> QED BY <1>1, <1>4, <1>5, <1>6, CacheStep, FilesKept

\* The metadata is truncated.
LEMMA OpenMetadataKeeps ==
  ASSUME CacheInv, NEW p \in Builders, NEW next \in Stages, NEW other \in Stages,
         builder[p].at \in Stages \ Early, OpenMetadata(p, next, other)
  PROVE  CacheInv'
<1>1. /\ builder[p].key \in Keys /\ UNCHANGED <<artifact, contended, tornOut>>
      /\ meta = [k \in Keys |-> meta[k]]
  BY DEF OpenMetadata, CacheInv, CacheShape, Early
<1>2. PICK l \in Stages : /\ BuilderGoes(p, l)
                          /\ \/ meta' = [meta EXCEPT ![builder[p].key] = "torn"]
                             \/ meta' = meta
  BY DEF OpenMetadata, Key
<1>3. BuilderMoves(p, l)
  BY <1>2, GoesMoves DEF CacheInv
<1>4. /\ meta' = [k \in Keys |-> meta'[k]]
      /\ \A k \in Keys : meta'[k] = meta[k] \/ meta'[k] = "torn"
  BY <1>1, <1>2
<1>5. /\ artifact' = [k \in Keys |-> artifact'[k]]
      /\ \A k \in Keys : artifact'[k] = "torn" => artifact[k] = "torn"
      /\ \A k \in Keys : meta'[k] \in {"none", "torn", "whole"}
      /\ \A k \in Keys \ contended : artifact'[k] = "torn" /\ meta'[k] = "whole" => meta[k] = "whole"
      /\ \A k \in Keys \ contended : k \notin tornOut'
  BY <1>1, <1>4 DEF CacheInv, CacheShape
<1>6. \A k \in Keys \ contended : artifact'[k] = "torn" /\ builder[p].key = k => l \in Early
  BY <1>1, LateWhole
<1> QED BY <1>1, <1>3, <1>4, <1>5, <1>6, CacheStep

\* The metadata is written, if the entry is still there.
LEMMA WriteMetadataKeeps ==
  ASSUME CacheInv, NEW p \in Builders, NEW next \in Stages,
         builder[p].at \in Stages \ Early, WriteMetadata(p, next)
  PROVE  CacheInv'
<1>1. /\ builder[p].key \in Keys /\ UNCHANGED <<artifact, contended, tornOut>>
      /\ meta = [k \in Keys |-> meta[k]]
  BY DEF WriteMetadata, CacheInv, CacheShape, Early
<1>2. /\ BuilderGoes(p, next)
      /\ \/ meta' = [meta EXCEPT ![builder[p].key] = "whole"]
         \/ meta' = meta
  BY DEF WriteMetadata, Key
<1>3. BuilderMoves(p, next)
  BY <1>2, GoesMoves DEF CacheInv
<1>4. /\ meta' = [k \in Keys |-> meta'[k]]
      /\ \A k \in Keys : meta'[k] = meta[k] \/ (meta'[k] = "whole" /\ k = builder[p].key)
  BY <1>1, <1>2
<1>5. \A k \in Keys \ contended : builder[p].key = k => artifact[k] # "torn"
  BY LateWhole
<1>6. /\ artifact' = [k \in Keys |-> artifact'[k]]
      /\ \A k \in Keys : artifact'[k] = "torn" => artifact[k] = "torn"
      /\ \A k \in Keys : meta'[k] \in {"none", "torn", "whole"}
      /\ \A k \in Keys \ contended : artifact'[k] = "torn" /\ meta'[k] = "whole" => meta[k] = "whole"
      /\ \A k \in Keys \ contended : k \notin tornOut'
      /\ \A k \in Keys \ contended : artifact'[k] = "torn" /\ builder[p].key = k => next \in Early
  BY <1>1, <1>4, <1>5 DEF CacheInv, CacheShape
<1> QED BY <1>1, <1>3, <1>4, <1>6, CacheStep

\* What is handed out to a build or a package is not torn.
LEMMA RestoreKeeps ==
  ASSUME CacheInv, NEW p \in Builders, Restore(p)
  PROVE  CacheInv'
<1>1. /\ builder[p].at = "restore" /\ UNCHANGED <<artifact, meta, contended>>
      /\ BuilderGoes(p, "idle")
      /\ tornOut' \subseteq tornOut \cup {k \in {builder[p].key} : artifact[k] = "torn"}
  BY DEF Restore, At, Key, store
<1>2. BuilderMoves(p, "idle") /\ "idle" \in Stages /\ "idle" \in Early
  BY <1>1, GoesMoves DEF CacheInv, Stages, Early
<1>3. \A k \in Keys \ contended : builder[p].key = k => artifact[k] # "torn"
  BY <1>1, LateWhole DEF Early
<1>4. \A k \in Keys \ contended : k \notin tornOut'
  BY <1>1, <1>3 DEF CacheInv
<1> QED BY <1>1, <1>2, <1>4, CacheStep, FilesKept

\* The directory is made, and the process killed: neither touches a file.
LEMMA QuietKeeps ==
  ASSUME CacheInv, NEW p \in Builders, CreateDir(p) \/ KillBuilder(p)
  PROVE  CacheInv'
<1>1. /\ UNCHANGED <<artifact, meta, contended, tornOut>> /\ builder[p].key \in Keys
  BY DEF CreateDir, KillBuilder, store, At, CacheInv, CacheShape
<1>2. PICK l \in {"open", "idle"} : BuilderGoes(p, l)
  BY DEF CreateDir, KillBuilder
<1>3. BuilderMoves(p, l) /\ l \in Stages /\ l \in Early
  BY <1>2, GoesMoves DEF CacheInv, Stages, Early
<1>4. \A k \in Keys \ contended : k \notin tornOut'
  BY <1>1 DEF CacheInv
<1> QED BY <1>1, <1>3, <1>4, CacheStep, FilesKept

\* The artifact is truncated: from here on the key is contended, or the process is alone
\* with an entry that has no metadata.
LEMMA OpenArtifactKeeps ==
  ASSUME CacheInv, NEW p \in Builders, OpenArtifact(p)
  PROVE  CacheInv'
<1>1. builder[p].at = "open" /\ tornOut' = tornOut
  BY DEF OpenArtifact, OpensArtifact, At
<1>2. PICK k \in Keys : k = builder[p].key
  BY <1>1 DEF CacheInv, CacheShape
<1>3. CASE k \in dirs
  <2>1. /\ artifact' = [artifact EXCEPT ![k] = "torn"]
        /\ contended' = contended \cup {c \in {k} : Shared(p, c)}
        /\ meta' = [meta EXCEPT ![k] = meta[k]]
        /\ BuilderGoes(p, "write")
    BY <1>2, <1>3 DEF OpenArtifact, OpensArtifact, Key
  <2>2. BuilderMoves(p, "write")
    BY <2>1, GoesMoves DEF CacheInv
  <2>3. /\ artifact' = [c \in Keys |-> artifact'[c]] /\ meta' = meta
        /\ \A c \in Keys : c # k => artifact'[c] = artifact[c]
    BY <2>1 DEF CacheInv, CacheShape
  <2>4. CacheShape'
    BY <1>2, <2>2, <2>3 DEF CacheInv, CacheShape, BuilderMoves, Stages
  <2>5. TornAlone'
    <3> SUFFICES ASSUME NEW c \in Keys \ contended', artifact'[c] = "torn"
                 PROVE  /\ meta'[c] # "whole"
                        /\ \A q \in Builders : builder'[q].key = c => builder'[q].at \in Early
      BY DEF TornAlone, Early
    <3>1. CASE c # k
      <4>1. /\ meta[c] # "whole"
            /\ \A q \in Builders : builder[q].key = c => builder[q].at \in Early
        BY <2>1, <2>3, <3>1 DEF CacheInv, TornAlone, Early
      <4> QED BY <2>2, <2>3, <4>1 DEF BuilderMoves, Early
    <3>2. CASE c = k
      <4>1. ~Shared(p, k)
        BY <2>1, <3>2
      <4>2. /\ meta[k] # "whole"
            /\ \A q \in Builders : q # p /\ builder[q].key = k => builder[q].at = "idle"
        BY <4>1 DEF Shared, At, Key
      <4> QED BY <2>2, <2>3, <3>2, <4>2 DEF BuilderMoves, Early
    <3> QED BY <3>1, <3>2
  <2> QED BY <1>1, <2>1, <2>4, <2>5 DEF CacheInv
<1>4. CASE k \notin dirs
  <2>1. BuilderGoes(p, "idle") /\ UNCHANGED <<artifact, meta, contended>>
    BY <1>2, <1>4 DEF OpenArtifact, OpensArtifact, Key
  <2>2. BuilderMoves(p, "idle") /\ "idle" \in Stages /\ "idle" \in Early
    BY <2>1, GoesMoves DEF CacheInv, Stages, Early
  <2>3. \A c \in Keys \ contended : c \notin tornOut'
    BY <1>1 DEF CacheInv
  <2> QED BY <2>1, <2>2, <2>3, CacheStep, FilesKept
<1> QED BY <1>3, <1>4

\* The artifact is written, if it is still there, and whole then.
LEMMA WriteArtifactKeeps ==
  ASSUME CacheInv, NEW p \in Builders, WriteArtifact(p)
  PROVE  CacheInv'
<1>1. /\ builder[p].at = "write" /\ UNCHANGED <<meta, contended, tornOut>>
      /\ BuilderGoes(p, "describe")
  BY DEF WriteArtifact, At
<1>2. PICK k \in Keys : k = builder[p].key
  BY <1>1 DEF CacheInv, CacheShape
<1>3. /\ artifact = [c \in Keys |-> artifact[c]]
      /\ artifact' = [artifact EXCEPT ![k] = IF artifact[k] = "none" THEN "none" ELSE "whole"]
  BY <1>2 DEF WriteArtifact, Key, CacheInv, CacheShape
<1>4. /\ artifact' = [c \in Keys |-> artifact'[c]] /\ artifact'[k] # "torn"
      /\ \A c \in Keys : artifact'[c] = "torn" => artifact[c] = "torn"
  BY <1>3
<1>5. BuilderMoves(p, "describe") /\ "describe" \in Stages
  BY <1>1, GoesMoves DEF CacheInv, Stages
<1>6. /\ meta' = [c \in Keys |-> meta'[c]]
      /\ \A c \in Keys : meta'[c] \in {"none", "torn", "whole"}
      /\ \A c \in Keys \ contended : artifact'[c] = "torn" /\ meta'[c] = "whole" => meta[c] = "whole"
      /\ \A c \in Keys \ contended : c \notin tornOut'
      /\ \A c \in Keys \ contended : artifact'[c] = "torn" /\ builder[p].key = c => "describe" \in Early
  BY <1>1, <1>2, <1>4 DEF CacheInv, CacheShape
<1> QED BY <1>1, <1>2, <1>4, <1>5, <1>6, CacheStep

\* A process that goes on with its evictions keeps its key.
LEMMA EvictMoves ==
  ASSUME CacheShape, NEW p \in Builders, NEW l, NEW v,
         \/ builder' = [builder EXCEPT ![p] = [@ EXCEPT !.at = l, !.victims = v]]
         \/ builder' = [builder EXCEPT ![p] = [@ EXCEPT !.at = l, !.listed = v]]
  PROVE  BuilderMoves(p, l)
<1>1. PICK b : b = builder[p]
  OBVIOUS
<1>2. /\ builder = [q \in Builders |-> builder[q]]
      /\ b = [at |-> b.at, key |-> b.key, mode |-> b.mode, victims |-> b.victims,
              listed |-> b.listed]
  BY <1>1 DEF CacheShape
<1>3. PICK c : c = [b EXCEPT !.at = l]
  OBVIOUS
<1>4. c = [at |-> l, key |-> b.key, mode |-> b.mode, victims |-> b.victims, listed |-> b.listed]
  BY <1>2, <1>3
<1>5. PICK d : /\ d = [at |-> d.at, key |-> d.key, mode |-> d.mode, victims |-> d.victims,
                       listed |-> d.listed]
               /\ d.at = l /\ d.key = b.key
               /\ builder' = [builder EXCEPT ![p] = d]
  <2>1. CASE builder' = [builder EXCEPT ![p] = [@ EXCEPT !.at = l, !.victims = v]]
    <3>1. builder' = [builder EXCEPT ![p] = [b EXCEPT !.at = l, !.victims = v]]
      BY <1>1, <1>2, <2>1
    <3>2. [b EXCEPT !.at = l, !.victims = v] = [c EXCEPT !.victims = v]
      BY <1>3
    <3>3. [c EXCEPT !.victims = v]
            = [at |-> l, key |-> b.key, mode |-> b.mode, victims |-> v, listed |-> b.listed]
      BY <1>4
    <3> QED BY <3>1, <3>2, <3>3
  <2>2. CASE builder' = [builder EXCEPT ![p] = [@ EXCEPT !.at = l, !.listed = v]]
    <3>1. builder' = [builder EXCEPT ![p] = [b EXCEPT !.at = l, !.listed = v]]
      BY <1>1, <1>2, <2>2
    <3>2. [b EXCEPT !.at = l, !.listed = v] = [c EXCEPT !.listed = v]
      BY <1>3
    <3>3. [c EXCEPT !.listed = v]
            = [at |-> l, key |-> b.key, mode |-> b.mode, victims |-> b.victims, listed |-> v]
      BY <1>4
    <3> QED BY <3>1, <3>2, <3>3
  <2> QED BY <2>1, <2>2
<1>6. /\ builder'[p] = d /\ builder' = [q \in Builders |-> builder'[q]]
      /\ \A q \in Builders : q # p => builder'[q] = builder[q]
  BY <1>2, <1>5
<1> QED BY <1>1, <1>5, <1>6 DEF BuilderMoves

\* A process that has stored may lose files of any entry on its way to the end: an artifact
\* that goes is not torn, and metadata that goes is not there for a lookup.
LEMMA LosingKeeps ==
  ASSUME CacheInv, NEW p \in Builders, builder[p].at \in {"limit", "evict", "unlink"},
         NEW l \in {"idle", "restore", "evict", "unlink"}, BuilderMoves(p, l),
         UNCHANGED <<contended, tornOut>>,
         artifact' = artifact \/ \E k \in Keys \cup {Victim(p)} : artifact' = [artifact EXCEPT ![k] = "none"],
         meta' = meta \/ \E k \in Keys \cup {Victim(p)} : meta' = [meta EXCEPT ![k] = "none"]
  PROVE  CacheInv'
<1>1. /\ builder[p].key \in Keys /\ artifact = [k \in Keys |-> artifact[k]]
      /\ meta = [k \in Keys |-> meta[k]]
  BY DEF CacheInv, CacheShape
<1>2. /\ artifact' = [k \in Keys |-> artifact'[k]]
      /\ \A k \in Keys : artifact'[k] = artifact[k] \/ artifact'[k] = "none"
  BY <1>1
<1>3. /\ meta' = [k \in Keys |-> meta'[k]]
      /\ \A k \in Keys : meta'[k] = meta[k] \/ meta'[k] = "none"
  BY <1>1
<1>4. l \in Stages
  BY DEF Stages
<1>5. \A k \in Keys \ contended : builder[p].key = k => artifact[k] # "torn"
  BY <1>1, LateWhole DEF Early
<1>6. /\ \A k \in Keys : meta'[k] \in {"none", "torn", "whole"}
      /\ \A k \in Keys : artifact'[k] = "torn" => artifact[k] = "torn"
      /\ \A k \in Keys \ contended : artifact'[k] = "torn" /\ meta'[k] = "whole" => meta[k] = "whole"
      /\ \A k \in Keys \ contended : k \notin tornOut'
      /\ \A k \in Keys \ contended : artifact'[k] = "torn" /\ builder[p].key = k => l \in Early
  BY <1>2, <1>3, <1>5 DEF CacheInv, CacheShape
<1> QED BY <1>1, <1>2, <1>3, <1>4, <1>6, CacheStep

\* The entries that are too many are listed.
LEMMA LimitsKeep ==
  ASSUME CacheInv, NEW p \in Builders, EnforceLimits(p)
  PROVE  CacheInv'
<1>1. builder[p].at = "limit" /\ UNCHANGED <<artifact, meta, contended, tornOut>>
  BY DEF EnforceLimits, At, store
<1>2. \/ BuilderGoes(p, "idle") \/ BuilderGoes(p, AfterStore(p))
      \/ \E v : builder' = [builder EXCEPT ![p] = [@ EXCEPT !.at = "evict", !.victims = v]]
  BY DEF EnforceLimits
<1>3. PICK l \in {"idle", "restore", "evict"} : BuilderMoves(p, l)
  BY <1>2, GoesMoves, EvictMoves, NextStages DEF CacheInv
<1> QED BY <1>1, <1>3, LosingKeeps

\* Where an eviction ends, the next begins or the store is over.
LEMMA NextVictimMoves ==
  ASSUME CacheShape, NEW p \in Builders, NextVictim(p)
  PROVE  \E l \in {"idle", "restore", "evict"} : BuilderMoves(p, l)
<1>1. \/ BuilderGoes(p, AfterStore(p))
      \/ \E v : builder' = [builder EXCEPT ![p] = [@ EXCEPT !.at = "evict", !.victims = v]]
  BY DEF NextVictim
<1> QED BY <1>1, GoesMoves, EvictMoves, NextStages

\* An entry is evicted file by file.
LEMMA EvictKeeps ==
  ASSUME CacheInv, NEW p \in Builders,
         \/ Evict(p) \/ EvictDir(p)
         \/ \E x \in {"artifact", "metadata"} : EvictFile(p, x)
  PROVE  CacheInv'
<1>1. CASE Evict(p)
  <2>1. builder[p].at = "evict" /\ UNCHANGED <<artifact, meta, contended, tornOut>>
    BY <1>1 DEF Evict, At, store
  <2>2. \/ NextVictim(p)
        \/ \E v : builder' = [builder EXCEPT ![p] = [@ EXCEPT !.at = "unlink", !.listed = v]]
    BY <1>1 DEF Evict
  <2>3. \E l \in {"idle", "restore", "evict", "unlink"} : BuilderMoves(p, l)
    BY <2>2, NextVictimMoves, EvictMoves DEF CacheInv
  <2> QED BY <2>1, <2>3, LosingKeeps
<1>2. ASSUME NEW x, EvictFile(p, x) PROVE CacheInv'
  <2>1. /\ builder[p].at = "unlink" /\ UNCHANGED <<contended, tornOut>>
        /\ artifact' = artifact \/ artifact' = [artifact EXCEPT ![Victim(p)] = "none"]
        /\ meta' = meta \/ meta' = [meta EXCEPT ![Victim(p)] = "none"]
    BY <1>2 DEF EvictFile, At
  <2>2. \E v : builder' = [builder EXCEPT ![p] = [@ EXCEPT !.at = "unlink", !.listed = v]]
    BY <1>2 DEF EvictFile
  <2>3. BuilderMoves(p, "unlink")
    BY <2>2, EvictMoves DEF CacheInv
  <2> QED BY <2>1, <2>3, LosingKeeps
<1>3. CASE EvictDir(p)
  <2>1. builder[p].at = "unlink" /\ UNCHANGED <<artifact, meta, contended, tornOut>>
    BY <1>3 DEF EvictDir, At
  <2>2. NextVictim(p) \/ BuilderGoes(p, "idle")
    BY <1>3 DEF EvictDir
  <2>3. \E l \in {"idle", "restore", "evict"} : BuilderMoves(p, l)
    BY <2>2, NextVictimMoves, GoesMoves DEF CacheInv
  <2> QED BY <2>1, <2>3, LosingKeeps
<1> QED BY <1>1, <1>2, <1>3

\* The invariant is kept by every step of the compile cache.
LEMMA CachePreserved == ASSUME CacheInv, CacheNext PROVE CacheInv'
<1>1. PICK p \in Builders :
        \/ \E k \in Keys, mode \in Modes : CacheUse(p, k, mode)
        \/ Lookup(p) \/ Touch(p) \/ Touched(p) \/ Restore(p)
        \/ CreateDir(p) \/ OpenArtifact(p) \/ WriteArtifact(p) \/ Describe(p) \/ Described(p)
        \/ EnforceLimits(p) \/ Evict(p) \/ EvictDir(p) \/ KillBuilder(p)
        \/ \E x \in {"artifact", "metadata"} : EvictFile(p, x)
  BY DEF CacheNext
<1>2. CASE \E k \in Keys, mode \in Modes : CacheUse(p, k, mode)
  BY <1>2, UseKeeps
<1>3. CASE Touch(p)
  <2>1. OpenMetadata(p, "touched", OnError(p)) /\ builder[p].at \in Stages \ Early
    BY <1>3 DEF Touch, At, Stages, Early
  <2>2. "touched" \in Stages /\ OnError(p) \in Stages
    BY NextStages DEF Stages
  <2> QED BY <2>1, <2>2, OpenMetadataKeeps
<1>4. CASE Describe(p)
  <2>1. OpenMetadata(p, "described", "idle") /\ builder[p].at \in Stages \ Early
    BY <1>4 DEF Describe, At, Stages, Early
  <2>2. "described" \in Stages /\ "idle" \in Stages
    BY DEF Stages
  <2> QED BY <2>1, <2>2, OpenMetadataKeeps
<1>5. CASE Touched(p)
  <2>1. WriteMetadata(p, "restore") /\ builder[p].at \in Stages \ Early /\ "restore" \in Stages
    BY <1>5 DEF Touched, At, Stages, Early
  <2> QED BY <2>1, WriteMetadataKeeps
<1>6. CASE Described(p)
  <2>1. WriteMetadata(p, "limit") /\ builder[p].at \in Stages \ Early /\ "limit" \in Stages
    BY <1>6 DEF Described, At, Stages, Early
  <2> QED BY <2>1, WriteMetadataKeeps
<1> QED BY <1>1, <1>2, <1>3, <1>4, <1>5, <1>6, LookupKeeps, RestoreKeeps, QuietKeeps,
           OpenArtifactKeeps, WriteArtifactKeeps, LimitsKeep, EvictKeeps

\* The cache starts empty.
LEMMA CacheStarts == ASSUME CacheInit PROVE CacheInv
<1>1. /\ artifact = [k \in Keys |-> "none"] /\ meta = [k \in Keys |-> "none"]
      /\ builder = [p \in Builders |-> Away] /\ tornOut = {}
  BY DEF CacheInit
<1>2. \A p \in Builders : builder[p] = Away
  BY <1>1
<1>3. /\ Away = [at |-> Away.at, key |-> Away.key, mode |-> Away.mode, victims |-> Away.victims,
                listed |-> Away.listed]
      /\ Away.at = "idle"
  BY DEF Away
<1>4. CacheShape
  BY <1>1, <1>2, <1>3 DEF CacheShape, Stages
<1> QED BY <1>1, <1>4 DEF CacheInv, TornAlone

-----------------------------------------------------------------------------
\* Steps of the daemon and of those that ask it.

\* A new process has nothing.
LEMMA FreshSession ==
  /\ Fielded(NoDaemonProcess)
  /\ NoDaemonProcess.at = "down" /\ NoDaemonProcess.written = {}
  /\ NoDaemonProcess.entry = NoPackage
  /\ \A f \in Files : NoDaemonProcess.cache[f] = Nothing
BY DEF NoDaemonProcess, Fields, Fielded

\* An announcement is taken over or withdrawn.
LEMMA AnnouncementsKept ==
  ASSUME TruePackages, packages' \subseteq packages, tainted \subseteq tainted',
         session'.entry \in {session.entry, status, NoPackage},
         status' \in {session.entry, status, NoPackage}
  PROVE  TruePackages'
BY DEF TruePackages, Announces, TrueFor

\* Between prewarms the daemon leaves the disk alone, and only the MIR it keeps and
\* announces matters.
LEMMA SessionStep ==
  ASSUME WarmInv, Fielded(session'), session.at # "prewarm", session'.written = {},
         session'.at = "prewarm" => \A f \in Files :
           session'.snap[f] # 0 => session'.cache[f].hash = session'.snap[f],
         UNCHANGED <<art, index, query, misled>>, tainted \subseteq tainted',
         TrueMir', TruePackages'
  PROVE  WarmInv'
<1>1. WarmAnswer' /\ SessionShape' /\ Prewarming'
  BY DEF WarmInv, WarmAnswer, SessionShape, Prewarming
<1>2. TrueIndex'
  BY DEF WarmInv, TrueIndex, TrueFor
<1>3. TrueQuery'
  BY DEF WarmInv, TrueQuery, TrueFor
<1>4. DisksShape'
  BY DEF WarmInv, DisksShape
<1> QED BY <1>1, <1>2, <1>3, <1>4 DEF WarmInv

\* The daemon starts.
LEMMA BootKeeps == ASSUME WarmInv, WarmBoot PROVE WarmInv'
<1>1. /\ session' = [NoDaemonProcess EXCEPT !.at = "boot", !.boot = disk]
      /\ session.at = "down"
      /\ UNCHANGED <<art, index, status, packages, query, misled, tainted>>
  BY DEF WarmBoot, mirror, client, excuses
<1>2. /\ Fielded(session') /\ session'.at = "boot" /\ session'.written = {}
      /\ session'.entry = NoPackage /\ session'.cache = NoDaemonProcess.cache
  BY <1>1, FreshSession DEF Fielded, Fields
<1>3. TrueMir'
  <2>1. \A f \in Files : session'.cache[f] = Nothing
    BY <1>2, FreshSession
  <2> QED BY <2>1 DEF TrueMir, TrueFor, Nothing
<1>4. TruePackages'
  BY <1>1, <1>2, AnnouncementsKept DEF WarmInv
<1> QED BY <1>1, <1>2, <1>3, <1>4, SessionStep

\* A cycle begins: the cache loses entries and gets none.
LEMMA SnapshotKeeps == ASSUME WarmInv, WarmSnapshot PROVE WarmInv'
<1>a. PICK first : TakesSnapshot(first)
  BY DEF WarmSnapshot
<1>b. PICK next : next = IF first THEN session.boot ELSE disk
  OBVIOUS
<1>c. PICK dirty : dirty = (Diff(next) # {})
  OBVIOUS
<1>1. /\ session.at \in {"boot", "wait"}
      /\ \/ session' = [session EXCEPT !.at = "wait", !.first = first]
         \/ session' = [session EXCEPT !.at = "warm", !.first = first, !.snap = next,
                                       !.dirty = dirty, !.cache = ApplyDiff(next)]
      /\ status' \in {session.entry, status}
      /\ UNCHANGED <<art, index, packages, query, misled, tainted>>
  BY <1>a, <1>b, <1>c DEF TakesSnapshot, client, excuses
<1>2. /\ Fielded(session') /\ session'.at \in {"wait", "warm"} /\ session'.entry = session.entry
      /\ session'.written = session.written
      /\ session'.cache = session.cache \/ session'.cache = ApplyDiff(next)
  BY <1>1 DEF WarmInv, SessionShape, Fielded, Fields
<1>3. \A f \in Files : session'.cache[f] = session.cache[f] \/ session'.cache[f] = Nothing
  BY <1>2 DEF ApplyDiff
<1>4. TrueMir'
  BY <1>1, <1>3 DEF WarmInv, TrueMir, TrueFor, Nothing
<1>5. TruePackages'
  BY <1>1, <1>2, AnnouncementsKept DEF WarmInv
<1>6. session.written = {}
  BY <1>1 DEF WarmInv, SessionShape
<1> QED BY <1>1, <1>2, <1>4, <1>5, <1>6, SessionStep

\* A worker has parsed a file, or the entry was read for its package.
LEMMA ReadKeeps ==
  ASSUME WarmInv, WarmSource \/ \E f \in Files : WarmParse(f)
  PROVE  WarmInv'
<1>1. /\ \/ session.at = "warm" /\ \E v : session' = [session EXCEPT !.parsed = v]
         \/ /\ session.at = "source"
            /\ \E v : session' = [session EXCEPT !.at = "package", !.source = v]
      /\ UNCHANGED <<art, index, status, packages, query, misled, tainted>>
  BY DEF WarmParse, WarmSource, mirror, client, excuses
<1>2. /\ Fielded(session') /\ session'.at # "prewarm" /\ session'.entry = session.entry
      /\ session'.written = session.written /\ session'.cache = session.cache
  BY <1>1 DEF WarmInv, SessionShape, Fielded, Fields
<1>3. TrueMir'
  BY <1>1, <1>2 DEF WarmInv, TrueMir, TrueFor
<1>4. TruePackages'
  BY <1>1, <1>2, AnnouncementsKept DEF WarmInv
<1>5. session.written = {} /\ session.at # "prewarm"
  BY <1>1 DEF WarmInv, SessionShape
<1> QED BY <1>1, <1>2, <1>3, <1>4, <1>5, SessionStep

\* What was parsed is filed under the fingerprint; without an error nothing is missing.
LEMMA MergeKeeps == ASSUME WarmInv, WarmMerge PROVE WarmInv'
<1> DEFINE bad == {f \in Misses : session.parsed[f] \in Broken \cup {0}}
           merged == {f \in Misses : \A g \in bad : f < g}
           filed == [f \in Files |-> IF f \in merged
                                     THEN [hash |-> session.snap[f], mir |-> session.parsed[f]]
                                     ELSE session.cache[f]]
           mixed == {<<f, session.snap[f]>> :
                       f \in {g \in merged : session.parsed[g] # session.snap[g]}}
<1>1. PICK l :
        /\ session.at = "warm"
        /\ session' = [session EXCEPT !.cache = filed, !.parsed = <<>>, !.at = l]
        /\ l \in {"prewarm", "wait"} /\ (l = "prewarm" => bad = {})
        /\ status' \in {session.entry, status}
        /\ tainted' = tainted \cup mixed
        /\ UNCHANGED <<art, index, packages, query, misled>>
  <2> DEFINE cond == session.first \/ session.dirty \/ session.error \/ PackageMissing
  <2>1. /\ session.at = "warm"
        /\ session' = [session EXCEPT !.cache = filed, !.parsed = <<>>,
                                      !.at = IF bad = {} /\ cond THEN "prewarm" ELSE "wait"]
        /\ status' = IF session'.at = "wait" THEN session.entry ELSE status
        /\ tainted' = tainted \cup mixed
        /\ UNCHANGED <<art, index, packages, query, misled>>
    <3>1. session' = [session EXCEPT
            !.cache = [f \in Files |-> IF f \in merged
                                       THEN [hash |-> session.snap[f], mir |-> session.parsed[f]]
                                       ELSE @[f]],
            !.parsed = <<>>,
            !.at = IF bad = {} /\ cond THEN "prewarm" ELSE "wait"]
      BY DEF WarmMerge
    <3> HIDE DEF bad, merged, cond
    <3>2. session' = [session EXCEPT !.cache = filed, !.parsed = <<>>,
                                      !.at = IF bad = {} /\ cond THEN "prewarm" ELSE "wait"]
      BY <3>1
    <3> USE DEF bad, merged
    <3> QED BY <3>2 DEF WarmMerge, client
  <2> HIDE DEF bad, merged, filed, mixed, cond
  <2> QED BY <2>1
<1>2. \A f \in Files : f \in merged =>
        filed[f].hash = session.snap[f] /\ filed[f].mir = session.parsed[f]
  <2> HIDE DEF bad, merged
  <2> QED OBVIOUS
<1>3. \A f \in Files : f \notin merged => filed[f] = session.cache[f]
  <2> HIDE DEF bad, merged
  <2> QED OBVIOUS
<1>4. bad = {} => \A f \in Files :
        session.snap[f] # 0 => f \in merged \/ session.cache[f].hash = session.snap[f]
  <2> HIDE DEF bad
  <2> QED BY DEF Misses
<1>5. \A f \in merged : session.parsed[f] = session.snap[f] \/ <<f, session.snap[f]>> \in mixed
  <2> HIDE DEF bad, merged
  <2> QED OBVIOUS
<1> HIDE DEF bad, merged, filed, mixed
<1>6. /\ Fielded(session') /\ session'.at = l /\ session'.entry = session.entry
      /\ session'.written = session.written /\ session'.cache = filed
      /\ session'.snap = session.snap
  BY <1>1 DEF WarmInv, SessionShape, Fielded, Fields
<1>7. TrueMir'
  <2> SUFFICES ASSUME NEW f \in Files
               PROVE  \/ session'.cache[f].mir = session'.cache[f].hash
                      \/ <<f, session'.cache[f].hash>> \in tainted'
    BY DEF TrueMir, TrueFor
  <2>1. CASE f \in merged
    BY <1>1, <1>2, <1>5, <1>6, <2>1
  <2>2. CASE f \notin merged
    BY <1>1, <1>3, <1>6, <2>2 DEF WarmInv, TrueMir, TrueFor
  <2> QED BY <2>1, <2>2
<1>8. session'.at = "prewarm" => \A f \in Files :
        session'.snap[f] # 0 => session'.cache[f].hash = session'.snap[f]
  BY <1>1, <1>2, <1>3, <1>4, <1>6
<1>9. TruePackages' /\ tainted \subseteq tainted'
  BY <1>1, <1>6, AnnouncementsKept DEF WarmInv
<1>10. session.written = {}
  BY <1>1 DEF WarmInv, SessionShape
<1> QED BY <1>1, <1>6, <1>7, <1>8, <1>9, <1>10, SessionStep

\* A package is filed under a key, where an earlier one stays.
LEMMA Filing ==
  ASSUME TruePackages, NEW key, NEW mir, NEW m \in Filed(key, mir),
         packages' = packages \cup {<<key, m>>}, tainted \subseteq tainted',
         Stored(key) = {} => m = key[1] \/ <<1, key[1]>> \in tainted'
  PROVE  /\ \A p \in packages' : TrueFor(1, p[1][1], p[2])'
         /\ \A p, q \in packages' : p[1] = q[1] => p[2] = q[2]
         /\ \A p \in packages' : p[1] = key => p[2] = m
         /\ Stored(key) # {} => \E p \in packages : p[1] = key /\ p[2] = m
<1>1. Stored(key) # {} => \E p \in packages : p[1] = key /\ p[2] = m
  BY DEF Filed, Stored
<1>2. Stored(key) = {} => \A p \in packages : p[1] # key
  BY DEF Stored
<1>3. <<key, m>>[1] = key /\ <<key, m>>[2] = m
  OBVIOUS
<1>4. \A p \in packages : p[1] = key => p[2] = m
  BY <1>1, <1>2 DEF TruePackages
<1>5. \A p \in packages' : p[1] = key => p[2] = m
  BY <1>3, <1>4
<1>6. \A p, q \in packages' : p[1] = q[1] => p[2] = q[2]
  <2> SUFFICES ASSUME NEW p \in packages', NEW q \in packages', p[1] = q[1] PROVE p[2] = q[2]
    OBVIOUS
  <2>1. CASE p[1] = key
    <3>1. p[2] = m
      BY <1>5, <2>1
    <3>2. q[2] = m
      BY <1>5, <2>1
    <3> QED BY <3>1, <3>2
  <2>2. CASE p[1] # key
    <3>1. p \in packages /\ q \in packages
      BY <1>3, <2>2
    <3> QED BY <3>1 DEF TruePackages
  <2> QED BY <2>1, <2>2
<1>7. m = key[1] \/ <<1, key[1]>> \in tainted'
  BY <1>1 DEF TruePackages, TrueFor
<1>8. \A p \in packages' : p[2] = p[1][1] \/ <<1, p[1][1]>> \in tainted'
  BY <1>3, <1>7 DEF TruePackages, TrueFor
<1> QED BY <1>1, <1>5, <1>6, <1>8 DEF TrueFor

\* The entry is packaged and built, or is not.
LEMMA PackageKeeps == ASSUME WarmInv, WarmPackage PROVE WarmInv'
<1> DEFINE mir == session.cache[1].mir
           hash == session.snap[1]
           key == <<disk[1], Manifest(mir, session.source)>>
           late == IF Stored(key) = {} THEN {disk[1], hash} ELSE {hash} \ {disk[1]}
<1>1. PICK packaged \in BOOLEAN, built \in BOOLEAN, m \in Filed(key, mir) :
        /\ session' = [session EXCEPT !.at = "wait", !.error = ~(packaged /\ built),
                         !.entry = IF packaged THEN [hash |-> hash, key |-> key] ELSE NoPackage]
        /\ packages' = IF packaged THEN packages \cup {<<key, m>>} ELSE packages
        /\ tainted' = tainted \cup (IF packaged THEN {1} \X (late \ {m}) ELSE {})
  BY DEF WarmPackage
<1>2. /\ session.at = "package" /\ status' = session'.entry
      /\ UNCHANGED <<art, index, query, misled>>
  BY DEF WarmPackage, client
<1>3. key[1] = disk[1]
  OBVIOUS
<1>4. PICK k : k = key
  OBVIOUS
<1>5. /\ Fielded(session') /\ session'.at = "wait"
      /\ session'.entry = (IF packaged THEN [hash |-> hash, key |-> k] ELSE NoPackage)
      /\ session'.written = session.written /\ session'.cache = session.cache
  <2> HIDE DEF mir, hash, key
  <2> QED BY <1>1, <1>4 DEF WarmInv, SessionShape, Fielded, Fields
<1>6. tainted \subseteq tainted'
  BY <1>1
<1>7. TrueMir'
  BY <1>5, <1>6 DEF WarmInv, TrueMir, TrueFor
<1>8. TruePackages'
  <2>1. CASE ~packaged
    <3>1. packages' = packages /\ session'.entry = NoPackage
      BY <1>1, <1>5, <2>1
    <3> QED BY <1>2, <1>6, <3>1, AnnouncementsKept DEF WarmInv
  <2>2. CASE packaged
    <3>1. /\ packages' = packages \cup {<<k, m>>}
          /\ \A h \in late : h = m \/ <<1, h>> \in tainted'
          /\ session'.entry = [hash |-> hash, key |-> k]
      BY <1>1, <1>4, <1>5, <2>2
    <3>2. Stored(k) = {} => m = k[1] \/ <<1, k[1]>> \in tainted'
      BY <1>3, <1>4, <3>1
    <3>3. m \in Filed(k, mir)
      BY <1>4
    <3> HIDE DEF mir, hash, key, late
    <3>4. /\ \A p \in packages' : TrueFor(1, p[1][1], p[2])'
          /\ \A p, q \in packages' : p[1] = q[1] => p[2] = q[2]
          /\ \A p \in packages' : p[1] = k => p[2] = m
          /\ Stored(k) # {} => \E p \in packages : p[1] = k /\ p[2] = m
      BY <1>6, <3>1, <3>2, <3>3, Filing DEF WarmInv
    <3>5. hash = m \/ <<1, hash>> \in tainted'
      <4>1. CASE Stored(k) = {}
        BY <1>4, <3>1, <4>1 DEF late
      <4>2. CASE Stored(k) # {} /\ hash # disk[1]
        BY <1>4, <3>1, <4>2 DEF late
      <4>3. CASE Stored(k) # {} /\ hash = disk[1]
        <5>1. PICK p \in packages : p[1] = k /\ p[2] = m
          BY <3>4, <4>3
        <5>2. p[2] = p[1][1] \/ <<1, p[1][1]>> \in tainted
          BY DEF WarmInv, TruePackages, TrueFor
        <5> QED BY <1>3, <1>4, <1>6, <4>3, <5>1, <5>2
      <4> QED BY <4>1, <4>2, <4>3
    <3>6. Announces(session.entry)'
      BY <3>1, <3>4, <3>5 DEF Announces, TrueFor
    <3> QED BY <1>2, <3>4, <3>6 DEF TruePackages, Announces
  <2> QED BY <2>1, <2>2
<1>9. session.written = {}
  BY <1>2 DEF WarmInv, SessionShape
<1> QED BY <1>2, <1>5, <1>6, <1>7, <1>8, <1>9, SessionStep

\* An artifact is overwritten: the hashes it stood for are excepted.
LEMMA ArtifactKeeps == ASSUME WarmInv, NEW f \in Files, WarmArtifact(f) PROVE WarmInv'
<1>1. /\ session.at = "prewarm" /\ session.snap[f] # 0
      /\ art' = [art EXCEPT ![f] = session.cache[f].mir]
      /\ session' = [session EXCEPT !.written = session.written \cup {f}]
      /\ tainted' = tainted \cup ({f} \X (Indexed(f) \ {session.cache[f].mir}))
      /\ UNCHANGED <<index, status, packages, query, misled>>
  BY DEF WarmArtifact, WriteWarmArtifact, client, WarmInv, SessionShape
<1>2. /\ Fielded(session') /\ session'.at = "prewarm" /\ session'.entry = session.entry
      /\ session'.written = session.written \cup {f} /\ session'.cache = session.cache
      /\ session'.snap = session.snap
  BY <1>1 DEF WarmInv, SessionShape, Fielded, Fields
<1>3. /\ art' = [g \in Files |-> art'[g]] /\ art'[f] = session.cache[f].mir
      /\ \A g \in Files : g # f => art'[g] = art[g]
  BY <1>1 DEF WarmInv, DisksShape
<1>4. /\ tainted \subseteq tainted'
      /\ \A h \in Indexed(f) : h = art'[f] \/ <<f, h>> \in tainted'
  BY <1>1, <1>3
<1>5. SessionShape' /\ WarmAnswer' /\ DisksShape'
  BY <1>1, <1>2, <1>3, <1>4 DEF WarmInv, SessionShape, WarmAnswer, DisksShape
<1>6. TrueMir' /\ TruePackages'
  BY <1>1, <1>2, <1>4, AnnouncementsKept DEF WarmInv, TrueMir, TrueFor
<1>7. Prewarming'
  <2>1. \A g \in session.written : g \in Files
    BY DEF WarmInv, SessionShape
  <2>2. /\ \A g \in Files : session.snap[g] # 0 => session.cache[g].hash = session.snap[g]
        /\ \A g \in session.written : art[g] \in {0, session.cache[g].mir}
    BY <1>1 DEF WarmInv, Prewarming
  <2>3. \A g \in session.written \cup {f} : art'[g] \in {0, session.cache[g].mir}
    BY <1>3, <2>1, <2>2
  <2> QED BY <1>2, <2>2, <2>3 DEF Prewarming
<1>8. TrueIndex'
  <2>1. index[f] = 0 \/ index[f] \in Indexed(f)
    BY DEF Indexed
  <2> QED BY <1>1, <1>3, <1>4, <2>1 DEF WarmInv, TrueIndex, TrueFor
<1>9. TrueQuery'
  <2>1. query.at = "artifact" /\ query.file = f => query.hash \in Indexed(f)
    BY DEF Indexed, WarmInv, TrueQuery
  <2> QED BY <1>1, <1>3, <1>4, <2>1 DEF WarmInv, TrueQuery, TrueFor
<1> QED BY <1>5, <1>6, <1>7, <1>8, <1>9 DEF WarmInv

\* The index is written once every artifact is.
LEMMA IndexKeeps == ASSUME WarmInv, WarmIndex PROVE WarmInv'
<1>1. /\ session.at = "prewarm"
      /\ \A f \in Files : f \in session.written \/ session.snap[f] = 0
      /\ index' = [f \in Files |-> session.snap[f]]
      /\ art' = [f \in Files |-> IF session.snap[f] = 0 THEN 0 ELSE art[f]]
      /\ session' = [session EXCEPT !.at = "source", !.written = {}]
      /\ UNCHANGED <<status, packages, query, misled, tainted>>
  BY DEF WarmIndex, AllWritten, client
<1>2. /\ Fielded(session') /\ session'.at = "source" /\ session'.entry = session.entry
      /\ session'.written = {} /\ session'.cache = session.cache
  BY <1>1 DEF WarmInv, SessionShape, Fielded, Fields
<1>3. SessionShape' /\ WarmAnswer' /\ DisksShape' /\ Prewarming'
  BY <1>1, <1>2 DEF WarmInv, SessionShape, WarmAnswer, DisksShape, Prewarming
<1>4. TrueMir' /\ TruePackages'
  BY <1>1, <1>2, AnnouncementsKept DEF WarmInv, TrueMir, TrueFor
<1>5. TrueIndex'
  <2> SUFFICES ASSUME NEW f \in Files
               PROVE  \/ 0 \in {index'[f], art'[f]} \/ art'[f] = index'[f]
                      \/ <<f, index'[f]>> \in tainted
    BY <1>1 DEF TrueIndex, TrueFor
  <2>1. CASE session.snap[f] = 0
    BY <1>1, <2>1
  <2>2. CASE session.snap[f] # 0
    <3>1. f \in session.written /\ index'[f] = session.snap[f] /\ art'[f] = art[f]
      BY <1>1, <2>2
    <3>2. art[f] \in {0, session.cache[f].mir} /\ session.cache[f].hash = session.snap[f]
      BY <1>1, <2>2, <3>1 DEF WarmInv, Prewarming
    <3>3. session.cache[f].mir = session.cache[f].hash \/ <<f, session.cache[f].hash>> \in tainted
      BY DEF WarmInv, TrueMir, TrueFor
    <3> QED BY <3>1, <3>2, <3>3
  <2> QED BY <2>1, <2>2
<1>6. TrueQuery'
  <2>1. \A f \in Files : art'[f] = art[f] \/ art'[f] = 0
    BY <1>1
  <2> QED BY <1>1, <2>1 DEF WarmInv, TrueQuery, TrueFor
<1> QED BY <1>3, <1>4, <1>5, <1>6 DEF WarmInv

\* The index or artifacts go, by a kill in the middle of a write or by the clear command.
LEMMA RemovalKeeps ==
  ASSUME WarmInv, UNCHANGED <<misled, tainted>>,
         \/ art' = art /\ index' = index
         \/ index' = [f \in Files |-> 0] /\ art' = art
         \/ (\E f \in Files : art' = [art EXCEPT ![f] = 0]) /\ index' = index
  PROVE  /\ WarmAnswer' /\ DisksShape' /\ TrueIndex'
         /\ \A f \in Files : art'[f] = art[f] \/ art'[f] = 0
<1>1. art = [f \in Files |-> art[f]] /\ index = [f \in Files |-> index[f]]
  BY DEF WarmInv, DisksShape
<1>2. /\ art' = [f \in Files |-> art'[f]] /\ index' = [f \in Files |-> index'[f]]
      /\ \A f \in Files : art'[f] = art[f] \/ art'[f] = 0
      /\ \A f \in Files : index'[f] = index[f] \/ index'[f] = 0
  <2>1. CASE art' = art /\ index' = index
    BY <1>1, <2>1
  <2>2. CASE index' = [f \in Files |-> 0] /\ art' = art
    BY <1>1, <2>2
  <2>3. CASE (\E f \in Files : art' = [art EXCEPT ![f] = 0]) /\ index' = index
    BY <1>1, <2>3
  <2> QED BY <2>1, <2>2, <2>3
<1>3. WarmAnswer' /\ DisksShape'
  BY <1>2 DEF WarmInv, WarmAnswer, DisksShape
<1>4. TrueIndex'
  BY <1>2 DEF WarmInv, TrueIndex, TrueFor
<1> QED BY <1>2, <1>3, <1>4

\* A kill leaves at most one file unreadable.
LEMMA KillKeeps == ASSUME WarmInv, WarmKill PROVE WarmInv'
<1>1. /\ session' = NoDaemonProcess
      /\ \/ art' = art /\ index' = index
         \/ index' = [f \in Files |-> 0] /\ art' = art
         \/ (\E f \in Files : art' = [art EXCEPT ![f] = 0]) /\ index' = index
      /\ UNCHANGED <<status, packages, query, misled, tainted>>
  BY DEF WarmKill, client
<1>2. /\ Fielded(session') /\ session'.at = "down" /\ session'.entry = NoPackage
      /\ session'.written = {} /\ \A f \in Files : session'.cache[f] = Nothing
  BY <1>1, FreshSession
<1>3. /\ WarmAnswer' /\ DisksShape' /\ TrueIndex'
      /\ \A f \in Files : art'[f] = art[f] \/ art'[f] = 0
  BY <1>1, RemovalKeeps
<1>4. SessionShape' /\ Prewarming'
  BY <1>2 DEF SessionShape, Prewarming
<1>5. TrueMir' /\ TruePackages'
  BY <1>1, <1>2, AnnouncementsKept DEF WarmInv, TrueMir, TrueFor, Nothing
<1>6. TrueQuery'
  BY <1>1, <1>3 DEF WarmInv, TrueQuery, TrueFor
<1> QED BY <1>3, <1>4, <1>5, <1>6 DEF WarmInv

\* The clear command only takes away.
LEMMA ClearKeeps ==
  ASSUME WarmInv, WarmClear \/ ClearIndex \/ ClearArtifacts
  PROVE  WarmInv'
<1>1. /\ UNCHANGED <<session, packages, misled, tainted>>
      /\ status' \in {status, NoPackage}
      /\ \/ art' = art /\ index' = index
         \/ index' = [f \in Files |-> 0] /\ art' = art
         \/ (\E f \in Files : art' = [art EXCEPT ![f] = 0]) /\ index' = index
  BY DEF WarmClear, ClearIndex, ClearArtifacts, excuses
<1>2. /\ WarmAnswer' /\ DisksShape' /\ TrueIndex'
      /\ \A f \in Files : art'[f] = art[f] \/ art'[f] = 0
  BY <1>1, RemovalKeeps
<1>3. SessionShape' /\ TrueMir' /\ TruePackages'
  BY <1>1, AnnouncementsKept DEF WarmInv, SessionShape, TrueMir, TrueFor
<1>4. Prewarming'
  BY <1>1, <1>2 DEF WarmInv, SessionShape, Prewarming
<1>5. TrueQuery'
  <2>1. 1 \in Files
    BY WarmBounds DEF Files
  <2>2. /\ NoQuery = [at |-> "idle", file |-> 1, hash |-> 0, mir |-> 0, manifest |-> <<>>]
        /\ [NoQuery EXCEPT !.at = "clear"]
             = [at |-> "clear", file |-> 1, hash |-> 0, mir |-> 0, manifest |-> <<>>]
    BY DEF NoQuery
  <2>3. CASE WarmClear
    BY <2>1, <2>2, <2>3 DEF WarmClear, TrueQuery
  <2>4. CASE ClearIndex
    <3>1. query' = [query EXCEPT !.at = "cleared"]
      BY <2>4 DEF ClearIndex
    <3> QED BY <3>1 DEF WarmInv, TrueQuery
  <2>5. CASE ClearArtifacts
    <3>1. (query' = query /\ query.at = "cleared") \/ query' = NoQuery
      BY <2>5 DEF ClearArtifacts
    <3> QED BY <2>1, <2>2, <3>1 DEF WarmInv, TrueQuery
  <2> QED BY <2>3, <2>4, <2>5
<1> QED BY <1>2, <1>3, <1>4, <1>5 DEF WarmInv

\* Edits touch nothing of this, and evictions only take packages away.
LEMMA OutsideKeeps ==
  ASSUME WarmInv, UNCHANGED <<session, art, index, status, query, misled, tainted>>,
         packages' \subseteq packages
  PROVE  WarmInv'
<1>1. TruePackages'
  BY AnnouncementsKept DEF WarmInv
<1> QED BY <1>1 DEF WarmInv, WarmAnswer, SessionShape, TrueMir, TrueFor, Prewarming, TrueIndex,
                    TrueQuery, DisksShape

\* Where a process beside the daemon changes only itself, it is all that matters.
LEMMA QueryKeeps ==
  ASSUME WarmInv, UNCHANGED <<session, art, index, status, packages, tainted>>,
         WarmAnswer', TrueQuery'
  PROVE  WarmInv'
BY DEF WarmInv, SessionShape, TrueMir, TruePackages, Announces, TrueFor, Prewarming, TrueIndex,
       DisksShape

\* A process that is through.
LEMMA Idle == query' = NoQuery => TrueQuery'
<1>1. 1 \in Files
  BY WarmBounds DEF Files
<1> QED BY <1>1 DEF TrueQuery, NoQuery

\* An answer is true or the content is excepted.
LEMMA AnswerKeeps ==
  ASSUME WarmInv, NEW m, Answered(m), m = 0 \/ TrueFor(query.file, query.hash, m)
  PROVE  WarmInv'
<1>1. /\ query' = NoQuery
      /\ misled' = misled \cup ({query.file} \X {h \in {query.hash} : m \notin {0, h}})
      /\ UNCHANGED <<session, art, index, status, packages, tainted>>
  BY DEF Answered, mirror, excuses
<1>2. WarmAnswer'
  BY <1>1 DEF WarmInv, WarmAnswer, TrueFor
<1> QED BY <1>1, <1>2, Idle, QueryKeeps

\* Whoever asks gets the MIR of the content it has.
LEMMA AskKeeps ==
  ASSUME WarmInv, \/ \E f \in Asked : AskWarm(f)
                  \/ AnswerIpc \/ NoDaemon \/ ReadIndex \/ ReadArtifact
  PROVE  WarmInv'
<1>0. PICK g \in Files : g = query.file
  BY DEF WarmInv, TrueQuery
<1>1. ASSUME NEW f \in Asked, AskWarm(f) PROVE WarmInv'
  <2>1. /\ query' = [NoQuery EXCEPT !.at = "ask", !.file = f, !.hash = disk[f]] /\ disk[f] # 0
        /\ UNCHANGED <<session, art, index, status, packages, misled, tainted>>
    BY <1>1 DEF AskWarm, mirror, excuses
  <2>2. query' = [at |-> "ask", file |-> f, hash |-> disk[f], mir |-> 0, manifest |-> <<>>]
    BY <2>1 DEF NoQuery
  <2>3. f \in Files
    BY WarmBounds DEF Files
  <2>4. TrueQuery' /\ WarmAnswer'
    BY <2>1, <2>2, <2>3 DEF TrueQuery, WarmInv, WarmAnswer
  <2> QED BY <2>1, <2>4, QueryKeeps
<1>2. CASE AnswerIpc
  <2>1. PICK m : /\ Answered(m)
                 /\ m = (IF session.cache[g].hash = query.hash THEN session.cache[g].mir ELSE 0)
    BY <1>0, <1>2 DEF AnswerIpc
  <2>2. m = 0 \/ TrueFor(g, query.hash, m)
    BY <2>1 DEF WarmInv, TrueMir
  <2> QED BY <1>0, <2>1, <2>2, AnswerKeeps
<1>3. CASE NoDaemon
  <2>1. /\ query' = [query EXCEPT !.at = "index"] /\ query.at = "ask"
        /\ UNCHANGED <<session, art, index, status, packages, misled, tainted>>
    BY <1>3 DEF NoDaemon, mirror, excuses
  <2>2. TrueQuery' /\ WarmAnswer'
    BY <2>1 DEF WarmInv, TrueQuery, TrueFor, WarmAnswer
  <2> QED BY <2>1, <2>2, QueryKeeps
<1>4. CASE ReadIndex
  <2>1. CASE index[g] = query.hash
    <3>1. /\ query' = [query EXCEPT !.at = "artifact"] /\ query.at = "index"
          /\ UNCHANGED <<session, art, index, status, packages, misled, tainted>>
      BY <1>0, <1>4, <2>1 DEF ReadIndex, mirror, excuses
    <3>2. query.hash # 0
      BY <3>1 DEF WarmInv, TrueQuery
    <3>3. art[g] = 0 \/ TrueFor(g, query.hash, art[g])
      BY <2>1, <3>2 DEF WarmInv, TrueIndex
    <3>4. TrueQuery' /\ WarmAnswer'
      BY <1>0, <3>1, <3>3 DEF WarmInv, TrueQuery, TrueFor, WarmAnswer
    <3> QED BY <3>1, <3>4, QueryKeeps
  <2>2. CASE index[g] # query.hash
    BY <1>0, <1>4, <2>2, AnswerKeeps DEF ReadIndex
  <2> QED BY <2>1, <2>2
<1>5. CASE ReadArtifact
  <2>1. Answered(art[g]) /\ query.at = "artifact"
    BY <1>0, <1>5 DEF ReadArtifact
  <2>2. art[g] = 0 \/ TrueFor(g, query.hash, art[g])
    BY <1>0, <2>1 DEF WarmInv, TrueQuery
  <2> QED BY <1>0, <2>1, <2>2, AnswerKeeps
<1> QED BY <1>1, <1>2, <1>3, <1>4, <1>5

\* The package that is announced for what the entry has now is of that content.
LEMMA PrewarmedTrue ==
  ASSUME WarmInv, NEW m \in Prewarmed
  PROVE  TrueFor(1, disk[1], m)
<1>1. status # NoPackage /\ status.hash = disk[1] /\ m \in Stored(status.key)
  BY DEF Prewarmed
<1>2. \E p \in packages : p[1] = status.key /\ p[2] = m
  BY <1>1 DEF Stored
<1> QED BY <1>1, <1>2 DEF WarmInv, TruePackages, Announces

\* It is run, or the package command begins.
LEMMA PackBeginKeeps == ASSUME WarmInv, UsePrewarmed \/ PackBegin PROVE WarmInv'
<1>1. CASE UsePrewarmed
  <2>1. PICK m \in Prewarmed : misled' = misled \cup ({1} \X ({disk[1]} \ {m}))
    BY <1>1 DEF UsePrewarmed
  <2>2. UNCHANGED <<session, art, index, status, packages, query, tainted>>
    BY <1>1 DEF UsePrewarmed, mirror, excuses
  <2>3. WarmAnswer'
    BY <2>1, <2>2, PrewarmedTrue DEF WarmInv, WarmAnswer, TrueFor
  <2>4. TrueQuery'
    BY <2>2 DEF WarmInv, TrueQuery, TrueFor
  <2> QED BY <2>2, <2>3, <2>4, QueryKeeps
<1>2. CASE PackBegin
  <2>1. PICK m, list :
          /\ query' = [at |-> "pack", file |-> 1, hash |-> disk[1], mir |-> m, manifest |-> list]
          /\ TrueFor(1, disk[1], m)
    <3>1. CASE \E m \in Prewarmed :
                 query' = [at |-> "pack", file |-> 1, hash |-> disk[1], mir |-> m,
                           manifest |-> status.key[2]]
      BY <3>1, PrewarmedTrue
    <3>2. CASE query' = [at |-> "pack", file |-> 1, hash |-> disk[1], mir |-> disk[1],
                         manifest |-> Manifest(disk[1], disk[1])]
      BY <3>2 DEF TrueFor
    <3> QED BY <1>2, <3>1, <3>2 DEF PackBegin
  <2>2. UNCHANGED <<session, art, index, status, packages, misled, tainted>>
    BY <1>2 DEF PackBegin, mirror, excuses
  <2>3. 1 \in Files
    BY WarmBounds DEF Files
  <2>4. TrueQuery' /\ WarmAnswer'
    BY <2>1, <2>2, <2>3 DEF WarmInv, TrueQuery, TrueFor, WarmAnswer
  <2> QED BY <2>2, <2>4, QueryKeeps
<1> QED BY <1>1, <1>2

\* The package command files what it has, or finds an earlier package.
LEMMA PackFileKeeps == ASSUME WarmInv, PackFile PROVE WarmInv'
<1> DEFINE key == <<disk[1], query.manifest>>
           new == Stored(key) = {}
           announced == {e.hash : e \in {x \in {session.entry, status} : x.key = key}}
<1>1. PICK m \in Filed(key, query.mir) :
        /\ packages' = packages \cup {<<key, m>>}
        /\ tainted' = tainted \cup (IF new THEN {1} \X (({disk[1]} \cup announced) \ {m}) ELSE {})
        /\ misled' = misled \cup ({1} \X {h \in {IF new THEN query.hash ELSE disk[1]} :
                                            m \notin {query.hash, disk[1]}})
  BY DEF PackFile
<1>2. /\ query.at = "pack" /\ query' = NoQuery
      /\ UNCHANGED <<session, art, index, status>>
  BY DEF PackFile
<1>3. PICK k : k = key /\ k[1] = disk[1]
  OBVIOUS
<1>4. /\ tainted \subseteq tainted'
      /\ Stored(k) = {} => \A h \in {disk[1]} \cup announced : h = m \/ <<1, h>> \in tainted'
  BY <1>1, <1>3
<1>5. \A e \in {session.entry, status} : e.key = k => e.hash \in announced
  BY <1>3
<1>6. /\ packages' = packages \cup {<<k, m>>} /\ m \in Filed(k, query.mir)
      /\ \A x \in misled' \ misled :
           /\ x = <<1, IF Stored(k) = {} THEN query.hash ELSE disk[1]>>
           /\ m \notin {query.hash, disk[1]}
  BY <1>1, <1>3
<1> HIDE DEF key, new, announced
<1>7. /\ \A p \in packages' : TrueFor(1, p[1][1], p[2])'
      /\ \A p, q \in packages' : p[1] = q[1] => p[2] = q[2]
      /\ \A p \in packages' : p[1] = k => p[2] = m
      /\ Stored(k) # {} => \E p \in packages : p[1] = k /\ p[2] = m
  <2>1. Stored(k) = {} => m = k[1] \/ <<1, k[1]>> \in tainted'
    BY <1>3, <1>4
  <2>2. TruePackages
    BY DEF WarmInv
  <2>3. PICK mir : m \in Filed(k, mir)
    BY <1>6
  <2>4. packages' = packages \cup {<<k, m>>} /\ tainted \subseteq tainted'
    BY <1>4, <1>6
  <2> QED BY <2>1, <2>2, <2>3, <2>4, Filing
<1>8. \A e \in {session.entry, status} : Announces(e)'
  <2> SUFFICES ASSUME NEW e \in {session.entry, status}, e # NoPackage,
                      NEW p \in packages', p[1] = e.key
               PROVE  p[2] = e.hash \/ <<1, e.hash>> \in tainted'
    BY <1>2 DEF Announces, TrueFor
  <2>1. Announces(e)
    BY DEF WarmInv, TruePackages
  <2>2. CASE e.key # k
    <3>1. p \in packages
      BY <1>6, <2>2
    <3> QED BY <1>4, <2>1, <3>1 DEF Announces, TrueFor
  <2>3. CASE e.key = k /\ Stored(k) = {}
    BY <1>4, <1>5, <1>7, <2>3
  <2>4. CASE e.key = k /\ Stored(k) # {}
    <3>1. PICK q \in packages : q[1] = k /\ q[2] = m
      BY <1>7, <2>4
    <3>2. p[2] = m
      BY <1>7, <2>4
    <3> QED BY <1>4, <2>1, <2>4, <3>1, <3>2 DEF Announces, TrueFor
  <2> QED BY <2>2, <2>3, <2>4
<1>9. TruePackages'
  BY <1>2, <1>7, <1>8 DEF TruePackages, Announces
<1>10. WarmAnswer'
  <2> SUFFICES ASSUME NEW x \in misled' \ misled PROVE x \in tainted'
    BY <1>4 DEF WarmInv, WarmAnswer
  <2>1. CASE Stored(k) = {}
    <3>1. m = query.mir
      BY <1>6, <2>1 DEF Filed
    <3>2. query.mir = query.hash \/ <<1, query.hash>> \in tainted
      BY <1>2 DEF WarmInv, TrueQuery, TrueFor
    <3> QED BY <1>4, <1>6, <2>1, <3>1, <3>2
  <2>2. CASE Stored(k) # {}
    <3>1. PICK q \in packages : q[1] = k /\ q[2] = m
      BY <1>7, <2>2
    <3>2. q[2] = q[1][1] \/ <<1, q[1][1]>> \in tainted
      BY DEF WarmInv, TruePackages, TrueFor
    <3> QED BY <1>3, <1>4, <1>6, <2>2, <3>1, <3>2
  <2> QED BY <2>1, <2>2
<1>11. SessionShape' /\ TrueMir' /\ Prewarming' /\ TrueIndex' /\ DisksShape'
  BY <1>2, <1>4 DEF WarmInv, SessionShape, TrueMir, Prewarming, TrueIndex, DisksShape, TrueFor
<1> QED BY <1>2, <1>9, <1>10, <1>11, Idle DEF WarmInv

\* The invariant is kept by every step.
LEMMA WarmPreserved == ASSUME WarmInv, WarmNext PROVE WarmInv'
<1>1. CASE WarmStep
  BY <1>1, BootKeeps, SnapshotKeeps, MergeKeeps, IndexKeeps, PackageKeeps, ReadKeeps,
     ArtifactKeeps DEF WarmStep
<1>2. CASE WarmKill
  BY <1>2, KillKeeps
<1>3. CASE WarmEvict \/ \E p \in Paths, c \in Contents : WarmEdit(p, c)
  <2>1. /\ UNCHANGED <<session, art, index, status, query, misled, tainted>>
        /\ packages' \subseteq packages
    BY <1>3 DEF WarmEvict, WarmEdit, mirror, client, excuses
  <2> QED BY <2>1, OutsideKeeps
<1>4. CASE \/ \E f \in Asked : AskWarm(f)
           \/ AnswerIpc \/ NoDaemon \/ ReadIndex \/ ReadArtifact
  BY <1>4, AskKeeps
<1>5. CASE UsePrewarmed \/ PackBegin \/ PackFile
  BY <1>5, PackBeginKeeps, PackFileKeeps
<1>6. CASE WarmClear \/ ClearIndex \/ ClearArtifacts
  BY <1>6, ClearKeeps
<1> QED BY <1>1, <1>2, <1>3, <1>4, <1>5, <1>6 DEF WarmNext

\* No daemon runs and nobody has asked.
LEMMA WarmStarts == ASSUME WarmInit PROVE WarmInv
<1>1. /\ session = NoDaemonProcess /\ status = NoPackage /\ packages = {}
      /\ art = [f \in Files |-> 0] /\ index = [f \in Files |-> 0]
      /\ query = NoQuery /\ misled = {}
  BY DEF WarmInit
<1>2. 1 \in Files
  BY WarmBounds DEF Files
<1>3. SessionShape /\ TrueMir /\ Prewarming
  BY <1>1, FreshSession DEF SessionShape, TrueMir, TrueFor, Prewarming, Nothing
<1>4. WarmAnswer /\ TrueIndex /\ DisksShape /\ TruePackages
  BY <1>1, FreshSession DEF WarmAnswer, TrueIndex, DisksShape, TruePackages, Announces
<1>5. TrueQuery
  BY <1>1, <1>2 DEF TrueQuery, NoQuery
<1> QED BY <1>3, <1>4, <1>5 DEF WarmInv

-----------------------------------------------------------------------------
\* Both.

\* Both start empty.
LEMMA InitInv == Init => IInv
BY WarmStarts, CacheStarts DEF Init, IInv

\* Each part keeps its invariant while it runs and while another does.
LEMMA NextInv == ASSUME IInv, [Next]_vars PROVE IInv'
<1>1. ASSUME UNCHANGED wvars PROVE WarmInv'
  BY <1>1, OutsideKeeps DEF IInv, wvars, mirror, client, excuses
<1>2. ASSUME UNCHANGED cvars PROVE CacheInv'
  BY <1>2 DEF IInv, cvars, store, CacheInv, CacheShape, TornAlone
<1>3. CASE OnlyWarm /\ WarmNext
  BY <1>2, <1>3, WarmPreserved DEF IInv, OnlyWarm
<1>4. CASE OnlyCache /\ CacheNext
  BY <1>1, <1>4, CachePreserved DEF IInv, OnlyCache
<1>5. CASE OnlyDaemon \/ OnlyRegistry \/ UNCHANGED vars
  BY <1>1, <1>2, <1>5 DEF IInv, OnlyDaemon, OnlyRegistry, vars
<1> QED BY <1>3, <1>4, <1>5 DEF Next

\* The inductive invariant holds in every reachable state.
THEOREM Invariance == Spec => []IInv
BY InitInv, NextInv, PTL DEF Spec

\* daemon.rs: whoever takes warm state for the content it has gets the MIR of that
\* content, across edits at any moment, failed cycles, clears, evictions, kills and
\* restarts; the exceptions are the pairs of a file and a content under which the MIR of
\* another content was filed: by a parse of a file saved since its fingerprint, by an
\* artifact overwritten under the old index, or by a package whose entry was saved between
\* the parse and the key.
THEOREM AnswersAreWarm == Spec => []WarmAnswer
<1>1. IInv => WarmAnswer
  BY DEF IInv, WarmInv
<1> QED BY <1>1, Invariance, PTL

\* cache.rs: across kills and evictions at any moment no lookup finds metadata beside a
\* torn artifact and none hands one out, except for keys stored over their entry or while
\* another process was busy with them.
THEOREM EntriesAreWhole == Spec => []CacheWhole
<1>1. IInv => CacheWhole
  BY DEF IInv, CacheInv, TornAlone, CacheWhole
<1> QED BY <1>1, Invariance, PTL

-----------------------------------------------------------------------------
\* The daemon's life and the registry index in the composition.

\* The toolchain runs the build daemon and the registry index as they run alone: each of
\* its steps is one of theirs or leaves them as they are.
THEOREM RunsItsParts == Spec => DaemonSpec /\ RegistrySpec
<1>1. Init => DaemonInit /\ RegistryInit
  BY DEF Init
<1>2. ASSUME [Next]_vars PROVE [DaemonNext]_dvars
  <2>1. CASE OnlyDaemon /\ DaemonNext
    BY <2>1
  <2>2. CASE OnlyWarm \/ OnlyCache \/ OnlyRegistry \/ UNCHANGED vars
    BY <2>2 DEF OnlyWarm, OnlyCache, OnlyRegistry, vars
  <2> QED BY <1>2, <2>1, <2>2 DEF Next
<1>3. ASSUME [Next]_vars PROVE [RegistryNext]_rvars
  <2>1. CASE OnlyRegistry /\ RegistryNext
    BY <2>1
  <2>2. CASE OnlyWarm \/ OnlyCache \/ OnlyDaemon \/ UNCHANGED vars
    BY <2>2 DEF OnlyWarm, OnlyCache, OnlyDaemon, vars
  <2> QED BY <1>3, <2>1, <2>2 DEF Next
<1> QED BY <1>1, <1>2, <1>3, PTL DEF Spec, DaemonSpec, RegistrySpec
=============================================================================
