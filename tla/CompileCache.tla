---------------------------- MODULE CompileCache ----------------------------
(***************************************************************************)
(* The compile cache of a repository (agam_runtime cache.rs) as its users   *)
(* in the driver run it: processes that share one directory without a lock. *)
(* An entry is a directory with an artifact and metadata; each file is      *)
(* truncated before it is written, so that a reader, or a process killed    *)
(* in between, can leave or find a torn file.  The least recently used      *)
(* entries are evicted after a store, file by file.  The sizes of entries   *)
(* are left out: at any store the byte limit may ask for any eviction.      *)
(***************************************************************************)
EXTENDS Naturals, Sequences, FiniteSets, SequencesExt

CONSTANTS
  Builders,    \* processes
  Keys,        \* cache keys: the content that is built
  MaxEntries,  \* MAX_CACHE_ENTRIES
  MaxUses      \* bound: uses of the cache and kills altogether

ASSUME CacheBounds == MaxEntries \in Nat /\ MaxUses \in Nat

VARIABLES
  dirs,       \* the entry directories that exist
  artifact,   \* artifact[k]: "none", "torn" or "whole"
  meta,       \* meta[k]: the same for the metadata
  lru,        \* the entries with metadata, by last_used
  builder,    \* builder[p]: where p is, with which key, for what, and its evictions
  uses,
  tornOut,    \* history: keys whose artifact was handed out torn
  contended   \* history: keys whose artifact was rewritten in the presence of others

store == <<dirs, artifact, meta, lru>>
cvars == <<store, builder, uses, tornOut, contended>>

\* What a process uses the cache for: build_prelowered_file,
\* write_portable_package_with_cache, load_ and store_persisted_call_profile.
Modes == {"build", "package", "load", "profile"}

Away == [at |-> "idle", key |-> CHOOSE k \in Keys : TRUE, mode |-> "build",
         victims |-> <<>>,   \* the keys to evict
         listed |-> {}]      \* what remove_dir_all found in the directory of the first

CacheInit ==
  /\ dirs = {} /\ lru = <<>>
  /\ artifact = [k \in Keys |-> "none"] /\ meta = [k \in Keys |-> "none"]
  /\ builder = [p \in Builders |-> Away]
  /\ uses = 0
  /\ tornOut = {} /\ contended = {}

At(p, l) == builder[p].at = l
Key(p) == builder[p].key
BuilderGoes(p, l) ==
  builder' = [builder EXCEPT ![p] = IF l = "idle" THEN Away ELSE [@ EXCEPT !.at = l]]

\* Only a load does without what it misses; a build goes on after an error.
OnMiss(p) == IF builder[p].mode = "load" THEN "idle" ELSE "dir"
OnError(p) == IF builder[p].mode = "build" THEN "dir" ELSE "idle"

CacheUse(p, k, mode) ==
  /\ At(p, "idle") /\ uses < MaxUses
  /\ uses' = uses + 1
  /\ builder' = [builder EXCEPT ![p] = [Away EXCEPT
       !.at = IF mode = "profile" THEN "dir" ELSE "lookup", !.key = k, !.mode = mode]]
  /\ UNCHANGED <<store, tornOut, contended>>

-----------------------------------------------------------------------------
\* lookup: torn metadata is an error, missing metadata or artifact a miss.
Lookup(p) ==
  /\ At(p, "lookup")
  /\ BuilderGoes(p, IF meta[Key(p)] = "torn" THEN OnError(p)
                    ELSE IF "none" \in {meta[Key(p)], artifact[Key(p)]} THEN OnMiss(p)
                    ELSE "touch")
  /\ UNCHANGED <<store, uses, tornOut, contended>>

\* write_entry, also that of a store: truncate, then write.  It fails when the entry
\* was evicted meanwhile; what is written to an evicted file is gone.
OpenMetadata(p, next, failed) ==
  /\ IF Key(p) \in dirs
     THEN meta' = [meta EXCEPT ![Key(p)] = "torn"] /\ BuilderGoes(p, next)
     ELSE BuilderGoes(p, failed) /\ UNCHANGED meta
  /\ UNCHANGED <<dirs, artifact, lru, uses, tornOut, contended>>

WriteMetadata(p, next) ==
  /\ IF meta[Key(p)] = "none" THEN UNCHANGED <<meta, lru>>
     ELSE /\ meta' = [meta EXCEPT ![Key(p)] = "whole"]
          /\ lru' = Append(Remove(lru, Key(p)), Key(p))
  /\ BuilderGoes(p, next)
  /\ UNCHANGED <<dirs, artifact, uses, tornOut, contended>>

\* The hit is recorded in the metadata,
Touch(p) == At(p, "touch") /\ OpenMetadata(p, "touched", OnError(p))
Touched(p) == At(p, "touched") /\ WriteMetadata(p, "restore")

\* and the artifact is read: restore_to_path copies what is there, a profile that does
\* not parse is ignored.  An entry evicted since the lookup is an error.
Restore(p) ==
  /\ At(p, "restore")
  /\ tornOut' = tornOut \cup {k \in {Key(p)} : artifact[k] = "torn" /\ builder[p].mode # "load"}
  /\ BuilderGoes(p, "idle")
  /\ UNCHANGED <<store, uses, contended>>

-----------------------------------------------------------------------------
\* store_bytes and store_file: the directory,
CreateDir(p) ==
  /\ At(p, "dir")
  /\ dirs' = dirs \cup {Key(p)}
  /\ BuilderGoes(p, "open")
  /\ UNCHANGED <<artifact, meta, lru, uses, tornOut, contended>>

\* Somebody else is between a lookup or a store of k and its end, or k has an entry.
Shared(p, k) ==
  \/ meta[k] = "whole"
  \/ \E q \in Builders \ {p} : ~At(q, "idle") /\ Key(q) = k

OpensArtifact(p, metadata) ==
  /\ At(p, "open")
  /\ IF Key(p) \in dirs
     THEN /\ artifact' = [artifact EXCEPT ![Key(p)] = "torn"]
          /\ contended' = contended \cup {k \in {Key(p)} : Shared(p, k)}
          /\ meta' = [meta EXCEPT ![Key(p)] = metadata]
          /\ BuilderGoes(p, "write")
     ELSE BuilderGoes(p, "idle") /\ UNCHANGED <<artifact, meta, contended>>
  /\ UNCHANGED <<dirs, lru, uses, tornOut>>

\* Mutation of OpenArtifact: the metadata is written before the artifact.
OpenArtifactLast(p) == OpensArtifact(p, "whole")

\* the artifact, truncated, then written,
OpenArtifact(p) == OpensArtifact(p, meta[Key(p)])

WriteArtifact(p) ==
  /\ At(p, "write")
  /\ artifact' = [artifact EXCEPT ![Key(p)] = IF @ = "none" THEN @ ELSE "whole"]
  /\ BuilderGoes(p, "describe")
  /\ UNCHANGED <<dirs, meta, lru, uses, tornOut, contended>>

\* the metadata,
Describe(p) == At(p, "describe") /\ OpenMetadata(p, "described", "idle")
Described(p) == At(p, "described") /\ WriteMetadata(p, "limit")

AfterStore(p) == IF builder[p].mode = "package" THEN "restore" ELSE "idle"

\* and enforce_limits: all metadata is read, and one torn file fails the store.  The oldest
\* entries above MAX_CACHE_ENTRIES go, and as many more as MAX_CACHE_BYTES asks for, the
\* entry just stored not excepted.
EnforceLimits(p) ==
  /\ At(p, "limit")
  /\ IF \E k \in Keys : meta[k] = "torn" THEN BuilderGoes(p, "idle")
     ELSE \E n \in 0 .. Len(lru) :
            /\ Len(lru) <= MaxEntries + n
            /\ IF n = 0 THEN BuilderGoes(p, AfterStore(p))
               ELSE builder' = [builder EXCEPT ![p] =
                      [@ EXCEPT !.at = "evict", !.victims = SubSeq(lru, 1, n)]]
  /\ UNCHANGED <<store, uses, tornOut, contended>>

Victim(p) == Head(builder[p].victims)

NextVictim(p) ==
  IF Len(builder[p].victims) = 1 THEN BuilderGoes(p, AfterStore(p))
  ELSE builder' = [builder EXCEPT ![p] =
         [@ EXCEPT !.at = "evict", !.victims = Tail(builder[p].victims)]]

\* remove_dir_all, whoever uses the entry now: the directory is listed, if it is there,
Evict(p) ==
  /\ At(p, "evict")
  /\ IF Victim(p) \notin dirs THEN NextVictim(p)
     ELSE builder' = [builder EXCEPT ![p] = [@ EXCEPT !.at = "unlink", !.listed =
            {f \in {"artifact", "metadata"} :
               "none" # IF f = "artifact" THEN artifact[Victim(p)] ELSE meta[Victim(p)]}]]
  /\ UNCHANGED <<store, uses, tornOut, contended>>

\* its files go in any order,
EvictFile(p, file) ==
  LET k == Victim(p) IN
  /\ At(p, "unlink") /\ file \in builder[p].listed
  /\ IF file = "artifact"
     THEN artifact' = [artifact EXCEPT ![k] = "none"] /\ UNCHANGED <<meta, lru>>
     ELSE /\ meta' = [meta EXCEPT ![k] = "none"] /\ lru' = Remove(lru, k)
          /\ UNCHANGED artifact
  /\ builder' = [builder EXCEPT ![p] =
                   [@ EXCEPT !.at = "unlink", !.listed = builder[p].listed \ {file}]]
  /\ UNCHANGED <<dirs, uses, tornOut, contended>>

\* and then it goes itself, unless somebody has put a file there: that fails the store.
EvictDir(p) ==
  LET k == Victim(p) IN
  /\ At(p, "unlink") /\ builder[p].listed = {}
  /\ IF k \in dirs /\ artifact[k] = "none" /\ meta[k] = "none"
     THEN dirs' = dirs \ {k} /\ NextVictim(p)
     ELSE BuilderGoes(p, "idle") /\ UNCHANGED dirs
  /\ UNCHANGED <<artifact, meta, lru, uses, tornOut, contended>>

\* A process is killed.
KillBuilder(p) ==
  /\ ~At(p, "idle") /\ uses < MaxUses
  /\ uses' = uses + 1
  /\ BuilderGoes(p, "idle")
  /\ UNCHANGED <<store, tornOut, contended>>

CacheNext == \E p \in Builders :
  \/ \E k \in Keys, mode \in Modes : CacheUse(p, k, mode)
  \/ Lookup(p) \/ Touch(p) \/ Touched(p) \/ Restore(p)
  \/ CreateDir(p) \/ OpenArtifact(p) \/ WriteArtifact(p) \/ Describe(p) \/ Described(p)
  \/ EnforceLimits(p) \/ Evict(p) \/ EvictDir(p) \/ KillBuilder(p)
  \/ \E file \in {"artifact", "metadata"} : EvictFile(p, file)

-----------------------------------------------------------------------------
\* The order of the writes makes entries safe against kills and evictions at any moment:
\* no lookup finds metadata beside a torn artifact, and none hands one out, except for a
\* key that was stored over its entry or while another process was busy with it.
CacheWhole ==
  \A k \in Keys \ contended :
    /\ meta[k] = "whole" => artifact[k] # "torn"
    /\ k \notin tornOut
=============================================================================
