--------------------------- MODULE RegistryIndex ----------------------------
(***************************************************************************)
(* The entry of one package in a registry index (agam_pkg lib.rs): publish  *)
(* and yank read the file, change the list of releases and write the file   *)
(* back, without a lock; dependency resolution selects the newest release   *)
(* that is not yanked and matches a requirement.                            *)
(*                                                                          *)
(* A version is a core and, unless final, a prerelease, both sequences of   *)
(* identifiers: <<0, n>> for the number n, <<1, n>> for a word, n its place *)
(* in the order of the words.  Versions follow the "semver contract" of     *)
(* lib.rs:68: a core has only numbers.  Build metadata takes no part in the *)
(* order and is left out.                                                   *)
(***************************************************************************)
EXTENDS Integers, Sequences, FiniteSets, SequencesExt

CONSTANTS
  Publishers,    \* processes that publish and yank
  Versions,      \* versions that are published
  Checksums,     \* what a release contains
  Requirements,  \* versions and prefixes of versions that are asked for
  MaxChanges     \* bound: publications and yanks begun

ASSUME RegistryBounds == MaxChanges \in Nat
ASSUME RegistryVersions ==
  Versions \subseteq [core : Seq({0} \X Nat), final : BOOLEAN, pre : Seq({0, 1} \X Nat)]

-----------------------------------------------------------------------------
Sign(n) == IF n < 0 THEN -1 ELSE IF n > 0 THEN 1 ELSE 0

\* compare_version_identifier: numbers by value, words by their letters, and a number
\* is less than a word.
CompareIdentifier(l, r) == IF l[1] # r[1] THEN Sign(l[1] - r[1]) ELSE Sign(l[2] - r[2])

\* compare_version_identifiers: a core goes on as if with zeros, otherwise the longer
\* sequence is greater.
CompareIdentifiers(left, right, core) ==
  LET id(s, i) == IF i <= Len(s) THEN s[i] ELSE IF core THEN <<0, 0>> ELSE <<-1, 0>>
      order(i) == CompareIdentifier(id(left, i), id(right, i))
      differ == {i \in 1 .. Len(left) + Len(right) : order(i) # 0}
  IN IF differ = {} THEN 0 ELSE order(CHOOSE i \in differ : \A j \in differ : i <= j)

\* Mutation of CompareVersions: a prerelease comes after its release.
CompareVersionsLate(left, right) ==
  LET core == CompareIdentifiers(left.core, right.core, TRUE) IN
  IF core # 0 THEN core
  ELSE CASE left.final /\ right.final -> 0
         [] left.final /\ ~right.final -> -1
         [] ~left.final /\ right.final -> 1
         [] OTHER -> CompareIdentifiers(left.pre, right.pre, FALSE)

\* compare_registry_versions.
CompareVersions(left, right) ==
  LET core == CompareIdentifiers(left.core, right.core, TRUE) IN
  IF core # 0 THEN core
  ELSE CASE left.final /\ right.final -> 0
         [] left.final /\ ~right.final -> 1
         [] ~left.final /\ right.final -> -1
         [] OTHER -> CompareIdentifiers(left.pre, right.pre, FALSE)

\* version_matches: the text of the requirement, or that text and a dot, begins the
\* text of the version.  A requirement without core is the wildcard.
VersionMatches(v, req) ==
  \/ req.core = <<>>
  \/ v = req
  \/ req.final /\ IsStrictPrefix(req.core, v.core)
  \/ ~req.final /\ ~v.final /\ req.core = v.core /\ IsStrictPrefix(req.pre, v.pre)

\* The filters of select_registry_release_from_entry.
Eligible(r, req) == ~r.yanked /\ VersionMatches(r.version, req)

\* select_registry_release_from_entry: the place of the selected release among rs, or 0
\* for None.  max_by compares what passes the filters with the best so far, and keeps the
\* last of equal releases.
SelectRelease(rs, req) ==
  LET best[n \in 0 .. Len(rs)] ==
        IF n = 0 THEN 0
        ELSE IF \/ ~Eligible(rs[n], req)
                \/ /\ best[n - 1] # 0
                   /\ CompareVersions(rs[best[n - 1]].version, rs[n].version) > 0
             THEN best[n - 1]
             ELSE n
  IN best[Len(rs)]

-----------------------------------------------------------------------------
VARIABLES
  releases,    \* the releases in the file, in the order of publication
  file,        \* "whole", "empty" (truncated and not written) or "mixed" (written over
               \* what another process wrote meanwhile)
  publisher,   \* publisher[p]: where p is, the release it publishes, what it will write,
               \* and, a history, the receipts given out before it read the file
  changes,
  receipts,    \* history: the version and checksum of every receipt given out
  outdated     \* history: the receipts that were given out while a change that has since
               \* written the file was under way

rvars == <<releases, file, publisher, changes, receipts, outdated>>

Quiet == [at |-> "idle", gets |-> {}, will |-> <<>>, saw |-> {}]

RegistryInit ==
  /\ releases = <<>> /\ file = "whole"
  /\ publisher = [p \in Publishers |-> Quiet]
  /\ changes = 0
  /\ receipts = {} /\ outdated = {}

\* p has read the file, unless it cannot be parsed, and decided what to write.
Begin(p, receipt, will) ==
  /\ publisher[p].at = "idle" /\ file = "whole" /\ changes < MaxChanges
  /\ changes' = changes + 1
  /\ publisher' = [publisher EXCEPT ![p] =
                      [at |-> "write", gets |-> receipt, will |-> will, saw |-> receipts]]
  /\ UNCHANGED <<releases, file, receipts, outdated>>

Release(v, c) == [version |-> v, checksum |-> c, yanked |-> FALSE]

\* Mutation of Publish: published versions are not looked for.
PublishAgain(p, v, c) == Begin(p, {<<v, c>>}, Append(releases, Release(v, c)))

\* append_release_to_index and publish_validated_manifest_to_registry_index: "Immutability
\* check: no duplicate versions."
Publish(p, v, c) ==
  /\ \A i \in DOMAIN releases : releases[i].version # v
  /\ Begin(p, {<<v, c>>}, Append(releases, Release(v, c)))

\* set_registry_release_yanked, in both directions.
SetYanked(p, i, yanked) ==
  /\ i \in DOMAIN releases
  /\ Begin(p, {}, [releases EXCEPT ![i].yanked = yanked])

\* write_registry_package_entry: fs::write truncates the file,
OpenEntry(p) ==
  /\ publisher[p].at = "write"
  /\ file' = "empty"
  /\ publisher' = [publisher EXCEPT ![p].at = "fill"]
  /\ UNCHANGED <<releases, changes, receipts, outdated>>

\* and writes it from its beginning: what another process has put there meanwhile stays
\* where it was longer.  A publisher gets its receipt.
WriteEntry(p) ==
  /\ publisher[p].at = "fill"
  /\ releases' = publisher[p].will
  /\ file' \in (IF file = "empty" THEN {"whole"} ELSE {"whole", "mixed"})
  /\ receipts' = receipts \cup publisher[p].gets
  /\ outdated' = outdated \cup (receipts \ publisher[p].saw)
  /\ publisher' = [publisher EXCEPT ![p] = Quiet]
  /\ UNCHANGED changes

\* A process is killed; a truncated file is never read again.
KillPublisher(p) ==
  /\ publisher[p].at # "idle"
  /\ publisher' = [publisher EXCEPT ![p] = Quiet]
  /\ UNCHANGED <<releases, file, changes, receipts, outdated>>

RegistryNext == \E p \in Publishers :
  \/ \E v \in Versions, c \in Checksums : Publish(p, v, c)
  \/ \E i \in 1 .. MaxChanges, yanked \in BOOLEAN : SetYanked(p, i, yanked)
  \/ OpenEntry(p) \/ WriteEntry(p) \/ KillPublisher(p)

RegistrySpec == RegistryInit /\ [][RegistryNext]_rvars

-----------------------------------------------------------------------------
\* The file has the release of receipt r.
Lists(r) == \E i \in DOMAIN releases :
  <<releases[i].version, releases[i].checksum>> = r

\* What publishing keeps without a lock: the file has one release per version, and a file
\* that can be read has, with its content, every release somebody got a receipt for,
\* unless a change that had read the file before that receipt was given has written it
\* since.  Two receipts for one version exist only if one of them was lost that way.
RegistryKept ==
  /\ \A i, j \in DOMAIN releases : releases[i].version = releases[j].version => i = j
  /\ file = "whole" => \A r \in receipts \ outdated : Lists(r)
  /\ \A r, s \in receipts \ outdated : r[1] = s[1] => r = s

\* "Each published version is immutable.": no version has receipts for two contents.
VersionsImmutable == \A r, s \in receipts : r[1] = s[1] => r = s

\* Semantic versioning's precedence, for reference: the cores as numbers padded to equal
\* length, then a release before its prereleases, then the first identifier that differs
\* or the longer prerelease.
Newer(v, w) ==
  LET padded(s, n) == [i \in 1 .. n |-> IF i <= Len(s) THEN s[i] ELSE <<0, 0>>]
      more(s, t) == \E i \in DOMAIN s :
        /\ \A j \in 1 .. i - 1 : j \in DOMAIN t /\ s[j] = t[j]
        /\ i \in DOMAIN t => s[i][1] > t[i][1] \/ (s[i][1] = t[i][1] /\ s[i][2] > t[i][2])
      n == Len(v.core) + Len(w.core)
      a == padded(v.core, n)
      b == padded(w.core, n)
  IN more(a, b) \/ (a = b /\ ~w.final /\ (v.final \/ more(v.pre, w.pre)))

\* In whatever order releases were published and yanked, resolution picks one that is
\* neither yanked nor off the requirement, and none newer; it finds nothing only if there
\* is none.
RegistryNewest ==
  \A req \in Requirements :
    LET fit == {i \in DOMAIN releases : Eligible(releases[i], req)}
        selected == SelectRelease(releases, req)
    IN IF fit = {}
       THEN selected = 0
       ELSE /\ selected \in fit
            /\ \A i \in fit : ~Newer(releases[i].version, releases[selected].version)
=============================================================================
