------------------------- MODULE RegistryIndexProofs ------------------------
(***************************************************************************)
(* What publishing without a lock keeps, and that resolution selects the   *)
(* newest release, for any publishers, versions and contents.              *)
(***************************************************************************)
EXTENDS RegistryIndex, WellFoundedInduction, TLAPS

Releases == [version : Versions, checksum : Checksums, yanked : BOOLEAN]

\* Where publishers can be.
PublisherStates == [at : {"idle", "write", "fill"},
                    gets : SUBSET (Versions \X Checksums),
                    will : Seq(Releases),
                    saw : SUBSET (Versions \X Checksums)]

Types ==
  /\ releases \in Seq(Releases)
  /\ publisher \in [Publishers -> PublisherStates]
  /\ receipts \subseteq Versions \X Checksums

Busy(p) == publisher[p].at # "idle"

\* A list of releases has one per version; it has a receipt's release; it has everything
\* another list has.
OnePerVersion(s) == \A i, j \in DOMAIN s : s[i].version = s[j].version => i = j
Has(s, r) == \E i \in DOMAIN s : <<s[i].version, s[i].checksum>> = r
Covers(s, t) == \A i \in DOMAIN t : Has(s, <<t[i].version, t[i].checksum>>)

\* What is in the file and what publishers are about to put there.
Unique == OnePerVersion(releases) /\ \A p \in Publishers : OnePerVersion(publisher[p].will)

\* What is in the file, and what every change under way will put there, has the receipts
\* that are not outdated: those given out before the change read the file, and its own.
Based ==
  /\ \A r \in receipts \ outdated : Has(releases, r)
  /\ \A p \in Publishers : Busy(p) =>
       /\ \A r \in publisher[p].saw \ outdated : Has(publisher[p].will, r)
       /\ \A r \in publisher[p].gets : Has(publisher[p].will, r)

RegistryInv == Types /\ Unique /\ Based

\* A list that is longer by a new version.
LEMMA AppendRelease ==
  ASSUME NEW s \in Seq(Releases), NEW v \in Versions, NEW c \in Checksums,
         OnePerVersion(s), \A i \in DOMAIN s : s[i].version # v
  PROVE  LET a == Append(s, Release(v, c)) IN
         a \in Seq(Releases) /\ OnePerVersion(a) /\ Covers(a, s) /\ Has(a, <<v, c>>)
<1> DEFINE a == Append(s, Release(v, c))
<1>0. Release(v, c) \in Releases /\ Release(v, c).version = v /\ Release(v, c).checksum = c
  BY DEF Release, Releases
<1>1. /\ a \in Seq(Releases) /\ Len(a) = Len(s) + 1 /\ DOMAIN a = 1 .. Len(s) + 1
      /\ DOMAIN s = 1 .. Len(s) /\ Len(s) \in Nat
      /\ a[Len(s) + 1] = Release(v, c)
      /\ \A i \in 1 .. Len(s) : a[i] = s[i]
  BY <1>0
<1> HIDE DEF a
<1>2. OnePerVersion(a)
  BY <1>0, <1>1 DEF OnePerVersion
<1>3. Covers(a, s)
  BY <1>1 DEF Covers, Has
<1>4. Has(a, <<v, c>>)
  BY <1>0, <1>1 DEF Has
<1> QED BY <1>1, <1>2, <1>3, <1>4 DEF a

\* A list with one release yanked or not.
LEMMA YankRelease ==
  ASSUME NEW s \in Seq(Releases), NEW i \in DOMAIN s, NEW b \in BOOLEAN, OnePerVersion(s)
  PROVE  LET y == [s EXCEPT ![i].yanked = b] IN
         y \in Seq(Releases) /\ OnePerVersion(y) /\ Covers(y, s)
<1> DEFINE y == [s EXCEPT ![i].yanked = b]
<1>1. y = [s EXCEPT ![i] = [s[i] EXCEPT !.yanked = b]]
  OBVIOUS
<1>2. s[i] \in Releases
  OBVIOUS
<1>3. /\ [s[i] EXCEPT !.yanked = b] \in Releases
      /\ [s[i] EXCEPT !.yanked = b].version = s[i].version
      /\ [s[i] EXCEPT !.yanked = b].checksum = s[i].checksum
  BY <1>2 DEF Releases
<1>4. y \in Seq(Releases) /\ DOMAIN y = DOMAIN s
  BY <1>1, <1>3
<1>5. \A j \in DOMAIN s : y[j].version = s[j].version /\ y[j].checksum = s[j].checksum
  BY <1>1, <1>3
<1> HIDE DEF y
<1>6. OnePerVersion(y) /\ Covers(y, s)
  BY <1>4, <1>5 DEF OnePerVersion, Covers, Has
<1> QED BY <1>4, <1>6 DEF y

\* A process at rest is where a publisher can be.
LEMMA QuietState == Quiet \in PublisherStates
<1>1. <<>> \in Seq(Releases) /\ {} \in SUBSET (Versions \X Checksums)
  OBVIOUS
<1> QED BY <1>1 DEF Quiet, PublisherStates

\* The registry starts with nothing.
LEMMA RegistryStarts == RegistryInit => RegistryInv
<1> SUFFICES ASSUME RegistryInit PROVE RegistryInv
  OBVIOUS
<1>1. Types
  <2>1. <<>> \in Seq(Releases) /\ {} \subseteq Versions \X Checksums
    OBVIOUS
  <2>2. publisher \in [Publishers -> PublisherStates]
    BY QuietState DEF RegistryInit
  <2> QED BY <2>1, <2>2 DEF RegistryInit, Types
<1>2. Unique
  BY DEF RegistryInit, Unique, OnePerVersion, Quiet
<1>3. Based
  BY DEF RegistryInit, Based, Busy, Quiet
<1> QED BY <1>1, <1>2, <1>3 DEF RegistryInv

\* A list that covers another has what that one has.
LEMMA CoversHas ==
  ASSUME NEW s, NEW t, NEW r, Covers(s, t), Has(t, r)
  PROVE  Has(s, r)
<1>1. PICK i \in DOMAIN t : <<t[i].version, t[i].checksum>> = r
  BY DEF Has
<1> QED BY <1>1 DEF Covers

\* A change that begins is one of the file as it is.
LEMMA BeginKeeps ==
  ASSUME RegistryInv, NEW p \in Publishers, NEW g \in SUBSET (Versions \X Checksums),
         NEW w \in Seq(Releases), OnePerVersion(w), Covers(w, releases),
         \A r \in g : Has(w, r), Begin(p, g, w)
  PROVE  RegistryInv'
<1> DEFINE state == [at |-> "write", gets |-> g, will |-> w, saw |-> receipts]
<1>1. /\ publisher' = [publisher EXCEPT ![p] = state]
      /\ UNCHANGED <<releases, receipts, outdated>>
  BY DEF Begin
<1>2. state \in PublisherStates
  BY DEF RegistryInv, Types, PublisherStates
<1>3. \A q \in Publishers : publisher'[q] = IF q = p THEN state ELSE publisher[q]
  BY <1>1 DEF RegistryInv, Types
<1>4. state.will = w /\ state.gets = g /\ state.saw = receipts
  OBVIOUS
<1> HIDE DEF state
<1>5. Types'
  BY <1>1, <1>2 DEF RegistryInv, Types
<1>6. Unique'
  BY <1>1, <1>3, <1>4 DEF RegistryInv, Unique
<1>7. \A r \in receipts \ outdated : Has(w, r)
  BY CoversHas DEF RegistryInv, Based
<1>8. Based'
  BY <1>1, <1>3, <1>4, <1>7 DEF RegistryInv, Based, Busy, Has
<1> QED BY <1>5, <1>6, <1>8 DEF RegistryInv

\* Publishing and yanking.
LEMMA ChangeKeeps ==
  ASSUME RegistryInv, NEW p \in Publishers,
         \/ \E v \in Versions, c \in Checksums : Publish(p, v, c)
         \/ \E i \in 1 .. MaxChanges, yanked \in BOOLEAN : SetYanked(p, i, yanked)
  PROVE  RegistryInv'
<1>0. releases \in Seq(Releases) /\ OnePerVersion(releases)
  BY DEF RegistryInv, Types, PublisherStates, Unique
<1>1. ASSUME NEW v \in Versions, NEW c \in Checksums, Publish(p, v, c) PROVE RegistryInv'
  <2>1. Begin(p, {<<v, c>>}, Append(releases, Release(v, c)))
        /\ \A i \in DOMAIN releases : releases[i].version # v
    BY <1>1 DEF Publish
  <2>2. {<<v, c>>} \in SUBSET (Versions \X Checksums)
    OBVIOUS
  <2> QED BY <1>0, <2>1, <2>2, AppendRelease, BeginKeeps
<1>2. ASSUME NEW i \in 1 .. MaxChanges, NEW b \in BOOLEAN, SetYanked(p, i, b) PROVE RegistryInv'
  <2>1. Begin(p, {}, [releases EXCEPT ![i].yanked = b]) /\ i \in DOMAIN releases
    BY <1>2 DEF SetYanked
  <2> DEFINE y == [releases EXCEPT ![i].yanked = b]
  <2>2. y \in Seq(Releases) /\ OnePerVersion(y) /\ Covers(y, releases)
    BY <1>0, <2>1, YankRelease
  <2>3. {} \in SUBSET (Versions \X Checksums) /\ \A r \in {} : Has(y, r)
    OBVIOUS
  <2>4. Begin(p, {}, y)
    BY <2>1
  <2> HIDE DEF y
  <2> QED BY <2>2, <2>3, <2>4, BeginKeeps
<1> QED BY <1>1, <1>2

\* Truncating the file changes no list.
LEMMA OpenKeeps ==
  ASSUME RegistryInv, NEW p \in Publishers, OpenEntry(p)
  PROVE  RegistryInv'
<1>1. /\ publisher[p].at = "write" /\ publisher' = [publisher EXCEPT ![p].at = "fill"]
      /\ UNCHANGED <<releases, receipts, outdated>>
  BY DEF OpenEntry
<1>2. \A q \in Publishers : /\ publisher'[q].will = publisher[q].will
                            /\ publisher'[q].gets = publisher[q].gets
                            /\ publisher'[q].saw = publisher[q].saw
                            /\ Busy(q)' = Busy(q)
  BY <1>1 DEF RegistryInv, Types, PublisherStates, Busy
<1>3. Types'
  BY <1>1 DEF RegistryInv, Types, PublisherStates
<1>4. Unique'
  BY <1>1, <1>2 DEF RegistryInv, Unique, OnePerVersion
<1>5. Based'
  BY <1>1, <1>2 DEF RegistryInv, Based, Has
<1> QED BY <1>3, <1>4, <1>5 DEF RegistryInv

\* The new file has what its writer saw and what its receipt is for; every other receipt is
\* outdated.
LEMMA WriteKeeps ==
  ASSUME RegistryInv, NEW p \in Publishers, WriteEntry(p)
  PROVE  RegistryInv'
<1>1. /\ publisher[p].at = "fill" /\ publisher' = [publisher EXCEPT ![p] = Quiet]
      /\ releases' = publisher[p].will
      /\ receipts' = receipts \cup publisher[p].gets
      /\ outdated' = outdated \cup (receipts \ publisher[p].saw)
  BY DEF WriteEntry
<1>2. publisher[p].will \in Seq(Releases) /\ publisher[p].gets \subseteq Versions \X Checksums
  BY DEF RegistryInv, Types, PublisherStates
<1>3. Types'
  BY <1>1, <1>2, QuietState DEF RegistryInv, Types
<1>4. \A q \in Publishers : publisher'[q] = IF q = p THEN Quiet ELSE publisher[q]
  BY <1>1 DEF RegistryInv, Types
<1>5. Unique'
  BY <1>1, <1>4 DEF RegistryInv, Unique, OnePerVersion, Quiet
<1>6. \A r \in receipts' \ outdated' : Has(publisher[p].will, r)
  BY <1>1 DEF RegistryInv, Based, Busy
<1>7. \A q \in Publishers : Busy(q)' =>
        /\ \A r \in publisher'[q].saw \ outdated' : Has(publisher'[q].will, r)
        /\ \A r \in publisher'[q].gets : Has(publisher'[q].will, r)
  BY <1>1, <1>4 DEF RegistryInv, Based, Busy, Quiet
<1>8. Based'
  BY <1>1, <1>6, <1>7 DEF Based, Has, Busy
<1> QED BY <1>3, <1>5, <1>8 DEF RegistryInv

\* A publisher that is killed leaves the file as it is.
LEMMA KillPublisherKeeps ==
  ASSUME RegistryInv, NEW p \in Publishers, KillPublisher(p)
  PROVE  RegistryInv'
<1>1. /\ publisher' = [publisher EXCEPT ![p] = Quiet]
      /\ UNCHANGED <<releases, receipts, outdated>>
  BY DEF KillPublisher
<1>2. Types'
  BY <1>1, QuietState DEF RegistryInv, Types
<1>3. \A q \in Publishers : publisher'[q] = IF q = p THEN Quiet ELSE publisher[q]
  BY <1>1 DEF RegistryInv, Types
<1>4. Unique'
  BY <1>1, <1>3 DEF RegistryInv, Unique, OnePerVersion, Quiet
<1>5. Based'
  BY <1>1, <1>3 DEF RegistryInv, Based, Has, Busy, Quiet
<1> QED BY <1>2, <1>4, <1>5 DEF RegistryInv

\* Every step of a publisher keeps the invariant.
LEMMA RegistryPreserved == RegistryInv /\ [RegistryNext]_rvars => RegistryInv'
<1> SUFFICES ASSUME RegistryInv, [RegistryNext]_rvars PROVE RegistryInv'
  OBVIOUS
<1>1. CASE RegistryNext
  BY <1>1, ChangeKeeps, OpenKeeps, WriteKeeps, KillPublisherKeeps DEF RegistryNext
<1>2. CASE UNCHANGED rvars
  BY <1>2 DEF rvars, RegistryInv, Types, Unique, OnePerVersion, Based, Busy, Has
<1> QED BY <1>1, <1>2

\* What publishing keeps: the index has one release per version, and a release somebody has
\* a receipt for leaves it, or changes its content, only by the write of a change that had
\* read the file before the receipt was given.  No kill does it and no later publication
\* or yank.
THEOREM PublishedIsKept == RegistrySpec => []RegistryKept
<1>1. RegistryInv => RegistryKept
  <2> SUFFICES ASSUME RegistryInv PROVE RegistryKept
    OBVIOUS
  <2>1. OnePerVersion(releases)
    BY DEF RegistryInv, Unique
  <2>2. \A r \in receipts \ outdated : Has(releases, r)
    BY DEF RegistryInv, Based
  <2>3. ASSUME NEW r \in receipts \ outdated, NEW s \in receipts \ outdated, r[1] = s[1]
        PROVE  r = s
    <3>1. PICK i \in DOMAIN releases : <<releases[i].version, releases[i].checksum>> = r
      BY <2>2 DEF Has
    <3>2. PICK j \in DOMAIN releases : <<releases[j].version, releases[j].checksum>> = s
      BY <2>2 DEF Has
    <3>3. releases[i].version = releases[j].version
      BY <2>3, <3>1, <3>2
    <3> QED BY <2>1, <3>1, <3>2, <3>3 DEF OnePerVersion
  <2> QED BY <2>1, <2>2, <2>3 DEF RegistryKept, OnePerVersion, Has, Lists
<1> QED BY RegistryStarts, RegistryPreserved, <1>1, PTL DEF RegistrySpec
-----------------------------------------------------------------------------
\* Induction.  A set of numbers has a least one, so a property of numbers is proved by
\* looking at the least one that does not have it.

\* Every set of natural numbers that is not empty has a least element.
LEMMA LeastNumber ==
  ASSUME NEW T, T \subseteq Nat, T # {}
  PROVE  \E x \in T : \A y \in T : x <= y
<1> DEFINE less == OpToRel(<, Nat)
<1>1. PICK x \in T : \A y \in T : ~(<<y, x>> \in less)
  <2> HIDE DEF less
  <2>1. IsWellFoundedOn(less, Nat)
    BY NatLessThanWellFounded DEF less
  <2> QED BY <2>1, WFMin
<1>2. \A y \in T : ~(y < x)
  BY <1>1 DEF OpToRel
<1> QED BY <1>2

\* A set that contains 0 and with every number the next contains all of them.
LEMMA Induction ==
  ASSUME NEW T, 0 \in T, \A n \in Nat : n \in T => n + 1 \in T
  PROVE  \A n \in Nat : n \in T
<1> SUFFICES ASSUME NEW m \in Nat, m \notin T PROVE FALSE
  OBVIOUS
<1> DEFINE out == {n \in Nat : n \notin T}
<1>1. PICK x \in out : \A y \in out : x <= y
  <2>1. out \subseteq Nat /\ out # {}
    OBVIOUS
  <2> HIDE DEF out
  <2> QED BY <2>1, LeastNumber
<1>2. x # 0 /\ x - 1 \in Nat /\ (x - 1) + 1 = x
  OBVIOUS
<1>3. x - 1 \in T
  BY <1>1, <1>2
<1> QED BY <1>2, <1>3

-----------------------------------------------------------------------------
\* The order of versions.

VersionSet == [core : Seq({0} \X Nat), final : BOOLEAN, pre : Seq({0, 1} \X Nat)]

\* The identifier at place i of s, with what stands for a missing one.
Identifiers == {-1, 0, 1} \X Nat
IdAt(s, i, core) == IF i <= Len(s) THEN s[i] ELSE IF core THEN <<0, 0>> ELSE <<-1, 0>>

IdLess(a, b) == a[1] < b[1] \/ (a[1] = b[1] /\ a[2] < b[2])

\* s comes before t: at the first place where they differ.
Before(s, t, core) == \E i \in Nat \ {0} :
  /\ IdLess(IdAt(s, i, core), IdAt(t, i, core))
  /\ \A j \in Nat \ {0} : j < i => IdAt(s, j, core) = IdAt(t, j, core)
Level(s, t, core) == \A i \in Nat \ {0} : IdAt(s, i, core) = IdAt(t, i, core)

\* Identifiers are ordered strictly and totally, and compared by that order.
LEMMA IdentifierOrder ==
  ASSUME NEW a \in Identifiers, NEW b \in Identifiers
  PROVE  /\ CompareIdentifier(a, b) = -1 <=> IdLess(a, b)
         /\ CompareIdentifier(a, b) = 1 <=> IdLess(b, a)
         /\ CompareIdentifier(a, b) = 0 <=> a = b
         /\ CompareIdentifier(a, b) \in {-1, 0, 1}
<1>1. PICK a1 \in {-1, 0, 1}, a2 \in Nat : a = <<a1, a2>>
  BY DEF Identifiers
<1>2. PICK b1 \in {-1, 0, 1}, b2 \in Nat : b = <<b1, b2>>
  BY DEF Identifiers
<1>3. a[1] = a1 /\ a[2] = a2 /\ b[1] = b1 /\ b[2] = b2 /\ (a = b <=> a1 = b1 /\ a2 = b2)
  BY <1>1, <1>2
<1> QED BY <1>3 DEF CompareIdentifier, Sign, IdLess

\* The order of identifiers is transitive, and strict.
LEMMA IdLessOrder ==
  ASSUME NEW a \in Identifiers, NEW b \in Identifiers, NEW c \in Identifiers
  PROVE  /\ IdLess(a, b) /\ IdLess(b, c) => IdLess(a, c)
         /\ ~(IdLess(a, b) /\ IdLess(b, a)) /\ ~IdLess(a, a)
<1>1. a[1] \in Int /\ a[2] \in Int /\ b[1] \in Int /\ b[2] \in Int /\ c[1] \in Int /\ c[2] \in Int
  BY DEF Identifiers
<1> QED BY <1>1 DEF IdLess

\* The places of a sequence hold identifiers, and so does what lies beyond.
LEMMA IdAtType ==
  ASSUME NEW s \in Seq({0, 1} \X Nat), NEW i \in Nat \ {0}, NEW core \in BOOLEAN
  PROVE  IdAt(s, i, core) \in Identifiers
<1>1. <<0, 0>> \in Identifiers /\ <<-1, 0>> \in Identifiers
  BY DEF Identifiers
<1>2. ASSUME i <= Len(s) PROVE s[i] \in Identifiers
  <2>1. i \in 1 .. Len(s)
    BY <1>2
  <2>2. s[i] \in {0, 1} \X Nat
    BY <2>1
  <2> QED BY <2>2 DEF Identifiers
<1> QED BY <1>1, <1>2 DEF IdAt

\* compare_version_identifiers returns the order of the first identifiers that differ.
LEMMA IdentifiersOrder ==
  ASSUME NEW s \in Seq({0, 1} \X Nat), NEW t \in Seq({0, 1} \X Nat), NEW core \in BOOLEAN
  PROVE  /\ CompareIdentifiers(s, t, core) = -1 <=> Before(s, t, core)
         /\ CompareIdentifiers(s, t, core) = 1 <=> Before(t, s, core)
         /\ CompareIdentifiers(s, t, core) = 0 <=> Level(s, t, core)
         /\ CompareIdentifiers(s, t, core) \in {-1, 0, 1}
<1> DEFINE order(i) == CompareIdentifier(IdAt(s, i, core), IdAt(t, i, core))
           differ == {i \in 1 .. Len(s) + Len(t) : order(i) # 0}
           first == CHOOSE i \in differ : \A j \in differ : i <= j
           result == IF differ = {} THEN 0 ELSE order(first)
<1>1. CompareIdentifiers(s, t, core) = result
  BY DEF CompareIdentifiers, IdAt
<1>2. Len(s) \in Nat /\ Len(t) \in Nat
  OBVIOUS
<1>3. \A i \in Nat \ {0} :
        /\ order(i) = -1 <=> IdLess(IdAt(s, i, core), IdAt(t, i, core))
        /\ order(i) = 1 <=> IdLess(IdAt(t, i, core), IdAt(s, i, core))
        /\ order(i) = 0 <=> IdAt(s, i, core) = IdAt(t, i, core)
        /\ order(i) \in {-1, 0, 1}
  BY IdAtType, IdentifierOrder
<1>4. \A i \in Nat \ {0} : i \notin differ => IdAt(s, i, core) = IdAt(t, i, core)
  <2> SUFFICES ASSUME NEW i \in Nat \ {0}, i \notin differ
               PROVE  IdAt(s, i, core) = IdAt(t, i, core)
    OBVIOUS
  <2>1. CASE i <= Len(s) + Len(t)
    BY <1>2, <1>3, <2>1
  <2>2. CASE ~(i <= Len(s) + Len(t))
    BY <1>2, <2>2 DEF IdAt
  <2> QED BY <2>1, <2>2
<1>5. CASE differ = {}
  <2>1. result = 0
    BY <1>5
  <2>2. Level(s, t, core)
    BY <1>4, <1>5 DEF Level
  <2>3. \A i \in Nat \ {0} : order(i) = 0
    BY <1>3, <2>2 DEF Level
  <2>4. ~Before(s, t, core) /\ ~Before(t, s, core)
    <3> HIDE DEF order
    <3> QED BY <1>3, <2>3 DEF Before
  <2> HIDE DEF result
  <2> QED BY <1>1, <2>1, <2>2, <2>4
<1>6. CASE differ # {}
  <2>1. first \in differ /\ \A j \in differ : first <= j
    <3>1. differ \subseteq Nat
      BY <1>2
    <3> HIDE DEF differ
    <3>2. \E i \in differ : \A j \in differ : i <= j
      BY <1>6, <3>1, LeastNumber
    <3> QED BY <3>2
  <2> DEFINE f == first
  <2>2. f \in Nat \ {0} /\ order(f) # 0 /\ result = order(f)
    BY <1>2, <1>6, <2>1
  <2>3. \A j \in Nat \ {0} : j < f => j \notin differ
    <3> HIDE DEF differ, first
    <3> QED BY <2>1, <2>2
  <2>4. \A j \in Nat \ {0} : j < f => IdAt(s, j, core) = IdAt(t, j, core)
    BY <1>4, <2>3
  <2>5. ~Level(s, t, core)
    BY <1>3, <2>2 DEF Level
  <2>6. ASSUME NEW i \in Nat \ {0}, IdAt(s, i, core) # IdAt(t, i, core),
               \A j \in Nat \ {0} : j < i => IdAt(s, j, core) = IdAt(t, j, core)
        PROVE  i = f
    <3>1. IdAt(s, f, core) # IdAt(t, f, core)
      BY <1>3, <2>2
    <3>2. ~(i < f) /\ ~(f < i)
      BY <2>2, <2>4, <2>6, <3>1
    <3> HIDE DEF f
    <3> QED BY <2>2, <3>2
  <2> HIDE DEF f, result, differ, order
  <2>7. \A i \in Nat \ {0} : /\ ~IdLess(IdAt(s, i, core), IdAt(s, i, core))
                             /\ ~IdLess(IdAt(t, i, core), IdAt(t, i, core))
    BY IdAtType, IdLessOrder
  <2>8. Before(s, t, core) <=> IdLess(IdAt(s, f, core), IdAt(t, f, core))
    BY <2>2, <2>4, <2>6, <2>7 DEF Before
  <2>9. Before(t, s, core) <=> IdLess(IdAt(t, f, core), IdAt(s, f, core))
    BY <2>2, <2>4, <2>6, <2>7 DEF Before
  <2> QED BY <1>1, <1>3, <2>2, <2>5, <2>8, <2>9
<1> QED BY <1>5, <1>6

\* Before is transitive, also through sequences that are level.
LEMMA BeforeTransitive ==
  ASSUME NEW s \in Seq({0, 1} \X Nat), NEW t \in Seq({0, 1} \X Nat),
         NEW u \in Seq({0, 1} \X Nat), NEW core \in BOOLEAN
  PROVE  /\ Before(s, t, core) /\ Before(t, u, core) => Before(s, u, core)
         /\ Before(s, t, core) /\ Level(t, u, core) => Before(s, u, core)
         /\ Level(s, t, core) /\ Before(t, u, core) => Before(s, u, core)
         /\ Level(s, t, core) /\ Level(t, u, core) => Level(s, u, core)
<1>1. ASSUME Before(s, t, core), Before(t, u, core) PROVE Before(s, u, core)
  <2>1. PICK i \in Nat \ {0} :
          /\ IdLess(IdAt(s, i, core), IdAt(t, i, core))
          /\ \A j \in Nat \ {0} : j < i => IdAt(s, j, core) = IdAt(t, j, core)
    BY <1>1 DEF Before
  <2>2. PICK k \in Nat \ {0} :
          /\ IdLess(IdAt(t, k, core), IdAt(u, k, core))
          /\ \A j \in Nat \ {0} : j < k => IdAt(t, j, core) = IdAt(u, j, core)
    BY <1>1 DEF Before
  <2>3. /\ IdAt(s, i, core) \in Identifiers /\ IdAt(t, i, core) \in Identifiers
        /\ IdAt(u, i, core) \in Identifiers
    BY IdAtType
  <2>4. CASE i < k
    <3>1. /\ IdLess(IdAt(s, i, core), IdAt(u, i, core))
          /\ \A j \in Nat \ {0} : j < i => IdAt(s, j, core) = IdAt(u, j, core)
      BY <2>1, <2>2, <2>4
    <3> QED BY <3>1 DEF Before
  <2>5. CASE k < i
    <3>1. /\ IdLess(IdAt(s, k, core), IdAt(u, k, core))
          /\ \A j \in Nat \ {0} : j < k => IdAt(s, j, core) = IdAt(u, j, core)
      BY <2>1, <2>2, <2>5
    <3> QED BY <3>1 DEF Before
  <2>6. CASE i = k
    <3>1. /\ IdLess(IdAt(s, i, core), IdAt(u, i, core))
          /\ \A j \in Nat \ {0} : j < i => IdAt(s, j, core) = IdAt(u, j, core)
      BY <2>1, <2>2, <2>3, <2>6, IdLessOrder
    <3> QED BY <3>1 DEF Before
  <2> QED BY <2>4, <2>5, <2>6
<1> QED BY <1>1 DEF Before, Level

\* A core is a sequence of identifiers like any other.
LEMMA CoresAreIdentifiers == \A s \in Seq({0} \X Nat) : s \in Seq({0, 1} \X Nat)
<1> SUFFICES ASSUME NEW s \in Seq({0} \X Nat) PROVE s \in Seq({0, 1} \X Nat)
  OBVIOUS
<1>1. Len(s) \in Nat /\ s = [i \in 1 .. Len(s) |-> s[i]] /\ \A i \in 1 .. Len(s) : s[i] \in {0} \X Nat
  OBVIOUS
<1>2. \A i \in 1 .. Len(s) : s[i] \in {0, 1} \X Nat
  BY <1>1
<1> QED BY <1>1, <1>2

\* compare_registry_versions: the cores, then a prerelease before its release, then the
\* prereleases.
LEMMA VersionOrder ==
  ASSUME NEW v \in VersionSet, NEW w \in VersionSet
  PROVE  /\ CompareVersions(v, w) \in {-1, 0, 1}
         /\ CompareVersions(v, w) = 1 <=>
              \/ Before(w.core, v.core, TRUE)
              \/ /\ Level(v.core, w.core, TRUE) /\ ~w.final
                 /\ v.final \/ Before(w.pre, v.pre, FALSE)
         /\ CompareVersions(v, w) = 0 <=>
              /\ Level(v.core, w.core, TRUE) /\ v.final = w.final
              /\ v.final \/ Level(v.pre, w.pre, FALSE)
<1>1. /\ v.core \in Seq({0, 1} \X Nat) /\ w.core \in Seq({0, 1} \X Nat)
      /\ v.pre \in Seq({0, 1} \X Nat) /\ w.pre \in Seq({0, 1} \X Nat)
      /\ v.final \in BOOLEAN /\ w.final \in BOOLEAN
  BY CoresAreIdentifiers DEF VersionSet
<1> DEFINE core == CompareIdentifiers(v.core, w.core, TRUE)
           pre == CompareIdentifiers(v.pre, w.pre, FALSE)
<1>2. /\ core = -1 <=> Before(v.core, w.core, TRUE)
      /\ core = 1 <=> Before(w.core, v.core, TRUE)
      /\ core = 0 <=> Level(v.core, w.core, TRUE)
      /\ core \in {-1, 0, 1}
  BY <1>1, IdentifiersOrder
<1>3. /\ pre = -1 <=> Before(v.pre, w.pre, FALSE)
      /\ pre = 1 <=> Before(w.pre, v.pre, FALSE)
      /\ pre = 0 <=> Level(v.pre, w.pre, FALSE)
      /\ pre \in {-1, 0, 1}
  BY <1>1, IdentifiersOrder
<1>4. CompareVersions(v, w) = IF core # 0 THEN core
                              ELSE CASE v.final /\ w.final -> 0
                                     [] v.final /\ ~w.final -> 1
                                     [] ~v.final /\ w.final -> -1
                                     [] OTHER -> pre
  BY Zenon DEF CompareVersions
<1>5. /\ v.final = TRUE \/ v.final = FALSE
      /\ w.final = TRUE \/ w.final = FALSE
  BY <1>1
<1> HIDE DEF core, pre
<1>6. CASE core # 0
  <2>1. CompareVersions(v, w) = core
    BY <1>4, <1>6, Zenon
  <2> QED BY <1>2, <1>6, <2>1
<1>7. CASE core = 0
  <2>1. Level(v.core, w.core, TRUE)
    BY <1>2, <1>7, Zenon
  <2>2. ~Before(w.core, v.core, TRUE)
    <3>1. core # 1
      BY <1>7
    <3> QED BY <1>2, <3>1, Zenon
  <2>3. CASE v.final = TRUE /\ w.final = TRUE
    <3>1. CompareVersions(v, w) = 0
      BY <1>4, <1>7, <2>3
    <3>2. w.final /\ v.final /\ v.final = w.final
      BY <2>3, Zenon
    <3>3. CompareVersions(v, w) \in {-1, 0, 1} /\ CompareVersions(v, w) # 1
      BY <3>1
    <3> QED BY <2>1, <2>2, <3>1, <3>2, <3>3, Zenon
  <2>4. CASE v.final = TRUE /\ w.final = FALSE
    <3>1. CompareVersions(v, w) = 1
      BY <1>4, <1>7, <2>4
    <3>2. ~w.final /\ v.final /\ v.final # w.final
      BY <2>4, Zenon
    <3>3. CompareVersions(v, w) \in {-1, 0, 1} /\ CompareVersions(v, w) # 0
      BY <3>1
    <3> QED BY <2>1, <2>2, <3>1, <3>2, <3>3, Zenon
  <2>5. CASE v.final = FALSE /\ w.final = TRUE
    <3>1. CompareVersions(v, w) = -1
      BY <1>4, <1>7, <2>5
    <3>2. w.final /\ ~v.final /\ v.final # w.final
      BY <2>5, Zenon
    <3>3. CompareVersions(v, w) \in {-1, 0, 1} /\ CompareVersions(v, w) # 0 /\ CompareVersions(v, w) # 1
      BY <3>1
    <3> QED BY <2>1, <2>2, <3>1, <3>2, <3>3, Zenon
  <2>6. CASE v.final = FALSE /\ w.final = FALSE
    <3>1. CompareVersions(v, w) = pre
      BY <1>4, <1>7, <2>6
    <3>2. ~w.final /\ ~v.final /\ v.final = w.final
      BY <2>6, Zenon
    <3> QED BY <1>3, <2>1, <2>2, <3>1, <3>2
  <2> QED BY <1>5, <2>3, <2>4, <2>5, <2>6, Zenon
<1> QED BY <1>6, <1>7

\* Level is symmetric, and what is level is not before.
LEMMA LevelSymmetric ==
  ASSUME NEW s \in Seq({0, 1} \X Nat), NEW t \in Seq({0, 1} \X Nat), NEW core \in BOOLEAN
  PROVE  /\ Level(s, t, core) <=> Level(t, s, core)
         /\ Before(s, t, core) \/ Before(t, s, core) \/ Level(s, t, core)
         /\ ~(Before(s, t, core) /\ Level(s, t, core))
         /\ ~(Before(s, t, core) /\ Before(t, s, core))
BY IdentifiersOrder DEF Level

\* The comparison is a total order of versions, up to versions that compare as equal: of
\* two versions at most one is the greater, and what is not less than a version is not
\* less than what that one is not less than.  Iterator::max_by depends on it.
THEOREM VersionsOrdered ==
  ASSUME NEW u \in VersionSet, NEW v \in VersionSet, NEW w \in VersionSet
  PROVE  /\ CompareVersions(v, w) > 0 => CompareVersions(w, v) <= 0
         /\ CompareVersions(u, v) <= 0 /\ CompareVersions(v, w) <= 0
              => CompareVersions(u, w) <= 0
         /\ CompareVersions(v, v) = 0
<1>1. /\ u.core \in Seq({0, 1} \X Nat) /\ u.pre \in Seq({0, 1} \X Nat) /\ u.final \in BOOLEAN
      /\ v.core \in Seq({0, 1} \X Nat) /\ v.pre \in Seq({0, 1} \X Nat) /\ v.final \in BOOLEAN
      /\ w.core \in Seq({0, 1} \X Nat) /\ w.pre \in Seq({0, 1} \X Nat) /\ w.final \in BOOLEAN
  BY CoresAreIdentifiers DEF VersionSet
<1>2. /\ CompareVersions(u, v) \in {-1, 0, 1} /\ CompareVersions(v, w) \in {-1, 0, 1}
      /\ CompareVersions(u, w) \in {-1, 0, 1} /\ CompareVersions(w, v) \in {-1, 0, 1}
  BY VersionOrder
<1> DEFINE After(x, y) == \/ Before(y.core, x.core, TRUE)
                          \/ /\ Level(x.core, y.core, TRUE) /\ ~y.final
                             /\ x.final \/ Before(y.pre, x.pre, FALSE)
<1>3. /\ CompareVersions(u, v) = 1 <=> After(u, v)
      /\ CompareVersions(v, w) = 1 <=> After(v, w)
      /\ CompareVersions(u, w) = 1 <=> After(u, w)
      /\ CompareVersions(w, v) = 1 <=> After(w, v)
  BY VersionOrder
<1>4. ~(After(v, w) /\ After(w, v))
  BY <1>1, LevelSymmetric
<1>5. After(u, w) => After(u, v) \/ After(v, w)
  <2> SUFFICES ASSUME After(u, w), ~After(u, v), ~After(v, w) PROVE FALSE
    OBVIOUS
  <2>1. \/ Before(u.core, v.core, TRUE) /\ ~Before(v.core, u.core, TRUE)
        \/ Level(u.core, v.core, TRUE) /\ Level(v.core, u.core, TRUE)
    BY <1>1, LevelSymmetric
  <2>2. \/ Before(v.core, w.core, TRUE) /\ ~Before(w.core, v.core, TRUE)
        \/ Level(v.core, w.core, TRUE) /\ Level(w.core, v.core, TRUE)
    BY <1>1, LevelSymmetric
  <2>3. CASE Before(u.core, v.core, TRUE) \/ Before(v.core, w.core, TRUE)
    <3>1. Before(u.core, w.core, TRUE)
      BY <1>1, <2>1, <2>2, <2>3, BeforeTransitive
    <3> QED BY <1>1, <3>1, LevelSymmetric
  <2>4. CASE Level(u.core, v.core, TRUE) /\ Level(v.core, w.core, TRUE)
    <3>1. Level(u.core, w.core, TRUE) /\ ~Before(w.core, u.core, TRUE)
      BY <1>1, <2>4, BeforeTransitive, LevelSymmetric
    <3>2. ~w.final /\ (u.final \/ Before(w.pre, u.pre, FALSE))
      BY <3>1
    <3>3. ~v.final /\ ~Before(w.pre, v.pre, FALSE)
      BY <2>4, <3>2
    <3>4. ~u.final /\ ~Before(v.pre, u.pre, FALSE)
      BY <2>4, <3>3
    <3>5. Before(w.pre, u.pre, FALSE)
      BY <3>2, <3>4
    <3>6. Before(u.pre, v.pre, FALSE) \/ Level(u.pre, v.pre, FALSE)
      BY <1>1, <3>4, LevelSymmetric
    <3>7. Before(v.pre, w.pre, FALSE) \/ Level(v.pre, w.pre, FALSE)
      BY <1>1, <3>3, LevelSymmetric
    <3>8. Before(u.pre, w.pre, FALSE) \/ Level(u.pre, w.pre, FALSE)
      BY <1>1, <3>6, <3>7, BeforeTransitive
    <3> QED BY <1>1, <3>5, <3>8, LevelSymmetric
  <2> QED BY <2>1, <2>2, <2>3, <2>4
<1>6. CompareVersions(v, v) = 0
  <2>1. \A s : Level(s, s, TRUE) /\ Level(s, s, FALSE)
    BY DEF Level
  <2> QED BY <2>1, VersionOrder
<1> HIDE DEF After
<1> QED BY <1>2, <1>3, <1>4, <1>5, <1>6

\* The parts of Newer: a core padded to n places, and its order of sequences.
Padded(s, n) == [i \in 1 .. n |-> IF i <= Len(s) THEN s[i] ELSE <<0, 0>>]
More(s, t) == \E i \in DOMAIN s :
  /\ \A j \in 1 .. i - 1 : j \in DOMAIN t /\ s[j] = t[j]
  /\ i \in DOMAIN t => s[i][1] > t[i][1] \/ (s[i][1] = t[i][1] /\ s[i][2] > t[i][2])

LEMMA NewerParts ==
  ASSUME NEW v, NEW w
  PROVE  LET n == Len(v.core) + Len(w.core) IN
         Newer(v, w) <=> \/ More(Padded(v.core, n), Padded(w.core, n))
                         \/ /\ Padded(v.core, n) = Padded(w.core, n) /\ ~w.final
                            /\ v.final \/ More(v.pre, w.pre)
BY Zenon DEF Newer, More, Padded

\* Cores padded to the length of both together are ordered as the comparison orders them.
LEMMA PaddedOrder ==
  ASSUME NEW s \in Seq({0, 1} \X Nat), NEW t \in Seq({0, 1} \X Nat)
  PROVE  LET n == Len(s) + Len(t) IN
         /\ Padded(s, n) = Padded(t, n) <=> Level(s, t, TRUE)
         /\ More(Padded(s, n), Padded(t, n)) <=> Before(t, s, TRUE)
<1> DEFINE n == Len(s) + Len(t)
           a == Padded(s, n)
           b == Padded(t, n)
           S(i) == IdAt(s, i, TRUE)
           T(i) == IdAt(t, i, TRUE)
<1>1. n \in Nat /\ Len(s) \in Nat /\ Len(t) \in Nat
  OBVIOUS
<1>2. \A i \in Nat \ {0} : S(i) \in Identifiers /\ T(i) \in Identifiers
  BY IdAtType
<1>3. \A i \in Nat \ {0} : i \notin 1 .. n => S(i) = T(i)
  <2> SUFFICES ASSUME NEW i \in Nat \ {0}, i \notin 1 .. n PROVE S(i) = T(i)
    OBVIOUS
  <2>1. ~(i <= Len(s)) /\ ~(i <= Len(t))
    BY <1>1
  <2> QED BY <2>1 DEF IdAt
<1>4. DOMAIN a = 1 .. n /\ DOMAIN b = 1 .. n
  BY DEF Padded
<1>5. \A i \in 1 .. n : a[i] = S(i) /\ b[i] = T(i)
  BY DEF Padded, IdAt
<1>6. a = [i \in 1 .. n |-> a[i]] /\ b = [i \in 1 .. n |-> b[i]]
  BY DEF Padded
<1>7. \A i \in 1 .. n : i \in Nat \ {0}
  BY <1>1
<1>8. \A i \in Nat \ {0} : S(i)[1] \in Int /\ S(i)[2] \in Int /\ T(i)[1] \in Int /\ T(i)[2] \in Int
  <2>1. \A x \in Identifiers : x[1] \in Int /\ x[2] \in Int
    BY DEF Identifiers
  <2> HIDE DEF S, T
  <2> QED BY <1>2, <2>1
<1> HIDE DEF n, a, b
<1>9. a = b <=> Level(s, t, TRUE)
  <2>1. ASSUME a = b, NEW i \in Nat \ {0} PROVE S(i) = T(i)
    <3>1. CASE i \in 1 .. n
      BY <1>5, <2>1, <3>1
    <3>2. CASE i \notin 1 .. n
      BY <1>3, <3>2
    <3> QED BY <3>1, <3>2
  <2>2. ASSUME \A i \in Nat \ {0} : S(i) = T(i) PROVE a = b
    <3>1. \A i \in 1 .. n : a[i] = b[i]
      BY <1>5, <1>7, <2>2
    <3> QED BY <1>6, <3>1
  <2> QED BY <2>1, <2>2 DEF Level
<1>10. ASSUME More(a, b) PROVE Before(t, s, TRUE)
  <2>1. PICK i \in 1 .. n :
          /\ \A j \in 1 .. i - 1 : a[j] = b[j]
          /\ a[i][1] > b[i][1] \/ (a[i][1] = b[i][1] /\ a[i][2] > b[i][2])
    BY <1>4, <1>10 DEF More
  <2>2. i \in Nat \ {0} /\ \A j \in Nat \ {0} : j < i => j \in 1 .. n /\ j \in 1 .. i - 1
    BY <1>1
  <2> HIDE DEF S, T
  <2>3. IdLess(T(i), S(i))
    BY <1>5, <1>8, <2>1, <2>2 DEF IdLess
  <2>4. \A j \in Nat \ {0} : j < i => T(j) = S(j)
    BY <1>5, <2>1, <2>2
  <2> QED BY <2>2, <2>3, <2>4 DEF Before, S, T
<1>11. ASSUME Before(t, s, TRUE) PROVE More(a, b)
  <2>1. PICK i \in Nat \ {0} :
          /\ IdLess(T(i), S(i))
          /\ \A j \in Nat \ {0} : j < i => T(j) = S(j)
    BY <1>11 DEF Before
  <2> HIDE DEF S, T
  <2>2. i \in 1 .. n
    <3>1. ~IdLess(T(i), T(i))
      BY <1>2, IdLessOrder
    <3> QED BY <1>3, <2>1, <3>1
  <2>3. \A j \in 1 .. i - 1 : j \in 1 .. n /\ a[j] = b[j]
    <3>1. \A j \in 1 .. i - 1 : j \in Nat \ {0} /\ j < i /\ j \in 1 .. n
      BY <1>1, <2>2
    <3> QED BY <1>5, <2>1, <3>1
  <2>4. a[i][1] > b[i][1] \/ (a[i][1] = b[i][1] /\ a[i][2] > b[i][2])
    BY <1>5, <1>8, <2>1, <2>2 DEF IdLess
  <2> QED BY <1>4, <2>2, <2>3, <2>4 DEF More
<1> QED BY <1>9, <1>10, <1>11 DEF n, a, b

\* Prereleases are ordered as the comparison orders them.
LEMMA PrereleaseOrder ==
  ASSUME NEW s \in Seq({0, 1} \X Nat), NEW t \in Seq({0, 1} \X Nat)
  PROVE  More(s, t) <=> Before(t, s, FALSE)
<1> DEFINE S(i) == IdAt(s, i, FALSE)
           T(i) == IdAt(t, i, FALSE)
           none == <<-1, 0>>
<1>1. /\ Len(s) \in Nat /\ Len(t) \in Nat
      /\ DOMAIN s = 1 .. Len(s) /\ DOMAIN t = 1 .. Len(t)
  OBVIOUS
<1>2. \A i \in Nat \ {0} :
        /\ i \in DOMAIN s => S(i) = s[i]
        /\ i \in DOMAIN t => T(i) = t[i]
        /\ i \notin DOMAIN s => S(i) = none
        /\ i \notin DOMAIN t => T(i) = none
  BY <1>1 DEF IdAt
<1>3. /\ \A i \in DOMAIN s : s[i][1] \in Int /\ s[i][1] >= 0 /\ s[i][2] \in Nat
      /\ \A i \in DOMAIN t : t[i][1] \in Int /\ t[i][1] >= 0 /\ t[i][2] \in Nat
  <2>1. \A x \in {0, 1} \X Nat : x[1] \in Int /\ x[1] >= 0 /\ x[2] \in Nat
    OBVIOUS
  <2>2. /\ \A i \in DOMAIN s : s[i] \in {0, 1} \X Nat
        /\ \A i \in DOMAIN t : t[i] \in {0, 1} \X Nat
    OBVIOUS
  <2> QED BY <2>1, <2>2
<1>4. none[1] = -1 /\ none[2] = 0
  OBVIOUS
<1>5. DOMAIN s \subseteq Nat \ {0} /\ \A i \in DOMAIN s, j \in Nat \ {0} : j < i => j \in DOMAIN s
  BY <1>1
<1>6. \A i, j \in Nat \ {0} : j < i <=> j \in 1 .. i - 1
  OBVIOUS
<1>7. \A i \in Nat \ {0} : \A j \in 1 .. i - 1 : j \in Nat \ {0} /\ j < i
  OBVIOUS
<1> HIDE DEF S, T, none
<1>8. ASSUME More(s, t) PROVE Before(t, s, FALSE)
  <2>1. PICK i \in DOMAIN s :
          /\ \A j \in 1 .. i - 1 : j \in DOMAIN t /\ s[j] = t[j]
          /\ i \in DOMAIN t => \/ s[i][1] > t[i][1]
                               \/ s[i][1] = t[i][1] /\ s[i][2] > t[i][2]
    BY <1>8 DEF More
  <2>2. i \in Nat \ {0} /\ S(i) = s[i]
    BY <1>2, <1>5
  <2>3. IdLess(T(i), S(i))
    <3>1. CASE i \in DOMAIN t
      <4>1. T(i) = t[i]
        BY <1>2, <2>2, <3>1
      <4> QED BY <1>3, <2>1, <2>2, <3>1, <4>1 DEF IdLess
    <3>2. CASE i \notin DOMAIN t
      <4>1. T(i) = none
        BY <1>2, <2>2, <3>2
      <4>2. none[1] < s[i][1]
        BY <1>3, <1>4
      <4> QED BY <2>2, <4>1, <4>2 DEF IdLess
    <3> QED BY <3>1, <3>2
  <2>4. \A j \in Nat \ {0} : j < i => T(j) = S(j)
    <3> SUFFICES ASSUME NEW j \in Nat \ {0}, j < i PROVE T(j) = S(j)
      OBVIOUS
    <3>1. j \in DOMAIN s /\ j \in 1 .. i - 1
      BY <1>5, <1>6, <2>2
    <3> QED BY <1>2, <2>1, <3>1
  <2> QED BY <2>2, <2>3, <2>4 DEF Before, S, T
<1>9. ASSUME Before(t, s, FALSE) PROVE More(s, t)
  <2>1. PICK i \in Nat \ {0} :
          /\ IdLess(T(i), S(i))
          /\ \A j \in Nat \ {0} : j < i => T(j) = S(j)
    BY <1>9 DEF Before, S, T
  <2>2. i \in DOMAIN s
    <3> SUFFICES ASSUME i \notin DOMAIN s PROVE FALSE
      OBVIOUS
    <3>1. S(i) = none
      BY <1>2
    <3>2. CASE i \in DOMAIN t
      <4>1. T(i) = t[i] /\ t[i][1] \in Int /\ t[i][1] >= 0
        BY <1>2, <1>3, <3>2
      <4> QED BY <1>4, <2>1, <3>1, <4>1 DEF IdLess
    <3>3. CASE i \notin DOMAIN t
      <4>1. T(i) = none
        BY <1>2, <3>3
      <4> QED BY <1>4, <2>1, <3>1, <4>1 DEF IdLess
    <3> QED BY <3>2, <3>3
  <2>3. \A j \in 1 .. i - 1 : j \in DOMAIN t /\ s[j] = t[j]
    <3> SUFFICES ASSUME NEW j \in 1 .. i - 1 PROVE j \in DOMAIN t /\ s[j] = t[j]
      OBVIOUS
    <3>1. j \in Nat \ {0} /\ j < i
      BY <1>7
    <3>2. j \in DOMAIN s
      BY <1>5, <2>2, <3>1
    <3>3. T(j) = s[j]
      BY <1>2, <2>1, <3>1, <3>2
    <3>4. j \in DOMAIN t
      <4>1. T(j)[1] >= 0 /\ T(j)[1] \in Int
        BY <1>3, <3>2, <3>3
      <4>2. T(j) # none
        BY <1>4, <4>1
      <4> QED BY <1>2, <3>1, <4>2
    <3> QED BY <1>2, <3>1, <3>3, <3>4
  <2>4. ASSUME i \in DOMAIN t
        PROVE  s[i][1] > t[i][1] \/ (s[i][1] = t[i][1] /\ s[i][2] > t[i][2])
    <3>1. S(i) = s[i] /\ T(i) = t[i]
      BY <1>2, <2>2, <2>4
    <3> QED BY <1>3, <2>1, <2>2, <2>4, <3>1 DEF IdLess
  <2> QED BY <2>2, <2>3, <2>4 DEF More
<1> QED BY <1>8, <1>9

\* compare_registry_versions finds a version greater exactly when it is newer in the
\* precedence of semantic versioning.
THEOREM ComparesByPrecedence ==
  ASSUME NEW v \in VersionSet, NEW w \in VersionSet
  PROVE  CompareVersions(v, w) > 0 <=> Newer(v, w)
<1>1. /\ v.core \in Seq({0, 1} \X Nat) /\ w.core \in Seq({0, 1} \X Nat)
      /\ v.pre \in Seq({0, 1} \X Nat) /\ w.pre \in Seq({0, 1} \X Nat)
  BY CoresAreIdentifiers DEF VersionSet
<1> DEFINE n == Len(v.core) + Len(w.core)
           a == Padded(v.core, n)
           b == Padded(w.core, n)
<1>2. Newer(v, w) <=> More(a, b) \/ (a = b /\ ~w.final /\ (v.final \/ More(v.pre, w.pre)))
  BY NewerParts, Zenon
<1>3. (a = b <=> Level(v.core, w.core, TRUE)) /\ (More(a, b) <=> Before(w.core, v.core, TRUE))
  BY <1>1, PaddedOrder, Zenon
<1>4. More(v.pre, w.pre) <=> Before(w.pre, v.pre, FALSE)
  BY <1>1, PrereleaseOrder, Zenon
<1> HIDE DEF a, b
<1>5. CompareVersions(v, w) = 1 <=> Newer(v, w)
  <2>1. CompareVersions(v, w) = 1 <=>
          \/ Before(w.core, v.core, TRUE)
          \/ /\ Level(v.core, w.core, TRUE) /\ ~w.final
             /\ v.final \/ Before(w.pre, v.pre, FALSE)
    BY VersionOrder, Zenon
  <2> QED BY <1>2, <1>3, <1>4, <2>1, Zenon
<1>6. CompareVersions(v, w) \in {-1, 0, 1}
  BY VersionOrder, Zenon
<1>7. CompareVersions(v, w) > 0 <=> CompareVersions(v, w) = 1
  BY <1>6
<1> QED BY <1>5, <1>7, Zenon

-----------------------------------------------------------------------------
\* The selection of a release.

\* What the selection keeps of the best so far, k, and the release at n.
Pick(rs, req, k, n) ==
  IF \/ ~Eligible(rs[n], req)
     \/ k # 0 /\ CompareVersions(rs[k].version, rs[n].version) > 0
  THEN k ELSE n

Selects(f, rs, req, m) == f = [n \in 0 .. m |-> IF n = 0 THEN 0 ELSE Pick(rs, req, f[n - 1], n)]

\* The recursion of SelectRelease defines a function.
LEMMA SelectionExists ==
  ASSUME NEW rs, NEW req
  PROVE  \A m \in Nat : \E f : Selects(f, rs, req, m)
<1> DEFINE T == {m \in Nat : \E f : Selects(f, rs, req, m)}
<1>1. 0 \in T
  <2> DEFINE f == [n \in 0 .. 0 |-> 0]
  <2>1. Selects(f, rs, req, 0)
    BY DEF Selects
  <2> QED BY <2>1
<1>2. ASSUME NEW m \in Nat, m \in T PROVE m + 1 \in T
  <2>1. PICK f : Selects(f, rs, req, m)
    BY <1>2
  <2> DEFINE g == [n \in 0 .. m + 1 |-> IF n <= m THEN f[n] ELSE Pick(rs, req, f[m], m + 1)]
  <2>2. \A n \in 0 .. m : f[n] = IF n = 0 THEN 0 ELSE Pick(rs, req, f[n - 1], n)
    BY <2>1 DEF Selects
  <2>3. \A n \in 0 .. m + 1 : g[n] = IF n = 0 THEN 0 ELSE Pick(rs, req, g[n - 1], n)
    <3> SUFFICES ASSUME NEW n \in 0 .. m + 1
                 PROVE  g[n] = IF n = 0 THEN 0 ELSE Pick(rs, req, g[n - 1], n)
      OBVIOUS
    <3>1. CASE n = 0
      BY <2>2, <3>1
    <3>2. CASE n # 0 /\ n <= m
      <4>1. g[n] = f[n] /\ g[n - 1] = f[n - 1] /\ n \in 0 .. m
        BY <3>2
      <4> QED BY <2>2, <3>2, <4>1
    <3>3. CASE n = m + 1
      <4>1. g[n] = Pick(rs, req, f[m], m + 1) /\ n - 1 = m /\ m \in 0 .. m + 1 /\ m <= m
        BY <3>3
      <4>2. g[m] = f[m]
        BY <4>1
      <4> HIDE DEF g
      <4> QED BY <3>3, <4>1, <4>2
    <3> QED BY <3>1, <3>2, <3>3
  <2>4. g = [n \in 0 .. m + 1 |-> IF n = 0 THEN 0 ELSE Pick(rs, req, g[n - 1], n)]
    <3>1. g = [n \in 0 .. m + 1 |-> g[n]]
      OBVIOUS
    <3> HIDE DEF g
    <3> QED BY <2>3, <3>1
  <2> HIDE DEF g
  <2>5. Selects(g, rs, req, m + 1)
    BY <2>4 DEF Selects
  <2> QED BY <2>5
<1> HIDE DEF T
<1>3. \A m \in Nat : m \in T
  BY <1>1, <1>2, Induction
<1> QED BY <1>3 DEF T

\* What is selected of the first m releases is the greatest of those that pass the filters.
Greatest(rs, req, k, m) ==
  LET fit == {i \in 1 .. m : Eligible(rs[i], req)} IN
  IF fit = {} THEN k = 0
  ELSE k \in fit /\ \A i \in fit : CompareVersions(rs[i].version, rs[k].version) <= 0

\* One more release.
LEMMA PickGreatest ==
  ASSUME NEW rs \in Seq(Releases), NEW req, NEW m \in Nat, m + 1 <= Len(rs), NEW k,
         Greatest(rs, req, k, m)
  PROVE  Greatest(rs, req, Pick(rs, req, k, m + 1), m + 1)
<1> DEFINE fit == {i \in 1 .. m : Eligible(rs[i], req)}
           now == {i \in 1 .. m + 1 : Eligible(rs[i], req)}
           p == Pick(rs, req, k, m + 1)
           V(i) == rs[i].version
<1>0. Greatest(rs, req, p, m + 1) <=>
        IF now = {} THEN p = 0
        ELSE p \in now /\ \A i \in now : CompareVersions(V(i), V(p)) <= 0
  BY Zenon DEF Greatest
<1>1. \A i \in 1 .. m + 1 : V(i) \in VersionSet
  <2>1. Len(rs) \in Nat /\ \A i \in 1 .. Len(rs) : rs[i] \in Releases
    OBVIOUS
  <2>2. \A i \in 1 .. m + 1 : i \in 1 .. Len(rs)
    BY <2>1
  <2> QED BY <2>1, <2>2, RegistryVersions DEF Releases, VersionSet
<1>2. m + 1 \in 1 .. m + 1 /\ \A i \in 1 .. m : i \in 1 .. m + 1 /\ i # 0
  OBVIOUS
<1>3. \A i \in 1 .. m + 1 : i \in 1 .. m \/ i = m + 1
  OBVIOUS
<1>4. CASE ~Eligible(rs[m + 1], req)
  <2>1. now = fit
    BY <1>2, <1>3, <1>4
  <2>2. p = k
    BY <1>4 DEF Pick
  <2> QED BY <2>1, <2>2 DEF Greatest
<1>5. CASE Eligible(rs[m + 1], req)
  <2>1. now = fit \cup {m + 1}
    BY <1>2, <1>3, <1>5
  <2>2. CASE fit = {}
    <3>1. k = 0
      BY <2>2 DEF Greatest
    <3>2. p = m + 1
      BY <1>5, <3>1 DEF Pick
    <3>3. CompareVersions(V(m + 1), V(m + 1)) <= 0
      <4>1. CompareVersions(V(m + 1), V(m + 1)) = 0
        BY <1>1, <1>2, VersionsOrdered
      <4> QED BY <4>1
    <3>4. now = {m + 1}
      BY <2>1, <2>2
    <3>5. p \in now /\ \A i \in now : CompareVersions(V(i), V(p)) <= 0
      BY <3>2, <3>3, <3>4
    <3> QED BY <1>0, <3>5, Zenon
  <2>3. CASE fit # {}
    <3>1. k \in fit /\ \A i \in fit : CompareVersions(V(i), V(k)) <= 0
      BY <2>3 DEF Greatest
    <3>2. k # 0 /\ k \in 1 .. m + 1 /\ V(k) \in VersionSet /\ V(m + 1) \in VersionSet
      BY <1>1, <1>2, <3>1
    <3>3. CASE CompareVersions(V(k), V(m + 1)) > 0
      <4>1. p = k
        BY <3>2, <3>3 DEF Pick
      <4>2. CompareVersions(V(m + 1), V(k)) <= 0
        BY <3>2, <3>3, VersionsOrdered
      <4>3. p \in now /\ \A i \in now : CompareVersions(V(i), V(p)) <= 0
        BY <2>1, <3>1, <4>1, <4>2
      <4> QED BY <1>0, <4>3, Zenon
    <3>4. CASE ~(CompareVersions(V(k), V(m + 1)) > 0)
      <4>1. p = m + 1
        BY <1>5, <3>4 DEF Pick
      <4>2. CompareVersions(V(k), V(m + 1)) <= 0
        <5>1. CompareVersions(V(k), V(m + 1)) \in {-1, 0, 1}
          BY <3>2, VersionOrder, Zenon
        <5> QED BY <3>4, <5>1
      <4>3. \A i \in fit : CompareVersions(V(i), V(m + 1)) <= 0
        <5> SUFFICES ASSUME NEW i \in fit PROVE CompareVersions(V(i), V(m + 1)) <= 0
          OBVIOUS
        <5>1. V(i) \in VersionSet /\ CompareVersions(V(i), V(k)) <= 0
          BY <1>1, <1>2, <3>1
        <5> QED BY <3>2, <4>2, <5>1, VersionsOrdered
      <4>4. CompareVersions(V(m + 1), V(m + 1)) <= 0
        <5>1. CompareVersions(V(m + 1), V(m + 1)) = 0
          BY <3>2, VersionsOrdered
        <5> QED BY <5>1
      <4>5. p \in now /\ \A i \in now : CompareVersions(V(i), V(p)) <= 0
        BY <2>1, <4>1, <4>3, <4>4
      <4> QED BY <1>0, <4>5, Zenon
    <3> QED BY <3>3, <3>4
  <2> QED BY <2>2, <2>3
<1> QED BY <1>4, <1>5

\* SelectRelease returns the greatest release that passes the filters, for every list of
\* releases.
THEOREM SelectsGreatest ==
  ASSUME NEW rs \in Seq(Releases), NEW req
  PROVE  Greatest(rs, req, SelectRelease(rs, req), Len(rs))
<1> DEFINE N == Len(rs)
           best == CHOOSE f : Selects(f, rs, req, N)
<1>1. N \in Nat
  OBVIOUS
<1>2. SelectRelease(rs, req) = best[N]
  BY DEF SelectRelease, Selects, Pick
<1>3. Selects(best, rs, req, N)
  BY <1>1, SelectionExists
<1> HIDE DEF best, N
<1>4. \A n \in 0 .. N : best[n] = IF n = 0 THEN 0 ELSE Pick(rs, req, best[n - 1], n)
  BY <1>3 DEF Selects
<1> DEFINE T == {n \in Nat : n <= N => Greatest(rs, req, best[n], n)}
<1>5. 0 \in T
  <2>1. best[0] = 0
    BY <1>1, <1>4
  <2>2. {i \in 1 .. 0 : Eligible(rs[i], req)} = {}
    OBVIOUS
  <2>3. Greatest(rs, req, best[0], 0)
    BY <2>1, <2>2 DEF Greatest
  <2> QED BY <2>3
<1>6. ASSUME NEW n \in Nat, n \in T PROVE n + 1 \in T
  <2>1. ASSUME n + 1 <= N PROVE Greatest(rs, req, best[n + 1], n + 1)
    <3>1. n + 1 \in 0 .. N /\ n + 1 # 0 /\ (n + 1) - 1 = n /\ n <= N
      BY <1>1, <2>1
    <3>2. best[n + 1] = Pick(rs, req, best[n], n + 1)
      BY <1>4, <3>1
    <3>3. Greatest(rs, req, best[n], n)
      BY <1>6, <3>1
    <3>4. n + 1 <= Len(rs)
      BY <2>1 DEF N
    <3> QED BY <3>2, <3>3, <3>4, PickGreatest
  <2> QED BY <2>1
<1> HIDE DEF T
<1>7. \A n \in Nat : n \in T
  BY <1>5, <1>6, Induction
<1>8. Greatest(rs, req, best[N], N)
  BY <1>1, <1>7 DEF T
<1> QED BY <1>2, <1>8 DEF N

\* In every state that keeps the types, resolution selects a newest release.
LEMMA SelectsNewest == Types => RegistryNewest
<1> SUFFICES ASSUME Types, NEW req \in Requirements
             PROVE  LET fit == {i \in DOMAIN releases : Eligible(releases[i], req)}
                        s == SelectRelease(releases, req)
                    IN IF fit = {} THEN s = 0
                       ELSE /\ s \in fit
                            /\ \A i \in fit : ~Newer(releases[i].version, releases[s].version)
  BY DEF RegistryNewest
<1> DEFINE fit == {i \in DOMAIN releases : Eligible(releases[i], req)}
           s == SelectRelease(releases, req)
<1>1. releases \in Seq(Releases)
  BY DEF Types
<1>2. DOMAIN releases = 1 .. Len(releases) /\ \A i \in DOMAIN releases : releases[i] \in Releases
  BY <1>1
<1>3. Greatest(releases, req, s, Len(releases))
  BY <1>1, SelectsGreatest
<1>4. \A i \in DOMAIN releases : releases[i].version \in VersionSet
  BY <1>2, RegistryVersions DEF Releases, VersionSet
<1> HIDE DEF s
<1>5. /\ fit = {} => s = 0
      /\ fit # {} => s \in fit /\ \A i \in fit :
           CompareVersions(releases[i].version, releases[s].version) <= 0
  BY <1>2, <1>3 DEF Greatest
<1>6. ASSUME fit # {}, NEW i \in fit PROVE ~Newer(releases[i].version, releases[s].version)
  <2>1. /\ releases[i].version \in VersionSet /\ releases[s].version \in VersionSet
        /\ CompareVersions(releases[i].version, releases[s].version) <= 0
    BY <1>4, <1>5, <1>6
  <2>2. CompareVersions(releases[i].version, releases[s].version) \in {-1, 0, 1}
    BY <2>1, VersionOrder
  <2> QED BY <2>1, <2>2, ComparesByPrecedence
<1> QED BY <1>5, <1>6 DEF s

\* Releases published and yanked in any order, by any publishers, and any requirement:
\* resolution selects one that passes the filters and none newer.
THEOREM NewestIsSelected == RegistrySpec => []RegistryNewest
<1>1. RegistryInv => RegistryNewest
  BY SelectsNewest DEF RegistryInv
<1> QED BY RegistryStarts, RegistryPreserved, <1>1, PTL DEF RegistrySpec
=============================================================================
