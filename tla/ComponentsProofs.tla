-------------------------- MODULE ComponentsProofs ---------------------------
(***************************************************************************)
(* The components of Components, each for every value of its constants:    *)
(* a package that is loaded is one whole distribution (Prefetch); the      *)
(* version of a database is what was applied to it (Migrate); what a build *)
(* has recorded stays (BuildDbOpen), but for the meetings that these       *)
(* modules name; what the user has saved survives (Install); a cycle       *)
(* among libraries is found if there is one (CycleSearch); and archives    *)
(* are linked in the right order (UsagePaths).                             *)
(***************************************************************************)
EXTENDS Components, RunProcProofs, Integers


Chosen == P!FetchState \ {"start", "no_such_pkg"}

HaveDirectory == {"expand", "load", "loaded", "unreadable"}

Enabled == {<<a>> : a \in Remotes} \cup {<<a, b>> : a, b \in Remotes}

(* Who has chosen knows which revision, and from which remote.             *)
ChoiceIsMade ==
    /\ listing \in [Remotes -> SUBSET Revisions]
    /\ enabled \in [Fetchers -> Enabled]
    /\ \A p \in Fetchers : fpc[p] \in Chosen => wanted[p] \in Revisions /\ from[p] \in Remotes

(* Directories are never removed. *)
DirectoryStays == \A p \in Fetchers : fpc[p] \in HaveDirectory => dir[wanted[p]].exists

(* An undisturbed expansion has the directory for itself, and what it has  *)
(* put there is all from its remote, which lists the revision.             *)
ExpandsAlone ==
    \A p \in Fetchers : fpc[p] = "expand" /\ wanted[p] \notin disturbed =>
        /\ wanted[p] \in listing[from[p]]
        /\ \A f \in P!PackageFiles \ todo[p] : dir[wanted[p]].files[f] = from[p]
        /\ \A q \in Fetchers : wanted[q] = wanted[p] /\ fpc[q] \in HaveDirectory => q = p

Whole(list, found, r) ==
    \E m \in Remotes : r \in list[m] /\ found = [f \in P!PackageFiles |-> m]

(* A directory that nobody expands is whole, if nobody has disturbed it.   *)
LeftWhole ==
    \A r \in Revisions \ disturbed :
        dir[r].exists /\ P!Expanding(r) = {} => Whole(listing, dir[r].files, r)

LoadedWhole ==
    \A p \in Fetchers : wanted[p] \notin disturbed =>
        fpc[p] # "unreadable" /\ (fpc[p] = "loaded" => Whole(listing, loaded[p], wanted[p]))

PInv == /\ P!TypeOK
        /\ ChoiceIsMade
        /\ DirectoryStays
        /\ ExpandsAlone
        /\ LeftWhole
        /\ LoadedWhole

LEMMA InitPInv == P!Init => PInv
<1> SUFFICES ASSUME P!Init PROVE PInv
  OBVIOUS
<1> USE DEF P!Init
<1>1. P!TypeOK
  BY DEF P!TypeOK, P!FetchState
<1>2. ChoiceIsMade
  BY DEF ChoiceIsMade, Chosen, Enabled
<1>3. DirectoryStays /\ ExpandsAlone /\ LeftWhole /\ LoadedWhole
  BY DEF DirectoryStays, HaveDirectory, ExpandsAlone, LeftWhole, LoadedWhole
<1>4. QED
  BY <1>1, <1>2, <1>3 DEF PInv

(* FirstOffering is one of the enabled remotes. *)
LEMMA FirstOfferingIsEnabled ==
  ASSUME ChoiceIsMade, NEW p \in Fetchers, P!Offering(p) # {}
  PROVE  P!FirstOffering(p) \in Remotes
<1>1. enabled[p] \in Enabled
  BY DEF ChoiceIsMade
<1>2. P!Offering(p) \subseteq 1..2
  BY <1>1 DEF Enabled, P!Offering
<1>3. \E i \in P!Offering(p) : \A j \in P!Offering(p) : i <= j
  BY <1>2
<1>4. PICK i \in P!Offering(p) : enabled[p][i] = P!FirstOffering(p)
  BY <1>3 DEF P!FirstOffering
<1>5. i \in DOMAIN enabled[p]
  BY DEF P!Offering
<1>6. QED
  BY <1>1, <1>4, <1>5 DEF Enabled

LEMMA ChooseKeepsPInv ==
  ASSUME PInv, NEW p \in Fetchers, P!NoSuchPkg(p) \/ P!Choose(p)
  PROVE  PInv'
<1> USE DEF PInv, P!Go
<1>1. CASE P!NoSuchPkg(p)
  <2> USE <1>1 DEF P!NoSuchPkg
  <2>1. P!TypeOK' /\ ChoiceIsMade'
    BY DEF P!TypeOK, ChoiceIsMade, P!FetchState, Chosen
  <2>2. DirectoryStays' /\ ExpandsAlone' /\ LoadedWhole'
    BY DEF P!TypeOK, DirectoryStays, HaveDirectory, ExpandsAlone, LoadedWhole
  <2>3. LeftWhole'
    BY DEF P!TypeOK, LeftWhole, P!Expanding
  <2>4. QED
    BY <2>1, <2>2, <2>3
<1>2. CASE P!Choose(p)
  <2> USE <1>2 DEF P!Choose
  <2>1. P!FirstOffering(p) \in Remotes
    BY FirstOfferingIsEnabled
  <2>2. PICK r \in listing[P!FirstOffering(p)] :
            wanted' = [wanted EXCEPT ![p] = IF @ = 0 THEN r ELSE @]
    OBVIOUS
  <2>3. r \in Revisions
    BY <2>1 DEF ChoiceIsMade
  <2>4. P!TypeOK' /\ ChoiceIsMade'
    BY <2>1, <2>2, <2>3 DEF P!TypeOK, ChoiceIsMade, P!FetchState, Chosen
  <2>5. DirectoryStays' /\ ExpandsAlone' /\ LoadedWhole'
    BY <2>2 DEF P!TypeOK, DirectoryStays, HaveDirectory, ExpandsAlone, LoadedWhole
  <2>6. LeftWhole'
    BY <2>2 DEF P!TypeOK, LeftWhole, P!Expanding
  <2>7. QED
    BY <2>4, <2>5, <2>6
<1>3. QED
  BY <1>1, <1>2

(* A process that finds a directory: if somebody is expanding it, this     *)
(* disturbs; or else it is whole.                                          *)
LEMMA FetchingKeepsPInv ==
  ASSUME PInv, NEW p \in Fetchers,
         P!UseExisting(p) \/ P!Fetch(p) \/ P!Download(p) \/ P!FetchFails(p) \/ P!OpenArchive(p)
  PROVE  PInv'
<1> USE DEF PInv, P!Go
<1>1. CASE P!UseExisting(p)
  <2> USE <1>1 DEF P!UseExisting
  <2>1. P!TypeOK' /\ ChoiceIsMade'
    BY DEF P!TypeOK, ChoiceIsMade, P!FetchState, Chosen
  <2>2. DirectoryStays' /\ LoadedWhole'
    BY DEF P!TypeOK, DirectoryStays, HaveDirectory, LoadedWhole
  <2>3. ExpandsAlone'
    BY DEF P!TypeOK, ExpandsAlone, HaveDirectory, P!Expanding
  <2>4. LeftWhole'
    BY DEF P!TypeOK, LeftWhole, P!Expanding
  <2>5. QED
    BY <2>1, <2>2, <2>3, <2>4
<1>2. CASE P!Fetch(p)
  <2> USE <1>2 DEF P!Fetch
  <2>1. fpc[p] = "look" /\ fpc'[p] \in {"open", "download"}
    BY DEF P!TypeOK
  <2>2. P!TypeOK' /\ ChoiceIsMade'
    BY DEF P!TypeOK, ChoiceIsMade, P!FetchState, Chosen
  <2>3. DirectoryStays' /\ ExpandsAlone' /\ LoadedWhole'
    BY <2>1 DEF P!TypeOK, DirectoryStays, HaveDirectory, ExpandsAlone, LoadedWhole
  <2>4. LeftWhole'
    BY <2>1 DEF P!TypeOK, LeftWhole, P!Expanding
  <2>5. QED
    BY <2>2, <2>3, <2>4
<1>3. CASE P!Download(p)
  <2> USE <1>3 DEF P!Download
  <2>1. P!TypeOK' /\ ChoiceIsMade'
    BY DEF P!TypeOK, ChoiceIsMade, P!FetchState, Chosen
  <2>2. DirectoryStays' /\ ExpandsAlone' /\ LoadedWhole'
    BY DEF P!TypeOK, DirectoryStays, HaveDirectory, ExpandsAlone, LoadedWhole
  <2>3. LeftWhole'
    BY DEF P!TypeOK, LeftWhole, P!Expanding
  <2>4. QED
    BY <2>1, <2>2, <2>3
<1>4. CASE P!FetchFails(p)
  <2> USE <1>4 DEF P!FetchFails
  <2>1. P!TypeOK' /\ ChoiceIsMade'
    BY DEF P!TypeOK, ChoiceIsMade, P!FetchState, Chosen
  <2>2. DirectoryStays' /\ ExpandsAlone' /\ LoadedWhole'
    BY DEF P!TypeOK, DirectoryStays, HaveDirectory, ExpandsAlone, LoadedWhole
  <2>3. LeftWhole'
    BY DEF P!TypeOK, LeftWhole, P!Expanding
  <2>4. QED
    BY <2>1, <2>2, <2>3
<1>5. CASE P!OpenArchive(p)
  <2> USE <1>5 DEF P!OpenArchive, P!MakeDirectory
  <2>1. wanted[p] \in Revisions /\ from[p] \in Remotes
    BY DEF ChoiceIsMade, Chosen, P!FetchState
  <2>2. P!TypeOK' /\ ChoiceIsMade'
    BY <2>1 DEF P!TypeOK, ChoiceIsMade, P!FetchState, Chosen
  <2>3. /\ \A r \in Revisions : dir'[r].files = dir[r].files
        /\ \A r \in Revisions : dir'[r].exists <=> dir[r].exists \/ r = wanted[p]
    BY <2>1 DEF P!TypeOK
  <2>4. DirectoryStays'
    BY <2>1, <2>3 DEF P!TypeOK, ChoiceIsMade, Chosen, P!FetchState, DirectoryStays, HaveDirectory
  <2>5. LoadedWhole'
    BY DEF P!TypeOK, LoadedWhole
  <2>6. ExpandsAlone'
    <3>1. wanted[p] \notin disturbed' =>
              ~dir[wanted[p]].exists /\ wanted[p] \notin disturbed
      OBVIOUS
    <3>2. ASSUME NEW q \in Fetchers, fpc'[q] = "expand", wanted[q] \notin disturbed'
          PROVE  /\ wanted[q] \in listing[from[q]]
                 /\ \A f \in P!PackageFiles \ todo'[q] : dir'[wanted[q]].files[f] = from[q]
                 /\ \A k \in Fetchers : wanted[k] = wanted[q] /\ fpc'[k] \in HaveDirectory => k = q
      <4>1. CASE q = p
        BY <3>1, <3>2, <4>1 DEF P!TypeOK, DirectoryStays, HaveDirectory
      <4>2. CASE q # p
        <5>1. fpc[q] = "expand" /\ wanted[q] \notin disturbed /\ wanted[q] \in Revisions
          BY <3>2, <4>2 DEF P!TypeOK, ChoiceIsMade, Chosen, P!FetchState
        <5>2. wanted[q] # wanted[p]
          BY <3>1, <3>2, <5>1 DEF DirectoryStays, HaveDirectory
        <5>3. QED
          BY <2>3, <3>2, <4>2, <5>1, <5>2 DEF P!TypeOK, ExpandsAlone, HaveDirectory
      <4>3. QED
        BY <4>1, <4>2
    <3>3. QED
      BY <3>2 DEF ExpandsAlone
  <2>7. LeftWhole'
    <3>1. ASSUME NEW r \in Revisions, r \notin disturbed', dir'[r].exists, P!Expanding(r)' = {}
          PROVE  Whole(listing, dir'[r].files, r)
      <4>1. p \in P!Expanding(wanted[p])'
        BY DEF P!TypeOK, P!Expanding
      <4>2. r # wanted[p]
        BY <3>1, <4>1
      <4>3. P!Expanding(r) = {} /\ r \notin disturbed /\ dir[r].exists
        BY <2>3, <3>1, <4>2 DEF P!TypeOK, P!Expanding
      <4>4. QED
        BY <2>3, <4>3 DEF LeftWhole
    <3>2. QED
      BY <3>1 DEF LeftWhole
  <2>8. QED
    BY <2>2, <2>4, <2>5, <2>6, <2>7
<1>6. QED
  BY <1>1, <1>2, <1>3, <1>4, <1>5

LEMMA ExpandingKeepsPInv ==
  ASSUME PInv, NEW p \in Fetchers,
         (\E f \in P!PackageFiles : P!ExpandFile(p, f)) \/ P!Expanded(p) \/ P!Break(p)
  PROVE  PInv'
<1> USE DEF PInv, P!Go
<1>1. ASSUME NEW f \in P!PackageFiles, P!ExpandFile(p, f)
      PROVE  PInv'
  <2> USE <1>1 DEF P!ExpandFile
  <2>1. wanted[p] \in Revisions /\ from[p] \in Remotes
    BY DEF ChoiceIsMade, Chosen, P!FetchState
  <2>2. P!TypeOK' /\ ChoiceIsMade'
    BY <2>1 DEF P!TypeOK, ChoiceIsMade, P!FetchState, Chosen
  <2>3. /\ \A r \in Revisions : dir'[r].exists = dir[r].exists
        /\ \A r \in Revisions \ {wanted[p]} : dir'[r] = dir[r]
        /\ dir'[wanted[p]].files[f] = from[p]
        /\ \A g \in P!PackageFiles \ {f} : dir'[wanted[p]].files[g] = dir[wanted[p]].files[g]
    BY <2>1 DEF P!TypeOK
  <2>4. DirectoryStays' /\ LoadedWhole'
    BY <2>3 DEF P!TypeOK, ChoiceIsMade, Chosen, P!FetchState, DirectoryStays, HaveDirectory,
                LoadedWhole
  <2>5. ExpandsAlone'
    <3>1. ASSUME NEW q \in Fetchers, fpc[q] = "expand", wanted[q] \notin disturbed,
                 NEW g \in P!PackageFiles \ todo'[q]
          PROVE  dir'[wanted[q]].files[g] = from[q]
      <4>1. CASE q = p
        BY <2>3, <3>1, <4>1 DEF P!TypeOK, ExpandsAlone
      <4>2. CASE q # p
        <5>1. wanted[q] # wanted[p] /\ wanted[q] \in Revisions
          BY <3>1, <4>2 DEF ExpandsAlone, HaveDirectory, ChoiceIsMade, Chosen, P!FetchState
        <5>2. QED
          BY <2>3, <3>1, <4>2, <5>1 DEF P!TypeOK, ExpandsAlone
      <4>3. QED
        BY <4>1, <4>2
    <3>2. QED
      BY <3>1 DEF ExpandsAlone
  <2>6. LeftWhole'
    <3>1. p \in P!Expanding(wanted[p]) /\ \A r \in Revisions : P!Expanding(r)' = P!Expanding(r)
      BY DEF P!Expanding
    <3>2. QED
      BY <2>3, <3>1 DEF LeftWhole
  <2>7. QED
    BY <2>2, <2>4, <2>5, <2>6
<1>2. CASE P!Expanded(p)
  <2> USE <1>2 DEF P!Expanded
  <2>1. P!TypeOK' /\ ChoiceIsMade'
    BY DEF P!TypeOK, ChoiceIsMade, P!FetchState, Chosen
  <2>2. DirectoryStays' /\ ExpandsAlone' /\ LoadedWhole'
    BY DEF P!TypeOK, DirectoryStays, HaveDirectory, ExpandsAlone, LoadedWhole
  <2>3. LeftWhole'
    <3>1. ASSUME NEW r \in Revisions, r \notin disturbed, dir[r].exists, P!Expanding(r)' = {}
          PROVE  Whole(listing, dir[r].files, r)
      <4>1. CASE r = wanted[p]
        <5>1. from[p] \in Remotes /\ r \in listing[from[p]]
          BY <3>1, <4>1 DEF ExpandsAlone, ChoiceIsMade, Chosen, P!FetchState
        <5>2. \A f \in P!PackageFiles : dir[r].files[f] = from[p]
          BY <3>1, <4>1 DEF ExpandsAlone
        <5>3. dir[r].files = [f \in P!PackageFiles |-> from[p]]
          BY <3>1, <5>2 DEF P!TypeOK
        <5>4. QED
          BY <5>1, <5>3 DEF Whole
      <4>2. CASE r # wanted[p]
        <5>1. P!Expanding(r) = {}
          BY <3>1, <4>2 DEF P!TypeOK, P!Expanding
        <5>2. QED
          BY <3>1, <5>1 DEF LeftWhole
      <4>3. QED
        BY <4>1, <4>2
    <3>2. QED
      BY <3>1 DEF LeftWhole
  <2>4. QED
    BY <2>1, <2>2, <2>3
<1>3. CASE P!Break(p)
  <2> USE <1>3 DEF P!Break
  <2>1. P!TypeOK' /\ ChoiceIsMade'
    BY DEF P!TypeOK, ChoiceIsMade, P!FetchState, Chosen
  <2>2. DirectoryStays' /\ ExpandsAlone' /\ LoadedWhole'
    BY DEF P!TypeOK, DirectoryStays, HaveDirectory, ExpandsAlone, LoadedWhole
  <2>3. LeftWhole'
    BY DEF P!TypeOK, LeftWhole, P!Expanding
  <2>4. QED
    BY <2>1, <2>2, <2>3
<1>4. QED
  BY <1>1, <1>2, <1>3

(* A directory that is whole can be read, as no remote is Absent.          *)
LEMMA LoadingKeepsPInv ==
  ASSUME Absent \notin Remotes, PInv, NEW p \in Fetchers, P!Load(p) \/ P!LoadFails(p)
  PROVE  PInv'
<1> USE DEF PInv, P!Go
<1>1. wanted[p] \in Revisions /\ fpc[p] = "load"
  BY DEF P!Load, P!LoadFails, ChoiceIsMade, Chosen, P!FetchState
<1>2. wanted[p] \notin disturbed => Whole(listing, dir[wanted[p]].files, wanted[p])
  <2>1. dir[wanted[p]].exists
    BY <1>1 DEF DirectoryStays, HaveDirectory
  <2>2. wanted[p] \notin disturbed => P!Expanding(wanted[p]) = {}
    BY <1>1 DEF ExpandsAlone, HaveDirectory, P!Expanding
  <2>3. QED
    BY <1>1, <2>1, <2>2 DEF LeftWhole
<1>3. CASE P!Load(p)
  <2> USE <1>3 DEF P!Load
  <2>1. P!TypeOK' /\ ChoiceIsMade'
    BY <1>1 DEF P!TypeOK, ChoiceIsMade, P!FetchState, Chosen
  <2>2. DirectoryStays' /\ ExpandsAlone'
    BY DEF P!TypeOK, DirectoryStays, HaveDirectory, ExpandsAlone
  <2>3. LeftWhole' /\ LoadedWhole'
    BY <1>1, <1>2 DEF P!TypeOK, LeftWhole, LoadedWhole, P!Expanding
  <2>4. QED
    BY <2>1, <2>2, <2>3
<1>4. CASE P!LoadFails(p)
  <2> USE <1>4 DEF P!LoadFails
  <2>1. P!TypeOK' /\ ChoiceIsMade'
    BY DEF P!TypeOK, ChoiceIsMade, P!FetchState, Chosen
  <2>2. DirectoryStays' /\ ExpandsAlone'
    BY DEF P!TypeOK, DirectoryStays, HaveDirectory, ExpandsAlone
  <2>3. wanted[p] \in disturbed
    BY <1>2 DEF Whole, P!PackageFiles
  <2>4. LeftWhole' /\ LoadedWhole'
    BY <2>3 DEF P!TypeOK, LeftWhole, LoadedWhole, P!Expanding
  <2>5. QED
    BY <2>1, <2>2, <2>4
<1>5. QED
  BY <1>3, <1>4

LEMMA StutteringKeepsPInv ==
  ASSUME PInv, UNCHANGED P!fetchVars
  PROVE  PInv'
BY DEF P!fetchVars, PInv, P!TypeOK, ChoiceIsMade, DirectoryStays, ExpandsAlone, LeftWhole,
       LoadedWhole, P!Expanding

LEMMA SpecPInv == ASSUME Absent \notin Remotes PROVE P!Spec => []PInv
<1>1. PInv /\ [P!Next]_(P!fetchVars) => PInv'
  BY ChooseKeepsPInv, FetchingKeepsPInv, ExpandingKeepsPInv, LoadingKeepsPInv, StutteringKeepsPInv
  DEF P!Next
<1>2. QED
  BY <1>1, InitPInv, PTL DEF P!Spec

(* What a build loads from the package cache is the distribution of one    *)
(* remote that lists the revision (crs/cache.cpp:45-71), unless an         *)
(* expansion into its directory was disturbed.                             *)
THEOREM LoadedIsOneDistribution ==
  ASSUME Absent \notin Remotes PROVE P!Spec => []LoadsOneDistribution
<1>1. PInv => LoadsOneDistribution
  BY DEF PInv, LoadedWhole, Whole, LoadsOneDistribution, P!LoadsOneDistribution
<1>2. QED
  BY <1>1, SpecPInv, PTL
-----------------------------------------------------------------------------
Migrating == {"migrating", "updated"}

UsersAreKnown == Known \in [Users -> Nat] /\ NoUser \notin Users

(* The lock is with who migrates. *)
WriterHasLock == /\ mpc \in [Users -> M!MigrateState]
                 /\ \A p \in Users : mpc[p] \in Migrating <=> lock = p

(* The version is the number of some release. *)
VersionIsOfRelease == /\ version \in Nat
                      /\ version = 0 \/ \E q \in Users : version = Known[q]
                      /\ setBack \in BOOLEAN
                      /\ setBack => \E p, q \in Users : Known[p] < Known[q]

(* Who goes on has not seen a version that it does not know, and, unless   *)
(* one was set back, none that is higher than the present one.             *)
SeenIsNotNewer ==
    /\ seen \in [Users -> Nat]
    /\ \A p \in Users :
          /\ mpc[p] \in {"read", "migrating", "updated"} => seen[p] <= Known[p]
          /\ ~setBack /\ mpc[p] = "read" => seen[p] <= version
          /\ mpc[p] = "updated" => seen[p] = Known[p]

(* A transaction has applied nothing yet, or exactly what was missing: who *)
(* has seen too low a version cannot apply anything.                       *)
WorksOnWhatIsMissing ==
    ~setBack => \A p \in Users : mpc[p] \in Migrating =>
        \/ seen[p] <= version /\ working = applied
        \/ seen[p] > version /\ working = 1..seen[p]

AppliedToVersion == ~setBack => applied = 1..version

MInv == /\ WriterHasLock
        /\ VersionIsOfRelease
        /\ SeenIsNotNewer
        /\ WorksOnWhatIsMissing
        /\ AppliedToVersion

LEMMA InitMInv == ASSUME UsersAreKnown PROVE M!Init => MInv
<1> SUFFICES ASSUME M!Init PROVE MInv
  OBVIOUS
<1> USE DEF UsersAreKnown, M!Init, Migrating
<1>1. WriterHasLock
  BY DEF WriterHasLock, M!MigrateState
<1>2. VersionIsOfRelease /\ SeenIsNotNewer
  BY DEF VersionIsOfRelease, SeenIsNotNewer
<1>3. WorksOnWhatIsMissing /\ AppliedToVersion
  BY DEF WorksOnWhatIsMissing, AppliedToVersion
<1>4. QED
  BY <1>1, <1>2, <1>3 DEF MInv

LEMMA OpeningKeepsMInv ==
  ASSUME UsersAreKnown, MInv, NEW p \in Users, M!OpenDb(p) \/ M!ReadVersion(p) \/ M!BeginMigration(p)
  PROVE  MInv'
<1> USE DEF UsersAreKnown, MInv, M!Go, Migrating
<1>1. CASE M!OpenDb(p)
  BY <1>1 DEF M!OpenDb, WriterHasLock, VersionIsOfRelease, SeenIsNotNewer,
              WorksOnWhatIsMissing, AppliedToVersion, M!MigrateState
<1>2. CASE M!ReadVersion(p)
  BY <1>2 DEF M!ReadVersion, WriterHasLock, VersionIsOfRelease, SeenIsNotNewer,
              WorksOnWhatIsMissing, AppliedToVersion, M!MigrateState
<1>3. CASE M!BeginMigration(p)
  BY <1>3 DEF M!BeginMigration, WriterHasLock, VersionIsOfRelease, SeenIsNotNewer,
              WorksOnWhatIsMissing, AppliedToVersion, M!MigrateState
<1>4. QED
  BY <1>1, <1>2, <1>3

LEMMA MigratingKeepsMInv ==
  ASSUME UsersAreKnown, MInv, NEW p \in Users,
         M!ApplyNext(p) \/ M!MigrationFails(p) \/ M!UpdateVersion(p) \/ M!Crash(p)
  PROVE  MInv'
<1> USE DEF UsersAreKnown, MInv, M!Go, Migrating
<1>1. CASE M!ApplyNext(p)
  <2> USE <1>1 DEF M!ApplyNext, M!Missing, M!Applicable
  <2>1. seen[p] \in Nat /\ Known[p] \in Nat /\ seen[p] + 1 <= Known[p] /\ version \in Nat
    BY DEF SeenIsNotNewer, VersionIsOfRelease
  <2>2. WriterHasLock' /\ VersionIsOfRelease' /\ SeenIsNotNewer' /\ AppliedToVersion'
    BY <2>1 DEF WriterHasLock, VersionIsOfRelease, SeenIsNotNewer, AppliedToVersion
  <2>3. ~setBack => seen[p] >= version /\ working = 1..seen[p]
    BY <2>1 DEF WorksOnWhatIsMissing, AppliedToVersion
  <2>4. ~setBack => working' = 1..(seen[p] + 1)
    BY <2>1, <2>3
  <2>5. \A q \in Users : mpc[q] \in Migrating => q = p
    BY DEF WriterHasLock
  <2>6. WorksOnWhatIsMissing'
    BY <2>1, <2>3, <2>4, <2>5 DEF WorksOnWhatIsMissing, SeenIsNotNewer
  <2>7. QED
    BY <2>2, <2>6
<1>2. CASE M!MigrationFails(p)
  BY <1>2 DEF M!MigrationFails, M!RollBack, WriterHasLock, VersionIsOfRelease, SeenIsNotNewer,
              WorksOnWhatIsMissing, AppliedToVersion, M!MigrateState
<1>3. CASE M!UpdateVersion(p)
  <2>1. seen[p] = Known[p]
    BY <1>3 DEF M!UpdateVersion, M!Missing, SeenIsNotNewer
  <2>2. QED
    BY <1>3, <2>1 DEF M!UpdateVersion, WriterHasLock, VersionIsOfRelease, SeenIsNotNewer,
              WorksOnWhatIsMissing, AppliedToVersion, M!MigrateState
<1>4. CASE M!Crash(p)
  BY <1>4 DEF M!Crash, WriterHasLock, VersionIsOfRelease, SeenIsNotNewer,
              WorksOnWhatIsMissing, AppliedToVersion, M!MigrateState
<1>5. QED
  BY <1>1, <1>2, <1>3, <1>4

(* If the version goes down, it was that of a release that knows more.     *)
LEMMA CommitKeepsMInv ==
  ASSUME UsersAreKnown, MInv, NEW p \in Users, M!Commit(p)
  PROVE  MInv'
<1> USE DEF UsersAreKnown, MInv, M!Go, M!Commit, Migrating
<1>1. seen[p] = Known[p] /\ Known[p] \in Nat /\ version \in Nat /\ mpc[p] = "updated"
  BY DEF SeenIsNotNewer, VersionIsOfRelease
<1>2. WriterHasLock'
  BY DEF WriterHasLock, M!MigrateState
<1>3. VersionIsOfRelease'
  BY <1>1 DEF VersionIsOfRelease
<1>4. ~setBack' => ~setBack /\ version <= Known[p]
  <2>1. setBack' = (setBack \/ Known[p] < version)
    OBVIOUS
  <2>2. ~setBack' => ~(Known[p] < version)
    BY <2>1
  <2>3. ~setBack' => ~setBack
    BY <2>1
  <2>4. QED
    BY <1>1, <2>2, <2>3
<1>5. SeenIsNotNewer'
  BY <1>1, <1>2, <1>4 DEF SeenIsNotNewer
<1>6. WorksOnWhatIsMissing'
  BY <1>2 DEF WorksOnWhatIsMissing, WriterHasLock
<1>7. ASSUME ~setBack' PROVE applied' = 1..version'
  <2>1. CASE seen[p] <= version /\ working = applied
    BY <1>1, <1>4, <1>7, <2>1 DEF AppliedToVersion
  <2>2. CASE seen[p] > version /\ working = 1..seen[p]
    BY <1>1, <2>2
  <2>3. QED
    BY <1>1, <1>4, <1>7, <2>1, <2>2 DEF WorksOnWhatIsMissing
<1>8. QED
  BY <1>2, <1>3, <1>5, <1>6, <1>7 DEF AppliedToVersion

LEMMA SpecMInv == ASSUME UsersAreKnown PROVE M!Spec => []MInv
<1>1. ASSUME MInv, UNCHANGED M!migrateVars PROVE MInv'
  BY <1>1 DEF M!migrateVars, MInv, WriterHasLock, VersionIsOfRelease, SeenIsNotNewer,
              WorksOnWhatIsMissing, AppliedToVersion
<1>2. MInv /\ [M!Next]_(M!migrateVars) => MInv'
  BY <1>1, OpeningKeepsMInv, MigratingKeepsMInv, CommitKeepsMInv DEF M!Next
<1>3. QED
  BY <1>2, InitMInv, PTL DEF M!Spec

(* apply_db_migrations (util/db/migrate.cpp:12-90) leaves a database with  *)
(* the version that says what was applied, unless processes of different   *)
(* releases race.                                                          *)
THEOREM VersionSaysWhatWasApplied ==
  ASSUME UsersAreKnown PROVE M!Spec => []VersionIsWhatWasApplied
<1>1. MInv => VersionIsWhatWasApplied
  BY DEF MInv, VersionIsOfRelease, AppliedToVersion, VersionIsWhatWasApplied,
         M!VersionIsWhatWasApplied
<1>2. QED
  BY <1>1, SpecMInv, PTL
-----------------------------------------------------------------------------
(* A process that has a connection on which it works, and one that has     *)
(* found the schema current.                                               *)
Connected == {"open", "version", "migrate", "migrated", "building", "recording", "recorded"}

OnCurrent == {"building", "recording", "recorded"}

(* The file at the path was made, and so was each that is open; records    *)
(* are in files of the current schema only.                                *)
FilesAreMade ==
    /\ path # NoDbFile => schema[path] # "absent"
    /\ \A f \in Files : rows[f] # {} => schema[f] = "current"
    /\ \A p \in Builds :
          /\ bpc[p] \in Connected \cup {"remove"} => conn[p] \in Files /\ schema[conn[p]] # "absent"
          /\ bpc[p] \in {"version", "migrate", "migrated"} => schema[conn[p]] # "garbage"
          /\ bpc[p] \in OnCurrent => schema[conn[p]] = "current"

(* What is no database is removed once, and does not come back.            *)
GarbageGoes ==
    \A p \in Builds :
        /\ p \in again \/ bpc[p] = "reopen" => path = NoDbFile \/ schema[path] # "garbage"
        /\ p \in again /\ bpc[p] \in Connected => schema[conn[p]] # "garbage"

(* Who runs belongs to the session; another database than one's own is     *)
(* that of somebody else in it.                                            *)
SessionRuns ==
    \A p \in Builds :
        /\ B!Running(p) => p \in session
        /\ bpc[p] \in Connected \cup {"remove"} /\ path \notin {NoDbFile, conn[p]} =>
              \E q \in session : q # p

TakesTwo == collided => \E p, q \in session : p # q

(* Until some collide, all have the one database open, or what was no      *)
(* database, and only that is removed.                                     *)
OneDatabase ==
    ~collided => \A p \in Builds :
        /\ bpc[p] \in Connected /\ schema[conn[p]] # "garbage" => conn[p] = path
        /\ bpc[p] = "remove" => schema[conn[p]] = "garbage"
        /\ p \in session => bpc[p] \notin {"failed", "terminated"}

KeptIsThere == ~collided /\ kept # {} => path # NoDbFile /\ kept \subseteq rows[path]

BInv == /\ B!TypeOK /\ FilesAreMade /\ GarbageGoes /\ SessionRuns /\ TakesTwo
        /\ OneDatabase /\ KeptIsThere

LEMMA InitBInv == ASSUME NoDbFile \notin Files PROVE B!Init => BInv
<1> SUFFICES ASSUME B!Init PROVE BInv
  OBVIOUS
<1> USE DEF B!Init
<1>1. schema \in [Files -> B!Schema]
  BY DEF B!Schema
<1>2. path \in Files \cup {NoDbFile} /\ (path # NoDbFile => schema[path] # "absent")
  <2>1. CASE \A f \in Files : schema[f] = "absent"
    BY <2>1
  <2>2. CASE \E f \in Files : schema[f] # "absent"
    BY <2>2
  <2>3. QED
    BY <2>1, <2>2
<1>3. B!TypeOK
  BY <1>1, <1>2 DEF B!TypeOK, B!BuildState
<1>4. QED
  BY <1>2, <1>3 DEF BInv, FilesAreMade, GarbageGoes, SessionRuns, TakesTwo, OneDatabase,
     KeptIsThere, Connected, OnCurrent, B!Running

(* A connection to the file at the path, or to one that is made there.     *)
LEMMA ConnectingFinds ==
  ASSUME NoDbFile \notin Files, BInv, NEW p \in Builds, NEW before \in {"start", "reopen"},
         B!Connect(p, before)
  PROVE  /\ bpc[p] = before /\ bpc' = [bpc EXCEPT ![p] = "open"]
         /\ path' \in Files /\ conn' = [conn EXCEPT ![p] = path']
         /\ path # NoDbFile => path' = path
         /\ schema' \in [Files -> B!Schema] /\ schema'[path'] # "absent"
         /\ path = NoDbFile => schema'[path'] = "empty"
         /\ \A f \in Files : schema[f] # "absent" => schema'[f] = schema[f]
         /\ \A f \in Files : schema'[f] # "absent" => f = path' \/ schema[f] # "absent"
         /\ \A f \in Files : schema'[f] = "garbage" => schema[f] = "garbage"
         /\ held' = [held EXCEPT ![p] = "none"] /\ UNCHANGED <<rows, reading>>
<1>1. CASE path # NoDbFile
  BY <1>1 DEF B!Connect, B!Go, B!Hold, BInv, B!TypeOK, FilesAreMade
<1>2. CASE path = NoDbFile
  <2>1. B!NewFile \in Files /\ schema[B!NewFile] = "absent"
    BY <1>2 DEF B!Connect, B!NewFile
  <2>2. QED
    BY <1>2, <2>1 DEF B!Connect, B!Go, B!Hold, BInv, B!TypeOK, B!Schema
<1>3. QED
  BY <1>1, <1>2

LEMMA ConnectingKeepsBInv ==
  ASSUME NoDbFile \notin Files, BInv, NEW p \in Builds, B!Open(p) \/ B!Reopen(p)
  PROVE  BInv'
<1> USE DEF BInv
<1>1. PICK before \in {"start", "reopen"} : B!Connect(p, before)
  BY DEF B!Open, B!Reopen
<1>2. /\ bpc[p] = before /\ bpc' = [bpc EXCEPT ![p] = "open"]
      /\ path' \in Files /\ conn' = [conn EXCEPT ![p] = path']
      /\ path # NoDbFile => path' = path
      /\ schema' \in [Files -> B!Schema] /\ schema'[path'] # "absent"
      /\ path = NoDbFile => schema'[path'] = "empty"
      /\ \A f \in Files : schema[f] # "absent" => schema'[f] = schema[f]
      /\ \A f \in Files : schema'[f] # "absent" => f = path' \/ schema[f] # "absent"
      /\ \A f \in Files : schema'[f] = "garbage" => schema[f] = "garbage"
      /\ held' = [held EXCEPT ![p] = "none"] /\ UNCHANGED <<rows, reading>>
  BY <1>1, ConnectingFinds
<1>3. /\ bpc'[p] = "open" /\ conn'[p] = path' /\ held'[p] = "none"
      /\ \A q \in Builds \ {p} : bpc'[q] = bpc[q] /\ conn'[q] = conn[q] /\ held'[q] = held[q]
  BY <1>2 DEF B!TypeOK
<1> DEFINE Overlaps == \E q \in Builds : B!Running(q)
<1>4. /\ p \in session'
      /\ Overlaps => session' = session \cup {p} /\ kept' = kept /\ collided' = collided
      /\ ~Overlaps => /\ session' = {p} /\ kept' = (IF path = NoDbFile THEN {} ELSE rows[path])
                      /\ collided' = FALSE
      /\ again' \in {again, again \cup {p}} /\ (again' = again \/ before = "reopen")
  <2>1. CASE B!Open(p)
    BY <2>1 DEF B!Open
  <2>2. CASE B!Reopen(p)
    <3>1. bpc[p] = "reopen"
      BY <2>2 DEF B!Reopen, B!Connect, B!Go
    <3>2. p \in session /\ Overlaps
      BY <3>1 DEF SessionRuns, B!Running, B!Ended
    <3>3. QED
      BY <1>2, <2>2, <3>1, <3>2 DEF B!Reopen
  <2>3. QED
    BY <2>1, <2>2
<1>5. (\E q \in Builds \ {p} : bpc[q] \in Connected \cup {"remove"}) => Overlaps
  BY DEF B!Running, Connected, B!Ended
<1>6. B!TypeOK'
  <2>1. session' \subseteq Builds /\ kept' \subseteq Builds /\ collided' \in BOOLEAN
    BY <1>4 DEF B!TypeOK
  <2>2. bpc' \in [Builds -> B!BuildState] /\ conn' \in [Builds -> Files \cup {NoDbFile}]
    BY <1>2 DEF B!TypeOK, B!BuildState
  <2>3. held' \in [Builds -> {"none", "shared", "reserved", "exclusive"}]
    BY <1>2 DEF B!TypeOK
  <2>4. again' \subseteq Builds /\ reading' \subseteq Builds
    BY <1>2, <1>4 DEF B!TypeOK
  <2>5. QED
    BY <1>2, <2>1, <2>2, <2>3, <2>4 DEF B!TypeOK
<1>7. FilesAreMade'
  <2>1. \A f \in Files : rows'[f] # {} => schema'[f] = "current"
    BY <1>2 DEF FilesAreMade
  <2>2. ASSUME NEW q \in Builds
        PROVE  /\ bpc'[q] \in Connected \cup {"remove"} => conn'[q] \in Files /\ schema'[conn'[q]] # "absent"
               /\ bpc'[q] \in {"version", "migrate", "migrated"} => schema'[conn'[q]] # "garbage"
               /\ bpc'[q] \in OnCurrent => schema'[conn'[q]] = "current"
    BY <1>2, <1>3, <2>2 DEF FilesAreMade, Connected, OnCurrent
  <2>3. QED
    BY <1>2, <2>1, <2>2 DEF FilesAreMade
<1>8. GarbageGoes'
  <2> SUFFICES ASSUME NEW q \in Builds
               PROVE  /\ q \in again' \/ bpc'[q] = "reopen" =>
                             path' = NoDbFile \/ schema'[path'] # "garbage"
                      /\ q \in again' /\ bpc'[q] \in Connected => schema'[conn'[q]] # "garbage"
    BY DEF GarbageGoes
  <2>1. path = NoDbFile => schema'[path'] # "garbage"
    BY <1>2
  <2>2. path # NoDbFile => path' = path /\ (schema'[path'] = "garbage" => schema[path] = "garbage")
    BY <1>2 DEF B!TypeOK
  <2>3. q \in again' \/ bpc'[q] = "reopen" => schema'[path'] # "garbage"
    <3>1. q \in again' \/ bpc'[q] = "reopen" => q \in again \/ bpc[q] = "reopen"
      BY <1>2, <1>3, <1>4
    <3>2. q \in again \/ bpc[q] = "reopen" => path = NoDbFile \/ schema[path] # "garbage"
      BY DEF GarbageGoes
    <3>3. QED
      BY <2>1, <2>2, <3>1, <3>2
  <2>4. q \in again' /\ bpc'[q] \in Connected => schema'[conn'[q]] # "garbage"
    <3>1. CASE q = p
      BY <1>3, <2>3, <3>1
    <3>2. CASE q # p
      <4>1. q \in again' /\ bpc'[q] \in Connected => q \in again /\ bpc[q] \in Connected /\ conn'[q] = conn[q]
        BY <1>3, <1>4, <3>2
      <4>2. q \in again /\ bpc[q] \in Connected =>
                conn[q] \in Files /\ schema[conn[q]] # "garbage"
        BY DEF GarbageGoes, FilesAreMade
      <4>3. QED
        BY <1>2, <4>1, <4>2
    <3>3. QED
      BY <3>1, <3>2
  <2>5. QED
    BY <2>3, <2>4
<1>9. SessionRuns' /\ TakesTwo'
  <2>1. ASSUME NEW q \in Builds, B!Running(q)' PROVE q \in session'
    <3>1. q # p => B!Running(q)
      BY <1>3, <2>1 DEF B!Running
    <3>2. B!Running(q) => Overlaps /\ q \in session
      BY DEF SessionRuns
    <3>3. QED
      BY <1>4, <3>1, <3>2
  <2>2. ASSUME NEW q \in Builds, bpc'[q] \in Connected \cup {"remove"},
               path' \notin {NoDbFile, conn'[q]}
        PROVE  \E r \in session' : r # q
    BY <1>3, <1>4, <2>2
  <2>3. TakesTwo'
    BY <1>4 DEF TakesTwo
  <2>4. QED
    BY <2>1, <2>2, <2>3 DEF SessionRuns
<1>10. OneDatabase'
  <2>1. ASSUME ~collided', NEW q \in Builds \ {p}
        PROVE  /\ bpc'[q] \in Connected /\ schema'[conn'[q]] # "garbage" => conn'[q] = path'
               /\ bpc'[q] = "remove" => schema'[conn'[q]] = "garbage"
               /\ q \in session' => bpc'[q] \notin {"failed", "terminated"}
    BY <1>2, <1>3, <1>4, <1>5, <2>1 DEF OneDatabase, FilesAreMade
  <2>2. QED
    BY <1>3, <2>1 DEF OneDatabase
<1>11. KeptIsThere'
  BY <1>2, <1>4 DEF KeptIsThere
<1>12. QED
  BY <1>6, <1>7, <1>8, <1>9, <1>10, <1>11

(* Steps that take or give back locks, and go on.                          *)
LEMMA LockingKeepsBInv ==
  ASSUME BInv, NEW p \in Builds,
         \/ B!ReadVersion(p) \/ B!WriteVersion(p) \/ B!Exclusive(p) \/ B!RollBack(p)
         \/ B!Lookup(p) \/ B!BeginRecording(p) \/ B!NothingToRecord(p)
  PROVE  BInv'
<1> USE DEF BInv
<1>1. UNCHANGED <<again, path, conn, schema, rows, session, kept, collided>>
  BY DEF B!ReadVersion, B!WriteVersion, B!Exclusive, B!RollBack, B!Lookup, B!BeginRecording,
         B!NothingToRecord
<1>2. PICK l \in {"none", "shared", "reserved", "exclusive"} :
          held' = [held EXCEPT ![p] = l] \/ held' = held
  BY DEF B!ReadVersion, B!WriteVersion, B!Exclusive, B!RollBack, B!Lookup, B!BeginRecording,
         B!NothingToRecord, B!Hold
<1>3. PICK s \in B!BuildState :
          /\ bpc' = [bpc EXCEPT ![p] = s]
          /\ \/ s = bpc[p]
             \/ bpc[p] \in {"version", "migrate"} /\ s \in {"migrate", "migrated"}
             \/ bpc[p] = "building" /\ s \in {"recording", "recorded"}
  <2>1. CASE B!ReadVersion(p) \/ B!WriteVersion(p)
    BY <2>1 DEF B!ReadVersion, B!WriteVersion, B!Go, B!BuildState
  <2>2. CASE B!BeginRecording(p) \/ B!NothingToRecord(p)
    BY <2>2 DEF B!BeginRecording, B!NothingToRecord, B!Go, B!BuildState
  <2>3. CASE B!Exclusive(p) \/ B!RollBack(p) \/ B!Lookup(p)
    <3>1. bpc' = bpc /\ bpc[p] \in B!BuildState /\ bpc = [bpc EXCEPT ![p] = bpc[p]]
      BY <2>3 DEF B!Exclusive, B!RollBack, B!Lookup, B!TypeOK
    <3>2. QED
      BY <3>1
  <2>4. QED
    BY <2>1, <2>2, <2>3
<1>4. reading' \subseteq Builds
  BY DEF B!ReadVersion, B!WriteVersion, B!Exclusive, B!RollBack, B!Lookup, B!BeginRecording,
         B!NothingToRecord, B!TypeOK
<1>5. /\ bpc'[p] = s /\ \A q \in Builds \ {p} : bpc'[q] = bpc[q] /\ held'[q] = held[q]
  BY <1>2, <1>3 DEF B!TypeOK
<1>6. B!Running(p)
  BY DEF B!ReadVersion, B!WriteVersion, B!Exclusive, B!RollBack, B!Lookup, B!BeginRecording,
         B!NothingToRecord, B!Go, B!Running, B!Ended
<1>7. B!TypeOK'
  BY <1>1, <1>2, <1>3, <1>4 DEF B!TypeOK
<1>8. SessionRuns'
  <2>1. ASSUME NEW q \in Builds PROVE B!Running(q)' => q \in session'
    BY <1>1, <1>5, <1>6, <2>1 DEF SessionRuns, B!Running
  <2>2. QED
    BY <1>1, <1>3, <1>5, <2>1 DEF SessionRuns, Connected
<1>9. FilesAreMade' /\ GarbageGoes' /\ OneDatabase'
  BY <1>1, <1>3, <1>5 DEF FilesAreMade, GarbageGoes, OneDatabase, Connected, OnCurrent
<1>10. TakesTwo' /\ KeptIsThere'
  BY <1>1 DEF TakesTwo, KeptIsThere
<1>11. QED
  BY <1>7, <1>8, <1>9, <1>10

(* What is prepared or migrated stays a database, and loses no records.    *)
LEMMA MigratingKeepsBInv ==
  ASSUME BInv, NEW p \in Builds, B!Prepare(p) \/ B!Migrated(p)
  PROVE  BInv'
<1> USE DEF BInv
<1>1. UNCHANGED <<again, path, conn, reading, session, kept, collided>>
  BY DEF B!Prepare, B!Migrated
<1>2. rows' = rows
  <2>1. CASE B!Prepare(p)
    BY <2>1 DEF B!Prepare
  <2>2. CASE B!Migrated(p)
    <3>1. conn[p] \in Files
      BY <2>2 DEF B!Migrated, B!Go, FilesAreMade, Connected
    <3>2. B!NeedsMigration(conn[p]) => rows[conn[p]] = {}
      BY <3>1 DEF B!NeedsMigration, FilesAreMade
    <3>3. B!NeedsMigration(conn[p]) => rows' = [rows EXCEPT ![conn[p]] = {}]
      BY <2>2 DEF B!Migrated
    <3>4. ~B!NeedsMigration(conn[p]) => rows' = rows
      BY <2>2 DEF B!Migrated
    <3>5. rows \in [Files -> SUBSET Builds]
      BY DEF B!TypeOK
    <3>6. QED
      BY <3>1, <3>2, <3>3, <3>4, <3>5
  <2>3. QED
    BY <2>1, <2>2
<1>3. /\ conn[p] \in Files /\ schema[conn[p]] \notin {"absent", "garbage"}
      /\ B!Running(p)
  BY DEF B!Prepare, B!Migrated, B!Go, B!MayPrepare, FilesAreMade, Connected, B!Running, B!Ended
<1>4. PICK s \in {"old", "current"} :
          /\ schema' = [schema EXCEPT ![conn[p]] = s] \/ schema' = schema
          /\ schema[conn[p]] = "current" => s = "current"
          /\ \/ bpc[p] = "open" /\ bpc' = [bpc EXCEPT ![p] = "version"]
             \/ /\ bpc[p] = "migrated" /\ bpc' = [bpc EXCEPT ![p] = "building"]
                /\ s = "current" /\ schema' = [schema EXCEPT ![conn[p]] = s]
  <2>1. CASE B!Prepare(p)
    <3>1. CASE schema[conn[p]] = "empty"
      BY <2>1, <3>1 DEF B!Prepare, B!Go
    <3>2. CASE schema[conn[p]] # "empty"
      BY <2>1, <3>2 DEF B!Prepare, B!Go
    <3>3. QED
      BY <3>1, <3>2
  <2>2. CASE B!Migrated(p)
    BY <2>2 DEF B!Migrated, B!Go
  <2>3. QED
    BY <2>1, <2>2
<1>5. /\ schema' \in [Files -> B!Schema]
      /\ \A f \in Files : /\ schema[f] = "current" => schema'[f] = "current"
                          /\ schema'[f] = "garbage" <=> schema[f] = "garbage"
                          /\ schema'[f] = "absent" <=> schema[f] = "absent"
      /\ bpc'[p] = "building" => schema'[conn[p]] = "current"
  BY <1>3, <1>4 DEF B!TypeOK, B!Schema
<1>6. /\ bpc'[p] \in {"version", "building"} /\ bpc[p] \in {"open", "migrated"}
      /\ \A q \in Builds \ {p} : bpc'[q] = bpc[q]
      /\ bpc' \in [Builds -> B!BuildState]
  BY <1>4 DEF B!TypeOK, B!BuildState
<1>7. /\ held' \in [Builds -> {"none", "shared", "reserved", "exclusive"}]
      /\ \A q \in Builds \ {p} : held'[q] = held[q]
  BY DEF B!Prepare, B!Migrated, B!Hold, B!TypeOK
<1>8. B!TypeOK'
  BY <1>1, <1>2, <1>5, <1>6, <1>7 DEF B!TypeOK
<1>9. FilesAreMade'
  <2>1. ASSUME NEW q \in Builds
        PROVE  /\ bpc'[q] \in Connected \cup {"remove"} => conn'[q] \in Files /\ schema'[conn'[q]] # "absent"
               /\ bpc'[q] \in {"version", "migrate", "migrated"} => schema'[conn'[q]] # "garbage"
               /\ bpc'[q] \in OnCurrent => schema'[conn'[q]] = "current"
    <3>1. CASE q = p
      BY <1>1, <1>3, <1>5, <1>6, <3>1 DEF OnCurrent
    <3>2. CASE q # p
      BY <1>1, <1>5, <1>6, <3>2 DEF FilesAreMade, Connected, OnCurrent
    <3>3. QED
      BY <3>1, <3>2
  <2>2. (path # NoDbFile => schema[path] # "absent")'
    BY <1>1, <1>5 DEF FilesAreMade, B!TypeOK
  <2>3. (\A f \in Files : rows[f] # {} => schema[f] = "current")'
    BY <1>2, <1>5 DEF FilesAreMade
  <2>4. QED
    BY <2>1, <2>2, <2>3 DEF FilesAreMade
<1>10. GarbageGoes'
  <2>1. path # NoDbFile => (schema'[path] = "garbage" <=> schema[path] = "garbage")
    BY <1>5 DEF B!TypeOK
  <2>2. ASSUME NEW q \in Builds, q \in again, bpc'[q] \in Connected
        PROVE  schema'[conn[q]] # "garbage"
    BY <1>3, <1>5, <1>6, <2>2 DEF GarbageGoes, FilesAreMade
  <2>3. QED
    BY <1>1, <1>6, <2>1, <2>2 DEF GarbageGoes
<1>11. SessionRuns'
  <2>1. ASSUME NEW q \in Builds PROVE B!Running(q)' => q \in session'
    BY <1>1, <1>3, <1>6, <1>7, <2>1 DEF SessionRuns, B!Running
  <2>2. QED
    BY <1>1, <1>6, <2>1 DEF SessionRuns, Connected
<1>12. OneDatabase'
  <2>1. ASSUME ~collided, NEW q \in Builds
        PROVE  /\ bpc'[q] \in Connected /\ schema'[conn[q]] # "garbage" => conn[q] = path
               /\ bpc'[q] = "remove" => schema'[conn[q]] = "garbage"
               /\ q \in session => bpc'[q] \notin {"failed", "terminated"}
    <3>1. CASE q = p
      BY <1>3, <1>6, <2>1, <3>1 DEF OneDatabase, Connected
    <3>2. CASE q # p
      BY <1>5, <1>6, <2>1, <3>2 DEF OneDatabase, FilesAreMade
    <3>3. QED
      BY <3>1, <3>2
  <2>2. QED
    BY <1>1, <2>1 DEF OneDatabase
<1>13. TakesTwo' /\ KeptIsThere'
  BY <1>1, <1>2 DEF TakesTwo, KeptIsThere
<1>14. QED
  BY <1>8, <1>9, <1>10, <1>11, <1>12, <1>13

(* Whom a lock is refused, is not alone. *)
LEMMA RefusedByAnother ==
  ASSUME BInv, NEW p \in Builds, B!Running(p),
         \/ ~B!MayRead(p) \/ ~B!MayWrite(p) \/ ~B!MayCommit(p)
  PROVE  \E a, b \in session : a # b
<1>1. PICK q \in B!Others(p) : held[q] # "none"
  BY DEF B!MayRead, B!MayWrite, B!MayCommit
<1>2. q \in Builds /\ q # p /\ B!Running(q)
  BY <1>1 DEF B!Others, B!Running
<1>3. QED
  BY <1>2 DEF BInv, SessionRuns

LEMMA FailingKeepsBInv ==
  ASSUME BInv, NEW p \in Builds, B!MigrateFails(p) \/ B!BuildFails(p)
  PROVE  BInv'
<1> USE DEF BInv
<1>1. /\ UNCHANGED <<again, path, conn, schema, rows, held, session, kept>>
      /\ reading' \subseteq Builds
  BY DEF B!MigrateFails, B!BuildFails, B!TypeOK
<1>2. /\ bpc[p] \in Connected /\ B!Running(p)
      /\ bpc[p] \in {"version", "migrate", "migrated", "building", "recording"} \/ bpc[p] = "open"
  BY DEF B!MigrateFails, B!BuildFails, Connected, B!Running, B!Ended
<1>3. PICK s \in {"remove", "failed", "terminated"} :
          /\ bpc' = [bpc EXCEPT ![p] = s]
          /\ s = "terminated" => p \in again
          /\ s = "failed" => collided'
  BY DEF B!MigrateFails, B!BuildFails
<1>4. bpc'[p] = s /\ \A q \in Builds \ {p} : bpc'[q] = bpc[q]
  BY <1>3 DEF B!TypeOK
<1>5. /\ collided' \in BOOLEAN /\ (collided => collided')
      /\ collided' => collided \/ \E a, b \in session : a # b
      /\ ~collided' => schema[conn[p]] = "garbage" /\ ~collided
  <2>1. CASE B!BuildFails(p)
    BY <1>2, <2>1, RefusedByAnother DEF B!BuildFails
  <2>2. CASE B!MigrateFails(p)
    <3>1. collided' = (collided \/ schema[conn[p]] # "garbage")
      BY <2>2 DEF B!MigrateFails
    <3>2. schema[conn[p]] # "garbage" => ~B!MayRead(p) \/ ~B!MayWrite(p) \/ ~B!MayCommit(p)
      BY <2>2 DEF B!MigrateFails, B!MayPrepare
    <3>3. QED
      BY <1>2, <3>1, <3>2, RefusedByAnother DEF B!TypeOK
  <2>3. QED
    BY <2>1, <2>2
<1>6. ~collided' => s = "remove"
  BY <1>2, <1>3, <1>5 DEF GarbageGoes
<1>7. B!TypeOK'
  BY <1>1, <1>3, <1>5 DEF B!TypeOK, B!BuildState, B!Ended
<1>8. FilesAreMade' /\ GarbageGoes'
  BY <1>1, <1>2, <1>3, <1>4 DEF FilesAreMade, GarbageGoes, Connected, OnCurrent
<1>9. SessionRuns'
  <2>1. ASSUME NEW q \in Builds PROVE B!Running(q)' => q \in session'
    BY <1>1, <1>2, <1>4, <2>1 DEF SessionRuns, B!Running
  <2>2. QED
    BY <1>1, <1>2, <1>3, <1>4, <2>1 DEF SessionRuns, Connected
<1>10. TakesTwo'
  BY <1>1, <1>5 DEF TakesTwo
<1>11. OneDatabase'
  BY <1>1, <1>4, <1>5, <1>6 DEF OneDatabase, Connected
<1>12. KeptIsThere'
  BY <1>1, <1>5 DEF KeptIsThere
<1>13. QED
  BY <1>7, <1>8, <1>9, <1>10, <1>11, <1>12

(* What is removed while nobody has collided is no database: nobody's      *)
(* records were in it.                                                     *)
LEMMA RemovingKeepsBInv ==
  ASSUME NoDbFile \notin Files, BInv, NEW p \in Builds, B!Remove(p)
  PROVE  BInv'
<1> USE DEF BInv
<1>1. /\ UNCHANGED <<again, conn, schema, rows, held, reading, session, kept>>
      /\ path' = NoDbFile /\ bpc[p] = "remove" /\ bpc' = [bpc EXCEPT ![p] = "reopen"]
      /\ collided' = (collided \/ path \notin {NoDbFile, conn[p]})
  BY DEF B!Remove, B!Go
<1>2. bpc'[p] = "reopen" /\ \A q \in Builds \ {p} : bpc'[q] = bpc[q]
  BY <1>1 DEF B!TypeOK
<1>3. p \in session
  BY <1>1 DEF SessionRuns, B!Running, B!Ended
<1>4. B!TypeOK'
  BY <1>1 DEF B!TypeOK, B!BuildState
<1>5. FilesAreMade' /\ GarbageGoes'
  BY <1>1, <1>2 DEF FilesAreMade, GarbageGoes, Connected, OnCurrent
<1>6. SessionRuns'
  <2>1. ASSUME NEW q \in Builds PROVE B!Running(q)' => q \in session'
    BY <1>1, <1>2, <1>3, <2>1 DEF SessionRuns, B!Running
  <2>2. QED
    BY <1>1, <2>1 DEF SessionRuns
<1>7. TakesTwo'
  BY <1>1, <1>3 DEF TakesTwo, SessionRuns
<1>8. ~collided' => ~collided /\ schema[conn[p]] = "garbage" /\ path \in {NoDbFile, conn[p]}
  BY <1>1 DEF OneDatabase
<1>9. OneDatabase'
  <2>1. ASSUME ~collided', NEW q \in Builds \ {p}, bpc[q] \in Connected, schema[conn[q]] # "garbage"
        PROVE  FALSE
    BY <1>8, <2>1 DEF OneDatabase, FilesAreMade
  <2>2. QED
    BY <1>1, <1>2, <1>8, <2>1 DEF OneDatabase, Connected
<1>10. KeptIsThere'
  <2>1. ASSUME ~collided', kept # {} PROVE FALSE
    <3>1. path \in Files /\ rows[path] # {}
      BY <1>8, <2>1 DEF KeptIsThere, B!TypeOK
    <3>2. schema[path] = "current"
      BY <3>1 DEF FilesAreMade
    <3>3. QED
      BY <1>8, <2>1, <3>1, <3>2
  <2>2. QED
    BY <1>1, <2>1 DEF KeptIsThere
<1>11. QED
  BY <1>4, <1>5, <1>6, <1>7, <1>9, <1>10

LEMMA RecordingKeepsBInv ==
  ASSUME NoDbFile \notin Files, BInv, NEW p \in Builds, B!Recorded(p)
  PROVE  BInv'
<1> USE DEF BInv
<1>1. /\ UNCHANGED <<again, path, conn, schema, reading, session, collided>>
      /\ bpc[p] = "recording" /\ bpc' = [bpc EXCEPT ![p] = "recorded"]
      /\ rows' = [rows EXCEPT ![conn[p]] = @ \cup {p}] /\ kept' = kept \cup {p}
      /\ held' \in [Builds -> {"none", "shared", "reserved", "exclusive"}]
      /\ \A q \in Builds \ {p} : held'[q] = held[q]
  BY DEF B!Recorded, B!Go, B!Hold, B!TypeOK
<1>2. bpc'[p] = "recorded" /\ \A q \in Builds \ {p} : bpc'[q] = bpc[q]
  BY <1>1 DEF B!TypeOK
<1>3. conn[p] \in Files /\ schema[conn[p]] = "current" /\ p \in session
  BY <1>1 DEF FilesAreMade, Connected, OnCurrent, SessionRuns, B!Running, B!Ended
<1>4. /\ rows' \in [Files -> SUBSET Builds] /\ rows'[conn[p]] = rows[conn[p]] \cup {p}
      /\ \A f \in Files \ {conn[p]} : rows'[f] = rows[f]
  BY <1>1, <1>3 DEF B!TypeOK
<1>5. B!TypeOK'
  BY <1>1, <1>4 DEF B!TypeOK, B!BuildState
<1>6. FilesAreMade' /\ GarbageGoes' /\ OneDatabase' /\ TakesTwo'
  BY <1>1, <1>2, <1>3, <1>4 DEF FilesAreMade, GarbageGoes, OneDatabase, TakesTwo, Connected, OnCurrent
<1>7. SessionRuns'
  <2>1. ASSUME NEW q \in Builds PROVE B!Running(q)' => q \in session'
    BY <1>1, <1>2, <1>3, <2>1 DEF SessionRuns, B!Running
  <2>2. QED
    BY <1>1, <1>2, <2>1 DEF SessionRuns, Connected
<1>8. KeptIsThere'
  <2>1. ASSUME ~collided PROVE conn[p] = path /\ path # NoDbFile
    BY <1>1, <1>3, <2>1 DEF OneDatabase, FilesAreMade, Connected
  <2>2. ASSUME ~collided PROVE kept \subseteq rows[path]
    BY <2>2 DEF KeptIsThere
  <2>3. QED
    BY <1>1, <1>4, <2>1, <2>2 DEF KeptIsThere
<1>9. QED
  BY <1>5, <1>6, <1>7, <1>8

LEMMA EndingKeepsBInv ==
  ASSUME BInv, NEW p \in Builds, B!End(p)
  PROVE  BInv'
<1> USE DEF BInv
<1>1. /\ UNCHANGED <<path, schema, rows, session, kept, collided>>
      /\ bpc' = [bpc EXCEPT ![p] = "ended"] /\ conn' = [conn EXCEPT ![p] = NoDbFile]
      /\ held' = [held EXCEPT ![p] = "none"] /\ again' = again \ {p} /\ reading' = reading \ {p}
  BY DEF B!End, B!Hold
<1>2. /\ bpc'[p] = "ended" /\ held'[p] = "none"
      /\ \A q \in Builds \ {p} : bpc'[q] = bpc[q] /\ conn'[q] = conn[q] /\ held'[q] = held[q]
  BY <1>1 DEF B!TypeOK
<1>3. B!TypeOK'
  BY <1>1 DEF B!TypeOK, B!BuildState, B!Ended
<1>4. FilesAreMade' /\ GarbageGoes' /\ OneDatabase' /\ TakesTwo' /\ KeptIsThere'
  BY <1>1, <1>2 DEF FilesAreMade, GarbageGoes, OneDatabase, TakesTwo, KeptIsThere, Connected, OnCurrent
<1>5. SessionRuns'
  BY <1>1, <1>2 DEF SessionRuns, B!Running, B!Ended, Connected
<1>6. QED
  BY <1>3, <1>4, <1>5

LEMMA SpecBInv == ASSUME NoDbFile \notin Files PROVE B!Spec => []BInv
<1>1. ASSUME BInv, UNCHANGED B!dbVars PROVE BInv'
  BY <1>1 DEF B!dbVars, BInv, B!TypeOK, FilesAreMade, GarbageGoes, SessionRuns, TakesTwo,
              OneDatabase, KeptIsThere, B!Running
<1>2. BInv /\ [B!Next]_(B!dbVars) => BInv'
  BY <1>1, ConnectingKeepsBInv, LockingKeepsBInv, MigratingKeepsBInv, FailingKeepsBInv,
     RemovingKeepsBInv, RecordingKeepsBInv, EndingKeepsBInv DEF B!Next
<1>3. QED
  BY <1>2, InitBInv, PTL DEF B!Spec

(* The build database (db/database.cpp:61-118, 219-239): what was recorded *)
(* before a build began alone, and what it and those that overlap it       *)
(* record, is there for the next one, and none fails for the database,     *)
(* unless a lock was refused to one of them or another's new database      *)
(* deleted; which takes two that overlap.                                  *)
THEOREM WhatWasRecordedStays ==
  ASSUME NoDbFile \notin Files PROVE B!Spec => []RecordsAreKept
<1>1. BInv => RecordsAreKept
  BY DEF BInv, TakesTwo, OneDatabase, KeptIsThere, B!TypeOK, RecordsAreKept, B!RecordsAreKept
<1>2. QED
  BY <1>1, SpecBInv, PTL
-----------------------------------------------------------------------------
AtFile == {"read", "write", "backup", "replace", "restore"}

AFile == [now : I!Content \cup {Gone}, tmp : I!Content \cup {Gone}, bak : I!Content \cup {Gone}]

InstallTypes == /\ ipc \in {"ended", "place", "copy"} \cup AtFile
                /\ opts \in I!Options
                /\ dest \in I!Dest
                /\ self = TRUE
                /\ shell \in 0..Len(ShellFiles)
                /\ ipc \in AtFile => shell # 0
                /\ buffer \in I!Content
                /\ files \in [I!Names -> AFile]
                /\ saved \in [I!Names -> SUBSET Lines]
                /\ exposed \in [I!Names -> SUBSET Lines]

(* The executable is never copied over a link to itself. *)
CopiesToAFile == ipc = "copy" => dest = "partial"

(* What the user has saved, but for what a save of a missing file exposed. *)
Safe(f) == saved[f] \ exposed[f]

(* While a file is rewritten: the present one is there with all that was   *)
(* saved until it has become the backup, and the new one is complete. A    *)
(* file that the user makes between the moves exposes all that was saved.  *)
Rewriting ==
    /\ ipc \in {"write", "backup"} =>
          /\ PathEntry \in buffer
          /\ files[I!File].now # Gone
          /\ Safe(I!File) \subseteq files[I!File].now
    /\ ipc \in {"backup", "replace"} =>
          files[I!File].tmp # Gone /\ PathEntry \in files[I!File].tmp
    /\ ipc \in {"replace", "restore"} =>
          /\ files[I!File].bak # Gone
          /\ files[I!File].now # Gone => Safe(I!File) = {}

(* A file that lacks the entry, and so will become the backup, has all     *)
(* that was saved; for one that is missing the backup has.                 *)
Kept(f) ==
    /\ files[f].now = Gone /\ Safe(f) # {} => files[f].bak # Gone /\ Safe(f) \subseteq files[f].bak
    /\ files[f].now # Gone =>
          IF PathEntry \notin files[f].now THEN Safe(f) \subseteq files[f].now
          ELSE \/ Safe(f) \subseteq files[f].now
               \/ files[f].bak # Gone /\ Safe(f) \subseteq files[f].now \cup files[f].bak

InstallInv == InstallTypes /\ CopiesToAFile /\ Rewriting /\ \A f \in I!Names : Kept(f)

(* The start-up files are listed, and no content is that of no file.       *)
ShellFilesAreListed ==
    ShellFiles \in Seq(I!Names) /\ Len(ShellFiles) > 0 /\ Gone \notin I!Content

LEMMA FileIsNamed ==
  ASSUME ShellFilesAreListed, InstallTypes, ipc \in AtFile
  PROVE  /\ shell \in 1..Len(ShellFiles)
         /\ I!File \in I!Names
<1>1. shell \in 1..Len(ShellFiles)
  BY DEF InstallTypes, ShellFilesAreListed
<1>2. QED
  BY <1>1 DEF ShellFilesAreListed, I!File, I!Names

LEMMA NextFileIsNamed ==
  ASSUME ShellFilesAreListed, NEW s \in 1..Len(ShellFiles), shell = s, I!NextFile(s)
  PROVE  /\ ipc' \in {"read", "ended"}
         /\ shell' \in 1..Len(ShellFiles)
BY DEF ShellFilesAreListed, I!NextFile

LEMMA InitInstallInv == ASSUME ShellFilesAreListed PROVE I!Init => InstallInv
<1> SUFFICES ASSUME I!Init PROVE InstallInv
  OBVIOUS
<1> USE DEF I!Init
<1>1. {} \in I!Content
  BY DEF I!Content
<1>2. files \in [I!Names -> AFile] /\ \A f \in I!Names : Safe(f) = {}
  BY <1>1 DEF AFile, Safe
<1>3. 0 \in 0..Len(ShellFiles)
  BY DEF ShellFilesAreListed
<1>4. InstallTypes /\ CopiesToAFile /\ Rewriting
  BY <1>1, <1>2, <1>3 DEF InstallTypes, CopiesToAFile, Rewriting, AtFile, I!Options, I!Dest
<1>5. QED
  BY <1>2, <1>4 DEF InstallInv, Kept

(* To put the executable in place does not touch the start-up files.       *)
LEMMA PlacingKeepsInstallInv ==
  ASSUME ShellFilesAreListed, InstallInv,
         \/ I!Run \/ I!Stop \/ I!Killed \/ I!Clear \/ I!MakeLink
         \/ I!BeginCopy \/ I!EndCopy \/ I!WouldInstall
  PROVE  InstallInv'
<1> USE DEF InstallInv
<1>1. UNCHANGED <<buffer, files, saved, exposed>>
  BY DEF I!Run, I!Stop, I!Killed, I!Clear, I!MakeLink, I!BeginCopy, I!EndCopy, I!WouldInstall
<1>2. (\A f \in I!Names : Kept(f))'
  BY <1>1 DEF Kept, Safe
<1>3. ipc' \in {"ended", "place", "copy", "read"}
  BY DEF I!Run, I!Stop, I!Killed, I!Clear, I!MakeLink, I!BeginCopy, I!EndCopy,
         I!WouldInstall, I!FixupOrEnd
<1>4. Rewriting'
  BY <1>3 DEF Rewriting
<1>5. shell' = shell \/ shell' = 1
  BY DEF I!Run, I!Stop, I!Killed, I!Clear, I!MakeLink, I!BeginCopy, I!EndCopy,
         I!WouldInstall, I!FixupOrEnd
<1>6. shell' \in 0..Len(ShellFiles)
  BY <1>5 DEF InstallTypes, ShellFilesAreListed
<1>7. ipc' \in AtFile => shell' # 0
  BY DEF I!Run, I!Stop, I!Killed, I!Clear, I!MakeLink, I!BeginCopy, I!EndCopy,
         I!WouldInstall, I!FixupOrEnd, AtFile
<1>8. /\ opts' \in I!Options /\ dest' \in I!Dest /\ self' = TRUE
      /\ ipc' = "copy" => dest' = "partial"
  <2>1. CASE I!BeginCopy
    BY <2>1 DEF I!BeginCopy, I!Clears, I!Dest, InstallTypes
  <2>2. CASE I!Run \/ I!Stop \/ I!Killed
    BY <2>2 DEF I!Run, I!Stop, I!Killed, InstallTypes
  <2>3. CASE I!Clear \/ I!MakeLink \/ I!EndCopy \/ I!WouldInstall
    BY <2>3 DEF I!Clear, I!MakeLink, I!EndCopy, I!WouldInstall, I!FixupOrEnd, I!Dest, InstallTypes
  <2>4. QED
    BY <2>1, <2>2, <2>3
<1>9. InstallTypes' /\ CopiesToAFile'
  BY <1>1, <1>3, <1>6, <1>7, <1>8 DEF InstallTypes, CopiesToAFile, AtFile
<1>10. QED
  BY <1>2, <1>4, <1>9

LEMMA ReadingKeepsInstallInv ==
  ASSUME ShellFilesAreListed, InstallInv, I!PassOver \/ I!LeaveAlone \/ I!Read
  PROVE  InstallInv'
<1> USE DEF InstallInv
<1>1. /\ ipc = "read" /\ UNCHANGED <<opts, dest, self, files, saved, exposed>>
      /\ shell \in 1..Len(ShellFiles) /\ I!File \in I!Names
  BY FileIsNamed DEF I!PassOver, I!LeaveAlone, I!Read, I!Go, AtFile
<1>2. (\A f \in I!Names : Kept(f))'
  BY <1>1 DEF Kept, Safe
<1>3. CASE I!PassOver \/ I!LeaveAlone
  <2>1. buffer' = buffer /\ ipc' \in {"read", "ended"} /\ shell' \in 1..Len(ShellFiles)
    BY <1>1, <1>3, NextFileIsNamed DEF I!PassOver, I!LeaveAlone
  <2>2. InstallTypes' /\ CopiesToAFile' /\ Rewriting'
    BY <1>1, <2>1 DEF InstallTypes, CopiesToAFile, Rewriting, AtFile, ShellFilesAreListed
  <2>3. QED
    BY <1>2, <2>2
<1>4. CASE I!Read
  <2>1. files[I!File] \in AFile /\ files[I!File].now # Gone /\ PathEntry \notin files[I!File].now
    BY <1>1, <1>4 DEF I!Read, InstallTypes
  <2>2. buffer' \in I!Content /\ PathEntry \in buffer'
    BY <1>4, <2>1 DEF I!Read, AFile, I!Content
  <2>3. ipc' = "write" /\ shell' = shell
    BY <1>4 DEF I!Read, I!Go
  <2>4. Safe(I!File) \subseteq files[I!File].now
    BY <1>1, <2>1 DEF Kept
  <2>5. InstallTypes' /\ CopiesToAFile'
    BY <1>1, <2>2, <2>3 DEF InstallTypes, CopiesToAFile, AtFile
  <2>6. Rewriting'
    BY <1>1, <2>1, <2>2, <2>3, <2>4 DEF Rewriting, I!File, Safe
  <2>7. QED
    BY <1>2, <2>5, <2>6
<1>5. QED
  BY <1>3, <1>4

(* A file with its successor in place: now has the entry, tmp or bak what  *)
(* the step has put there.                                                 *)
LEMMA RewritingKeepsInstallInv ==
  ASSUME ShellFilesAreListed, InstallInv, I!WriteTmp \/ I!Backup
  PROVE  InstallInv'
<1> USE DEF InstallInv
<1>1. /\ ipc \in {"write", "backup"} /\ UNCHANGED <<opts, dest, self, shell, buffer, saved, exposed>>
      /\ shell \in 1..Len(ShellFiles) /\ I!File \in I!Names /\ I!File' = I!File
  BY FileIsNamed DEF I!WriteTmp, I!Backup, I!Go, I!File, AtFile
<1>2. files[I!File] \in AFile
  BY <1>1 DEF InstallTypes
<1>3. \A f \in I!Names : Safe(f)' = Safe(f)
  BY <1>1 DEF Safe
<1>4. CASE I!WriteTmp
  <2>1. /\ ipc = "write" /\ ipc' = "backup"
        /\ files' = [files EXCEPT ![I!File].tmp = buffer]
    BY <1>4 DEF I!WriteTmp, I!Go
  <2>2. buffer \in I!Content /\ PathEntry \in buffer /\ buffer # Gone
    BY <2>1 DEF Rewriting, InstallTypes, ShellFilesAreListed
  <2>3. /\ files'[I!File].tmp = buffer
        /\ \A f \in I!Names : files'[f].now = files[f].now /\ files'[f].bak = files[f].bak
        /\ files' \in [I!Names -> AFile]
    BY <1>1, <1>2, <2>1, <2>2 DEF InstallTypes, AFile
  <2>4. InstallTypes' /\ CopiesToAFile'
    BY <1>1, <2>1, <2>3 DEF InstallTypes, CopiesToAFile, AtFile
  <2>5. Rewriting'
    BY <1>1, <1>3, <2>1, <2>2, <2>3 DEF Rewriting
  <2>6. (\A f \in I!Names : Kept(f))'
    BY <1>3, <2>3 DEF Kept
  <2>7. QED
    BY <2>4, <2>5, <2>6
<1>5. CASE I!Backup
  <2>1. /\ ipc = "backup" /\ ipc' = "replace"
        /\ files' = [files EXCEPT ![I!File] = [now |-> Gone, tmp |-> @.tmp, bak |-> @.now]]
    BY <1>5 DEF I!Backup, I!Go
  <2>2. /\ files'[I!File].now = Gone /\ files'[I!File].tmp = files[I!File].tmp
        /\ files'[I!File].bak = files[I!File].now
        /\ \A f \in I!Names \ {I!File} : files'[f] = files[f]
        /\ files' \in [I!Names -> AFile]
    BY <1>1, <1>2, <2>1 DEF InstallTypes, AFile
  <2>3. InstallTypes' /\ CopiesToAFile'
    BY <1>1, <2>1, <2>2 DEF InstallTypes, CopiesToAFile, AtFile
  <2>4. Rewriting'
    BY <1>1, <2>1, <2>2 DEF Rewriting
  <2>5. ASSUME NEW f \in I!Names, f = I!File PROVE Kept(f)'
    BY <1>3, <2>1, <2>2, <2>5 DEF Kept, Rewriting
  <2>6. ASSUME NEW f \in I!Names \ {I!File} PROVE Kept(f)'
    BY <1>3, <2>2, <2>6 DEF Kept
  <2>7. QED
    BY <2>3, <2>4, <2>5, <2>6
<1>6. QED
  BY <1>4, <1>5

(* What comes to the place of the file is its successor, or the backup,    *)
(* which has all that is safe.                                             *)
LEMMA ReplacingKeepsInstallInv ==
  ASSUME ShellFilesAreListed, InstallInv, I!Replace \/ I!Restore
  PROVE  InstallInv'
<1> USE DEF InstallInv
<1>1. /\ ipc \in {"replace", "restore"} /\ UNCHANGED <<opts, dest, self, buffer, saved>>
      /\ shell \in 1..Len(ShellFiles) /\ I!File \in I!Names
      /\ exposed' = [exposed EXCEPT ![I!File] = @ \ files[I!File].bak]
  BY FileIsNamed DEF I!Replace, I!Restore, I!Recover, I!Go, AtFile
<1>2. files[I!File] \in AFile /\ files[I!File].bak \in I!Content
  BY <1>1 DEF InstallTypes, AFile, Rewriting
<1>3. ipc' \in {"read", "ended"} /\ shell' \in 1..Len(ShellFiles)
  BY <1>1, NextFileIsNamed DEF I!Replace, I!Restore, I!Go
<1>4. /\ files' \in [I!Names -> AFile]
      /\ \A f \in I!Names \ {I!File} : files'[f] = files[f]
      /\ \/ files'[I!File].now = files[I!File].bak
         \/ /\ files'[I!File].now = files[I!File].tmp /\ files'[I!File].bak = files[I!File].bak
            /\ files[I!File].tmp # Gone /\ PathEntry \in files[I!File].tmp
  <2>1. CASE I!Replace
    <3>1. /\ ipc = "replace"
          /\ files' = [files EXCEPT ![I!File] = [now |-> @.tmp, tmp |-> Gone, bak |-> @.bak]]
      BY <2>1 DEF I!Replace
    <3>2. QED
      BY <1>1, <1>2, <3>1 DEF InstallTypes, AFile, Rewriting
  <2>2. CASE I!Restore
    <3>1. files' = [files EXCEPT ![I!File] = [now |-> @.bak, tmp |-> @.tmp, bak |-> Gone]]
      BY <2>2 DEF I!Restore
    <3>2. QED
      BY <1>1, <1>2, <3>1 DEF InstallTypes, AFile
  <2>3. QED
    BY <2>1, <2>2
<1>5. /\ exposed' \in [I!Names -> SUBSET Lines]
      /\ exposed'[I!File] = exposed[I!File] \ files[I!File].bak
      /\ \A f \in I!Names \ {I!File} : Safe(f)' = Safe(f)
  BY <1>1 DEF InstallTypes, Safe
<1>6. InstallTypes' /\ CopiesToAFile'
  BY <1>1, <1>3, <1>4, <1>5 DEF InstallTypes, CopiesToAFile, AtFile
<1>7. Rewriting'
  BY <1>3 DEF Rewriting
<1>8. Safe(I!File) \subseteq files[I!File].bak /\ files[I!File].bak # Gone
  BY <1>1 DEF Rewriting, Kept
<1>9. ASSUME NEW f \in I!Names, f = I!File PROVE Kept(f)'
  <2>1. Safe(f)' \subseteq files[I!File].bak
    BY <1>1, <1>5, <1>8, <1>9 DEF Safe
  <2>2. QED
    BY <1>4, <1>8, <1>9, <2>1 DEF Kept
<1>10. ASSUME NEW f \in I!Names \ {I!File} PROVE Kept(f)'
  BY <1>4, <1>5, <1>10 DEF Kept
<1>11. QED
  BY <1>6, <1>7, <1>9, <1>10

LEMMA FailingKeepsInstallInv ==
  ASSUME ShellFilesAreListed, InstallInv, I!ReplaceFails
  PROVE  InstallInv'
BY DEF InstallInv, I!ReplaceFails, InstallTypes, CopiesToAFile, Rewriting, Kept, Safe, AtFile, I!File

(* What the user saves is added to a file that there is; to one that is    *)
(* missing, what only the backup has is exposed.                           *)
LEMMA SavingKeepsInstallInv ==
  ASSUME ShellFilesAreListed, InstallInv, I!Save
  PROVE  InstallInv'
<1> USE DEF InstallInv
<1>1. PICK g \in I!Names, l \in Lines :
          /\ files' = [files EXCEPT ![g].now = IF @ = Gone THEN {l} ELSE @ \cup {l}]
          /\ saved' = [saved EXCEPT ![g] = @ \cup {l}]
          /\ exposed' = [exposed EXCEPT ![g] =
                IF I!AboutToReplace(g) THEN @ \cup I!AtRisk(g) \cup {l}
                ELSE (@ \cup I!AtRisk(g)) \ {l}]
  BY DEF I!Save
<1>2. UNCHANGED <<ipc, opts, dest, self, shell, buffer>>
  BY DEF I!Save
<1> DEFINE Was == IF files[g].now = Gone THEN {} ELSE files[g].now
<1>3. files[g] \in AFile /\ Was \in I!Content
  BY <1>1 DEF InstallTypes, AFile, I!Content
<1>4. Was \cup {l} \in I!Content /\ Was \cup {l} # Gone
  BY <1>3 DEF I!Content, ShellFilesAreListed
<1>5. /\ files'[g].now = Was \cup {l}
      /\ \A f \in I!Names : files'[f].tmp = files[f].tmp /\ files'[f].bak = files[f].bak
      /\ \A f \in I!Names \ {g} : files'[f].now = files[f].now
      /\ files' \in [I!Names -> AFile]
  BY <1>1, <1>3, <1>4 DEF InstallTypes, AFile
<1>6. I!AtRisk(g) = IF files[g].now = Gone THEN saved[g] ELSE {}
  BY DEF I!AtRisk
<1>7. /\ saved'[g] = saved[g] \cup {l} /\ saved' \in [I!Names -> SUBSET Lines]
      /\ exposed' \in [I!Names -> SUBSET Lines]
      /\ \A f \in I!Names \ {g} : Safe(f)' = Safe(f)
      /\ I!AboutToReplace(g) => exposed'[g] = exposed[g] \cup I!AtRisk(g) \cup {l}
      /\ ~I!AboutToReplace(g) => exposed'[g] = (exposed[g] \cup I!AtRisk(g)) \ {l}
  <2> HIDE DEF Was
  <2>1. I!AtRisk(g) \subseteq Lines
    BY <1>6 DEF InstallTypes
  <2>2. QED
    BY <1>1, <2>1 DEF InstallTypes, Safe
<1>8. /\ files[g].now = Gone /\ I!AboutToReplace(g) => Safe(g)' = {}
      /\ files[g].now = Gone /\ ~I!AboutToReplace(g) => Safe(g)' \subseteq {l}
      /\ files[g].now # Gone /\ I!AboutToReplace(g) => Safe(g)' \subseteq Safe(g)
      /\ Safe(g)' \subseteq Safe(g) \cup {l}
  BY <1>6, <1>7 DEF Safe
<1>9. InstallTypes' /\ CopiesToAFile'
  BY <1>2, <1>5, <1>7 DEF InstallTypes, CopiesToAFile
<1>10. Rewriting'
  <2>1. CASE ipc \in AtFile
    <3>1. I!File \in I!Names /\ I!File' = I!File
      BY <1>2, <2>1, FileIsNamed DEF I!File
    <3>2. CASE g # I!File
      BY <1>2, <1>5, <1>7, <3>1, <3>2 DEF Rewriting
    <3>3. CASE g = I!File
      <4>1. CASE ipc \in {"replace", "restore"}
        <5>1. I!AboutToReplace(g)
          BY <3>3, <4>1 DEF I!AboutToReplace
        <5>2. Safe(g)' = {}
          BY <1>8, <3>3, <4>1, <5>1 DEF Rewriting
        <5>3. QED
          BY <1>2, <1>5, <3>1, <3>3, <4>1, <5>2 DEF Rewriting
      <4>2. CASE ipc \notin {"replace", "restore"}
        BY <1>2, <1>4, <1>5, <1>8, <3>1, <3>3, <4>2 DEF Rewriting
      <4>3. QED
        BY <4>1, <4>2
    <3>4. QED
      BY <3>2, <3>3
  <2>2. CASE ipc \notin AtFile
    BY <1>2, <2>2 DEF Rewriting, AtFile
  <2>3. QED
    BY <2>1, <2>2
<1>11. \A f \in I!Names : Kept(f)'
  <2>1. ASSUME NEW f \in I!Names \ {g} PROVE Kept(f)'
    BY <1>5, <1>7, <2>1 DEF Kept
  <2>2. ASSUME NEW f \in I!Names, f = g PROVE Kept(f)'
    <3>1. CASE files[g].now = Gone
      BY <1>4, <1>5, <1>8, <2>2, <3>1 DEF Kept
    <3>2. CASE files[g].now # Gone
      BY <1>4, <1>5, <1>8, <2>2, <3>2 DEF Kept
    <3>3. QED
      BY <3>1, <3>2
  <2>3. QED
    BY <2>1, <2>2
<1>12. QED
  BY <1>9, <1>10, <1>11

LEMMA SpecInstallInv == ASSUME ShellFilesAreListed PROVE I!Spec => []InstallInv
<1>1. ASSUME InstallInv, UNCHANGED I!installVars PROVE InstallInv'
  BY <1>1 DEF I!installVars, InstallInv, InstallTypes, CopiesToAFile, Rewriting, Kept, Safe, I!File
<1>2. InstallInv /\ [I!Next]_(I!installVars) => InstallInv'
  BY <1>1, PlacingKeepsInstallInv, ReadingKeepsInstallInv, RewritingKeepsInstallInv,
     ReplacingKeepsInstallInv, FailingKeepsInstallInv, SavingKeepsInstallInv DEF I!Next
<1>3. QED
  BY <1>2, InitInstallInv, PTL DEF I!Spec

(* install-yourself (cli/cmd/install_yourself.cpp:209-296) may fail or be  *)
(* killed at any step, be run again, and race with the user's editor: what *)
(* the user has saved is in the start-up file or in its backup, but for    *)
(* what a save of the file exposed while it was missing; and the           *)
(* executable is not written over through a link to itself.                *)
THEOREM WhatTheUserSavedSurvives ==
  ASSUME ShellFilesAreListed PROVE I!Spec => []UserFilesSurvive
<1>1. InstallInv => UserFilesSurvive
  BY DEF InstallInv, InstallTypes, Kept, Safe, UserFilesSurvive, I!UserFilesSurvive
<1>2. QED
  BY <1>1, SpecInstallInv, PTL
-----------------------------------------------------------------------------
(* The search for cycles. The names of libraries are ordered.              *)
UsageMapsAreMaps ==
    \A r \in UsageMaps : DOMAIN r \subseteq Int /\ \A u \in DOMAIN r : r[u].uses \in Seq(Int)

Visited == {u \in DOMAIN reqs : mark[u] = "visited"}

SearchTypes == /\ DOMAIN reqs \subseteq Int
               /\ \A u \in DOMAIN reqs : /\ reqs[u].uses \in Seq(Int)
                                         /\ tried[u] <= Len(reqs[u].uses)
                                         /\ mark[u] = "unvisited" => tried[u] = 0
               /\ spc = "acyclic" => calls = << >> /\ roots = {}

(* The libraries that are being visited are those of the calls, each used  *)
(* by the one before.                                                      *)
CallsAreAPath ==
    /\ \A k \in DOMAIN calls : mark[calls[k]] = "visiting"
    /\ \A u \in DOMAIN reqs : mark[u] = "visiting" => \E k \in DOMAIN calls : calls[k] = u
    /\ \A k, m \in DOMAIN calls : k # m => calls[k] # calls[m]
    /\ \A k \in DOMAIN calls : k < Len(calls) =>
           tried[calls[k]] # 0 /\ C!Onward(calls[k]) = calls[k + 1]

(* What a call has looked at has been visited, but for the call below it.  *)
LookedAt ==
    spc = "search" => \A k \in DOMAIN calls : \A i \in 1..tried[calls[k]] :
        reqs[calls[k]].uses[i] \in DOMAIN reqs \ Visited => k < Len(calls) /\ i = tried[calls[k]]

(* Some set of visited libraries has all that v uses, and not v.           *)
NotInCycle(v) ==
    \E S \in SUBSET Visited : /\ C!Closed(reqs, S) /\ v \notin S
                              /\ \A e \in C!Uses(reqs) : e[1] = v => e[2] \in S

(* Who has been visited is in no cycle, nor is what it uses.               *)
VisitedAreDone == C!Closed(reqs, Visited) /\ \A v \in Visited : NotInCycle(v)

ComeTo == \A u \in DOMAIN reqs \ roots : u \in Visited \/ (calls # << >> /\ u = calls[1])

(* A cycle is the end of the path of calls.                                *)
Recovered ==
    spc \in {"chase", "cyclic"} =>
        \E j \in DOMAIN calls :
            /\ Len(cycle) >= 1 /\ j + Len(cycle) - 1 <= Len(calls)
            /\ \A m \in DOMAIN cycle : cycle[m] = calls[j + m - 1]
            /\ tried[C!Caller] # 0 /\ C!Onward(C!Caller) = calls[j]
            /\ spc = "cyclic" => j + Len(cycle) - 1 = Len(calls)

SearchInv == /\ C!TypeOK /\ SearchTypes /\ CallsAreAPath /\ LookedAt
             /\ VisitedAreDone /\ ComeTo /\ Recovered

LEMMA InitSearchInv == ASSUME UsageMapsAreMaps PROVE C!Init => SearchInv
<1> SUFFICES ASSUME C!Init PROVE SearchInv
  OBVIOUS
<1>1. C!TypeOK /\ SearchTypes
  BY DEF UsageMapsAreMaps, C!Init, C!TypeOK, SearchTypes
<1>2. Visited = {}
  BY DEF Visited, C!Init
<1>3. QED
  BY <1>1, <1>2 DEF C!Init, SearchInv, CallsAreAPath, LookedAt, VisitedAreDone, NotInCycle,
                    C!Closed, ComeTo, Recovered

(* When a library is not left, what is done stays done.                    *)
LEMMA DoneStaysDone ==
  ASSUME VisitedAreDone, UNCHANGED reqs, Visited' = Visited
  PROVE  VisitedAreDone'
BY DEF VisitedAreDone, NotInCycle

LEMMA SearchFromKeepsSearchInv ==
  ASSUME SearchInv, NEW u \in roots, C!SearchFrom(u)
  PROVE  SearchInv'
<1> USE DEF SearchInv
<1>1. /\ spc = "search" /\ calls = << >> /\ UNCHANGED <<reqs, tried>>
      /\ u \in DOMAIN reqs /\ roots' = roots \ {u} /\ C!FindCycle(u)
  BY DEF C!SearchFrom, C!TypeOK
<1>2. mark[u] # "visiting"
  BY <1>1 DEF CallsAreAPath
<1>3. CASE C!NoCycleBelow(u)
  <2>1. UNCHANGED <<spc, mark, calls, cycle>> /\ u \in Visited /\ Visited' = Visited
    BY <1>1, <1>3 DEF C!NoCycleBelow, Visited
  <2>2. C!TypeOK' /\ SearchTypes'
    BY <1>1, <2>1 DEF C!TypeOK, SearchTypes
  <2>3. CallsAreAPath' /\ LookedAt' /\ ComeTo' /\ Recovered'
    BY <1>1, <2>1 DEF CallsAreAPath, LookedAt, ComeTo, Recovered
  <2>4. QED
    BY <1>1, <2>1, <2>2, <2>3, DoneStaysDone
<1>4. CASE C!GoBelow(u)
  <2>1. /\ calls' = <<u>> /\ UNCHANGED <<spc, cycle>>
        /\ mark' = [mark EXCEPT ![u] = "visiting"] /\ mark[u] = "unvisited"
    BY <1>1, <1>4 DEF C!GoBelow
  <2>2. Visited' = Visited /\ tried[u] = 0
    BY <1>1, <2>1 DEF Visited, C!TypeOK, SearchTypes
  <2>3. C!TypeOK' /\ SearchTypes'
    BY <1>1, <2>1 DEF C!TypeOK, SearchTypes
  <2>4. CallsAreAPath'
    BY <1>1, <2>1 DEF CallsAreAPath, C!TypeOK
  <2>5. LookedAt' /\ ComeTo' /\ Recovered'
    BY <1>1, <2>1, <2>2 DEF LookedAt, ComeTo, Recovered
  <2>6. QED
    BY <1>1, <2>2, <2>3, <2>4, <2>5, DoneStaysDone
<1>5. QED
  BY <1>1, <1>2, <1>3, <1>4 DEF C!FindCycle, C!MetAgain

LEMMA OneUseMore ==
  ASSUME SearchInv, C!TryNext
  PROVE  /\ C!Caller \in DOMAIN reqs /\ Len(calls) \in Nat \ {0} /\ C!Caller = calls[Len(calls)]
         /\ mark[C!Caller] = "visiting"
         /\ tried[C!Caller] \in Nat /\ tried[C!Caller] < Len(reqs[C!Caller].uses)
         /\ tried' = [tried EXCEPT ![C!Caller] = tried[C!Caller] + 1]
         /\ spc = "search" /\ UNCHANGED <<reqs, roots>>
<1>1. calls # << >> /\ calls \in Seq(DOMAIN reqs) /\ tried \in [DOMAIN reqs -> Nat]
  BY DEF SearchInv, C!TypeOK, C!TryNext
<1>2. Len(calls) \in Nat \ {0} /\ C!Caller = calls[Len(calls)] /\ Len(calls) \in DOMAIN calls
  BY <1>1 DEF C!Caller
<1>3. C!Caller \in DOMAIN reqs
  BY <1>1, <1>2
<1>4. QED
  BY <1>1, <1>2, <1>3 DEF SearchInv, CallsAreAPath, C!TryNext

(* The next use is not known or has been visited: the loop goes on.        *)
LEMMA PassedKeepsSearchInv ==
  ASSUME SearchInv, C!TryNext, UNCHANGED <<spc, mark, calls, cycle>>,
         reqs[C!Caller].uses[tried[C!Caller] + 1] \notin DOMAIN reqs \ Visited
  PROVE  SearchInv'
<1> DEFINE c == C!Caller
<1>1. /\ c \in DOMAIN reqs /\ Len(calls) \in Nat \ {0} /\ c = calls[Len(calls)]
      /\ tried[c] \in Nat /\ tried[c] < Len(reqs[c].uses) /\ mark[c] = "visiting"
      /\ tried' = [tried EXCEPT ![c] = tried[c] + 1]
      /\ spc = "search" /\ UNCHANGED <<reqs, roots>>
  BY OneUseMore
<1>2. Visited' = Visited /\ calls \in Seq(DOMAIN reqs) /\ tried \in [DOMAIN reqs -> Nat]
  BY <1>1 DEF Visited, SearchInv, C!TypeOK
<1> HIDE DEF c
<1>3. C!TypeOK'
  BY <1>1 DEF SearchInv, C!TypeOK
<1>4. SearchTypes'
  <2> SUFFICES ASSUME NEW u \in DOMAIN reqs
               PROVE  tried'[u] <= Len(reqs[u].uses) /\ (mark[u] = "unvisited" => tried'[u] = 0)
    BY <1>1 DEF SearchInv, SearchTypes
  <2>1. tried[u] <= Len(reqs[u].uses) /\ (mark[u] = "unvisited" => tried[u] = 0)
    BY DEF SearchInv, SearchTypes
  <2>2. tried'[u] = IF u = c THEN tried[c] + 1 ELSE tried[u]
    BY <1>1, <1>2
  <2>3. reqs[c].uses \in Seq(Int)
    BY <1>1 DEF SearchInv, SearchTypes
  <2>4. QED
    BY <1>1, <2>1, <2>2, <2>3
<1>5. \A k \in DOMAIN calls : k < Len(calls) => calls[k] # c /\ tried'[calls[k]] = tried[calls[k]]
  BY <1>1, <1>2 DEF SearchInv, CallsAreAPath
<1>6. CallsAreAPath'
  BY <1>1, <1>2, <1>5 DEF SearchInv, CallsAreAPath, C!Onward
<1>7. LookedAt'
  <2> SUFFICES ASSUME NEW k \in DOMAIN calls, NEW i \in 1..tried'[calls[k]],
                      reqs[calls[k]].uses[i] \in DOMAIN reqs \ Visited
               PROVE  k < Len(calls) /\ i = tried'[calls[k]]
    BY <1>1, <1>2 DEF LookedAt
  <2>1. CASE k < Len(calls)
    BY <1>1, <1>2, <1>5, <2>1 DEF SearchInv, LookedAt
  <2>2. CASE k = Len(calls)
    <3>1. i \in 1..(tried[c] + 1) /\ i # tried[c] + 1
      BY <1>1, <1>2, <2>2 DEF c
    <3>2. i \in 1..tried[calls[k]]
      BY <1>1, <2>2, <3>1
    <3>3. QED
      BY <1>1, <2>2, <3>2 DEF SearchInv, LookedAt
  <2>3. QED
    BY <1>1, <1>2, <2>1, <2>2
<1>8. ComeTo' /\ Recovered'
  BY <1>1, <1>2 DEF SearchInv, ComeTo, Recovered
<1>9. VisitedAreDone'
  BY <1>1, <1>2, DoneStaysDone DEF SearchInv
<1>10. QED
  BY <1>3, <1>4, <1>6, <1>7, <1>8, <1>9 DEF SearchInv

LEMMA MetAgainKeepsSearchInv ==
  ASSUME SearchInv, C!TryNext, NEW next \in DOMAIN reqs, C!MetAgain(next),
         next = reqs[C!Caller].uses[tried[C!Caller] + 1]
  PROVE  SearchInv'
<1> DEFINE c == C!Caller
<1>1. /\ c \in DOMAIN reqs /\ Len(calls) \in Nat \ {0} /\ c = calls[Len(calls)]
      /\ tried[c] \in Nat /\ tried[c] < Len(reqs[c].uses) /\ mark[c] = "visiting"
      /\ tried' = [tried EXCEPT ![c] = tried[c] + 1]
      /\ spc = "search" /\ UNCHANGED <<reqs, roots>>
  BY OneUseMore
<1>2. /\ spc' = "chase" /\ cycle' = <<next>> /\ UNCHANGED <<mark, calls>> /\ mark[next] = "visiting"
      /\ next = reqs[c].uses[tried[c] + 1]
  BY DEF C!MetAgain
<1>3. Visited' = Visited /\ calls \in Seq(DOMAIN reqs) /\ tried \in [DOMAIN reqs -> Nat]
  BY <1>1, <1>2 DEF Visited, SearchInv, C!TypeOK
<1>4. C!Caller' = c
  BY <1>2 DEF C!Caller
<1> HIDE DEF c
<1>5. C!TypeOK'
  BY <1>1, <1>2 DEF SearchInv, C!TypeOK
<1>6. SearchTypes'
  <2> SUFFICES ASSUME NEW u \in DOMAIN reqs
               PROVE  tried'[u] <= Len(reqs[u].uses) /\ (mark[u] = "unvisited" => tried'[u] = 0)
    BY <1>1, <1>2 DEF SearchInv, SearchTypes
  <2>1. tried[u] <= Len(reqs[u].uses) /\ (mark[u] = "unvisited" => tried[u] = 0)
    BY DEF SearchInv, SearchTypes
  <2>2. tried'[u] = IF u = c THEN tried[c] + 1 ELSE tried[u]
    BY <1>1, <1>3
  <2>3. reqs[c].uses \in Seq(Int)
    BY <1>1 DEF SearchInv, SearchTypes
  <2>4. QED
    BY <1>1, <2>1, <2>2, <2>3
<1>7. \A k \in DOMAIN calls : k < Len(calls) => calls[k] # c /\ tried'[calls[k]] = tried[calls[k]]
  BY <1>1, <1>3 DEF SearchInv, CallsAreAPath
<1>8. CallsAreAPath'
  BY <1>1, <1>2, <1>3, <1>7 DEF SearchInv, CallsAreAPath, C!Onward
<1>9. Recovered'
  <2>1. PICK j \in DOMAIN calls : calls[j] = next
    BY <1>2 DEF SearchInv, CallsAreAPath
  <2>2. tried'[c] # 0 /\ reqs'[c].uses[tried'[c]] = next
    BY <1>1, <1>2, <1>3
  <2>3. j \in 1..Len(calls)
    BY <1>3
  <2>4. /\ j \in DOMAIN calls' /\ Len(cycle') >= 1 /\ j + Len(cycle') - 1 <= Len(calls')
        /\ \A m \in DOMAIN cycle' : cycle'[m] = calls'[j + m - 1]
    <3>1. DOMAIN cycle' = {1} /\ Len(cycle') = 1 /\ cycle'[1] = next
      BY <1>2
    <3>2. Len(calls) \in Nat /\ j + 1 - 1 = j /\ calls' = calls
      BY <1>1, <1>2, <2>3
    <3>3. QED
      BY <2>1, <2>3, <3>1, <3>2
  <2>5. QED
    BY <1>2, <1>4, <2>1, <2>2, <2>4 DEF Recovered, C!Onward
<1>10. LookedAt' /\ ComeTo'
  BY <1>1, <1>2, <1>3 DEF SearchInv, LookedAt, ComeTo
<1>11. VisitedAreDone'
  BY <1>1, <1>3, DoneStaysDone DEF SearchInv
<1>12. QED
  BY <1>5, <1>6, <1>8, <1>9, <1>10, <1>11 DEF SearchInv

LEMMA GoBelowKeepsSearchInv ==
  ASSUME SearchInv, C!TryNext, NEW next \in DOMAIN reqs, C!GoBelow(next),
         next = reqs[C!Caller].uses[tried[C!Caller] + 1]
  PROVE  SearchInv'
<1> DEFINE c == C!Caller
           n == Len(calls)
<1>1. /\ c \in DOMAIN reqs /\ n \in Nat \ {0} /\ c = calls[n]
      /\ tried[c] \in Nat /\ tried[c] < Len(reqs[c].uses) /\ mark[c] = "visiting"
      /\ tried' = [tried EXCEPT ![c] = tried[c] + 1]
      /\ spc = "search" /\ UNCHANGED <<reqs, roots>>
  BY OneUseMore
<1>2. /\ mark' = [mark EXCEPT ![next] = "visiting"] /\ calls' = Append(calls, next)
      /\ UNCHANGED <<spc, cycle>> /\ mark[next] = "unvisited"
      /\ next = reqs[c].uses[tried[c] + 1]
  BY DEF C!GoBelow
<1>3. /\ calls \in Seq(DOMAIN reqs) /\ tried \in [DOMAIN reqs -> Nat]
      /\ mark \in [DOMAIN reqs -> {"unvisited", "visiting", "visited"}]
  BY DEF SearchInv, C!TypeOK
<1>4. Visited' = Visited
  BY <1>1, <1>2, <1>3 DEF Visited
<1>5. /\ calls' \in Seq(DOMAIN reqs) /\ Len(calls') = n + 1 /\ calls'[n + 1] = next
      /\ \A k \in 1..n : calls'[k] = calls[k]
      /\ DOMAIN calls = 1..n /\ DOMAIN calls' = 1..(n + 1)
  BY <1>2, <1>3
<1>6. tried[next] = 0 /\ next # c
  BY <1>1, <1>2 DEF SearchInv, SearchTypes
<1> HIDE DEF c, n
<1>7. C!TypeOK'
  BY <1>1, <1>2, <1>5 DEF SearchInv, C!TypeOK
<1>8. SearchTypes'
  <2>1. \A u \in DOMAIN reqs : tried'[u] <= Len(reqs[u].uses)
    <3>1. Len(reqs[c].uses) \in Nat
      BY <1>1 DEF SearchInv, SearchTypes
    <3>2. tried'[c] <= Len(reqs[c].uses)
      BY <1>1, <1>3, <3>1
    <3>3. \A u \in DOMAIN reqs : tried[u] <= Len(reqs[u].uses)
      BY DEF SearchInv, SearchTypes
    <3>4. QED
      BY <1>1, <1>3, <3>2, <3>3
  <2>2. \A u \in DOMAIN reqs : mark'[u] = "unvisited" => mark[u] = "unvisited" /\ u # c
    BY <1>1, <1>2, <1>3
  <2>3. \A u \in DOMAIN reqs : mark'[u] = "unvisited" => tried'[u] = 0
    BY <1>1, <1>3, <2>2 DEF SearchInv, SearchTypes
  <2>4. QED
    BY <1>1, <1>2, <2>1, <2>3 DEF SearchInv, SearchTypes
<1>9. \A k \in 1..n : /\ calls[k] \in DOMAIN reqs /\ calls[k] # next /\ mark'[calls[k]] = "visiting"
                      /\ k < n => calls[k] # c /\ tried'[calls[k]] = tried[calls[k]]
  <2> SUFFICES ASSUME NEW k \in 1..n
               PROVE  /\ calls[k] \in DOMAIN reqs /\ calls[k] # next /\ mark'[calls[k]] = "visiting"
                      /\ k < n => calls[k] # c /\ tried'[calls[k]] = tried[calls[k]]
    OBVIOUS
  <2>1. calls[k] \in DOMAIN reqs
    <3>1. \A m \in DOMAIN calls : calls[m] \in DOMAIN reqs
      BY <1>3
    <3>2. QED
      BY <1>5, <3>1
  <2>2. mark[calls[k]] = "visiting" /\ (k < n => calls[k] # c)
    <3>1. CallsAreAPath /\ k \in DOMAIN calls /\ n \in DOMAIN calls /\ n \in Nat
      BY <1>1, <1>5 DEF SearchInv
    <3>2. QED
      BY <1>1, <3>1 DEF CallsAreAPath
  <2>3. QED
    BY <1>1, <1>2, <1>3, <2>1, <2>2
<1>10. CallsAreAPath'
  <2>1. \A k \in DOMAIN calls' : mark'[calls'[k]] = "visiting"
    BY <1>1, <1>2, <1>3, <1>5, <1>9
  <2>2. \A u \in DOMAIN reqs : mark'[u] = "visiting" => \E k \in DOMAIN calls' : calls'[k] = u
    <3> SUFFICES ASSUME NEW u \in DOMAIN reqs, mark'[u] = "visiting"
                 PROVE  \E k \in DOMAIN calls' : calls'[k] = u
      OBVIOUS
    <3>1. CASE u = next
      BY <1>1, <1>5, <3>1
    <3>2. CASE u # next
      <4>1. mark[u] = "visiting"
        BY <1>2, <1>3, <3>2
      <4>2. PICK k \in DOMAIN calls : calls[k] = u
        BY <4>1 DEF SearchInv, CallsAreAPath
      <4>3. QED
        BY <1>1, <1>5, <4>2
    <3>3. QED
      BY <3>1, <3>2
  <2>3. \A k, m \in DOMAIN calls' : k # m => calls'[k] # calls'[m]
    BY <1>1, <1>5, <1>9 DEF SearchInv, CallsAreAPath
  <2>4. \A k \in DOMAIN calls' : k < n + 1 =>
            tried'[calls'[k]] # 0 /\ reqs[calls'[k]].uses[tried'[calls'[k]]] = calls'[k + 1]
    <3> SUFFICES ASSUME NEW k \in 1..n
                 PROVE  tried'[calls[k]] # 0 /\ reqs[calls[k]].uses[tried'[calls[k]]] = calls'[k + 1]
      BY <1>1, <1>5
    <3>1. CASE k < n
      <4>1. tried[calls[k]] # 0 /\ C!Onward(calls[k]) = calls[k + 1]
        BY <1>1, <1>5, <3>1 DEF SearchInv, CallsAreAPath, n
      <4>2. calls'[k + 1] = calls[k + 1]
        BY <1>1, <1>5, <3>1
      <4>3. QED
        BY <1>9, <3>1, <4>1, <4>2 DEF C!Onward
    <3>2. CASE k = n
      BY <1>1, <1>2, <1>3, <1>5, <3>2
    <3>3. QED
      BY <1>1, <3>1, <3>2
  <2>5. QED
    BY <1>1, <1>5, <2>1, <2>2, <2>3, <2>4 DEF CallsAreAPath, C!Onward
<1>11. LookedAt'
  <2> SUFFICES ASSUME NEW k \in 1..(n + 1), NEW i \in 1..tried'[calls'[k]],
                      reqs[calls'[k]].uses[i] \in DOMAIN reqs \ Visited
               PROVE  k < n + 1 /\ i = tried'[calls'[k]]
    BY <1>1, <1>4, <1>5 DEF LookedAt
  <2>1. CASE k < n
    <3>1. i \in 1..tried[calls[k]] /\ calls'[k] = calls[k] /\ k \in DOMAIN calls
      BY <1>1, <1>5, <1>9, <2>1
    <3>2. i = tried[calls[k]]
      BY <1>1, <3>1 DEF SearchInv, LookedAt
    <3>3. QED
      BY <1>1, <1>9, <2>1, <3>1, <3>2
  <2>2. CASE k = n
    <3>1. calls'[k] = c /\ tried'[c] = tried[c] + 1
      BY <1>1, <1>3, <1>5, <2>2
    <3>2. ASSUME i \in 1..tried[c] PROVE FALSE
      BY <1>1, <1>5, <2>2, <3>1, <3>2 DEF SearchInv, LookedAt, n
    <3>3. QED
      BY <1>1, <2>2, <3>1, <3>2
  <2>3. CASE k = n + 1
    BY <1>1, <1>3, <1>5, <1>6, <2>3
  <2>4. QED
    BY <1>1, <2>1, <2>2, <2>3
<1>12. ComeTo' /\ Recovered'
  BY <1>1, <1>2, <1>4, <1>5 DEF SearchInv, ComeTo, Recovered
<1>13. VisitedAreDone'
  BY <1>1, <1>4, DoneStaysDone DEF SearchInv
<1>14. QED
  BY <1>7, <1>8, <1>10, <1>11, <1>12, <1>13 DEF SearchInv

LEMMA TryNextKeepsSearchInv == ASSUME SearchInv, C!TryNext PROVE SearchInv'
<1> DEFINE next == reqs[C!Caller].uses[tried[C!Caller] + 1]
<1>1. CASE next \notin DOMAIN reqs
  BY <1>1, PassedKeepsSearchInv DEF C!TryNext
<1>2. CASE next \in DOMAIN reqs /\ C!NoCycleBelow(next)
  BY <1>2, PassedKeepsSearchInv DEF C!NoCycleBelow, Visited
<1>3. CASE next \in DOMAIN reqs /\ C!MetAgain(next)
  BY <1>3, MetAgainKeepsSearchInv
<1>4. CASE next \in DOMAIN reqs /\ C!GoBelow(next)
  BY <1>4, GoBelowKeepsSearchInv
<1>5. QED
  BY <1>1, <1>2, <1>3, <1>4 DEF C!TryNext, C!FindCycle

LEMMA ReturnKeepsSearchInv == ASSUME SearchInv, C!Return PROVE SearchInv'
<1> DEFINE c == C!Caller
           n == Len(calls)
<1>1. /\ calls \in Seq(DOMAIN reqs) /\ n \in Nat \ {0} /\ c = calls[n] /\ c \in DOMAIN reqs
      /\ DOMAIN calls = 1..n /\ tried[c] = Len(reqs[c].uses) /\ reqs[c].uses \in Seq(Int)
      /\ spc = "search" /\ UNCHANGED <<reqs, spc, roots, tried, cycle>>
      /\ mark' = [mark EXCEPT ![c] = "visited"] /\ calls' = SubSeq(calls, 1, n - 1)
  <2>1. calls \in Seq(DOMAIN reqs) /\ calls # << >>
    BY DEF SearchInv, C!TypeOK, C!Return
  <2>2. n \in Nat \ {0} /\ c = calls[n] /\ DOMAIN calls = 1..n /\ c \in DOMAIN reqs
    BY <2>1 DEF C!Caller
  <2>3. QED
    BY <2>1, <2>2 DEF SearchInv, SearchTypes, C!Return
<1>2. /\ tried \in [DOMAIN reqs -> Nat]
      /\ mark \in [DOMAIN reqs -> {"unvisited", "visiting", "visited"}]
  BY DEF SearchInv, C!TypeOK
<1> HIDE DEF c
<1>3. Visited' = Visited \cup {c} /\ c \notin Visited
  <2>1. mark[c] = "visiting"
    BY <1>1 DEF SearchInv, CallsAreAPath
  <2>2. QED
    BY <1>1, <1>2, <2>1 DEF Visited
<1>4. /\ calls' \in Seq(DOMAIN reqs) /\ Len(calls') = n - 1 /\ DOMAIN calls' = 1..(n - 1)
      /\ \A k \in 1..(n - 1) : calls'[k] = calls[k]
  BY <1>1
<1> HIDE DEF n
<1>5. C!TypeOK' /\ SearchTypes'
  <2>1. mark' \in [DOMAIN reqs -> {"unvisited", "visiting", "visited"}]
    BY <1>1, <1>2
  <2>2. \A u \in DOMAIN reqs : mark'[u] = "unvisited" => mark[u] = "unvisited"
    BY <1>1, <1>2
  <2>3. C!TypeOK'
    BY <1>1, <1>4, <2>1 DEF SearchInv, C!TypeOK
  <2>4. SearchTypes'
    BY <1>1, <2>2 DEF SearchInv, SearchTypes
  <2>5. QED
    BY <2>3, <2>4
(* The caller's loop is over: all that it uses has been visited. *)
<1>6. \A e \in C!Uses(reqs) : e[1] = c => e[2] \in Visited
  <2> SUFFICES ASSUME NEW e \in C!Uses(reqs), e[1] = c PROVE e[2] \in Visited
    OBVIOUS
  <2>1. e[2] \in DOMAIN reqs /\ \E i \in DOMAIN reqs[c].uses : reqs[c].uses[i] = e[2]
    BY DEF C!Uses
  <2>2. PICK i \in 1..tried[c] : reqs[c].uses[i] = e[2]
    <3>1. DOMAIN reqs[c].uses = 1..tried[c]
      BY <1>1
    <3>2. QED
      BY <2>1, <3>1
  <2>3. n \in DOMAIN calls /\ ~(n < Len(calls))
    BY <1>1 DEF n
  <2>4. QED
    BY <1>1, <2>1, <2>2, <2>3 DEF SearchInv, LookedAt
<1>7. VisitedAreDone'
  <2>1. C!Closed(reqs, Visited) /\ \A v \in Visited : NotInCycle(v)
    BY DEF SearchInv, VisitedAreDone
  <2>2. C!Closed(reqs, Visited')
    BY <1>3, <1>6, <2>1 DEF C!Closed
  <2>3. ASSUME NEW v \in Visited' PROVE NotInCycle(v)'
    <3>1. PICK S \in SUBSET Visited :
                 /\ C!Closed(reqs, S) /\ v \notin S
                 /\ \A e \in C!Uses(reqs) : e[1] = v => e[2] \in S
      <4>1. CASE v = c
        BY <1>3, <1>6, <2>1, <4>1
      <4>2. CASE v # c
        BY <1>3, <2>1, <2>3, <4>2 DEF NotInCycle
      <4>3. QED
        BY <4>1, <4>2
    <3>2. S \in SUBSET Visited' /\ UNCHANGED reqs
      BY <1>1, <1>3
    <3>3. QED
      BY <3>1, <3>2 DEF NotInCycle, C!Closed, C!Uses
  <2>4. C!Closed(reqs, Visited)'
    BY <1>1, <2>2 DEF C!Closed, C!Uses
  <2>5. QED
    BY <2>3, <2>4 DEF VisitedAreDone
<1>8. CallsAreAPath'
  <2>1. \A k, m \in 1..n : k # m => calls[k] # calls[m]
    BY <1>1 DEF SearchInv, CallsAreAPath
  <2>2. \A k \in 1..(n - 1) : mark[calls[k]] = "visiting" /\ calls[k] # c /\ calls[k] \in DOMAIN reqs
    <3>1. \A k \in 1..(n - 1) : k \in 1..n /\ k # n
      BY <1>1
    <3>2. \A m \in DOMAIN calls : calls[m] \in DOMAIN reqs
      BY <1>1
    <3>3. QED
      BY <1>1, <2>1, <3>1, <3>2 DEF SearchInv, CallsAreAPath
  <2>3. \A k \in DOMAIN calls' : mark'[calls'[k]] = "visiting"
    BY <1>1, <1>2, <1>4, <2>2
  <2>4. \A u \in DOMAIN reqs' : mark'[u] = "visiting" => \E k \in DOMAIN calls' : calls'[k] = u
    <3> SUFFICES ASSUME NEW u \in DOMAIN reqs, mark'[u] = "visiting"
                 PROVE  \E k \in DOMAIN calls' : calls'[k] = u
      BY <1>1
    <3>1. mark[u] = "visiting" /\ u # c
      BY <1>1, <1>2
    <3>2. PICK k \in DOMAIN calls : calls[k] = u
      BY <3>1 DEF SearchInv, CallsAreAPath
    <3>3. k \in 1..(n - 1)
      BY <1>1, <3>1, <3>2
    <3>4. QED
      BY <1>4, <3>2, <3>3
  <2>5. \A k, m \in DOMAIN calls' : k # m => calls'[k] # calls'[m]
    <3>1. \A k \in 1..(n - 1) : k \in 1..n
      BY <1>1
    <3>2. QED
      BY <1>4, <2>1, <3>1
  <2>6. \A k \in DOMAIN calls' : k < Len(calls') =>
            tried'[calls'[k]] # 0 /\ reqs'[calls'[k]].uses[tried'[calls'[k]]] = calls'[k + 1]
    <3> SUFFICES ASSUME NEW k \in 1..(n - 1), k < n - 1
                 PROVE  tried[calls[k]] # 0 /\ C!Onward(calls[k]) = calls[k + 1]
      BY <1>1, <1>4 DEF C!Onward
    <3>1. k \in DOMAIN calls /\ k < Len(calls)
      BY <1>1 DEF n
    <3>2. QED
      BY <3>1 DEF SearchInv, CallsAreAPath
  <2>7. QED
    BY <2>3, <2>4, <2>5, <2>6 DEF CallsAreAPath, C!Onward
<1>9. LookedAt'
  <2> SUFFICES ASSUME NEW k \in 1..(n - 1), NEW i \in 1..tried[calls[k]],
                      reqs[calls[k]].uses[i] \in DOMAIN reqs \ Visited'
               PROVE  k < n - 1 /\ i = tried[calls[k]]
    BY <1>1, <1>4 DEF LookedAt
  <2>1. k \in DOMAIN calls /\ k < Len(calls)
    BY <1>1 DEF n
  <2>2. i = tried[calls[k]]
    BY <1>1, <1>3, <2>1 DEF SearchInv, LookedAt
  <2>3. reqs[calls[k]].uses[i] = calls[k + 1]
    BY <2>1, <2>2 DEF SearchInv, CallsAreAPath, C!Onward
  <2>4. k + 1 # n
    BY <1>1, <1>3, <2>3
  <2>5. QED
    BY <1>1, <2>2, <2>4
<1>10. ComeTo' /\ Recovered'
  <2>1. ASSUME n # 1 PROVE calls' # << >> /\ calls'[1] = calls[1]
    <3>1. 1 \in 1..(n - 1) /\ Len(calls') # 0
      BY <1>1, <1>4, <2>1
    <3>2. QED
      BY <1>4, <3>1
  <2>2. n = 1 => calls[1] \in Visited'
    BY <1>1, <1>3
  <2>3. ComeTo'
    BY <1>1, <1>3, <2>1, <2>2 DEF SearchInv, ComeTo
  <2>4. QED
    BY <1>1, <2>3 DEF Recovered
<1>11. QED
  BY <1>5, <1>7, <1>8, <1>9, <1>10 DEF SearchInv

(* The chase goes along the path of calls, whose end uses its beginning.   *)
LEMMA ChaseKeepsSearchInv == ASSUME SearchInv, C!Chase PROVE SearchInv'
<1> DEFINE cur == C!Onward(cycle[Len(cycle)])
<1>1. /\ spc = "chase" /\ UNCHANGED <<reqs, roots, mark, tried, calls>>
      /\ \/ cur = cycle[1] /\ spc' = "cyclic" /\ UNCHANGED cycle
         \/ cur # cycle[1] /\ cycle' = Append(cycle, cur) /\ UNCHANGED spc
  BY DEF C!Chase
<1>2. calls \in Seq(DOMAIN reqs) /\ cycle \in Seq(DOMAIN reqs)
  BY DEF SearchInv, C!TypeOK
<1>3. PICK j \in DOMAIN calls :
             /\ Len(cycle) >= 1 /\ j + Len(cycle) - 1 <= Len(calls)
             /\ \A m \in DOMAIN cycle : cycle[m] = calls[j + m - 1]
             /\ tried[C!Caller] # 0 /\ C!Onward(C!Caller) = calls[j]
  BY <1>1 DEF SearchInv, Recovered
<1> DEFINE last == j + Len(cycle) - 1
<1>4. /\ j \in 1..Len(calls) /\ last \in 1..Len(calls)
      /\ cycle[1] = calls[j] /\ cycle[Len(cycle)] = calls[last]
  <2>1. Len(cycle) \in Nat /\ Len(calls) \in Nat /\ j \in 1..Len(calls)
    BY <1>2
  <2>2. 1 \in DOMAIN cycle /\ Len(cycle) \in DOMAIN cycle
    BY <1>2, <1>3
  <2>3. last \in 1..Len(calls) /\ j + 1 - 1 = j
    BY <1>3, <2>1
  <2>4. cycle[1] = calls[j + 1 - 1] /\ cycle[Len(cycle)] = calls[last]
    BY <1>3, <2>2
  <2> HIDE DEF last
  <2>5. QED
    BY <2>1, <2>3, <2>4
<1>5. Visited' = Visited /\ VisitedAreDone' /\ C!Caller' = C!Caller
  <2>1. Visited' = Visited
    BY <1>1 DEF Visited
  <2>2. QED
    BY <1>1, <2>1, DoneStaysDone DEF SearchInv, C!Caller
<1>6. SearchTypes' /\ CallsAreAPath' /\ LookedAt' /\ ComeTo'
  BY <1>1, <1>5 DEF SearchInv, SearchTypes, CallsAreAPath, C!Onward, LookedAt, ComeTo
<1>7. C!TypeOK' /\ Recovered'
  <2>1. CASE last < Len(calls)
    <3>1. cur = calls[last + 1] /\ cur # calls[j] /\ last + 1 \in DOMAIN calls
      <4>1. last \in DOMAIN calls /\ last + 1 \in DOMAIN calls /\ last + 1 # j
        BY <1>2, <1>3, <1>4, <2>1
      <4>2. QED
        BY <1>4, <2>1, <4>1 DEF SearchInv, CallsAreAPath
    <3>2. cycle' = Append(cycle, cur) /\ spc' = "chase"
      BY <1>1, <1>4, <3>1
    <3> HIDE DEF cur
    <3>3. cur \in DOMAIN reqs
      BY <1>2, <3>1
    <3>4. cycle' \in Seq(DOMAIN reqs) /\ Len(cycle') = Len(cycle) + 1
      BY <1>2, <3>2, <3>3
    <3>5. \A m \in DOMAIN cycle' : cycle'[m] = calls[j + m - 1]
      BY <1>2, <1>3, <3>1, <3>2, <3>3
    <3>6. j + Len(cycle') - 1 <= Len(calls) /\ Len(cycle') >= 1
      BY <1>2, <1>4, <2>1, <3>4
    <3>7. C!TypeOK'
      BY <1>1, <3>2, <3>4 DEF SearchInv, C!TypeOK
    <3>8. Recovered'
      BY <1>1, <1>3, <1>5, <3>2, <3>5, <3>6 DEF Recovered, C!Onward
    <3>9. QED
      BY <3>7, <3>8
  <2>2. CASE last = Len(calls)
    <3>1. cur = cycle[1]
      BY <1>3, <1>4, <2>2 DEF C!Caller
    <3>2. spc' = "cyclic" /\ UNCHANGED cycle
      BY <1>1, <3>1
    <3>3. C!TypeOK'
      BY <1>1, <3>2 DEF SearchInv, C!TypeOK
    <3>4. Recovered'
      BY <1>1, <1>3, <1>5, <2>2, <3>2 DEF Recovered, C!Onward
    <3>5. QED
      BY <3>3, <3>4
  <2>3. QED
    BY <1>2, <1>3, <1>4, <2>1, <2>2
<1>8. QED
  BY <1>5, <1>6, <1>7 DEF SearchInv

LEMMA NoCycleKeepsSearchInv == ASSUME SearchInv, C!NoCycle PROVE SearchInv'
<1>1. /\ spc' = "acyclic" /\ calls = << >> /\ roots = {}
      /\ UNCHANGED <<reqs, roots, mark, tried, calls, cycle>>
  BY DEF C!NoCycle
<1>2. Visited' = Visited
  BY <1>1 DEF Visited
<1>3. C!TypeOK' /\ SearchTypes'
  BY <1>1 DEF SearchInv, C!TypeOK, SearchTypes
<1>4. CallsAreAPath' /\ LookedAt' /\ ComeTo' /\ Recovered'
  BY <1>1, <1>2 DEF SearchInv, CallsAreAPath, C!Onward, LookedAt, ComeTo, Recovered
<1>5. QED
  BY <1>1, <1>2, <1>3, <1>4, DoneStaysDone DEF SearchInv

LEMMA NextKeepsSearchInv == SearchInv /\ [C!Next]_searchVars => SearchInv'
<1> SUFFICES ASSUME SearchInv, [C!Next]_searchVars PROVE SearchInv'
  OBVIOUS
<1>1. CASE UNCHANGED searchVars
  <2>1. Visited' = Visited /\ UNCHANGED reqs
    BY <1>1 DEF searchVars, Visited
  <2>2. VisitedAreDone'
    BY <2>1, DoneStaysDone DEF SearchInv
  <2>3. C!TypeOK' /\ SearchTypes'
    BY <1>1 DEF searchVars, SearchInv, C!TypeOK, SearchTypes
  <2>4. CallsAreAPath' /\ LookedAt' /\ ComeTo' /\ Recovered'
    BY <1>1, <2>1 DEF searchVars, SearchInv, CallsAreAPath, C!Onward, C!Caller, LookedAt, ComeTo,
                      Recovered
  <2>5. QED
    BY <2>2, <2>3, <2>4 DEF SearchInv
<1>2. QED
  BY <1>1, SearchFromKeepsSearchInv, TryNextKeepsSearchInv, ReturnKeepsSearchInv,
     NoCycleKeepsSearchInv, ChaseKeepsSearchInv DEF C!Next

LEMMA SpecSearchInv == ASSUME UsageMapsAreMaps PROVE C!Spec => []SearchInv
BY InitSearchInv, NextKeepsSearchInv, PTL DEF C!Spec, searchVars, C!searchVars

LEMMA SmallRemainder == \A i, n \in Nat : i < n => i % n = i
OBVIOUS

LEMMA SearchInvIsWhatIsPromised == SearchInv => CyclesAreFound
<1> SUFFICES ASSUME SearchInv PROVE C!CyclesAreFound
  BY DEF CyclesAreFound
<1>1. ASSUME spc = "acyclic" PROVE C!Acyclic(reqs)
  <2> SUFFICES ASSUME NEW e \in C!Uses(reqs) PROVE ~C!Reaches(reqs, e[2], e[1])
    BY DEF C!Acyclic
  <2>1. e[1] \in DOMAIN reqs /\ e[2] \in DOMAIN reqs
    BY DEF C!Uses
  <2>2. NotInCycle(e[1])
    BY <1>1, <2>1 DEF SearchInv, SearchTypes, ComeTo, VisitedAreDone
  <2>3. PICK S \in SUBSET Visited : C!Closed(reqs, S) /\ e[1] \notin S /\ e[2] \in S
    BY <2>2 DEF NotInCycle
  <2>4. S \in SUBSET DOMAIN reqs
    BY DEF Visited
  <2>5. QED
    BY <2>3, <2>4 DEF C!Reaches
<1>2. ASSUME spc = "cyclic"
      PROVE  /\ cycle # << >>
             /\ \A i, k \in DOMAIN cycle : i # k => cycle[i] # cycle[k]
             /\ \A i \in DOMAIN cycle : <<cycle[i], cycle[(i % Len(cycle)) + 1]>> \in C!Uses(reqs)
  <2> DEFINE n == Len(cycle)
  <2>1. PICK j \in DOMAIN calls :
               /\ n >= 1 /\ j + n - 1 = Len(calls)
               /\ \A m \in DOMAIN cycle : cycle[m] = calls[j + m - 1]
               /\ tried[C!Caller] # 0 /\ C!Onward(C!Caller) = calls[j]
    BY <1>2 DEF SearchInv, Recovered
  <2>2. /\ calls \in Seq(DOMAIN reqs) /\ cycle \in Seq(DOMAIN reqs)
        /\ tried \in [DOMAIN reqs -> Nat]
    BY DEF SearchInv, C!TypeOK
  <2>3. n \in Nat /\ DOMAIN cycle = 1..n /\ DOMAIN calls = 1..Len(calls) /\ Len(calls) \in Nat
    BY <2>2
  <2>4. \A i \in DOMAIN cycle : j + i - 1 \in DOMAIN calls
    BY <2>1, <2>3
  <2>5. \A i, k \in DOMAIN cycle : i # k => cycle[i] # cycle[k]
    <3> SUFFICES ASSUME NEW i \in DOMAIN cycle, NEW k \in DOMAIN cycle, i # k
                 PROVE  cycle[i] # cycle[k]
      OBVIOUS
    <3>1. j + i - 1 # j + k - 1
      BY <2>3
    <3>2. QED
      BY <2>1, <2>4, <3>1 DEF SearchInv, CallsAreAPath
  <2>6. ASSUME NEW k \in DOMAIN calls, tried[calls[k]] # 0, C!Onward(calls[k]) \in DOMAIN reqs
        PROVE  <<calls[k], C!Onward(calls[k])>> \in C!Uses(reqs)
    <3>1. calls[k] \in DOMAIN reqs
      BY <2>2
    <3>2. reqs[calls[k]].uses \in Seq(Int) /\ tried[calls[k]] <= Len(reqs[calls[k]].uses)
      BY <3>1 DEF SearchInv, SearchTypes
    <3>3. tried[calls[k]] \in DOMAIN reqs[calls[k]].uses
      BY <2>2, <2>6, <3>1, <3>2
    <3>4. QED
      BY <2>6, <3>1, <3>3 DEF C!Uses, C!Onward
  <2>7. ASSUME NEW i \in DOMAIN cycle
        PROVE  <<cycle[i], cycle[(i % n) + 1]>> \in C!Uses(reqs)
    <3>1. CASE i < n
      <4>1. (i % n) + 1 = i + 1 /\ i + 1 \in DOMAIN cycle
        <5>1. i \in Nat /\ n \in Nat /\ i < n
          BY <2>3, <3>1
        <5>2. QED
          BY <2>3, <5>1, SmallRemainder
      <4>2. j + i - 1 \in DOMAIN calls /\ j + i - 1 < Len(calls) /\ (j + i - 1) + 1 = j + (i + 1) - 1
        BY <2>1, <2>3, <3>1
      <4>3. cycle[i] = calls[j + i - 1] /\ cycle[i + 1] = calls[(j + i - 1) + 1]
        BY <2>1, <4>1, <4>2
      <4>4. tried[calls[j + i - 1]] # 0 /\ C!Onward(calls[j + i - 1]) = cycle[i + 1]
        BY <4>2, <4>3 DEF SearchInv, CallsAreAPath
      <4>5. cycle[i + 1] \in DOMAIN reqs
        BY <2>2, <4>1
      <4>6. QED
        BY <2>6, <4>1, <4>2, <4>3, <4>4, <4>5
    <3>2. CASE i = n
      <4>1. (i % n) + 1 = 1 /\ 1 \in DOMAIN cycle /\ Len(calls) \in DOMAIN calls
        BY <2>1, <2>3, <3>2
      <4>2. cycle[i] = calls[Len(calls)] /\ cycle[1] = calls[j]
        BY <2>1, <2>3, <3>2, <4>1
      <4>3. C!Caller = calls[Len(calls)]
        BY DEF C!Caller
      <4>4. cycle[1] \in DOMAIN reqs
        BY <2>2, <4>1
      <4>5. QED
        BY <2>1, <2>6, <4>1, <4>2, <4>3, <4>4
    <3>3. QED
      BY <2>3, <3>1, <3>2
  <2>8. QED
    BY <2>1, <2>2, <2>5, <2>7
<1>3. QED
  BY <1>1, <1>2 DEF C!CyclesAreFound

(* However large the map is: what is reported as a cycle of libraries that *)
(* use one another is one, and if none is reported no library reaches      *)
(* itself (usage_reqs.cpp:93, 142).                                        *)
THEOREM CyclesAreReported ==
  ASSUME UsageMapsAreMaps PROVE C!Spec => []CyclesAreFound
  BY SpecSearchInv, SearchInvIsWhatIsPromised, PTL
-----------------------------------------------------------------------------
(* The paths that are asked for. Names are ordered; a plan and what is     *)
(* asked for are sequences.                                                *)
PlansAreSequences ==
    /\ \A p \in UsagePlans : p \in Seq([name : Int, uses : Seq(Int), links : Seq(Int)])
    /\ \A q \in Questions : q.of \in Seq(Int)

Later(g, i, v) == \E j \in DOMAIN g : j > i /\ g[j] = v

Wanted(v) == \E t \in 1..asked : U!Reaches(U!Graph, ask.of[t], v)

PathTypes == /\ plan \in Seq([name : Int, uses : Seq(Int), links : Seq(Int)])
             /\ ask.of \in Seq(Int)
             /\ upc \in {"fill", "dup_library"} => given = << >> /\ pending = << >> /\ asked = 0
             /\ upc = "answered" => pending = << >> /\ asked = Len(ask.of)

(* What the loop of a call has come to is given later than its own.        *)
LoopsGiveLater ==
    \A k \in DOMAIN pending : LET f == U!Follows(given[pending[k].at]) IN
        /\ pending[k].looked <= Len(f)
        /\ \A n \in 1..pending[k].looked : Later(given, pending[k].at, f[n])

(* A call that has returned has given all that it includes.                *)
ReturnedHaveGiven ==
    \A i \in DOMAIN given :
        \/ \E k \in DOMAIN pending : pending[k].at = i
        \/ \A n \in DOMAIN U!Follows(given[i]) : Later(given, i, U!Follows(given[i])[n])

AskedAreGiven ==
    upc # "nonesuch_library" => \A t \in 1..asked : \E i \in DOMAIN given : given[i] = ask.of[t]

GivenAreWanted == \A i \in DOMAIN given : Wanted(given[i])

WhatIsMissing ==
    upc = "nonesuch_library" =>
        \/ \E t \in DOMAIN ask.of : ask.of[t] \notin DOMAIN ureqs
        \/ \E v \in DOMAIN ureqs : /\ Wanted(v)
                                   /\ \E n \in DOMAIN U!Follows(v) : U!Follows(v)[n] \notin DOMAIN ureqs

PathInv == /\ U!TypeOK /\ PathTypes /\ LoopsGiveLater /\ ReturnedHaveGiven
           /\ AskedAreGiven /\ GivenAreWanted /\ WhatIsMissing

(* Sequences. *)
LEMMA Elements ==
  ASSUME NEW S, NEW s \in Seq(S)
  PROVE  /\ Len(s) \in Nat /\ DOMAIN s = 1..Len(s)
         /\ \A m \in DOMAIN s : s[m] \in S
  OBVIOUS

LEMMA SequenceOf ==
  ASSUME NEW S, NEW T, NEW s \in Seq(S), \A m \in DOMAIN s : s[m] \in T
  PROVE  s \in Seq(T)
<1>1. Len(s) \in Nat /\ s = [m \in 1..Len(s) |-> s[m]] /\ DOMAIN s = 1..Len(s)
  OBVIOUS
<1>2. [m \in 1..Len(s) |-> s[m]] \in Seq(T)
  BY <1>1
<1>3. QED
  BY <1>1, <1>2

LEMMA OneChanged ==
  ASSUME NEW S, NEW s \in Seq(S), NEW at \in DOMAIN s, NEW x \in S
  PROVE  LET t == [s EXCEPT ![at] = x] IN
         /\ t \in Seq(S) /\ Len(t) = Len(s) /\ DOMAIN t = DOMAIN s
         /\ t[at] = x /\ \A m \in DOMAIN s : m # at => t[m] = s[m]
  OBVIOUS

LEMMA FirstOnes ==
  ASSUME NEW S, NEW s \in Seq(S), s # << >>
  PROVE  LET t == SubSeq(s, 1, Len(s) - 1) IN
         /\ Len(s) \in Nat \ {0} /\ t \in Seq(S) /\ DOMAIN t = 1..(Len(s) - 1)
         /\ \A m \in 1..(Len(s) - 1) : t[m] = s[m]
  OBVIOUS

LEMMA OtherOnes ==
  ASSUME NEW S, NEW s \in Seq(S), s # << >>
  PROVE  s[1] \in S /\ Tail(s) \in Seq(S)
  OBVIOUS

LEMMA ReachesOnward ==
  /\ \A g, u : U!Reaches(g, u, u)
  /\ \A g, u, v, w : U!Reaches(g, u, v) /\ <<v, w>> \in U!Uses(g) => U!Reaches(g, u, w)
<1>1. \A g, u : U!Reaches(g, u, u)
  BY DEF U!Reaches
<1>2. ASSUME NEW g, NEW u, NEW v, NEW w, U!Reaches(g, u, v), <<v, w>> \in U!Uses(g)
      PROVE  U!Reaches(g, u, w)
  BY <1>2 DEF U!Reaches, U!Closed
<1>3. QED
  BY <1>1, <1>2

LEMMA FollowsAreNames ==
  ASSUME U!TypeOK, NEW u \in DOMAIN ureqs
  PROVE  U!Follows(u) \in Seq(Int)
BY DEF U!TypeOK, U!Follows

LEMMA FollowsAreUses ==
  ASSUME U!TypeOK, NEW u \in DOMAIN ureqs, NEW n \in DOMAIN U!Follows(u),
         U!Follows(u)[n] \in DOMAIN ureqs
  PROVE  <<u, U!Follows(u)[n]>> \in U!Uses(U!Graph)
<1> DEFINE e == <<u, U!Follows(u)[n]>>
<1>1. DOMAIN U!Graph = DOMAIN ureqs /\ U!Graph[u].uses = U!Follows(u)
  BY DEF U!Graph
<1>2. e \in (DOMAIN U!Graph) \X (DOMAIN U!Graph) /\ e[1] = u /\ e[2] = U!Follows(u)[n]
  BY <1>1
<1>3. QED
  BY <1>1, <1>2 DEF U!Uses

LEMMA UsesAreFollows ==
  ASSUME NEW e \in U!Uses(U!Graph)
  PROVE  /\ e[1] \in DOMAIN ureqs /\ e[2] \in DOMAIN ureqs
         /\ \E n \in DOMAIN U!Follows(e[1]) : U!Follows(e[1])[n] = e[2]
BY DEF U!Uses, U!Graph

LEMMA InitPathInv == ASSUME PlansAreSequences PROVE U!Init => PathInv
<1> SUFFICES ASSUME U!Init PROVE PathInv
  OBVIOUS
<1>1. /\ given = << >> /\ pending = << >> /\ asked = 0 /\ upc = "fill" /\ ureqs = << >>
      /\ plan \in UsagePlans /\ ask \in Questions /\ ask.of \in Seq(Int)
  BY DEF U!Init, PlansAreSequences
<1>2. U!TypeOK
  BY <1>1 DEF U!TypeOK
<1>3. PathTypes
  BY <1>1 DEF PathTypes, PlansAreSequences
<1>4. QED
  BY <1>1, <1>2, <1>3 DEF PathInv, LoopsGiveLater, ReturnedHaveGiven, AskedAreGiven, GivenAreWanted,
                          WhatIsMissing

LEMMA AddKeepsPathInv == ASSUME PathInv, U!Add PROVE PathInv'
<1>1. /\ upc = "fill" /\ plan # << >> /\ UNCHANGED <<ask, asked, given, pending>>
      /\ given = << >> /\ pending = << >> /\ asked = 0 /\ upc' \in {"fill", "dup_library"}
  BY DEF U!Add, PathInv, PathTypes
<1>2. U!TypeOK'
  <2>1. plan[1] \in [name : Int, uses : Seq(Int), links : Seq(Int)]
    BY <1>1, OtherOnes DEF PathInv, PathTypes
  <2>2. \A u \in DOMAIN ureqs' : ureqs'[u].uses \in Seq(Int) /\ ureqs'[u].links \in Seq(Int)
    BY <2>1 DEF U!Add, PathInv, U!TypeOK
  <2>3. given' \in Seq(DOMAIN ureqs') /\ pending' \in Seq([at : 1..Len(given'), looked : Nat])
    BY <1>1
  <2>4. QED
    BY <1>1, <2>2, <2>3 DEF PathInv, U!TypeOK
<1>3. PathTypes'
  <2>1. plan' = plan \/ plan' = Tail(plan)
    BY DEF U!Add
  <2>2. plan' \in Seq([name : Int, uses : Seq(Int), links : Seq(Int)])
    BY <1>1, <2>1, OtherOnes DEF PathInv, PathTypes
  <2>3. QED
    BY <1>1, <2>2 DEF PathInv, PathTypes
<1>4. QED
  BY <1>1, <1>2, <1>3 DEF PathInv, LoopsGiveLater, ReturnedHaveGiven, AskedAreGiven, GivenAreWanted,
                          WhatIsMissing

(* When nothing more is given, what was given still includes the same.     *)
LEMMA SameGraph ==
  ASSUME UNCHANGED <<ureqs, ask>>
  PROVE  U!Graph' = U!Graph /\ \A u : U!Follows(u)' = U!Follows(u)
BY DEF U!Graph, U!Follows

(* A call begins. *)
LEMMA GiveKeepsPathInv ==
  ASSUME PathInv, upc = "ask", UNCHANGED <<plan, ureqs, ask>>, NEW u, NEW loops, U!Give(u, loops),
         loops \in Seq([at : 1..Len(given), looked : Nat]), Len(loops) = Len(pending),
         \A k \in DOMAIN loops :
            /\ loops[k].at = pending[k].at
            /\ loops[k].looked <= Len(U!Follows(given[loops[k].at]))
            /\ \A n \in 1..loops[k].looked :
                  n <= pending[k].looked \/ U!Follows(given[loops[k].at])[n] = u,
         asked' \in asked..Len(ask.of), \A t \in 1..asked' : t <= asked \/ ask.of[t] = u,
         \E t \in 1..asked' : U!Reaches(U!Graph, ask.of[t], u)
  PROVE  PathInv'
<1> DEFINE n1 == Len(given) + 1
<1>1. /\ u \in DOMAIN ureqs /\ given' = Append(given, u) /\ upc' = upc
      /\ pending' = Append(loops, [at |-> n1, looked |-> 0])
  BY DEF U!Give, U!Begun
<1>2. /\ given \in Seq(DOMAIN ureqs) /\ pending \in Seq([at : 1..Len(given), looked : Nat])
      /\ asked \in 0..Len(ask.of) /\ ask.of \in Seq(Int)
  BY DEF PathInv, U!TypeOK, PathTypes
<1>3. /\ given' \in Seq(DOMAIN ureqs) /\ Len(given') = n1 /\ DOMAIN given = 1..Len(given)
      /\ DOMAIN given' = 1..n1 /\ given'[n1] = u /\ n1 \in Nat \ {0}
      /\ \A i \in DOMAIN given : i \in DOMAIN given' /\ given'[i] = given[i] /\ i < n1
  BY <1>1, <1>2
<1>4. /\ U!Graph' = U!Graph /\ \A v : U!Follows(v)' = U!Follows(v)
      /\ asked' \in Nat /\ asked <= asked'
  BY <1>2, SameGraph
<1>5. /\ Len(pending') = Len(pending) + 1 /\ DOMAIN pending = 1..Len(pending)
      /\ DOMAIN pending' = 1..(Len(pending) + 1) /\ Len(pending) \in Nat
      /\ pending'[Len(pending) + 1] = [at |-> n1, looked |-> 0]
      /\ \A k \in DOMAIN pending : pending'[k] = loops[k] /\ k \in DOMAIN loops
  BY <1>1, <1>2
<1> HIDE DEF n1
<1>6. \A i \in DOMAIN given : \A v : Later(given, i, v) \/ v = u => Later(given', i, v)
  BY <1>3 DEF Later
<1>7. U!TypeOK'
  <2>1. pending' \in Seq([at : 1..n1, looked : Nat])
    <3>1. loops \in Seq([at : 1..n1, looked : Nat])
      <4>1. 1..Len(given) \subseteq 1..n1
        BY <1>2 DEF n1
      <4>2. [at : 1..Len(given), looked : Nat] \subseteq [at : 1..n1, looked : Nat]
        BY <4>1
      <4> DEFINE S == [at : 1..Len(given), looked : Nat]
                 T == [at : 1..n1, looked : Nat]
      <4>3. loops \in Seq(S) /\ S \subseteq T
        BY <4>2
      <4> HIDE DEF S, T
      <4>4. \A m \in DOMAIN loops : loops[m] \in T
        BY <4>3, Elements
      <4>5. loops \in Seq(T)
        BY <4>3, <4>4, SequenceOf
      <4>6. QED
        BY <4>5 DEF T
    <3>2. [at |-> n1, looked |-> 0] \in [at : 1..n1, looked : Nat]
      BY <1>3
    <3>3. QED
      BY <1>1, <3>1, <3>2
  <2>2. QED
    BY <1>1, <1>2, <1>3, <2>1 DEF PathInv, U!TypeOK
<1>8. PathTypes'
  BY <1>1 DEF PathInv, PathTypes
<1>9. \A i \in DOMAIN given' : i = n1 \/ i \in DOMAIN given
  BY <1>2, <1>3 DEF n1
<1>10. LoopsGiveLater'
  <2> SUFFICES ASSUME NEW k \in DOMAIN pending'
               PROVE  LET f == U!Follows(given'[pending'[k].at]) IN
                         /\ pending'[k].looked <= Len(f)
                         /\ \A n \in 1..pending'[k].looked : Later(given', pending'[k].at, f[n])
    BY <1>4 DEF LoopsGiveLater
  <2>1. CASE k = Len(pending) + 1
    <3>1. U!Follows(u) \in Seq(Int)
      BY <1>1, FollowsAreNames DEF PathInv
    <3>2. QED
      BY <1>3, <1>5, <2>1, <3>1
  <2>2. CASE k \in DOMAIN pending
    <3> DEFINE at == pending[k].at
               f == U!Follows(given[at])
    <3>1. /\ pending'[k].at = at /\ at \in DOMAIN given /\ given'[at] = given[at]
          /\ pending'[k].looked = loops[k].looked /\ pending[k].looked \in Nat /\ loops[k].looked \in Nat
          /\ loops[k].looked <= Len(f)
          /\ \A n \in 1..loops[k].looked : n <= pending[k].looked \/ f[n] = u
      <4>1. /\ pending[k] \in [at : 1..Len(given), looked : Nat]
            /\ loops[k] \in [at : 1..Len(given), looked : Nat]
            /\ pending'[k] = loops[k] /\ k \in DOMAIN loops /\ loops[k].at = at
        BY <1>2, <1>5, <2>2, Elements
      <4>2. at \in DOMAIN given /\ given'[at] = given[at]
        BY <1>3, <4>1
      <4>3. QED
        BY <4>1, <4>2
    <3>2. \A n \in 1..pending[k].looked : Later(given, at, f[n])
      BY <2>2 DEF PathInv, LoopsGiveLater
    <3> HIDE DEF at, f
    <3>3. \A n \in 1..loops[k].looked : Later(given', at, f[n])
      <4> SUFFICES ASSUME NEW n \in 1..loops[k].looked PROVE Later(given, at, f[n]) \/ f[n] = u
        BY <1>6, <3>1
      <4>1. QED
        BY <3>1, <3>2
    <3>4. QED
      BY <3>1, <3>3 DEF f
  <2>3. QED
    BY <1>5, <2>1, <2>2
<1>11. ReturnedHaveGiven'
  <2> SUFFICES ASSUME NEW i \in DOMAIN given'
               PROVE  \/ \E k \in DOMAIN pending' : pending'[k].at = i
                      \/ \A n \in DOMAIN U!Follows(given'[i]) : Later(given', i, U!Follows(given'[i])[n])
    BY <1>4 DEF ReturnedHaveGiven
  <2>1. CASE i = n1
    <3>1. Len(pending) + 1 \in DOMAIN pending' /\ pending'[Len(pending) + 1].at = n1
      BY <1>5
    <3>2. QED
      BY <2>1, <3>1
  <2>2. CASE i \in DOMAIN given
    <3>1. CASE \E k \in DOMAIN pending : pending[k].at = i
      <4>1. PICK k \in DOMAIN pending : pending[k].at = i
        BY <3>1
      <4>2. k \in DOMAIN pending' /\ pending'[k].at = i
        BY <1>5, <4>1
      <4>3. QED
        BY <4>2
    <3>2. CASE \A n \in DOMAIN U!Follows(given[i]) : Later(given, i, U!Follows(given[i])[n])
      BY <1>3, <1>6, <2>2, <3>2
    <3>3. QED
      BY <2>2, <3>1, <3>2 DEF PathInv, ReturnedHaveGiven
  <2>3. QED
    BY <1>9, <2>1, <2>2
<1>12. AskedAreGiven'
  <2> SUFFICES ASSUME NEW t \in 1..asked' PROVE \E i \in DOMAIN given' : given'[i] = ask.of[t]
    BY DEF AskedAreGiven
  <2>1. CASE ask.of[t] = u
    BY <1>3, <2>1
  <2>2. CASE t <= asked
    <3>1. PICK i \in DOMAIN given : given[i] = ask.of[t]
      BY <1>2, <1>4, <2>2, SMTT(40) DEF PathInv, AskedAreGiven
    <3>2. QED
      BY <1>3, <3>1
  <2>3. QED
    BY <2>1, <2>2
<1>13. GivenAreWanted'
  <2> SUFFICES ASSUME NEW i \in DOMAIN given'
               PROVE  \E t \in 1..asked' : U!Reaches(U!Graph, ask.of[t], given'[i])
    <3>1. U!Graph' = U!Graph /\ ask' = ask
      BY <1>4
    <3>2. QED
      BY <3>1, ZenonT(60) DEF GivenAreWanted, Wanted, U!Reaches, U!Closed, U!Uses
  <2>1. CASE i = n1
    BY <1>3, <2>1
  <2>2. CASE i \in DOMAIN given
    <3>1. PICK t \in 1..asked : U!Reaches(U!Graph, ask.of[t], given[i])
      BY <2>2 DEF PathInv, GivenAreWanted, Wanted
    <3>2. t \in 1..asked'
      BY <1>2, <1>4
    <3>3. QED
      BY <1>3, <2>2, <3>1, <3>2
  <2>3. QED
    BY <1>9, <2>1, <2>2
<1>14. WhatIsMissing'
  BY <1>1 DEF WhatIsMissing
<1>15. QED
  BY <1>7, <1>8, <1>10, <1>11, <1>12, <1>13, <1>14 DEF PathInv

(* A library is not known. *)
LEMMA NonesuchKeepsPathInv ==
  ASSUME PathInv, UNCHANGED <<plan, ureqs, ask>>, NEW u, U!Nonesuch(u), upc = "ask",
         asked' \in asked..Len(ask.of),
         \/ \E t \in DOMAIN ask.of : ask.of[t] = u
         \/ \E v \in DOMAIN ureqs : Wanted(v) /\ \E n \in DOMAIN U!Follows(v) : U!Follows(v)[n] = u
  PROVE  PathInv'
<1>1. u \notin DOMAIN ureqs /\ upc' = "nonesuch_library" /\ UNCHANGED <<given, pending>>
  BY DEF U!Nonesuch
<1>2. /\ U!Graph' = U!Graph /\ \A v : U!Follows(v)' = U!Follows(v)
      /\ asked' \in Nat /\ asked \in Nat /\ asked <= asked' /\ 1..asked \subseteq 1..asked'
  BY SameGraph DEF PathInv, U!TypeOK
<1>3. U!TypeOK' /\ PathTypes' /\ AskedAreGiven'
  BY <1>1, <1>2 DEF PathInv, U!TypeOK, PathTypes, AskedAreGiven
<1>4. LoopsGiveLater' /\ ReturnedHaveGiven'
  BY <1>1, <1>2 DEF PathInv, LoopsGiveLater, ReturnedHaveGiven, Later
<1>5. \A v : Wanted(v) => Wanted(v)'
  BY <1>2 DEF Wanted, U!Reaches, U!Closed, U!Uses
<1>6. GivenAreWanted' /\ WhatIsMissing'
  BY <1>1, <1>2, <1>5 DEF PathInv, GivenAreWanted, WhatIsMissing
<1>7. QED
  BY <1>3, <1>4, <1>6 DEF PathInv

LEMMA AskNextKeepsPathInv == ASSUME PathInv, U!AskNext PROVE PathInv'
<1> DEFINE u == ask.of[asked + 1]
<1>1. /\ upc = "ask" /\ pending = << >> /\ asked < Len(ask.of) /\ asked' = asked + 1
      /\ UNCHANGED <<plan, ureqs, ask>>
      /\ U!Give(u, pending) \/ U!Nonesuch(u)
  BY DEF U!AskNext
<1>2. asked \in 0..Len(ask.of) /\ ask.of \in Seq(Int) /\ Len(ask.of) \in Nat
  BY DEF PathInv, U!TypeOK, PathTypes
<1>3. /\ asked' \in asked..Len(ask.of) /\ \A t \in 1..asked' : t <= asked \/ ask.of[t] = u
      /\ asked + 1 \in 1..asked' /\ asked + 1 \in DOMAIN ask.of
  BY <1>1, <1>2
<1>4. \E t \in 1..asked' : U!Reaches(U!Graph, ask.of[t], u)
  BY <1>3, ReachesOnward
<1>5. CASE U!Give(u, pending)
  <2> HIDE DEF u
  <2>1. pending \in Seq([at : 1..Len(given), looked : Nat]) /\ DOMAIN pending = {}
    BY <1>1 DEF PathInv, U!TypeOK
  <2>2. QED
    BY <1>1, <1>3, <1>4, <1>5, <2>1, GiveKeepsPathInv
<1>6. CASE U!Nonesuch(u)
  BY <1>1, <1>3, <1>6, NonesuchKeepsPathInv
<1>7. QED
  BY <1>1, <1>5, <1>6

LEMMA LookNextKeepsPathInv == ASSUME PathInv, U!LookNext PROVE PathInv'
<1> DEFINE top == Len(pending)
           at == pending[top].at
           v == given[at]
           f == U!Follows(v)
           n == pending[top].looked + 1
           u == f[n]
           loops == [pending EXCEPT ![top].looked = n]
<1>1. /\ upc = "ask" /\ pending # << >> /\ n <= Len(f) /\ UNCHANGED <<plan, ureqs, ask, asked>>
      /\ U!Give(u, loops) \/ U!Nonesuch(u)
  BY DEF U!LookNext, U!Top
<1>2. /\ given \in Seq(DOMAIN ureqs) /\ pending \in Seq([at : 1..Len(given), looked : Nat])
      /\ asked \in 0..Len(ask.of)
  BY DEF PathInv, U!TypeOK
<1>3. /\ top \in Nat \ {0} /\ top \in DOMAIN pending /\ DOMAIN pending = 1..top
      /\ pending[top] \in [at : 1..Len(given), looked : Nat]
  <2>1. top \in Nat \ {0}
    BY <1>1, <1>2
  <2> DEFINE S == [at : 1..Len(given), looked : Nat]
  <2>2. pending \in Seq(S)
    BY <1>2
  <2> HIDE DEF S
  <2>3. DOMAIN pending = 1..top /\ \A k \in DOMAIN pending : pending[k] \in S
    BY <2>2, Elements
  <2>4. QED
    BY <2>1, <2>3 DEF S
<1>4. /\ at \in DOMAIN given /\ v \in DOMAIN ureqs /\ n \in Nat \ {0}
  <2> DEFINE R == DOMAIN ureqs
  <2>0. given \in Seq(R)
    BY <1>2
  <2> HIDE DEF R
  <2>1. DOMAIN given = 1..Len(given) /\ \A k \in DOMAIN given : given[k] \in R
    BY <2>0, Elements
  <2>2. at \in 1..Len(given) /\ n \in Nat \ {0}
    BY <1>3
  <2> HIDE DEF at, n
  <2>3. QED
    BY <2>1, <2>2 DEF R
<1>5. f \in Seq(Int) /\ n \in DOMAIN f
  <2>1. f \in Seq(Int)
    BY <1>4, FollowsAreNames DEF PathInv
  <2>2. QED
    BY <1>1, <1>4, <2>1
<1>6. Wanted(v)
  BY <1>4, SMTT(40) DEF PathInv, GivenAreWanted
<1>7. CASE U!Give(u, loops)
  <2>1. u \in DOMAIN ureqs
    BY <1>7 DEF U!Give
  <2>2. <<v, u>> \in U!Uses(U!Graph)
    BY <1>4, <1>5, <2>1, FollowsAreUses DEF PathInv
  <2>3. \E t \in 1..asked : U!Reaches(U!Graph, ask.of[t], u)
    BY <1>6, <2>2, ReachesOnward DEF Wanted
  <2>4. /\ loops \in Seq([at : 1..Len(given), looked : Nat]) /\ Len(loops) = top
        /\ DOMAIN loops = 1..top /\ loops[top].at = at /\ loops[top].looked = n
        /\ \A k \in 1..top : k # top => loops[k] = pending[k]
    <3> DEFINE x == [pending[top] EXCEPT !.looked = n]
    <3>1. x \in [at : 1..Len(given), looked : Nat] /\ x.at = at /\ x.looked = n
      BY <1>3, <1>4
    <3>2. loops = [pending EXCEPT ![top] = x]
      OBVIOUS
    <3> HIDE DEF x, loops
    <3>3. QED
      BY <1>2, <1>3, <3>1, <3>2, OneChanged
  <2> HIDE DEF loops
  <2>5. ASSUME NEW k \in DOMAIN loops
        PROVE  /\ loops[k].at = pending[k].at
               /\ loops[k].looked <= Len(U!Follows(given[loops[k].at]))
               /\ \A m \in 1..loops[k].looked :
                     m <= pending[k].looked \/ U!Follows(given[loops[k].at])[m] = u
    <3>1. CASE k = top
      <4>1. loops[k].at = at /\ loops[k].looked = n
        BY <2>4, <3>1
      <4>2. \A m \in 1..n : m <= pending[top].looked \/ m = n
        BY <1>3
      <4>3. QED
        BY <1>1, <3>1, <4>1, <4>2
    <3>2. CASE k # top
      <4>1. loops[k] = pending[k] /\ k \in DOMAIN pending /\ pending[k].looked \in Nat
        <5> DEFINE S == [at : 1..Len(given), looked : Nat]
        <5>1. pending \in Seq(S)
          BY <1>2, SMTT(40)
        <5> HIDE DEF S
        <5>2. k \in DOMAIN pending /\ loops[k] = pending[k]
          BY <1>3, <2>4, <3>2
        <5>3. pending[k] \in S
          BY <5>1, <5>2, Elements
        <5>4. QED
          BY <5>2, <5>3 DEF S
      <4>2. pending[k].looked <= Len(U!Follows(given[pending[k].at]))
        BY <4>1 DEF PathInv, LoopsGiveLater
      <4>3. QED
        BY <4>1, <4>2
    <3>3. QED
      BY <3>1, <3>2
  <2>6. /\ asked' \in asked..Len(ask.of) /\ \A t \in 1..asked' : t <= asked
        /\ \E t \in 1..asked' : U!Reaches(U!Graph, ask.of[t], u)
    BY <1>1, <1>2, <2>3
  <2> HIDE DEF u
  <2>7. QED
    BY <1>1, <1>7, <2>4, <2>5, <2>6, GiveKeepsPathInv
<1>8. CASE U!Nonesuch(u)
  <2>1. asked' \in asked..Len(ask.of)
    BY <1>1, <1>2
  <2>2. \E w \in DOMAIN ureqs : Wanted(w) /\ \E m \in DOMAIN U!Follows(w) : U!Follows(w)[m] = u
    BY <1>4, <1>5, <1>6
  <2> HIDE DEF u
  <2>3. QED
    BY <1>1, <1>8, <2>1, <2>2, NonesuchKeepsPathInv
<1>9. QED
  BY <1>1, <1>7, <1>8

LEMMA PathReturnKeepsPathInv == ASSUME PathInv, U!Return PROVE PathInv'
<1> DEFINE top == Len(pending)
           at == pending[top].at
<1>1. /\ upc = "ask" /\ pending # << >> /\ pending[top].looked = Len(U!Follows(given[at]))
      /\ pending' = SubSeq(pending, 1, top - 1)
      /\ UNCHANGED <<plan, ureqs, upc, ask, asked, given>>
  BY DEF U!Return, U!Top
<1>2. given \in Seq(DOMAIN ureqs) /\ pending \in Seq([at : 1..Len(given), looked : Nat])
  BY DEF PathInv, U!TypeOK
<1>3. /\ top \in Nat \ {0} /\ DOMAIN pending = 1..top /\ top \in DOMAIN pending
      /\ pending[top] \in [at : 1..Len(given), looked : Nat]
      /\ pending' \in Seq([at : 1..Len(given), looked : Nat])
      /\ DOMAIN pending' = 1..(top - 1) /\ \A k \in 1..(top - 1) : pending'[k] = pending[k]
  <2> DEFINE S == [at : 1..Len(given), looked : Nat]
  <2>1. pending \in Seq(S)
    BY <1>2
  <2> HIDE DEF S
  <2>2. /\ top \in Nat \ {0} /\ pending' \in Seq(S) /\ DOMAIN pending' = 1..(top - 1)
        /\ \A k \in 1..(top - 1) : pending'[k] = pending[k]
    BY <1>1, <2>1, FirstOnes
  <2>3. DOMAIN pending = 1..top /\ \A k \in DOMAIN pending : pending[k] \in S
    BY <2>1, Elements
  <2>4. top \in DOMAIN pending
    BY <2>2, <2>3
  <2>5. QED
    BY <2>2, <2>3, <2>4 DEF S
<1>4. U!Graph' = U!Graph /\ \A v : U!Follows(v)' = U!Follows(v)
  BY <1>1, SameGraph
<1>5. U!TypeOK' /\ PathTypes'
  BY <1>1, <1>3 DEF PathInv, U!TypeOK, PathTypes
<1>6. \A i, v : Later(given, i, v)' = Later(given, i, v)
  BY <1>1 DEF Later
<1>7. LoopsGiveLater'
  <2>1. \A k \in DOMAIN pending' : k \in DOMAIN pending /\ pending'[k] = pending[k]
    BY <1>3
  <2>2. QED
    BY <1>1, <1>4, <1>6, <2>1 DEF PathInv, LoopsGiveLater
<1>8. ReturnedHaveGiven'
  <2> SUFFICES ASSUME NEW i \in DOMAIN given, \A k \in DOMAIN pending' : pending'[k].at # i
               PROVE  \A n \in DOMAIN U!Follows(given[i]) : Later(given, i, U!Follows(given[i])[n])
    BY <1>1, <1>4, <1>6 DEF ReturnedHaveGiven
  <2>1. CASE i = at
    <3>1. U!Follows(given[i]) \in Seq(Int)
      <4>1. given[i] \in DOMAIN ureqs
        BY <1>2
      <4>2. QED
        BY <4>1, FollowsAreNames DEF PathInv
    <3>2. \A n \in 1..pending[top].looked : Later(given, at, U!Follows(given[at])[n])
      BY <1>3 DEF PathInv, LoopsGiveLater
    <3>3. DOMAIN U!Follows(given[i]) = 1..pending[top].looked
      <4>1. DOMAIN U!Follows(given[i]) = 1..Len(U!Follows(given[i]))
        BY <3>1, Elements
      <4>2. QED
        BY <1>1, <2>1, <4>1
    <3>4. QED
      BY <2>1, <3>2, <3>3
  <2>2. CASE i # at
    <3>1. \A k \in DOMAIN pending : pending[k].at # i
      <4>1. \A k \in 1..top : k = top \/ k \in 1..(top - 1)
        <5>1. top \in Nat
          BY <1>3
        <5> HIDE DEF top
        <5>2. QED
          BY <5>1
      <4>2. QED
        BY <1>3, <2>2, <4>1
    <3>2. QED
      BY <3>1 DEF PathInv, ReturnedHaveGiven
  <2>3. QED
    BY <2>1, <2>2
<1>9. AskedAreGiven' /\ WhatIsMissing'
  BY <1>1 DEF PathInv, AskedAreGiven, WhatIsMissing
<1>10. GivenAreWanted'
  BY <1>1, <1>4 DEF PathInv, GivenAreWanted, Wanted, U!Reaches, U!Closed, U!Uses
<1>11. QED
  BY <1>5, <1>7, <1>8, <1>9, <1>10 DEF PathInv

LEMMA OtherStepsKeepPathInv ==
  ASSUME PathInv, U!Filled \/ U!Answered \/ UNCHANGED pathVars
  PROVE  PathInv'
<1>1. /\ UNCHANGED <<plan, ureqs, ask, asked, given, pending>>
      /\ \/ upc = "fill" /\ upc' = "ask" /\ plan = << >>
         \/ pending = << >> /\ asked = Len(ask.of) /\ upc' = "answered" /\ upc = "ask"
         \/ upc' = upc
  BY DEF U!Filled, U!Answered, pathVars
<1>2. U!Graph' = U!Graph /\ \A v : U!Follows(v)' = U!Follows(v)
  BY <1>1, SameGraph
<1>3. U!TypeOK' /\ PathTypes' /\ AskedAreGiven'
  BY <1>1 DEF PathInv, U!TypeOK, PathTypes, AskedAreGiven
<1>4. LoopsGiveLater' /\ ReturnedHaveGiven'
  BY <1>1, <1>2 DEF PathInv, LoopsGiveLater, ReturnedHaveGiven, Later
<1>5. \A v : Wanted(v)' = Wanted(v)
  BY <1>1, <1>2 DEF Wanted, U!Reaches, U!Closed, U!Uses
<1>6. GivenAreWanted' /\ WhatIsMissing'
  BY <1>1, <1>2, <1>5 DEF PathInv, GivenAreWanted, WhatIsMissing
<1>7. QED
  BY <1>3, <1>4, <1>6 DEF PathInv

LEMMA SpecPathInv == ASSUME PlansAreSequences PROVE U!Spec => []PathInv
<1>1. PathInv /\ [U!Next]_pathVars => PathInv'
  BY AddKeepsPathInv, AskNextKeepsPathInv, LookNextKeepsPathInv, PathReturnKeepsPathInv,
     OtherStepsKeepPathInv DEF U!Next
<1>2. QED
  BY <1>1, InitPathInv, PTL DEF U!Spec, pathVars, U!pathVars

LEMMA PathInvIsWhatIsPromised == PathInv => UsedArchivesFollow
<1> SUFFICES ASSUME PathInv PROVE U!UsedArchivesFollow
  BY DEF UsedArchivesFollow
<1>1. given \in Seq(DOMAIN ureqs) /\ asked \in 0..Len(ask.of)
  BY DEF PathInv, U!TypeOK
<1>2. ASSUME upc = "answered"
      PROVE  /\ \A i \in DOMAIN given, v \in DOMAIN ureqs :
                    U!Reaches(U!Graph, given[i], v) => v = given[i] \/ Later(given, i, v)
             /\ {given[i] : i \in DOMAIN given} = {v \in DOMAIN ureqs : Wanted(v)}
             /\ \A i \in DOMAIN given : \A n \in DOMAIN U!Follows(given[i]) :
                    U!Follows(given[i])[n] \in DOMAIN ureqs
             /\ \A t \in DOMAIN ask.of : ask.of[t] \in DOMAIN ureqs
  <2>1. \A i \in DOMAIN given : \A n \in DOMAIN U!Follows(given[i]) :
            Later(given, i, U!Follows(given[i])[n])
    BY <1>2 DEF PathInv, PathTypes, ReturnedHaveGiven
  <2>2. \A i \in DOMAIN given : given[i] \in DOMAIN ureqs /\ i \in Int
    BY <1>1
  <2>3. ASSUME NEW i \in DOMAIN given, NEW v \in DOMAIN ureqs, U!Reaches(U!Graph, given[i], v)
        PROVE  v = given[i] \/ Later(given, i, v)
    <3> DEFINE S == {w \in DOMAIN ureqs : w = given[i] \/ Later(given, i, w)}
    <3>1. ASSUME NEW e \in U!Uses(U!Graph), e[1] \in S PROVE e[2] \in S
      <4>1. PICK j \in DOMAIN given : j >= i /\ given[j] = e[1]
        BY <2>2, <3>1 DEF Later
      <4>2. PICK n \in DOMAIN U!Follows(e[1]) : U!Follows(e[1])[n] = e[2]
        BY UsesAreFollows
      <4>3. Later(given, j, e[2])
        BY <2>1, <4>1, <4>2
      <4>4. Later(given, i, e[2])
        BY <2>2, <4>1, <4>3 DEF Later
      <4>5. QED
        BY <4>4, UsesAreFollows
    <3>2. U!Closed(U!Graph, S)
      BY <3>1 DEF U!Closed
    <3>3. S \in SUBSET DOMAIN U!Graph /\ given[i] \in S
      BY <2>2 DEF U!Graph
    <3>4. v \in S
      BY <2>3, <3>2, <3>3 DEF U!Reaches
    <3>5. QED
      BY <3>4
  <2>4. \A t \in DOMAIN ask.of : \E i \in DOMAIN given : given[i] = ask.of[t]
    BY <1>2, SMTT(30) DEF PathInv, PathTypes, AskedAreGiven
  <2>5. ASSUME NEW v \in DOMAIN ureqs, Wanted(v) PROVE \E i \in DOMAIN given : v = given[i]
    <3>1. PICK t \in 1..asked : U!Reaches(U!Graph, ask.of[t], v)
      BY <2>5 DEF Wanted
    <3>2. PICK i \in DOMAIN given : given[i] = ask.of[t]
      BY <1>2 DEF PathInv, AskedAreGiven
    <3>3. QED
      BY <2>3, <3>1, <3>2 DEF Later
  <2>6. \A i \in DOMAIN given : Wanted(given[i])
    BY DEF PathInv, GivenAreWanted
  <2>7. \A i \in DOMAIN given : \A n \in DOMAIN U!Follows(given[i]) :
            U!Follows(given[i])[n] \in DOMAIN ureqs
    BY <2>1, <2>2 DEF Later
  <2>8. QED
    BY <2>2, <2>3, <2>4, <2>5, <2>6, <2>7
<1>3. QED
  BY <1>2 DEF U!UsedArchivesFollow, PathInv, WhatIsMissing, Later, Wanted

(* For any number of libraries, whatever they use and link: each archive   *)
(* that the linker is given is followed by those of all that its library   *)
(* uses or links; a compilation is given the directories of all that it    *)
(* uses; nothing else is given, and if something of it is not known an     *)
(* error is reported (usage_reqs.cpp:47, 65).                              *)
THEOREM ArchivesFollowTheirUsers ==
  ASSUME PlansAreSequences PROVE U!Spec => []UsedArchivesFollow
  BY SpecPathInv, PathInvIsWhatIsPromised, PTL
-----------------------------------------------------------------------------
(* One of the releases of bpt that are run is the newest.                  *)
OneIsNewest == \E q \in Users : \A p \in Users : Known[p] <= Known[q]

LEMMA KnownAreMigrations ==
  ASSUME UsersAreKnown, OneIsNewest, NEW p \in Users
  PROVE  1..Known[p] \subseteq M!Migrations /\ Known[p] \in {0} \cup M!Migrations
<1> DEFINE Numbers == {Known[q] : q \in Users}
           most == CHOOSE n \in Numbers : \A q \in Users : Known[q] <= n
<1>1. most \in Numbers /\ \A q \in Users : Known[q] <= most
  BY DEF OneIsNewest
<1>2. most \in Nat /\ Known[p] \in Nat /\ Known[p] <= most
  BY <1>1 DEF UsersAreKnown
<1>3. M!Migrations = 1..most
  BY DEF M!Migrations
<1> HIDE DEF most
<1>4. QED
  BY <1>2, <1>3

LEMMA SpecMigrateTypes ==
  ASSUME UsersAreKnown, OneIsNewest, MaxOpens \in Nat
  PROVE  M!Spec => []M!TypeOK
<1> USE DEF M!TypeOK, M!MigrateState, M!Go
<1>1. ASSUME M!Init PROVE M!TypeOK
  <2>1. 0 \in 0..MaxOpens
    OBVIOUS
  <2>2. QED
    BY <1>1, <2>1 DEF M!Init
<1>2. ASSUME M!TypeOK, NEW p \in Users,
             \/ M!OpenDb(p) \/ M!ReadVersion(p) \/ M!BeginMigration(p)
             \/ M!MigrationFails(p) \/ M!UpdateVersion(p) \/ M!Crash(p)
      PROVE  M!TypeOK'
  <2>1. CASE M!OpenDb(p)
    BY <1>2, <2>1 DEF M!OpenDb
  <2>2. CASE M!ReadVersion(p) \/ M!BeginMigration(p)
    BY <1>2, <2>2 DEF M!ReadVersion, M!BeginMigration
  <2>3. CASE M!MigrationFails(p) \/ M!UpdateVersion(p) \/ M!Crash(p)
    BY <1>2, <2>3 DEF M!MigrationFails, M!RollBack, M!UpdateVersion, M!Crash
  <2>4. QED
    BY <1>2, <2>1, <2>2, <2>3
<1>3. ASSUME M!TypeOK, NEW p \in Users, M!ApplyNext(p) \/ M!Commit(p)
      PROVE  M!TypeOK'
  <2>1. Known[p] \in {0} \cup M!Migrations
    BY KnownAreMigrations
  <2>2. CASE M!ApplyNext(p)
    BY <1>3, <2>2 DEF M!ApplyNext, M!Applicable
  <2>3. CASE M!Commit(p)
    BY <1>3, <2>1, <2>3 DEF M!Commit
  <2>4. QED
    BY <1>3, <2>2, <2>3
<1>4. ASSUME M!TypeOK, UNCHANGED M!migrateVars PROVE M!TypeOK'
  BY <1>4 DEF M!migrateVars
<1>5. M!TypeOK /\ [M!Next]_(M!migrateVars) => M!TypeOK'
  BY <1>2, <1>3, <1>4 DEF M!Next
<1>6. QED
  BY <1>1, <1>5, PTL DEF M!Spec

(* The components side by side, as bpt and its other processes run them    *)
(* (util/proc.nix.cpp, util/db/migrate.cpp, db/database.cpp, crs/cache.cpp *)
(* and cli/cmd/install_yourself.cpp): each state variable has its type.    *)
THEOREM ComponentsAreTyped ==
  ASSUME UsersAreKnown, OneIsNewest, MaxOpens \in Nat, NoDbFile \notin Files,
         Absent \notin Remotes, ShellFilesAreListed, UsageMapsAreMaps, PlansAreSequences
  PROVE  Spec /\ M!Spec /\ B!Spec /\ P!Spec /\ I!Spec /\ C!Spec /\ U!Spec => []TypesOK
<1>1. PInv => P!TypeOK
  BY DEF PInv
<1>2. InstallInv => I!TypeOK
  <2> SUFFICES ASSUME InstallInv PROVE I!TypeOK
    OBVIOUS
  <2>1. \A f \in I!Names : files[f] \in AFile
    BY DEF InstallInv, InstallTypes
  <2>2. \A f \in I!Names : \A v \in {"now", "tmp", "bak"} :
            files[f][v] = Gone \/ files[f][v] \in I!Content
    BY <2>1 DEF AFile
  <2>3. QED
    BY <2>2 DEF InstallInv, InstallTypes, I!TypeOK, AtFile
<1>3. (BInv => B!TypeOK) /\ (SearchInv => C!TypeOK) /\ (PathInv => U!TypeOK)
  BY DEF BInv, SearchInv, PathInv
<1>4. TypeOK /\ M!TypeOK /\ B!TypeOK /\ P!TypeOK /\ I!TypeOK /\ C!TypeOK /\ U!TypeOK
        => TypesOK
  BY DEF TypesOK
<1>5. QED
  BY <1>1, <1>2, <1>3, <1>4, TypeCorrect, SpecMigrateTypes, SpecBInv, SpecPInv,
     SpecInstallInv, SpecSearchInv, SpecPathInv, PTL
=============================================================================
