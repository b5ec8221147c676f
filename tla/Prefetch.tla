------------------------------- MODULE Prefetch -------------------------------
(***************************************************************************)
(* The package cache: crs::cache::prefetch (crs/cache.cpp) fetches the     *)
(* source distribution of a package and expands it into a directory that   *)
(* is named for the package id, and the build reads that directory         *)
(* (fetch_cache_load_dependency). A directory that exists is taken for a   *)
(* complete one, whoever is expanding it or died while doing so.           *)
(*                                                                         *)
(* All ids here are revisions of one version of one package: other ids     *)
(* share nothing. The listings of the remotes are fixed (CacheSync is      *)
(* about how they change), but a remote may fail to deliver.               *)
(***************************************************************************)
EXTENDS Naturals, Sequences, FiniteSets

CONSTANTS Fetchers,    \* the processes; each prefetches one package
          Remotes,
          FileRemotes, \* those with a file:// URL
          Revisions,   \* positive; 0 asks for whichever there is
          Members,     \* the files of a distribution besides pkg.json
          PkgJson,     \* the file that a build needs first
          Absent       \* no file, no directory, no remote

VARIABLES
    fpc,        \* where each process is
    enabled,    \* the remotes of each process, in the order of their enabling
    wanted,     \* the revision that it was asked for, then the one it fetches
    from,       \* the remote it fetches from
    todo,       \* the files it has yet to expand
    dir,        \* for each id: Absent, or what is in the files of its directory
    loaded,     \* what the process found in the directory
    listing,    \* the revisions that each remote lists
    disturbed   \* ids whose expansion was cut off or looked at (history)

fetchVars == <<fpc, enabled, wanted, from, todo, dir, loaded, listing, disturbed>>

PackageFiles == Members \cup {PkgJson}

FetchState == {"start", "look", "download", "open", "expand", "load", "loaded",
               "no_such_pkg", "failed", "unreadable"}

Init == /\ fpc = [p \in Fetchers |-> "start"]
        /\ listing \in [Remotes -> SUBSET Revisions]
        /\ enabled \in [Fetchers -> {<<a, b>> : a, b \in Remotes} \cup {<<a>> : a \in Remotes}]
        /\ \A p \in Fetchers : Len(enabled[p]) = 2 => enabled[p][1] # enabled[p][2]
        /\ wanted \in [Fetchers -> Revisions \cup {0}]
        /\ from = [p \in Fetchers |-> Absent]
        /\ todo = [p \in Fetchers |-> {}]
        /\ dir = [r \in Revisions |-> [exists |-> FALSE, files |-> [f \in PackageFiles |-> Absent]]]
        /\ loaded = [p \in Fetchers |-> [f \in PackageFiles |-> Absent]]
        /\ disturbed = {}

Go(p, a, b) == fpc[p] = a /\ fpc' = [fpc EXCEPT ![p] = b]
-----------------------------------------------------------------------------
(* for_package: the entries of the version, remotes in the order of their  *)
(* enabling. Within one remote the order is that of the rows.              *)
Offering(p) == {i \in DOMAIN enabled[p] : listing[enabled[p][i]] # {}}

FirstOffering(p) == enabled[p][CHOOSE i \in Offering(p) : \A j \in Offering(p) : i <= j]

NoSuchPkg(p) == /\ Go(p, "start", "no_such_pkg")
                /\ Offering(p) = {}
                /\ UNCHANGED <<enabled, wanted, from, todo, dir, loaded, listing, disturbed>>

(* The remote of the first entry, whatever revision was asked for; its     *)
(* revision if none was.                                                   *)
Choose(p) == /\ Go(p, "start", "look")
             /\ Offering(p) # {}
             /\ from' = [from EXCEPT ![p] = FirstOffering(p)]
             /\ \E r \in listing[FirstOffering(p)] :
                   wanted' = [wanted EXCEPT ![p] = IF @ = 0 THEN r ELSE @]
             /\ UNCHANGED <<enabled, todo, dir, loaded, listing, disturbed>>

Expanding(r) == {p \in Fetchers : fpc[p] = "expand" /\ wanted[p] = r}

(* fs::exists(pkg_dir) *)
UseExisting(p) == /\ Go(p, "look", "load")
                  /\ dir[wanted[p]].exists
                  /\ disturbed' = IF Expanding(wanted[p]) # {}
                                  THEN disturbed \cup {wanted[p]} ELSE disturbed
                  /\ UNCHANGED <<enabled, wanted, from, todo, dir, loaded, listing>>

MakeDirectory(r) == dir' = [dir EXCEPT ![r].exists = TRUE]

(* Mutant: the directory is made before there is anything to put into it. *)
FetchIntoDirectory(p) ==
    /\ Go(p, "look", IF from[p] \in FileRemotes THEN "open" ELSE "download")
    /\ ~dir[wanted[p]].exists
    /\ MakeDirectory(wanted[p])
    /\ UNCHANGED <<enabled, wanted, from, todo, loaded, listing, disturbed>>

Fetch(p) == /\ Go(p, "look", IF from[p] \in FileRemotes THEN "open" ELSE "download")
            /\ ~dir[wanted[p]].exists
            /\ UNCHANGED <<enabled, wanted, from, todo, dir, loaded, listing, disturbed>>

(* The archive of an http remote goes into a temporary directory first. *)
Download(p) == /\ Go(p, "download", "open")
               /\ wanted[p] \in listing[from[p]]
               /\ UNCHANGED <<enabled, wanted, from, todo, dir, loaded, listing, disturbed>>

(* The remote has no such archive, or breaks off. *)
FetchFails(p) == /\ fpc[p] \in {"download", "open"}
                 /\ fpc' = [fpc EXCEPT ![p] = "failed"]
                 /\ UNCHANGED <<enabled, wanted, from, todo, dir, loaded, listing, disturbed>>

(* expand_tgz opens the archive, and only then makes the directory. *)
OpenArchive(p) == /\ Go(p, "open", "expand")
                  /\ wanted[p] \in listing[from[p]]
                  /\ MakeDirectory(wanted[p])
                  /\ todo' = [todo EXCEPT ![p] = PackageFiles]
                  /\ disturbed' = IF Expanding(wanted[p]) # {} \/ dir[wanted[p]].exists
                                  THEN disturbed \cup {wanted[p]} ELSE disturbed
                  /\ UNCHANGED <<enabled, wanted, from, loaded, listing>>

ExpandFile(p, f) == /\ fpc[p] = "expand" /\ f \in todo[p]
                    /\ todo' = [todo EXCEPT ![p] = @ \ {f}]
                    /\ dir' = [dir EXCEPT ![wanted[p]].files[f] = from[p]]
                    /\ UNCHANGED <<fpc, enabled, wanted, from, loaded, listing, disturbed>>

Expanded(p) == /\ Go(p, "expand", "load")
               /\ todo[p] = {}
               /\ UNCHANGED <<enabled, wanted, from, todo, dir, loaded, listing, disturbed>>

(* Nobody cleans up what a failed expansion, or a dead process, has left. *)
Break(p) == /\ fpc[p] \in {"look", "download", "open", "expand"}
            /\ fpc' = [fpc EXCEPT ![p] = "failed"]
            /\ disturbed' = IF fpc[p] = "expand" THEN disturbed \cup {wanted[p]} ELSE disturbed
            /\ UNCHANGED <<enabled, wanted, from, todo, dir, loaded, listing>>

(* fetch_cache_load_dependency reads pkg.json, the builder the sources. *)
Load(p) == /\ Go(p, "load", "loaded")
           /\ dir[wanted[p]].files[PkgJson] # Absent
           /\ loaded' = [loaded EXCEPT ![p] = dir[wanted[p]].files]
           /\ UNCHANGED <<enabled, wanted, from, todo, dir, listing, disturbed>>

LoadFails(p) == /\ Go(p, "load", "unreadable")
                /\ dir[wanted[p]].files[PkgJson] = Absent
                /\ UNCHANGED <<enabled, wanted, from, todo, dir, loaded, listing, disturbed>>

Next == \E p \in Fetchers :
           \/ NoSuchPkg(p) \/ Choose(p) \/ UseExisting(p) \/ Fetch(p)
           \/ Download(p) \/ FetchFails(p) \/ OpenArchive(p) \/ Expanded(p)
           \/ \E f \in PackageFiles : ExpandFile(p, f)
           \/ Break(p) \/ Load(p) \/ LoadFails(p)

Spec == Init /\ [][Next]_fetchVars
-----------------------------------------------------------------------------
TypeOK == /\ fpc \in [Fetchers -> FetchState]
          /\ wanted \in [Fetchers -> Revisions \cup {0}]
          /\ from \in [Fetchers -> Remotes \cup {Absent}]
          /\ todo \in [Fetchers -> SUBSET PackageFiles]
          /\ dir \in [Revisions -> [exists : BOOLEAN,
                                    files : [PackageFiles -> Remotes \cup {Absent}]]]
          /\ loaded \in [Fetchers -> [PackageFiles -> Remotes \cup {Absent}]]
          /\ disturbed \subseteq Revisions

(* "Ensure that the given package has a locally cached copy of its source  *)
(* distribution": what a build loads is complete and the distribution of   *)
(* one remote that lists the revision, unless an expansion of that id was  *)
(* cut off, ran twice at a time, or was looked at while it was under way.  *)
LoadsOneDistribution ==
    \A p \in Fetchers : wanted[p] \notin disturbed =>
        /\ fpc[p] # "unreadable"
        /\ fpc[p] = "loaded" => \E r \in Remotes :
              wanted[p] \in listing[r] /\ loaded[p] = [f \in PackageFiles |-> r]
=============================================================================
