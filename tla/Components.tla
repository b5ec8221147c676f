------------------------------ MODULE Components ------------------------------
(* Components that share no state, side by side: the subprocesses of one   *)
(* bpt (RunProc, under its own names), and what several processes of bpt   *)
(* meet in: databases that are migrated (M) or opened by builds (B), the   *)
(* package cache (P) and the installation (I); and the search for cycles   *)
(* among the libraries of a build (C), and for the paths that they give to *)
(* a compilation or a link (U).                                            *)
EXTENDS RunProc, Sequences

CONSTANTS Users, Known, MaxOpens, NoUser,
          Builds, Files, NoDbFile,
          Fetchers, Remotes, FileRemotes, Revisions, Members, PkgJson, Absent,
          ShellFiles, Required, Lines, PathEntry, Gone, MaxRuns, MaxSaves,
          UsageMaps, UsagePlans, Questions

VARIABLES mpc, opens, seen, version, applied, lock, working, setBack,
          bpc, again, path, conn, schema, rows, held, reading, session, kept, collided,
          fpc, enabled, wanted, from, todo, dir, loaded, listing, disturbed,
          ipc, opts, dest, self, shell, buffer, files, saved, exposed, runs, saves,
          reqs, spc, roots, mark, tried, calls, cycle,
          plan, ureqs, upc, ask, asked, given, pending

M == INSTANCE Migrate
B == INSTANCE BuildDbOpen WITH NoFile <- NoDbFile
P == INSTANCE Prefetch
I == INSTANCE Install
C == INSTANCE CycleSearch
U == INSTANCE UsagePaths

migrateVars == <<mpc, opens, seen, version, applied, lock, working, setBack>>
dbVars == <<bpc, again, path, conn, schema, rows, held, reading, session, kept, collided>>
fetchVars == <<fpc, enabled, wanted, from, todo, dir, loaded, listing, disturbed>>
installVars == <<ipc, opts, dest, self, shell, buffer, files, saved, exposed, runs, saves>>
searchVars == <<reqs, spc, roots, mark, tried, calls, cycle>>
pathVars == <<plan, ureqs, upc, ask, asked, given, pending>>
-----------------------------------------------------------------------------
(* The type invariants of all of them. *)
TypesOK == TypeOK /\ M!TypeOK /\ B!TypeOK /\ P!TypeOK /\ I!TypeOK /\ C!TypeOK
           /\ U!TypeOK

(* See Migrate: a database's version is what was applied to it. *)
VersionIsWhatWasApplied == M!VersionIsWhatWasApplied

(* See BuildDbOpen: the next build finds what was recorded, unless builds   *)
(* that overlap have collided.                                             *)
RecordsAreKept == B!RecordsAreKept

(* See Prefetch: what is loaded is one whole distribution. *)
LoadsOneDistribution == P!LoadsOneDistribution

(* See Install: what the user has written is lost only if the file was      *)
(* written anew while it was missing.                                      *)
UserFilesSurvive == I!UserFilesSurvive

(* See CycleSearch: a cycle is reported if there is one, and is one. *)
CyclesAreFound == C!CyclesAreFound

(* See UsagePaths: what is linked with, and in which order.                *)
UsedArchivesFollow == U!UsedArchivesFollow
==============================================================================
