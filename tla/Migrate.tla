------------------------------- MODULE Migrate -------------------------------
(***************************************************************************)
(* bpt::apply_db_migrations (util/db/migrate.cpp) by the processes that    *)
(* open one database, the package cache or a repository: make the meta     *)
(* table, read its version, and in one transaction apply the migrations    *)
(* that are missing and write the new version. Processes may be of         *)
(* different releases, which know different numbers of migrations.         *)
(*                                                                         *)
(* A migration creates tables: applied a second time it fails. Left out:   *)
(* the busy timeout of a minute running out.                               *)
(***************************************************************************)
EXTENDS Naturals, FiniteSets

CONSTANTS Users,    \* the processes; each opens the database MaxOpens times
          Known,    \* how many migrations each of them knows
          MaxOpens,
          NoUser    \* nobody has the write lock

VARIABLES
    mpc,        \* where each process is
    opens,      \* how often it has begun to open the database
    seen,       \* the version it has read, then the last migration it has applied
    version,    \* the committed version; 0 also stands for no meta table
    applied,    \* the committed migrations
    lock,       \* who is in a write transaction
    working,    \* the migrations as that transaction sees them
    setBack     \* a process has written a lower version (history)

migrateVars == <<mpc, opens, seen, version, applied, lock, working, setBack>>

Migrations == 1..CHOOSE n \in {Known[p] : p \in Users} : \A p \in Users : Known[p] <= n

MigrateState == {"closed", "meta", "read", "migrating", "updated", "open", "too_new", "failed"}

Init == /\ mpc = [p \in Users |-> "closed"]
        /\ opens = [p \in Users |-> 0]
        /\ seen = [p \in Users |-> 0]
        /\ version = 0
        /\ applied = {}
        /\ lock = NoUser
        /\ working = {}
        /\ setBack = FALSE

Go(p, a, b) == mpc[p] = a /\ mpc' = [mpc EXCEPT ![p] = b]
-----------------------------------------------------------------------------
(* Open the database, CREATE TABLE IF NOT EXISTS with version 0. The       *)
(* result of an earlier opening is given up.                               *)
OpenDb(p) == /\ mpc[p] \in {"closed", "open", "too_new", "failed"}
             /\ opens[p] < MaxOpens
             /\ lock = NoUser
             /\ opens' = [opens EXCEPT ![p] = @ + 1]
             /\ mpc' = [mpc EXCEPT ![p] = "meta"]
             /\ UNCHANGED <<seen, version, applied, lock, working, setBack>>

(* The version is read on its own, before the transaction. *)
ReadVersion(p) == /\ mpc[p] = "meta"
                  /\ seen' = [seen EXCEPT ![p] = version]
                  /\ mpc' = [mpc EXCEPT ![p] = IF version > Known[p] THEN "too_new"
                                               ELSE "read"]
                  /\ UNCHANGED <<opens, version, applied, lock, working, setBack>>

(* The first statement that writes waits for the lock. *)
BeginMigration(p) == /\ Go(p, "read", "migrating")
                     /\ lock = NoUser
                     /\ lock' = p
                     /\ working' = applied
                     /\ UNCHANGED <<opens, seen, version, applied, setBack>>

(* What this process has still to apply: seen + 1 first. *)
Missing(p) == (seen[p] + 1)..Known[p]

Applicable(p, i) == i \notin working /\ i \in Migrations

ApplyNext(p) == /\ mpc[p] = "migrating"
                /\ Missing(p) # {}
                /\ Applicable(p, seen[p] + 1)
                /\ working' = working \cup {seen[p] + 1}
                /\ seen' = [seen EXCEPT ![p] = @ + 1]
                /\ UNCHANGED <<mpc, opens, version, applied, lock, setBack>>

(* Mutant: the guard commits what there is. *)
CommitHalf(p) == /\ lock' = NoUser
                 /\ working' = {}
                 /\ applied' = working
                 /\ UNCHANGED version

(* A migration that fails, or the update: tr.rollback(). *)
RollBack(p) == /\ lock' = NoUser
               /\ working' = {}
               /\ UNCHANGED <<version, applied>>

MigrationFails(p) == /\ Go(p, "migrating", "failed")
                     /\ RollBack(p)
                     /\ UNCHANGED <<opens, seen, setBack>>

UpdateVersion(p) == /\ Missing(p) = {}
                    /\ Go(p, "migrating", "updated")
                    /\ UNCHANGED <<opens, seen, version, applied, lock, working, setBack>>

(* The transaction guard commits: also when nothing had to be migrated. *)
Commit(p) == /\ Go(p, "updated", "open")
             /\ version' = Known[p]
             /\ setBack' = (setBack \/ Known[p] < version)
             /\ applied' = working
             /\ lock' = NoUser
             /\ working' = {}
             /\ UNCHANGED <<opens, seen>>

(* The process dies; its transaction is rolled back by the next one. *)
Crash(p) == /\ mpc[p] \in {"meta", "read", "migrating", "updated"}
            /\ mpc' = [mpc EXCEPT ![p] = "closed"]
            /\ IF lock = p THEN lock' = NoUser /\ working' = {}
               ELSE UNCHANGED <<lock, working>>
            /\ UNCHANGED <<opens, seen, version, applied, setBack>>

Next == \E p \in Users : \/ OpenDb(p) \/ ReadVersion(p) \/ BeginMigration(p)
                         \/ ApplyNext(p) \/ MigrationFails(p) \/ UpdateVersion(p)
                         \/ Commit(p) \/ Crash(p)

Spec == Init /\ [][Next]_migrateVars
-----------------------------------------------------------------------------
TypeOK == /\ mpc \in [Users -> MigrateState]
          /\ opens \in [Users -> 0..MaxOpens]
          /\ seen \in [Users -> {0} \cup Migrations]
          /\ version \in {0} \cup Migrations
          /\ applied \subseteq Migrations
          /\ lock \in Users \cup {NoUser}
          /\ working \subseteq Migrations
          /\ setBack \in BOOLEAN

(* The version of a database is the number of migrations applied to it,    *)
(* whoever failed or died on the way: unless an older bpt that had nothing *)
(* to migrate wrote its own number over that of a newer one that had       *)
(* migrated after it looked. Processes of one release never do that.       *)
VersionIsWhatWasApplied ==
    \/ applied = 1..version
    \/ setBack /\ \E p, q \in Users : Known[p] < Known[q]
=============================================================================
