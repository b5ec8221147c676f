------------------------------ MODULE Repository ------------------------------
(***************************************************************************)
(* A CRS repository directory (crs/repo.cpp) under the commands `bpt repo  *)
(* import', `repo remove' and `repo init --if-exists=replace', run by any  *)
(* number of processes that may die at any moment:                         *)
(*                                                                         *)
(*   repo.db                   the table of packages         (rows)        *)
(*   repo.db.gz                what clients download of it   (gz)          *)
(*   pkg/<name>/<ver>~<rev>/   pkg.tgz and pkg.json          (tgz, json)   *)
(*                                                                         *)
(* SQLite serialises the writing transactions; a transaction of a process  *)
(* that dies is rolled back. The files obey no transaction. The name of    *)
(* the package is left out: packages of different names share nothing.     *)
(***************************************************************************)
EXTENDS Integers

CONSTANTS Procs,        \* running bpt commands
          Versions,
          MaxRevision,
          Contents,     \* what a package directory can hold
          MaxCommands,  \* bound: commands run
          Unknown,      \* a repo.db.gz that may be torn, partial or stale
          None

VARIABLES
    rows,      \* crs_repo_packages: the contents under each id, or None
    txn,       \* the process that is in a write transaction, or None
    tgz, json, \* pkg.tgz and pkg.json in each package's directory
    gz,        \* the rows in repo.db.gz, or Unknown
    pc, job,   \* where each command is, and what it was asked to do
    commands,  \* how many commands were started
    prep,      \* the commands whose temporary directory is in place
    torn,      \* the commands whose files were written by another while
               \* they compress
    committed, \* history: the rows when the command committed, less what
               \* was removed since
    raced      \* history: ids that were imported while they were removed

filesVars == <<tgz, json>>
vars == <<rows, txn, tgz, json, gz, pc, job, commands, prep, torn, committed, raced>>

Ids == Versions \X (1..MaxRevision)

(* Directories: revision zero is not importable, but has a path. *)
Dirs == Versions \X (0..MaxRevision)

Stored(S) == [S -> Contents \cup {None}]
Empty(S) == [s \in S |-> None]

(* An import keeps a package that exists (--if-exists=ignore, fail) or     *)
(* replaces it; "retry" is the import after the removal.                   *)
Commands == {"keep", "replace", "retry", "remove", "init"}

Requests == [id : Dirs \cup {None}, from : Contents \cup {None}, do : Commands]

ASSUME RepositoryAssumption ==
    /\ MaxRevision \in Nat \ {0}
    /\ MaxCommands \in Nat
    /\ None \notin Contents \cup Procs \cup Dirs \cup Requests
    /\ Unknown \notin [Versions \X (1..MaxRevision) -> Contents \cup {None}]

Steps == {"idle", "start", "inserted", "moved", "copied", "committed", "vacuumed", "writing",
          "delete", "unlink", "wipe"}

Init == /\ rows = Empty(Ids)
        /\ txn = None
        /\ tgz = Empty(Dirs)
        /\ json = Empty(Dirs)
        /\ gz = Empty(Ids)
        /\ pc = [p \in Procs |-> "idle"]
        /\ job = [p \in Procs |-> None]
        /\ commands = 0
        /\ prep = {}
        /\ torn = {}
        /\ committed = [p \in Procs |-> Empty(Ids)]
        /\ raced = {}

Id(p) == job[p].id

Go(p, a, b) == pc[p] = a /\ pc' = [pc EXCEPT ![p] = b]

(* The command is over: well, by an exception, or by a crash. Temporary    *)
(* files it may leave are in nobody's way.                                 *)
Stop(p) == /\ pc' = [pc EXCEPT ![p] = "idle"]
           /\ job' = [job EXCEPT ![p] = None]
           /\ prep' = prep \ {p}
           /\ torn' = torn \ {p}
           /\ committed' = [committed EXCEPT ![p] = Empty(Ids)]
-----------------------------------------------------------------------------
(* import_dir prepares its files in a temporary directory within the       *)
(* package's directory.                                                    *)
Start(p, step, id, c, do) ==
    /\ commands < MaxCommands
    /\ commands' = commands + 1
    /\ Go(p, "idle", step)
    /\ job' = [job EXCEPT ![p] = [id |-> id, from |-> c, do |-> do]]

StartImport(p, id, c, ifExists) ==
    /\ Start(p, "start", id, c, ifExists)
    /\ prep' = prep \cup {p}
    /\ UNCHANGED <<rows, txn, filesVars, gz, torn, committed, raced>>

(* `repo remove' asks for revision zero, "to remove all package revisions".*)
StartRemove(p, v) ==
    /\ Start(p, "delete", <<v, 0>>, None, "remove")
    /\ UNCHANGED <<rows, txn, filesVars, gz, prep, torn, committed, raced>>

StartInit(p) ==
    /\ Start(p, "wipe", None, None, "init")
    /\ UNCHANGED <<rows, txn, filesVars, gz, prep, torn, committed, raced>>

(* A revision below one is refused, after the preparations. *)
RefuseRevision(p) == /\ pc[p] = "start"
                     /\ Id(p) \notin Ids
                     /\ Stop(p)
                     /\ UNCHANGED <<rows, txn, filesVars, gz, commands, raced>>

(* The transaction begins with the INSERT, which waits for other writers   *)
(* and is unique on the id.                                                *)
Removing(id) == \E q \in Procs : pc[q] = "unlink" /\ Id(q) = id

Insert(p) == /\ Go(p, "start", "inserted")
             /\ Id(p) \in Ids
             /\ txn = None
             /\ rows[Id(p)] = None
             /\ txn' = p
             /\ raced' = IF Removing(Id(p)) THEN raced \cup {Id(p)} ELSE raced
             /\ UNCHANGED <<rows, filesVars, gz, job, commands, prep, torn, committed>>

(* The id is taken: --if-exists decides. Nobody handles this a second time.*)
AlreadyPresent(p) ==
    /\ pc[p] = "start"
    /\ Id(p) \in Ids
    /\ txn = None
    /\ rows[Id(p)] # None
    /\ \/ job[p].do # "replace" /\ Stop(p)
       \/ /\ job[p].do = "replace"
          /\ Go(p, "start", "delete")
          /\ prep' = prep \ {p}
          /\ UNCHANGED <<job, torn, committed>>
    /\ UNCHANGED <<rows, txn, filesVars, gz, commands, raced>>

(* Mutation: the exception leaves the transaction open. *)
RollBackForgotten(p) == Stop(p) /\ UNCHANGED txn

RollBack(p) == txn' = None /\ Stop(p)

(* move_file renames over whatever is there; without the directory, which  *)
(* another command may have removed, it fails.                             *)
DirExists(id) == Removing(id) \/ \E q \in prep : Id(q) = id

MoveTgz(p) == /\ \/ /\ Go(p, "inserted", "moved")
                    /\ DirExists(Id(p))
                    /\ tgz' = [tgz EXCEPT ![Id(p)] = job[p].from]
                    /\ UNCHANGED <<txn, job, prep, torn, committed>>
                 \/ /\ pc[p] = "inserted"
                    /\ ~DirExists(Id(p))
                    /\ RollBack(p)
                    /\ UNCHANGED tgz
              /\ UNCHANGED <<rows, json, gz, commands, raced>>

(* Mutation: a pkg.json that is there already is left alone. *)
CopyJsonIfMissing(p) ==
    /\ \/ /\ Go(p, "moved", "copied")
          /\ p \in prep
          /\ json' = [json EXCEPT ![Id(p)] = IF @ = None THEN job[p].from ELSE @]
          /\ UNCHANGED <<txn, job, prep, torn, committed>>
       \/ /\ pc[p] = "moved"
          /\ p \notin prep
          /\ RollBack(p)
          /\ UNCHANGED json
    /\ UNCHANGED <<rows, tgz, gz, commands, raced>>

(* copy_file does not overwrite. *)
CopyJson(p) == /\ \/ /\ Go(p, "moved", "copied")
                     /\ p \in prep
                     /\ json[Id(p)] = None
                     /\ json' = [json EXCEPT ![Id(p)] = job[p].from]
                     /\ UNCHANGED <<txn, job, prep, torn, committed>>
                  \/ /\ pc[p] = "moved"
                     /\ p \notin prep \/ json[Id(p)] # None
                     /\ RollBack(p)
                     /\ UNCHANGED json
               /\ UNCHANGED <<rows, tgz, gz, commands, raced>>

(* compress_file_gz reads the database without asking SQLite for a lock:   *)
(* whoever writes to the file in the meantime tears what it reads.         *)
Compressing == {q \in Procs : pc[q] = "writing"}

Commit(p) == /\ Go(p, "copied", "committed")
             /\ rows' = [rows EXCEPT ![Id(p)] = job[p].from]
             /\ txn' = None
             /\ committed' = [committed EXCEPT ![p] = rows']
             /\ torn' = torn \cup Compressing
             /\ UNCHANGED <<filesVars, gz, job, commands, prep, raced>>
-----------------------------------------------------------------------------
(* _vacuum_and_compress. VACUUM waits for other writers and rewrites the   *)
(* database file, *)
Vacuum(p) == /\ txn = None
             /\ Go(p, "committed", "vacuumed")
             /\ torn' = torn \cup Compressing
             /\ UNCHANGED <<rows, txn, filesVars, gz, job, commands, prep, committed, raced>>

(* compress_file_gz truncates the list that clients download, which may be *)
(* the one that another command is writing, *)
OpenGz(p) == /\ Go(p, "vacuumed", "writing")
             /\ gz' = Unknown
             /\ torn' = IF Compressing = {} THEN torn ELSE torn \cup Compressing \cup {p}
             /\ UNCHANGED <<rows, txn, filesVars, job, commands, prep, committed, raced>>

(* Mutation: only the package that was imported is published. *)
PublishedOfImport(p) == [id \in Ids |-> IF id = Id(p) THEN rows[id] ELSE None]

(* What it reads. *)
Published(p) == rows

(* and writes it in place. The command is done. *)
WriteGz(p) == /\ pc[p] = "writing"
              /\ gz' = IF p \in torn THEN Unknown ELSE Published(p)
              /\ Stop(p)
              /\ UNCHANGED <<rows, txn, filesVars, commands, raced>>
-----------------------------------------------------------------------------
(* remove_pkg deletes one revision, or with revision zero all of them, *)
Deleted(p) == IF Id(p) \in Ids THEN {Id(p)} ELSE {id \in Ids : id[1] = Id(p)[1]}

Without(table, S) == [id \in Ids |-> IF id \in S THEN None ELSE table[id]]

Delete(p) == /\ txn = None
             /\ Go(p, "delete", "unlink")
             /\ rows' = Without(rows, Deleted(p))
             /\ committed' = [q \in Procs |-> Without(committed[q], Deleted(p))]
             /\ torn' = torn \cup Compressing
             /\ UNCHANGED <<txn, filesVars, gz, job, commands, prep, raced>>

(* and then removes what is in the directory of the id it was asked for:   *)
(* the two files and the temporary directories of imports under way.       *)
Unlink(p) == /\ pc[p] = "unlink"
             /\ \/ /\ tgz[Id(p)] # None
                   /\ tgz' = [tgz EXCEPT ![Id(p)] = None]
                   /\ UNCHANGED <<json, prep>>
                \/ /\ json[Id(p)] # None
                   /\ json' = [json EXCEPT ![Id(p)] = None]
                   /\ UNCHANGED <<tgz, prep>>
                \/ \E q \in prep : /\ Id(q) = Id(p)
                                   /\ prep' = prep \ {q}
                                   /\ UNCHANGED filesVars
             /\ UNCHANGED <<rows, txn, gz, pc, job, commands, torn, committed, raced>>

(* The directory is gone. `repo remove' is done; a replacement imports.    *)
Unlinked(p) ==
    /\ pc[p] = "unlink"
    /\ tgz[Id(p)] = None /\ json[Id(p)] = None
    /\ \A q \in prep : Id(q) # Id(p)
    /\ \/ job[p].do = "remove" /\ Stop(p)
       \/ /\ job[p].do = "replace"
          /\ Go(p, "unlink", "start")
          /\ job' = [job EXCEPT ![p].do = "retry"]
          /\ prep' = prep \cup {p}
          /\ UNCHANGED <<torn, committed>>
    /\ UNCHANGED <<rows, txn, filesVars, gz, commands, raced>>

(* `repo init --if-exists=replace' removes repo.db, makes a new one and    *)
(* publishes it. The files of the packages stay. (A command that has the   *)
(* old database open would go on with it: here there is none.)             *)
Wipe(p) == /\ Go(p, "wipe", "committed")
           /\ \A q \in Procs \ {p} : pc[q] = "idle"
           /\ rows' = Empty(Ids)
           /\ UNCHANGED <<txn, filesVars, gz, job, commands, prep, torn, committed, raced>>

(* The process dies, or fails for a reason outside (no space, no access).  *)
Crash(p) == /\ pc[p] # "idle"
            /\ txn' = IF txn = p THEN None ELSE txn
            /\ Stop(p)
            /\ UNCHANGED <<rows, filesVars, gz, commands, raced>>

Next == \E p \in Procs :
            \/ \E id \in Dirs, c \in Contents, ifExists \in {"keep", "replace"} :
                   StartImport(p, id, c, ifExists)
            \/ \E v \in Versions : StartRemove(p, v)
            \/ StartInit(p)
            \/ RefuseRevision(p) \/ Insert(p) \/ AlreadyPresent(p)
            \/ MoveTgz(p) \/ CopyJson(p) \/ Commit(p)
            \/ Vacuum(p) \/ OpenGz(p) \/ WriteGz(p)
            \/ Delete(p) \/ Unlink(p) \/ Unlinked(p)
            \/ Wipe(p) \/ Crash(p)

Spec == Init /\ [][Next]_vars
-----------------------------------------------------------------------------
TypeOK == /\ rows \in Stored(Ids)
          /\ txn \in Procs \cup {None}
          /\ \A p \in Procs : txn = p <=> pc[p] \in {"inserted", "moved", "copied"}
          /\ tgz \in Stored(Dirs)
          /\ json \in Stored(Dirs)
          /\ gz \in Stored(Ids) \cup {Unknown}
          /\ pc \in [Procs -> Steps]
          /\ job \in [Procs -> Requests \cup {None}]
          /\ \A p \in Procs : pc[p] = "idle" <=> job[p] = None
          /\ commands \in 0..MaxCommands
          /\ prep \in SUBSET Procs
          /\ torn \in SUBSET Compressing
          /\ committed \in [Procs -> Stored(Ids)]
          /\ raced \in SUBSET Ids

(* Whoever imports, replaces, removes and dies when: a package in the      *)
(* database has its two files, and they are the ones that were imported    *)
(* with the row. (Except for an id that one command removes the files of   *)
(* while another imports it: no transaction covers the files.)             *)
RowHasFiles == \A id \in Ids \ raced :
                   rows[id] # None => tgz[id] = rows[id] /\ json[id] = rows[id]

(* An import that ends well has published everything that was in the       *)
(* database when it committed, unless it was removed since: also rows that *)
(* crashed imports had left unpublished. (Except when another command      *)
(* wrote to the database or its list while this one compressed.)           *)
PublishesWhatItCommitted ==
    [][\A p \in Procs : WriteGz(p) /\ p \notin torn =>
          \A id \in Ids : committed[p][id] # None => gz'[id] = committed[p][id]]_vars

(* "Zero to remove all package revisions": when `repo remove' is done,     *)
(* nothing is left of any revision. Not so: the files of revision zero are *)
(* removed, which no package has, and the files of all others stay.        *)
RemoveRemovesAllRevisions ==
    [][\A p \in Procs : Unlinked(p) /\ job[p].do = "remove" =>
          \A id \in Ids : id[1] = Id(p)[1] => tgz[id] = None /\ json[id] = None]_vars
=============================================================================
