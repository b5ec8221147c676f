----------------------------- MODULE BuildDbOpen -----------------------------
(***************************************************************************)
(* The build database (db/database.cpp) under bpt processes that build in  *)
(* one output directory. Unlike the other databases this one is opened     *)
(* without a busy timeout: a statement that meets another process's lock   *)
(* fails at once. When this happens to the migration, the failure is taken *)
(* for a corrupted file, which is deleted and made anew; whoever had it    *)
(* open goes on with a file that no longer has a name.                     *)
(*                                                                         *)
(* The locks are SQLite's, with a rollback journal: many readers and one   *)
(* writer, who must wait with the commit until the readers are gone. A     *)
(* reader is also a build whose command_of found something: the cached     *)
(* statement is stepped once and not reset, so its lock is held while the  *)
(* compilers run, and on until the build ends.                             *)
(***************************************************************************)
EXTENDS FiniteSets

CONSTANTS Builds,   \* the processes; each builds once
          Files,    \* the files that may come to lie at the path of the database
          NoFile

VARIABLES
    bpc,       \* where each process is
    again,     \* the processes that open the database for the second time
    path,      \* the file at the path, or NoFile
    conn,      \* the file that each process has open
    schema,    \* what is in each file
    rows,      \* the builds whose compilations each file holds
    held,      \* the lock that each process has on its file
    reading,   \* the processes whose command_of statement stands on a row
    session,   \* the builds since one began alone (history)
    kept,      \* those whose records must be found from then on (history)
    collided   \* since then, some build was in the way of another (history)

dbVars == <<bpc, again, path, conn, schema, rows, held, reading, session, kept, collided>>

(* "absent": never existed; "empty": no bpt_meta_1; "old": another version. *)
Schema == {"absent", "empty", "old", "current", "garbage"}

Ended == {"ended", "failed", "terminated"}

BuildState == {"start", "open", "version", "migrate", "migrated", "remove", "reopen",
               "building", "recording", "recorded"} \cup Ended

NewFile == CHOOSE f \in Files : schema[f] = "absent"

Init == /\ bpc = [p \in Builds |-> "start"]
        /\ again = {}
        /\ conn = [p \in Builds |-> NoFile]
        /\ schema \in {[f \in Files |-> IF f = g THEN s ELSE "absent"] :
                          g \in {CHOOSE f \in Files : TRUE}, s \in Schema}
        /\ path = IF \A f \in Files : schema[f] = "absent" THEN NoFile
                  ELSE CHOOSE f \in Files : schema[f] # "absent"
        /\ rows = [f \in Files |-> {}]
        /\ held = [p \in Builds |-> "none"]
        /\ reading = {} /\ session = {} /\ kept = {}
        /\ collided = FALSE

Go(p, a, b) == bpc[p] = a /\ bpc' = [bpc EXCEPT ![p] = b]
-----------------------------------------------------------------------------
Others(p) == {q \in Builds \ {p} : conn[q] = conn[p]}

MayRead(p) == \A q \in Others(p) : held[q] # "exclusive"
MayWrite(p) == \A q \in Others(p) : held[q] \in {"none", "shared"}
MayCommit(p) == \A q \in Others(p) : held[q] = "none"

Hold(p, l) == held' = [held EXCEPT ![p] = l]

Running(p) == bpc[p] \notin Ended \cup {"start"} \/ held[p] # "none"

(* COMMIT, if no other process reads; the changes follow. *)
Exclusive(p) == /\ bpc[p] \in {"migrated", "recording"}
                /\ held[p] = "reserved" /\ MayCommit(p)
                /\ Hold(p, "exclusive")
                /\ UNCHANGED <<bpc, again, path, conn, schema, rows, reading, session, kept, collided>>

(* connection::open: the file at the path, or a new one. An earlier        *)
(* connection is closed.                                                   *)
Connect(p, from) ==
    /\ Go(p, from, "open")
    /\ IF path # NoFile
       THEN /\ conn' = [conn EXCEPT ![p] = path]
            /\ UNCHANGED <<path, schema>>
       ELSE /\ \E f \in Files : schema[f] = "absent"
            /\ conn' = [conn EXCEPT ![p] = NewFile]
            /\ path' = NewFile
            /\ schema' = [schema EXCEPT ![NewFile] = "empty"]
    /\ Hold(p, "none")
    /\ UNCHANGED <<rows, reading>>

Open(p) ==
    /\ Connect(p, "start")
    /\ IF \E q \in Builds : Running(q)
       THEN session' = session \cup {p} /\ UNCHANGED <<kept, collided>>
       ELSE /\ session' = {p}
            /\ kept' = IF path = NoFile THEN {} ELSE rows[path]
            /\ collided' = FALSE
    /\ UNCHANGED again

Reopen(p) == /\ Connect(p, "reopen")
             /\ again' = again \cup {p}
             /\ UNCHANGED <<session, kept, collided>>
-----------------------------------------------------------------------------
(* ensure_migrated. The script before its transaction reads the schema, or *)
(* makes the table of the version.                                         *)
MayPrepare(p) == /\ schema[conn[p]] # "garbage" /\ MayRead(p)
                 /\ schema[conn[p]] = "empty" => MayCommit(p)

Prepare(p) == /\ Go(p, "open", "version")
              /\ MayPrepare(p)
              /\ schema' = IF schema[conn[p]] = "empty" THEN [schema EXCEPT ![conn[p]] = "old"]
                           ELSE schema
              /\ UNCHANGED <<again, path, conn, rows, held, reading, session, kept, collided>>

ReadVersion(p) == /\ Go(p, "version", "migrate")
                  /\ MayRead(p)
                  /\ Hold(p, "shared")
                  /\ UNCHANGED <<again, path, conn, schema, rows, reading, session, kept, collided>>

(* The version is written in any case. *)
WriteVersion(p) == /\ Go(p, "migrate", "migrated")
                   /\ MayWrite(p)
                   /\ Hold(p, "reserved")
                   /\ UNCHANGED <<again, path, conn, schema, rows, reading, session, kept, collided>>

(* Mutant: the version is not compared. *)
MigratesAlways(f) == TRUE

(* Another version, or none: all tables are dropped and made again. *)
NeedsMigration(f) == schema[f] # "current"

Migrated(p) ==
    LET f == conn[p] IN
    /\ Go(p, "migrated", "building")
    /\ held[p] = "exclusive" /\ Hold(p, "none")
    /\ rows' = IF NeedsMigration(f) THEN [rows EXCEPT ![f] = {}] ELSE rows
    /\ schema' = [schema EXCEPT ![f] = "current"]
    /\ UNCHANGED <<again, path, conn, reading, session, kept, collided>>

(* nsql::error from a database that is locked, or is no database; the      *)
(* second time std::terminate().                                           *)
MigrateFails(p) ==
    /\ \/ bpc[p] = "open" /\ ~MayPrepare(p)
       \/ bpc[p] = "version" /\ ~MayRead(p)
       \/ bpc[p] = "migrate" /\ ~MayWrite(p)
       \/ bpc[p] = "migrated" /\ held[p] = "reserved" /\ ~MayCommit(p)
    /\ bpc' = [bpc EXCEPT ![p] = IF p \in again THEN "terminated" ELSE "remove"]
    /\ collided' = (collided \/ schema[conn[p]] # "garbage")
    /\ UNCHANGED <<again, path, conn, schema, rows, held, reading, session, kept>>

(* fs::remove(db_path): whatever file is there now. *)
Remove(p) == /\ Go(p, "remove", "reopen")
             /\ path' = NoFile
             /\ collided' = (collided \/ path \notin {NoFile, conn[p]})
             /\ UNCHANGED <<again, conn, schema, rows, held, reading, session, kept>>

(* The transaction of a statement that failed is rolled back: at the       *)
(* latest when the connection is closed or the process ends.               *)
RollBack(p) == /\ bpc[p] \in {"remove", "reopen"} \cup Ended
               /\ held[p] # "none" /\ Hold(p, "none")
               /\ UNCHANGED <<bpc, again, path, conn, schema, rows, reading, session, kept, collided>>
-----------------------------------------------------------------------------
(* get_prior_compilation, for each file: the statement of command_of is    *)
(* reset, and stands on a row afterwards if there is one.                  *)
Lookup(p) == /\ bpc[p] = "building" /\ MayRead(p)
             /\ \/ /\ rows[conn[p]] # {}
                   /\ reading' = reading \cup {p} /\ Hold(p, "shared")
                \/ reading' = reading \ {p} /\ Hold(p, "none")
             /\ UNCHANGED <<bpc, again, path, conn, schema, rows, session, kept, collided>>

(* compile_all records what it has compiled, in one transaction.           *)
BeginRecording(p) == /\ Go(p, "building", "recording")
                     /\ MayWrite(p) /\ Hold(p, "reserved")
                     /\ UNCHANGED <<again, path, conn, schema, rows, reading, session, kept, collided>>

Recorded(p) == /\ Go(p, "recording", "recorded")
               /\ held[p] = "exclusive"
               /\ Hold(p, IF p \in reading THEN "shared" ELSE "none")
               /\ rows' = [rows EXCEPT ![conn[p]] = @ \cup {p}]
               /\ kept' = kept \cup {p}
               /\ UNCHANGED <<again, path, conn, schema, reading, session, collided>>

NothingToRecord(p) == /\ Go(p, "building", "recorded")
                      /\ UNCHANGED <<again, path, conn, schema, rows, held, reading, session, kept,
                                     collided>>

(* A lookup, the first insert or the commit meets another's lock: the      *)
(* build ends with an error.                                               *)
BuildFails(p) == /\ \/ bpc[p] = "building" /\ ~MayWrite(p)
                    \/ bpc[p] = "recording" /\ held[p] = "reserved" /\ ~MayCommit(p)
                 /\ bpc' = [bpc EXCEPT ![p] = "failed"]
                 /\ reading' = reading \ {p}
                 /\ collided' = TRUE
                 /\ UNCHANGED <<again, path, conn, schema, rows, held, session, kept>>

(* Archives, links and tests are done, or have failed; or the process dies *)
(* at any step. What was not committed is rolled back.                     *)
End(p) == /\ bpc[p] \notin Ended \cup {"start"}
          /\ bpc' = [bpc EXCEPT ![p] = "ended"]
          /\ conn' = [conn EXCEPT ![p] = NoFile]
          /\ again' = again \ {p} /\ reading' = reading \ {p} /\ Hold(p, "none")
          /\ UNCHANGED <<path, schema, rows, session, kept, collided>>

Next == \E p \in Builds :
           \/ Open(p) \/ Prepare(p) \/ ReadVersion(p) \/ WriteVersion(p) \/ Exclusive(p)
           \/ Migrated(p) \/ MigrateFails(p) \/ Remove(p) \/ RollBack(p) \/ Reopen(p)
           \/ Lookup(p) \/ BeginRecording(p) \/ Recorded(p) \/ NothingToRecord(p)
           \/ BuildFails(p) \/ End(p)

Spec == Init /\ [][Next]_dbVars
-----------------------------------------------------------------------------
TypeOK == /\ bpc \in [Builds -> BuildState]
          /\ again \subseteq Builds /\ reading \subseteq Builds
          /\ path \in Files \cup {NoFile}
          /\ conn \in [Builds -> Files \cup {NoFile}]
          /\ schema \in [Files -> Schema]
          /\ rows \in [Files -> SUBSET Builds]
          /\ held \in [Builds -> {"none", "shared", "reserved", "exclusive"}]
          /\ session \subseteq Builds /\ kept \subseteq Builds
          /\ collided \in BOOLEAN

(* What was recorded before a build began alone, and what it and those     *)
(* that overlap it record, is there for the next one, and none of them     *)
(* fails for the database: whichever were killed, and whatever builds that *)
(* collided earlier have left behind. The exception is a collision: a lock *)
(* refused to one of them, or a new database of one of them deleted by     *)
(* another. It takes two builds that overlap.                              *)
RecordsAreKept ==
    /\ ~collided =>
        /\ kept # {} => path # NoFile /\ kept \subseteq rows[path]
        /\ \A p \in session : bpc[p] \notin {"failed", "terminated"}
    /\ collided => \E p, q \in session : p # q
=============================================================================
