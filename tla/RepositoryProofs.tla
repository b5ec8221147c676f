--------------------------- MODULE RepositoryProofs ---------------------------
(***************************************************************************)
(* For any number of packages, processes, commands and crashes: a package  *)
(* in the database has its two files, unless its directory was removed     *)
(* while it was imported.                                                  *)
(* And what an import committed is in the list it publishes, unless it was *)
(* removed since or another command disturbed the compression.             *)
(***************************************************************************)
EXTENDS Repository, TLAPS

Importing == {"inserted", "moved", "copied"}

(* What each command was asked to do fits where it is. *)
JobsFit ==
    \A p \in Procs :
        /\ pc[p] \in {"start"} \cup Importing =>
               job[p].do \in {"keep", "replace", "retry"}
        /\ pc[p] \in {"delete", "unlink"} => job[p].do \in {"replace", "remove"}
        /\ pc[p] # "idle" /\ job[p].do \in {"keep", "replace", "retry"} =>
               job[p].id \in Dirs /\ job[p].from \in Contents
        /\ pc[p] # "idle" /\ job[p].do = "remove" => job[p].id \in Dirs

(* An import that is under way has a row of its own to come, and puts its  *)
(* files in place before that.                                             *)
ImportsOwnFiles ==
    \A p \in Procs : pc[p] \in Importing =>
        /\ Id(p) \in Ids
        /\ rows[Id(p)] = None
        /\ pc[p] \in {"moved", "copied"} /\ Id(p) \notin raced => tgz[Id(p)] = job[p].from
        /\ pc[p] = "copied" /\ Id(p) \notin raced => json[Id(p)] = job[p].from

(* Files are only removed when there is no row, and none is coming. *)
RemovalsOwnFiles ==
    \A p \in Procs : pc[p] = "unlink" /\ Id(p) \in Ids \ raced =>
        /\ rows[Id(p)] = None
        /\ \A q \in Procs : pc[q] \in Importing => Id(q) # Id(p)

IInv == TypeOK /\ JobsFit /\ ImportsOwnFiles /\ RemovalsOwnFiles /\ RowHasFiles
-----------------------------------------------------------------------------
LEMMA IdsAreDirs == Ids \subseteq Dirs
  BY RepositoryAssumption DEF Ids, Dirs

LEMMA InitTypeOK == Init => TypeOK
  BY RepositoryAssumption DEF Init, TypeOK, Stored, Empty, Steps

(* A command that ends leaves the lock alone and gives up all it had. *)
LEMMA StopTypeOK ==
  ASSUME TypeOK, NEW p \in Procs, Stop(p)
  PROVE  /\ pc' \in [Procs -> Steps] /\ job' \in [Procs -> Requests \cup {None}]
         /\ \A q \in Procs : pc'[q] = "idle" <=> job'[q] = None
         /\ prep' \in SUBSET Procs
         /\ committed' \in [Procs -> Stored(Ids)]
         /\ torn' \in SUBSET Compressing'
         /\ pc'[p] = "idle"
         /\ \A q \in Procs \ {p} : pc'[q] = pc[q]
  BY DEF TypeOK, Stop, Steps, Stored, Empty, Compressing

LEMMA NextTypeOK == TypeOK /\ [Next]_vars => TypeOK'
<1> SUFFICES ASSUME TypeOK, [Next]_vars PROVE TypeOK'
  OBVIOUS
<1> USE RepositoryAssumption, IdsAreDirs DEF filesVars, Compressing
<1>1. ASSUME NEW p \in Procs, NEW id \in Dirs, NEW c \in Contents,
             NEW ifExists \in {"keep", "replace"}, StartImport(p, id, c, ifExists)
      PROVE  TypeOK'
  BY <1>1 DEF TypeOK, StartImport, Start, Go, Steps, Requests, Commands
<1>2. ASSUME NEW p \in Procs, NEW v \in Versions, StartRemove(p, v) PROVE TypeOK'
  BY <1>2 DEF TypeOK, StartRemove, Start, Go, Steps, Requests, Commands, Dirs
<1>3. ASSUME NEW p \in Procs, StartInit(p) PROVE TypeOK'
  BY <1>3 DEF TypeOK, StartInit, Start, Go, Steps, Requests, Commands
<1>4. ASSUME NEW p \in Procs, RefuseRevision(p) PROVE TypeOK'
  BY <1>4, StopTypeOK DEF TypeOK, RefuseRevision
<1>5. ASSUME NEW p \in Procs, Insert(p) PROVE TypeOK'
  BY <1>5 DEF TypeOK, Insert, Go, Steps
<1>6. ASSUME NEW p \in Procs, AlreadyPresent(p) PROVE TypeOK'
  BY <1>6, StopTypeOK DEF TypeOK, AlreadyPresent, Go, Steps
<1>7. ASSUME NEW p \in Procs, MoveTgz(p) PROVE TypeOK'
  <2>1. CASE RollBack(p)
    BY <1>7, <2>1, StopTypeOK DEF TypeOK, MoveTgz, RollBack, Go
  <2>2. CASE Go(p, "inserted", "moved")
    <3>1. /\ UNCHANGED <<txn, job, prep, torn, committed>>
          /\ tgz' = [tgz EXCEPT ![Id(p)] = job[p].from]
      BY <1>7, <2>2 DEF TypeOK, MoveTgz, RollBack, Stop, Go
    <3>2. job[p] \in Requests
      BY <2>2 DEF TypeOK, Go
    <3>3. tgz' \in Stored(Dirs)
      BY <3>1, <3>2 DEF TypeOK, Stored, Requests
    <3> QED
      BY <1>7, <2>2, <3>1, <3>3 DEF TypeOK, MoveTgz, Go, Steps
  <2> QED
    BY <1>7, <2>1, <2>2 DEF MoveTgz
<1>8. ASSUME NEW p \in Procs, CopyJson(p) PROVE TypeOK'
  <2>1. CASE RollBack(p)
    BY <1>8, <2>1, StopTypeOK DEF TypeOK, CopyJson, RollBack, Go
  <2>2. CASE Go(p, "moved", "copied")
    BY <1>8, <2>2 DEF TypeOK, CopyJson, RollBack, Stop, Go, Steps, Stored, Requests
  <2> QED
    BY <1>8, <2>1, <2>2 DEF CopyJson
<1>9. ASSUME NEW p \in Procs, Commit(p) PROVE TypeOK'
  <2>1. rows' \in Stored(Ids)
    BY <1>9 DEF TypeOK, Commit, Go, Stored, Requests
  <2> QED
    BY <1>9, <2>1 DEF TypeOK, Commit, Go, Steps
<1>10. ASSUME NEW p \in Procs, Vacuum(p) PROVE TypeOK'
  BY <1>10 DEF TypeOK, Vacuum, Go, Steps
<1>11. ASSUME NEW p \in Procs, OpenGz(p) PROVE TypeOK'
  BY <1>11 DEF TypeOK, OpenGz, Go, Steps
<1>12. ASSUME NEW p \in Procs, WriteGz(p) PROVE TypeOK'
  BY <1>12, StopTypeOK DEF TypeOK, WriteGz, Published
<1>13. ASSUME NEW p \in Procs, Delete(p) PROVE TypeOK'
  <2>1. rows' \in Stored(Ids) /\ committed' \in [Procs -> Stored(Ids)]
    BY <1>13 DEF TypeOK, Delete, Without, Stored
  <2> QED
    BY <1>13, <2>1 DEF TypeOK, Delete, Go, Steps
<1>14. ASSUME NEW p \in Procs, Unlink(p) PROVE TypeOK'
  BY <1>14 DEF TypeOK, Unlink, Stored
<1>15. ASSUME NEW p \in Procs, Unlinked(p) PROVE TypeOK'
  <2>1. CASE Stop(p)
    BY <1>15, <2>1, StopTypeOK DEF TypeOK, Unlinked
  <2>2. CASE Go(p, "unlink", "start")
    <3>1. job[p] \in Requests
      BY <2>2 DEF TypeOK, Go
    <3>2. [job[p] EXCEPT !.do = "retry"] \in Requests
      BY <3>1 DEF Requests, Commands
    <3>3. job' = [job EXCEPT ![p] = [job[p] EXCEPT !.do = "retry"]] \/ Stop(p)
      BY <1>15 DEF Unlinked
    <3> QED
      BY <1>15, <2>1, <2>2, <3>2, <3>3 DEF TypeOK, Unlinked, Go, Steps
  <2> QED
    BY <1>15, <2>1, <2>2 DEF Unlinked
<1>16. ASSUME NEW p \in Procs, Wipe(p) PROVE TypeOK'
  BY <1>16 DEF TypeOK, Wipe, Go, Steps, Stored, Empty
<1>17. ASSUME NEW p \in Procs, Crash(p) PROVE TypeOK'
  BY <1>17, StopTypeOK DEF TypeOK, Crash
<1>18. CASE UNCHANGED vars
  BY <1>18 DEF TypeOK, vars
<1> QED
  BY <1>1, <1>2, <1>3, <1>4, <1>5, <1>6, <1>7, <1>8, <1>9, <1>10, <1>11, <1>12, <1>13, <1>14,
     <1>15, <1>16, <1>17, <1>18 DEF Next

(* Types, and that the write lock is held exactly while an import puts its *)
(* files in place: whoever fails or dies there lets go of it.              *)
THEOREM TypeCorrect == Spec => []TypeOK
  BY InitTypeOK, NextTypeOK, PTL DEF Spec
-----------------------------------------------------------------------------
LEMMA InitIInv == Init => IInv
  BY InitTypeOK
     DEF Init, IInv, JobsFit, Importing, ImportsOwnFiles, RemovalsOwnFiles, RowHasFiles, Empty

(* A step that stops p, or moves it to a step that neither imports nor     *)
(* removes files, and leaves rows, files and all other commands alone.     *)
LEMMA HarmlessStep ==
  ASSUME IInv, NEW p \in Procs,
         UNCHANGED <<rows, tgz, json, raced>>,
         pc' \in [Procs -> Steps], job' \in [Procs -> Requests \cup {None}],
         \A q \in Procs \ {p} : pc'[q] = pc[q] /\ job'[q] = job[q],
         pc'[p] \in {"idle", "committed", "vacuumed", "writing"},
         pc'[p] # "idle" => pc[p] # "idle" /\ job'[p] = job[p]
  PROVE  JobsFit' /\ ImportsOwnFiles' /\ RemovalsOwnFiles' /\ RowHasFiles'
<1>1. JobsFit'
  BY DEF IInv, JobsFit, Importing
<1>2. ImportsOwnFiles'
  BY DEF IInv, ImportsOwnFiles, Importing, Id
<1>3. RemovalsOwnFiles'
  BY DEF IInv, RemovalsOwnFiles, Importing, Id
<1>4. RowHasFiles'
  BY DEF IInv, RowHasFiles
<1> QED
  BY <1>1, <1>2, <1>3, <1>4

LEMMA StopIsHarmless ==
  ASSUME IInv, NEW p \in Procs, Stop(p), UNCHANGED <<rows, tgz, json, raced>>
  PROVE  JobsFit' /\ ImportsOwnFiles' /\ RemovalsOwnFiles' /\ RowHasFiles'
<1>1. /\ \A q \in Procs \ {p} : pc'[q] = pc[q] /\ job'[q] = job[q]
      /\ pc'[p] = "idle"
      /\ pc' \in [Procs -> Steps] /\ job' \in [Procs -> Requests \cup {None}]
  BY StopTypeOK DEF IInv, TypeOK, Stop
<1> QED
  BY <1>1, HarmlessStep

LEMMA NextIInv == IInv /\ [Next]_vars => IInv'
<1> SUFFICES ASSUME IInv, [Next]_vars
             PROVE  JobsFit' /\ ImportsOwnFiles' /\ RemovalsOwnFiles' /\ RowHasFiles'
  BY NextTypeOK DEF IInv
<1> DEFINE Goal == JobsFit /\ ImportsOwnFiles /\ RemovalsOwnFiles /\ RowHasFiles
<1> USE RepositoryAssumption, IdsAreDirs DEF filesVars, Importing
<1>t. TypeOK'
  BY NextTypeOK DEF IInv
(* Steps that only say what p does next. *)
<1>1. ASSUME NEW p \in Procs,
             Vacuum(p) \/ OpenGz(p)
      PROVE  Goal'
  BY <1>1, <1>t, HarmlessStep DEF IInv, TypeOK, Vacuum, OpenGz, Go
<1>2. ASSUME NEW p \in Procs,
             RefuseRevision(p) \/ WriteGz(p) \/ Crash(p)
      PROVE  Goal'
  BY <1>2, StopIsHarmless DEF RefuseRevision, WriteGz, Crash
<1>3. ASSUME NEW p \in Procs, NEW id \in Dirs, NEW c \in Contents,
             NEW ifExists \in {"keep", "replace"}, StartImport(p, id, c, ifExists)
      PROVE  Goal'
  BY <1>3 DEF IInv, TypeOK, JobsFit, ImportsOwnFiles, RemovalsOwnFiles, RowHasFiles, Id,
              StartImport, Start, Go
<1>4. ASSUME NEW p \in Procs, NEW v \in Versions, StartRemove(p, v) PROVE Goal'
  BY <1>4 DEF IInv, TypeOK, JobsFit, ImportsOwnFiles, RemovalsOwnFiles, RowHasFiles, Id,
              StartRemove, Start, Go, Dirs
<1>5. ASSUME NEW p \in Procs, StartInit(p) PROVE Goal'
  BY <1>5 DEF IInv, TypeOK, JobsFit, ImportsOwnFiles, RemovalsOwnFiles, RowHasFiles, Id,
              StartInit, Start, Go
<1>6. ASSUME NEW p \in Procs, Insert(p) PROVE Goal'
  BY <1>6 DEF IInv, TypeOK, JobsFit, ImportsOwnFiles, RemovalsOwnFiles, RowHasFiles, Id,
              Insert, Go, Removing
<1>7. ASSUME NEW p \in Procs, AlreadyPresent(p) PROVE Goal'
  <2>1. CASE Stop(p)
    BY <1>7, <2>1, StopIsHarmless DEF AlreadyPresent
  <2>2. CASE Go(p, "start", "delete") /\ job[p].do = "replace" /\ UNCHANGED job
    BY <1>7, <2>2 DEF IInv, TypeOK, JobsFit, ImportsOwnFiles, RemovalsOwnFiles, RowHasFiles, Id,
                      AlreadyPresent, Go
  <2> QED
    BY <1>7, <2>1, <2>2 DEF AlreadyPresent
(* The lock keeps other imports out, and what has no row has no claim. *)
<1>8. ASSUME NEW p \in Procs, MoveTgz(p) PROVE Goal'
  <2>1. CASE RollBack(p) /\ UNCHANGED tgz
    BY <1>8, <2>1, StopIsHarmless DEF MoveTgz, RollBack
  <2>2. CASE Go(p, "inserted", "moved") /\ UNCHANGED job
             /\ tgz' = [tgz EXCEPT ![Id(p)] = job[p].from]
    <3>1. JobsFit' /\ RemovalsOwnFiles'
      BY <1>8, <2>2 DEF IInv, TypeOK, JobsFit, RemovalsOwnFiles, Id, MoveTgz, Go
    <3>2. ImportsOwnFiles'
      BY <1>8, <2>2 DEF IInv, TypeOK, ImportsOwnFiles, Id, MoveTgz, Go, Stored
    <3>3. RowHasFiles'
      BY <1>8, <2>2 DEF IInv, TypeOK, ImportsOwnFiles, RowHasFiles, Id, MoveTgz, Go, Stored
    <3> QED
      BY <3>1, <3>2, <3>3
  <2> QED
    BY <1>8, <2>1, <2>2 DEF MoveTgz
<1>9. ASSUME NEW p \in Procs, CopyJson(p) PROVE Goal'
  <2>1. CASE RollBack(p) /\ UNCHANGED json
    BY <1>9, <2>1, StopIsHarmless DEF CopyJson, RollBack
  <2>2. CASE Go(p, "moved", "copied") /\ UNCHANGED job
             /\ json' = [json EXCEPT ![Id(p)] = job[p].from]
    <3>1. JobsFit' /\ RemovalsOwnFiles'
      BY <1>9, <2>2 DEF IInv, TypeOK, JobsFit, RemovalsOwnFiles, Id, CopyJson, Go
    <3>2. ImportsOwnFiles'
      BY <1>9, <2>2 DEF IInv, TypeOK, ImportsOwnFiles, Id, CopyJson, Go, Stored
    <3>3. RowHasFiles'
      BY <1>9, <2>2 DEF IInv, TypeOK, ImportsOwnFiles, RowHasFiles, Id, CopyJson, Go, Stored
    <3> QED
      BY <3>1, <3>2, <3>3
  <2> QED
    BY <1>9, <2>1, <2>2 DEF CopyJson
<1>10. ASSUME NEW p \in Procs, Commit(p) PROVE Goal'
  BY <1>10 DEF IInv, TypeOK, JobsFit, ImportsOwnFiles, RemovalsOwnFiles, RowHasFiles, Id,
               Commit, Go, Stored
(* No import holds the lock while rows are deleted, so none loses its row. *)
<1>11. ASSUME NEW p \in Procs, Delete(p) PROVE Goal'
  <2>1. \A q \in Procs : pc'[q] \notin Importing
    BY <1>11 DEF IInv, TypeOK, Delete, Go
  <2>2. JobsFit' /\ ImportsOwnFiles'
    BY <1>11, <2>1 DEF IInv, TypeOK, JobsFit, ImportsOwnFiles, Delete, Go
  <2>3. RemovalsOwnFiles' /\ RowHasFiles'
    BY <1>11, <2>1 DEF IInv, TypeOK, RemovalsOwnFiles, RowHasFiles, Id,
                       Delete, Deleted, Without, Go
  <2> QED
    BY <2>2, <2>3
<1>12. ASSUME NEW p \in Procs, Unlink(p) PROVE Goal'
  <2>1. /\ pc[p] = "unlink" /\ UNCHANGED <<rows, raced, pc, job>>
        /\ \A d \in Dirs \ {Id(p)} : tgz'[d] = tgz[d] /\ json'[d] = json[d]
    BY <1>12 DEF IInv, TypeOK, Unlink, Stored
  <2>2. JobsFit' /\ RemovalsOwnFiles'
    BY <2>1 DEF IInv, JobsFit, RemovalsOwnFiles, Id
  <2>3. \A q \in Procs : pc[q] \in Importing /\ Id(q) \in Ids \ raced => Id(q) # Id(p)
    BY <2>1 DEF IInv, RemovalsOwnFiles
  <2>4. ImportsOwnFiles'
    BY <2>1, <2>3 DEF IInv, ImportsOwnFiles, Id
  <2>5. RowHasFiles'
    BY <2>1 DEF IInv, RemovalsOwnFiles, RowHasFiles
  <2> QED
    BY <2>2, <2>4, <2>5
<1>13. ASSUME NEW p \in Procs, Unlinked(p) PROVE Goal'
  <2>1. CASE Stop(p)
    BY <1>13, <2>1, StopIsHarmless DEF Unlinked
  <2>2. CASE Go(p, "unlink", "start") /\ job' = [job EXCEPT ![p].do = "retry"]
    <3>1. job[p] \in Requests /\ job[p].id \in Dirs /\ job[p].from \in Contents
      BY <1>13, <2>1, <2>2 DEF IInv, TypeOK, JobsFit, Unlinked, Go, Stop
    <3>2. \A q \in Procs \ {p} : pc'[q] = pc[q] /\ job'[q] = job[q]
      BY <2>2 DEF IInv, TypeOK, Go
    <3>3. pc'[p] = "start" /\ job'[p].do = "retry"
          /\ job'[p].id = job[p].id /\ job'[p].from = job[p].from
      BY <2>2, <3>1 DEF IInv, TypeOK, Go, Requests
    <3>4. UNCHANGED <<rows, tgz, json, raced>>
      BY <1>13 DEF Unlinked
    <3>5. JobsFit' /\ ImportsOwnFiles'
      BY <3>1, <3>2, <3>3, <3>4 DEF IInv, JobsFit, ImportsOwnFiles, Id
    <3>6. RemovalsOwnFiles' /\ RowHasFiles'
      BY <3>2, <3>3, <3>4 DEF IInv, RemovalsOwnFiles, RowHasFiles, Id
    <3> QED
      BY <3>5, <3>6
  <2> QED
    BY <1>13, <2>1, <2>2 DEF Unlinked
<1>14. ASSUME NEW p \in Procs, Wipe(p) PROVE Goal'
  BY <1>14 DEF IInv, TypeOK, JobsFit, ImportsOwnFiles, RemovalsOwnFiles, RowHasFiles, Id,
               Wipe, Go, Empty
<1>15. CASE UNCHANGED vars
  BY <1>15 DEF IInv, vars, JobsFit, ImportsOwnFiles, RemovalsOwnFiles, RowHasFiles, Id
<1> QED
  BY <1>1, <1>2, <1>3, <1>4, <1>5, <1>6, <1>7, <1>8, <1>9, <1>10, <1>11, <1>12, <1>13, <1>14,
     <1>15 DEF Next

(* A package in the database has the two files it was imported with, for   *)
(* any number of commands that run, race and die: the row is committed     *)
(* after the files are in place and deleted before they are removed.       *)
THEOREM PackagesHaveTheirFiles == Spec => []RowHasFiles
<1>1. IInv => RowHasFiles
  BY DEF IInv
<1> QED
  BY <1>1, InitIInv, NextIInv, PTL DEF Spec
-----------------------------------------------------------------------------
(* What a command committed is what the database has, until it is removed: *)
(* no other command changes a row, and the database is only replaced when  *)
(* no other command runs.                                                  *)
Publishing == {"committed", "vacuumed", "writing"}

CommittedAreRows ==
    \A p \in Procs : \A id \in Ids :
        committed[p][id] # None => pc[p] \in Publishing /\ committed[p][id] = rows[id]

LEMMA NextCommittedAreRows ==
  IInv /\ CommittedAreRows /\ [Next]_vars => CommittedAreRows'
<1> SUFFICES ASSUME IInv, CommittedAreRows, [Next]_vars PROVE CommittedAreRows'
  OBVIOUS
<1> USE RepositoryAssumption DEF filesVars
<1>1. ASSUME NEW p \in Procs, Stop(p), UNCHANGED rows PROVE CommittedAreRows'
  BY <1>1 DEF IInv, TypeOK, CommittedAreRows, Stop, Empty
<1>2. ASSUME NEW p \in Procs, NEW a, NEW b, Go(p, a, b), UNCHANGED <<rows, committed>>,
             a \in Publishing => b \in Publishing
      PROVE  CommittedAreRows'
  BY <1>2 DEF IInv, TypeOK, CommittedAreRows, Go
<1>3. ASSUME NEW p \in Procs, NEW id \in Dirs, NEW c \in Contents,
             NEW ifExists \in {"keep", "replace"}, StartImport(p, id, c, ifExists)
      PROVE  CommittedAreRows'
  BY <1>2, <1>3 DEF StartImport, Start, Publishing
<1>4. ASSUME NEW p \in Procs, NEW v \in Versions, StartRemove(p, v) PROVE CommittedAreRows'
  BY <1>2, <1>4 DEF StartRemove, Start, Publishing
<1>5. ASSUME NEW p \in Procs, StartInit(p) PROVE CommittedAreRows'
  BY <1>2, <1>5 DEF StartInit, Start, Publishing
<1>6. ASSUME NEW p \in Procs, RefuseRevision(p) \/ Crash(p) \/ WriteGz(p) PROVE CommittedAreRows'
  BY <1>1, <1>6 DEF RefuseRevision, Crash, WriteGz
<1>7. ASSUME NEW p \in Procs, Insert(p) PROVE CommittedAreRows'
  BY <1>2, <1>7 DEF Insert, Publishing
<1>8. ASSUME NEW p \in Procs, AlreadyPresent(p) PROVE CommittedAreRows'
  BY <1>1, <1>2, <1>8 DEF AlreadyPresent, Publishing
<1>9. ASSUME NEW p \in Procs, MoveTgz(p) PROVE CommittedAreRows'
  BY <1>1, <1>2, <1>9 DEF MoveTgz, RollBack, Publishing
<1>10. ASSUME NEW p \in Procs, CopyJson(p) PROVE CommittedAreRows'
  BY <1>1, <1>2, <1>10 DEF CopyJson, RollBack, Publishing
<1>11. ASSUME NEW p \in Procs, Commit(p) PROVE CommittedAreRows'
  <2>1. /\ Id(p) \in Ids /\ rows[Id(p)] = None
        /\ \A id \in Ids \ {Id(p)} : rows'[id] = rows[id]
    BY <1>11 DEF IInv, TypeOK, ImportsOwnFiles, Importing, Commit, Go, Stored
  <2>2. ASSUME NEW q \in Procs \ {p}, NEW id \in Ids, committed'[q][id] # None
        PROVE  pc'[q] \in Publishing /\ committed'[q][id] = rows'[id]
    <3>1. committed'[q] = committed[q] /\ pc'[q] = pc[q]
      BY <1>11 DEF IInv, TypeOK, Commit, Go
    <3> QED
      BY <2>1, <2>2, <3>1 DEF CommittedAreRows
  <2>3. pc'[p] \in Publishing /\ committed'[p] = rows'
    BY <1>11 DEF IInv, TypeOK, Commit, Go, Publishing
  <2> QED
    BY <2>2, <2>3 DEF CommittedAreRows
<1>12. ASSUME NEW p \in Procs, Vacuum(p) PROVE CommittedAreRows'
  BY <1>2, <1>12 DEF Vacuum, Publishing
<1>13. ASSUME NEW p \in Procs, OpenGz(p) PROVE CommittedAreRows'
  BY <1>2, <1>13 DEF OpenGz, Publishing
<1>14. ASSUME NEW p \in Procs, Delete(p) PROVE CommittedAreRows'
  <2>1. \A q \in Procs : pc[q] \in Publishing => pc'[q] = pc[q]
    BY <1>14 DEF IInv, TypeOK, Delete, Go, Publishing
  <2> QED
    BY <1>14, <2>1 DEF CommittedAreRows, Delete, Without
<1>15. ASSUME NEW p \in Procs, Unlink(p) PROVE CommittedAreRows'
  BY <1>15 DEF Unlink, CommittedAreRows
<1>16. ASSUME NEW p \in Procs, Unlinked(p) PROVE CommittedAreRows'
  BY <1>1, <1>2, <1>16 DEF Unlinked, Publishing
<1>17. ASSUME NEW p \in Procs, Wipe(p) PROVE CommittedAreRows'
  <2>1. \A q \in Procs : pc[q] \notin Publishing
    BY <1>17 DEF Wipe, Go, Publishing
  <2> QED
    BY <1>17, <2>1 DEF Wipe, CommittedAreRows
<1>18. CASE UNCHANGED vars
  BY <1>18 DEF vars, CommittedAreRows
<1> QED
  BY <1>3, <1>4, <1>5, <1>6, <1>7, <1>8, <1>9, <1>10, <1>11, <1>12, <1>13, <1>14, <1>15, <1>16,
     <1>17, <1>18 DEF Next

(* A command that ends well, and that nobody disturbed while it compressed,*)
(* leaves a list with everything in it that the command had committed.     *)
THEOREM CommittedIsPublished == Spec => PublishesWhatItCommitted
<1> DEFINE Inv == IInv /\ CommittedAreRows
<1>1. Init => Inv
  BY InitIInv DEF Init, CommittedAreRows, Empty
<1>2. Inv /\ [Next]_vars => Inv'
  BY NextIInv, NextCommittedAreRows
<1>3. Inv /\ [Next]_vars =>
        [\A p \in Procs : WriteGz(p) /\ p \notin torn =>
            \A id \in Ids : committed[p][id] # None => gz'[id] = committed[p][id]]_vars
  BY DEF CommittedAreRows, WriteGz, Published
<1> QED
  BY <1>1, <1>2, <1>3, PTL DEF Spec, PublishesWhatItCommitted
=============================================================================
