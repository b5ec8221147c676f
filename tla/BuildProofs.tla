------------------------------ MODULE BuildProofs ------------------------------
(***************************************************************************)
(* For any set of outputs and inputs, any number of edits and builds: an   *)
(* object that the next build would skip, and whose last compilation was   *)
(* recorded, is what compiling it now would make (SkippedIsCurrent), if no *)
(* old file replaces an input while a batch runs.                          *)
(*                                                                         *)
(* The property speaks of the present file times and is not inductive. The *)
(* invariant speaks of every file time an input could get back: a recorded *)
(* time is either the version the compiler read, or the time a compilation *)
(* started, which no file ever has.                                        *)
(*                                                                         *)
(* First it is proved of the compile phase and its world (CompileAll). The *)
(* whole build is a behaviour of these, with other steps in between that   *)
(* change nothing of it: what is proved of CompileAll holds for them.      *)
(*                                                                         *)
(* On top of it two action properties of whole builds: what an unchanged   *)
(* build recorded is up to date (NextBuildSkipsWhatWasRecorded), and what  *)
(* a successful build links is current (SuccessLinksCurrentObjects).       *)
(***************************************************************************)
EXTENDS Build, TLAPS

(* Versions of inputs have even times, compilations started at odd ones.   *)
Times ==
    /\ \A i \in Inputs : mtime[i] = Absent \/ \E n \in 0..edits : mtime[i] = EditTime(n)
    /\ \A o \in Outputs : started[o] = Absent \/ \E n \in 0..edits : started[o] = StartTime(n)

(* A ticket that was taken has a start time; dependency information comes  *)
(* from a compilation that is over. Nothing is left of the last build.     *)
Tickets ==
    /\ \A o \in Outputs : status[o] # "pending" => started[o] # Absent
    /\ \A o \in newDeps : status[o] = "ok"
    /\ phase = "idle" => newDeps = {}

(* What the compiler read for o: each input is still that version, or gone,*)
(* or newer than the start of the compilation.                             *)
ReadBy(o) ==
    /\ object[o] \in Contents(o)
    /\ object[o].command = command
    /\ \A i \in Reads[o] : \/ mtime[i] \in {Absent, object[o].from[i]}
                           \/ mtime[i] > started[o]

Unsaved == phase \in {"compile", "record"} => \A o \in newDeps : ReadBy(o)

(* What a record says of the object that it is the record of. *)
Describes(o) ==
    /\ object[o] \in Contents(o)
    /\ object[o].command = db[o].command
    /\ \A i \in Reads[o] : \/ db[o].prev_mtime[i] = object[o].from[i]
                           \/ \E n \in 0..edits : db[o].prev_mtime[i] = StartTime(n)

Recorded ==
    \A o \in Outputs \ unrecorded : object[o] # None /\ db[o] # None => Describes(o)

IInv == TypeOK /\ Times /\ Tickets /\ Unsaved /\ Recorded
-----------------------------------------------------------------------------
(* Every time that is computed is in Time. *)
LEMMA TimesAreTimes ==
  /\ Absent \in Time
  /\ FirstTime \in Time
  /\ \A n \in 0..MaxEdits : EditTime(n) \in Time /\ StartTime(n) \in Time
  /\ Time \subseteq Nat
  BY CompileAllAssumption DEF Absent, FirstTime, EditTime, StartTime, Time

(* An input is never as old or as young as a compilation's start. *)
LEMMA EditIsNoStart == \A m, n \in Nat : EditTime(m) # StartTime(n)
  BY DEF EditTime, StartTime

(* The next edit is younger than anything before it. *)
LEMMA NextEditIsNewer ==
  \A e \in Nat : \A n \in 0..e : /\ EditTime(e + 1) > StartTime(n)
                                 /\ EditTime(e + 1) > EditTime(n)
  BY DEF EditTime, StartTime

(* Before the first build nothing is made and nothing recorded. *)
LEMMA InitTypeOK == Init => TypeOK
<1> SUFFICES ASSUME Init PROVE TypeOK
  OBVIOUS
<1> USE DEF Init, Batch!Init
<1>1. edits \in 0..MaxEdits /\ builds \in 0..MaxBuilds /\ mtime \in [Inputs -> Time]
  BY CompileAllAssumption, TimesAreTimes
<1>2. \A o \in Outputs : object[o] = None /\ db[o] = None
  OBVIOUS
<1>3. DOMAIN object = Outputs /\ DOMAIN db = Outputs
  OBVIOUS
<1>4. phase \in Phases /\ needs \in [Outputs -> BOOLEAN] /\ result \in BOOLEAN \cup {None}
  BY DEF NoTickets, Phases
<1>5. started \in [Outputs -> Time] /\ status \in [Outputs -> Batch!Status]
  BY TimesAreTimes DEF NotStarted, Batch!Status
<1> QED
  BY <1>1, <1>2, <1>3, <1>4, <1>5 DEF TypeOK

(* What a compilation makes is an object, what a commit writes a record.   *)
LEMMA FreshIsContents == TypeOK => \A o \in Outputs : Fresh(o) \in Contents(o)
  BY CompileAllAssumption DEF TypeOK, Fresh, Contents

LEMMA DepsInfoIsRecord == TypeOK => \A o \in Outputs : DepsInfo(o) \in Record(o)
  BY CompileAllAssumption DEF TypeOK, DepsInfo, PrevMtime, Record

(* The end of a build leaves nothing but the files and the database. *)
LEMMA EndTypeOK ==
  ASSUME TypeOK, End
  PROVE  /\ phase' \in Phases /\ needs' \in [Outputs -> BOOLEAN]
         /\ started' \in [Outputs -> Time] /\ status' \in [Outputs -> Batch!Status]
         /\ result' \in BOOLEAN \cup {None} /\ newDeps' \in SUBSET Outputs
         /\ cancelled' \in BOOLEAN /\ builds' \in 0..MaxBuilds
  BY TimesAreTimes
     DEF TypeOK, End, NoTickets, NotStarted, AllPending, Batch!Status, Phases

(* Every step preserves the types. *)
LEMMA NextTypeOK == TypeOK /\ [Next]_vars => TypeOK'
<1> SUFFICES ASSUME TypeOK, [Next]_vars PROVE TypeOK'
  OBVIOUS
<1> USE CompileAllAssumption, TimesAreTimes, FreshIsContents, DepsInfoIsRecord, EndTypeOK
        DEF worldVars, storeVars, localVars
<1>1. CASE Plan
  BY <1>1 DEF TypeOK, Plan, UpToDate, Phases
<1>2. ASSUME NEW o \in Outputs, Begin(o) PROVE TypeOK'
  BY <1>2 DEF TypeOK, Begin, Batch!Begin, Batch!Become, Batch!Status
<1>3. ASSUME NEW o \in Outputs, Skip(o) PROVE TypeOK'
  BY <1>3 DEF TypeOK, Skip, Batch!Succeed, Batch!Become, Batch!Status
<1>4. ASSUME NEW o \in Outputs, Compile(o) PROVE TypeOK'
  BY <1>4 DEF TypeOK, Compile, Write, Batch!Succeed, Batch!Become, Batch!Status
<1>5. ASSUME NEW o \in Outputs, CompileThrows(o) PROVE TypeOK'
  BY <1>5 DEF TypeOK, CompileThrows, Write, Batch!Throw, Batch!Become, Batch!Status
<1>6. CASE BatchReturns
  BY <1>6 DEF TypeOK, BatchReturns, Batch!Return, Phases
<1>7. CASE RecordRolledBack \/ Finish
  BY <1>7 DEF TypeOK, RecordRolledBack, Finish
<1>8. CASE RecordCommitted
  <2>1. /\ \A o \in Outputs : db'[o] \in Record(o) \cup {None}
        /\ DOMAIN db' = Outputs
    BY <1>8 DEF TypeOK, RecordCommitted
  <2>2. unrecorded' \in SUBSET Outputs
    BY <1>8 DEF TypeOK, RecordCommitted
  <2>3. CASE End
    BY <1>8, <2>1, <2>2, <2>3 DEF TypeOK, RecordCommitted
  <2>4. CASE phase' = "compiled" /\ UNCHANGED <<builds, localVars>>
    BY <1>8, <2>1, <2>2, <2>4 DEF TypeOK, RecordCommitted, Phases
  <2> QED
    BY <1>8, <2>3, <2>4 DEF RecordCommitted
<1>9. CASE Killed
  <2>1. PICK D \in SUBSET Compiling :
            /\ object' = [o \in Outputs |-> IF o \in D THEN Damaged ELSE object[o]]
            /\ unrecorded' = unrecorded \cup D
    BY <1>9 DEF Killed
  <2>2. /\ \A o \in Outputs : object'[o] \in Contents(o) \cup {None, Damaged}
        /\ DOMAIN object' = Outputs
        /\ unrecorded' \in SUBSET Outputs
    BY <2>1 DEF TypeOK, Compiling
  <2> QED
    BY <1>9, <2>2 DEF TypeOK, Killed
<1>10. CASE Cancel
  BY <1>10 DEF TypeOK, Cancel
<1>11. ASSUME NEW i \in Inputs, Edit(i) \/ Delete(i) \/ Revert(i) PROVE TypeOK'
  <2>1. edits' \in 0..MaxEdits /\ mtime' \in [Inputs -> Time]
    BY <1>11 DEF TypeOK, Edit, Delete, Revert, SetMtime
  <2> QED
    BY <1>11, <2>1 DEF TypeOK, Edit, Delete, Revert, SetMtime
<1>12. ASSUME NEW o \in Outputs, RemoveObject(o) PROVE TypeOK'
  BY <1>12 DEF TypeOK, RemoveObject
<1>13. ASSUME NEW c \in Commands, SetCommand(c) PROVE TypeOK'
  BY <1>13 DEF TypeOK, SetCommand
<1>14. CASE UNCHANGED vars
  BY <1>14 DEF TypeOK, vars
<1> QED
  BY <1>1, <1>2, <1>3, <1>4, <1>5, <1>6, <1>7, <1>8, <1>9, <1>10, <1>11, <1>12, <1>13, <1>14
     DEF Next, BuildStep, WorldStep

(* Files, database and build state keep their types, whatever happens. *)
THEOREM TypeCorrect == Spec => []TypeOK
  BY InitTypeOK, NextTypeOK, PTL DEF Spec
-----------------------------------------------------------------------------
LEMMA InitIInv == Init => IInv
<1> SUFFICES ASSUME Init PROVE IInv
  OBVIOUS
<1>1. Times /\ Tickets
  BY CompileAllAssumption DEF Init, Times, Tickets, NotStarted, AllPending, FirstTime, Batch!Init
<1>2. Unsaved /\ Recorded
  BY DEF Init, Unsaved, Recorded
<1> QED
  BY <1>1, <1>2, InitTypeOK DEF IInv

(* Inputs only ever get times of edits, compilations start in between. *)
LEMMA NextTimes == TypeOK /\ Times /\ [Next]_vars => Times'
<1> SUFFICES ASSUME TypeOK, Times, [Next]_vars PROVE Times'
  OBVIOUS
<1> USE CompileAllAssumption DEF worldVars, storeVars, localVars
<1>0. edits \in Nat
  BY DEF TypeOK
<1>1. ASSUME UNCHANGED <<edits, mtime>>, UNCHANGED started \/ End PROVE Times'
  BY <1>0, <1>1 DEF Times, End, NotStarted
<1>2. ASSUME NEW o \in Outputs, Begin(o) PROVE Times'
  BY <1>0, <1>2 DEF TypeOK, Times, Begin
<1>3. ASSUME NEW i \in Inputs, Edit(i) \/ Delete(i) \/ Revert(i) PROVE Times'
  <2>1. edits' = edits + 1 /\ UNCHANGED started
    BY <1>3 DEF Edit, Delete, Revert, SetMtime
  <2>2. mtime' \in {[mtime EXCEPT ![i] = t] : t \in {EditTime(edits + 1), Absent, EditTime(0)}}
    BY <1>3 DEF Edit, Delete, Revert, SetMtime, FirstTime
  <2> QED
    BY <1>0, <2>1, <2>2 DEF TypeOK, Times
<1>4. CASE Plan \/ BatchReturns \/ Cancel \/ Killed \/ Finish \/ RecordRolledBack \/ RecordCommitted
  BY <1>1, <1>4
     DEF Plan, BatchReturns, Cancel, Killed, Finish, RecordRolledBack, RecordCommitted
<1>5. ASSUME NEW o \in Outputs, Skip(o) \/ Compile(o) \/ CompileThrows(o) \/ RemoveObject(o)
      PROVE  Times'
  BY <1>1, <1>5 DEF Skip, Compile, CompileThrows, RemoveObject
<1>6. ASSUME NEW c \in Commands, SetCommand(c) PROVE Times'
  BY <1>1, <1>6 DEF SetCommand
<1>7. CASE UNCHANGED vars
  BY <1>1, <1>7 DEF vars
<1> QED
  BY <1>2, <1>3, <1>4, <1>5, <1>6, <1>7 DEF Next, BuildStep, WorldStep

(* Only a ticket that was begun can end, and only one that ended well      *)
(* leaves dependency information.                                          *)
LEMMA NextTickets == TypeOK /\ Tickets /\ [Next]_vars => Tickets'
<1> SUFFICES ASSUME TypeOK, Tickets, [Next]_vars PROVE Tickets'
  OBVIOUS
<1> USE CompileAllAssumption DEF worldVars, storeVars, localVars
<1>0. edits \in Nat
  BY DEF TypeOK
<1>1. ASSUME End PROVE Tickets'
  BY <1>1 DEF Tickets, End, AllPending
<1>2. ASSUME UNCHANGED <<started, status, newDeps>>, phase' = "idle" => phase = "idle"
      PROVE  Tickets'
  BY <1>2 DEF Tickets
<1>3. ASSUME NEW o \in Outputs, Begin(o) PROVE Tickets'
  BY <1>0, <1>3 DEF TypeOK, Tickets, Begin, Batch!Begin, Batch!Become, StartTime, Absent
<1>4. ASSUME NEW o \in Outputs, Skip(o) \/ Compile(o) PROVE Tickets'
  BY <1>4 DEF TypeOK, Tickets, Skip, Compile, Batch!Succeed, Batch!Become
<1>5. ASSUME NEW o \in Outputs, CompileThrows(o) PROVE Tickets'
  BY <1>5 DEF TypeOK, Tickets, CompileThrows, Batch!Throw, Batch!Become
<1>6. CASE Plan \/ BatchReturns \/ Cancel \/ Killed \/ Finish \/ RecordRolledBack \/ RecordCommitted
  BY <1>1, <1>2, <1>6
     DEF Plan, BatchReturns, Cancel, Killed, Finish, RecordRolledBack, RecordCommitted, Batch!Return
<1>7. ASSUME NEW i \in Inputs, Edit(i) \/ Delete(i) \/ Revert(i) PROVE Tickets'
  BY <1>2, <1>7 DEF Edit, Delete, Revert, SetMtime
<1>8. ASSUME NEW o \in Outputs, RemoveObject(o) PROVE Tickets'
  BY <1>2, <1>8 DEF RemoveObject
<1>9. ASSUME NEW c \in Commands, SetCommand(c) PROVE Tickets'
  BY <1>2, <1>9 DEF SetCommand
<1>10. CASE UNCHANGED vars
  BY <1>2, <1>10 DEF vars
<1> QED
  BY <1>3, <1>4, <1>5, <1>6, <1>7, <1>8, <1>9, <1>10 DEF Next, BuildStep, WorldStep

(* While a batch runs, a changed input is gone or newer than every         *)
(* compilation that has started.                                           *)
LEMMA ChangedInput ==
  ASSUME ~MoveOldFiles, TypeOK, Times, phase \in {"compile", "record"},
         NEW i \in Inputs, Edit(i) \/ Delete(i) \/ Revert(i)
  PROVE  /\ \A j \in Inputs \ {i} : mtime'[j] = mtime[j]
         /\ mtime'[i] = Absent \/ \A o \in Outputs : mtime'[i] > started[o]
<1>1. edits \in Nat
  BY CompileAllAssumption DEF TypeOK
<1>2. ~Revert(i)
  BY DEF Revert
<1>3. ASSUME NEW o \in Outputs PROVE EditTime(edits + 1) > started[o]
  <2>1. CASE started[o] = Absent
    BY <1>1, <2>1 DEF EditTime, Absent
  <2>2. CASE \E n \in 0..edits : started[o] = StartTime(n)
    BY <1>1, <2>2, NextEditIsNewer
  <2> QED
    BY <2>1, <2>2 DEF Times
<1> QED
  BY <1>2, <1>3 DEF TypeOK, Edit, Delete, SetMtime

(* A batch keeps what it has compiled as the compiler left it. *)
LEMMA NextUnsaved == ~MoveOldFiles /\ IInv /\ [Next]_vars => Unsaved'
<1> SUFFICES ASSUME ~MoveOldFiles, IInv, [Next]_vars PROVE Unsaved'
  OBVIOUS
<1> USE CompileAllAssumption DEF worldVars, storeVars, localVars
<1>0. \A o \in Outputs : Reads[o] \subseteq Inputs
  OBVIOUS
<1>1. ASSUME End PROVE Unsaved'
  BY <1>1 DEF Unsaved, End
<1>2. ASSUME UNCHANGED <<object, command, mtime, started, newDeps>>,
             phase' \in {"compile", "record"} => phase \in {"compile", "record"} \/ newDeps = {}
      PROVE  Unsaved'
  <2>1. CASE newDeps = {}
    BY <1>2, <2>1 DEF Unsaved
  <2>2. CASE phase' \in {"compile", "record"} => phase \in {"compile", "record"}
    BY <1>2, <2>2 DEF IInv, Unsaved, ReadBy
  <2> QED
    BY <1>2, <2>1, <2>2
<1>3. ASSUME NEW o \in Outputs, Begin(o) PROVE Unsaved'
  <2>1. \A p \in newDeps : p # o /\ ReadBy(p)
    BY <1>3 DEF IInv, Tickets, Unsaved, Begin, Batch!Begin, Batch!Become
  <2>2. \A p \in newDeps : ReadBy(p)'
    BY <1>3, <2>1 DEF IInv, TypeOK, ReadBy, Begin
  <2> QED
    BY <1>3, <2>2 DEF Unsaved, Begin
<1>4. ASSUME NEW o \in Outputs, Compile(o) PROVE Unsaved'
  <2>1. \A p \in newDeps : p # o /\ ReadBy(p)
    BY <1>4 DEF IInv, Tickets, Unsaved, Compile, Batch!Succeed, Batch!Become
  <2>2. \A p \in newDeps : ReadBy(p)'
    BY <1>4, <2>1 DEF IInv, TypeOK, ReadBy, Compile, Write
  <2>3. object'[o] = Fresh(o)
    BY <1>4 DEF IInv, TypeOK, Compile, Write
  <2>4. ReadBy(o)'
    BY <1>0, <1>4, <2>3, FreshIsContents DEF IInv, ReadBy, Compile, Write, Fresh
  <2> QED
    BY <1>4, <2>2, <2>4 DEF Unsaved, Compile
<1>5. ASSUME NEW o \in Outputs, CompileThrows(o) PROVE Unsaved'
  <2>1. \A p \in newDeps : p # o /\ ReadBy(p)
    BY <1>5 DEF IInv, Tickets, Unsaved, CompileThrows, Batch!Throw, Batch!Become
  <2>2. \A p \in newDeps : ReadBy(p)'
    BY <1>5, <2>1 DEF IInv, TypeOK, ReadBy, CompileThrows, Write
  <2> QED
    BY <1>5, <2>2 DEF Unsaved, CompileThrows
<1>6. ASSUME NEW i \in Inputs, Edit(i) \/ Delete(i) \/ Revert(i) PROVE Unsaved'
  <2>1. UNCHANGED <<object, command, started, newDeps, phase>>
    BY <1>6 DEF Edit, Delete, Revert, SetMtime
  <2>2. ASSUME phase \in {"compile", "record"}, NEW o \in newDeps PROVE ReadBy(o)'
    <3>1. o \in Outputs /\ ReadBy(o)
      BY <2>2 DEF IInv, TypeOK, Unsaved
    <3> QED
      BY <1>0, <1>6, <2>1, <2>2, <3>1, ChangedInput DEF IInv, ReadBy
  <2> QED
    BY <2>1, <2>2 DEF Unsaved
<1>7. CASE Plan \/ BatchReturns \/ Cancel \/ Killed \/ Finish \/ RecordRolledBack \/ RecordCommitted
  BY <1>1, <1>2, <1>7
     DEF IInv, Tickets, Plan, BatchReturns, Cancel, Killed, Finish, RecordRolledBack,
         RecordCommitted, Batch!Return, Unsaved
<1>8. ASSUME NEW o \in Outputs, Skip(o) PROVE Unsaved'
  BY <1>2, <1>8 DEF Skip
<1>9. ASSUME NEW o \in Outputs, RemoveObject(o) PROVE Unsaved'
  BY <1>9 DEF RemoveObject, Unsaved
<1>10. ASSUME NEW c \in Commands, SetCommand(c) PROVE Unsaved'
  BY <1>10 DEF SetCommand, Unsaved
<1>11. CASE UNCHANGED vars
  BY <1>2, <1>11 DEF vars
<1> QED
  BY <1>3, <1>4, <1>5, <1>6, <1>7, <1>8, <1>9, <1>10, <1>11 DEF Next, BuildStep, WorldStep

(* The transaction: an input that is as old as before the compilation      *)
(* started is the one the compiler read, for any other input the start     *)
(* time is recorded.                                                       *)
LEMMA CommitDescribes ==
  ASSUME IInv, RecordCommitted, NEW o \in newDeps
  PROVE  Describes(o)'
<1> USE CompileAllAssumption
<1>1. /\ o \in Outputs /\ Reads[o] \subseteq Inputs
      /\ ReadBy(o) /\ Compilable(o)
      /\ UNCHANGED <<object, edits>>
      /\ db'[o] = DepsInfo(o)
  BY DEF IInv, TypeOK, Unsaved, RecordCommitted, worldVars
<1>2. \E n \in 0..edits : started[o] = StartTime(n)
  BY <1>1 DEF IInv, Times, Tickets
<1>3. ASSUME NEW i \in Reads[o]
      PROVE  PrevMtime(i, o) = object[o].from[i] \/ PrevMtime(i, o) = started[o]
  <2>1. mtime[i] = object[o].from[i] \/ mtime[i] > started[o]
    BY <1>1 DEF ReadBy, Compilable
  <2>2. mtime[i] \in Nat /\ started[o] \in Nat
    BY <1>1, TimesAreTimes DEF IInv, TypeOK
  <2> QED
    BY <2>1, <2>2 DEF PrevMtime
<1> QED
  BY <1>1, <1>2, <1>3 DEF ReadBy, Describes, DepsInfo

(* Records describe their objects, whatever is written or committed. *)
LEMMA NextRecorded == IInv /\ [Next]_vars => Recorded'
<1> SUFFICES ASSUME IInv, [Next]_vars PROVE Recorded'
  OBVIOUS
<1> USE CompileAllAssumption DEF worldVars, storeVars, localVars
<1>0. edits \in Nat
  BY DEF IInv, TypeOK
<1>1. ASSUME UNCHANGED <<object, db, unrecorded>>, edits' \in {edits, edits + 1}
      PROVE  Recorded'
  BY <1>0, <1>1 DEF IInv, Recorded, Describes
<1>2. ASSUME UNCHANGED <<db, edits>>, unrecorded \subseteq unrecorded',
             \A o \in Outputs \ unrecorded' : object'[o] \in {None, object[o]}
      PROVE  Recorded'
  BY <1>2 DEF IInv, Recorded, Describes
<1>3. ASSUME NEW o \in Outputs, Compile(o) \/ CompileThrows(o) \/ RemoveObject(o)
      PROVE  Recorded'
  BY <1>2, <1>3 DEF IInv, TypeOK, Compile, CompileThrows, RemoveObject, Write
<1>4. CASE Killed
  BY <1>2, <1>4 DEF Killed
<1>5. CASE RecordCommitted
  <2> SUFFICES ASSUME NEW o \in Outputs \ unrecorded', object'[o] # None, db'[o] # None
               PROVE  Describes(o)'
    BY DEF Recorded
  <2>1. CASE o \in newDeps
    BY <1>5, <2>1, CommitDescribes
  <2>2. CASE o \notin newDeps
    BY <1>5, <2>2 DEF IInv, Recorded, Describes, RecordCommitted
  <2> QED
    BY <2>1, <2>2
<1>6. CASE Plan \/ BatchReturns \/ Cancel \/ Finish \/ RecordRolledBack
  BY <1>1, <1>6 DEF Plan, BatchReturns, Cancel, Finish, RecordRolledBack
<1>7. ASSUME NEW o \in Outputs, Begin(o) \/ Skip(o) PROVE Recorded'
  BY <1>1, <1>7 DEF Begin, Skip
<1>8. ASSUME NEW i \in Inputs, Edit(i) \/ Delete(i) \/ Revert(i) PROVE Recorded'
  BY <1>1, <1>8 DEF Edit, Delete, Revert, SetMtime
<1>9. ASSUME NEW c \in Commands, SetCommand(c) PROVE Recorded'
  BY <1>1, <1>9 DEF SetCommand
<1>10. CASE UNCHANGED vars
  BY <1>1, <1>10 DEF vars
<1> QED
  BY <1>3, <1>4, <1>5, <1>6, <1>7, <1>8, <1>9, <1>10 DEF Next, BuildStep, WorldStep

LEMMA NextIInv == ~MoveOldFiles /\ IInv /\ [Next]_vars => IInv'
  BY NextTypeOK, NextTimes, NextTickets, NextUnsaved, NextRecorded DEF IInv

(* No file has the time a compilation started at, so an input that still   *)
(* has its recorded time is the version that the object was made from.     *)
LEMMA IInvImpliesCurrent == IInv => SkippedIsCurrent
<1> SUFFICES ASSUME IInv, NEW o \in Outputs \ unrecorded, UpToDate(o)
             PROVE  object[o] = Fresh(o)
  BY DEF SkippedIsCurrent
<1> USE CompileAllAssumption
<1>1. Describes(o) /\ Reads[o] \subseteq Inputs
  BY DEF IInv, Recorded, UpToDate
<1>2. ASSUME NEW i \in Reads[o] PROVE object[o].from[i] = mtime[i]
  <2>1. mtime[i] # Absent /\ mtime[i] = db[o].prev_mtime[i]
    BY DEF UpToDate, NewerInputs
  <2>2. PICK m \in 0..edits : mtime[i] = EditTime(m)
    BY <1>1, <2>1 DEF IInv, Times
  <2>3. \A n \in 0..edits : mtime[i] # StartTime(n)
    BY <2>2, EditIsNoStart DEF IInv, TypeOK
  <2> QED
    BY <1>1, <2>1, <2>3 DEF Describes
<1> QED
  BY <1>1, <1>2 DEF Describes, Contents, Fresh, UpToDate

(* Unless old files replace inputs while a batch runs, no interleaving of  *)
(* edits, deletions, reverts, failures, signals and kills with any number  *)
(* of builds makes bpt skip a recorded compilation whose object is stale.  *)
THEOREM SkippedObjectsAreCurrent == ASSUME ~MoveOldFiles PROVE Spec => []SkippedIsCurrent
<1>1. Init => IInv
  BY InitIInv
<1>2. IInv /\ [Next]_vars => IInv'
  BY NextIInv
<1>3. IInv => SkippedIsCurrent
  BY IInvImpliesCurrent
<1> QED
  BY <1>1, <1>2, <1>3, PTL DEF Spec

-----------------------------------------------------------------------------

(* The later phases leave compile_all's variables alone or end the build.  *)
LEMMA LaterPhasesAreFinish == LaterPhases => Finish \/ UNCHANGED vars
<1> SUFFICES ASSUME LaterPhases PROVE Finish \/ UNCHANGED vars
  OBVIOUS
<1>1. CASE ToArchive \/ NextStage
  BY <1>1 DEF ToArchive, NextStage, Enter
<1>2. CASE StageFailed \/ TestsDone
  BY <1>2 DEF StageFailed, TestsDone
<1>3. ASSUME NEW l \in Libraries, Archive(l) PROVE UNCHANGED vars
  BY <1>3 DEF Archive, JobSucceeds
<1>4. ASSUME NEW e \in Executables, Link(e) PROVE UNCHANGED vars
  BY <1>4 DEF Link, JobSucceeds
<1>5. ASSUME NEW t \in Tests, RunTest(t) PROVE UNCHANGED vars
  BY <1>5 DEF RunTest, JobSucceeds
<1>6. ASSUME NEW s \in Stages,
             StageReturns(s) \/ \E x \in StageItems(s) : BeginJob(s, x) \/ JobThrows(s, x)
      PROVE  UNCHANGED vars
  BY <1>6 DEF StageReturns, BeginJob, JobThrows
<1> QED
  BY <1>1, <1>2, <1>3, <1>4, <1>5, <1>6 DEF LaterPhases

LEMMA BuildStepsAreCompileAllSteps == [BuildNext]_allVars => [Next]_vars
<1> SUFFICES ASSUME [BuildNext]_allVars PROVE Next \/ UNCHANGED vars
  OBVIOUS
<1>1. CASE CompilePhase
  BY <1>1 DEF CompilePhase, Next
<1>2. CASE LaterPhases
  BY <1>2, LaterPhasesAreFinish DEF Next
<1>3. CASE World
  BY <1>3 DEF World, Next
<1>4. CASE UNCHANGED allVars
  BY <1>4 DEF allVars
<1> QED
  BY <1>1, <1>2, <1>3, <1>4 DEF BuildNext

(* builder::build implements the compile phase. *)
THEOREM BuildImplementsCompileAll == BuildSpec => Spec
<1>1. BuildInit => Init
  BY DEF BuildInit
<1> QED
  BY <1>1, BuildStepsAreCompileAllSteps, PTL DEF BuildSpec, Spec

(* Whole builds never skip a recorded compilation whose object is stale:   *)
(* the archiver and the linker get what the sources say.                   *)
THEOREM BuildsSkipOnlyCurrentObjects ==
  ASSUME ~MoveOldFiles PROVE BuildSpec => []SkippedIsCurrent
  BY BuildImplementsCompileAll, SkippedObjectsAreCurrent, PTL
-----------------------------------------------------------------------------
(* What the steps of a build change of compile_all's variables. *)
LEMMA StepsKeepCommand ==
  ASSUME [Next]_vars
  PROVE  phase # "idle" => UNCHANGED command
<1> USE DEF worldVars, storeVars, localVars
<1>1. CASE Plan \/ BatchReturns \/ RecordRolledBack \/ RecordCommitted \/ Finish
  BY <1>1 DEF Plan, BatchReturns, RecordRolledBack, RecordCommitted, Finish
<1>2. ASSUME NEW o \in Outputs,
             Begin(o) \/ Skip(o) \/ Compile(o) \/ CompileThrows(o) \/ RemoveObject(o)
      PROVE  UNCHANGED command
  BY <1>2 DEF Begin, Skip, Compile, CompileThrows, RemoveObject
<1>3. CASE Cancel \/ Killed
  BY <1>3 DEF Cancel, Killed
<1>4. ASSUME NEW i \in Inputs, Edit(i) \/ Delete(i) \/ Revert(i) PROVE UNCHANGED command
  BY <1>4 DEF Edit, Delete, Revert, SetMtime
<1>5. ASSUME NEW c \in Commands, SetCommand(c) PROVE phase = "idle"
  BY <1>5 DEF SetCommand
<1>6. CASE UNCHANGED vars
  BY <1>6 DEF vars
<1> QED
  BY <1>1, <1>2, <1>3, <1>4, <1>5, <1>6 DEF Next, BuildStep, WorldStep

(* Only the world changes inputs. *)
LEMMA BuildStepsKeepInputs == BuildStep \/ Finish => UNCHANGED <<edits, mtime>>
<1> USE DEF worldVars
<1>1. CASE Plan \/ BatchReturns \/ RecordRolledBack \/ RecordCommitted \/ Finish
  BY <1>1 DEF Plan, BatchReturns, RecordRolledBack, RecordCommitted, Finish
<1>2. ASSUME NEW o \in Outputs, Begin(o) \/ Skip(o) \/ Compile(o) \/ CompileThrows(o)
      PROVE  UNCHANGED <<edits, mtime>>
  BY <1>2 DEF Begin, Skip, Compile, CompileThrows
<1> QED
  BY <1>1, <1>2 DEF BuildStep

(* The later phases note nothing of the inputs, or end the build. *)
LEMMA LaterPhasesKeepHistory ==
  LaterPhases => \/ Finish /\ phase' = "idle"
                 \/ UNCHANGED <<vars, outcome, seen, untrusted>>
<1> SUFFICES ASSUME LaterPhases
             PROVE  \/ Finish /\ phase' = "idle"
                    \/ UNCHANGED <<vars, outcome, seen, untrusted>>
  OBVIOUS
<1> USE DEF noteVars
<1>1. CASE ToArchive \/ NextStage
  BY <1>1 DEF ToArchive, NextStage, Enter
<1>2. CASE StageFailed \/ TestsDone
  BY <1>2 DEF StageFailed, TestsDone, Finish, End
<1>3. ASSUME NEW l \in Libraries, Archive(l) PROVE UNCHANGED <<vars, outcome, seen, untrusted>>
  BY <1>3 DEF Archive, JobSucceeds
<1>4. ASSUME NEW e \in Executables, Link(e) PROVE UNCHANGED <<vars, outcome, seen, untrusted>>
  BY <1>4 DEF Link, JobSucceeds
<1>5. ASSUME NEW t \in Tests, RunTest(t) PROVE UNCHANGED <<vars, outcome, seen, untrusted>>
  BY <1>5 DEF RunTest, JobSucceeds
<1>6. ASSUME NEW s \in Stages,
             StageReturns(s) \/ \E x \in StageItems(s) : BeginJob(s, x) \/ JobThrows(s, x)
      PROVE  UNCHANGED <<vars, outcome, seen, untrusted>>
  BY <1>6 DEF StageReturns, BeginJob, JobThrows
<1> QED
  BY <1>1, <1>2, <1>3, <1>4, <1>5, <1>6 DEF LaterPhases

(* While a build runs, its history follows the inputs. *)
LEMMA SeenFollows ==
  ASSUME [BuildNext]_allVars, phase # "idle", phase' # "idle"
  PROVE  /\ UNCHANGED untrusted
         /\ \/ UNCHANGED <<edits, mtime, seen>>
            \/ /\ WorldStep
               /\ seen' = [i \in Inputs |-> seen[i] \cup {mtime'[i]}]
<1>1. CASE CompilePhase
  BY <1>1, BuildStepsKeepInputs DEF CompilePhase, noteVars
<1>2. CASE LaterPhases
  BY <1>2, LaterPhasesKeepHistory DEF vars, worldVars
<1>3. CASE World
  BY <1>3 DEF World
<1>4. CASE UNCHANGED allVars
  BY <1>4 DEF allVars, vars, worldVars, noteVars
<1> QED
  BY <1>1, <1>2, <1>3, <1>4 DEF BuildNext

(* A build begins with the versions it finds. *)
LEMMA BuildBegins ==
  ASSUME [BuildNext]_allVars, phase = "idle", phase' # "idle"
  PROVE  /\ Plan /\ UNCHANGED <<binVars, stageVars>> /\ stage = "none"
         /\ seen' = [i \in Inputs |-> {mtime[i]}]
         /\ untrusted' = unrecorded
<1>1. CASE CompilePhase
  <2>1. BuildStep => Plan
    BY DEF BuildStep, Plan, BatchReturns, RecordRolledBack, RecordCommitted, Begin, Skip, Compile,
           CompileThrows
  <2> QED
    BY <1>1, <2>1 DEF CompilePhase
<1>2. CASE LaterPhases
  BY <1>2, LaterPhasesKeepHistory DEF vars
<1>3. CASE World
  <2>1. WorldStep => UNCHANGED phase
    BY DEF WorldStep, Cancel, Killed, Edit, Delete, Revert, SetMtime, RemoveObject, SetCommand
  <2> QED
    BY <1>3, <2>1 DEF World
<1>4. CASE UNCHANGED allVars
  BY <1>4 DEF allVars, vars
<1> QED
  BY <1>1, <1>2, <1>3, <1>4 DEF BuildNext

(* The history knows the present. *)
SeenNow == phase # "idle" => \A i \in Inputs : mtime[i] \in seen[i]

LEMMA NextSeenNow == SeenNow /\ [BuildNext]_allVars => SeenNow'
<1> SUFFICES ASSUME SeenNow, [BuildNext]_allVars, phase' # "idle",
                    NEW i \in Inputs
             PROVE  mtime'[i] \in seen'[i]
  BY DEF SeenNow
<1>1. CASE phase = "idle"
  BY <1>1, BuildBegins DEF Plan, worldVars
<1>2. CASE phase # "idle"
  BY <1>2, SeenFollows DEF SeenNow
<1> QED
  BY <1>1, <1>2
-----------------------------------------------------------------------------
(* Incremental builds converge. *)

(* An input that did not change since the build started is older than      *)
(* every compilation of the build.                                         *)
Untouched ==
    \A o \in Outputs :
        IF phase = "idle"
        THEN started[o] = Absent
        ELSE \A i \in Inputs :
                started[o] # Absent /\ seen[i] = {mtime[i]} => mtime[i] < started[o]

(* An input never gets the time it has. *)
LEMMA ChangeIsSeen ==
  ASSUME TypeOK, Times, WorldStep
  PROVE  /\ phase' = "idle" \/ UNCHANGED started
         /\ \/ UNCHANGED <<edits, mtime>>
            \/ \E i \in Inputs : /\ mtime'[i] # mtime[i]
                                 /\ \A j \in Inputs \ {i} : mtime'[j] = mtime[j]
<1> USE DEF worldVars, storeVars, localVars
<1>1. CASE Cancel \/ Killed
  BY <1>1 DEF Cancel, Killed, End
<1>2. ASSUME NEW i \in Inputs, Edit(i) \/ Delete(i) \/ Revert(i)
      PROVE  /\ UNCHANGED started /\ mtime'[i] # mtime[i]
             /\ \A j \in Inputs \ {i} : mtime'[j] = mtime[j]
  <2>1. UNCHANGED started /\ \A j \in Inputs \ {i} : mtime'[j] = mtime[j]
    BY <1>2 DEF TypeOK, Edit, Delete, Revert, SetMtime
  <2>2. ASSUME Edit(i) PROVE mtime'[i] # mtime[i]
    <3>1. mtime'[i] = EditTime(edits + 1)
      BY <2>2 DEF TypeOK, Edit, SetMtime
    <3>2. edits \in Nat
      BY CompileAllAssumption DEF TypeOK
    <3>3. mtime[i] # EditTime(edits + 1)
      BY <3>2 DEF Times, Absent, EditTime
    <3> QED
      BY <3>1, <3>3
  <2>3. ASSUME Delete(i) \/ Revert(i) PROVE mtime'[i] # mtime[i]
    BY <2>3 DEF TypeOK, Delete, Revert, SetMtime
  <2>4. mtime'[i] # mtime[i]
    BY <1>2, <2>2, <2>3
  <2> QED
    BY <2>1, <2>4
<1>3. ASSUME NEW o \in Outputs, RemoveObject(o)
      PROVE  UNCHANGED <<started, edits, mtime>>
  BY <1>3 DEF RemoveObject
<1>4. ASSUME NEW c \in Commands, SetCommand(c)
      PROVE  UNCHANGED <<started, edits, mtime>>
  BY <1>4 DEF SetCommand
<1> QED
  BY <1>1, <1>2, <1>3, <1>4 DEF WorldStep

(* A compilation starts after everything that was there, ... *)
LEMMA StartedBefore ==
  ASSUME TypeOK, Times, [BuildNext]_allVars, phase' # "idle", NEW o \in Outputs, NEW i \in Inputs
  PROVE  started'[o] = started[o] \/ mtime[i] < started'[o]
<1> USE DEF worldVars, storeVars, localVars
<1>1. [Next]_vars
  BY BuildStepsAreCompileAllSteps
<1>2. ASSUME Plan \/ BatchReturns \/ RecordRolledBack \/ RecordCommitted \/ Finish
      PROVE  UNCHANGED started
  BY <1>2 DEF Plan, BatchReturns, RecordRolledBack, RecordCommitted, Finish, End
<1>3. ASSUME NEW p \in Outputs, Begin(p), started'[o] # started[o]
      PROVE  mtime[i] < started'[o]
  <2>1. started'[o] = StartTime(edits)
    BY <1>3 DEF TypeOK, Begin
  <2>2. edits \in Nat
    BY CompileAllAssumption DEF TypeOK
  <2>3. mtime[i] < StartTime(edits)
    BY <2>2 DEF Times, Absent, EditTime, StartTime
  <2> QED
    BY <2>1, <2>3
<1>4. ASSUME NEW p \in Outputs, Skip(p) \/ Compile(p) \/ CompileThrows(p)
      PROVE  UNCHANGED started
  BY <1>4 DEF Skip, Compile, CompileThrows
<1>5. WorldStep => UNCHANGED started
  BY ChangeIsSeen
<1>6. CASE UNCHANGED vars
  BY <1>6 DEF vars
<1> QED
  BY <1>1, <1>2, <1>3, <1>4, <1>5, <1>6 DEF Next, BuildStep

(* ... and nothing is left of it when the build is over. *)
LEMMA IdleHasNothingStarted ==
  ASSUME [BuildNext]_allVars, phase' = "idle"
  PROVE  End \/ (phase = "idle" /\ UNCHANGED started)
<1> USE DEF worldVars, storeVars, localVars
<1>1. [Next]_vars
  BY BuildStepsAreCompileAllSteps
<1>2. CASE Plan \/ BatchReturns \/ RecordRolledBack \/ RecordCommitted \/ Finish
  BY <1>2 DEF Plan, BatchReturns, RecordRolledBack, RecordCommitted, Finish
<1>3. ASSUME NEW o \in Outputs, Begin(o) \/ Skip(o) \/ Compile(o) \/ CompileThrows(o)
      PROVE  phase' # "idle"
  BY <1>3 DEF Begin, Skip, Compile, CompileThrows
<1>4. CASE Cancel \/ Killed
  BY <1>4 DEF Cancel, Killed
<1>5. ASSUME NEW i \in Inputs, Edit(i) \/ Delete(i) \/ Revert(i)
      PROVE  UNCHANGED <<phase, started>>
  BY <1>5 DEF Edit, Delete, Revert, SetMtime
<1>6. ASSUME NEW o \in Outputs, RemoveObject(o) PROVE UNCHANGED <<phase, started>>
  BY <1>6 DEF RemoveObject
<1>7. ASSUME NEW c \in Commands, SetCommand(c) PROVE UNCHANGED <<phase, started>>
  BY <1>7 DEF SetCommand
<1>8. CASE UNCHANGED vars
  BY <1>8 DEF vars
<1> QED
  BY <1>1, <1>2, <1>3, <1>4, <1>5, <1>6, <1>7, <1>8 DEF Next, BuildStep, WorldStep

LEMMA NextUntouched ==
  TypeOK /\ Times /\ SeenNow /\ Untouched /\ [BuildNext]_allVars => Untouched'
<1> SUFFICES ASSUME TypeOK, Times, SeenNow, Untouched, [BuildNext]_allVars,
                    NEW o \in Outputs
             PROVE  IF phase' = "idle"
                    THEN started'[o] = Absent
                    ELSE \A i \in Inputs :
                            started'[o] # Absent /\ seen'[i] = {mtime'[i]}
                                => mtime'[i] < started'[o]
  BY DEF Untouched
<1>1. ASSUME phase' = "idle" PROVE started'[o] = Absent
  BY <1>1, IdleHasNothingStarted DEF Untouched, End, NotStarted
<1>2. ASSUME phase' # "idle", phase = "idle" PROVE started'[o] = Absent
  BY <1>2, BuildBegins DEF Plan, Untouched
<1>3. ASSUME phase' # "idle", phase # "idle", NEW i \in Inputs,
             started'[o] # Absent, seen'[i] = {mtime'[i]}
      PROVE  mtime'[i] < started'[o]
  <2>1. CASE UNCHANGED <<edits, mtime, seen>>
    <3>1. started'[o] = started[o] \/ mtime[i] < started'[o]
      BY <1>3, StartedBefore
    <3> QED
      BY <1>3, <2>1, <3>1 DEF Untouched
  <2>2. CASE WorldStep /\ seen' = [j \in Inputs |-> seen[j] \cup {mtime'[j]}]
    <3>1. UNCHANGED started
      BY <1>3, <2>2, ChangeIsSeen
    <3>2. seen[i] \cup {mtime'[i]} = {mtime'[i]} /\ mtime[i] \in seen[i]
      BY <1>3, <2>2 DEF SeenNow
    <3>3. mtime'[i] = mtime[i] /\ seen[i] = {mtime[i]}
      BY <3>2
    <3> QED
      BY <1>3, <3>1, <3>3 DEF Untouched
  <2> QED
    BY <1>3, <2>1, <2>2, SeenFollows
<1> QED
  BY <1>1, <1>2, <1>3

LEMMA InitConverges == BuildInit => SeenNow /\ Untouched
  BY DEF BuildInit, Init, SeenNow, Untouched, NotStarted, Absent

(* What is recorded of an unchanged input is its time. *)
LEMMA RecordedIsUpToDate ==
  ASSUME TypeOK, Tickets, Untouched, RecordCommitted, \A i \in Inputs : seen[i] = {mtime[i]},
         NEW o \in newDeps, object[o] # None
  PROVE  UpToDate(o)'
<1> USE CompileAllAssumption
<1>1. /\ o \in Outputs /\ Reads[o] \subseteq Inputs /\ Compilable(o)
      /\ UNCHANGED <<object, mtime, command>>
      /\ db'[o] = DepsInfo(o)
      /\ started[o] # Absent /\ phase # "idle"
  BY DEF TypeOK, Tickets, RecordCommitted, worldVars
<1>2. \A i \in Reads[o] : PrevMtime(i, o) = mtime[i]
  BY <1>1 DEF Untouched, PrevMtime
<1>3. db'[o] # None
  BY <1>1, DepsInfoIsRecord, NoneIsNoRecord
<1>4. NewerInputs(o)' = {}
  BY <1>1, <1>2 DEF NewerInputs, DepsInfo, Compilable
<1> QED
  BY <1>1, <1>3, <1>4 DEF UpToDate, DepsInfo

(* Only a commit changes the database. *)
LEMMA OnlyCommitsRecord ==
  ASSUME [BuildNext]_allVars, db' # db
  PROVE  RecordCommitted
<1> USE DEF worldVars, storeVars, localVars
<1>1. [Next]_vars
  BY BuildStepsAreCompileAllSteps
<1>2. ASSUME Plan \/ BatchReturns \/ RecordRolledBack \/ Finish \/ Cancel \/ Killed
      PROVE  UNCHANGED db
  BY <1>2 DEF Plan, BatchReturns, RecordRolledBack, Finish, Cancel, Killed
<1>3. ASSUME NEW o \in Outputs,
             Begin(o) \/ Skip(o) \/ Compile(o) \/ CompileThrows(o) \/ RemoveObject(o)
      PROVE  UNCHANGED db
  BY <1>3 DEF Begin, Skip, Compile, CompileThrows, RemoveObject
<1>4. ASSUME NEW i \in Inputs, Edit(i) \/ Delete(i) \/ Revert(i) PROVE UNCHANGED db
  BY <1>4 DEF Edit, Delete, Revert, SetMtime
<1>5. ASSUME NEW c \in Commands, SetCommand(c) PROVE UNCHANGED db
  BY <1>5 DEF SetCommand
<1>6. CASE UNCHANGED vars
  BY <1>6 DEF vars
<1> QED
  BY <1>1, <1>2, <1>3, <1>4, <1>5, <1>6 DEF Next, BuildStep, WorldStep

(* If no input changed since the build started, what it compiled and       *)
(* recorded is up to date: the next build does not compile it again, in    *)
(* whatever order, and with whatever failures, the batch ran.              *)
THEOREM BuildsConverge == BuildSpec => NextBuildSkipsWhatWasRecorded
<1> DEFINE Inv == TypeOK /\ Times /\ Tickets /\ SeenNow /\ Untouched
<1>1. BuildInit => Inv
  BY InitTypeOK, InitIInv, InitConverges DEF BuildInit, IInv
<1>2. Inv /\ [BuildNext]_allVars => Inv'
  BY BuildStepsAreCompileAllSteps, NextTypeOK, NextTimes, NextTickets, NextSeenNow, NextUntouched
<1>3. Inv /\ [BuildNext]_allVars =>
        [phase = "record" /\ db' # db /\ (\A i \in Inputs : seen[i] = {mtime[i]})
            => \A o \in newDeps : object[o] # None => UpToDate(o)']_allVars
  BY OnlyCommitsRecord, RecordedIsUpToDate
<1> QED
  BY <1>1, <1>2, <1>3, PTL DEF BuildSpec, NextBuildSkipsWhatWasRecorded
-----------------------------------------------------------------------------
(* What a build links goes back, by way of the archives, to objects that   *)
(* were current when their tickets were made, or that this build compiled; *)
(* no object is touched again before the build ends, and the history       *)
(* `seen` only grows while it runs.                                        *)

(* compile_all answers TRUE when every ticket ended well. *)
CompilePhased ==
    /\ phase = "idle" => status = AllPending
    /\ phase \in {"record", "compiled"} =>
           /\ result \in BOOLEAN
           /\ result = TRUE => \A o \in Outputs : status[o] = "ok"
    /\ phase = "compiled" => result = TRUE

LEMMA NextCompilePhased == TypeOK /\ CompilePhased /\ [Next]_vars => CompilePhased'
<1> SUFFICES ASSUME TypeOK, CompilePhased, [Next]_vars PROVE CompilePhased'
  OBVIOUS
<1> USE DEF worldVars, storeVars, localVars
<1>1. ASSUME End PROVE CompilePhased'
  BY <1>1 DEF CompilePhased, End
<1>2. ASSUME UNCHANGED <<phase, status, result>> PROVE CompilePhased'
  BY <1>2 DEF CompilePhased
<1>3. ASSUME phase' = "compile" PROVE CompilePhased'
  BY <1>3 DEF CompilePhased
<1>4. CASE BatchReturns
  BY <1>4 DEF CompilePhased, BatchReturns, Batch!Return, Batch!Failed
<1>5. CASE RecordCommitted
  BY <1>1, <1>5 DEF CompilePhased, RecordCommitted
<1>6. CASE RecordRolledBack \/ Finish \/ Killed
  BY <1>1, <1>6 DEF RecordRolledBack, Finish, Killed
<1>7. CASE Plan
  BY <1>3, <1>7 DEF Plan
<1>8. ASSUME NEW o \in Outputs, Begin(o) \/ Skip(o) \/ Compile(o) \/ CompileThrows(o)
      PROVE  CompilePhased'
  BY <1>3, <1>8 DEF Begin, Skip, Compile, CompileThrows
<1>9. CASE Cancel
  BY <1>2, <1>9 DEF Cancel
<1>10. ASSUME NEW i \in Inputs, Edit(i) \/ Delete(i) \/ Revert(i) PROVE CompilePhased'
  BY <1>2, <1>10 DEF Edit, Delete, Revert, SetMtime
<1>11. ASSUME NEW o \in Outputs, RemoveObject(o) PROVE CompilePhased'
  BY <1>2, <1>11 DEF RemoveObject
<1>12. ASSUME NEW c \in Commands, SetCommand(c) PROVE CompilePhased'
  BY <1>2, <1>12 DEF SetCommand
<1>13. CASE UNCHANGED vars
  BY <1>2, <1>13 DEF vars
<1> QED
  BY <1>4, <1>5, <1>6, <1>7, <1>8, <1>9, <1>10, <1>11, <1>12, <1>13 DEF Next, BuildStep, WorldStep

(* An object that is skipped is current, and so is one just compiled. *)
TicketsCurrent ==
    phase # "idle" =>
        \A o \in Outputs \ untrusted :
            ~needs[o] \/ status[o] = "ok" => Current(object[o], o)

(* A ticket is made for an object that is not current ... *)
LEMMA SkippedTicketsAreCurrent ==
  ASSUME IInv, CompilePhased, [BuildNext]_allVars, phase = "idle", phase' # "idle"
  PROVE  TicketsCurrent'
<1>1. Plan /\ untrusted' = unrecorded /\ seen' = [i \in Inputs |-> {mtime[i]}]
  BY BuildBegins
<1>2. SUFFICES ASSUME NEW o \in Outputs \ unrecorded, ~needs'[o] \/ status'[o] = "ok"
               PROVE  Current(object[o], o)'
  BY <1>1 DEF TicketsCurrent, Plan, storeVars
<1>3. status'[o] # "ok"
  BY <1>1 DEF CompilePhased, AllPending, Plan
<1>4. UpToDate(o) /\ UNCHANGED <<object, command, mtime>>
  BY <1>1, <1>2, <1>3 DEF Plan, worldVars, storeVars
<1>5. object[o] = Fresh(o)
  BY <1>2, <1>4, IInvImpliesCurrent DEF SkippedIsCurrent
<1>6. Reads[o] \subseteq Inputs
  BY <1>2, CompileAllAssumption
<1> QED
  BY <1>1, <1>4, <1>5, <1>6 DEF Current, Fresh

(* ... and a compilation makes one that is. *)
LEMMA CompiledIsCurrent ==
  ASSUME TypeOK, TicketsCurrent, [Next]_vars, phase # "idle", phase' # "idle",
         NEW o \in Outputs \ untrusted, ~needs'[o] \/ status'[o] = "ok"
  PROVE  \/ object'[o] = Fresh(o)
         \/ object'[o] = object[o] /\ Current(object[o], o)
<1> USE DEF worldVars, storeVars, localVars
<1>1. ASSUME UNCHANGED <<object, needs, status>>
      PROVE  object'[o] = object[o] /\ Current(object[o], o)
  BY <1>1 DEF TicketsCurrent
<1>2. CASE BatchReturns \/ RecordCommitted
  BY <1>1, <1>2 DEF BatchReturns, RecordCommitted, Batch!Return, End
<1>3. CASE Plan \/ Finish \/ RecordRolledBack \/ Killed
  BY <1>3 DEF Plan, Finish, RecordRolledBack, Killed, End
<1>4. CASE Cancel
  BY <1>1, <1>4 DEF Cancel
<1>5. ASSUME NEW p \in Outputs, Begin(p) \/ Skip(p)
      PROVE  object'[o] = object[o] /\ Current(object[o], o)
  BY <1>5 DEF TypeOK, TicketsCurrent, Begin, Skip, Batch!Begin, Batch!Succeed, Batch!Become
<1>6. ASSUME NEW p \in Outputs, Compile(p)
      PROVE  object'[o] = Fresh(o) \/ (object'[o] = object[o] /\ Current(object[o], o))
  BY <1>6 DEF TypeOK, TicketsCurrent, Compile, Write, Batch!Succeed, Batch!Become
<1>7. ASSUME NEW p \in Outputs, CompileThrows(p)
      PROVE  object'[o] = object[o] /\ Current(object[o], o)
  BY <1>7 DEF TypeOK, TicketsCurrent, CompileThrows, Write, Batch!Throw, Batch!Become
<1>8. ASSUME NEW i \in Inputs, Edit(i) \/ Delete(i) \/ Revert(i)
      PROVE  object'[o] = object[o] /\ Current(object[o], o)
  BY <1>1, <1>8 DEF Edit, Delete, Revert, SetMtime
<1>9. ASSUME NEW p \in Outputs, RemoveObject(p) PROVE FALSE
  BY <1>9 DEF RemoveObject
<1>10. ASSUME NEW c \in Commands, SetCommand(c) PROVE FALSE
  BY <1>10 DEF SetCommand
<1>11. CASE UNCHANGED vars
  BY <1>1, <1>11 DEF vars
<1> QED
  BY <1>2, <1>3, <1>4, <1>5, <1>6, <1>7, <1>8, <1>9, <1>10, <1>11 DEF Next, BuildStep, WorldStep

(* What is current stays so until the build ends. *)
LEMMA CurrentStays ==
  ASSUME [BuildNext]_allVars, phase # "idle", phase' # "idle", NEW c, NEW o \in Outputs, Current(c, o)
  PROVE  Current(c, o)'
<1>1. UNCHANGED command
  BY BuildStepsAreCompileAllSteps, StepsKeepCommand
<1>2. \A i \in Inputs : seen[i] \subseteq seen'[i]
  BY SeenFollows
<1>3. Reads[o] \subseteq Inputs
  BY CompileAllAssumption
<1> QED
  BY <1>1, <1>2, <1>3 DEF Current
LEMMA NextTicketsCurrent ==
  IInv /\ CompilePhased /\ SeenNow /\ TicketsCurrent /\ [BuildNext]_allVars => TicketsCurrent'
<1> SUFFICES ASSUME IInv, CompilePhased, SeenNow, TicketsCurrent, [BuildNext]_allVars,
                    phase # "idle", phase' # "idle",
                    NEW o \in Outputs \ untrusted, ~needs'[o] \/ status'[o] = "ok"
             PROVE  Current(object[o], o)'
  BY SkippedTicketsAreCurrent, SeenFollows DEF TicketsCurrent
<1>1. Current(Fresh(o), o)
  BY CompileAllAssumption DEF SeenNow, Current, Fresh
<1>2. object'[o] = Fresh(o) \/ (object'[o] = object[o] /\ Current(object[o], o))
  BY BuildStepsAreCompileAllSteps, CompiledIsCurrent DEF IInv
<1> QED
  BY <1>1, <1>2, CurrentStays DEF Current

(* No object changes after the compile phase. *)
LEMMA CompiledObjectsStay ==
  ASSUME [Next]_vars, phase = "compiled", phase' # "idle"
  PROVE  phase' = "compiled" /\ UNCHANGED object
<1> USE DEF worldVars, storeVars, localVars
<1>1. ~BuildStep
  BY DEF BuildStep, Plan, BatchReturns, RecordRolledBack, RecordCommitted, Begin, Skip, Compile,
         CompileThrows
<1>2. CASE Finish \/ Killed
  BY <1>2 DEF Finish, Killed, End
<1>3. CASE Cancel
  BY <1>3 DEF Cancel
<1>4. ASSUME NEW i \in Inputs, Edit(i) \/ Delete(i) \/ Revert(i)
      PROVE  UNCHANGED <<phase, object>>
  BY <1>4 DEF Edit, Delete, Revert, SetMtime
<1>5. ASSUME NEW o \in Outputs, RemoveObject(o) PROVE FALSE
  BY <1>5 DEF RemoveObject
<1>6. ASSUME NEW c \in Commands, SetCommand(c) PROVE FALSE
  BY <1>6 DEF SetCommand
<1>7. CASE UNCHANGED vars
  BY <1>7 DEF vars
<1> QED
  BY <1>1, <1>2, <1>3, <1>4, <1>5, <1>6, <1>7 DEF Next, WorldStep

(* A later phase runs after a compile phase that ended well, and ends well *)
(* itself when all its jobs did.                                           *)
StagePhased ==
    /\ stage \in Stages \cup {"none"}
    /\ stage \in Stages => /\ phase = "compiled"
                           /\ jobs \in [StageItems(stage) -> Batch!Status]
                           /\ answer \in BOOLEAN \cup {None}
                           /\ answer = TRUE => \A x \in StageItems(stage) : jobs[x] = "ok"
    /\ DOMAIN archive = Libraries
    /\ DOMAIN exe = Executables

LEMMA OverStagePhased == ASSUME StagePhased, Over("ok") \/ Over("failed") PROVE StagePhased'
  BY DEF StagePhased, Over, Aged, Stages

LEMMA EnterStagePhased ==
  ASSUME StagePhased, phase = "compiled", NEW s \in Stages, Enter(s)
  PROVE  StagePhased'
<1> USE DEF Enter, vars, binVars
<1>1. jobs' \in [StageItems(s) -> Batch!Status]
  BY DEF Batch!Status
<1>2. answer' = None /\ stage' = s /\ phase' = "compiled"
  OBVIOUS
<1>3. DOMAIN archive' = Libraries /\ DOMAIN exe' = Executables
  BY DEF StagePhased
<1>4. StageItems(stage)' = StageItems(s)
  BY <1>2 DEF StageItems
<1> QED
  BY <1>1, <1>2, <1>3, <1>4, CompileAllAssumption DEF StagePhased

(* What the jobs of a phase do to it. *)
LEMMA JobsStagePhased ==
  ASSUME StagePhased, NEW s \in Stages, stage = s, UNCHANGED <<vars, stage>>,
         \/ Run(s)!Return
         \/ \E x \in StageItems(s) : Run(s)!Begin(x) \/ Run(s)!Throw(x) \/ Run(s)!Succeed(x),
         DOMAIN archive' = Libraries, DOMAIN exe' = Executables
  PROVE  StagePhased'
<1>1. /\ phase' = "compiled" /\ stage' = s
      /\ StageItems(stage)' = StageItems(s)
      /\ jobs \in [StageItems(s) -> Batch!Status] /\ answer \in BOOLEAN \cup {None}
      /\ answer = TRUE => \A x \in StageItems(s) : jobs[x] = "ok"
  BY DEF StagePhased, vars, StageItems
<1>2. CASE Run(s)!Return
  <2>1. jobs' = jobs /\ answer' \in BOOLEAN
    BY <1>2 DEF Run!Return, Run!Failed
  <2>2. answer' = TRUE => \A x \in StageItems(s) : jobs[x] = "ok"
    BY <1>2 DEF Run!Return, Run!Failed
  <2> QED
    BY <1>1, <2>1, <2>2 DEF StagePhased
<1>3. ASSUME NEW x \in StageItems(s), Run(s)!Begin(x) \/ Run(s)!Throw(x) \/ Run(s)!Succeed(x)
      PROVE  StagePhased'
  <2>1. /\ jobs[x] # "ok" /\ answer' = answer
        /\ jobs' \in [StageItems(s) -> Batch!Status]
    BY <1>1, <1>3 DEF Run!Begin, Run!Throw, Run!Succeed, Run!Become, Batch!Status
  <2>2. answer' # TRUE
    BY <1>1, <2>1
  <2> QED
    BY <1>1, <2>1, <2>2 DEF StagePhased
<1> QED
  BY <1>2, <1>3
(* A step of the whole build is one of five kinds. *)
LEMMA BuildStepKinds ==
  ASSUME [BuildNext]_allVars
  PROVE  \/ Over("ok") \/ Over("failed")
         \/ UNCHANGED <<binVars, stageVars>> /\ (phase = "compiled" => phase' = "compiled")
         \/ ToArchive \/ NextStage
         \/ \E s \in Stages : StageReturns(s)
         \/ \E s \in Stages : \E x \in StageItems(s) : BeginJob(s, x) \/ JobThrows(s, x)
         \/ \E l \in Libraries : Archive(l)
         \/ \E e \in Executables : Link(e)
         \/ \E t \in Tests : RunTest(t)
<1>1. [Next]_vars
  BY BuildStepsAreCompileAllSteps
<1>2. phase = "compiled" /\ phase' # "idle" => phase' = "compiled"
  BY <1>1, CompiledObjectsStay
<1>3. CASE CompilePhase
  BY <1>2, <1>3 DEF CompilePhase
<1>4. CASE LaterPhases
  BY <1>4 DEF LaterPhases, StageFailed, TestsDone
<1>5. CASE World
  <2>1. WorldStep /\ phase = "idle" => UNCHANGED phase
    BY DEF WorldStep, Cancel, Killed, Edit, Delete, Revert, SetMtime, RemoveObject, SetCommand
  <2> QED
    BY <1>2, <1>5, <2>1 DEF World
<1>6. CASE UNCHANGED allVars
  BY <1>6 DEF allVars, vars
<1> QED
  BY <1>3, <1>4, <1>5, <1>6 DEF BuildNext

LEMMA NextStagePhased == StagePhased /\ [BuildNext]_allVars => StagePhased'
<1> SUFFICES ASSUME StagePhased, [BuildNext]_allVars PROVE StagePhased'
  OBVIOUS
<1>1. CASE Over("ok") \/ Over("failed")
  BY <1>1, OverStagePhased
<1>2. CASE UNCHANGED <<binVars, stageVars>> /\ (phase = "compiled" => phase' = "compiled")
  BY <1>2 DEF StagePhased, binVars, stageVars, StageItems
<1>3. CASE ToArchive
  BY <1>3, EnterStagePhased DEF ToArchive, Stages
<1>4. CASE NextStage
  <2>1. PICK s \in Stages : Enter(s)
    BY <1>4 DEF NextStage, Stages
  <2> QED
    BY <1>4, <2>1, EnterStagePhased DEF NextStage, StagePhased, Stages
<1>5. ASSUME NEW s \in Stages,
             \/ StageReturns(s)
             \/ \E x \in StageItems(s) : BeginJob(s, x) \/ JobThrows(s, x)
      PROVE  StagePhased'
  <2>1. stage = s /\ UNCHANGED <<vars, stage>>
    BY <1>5 DEF StageReturns, BeginJob, JobThrows
  <2>2. DOMAIN archive' = Libraries /\ DOMAIN exe' = Executables
    BY <1>5 DEF StagePhased, StageReturns, BeginJob, JobThrows, binVars
  <2>3. \/ Run(s)!Return
        \/ \E x \in StageItems(s) : Run(s)!Begin(x) \/ Run(s)!Throw(x) \/ Run(s)!Succeed(x)
    BY <1>5 DEF StageReturns, BeginJob, JobThrows
  <2> QED
    BY <2>1, <2>2, <2>3, JobsStagePhased
<1>6. ASSUME NEW s \in Stages, NEW x \in StageItems(s), JobSucceeds(s, x),
             DOMAIN archive' = DOMAIN archive, DOMAIN exe' = DOMAIN exe
      PROVE  StagePhased'
  BY <1>6, JobsStagePhased DEF JobSucceeds, StagePhased
<1>7. ASSUME NEW l \in Libraries, Archive(l) PROVE StagePhased'
  BY <1>6, <1>7 DEF Archive, StageItems, Stages
<1>8. ASSUME NEW e \in Executables, Link(e) PROVE StagePhased'
  BY <1>6, <1>8 DEF Link, StageItems, Stages
<1>9. ASSUME NEW t \in Tests, RunTest(t) PROVE StagePhased'
  BY <1>6, <1>9 DEF RunTest, StageItems, Stages, binVars
<1> QED
  BY <1>1, <1>2, <1>3, <1>4, <1>5, <1>7, <1>8, <1>9, BuildStepKinds

(* Archives are made of current objects, executables of such archives. *)
MadeOfCurrent(l) == \A o \in Objects[l] \ untrusted : Current(archive[l][o], o)

StagesCurrent ==
    /\ stage = "archive" => \A l \in Libraries : jobs[l] = "ok" => MadeOfCurrent(l)
    /\ stage \in {"link", "test"} => \A l \in Libraries : MadeOfCurrent(l)
    /\ stage = "link" => \A e \in Executables : jobs[e] = "ok" => LinksCurrent(e)
    /\ stage = "test" => \A e \in Executables : LinksCurrent(e)

LEMMA MadeOfCurrentStays ==
  ASSUME [BuildNext]_allVars, phase # "idle", phase' # "idle",
         NEW l \in Libraries, MadeOfCurrent(l), archive'[l] = archive[l]
  PROVE  MadeOfCurrent(l)'
<1>1. Objects[l] \subseteq Outputs /\ UNCHANGED untrusted
  BY BuildAssumption, SeenFollows
<1> QED
  BY <1>1, CurrentStays DEF MadeOfCurrent, Current

LEMMA LinksCurrentStays ==
  ASSUME [BuildNext]_allVars, phase # "idle", phase' # "idle",
         NEW e \in Executables, LinksCurrent(e), exe'[e] = exe[e]
  PROVE  LinksCurrent(e)'
<1>1. /\ Entry[e] \in Outputs /\ UNCHANGED untrusted
      /\ \A l \in Links[e] : Objects[l] \subseteq Outputs
  BY BuildAssumption, SeenFollows
<1>2. Entry[e] \notin untrusted => Current(exe[e].entry, Entry[e])'
  BY <1>1, CurrentStays DEF LinksCurrent, Current
<1>3. \A l \in Links[e] : \A o \in Objects[l] \ untrusted : Current(exe[e].libs[l][o], o)'
  BY <1>1, CurrentStays DEF LinksCurrent, Current
<1> QED
  BY <1>1, <1>2, <1>3 DEF LinksCurrent
(* After the compile phase every object that can be trusted is current. *)
LEMMA CompiledObjectsAreCurrent ==
  ASSUME CompilePhased, TicketsCurrent, phase = "compiled", NEW o \in Outputs \ untrusted
  PROVE  Current(object[o], o)
  BY DEF CompilePhased, TicketsCurrent

LEMMA NextStagesCurrent ==
  CompilePhased /\ TicketsCurrent /\ StagePhased /\ StagesCurrent /\ [BuildNext]_allVars
    => StagesCurrent'
<1> SUFFICES ASSUME CompilePhased, TicketsCurrent, StagePhased, StagesCurrent, [BuildNext]_allVars
             PROVE  StagesCurrent'
  OBVIOUS
<1>0. stage \in Stages => phase = "compiled"
  BY DEF StagePhased
<1>1. CASE Over("ok") \/ Over("failed")
  BY <1>1 DEF StagesCurrent, Over
<1>2. ASSUME stage \in Stages, phase' = "compiled", UNCHANGED <<archive, exe, jobs, stage>>
      PROVE  StagesCurrent'
  <2>1. \A l \in Libraries : MadeOfCurrent(l) => MadeOfCurrent(l)'
    BY <1>0, <1>2, MadeOfCurrentStays
  <2>2. \A e \in Executables : LinksCurrent(e) => LinksCurrent(e)'
    BY <1>0, <1>2, LinksCurrentStays
  <2> QED
    BY <1>2, <2>1, <2>2 DEF StagesCurrent
<1>3. CASE UNCHANGED <<binVars, stageVars>> /\ (phase = "compiled" => phase' = "compiled")
  <2>1. CASE stage \in Stages
    BY <1>0, <1>2, <1>3, <2>1 DEF binVars, stageVars
  <2>2. CASE stage \notin Stages
    BY <1>3, <2>2 DEF stageVars, StagesCurrent, Stages
  <2> QED
    BY <2>1, <2>2
<1>4. CASE ToArchive
  BY <1>4 DEF ToArchive, Enter, StagesCurrent, StageItems
<1>5. CASE NextStage
  <2>1. phase = "compiled" /\ phase' = "compiled" /\ UNCHANGED <<archive, exe>>
    BY <1>0, <1>5 DEF NextStage, Enter, Stages, vars, binVars
  <2>2. \A x \in StageItems(stage) : jobs[x] = "ok"
    BY <1>5 DEF NextStage, StagePhased, Stages
  <2>3. \A l \in Libraries : MadeOfCurrent(l) => MadeOfCurrent(l)'
    BY <2>1, MadeOfCurrentStays
  <2>4. \A e \in Executables : LinksCurrent(e) => LinksCurrent(e)'
    BY <2>1, LinksCurrentStays
  <2>5. CASE stage = "archive"
    <3>1. stage' = "link" /\ jobs' = [x \in Executables |-> "pending"]
      BY <1>5, <2>5 DEF NextStage, Enter, StageItems
    <3> QED
      BY <2>2, <2>3, <2>5, <3>1 DEF StagesCurrent, StageItems
  <2>6. CASE stage = "link"
    <3>1. stage' = "test"
      BY <1>5, <2>6 DEF NextStage, Enter
    <3> QED
      BY <2>2, <2>3, <2>4, <2>6, <3>1 DEF StagesCurrent, StageItems
  <2> QED
    BY <1>5, <2>5, <2>6 DEF NextStage
<1>6. ASSUME NEW s \in Stages, StageReturns(s) PROVE StagesCurrent'
  BY <1>0, <1>2, <1>6 DEF StageReturns, Run!Return, vars, binVars
<1>7. ASSUME NEW s \in Stages, NEW x \in StageItems(s), BeginJob(s, x) \/ JobThrows(s, x)
      PROVE  StagesCurrent'
  <2>1. /\ stage = s /\ stage' = s /\ UNCHANGED exe
        /\ phase = "compiled" /\ phase' = "compiled"
    BY <1>0, <1>7 DEF BeginJob, JobThrows, vars, binVars
  <2>2. /\ jobs'[x] # "ok"
        /\ \A y \in StageItems(s) \ {x} : jobs'[y] = jobs[y]
    BY <1>7, <2>1 DEF StagePhased, BeginJob, JobThrows, Run!Begin, Run!Throw, Run!Become
  <2>3. \A l \in Libraries : l # x \/ s # "archive" => archive'[l] = archive[l]
    BY <1>7 DEF StagePhased, BeginJob, JobThrows, binVars
  <2>4. ASSUME NEW l \in Libraries, l # x \/ s # "archive", MadeOfCurrent(l) PROVE MadeOfCurrent(l)'
    BY <2>1, <2>3, <2>4, MadeOfCurrentStays
  <2>5. \A e \in Executables : LinksCurrent(e) => LinksCurrent(e)'
    BY <2>1, LinksCurrentStays
  <2> QED
    BY <2>1, <2>2, <2>4, <2>5 DEF StagesCurrent, StageItems
<1>8. ASSUME NEW l \in Libraries, Archive(l) PROVE StagesCurrent'
  <2>1. /\ stage = "archive" /\ stage' = "archive" /\ UNCHANGED <<vars, exe, untrusted>>
        /\ phase = "compiled"
    BY <1>0, <1>8 DEF Archive, JobSucceeds, noteVars, Stages
  <2>2. \A y \in Libraries \ {l} : jobs'[y] = jobs[y] /\ archive'[y] = archive[y]
    BY <1>8, <2>1 DEF StagePhased, Archive, JobSucceeds, Run!Succeed, Run!Become, Stages, StageItems
  <2>3. archive'[l] = [o \in Objects[l] |-> object[o]]
    BY <1>8 DEF StagePhased, Archive
  <2>4. MadeOfCurrent(l)'
    <3>1. ASSUME NEW o \in Objects[l] \ untrusted PROVE Current(archive[l][o], o)'
      <4>1. o \in Outputs \ untrusted
        BY BuildAssumption
      <4>2. Current(object[o], o) /\ archive'[l][o] = object[o]
        BY <2>1, <2>3, <4>1, CompiledObjectsAreCurrent
      <4>3. Current(object[o], o)'
        BY <1>8, <2>1, <4>2 DEF Archive, noteVars, Current, vars, worldVars, storeVars
      <4> QED
        BY <2>1, <4>2, <4>3 DEF Current, vars, storeVars
    <3> QED
      BY <2>1, <3>1 DEF MadeOfCurrent
  <2>5. \A y \in Libraries \ {l} : MadeOfCurrent(y) => MadeOfCurrent(y)'
    BY <2>1, <2>2, MadeOfCurrentStays DEF vars
  <2> QED
    BY <2>1, <2>2, <2>4, <2>5 DEF StagesCurrent
<1>9. ASSUME NEW e \in Executables, Link(e) PROVE StagesCurrent'
  <2>1. /\ stage = "link" /\ stage' = "link" /\ UNCHANGED <<vars, archive, seen, untrusted>>
        /\ phase = "compiled"
    BY <1>0, <1>9 DEF Link, JobSucceeds, noteVars, Stages
  <2>2. \A y \in Executables \ {e} : jobs'[y] = jobs[y] /\ exe'[y] = exe[y]
    BY <1>9, <2>1 DEF StagePhased, Link, JobSucceeds, Run!Succeed, Run!Become, Stages, StageItems
  <2>3. exe'[e] = [entry |-> object[Entry[e]], libs |-> [l \in Links[e] |-> archive[l]]]
    BY <1>9 DEF StagePhased, Link
  <2>4. \A l \in Libraries : MadeOfCurrent(l) /\ MadeOfCurrent(l)'
    BY <2>1, MadeOfCurrentStays DEF StagesCurrent, vars
  <2>5. LinksCurrent(e)'
    <3>1. Entry[e] \notin untrusted => Current(exe'[e].entry, Entry[e])
      BY <2>1, <2>3, BuildAssumption, CompiledObjectsAreCurrent
    <3>2. \A l \in Links[e] : \A o \in Objects[l] \ untrusted : Current(exe'[e].libs[l][o], o)
      BY <2>3, <2>4, BuildAssumption DEF MadeOfCurrent
    <3> QED
      BY <2>1, <3>1, <3>2 DEF LinksCurrent, Current, vars, worldVars
  <2>6. \A y \in Executables \ {e} : LinksCurrent(y) => LinksCurrent(y)'
    BY <2>1, <2>2, LinksCurrentStays DEF vars
  <2> QED
    BY <2>1, <2>2, <2>4, <2>5, <2>6 DEF StagesCurrent
<1>10. ASSUME NEW t \in Tests, RunTest(t) PROVE StagesCurrent'
  <2>1. /\ stage = "test" /\ stage' = "test" /\ UNCHANGED <<vars, archive, exe>>
        /\ phase = "compiled"
    BY <1>0, <1>10 DEF RunTest, JobSucceeds, binVars, Stages
  <2>2. \A l \in Libraries : MadeOfCurrent(l)'
    BY <2>1, MadeOfCurrentStays DEF StagesCurrent, vars
  <2>3. \A e \in Executables : LinksCurrent(e)'
    BY <2>1, LinksCurrentStays DEF StagesCurrent, vars
  <2> QED
    BY <2>1, <2>2, <2>3 DEF StagesCurrent
<1> QED
  BY <1>1, <1>3, <1>4, <1>5, <1>6, <1>7, <1>8, <1>9, <1>10, BuildStepKinds

(* A build succeeds when its tests are done. *)
LEMMA OnlyTestsSucceed ==
  ASSUME BuildNext, outcome' = "ok", outcome # "ok"
  PROVE  TestsDone
<1>1. CASE CompilePhase
  BY <1>1 DEF CompilePhase, Over, noteVars
<1>2. CASE LaterPhases
  BY <1>2 DEF LaterPhases, ToArchive, NextStage, Enter, StageFailed, Over, noteVars,
              Archive, Link, RunTest, StageReturns, BeginJob, JobThrows
<1>3. CASE World
  BY <1>3 DEF World, Over, noteVars
<1> QED
  BY <1>1, <1>2, <1>3 DEF BuildNext

LEMMA InitBuildIInv ==
  BuildInit => IInv /\ CompilePhased /\ SeenNow /\ TicketsCurrent /\ StagePhased /\ StagesCurrent
<1> SUFFICES ASSUME BuildInit
             PROVE  /\ IInv /\ CompilePhased /\ SeenNow /\ TicketsCurrent
                    /\ StagePhased /\ StagesCurrent
  OBVIOUS
<1>1. IInv
  BY InitIInv DEF BuildInit
<1>2. CompilePhased /\ SeenNow /\ TicketsCurrent
  BY DEF BuildInit, Init, Batch!Init, CompilePhased, SeenNow, TicketsCurrent, AllPending
<1>3. StagePhased /\ StagesCurrent
  BY DEF BuildInit, StagePhased, StagesCurrent, Stages
<1> QED
  BY <1>1, <1>2, <1>3

(* Whatever is edited, deleted or reverted while a build runs, and         *)
(* whatever builds before it failed, were interrupted or were killed: a    *)
(* build that succeeds has linked objects of its own command and of        *)
(* versions that existed while it ran.                                     *)
THEOREM SuccessfulBuildsLinkCurrentObjects ==
  ASSUME ~MoveOldFiles PROVE BuildSpec => SuccessLinksCurrentObjects
<1> DEFINE Inv == IInv /\ CompilePhased /\ SeenNow /\ TicketsCurrent /\ StagePhased /\ StagesCurrent
<1>1. BuildInit => Inv
  BY InitBuildIInv
<1>2. Inv /\ [BuildNext]_allVars => Inv'
  <2>1. IInv /\ [BuildNext]_allVars => IInv'
    BY BuildStepsAreCompileAllSteps, NextIInv
  <2>2. IInv /\ CompilePhased /\ [BuildNext]_allVars => CompilePhased'
    BY BuildStepsAreCompileAllSteps, NextCompilePhased DEF IInv
  <2> QED
    BY <2>1, <2>2, NextSeenNow, NextTicketsCurrent, NextStagePhased, NextStagesCurrent
<1>3. Inv /\ [BuildNext]_allVars =>
        [outcome' = "ok" /\ outcome # "ok" => \A e \in Executables : LinksCurrent(e)]_allVars
  BY OnlyTestsSucceed DEF TestsDone, StagesCurrent
<1> QED
  BY <1>1, <1>2, <1>3, PTL DEF BuildSpec, SuccessLinksCurrentObjects
=============================================================================
