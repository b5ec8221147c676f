----------------------------- MODULE CompileAll -----------------------------
(***************************************************************************)
(* The compile phase of a build, over any number of builds: the tickets    *)
(* made from the build database (mk_compile_ticket, get_prior_compilation),*)
(* their parallel execution (handle_compilation under parallel_run, here   *)
(* by its promise ItemBatch), and the one transaction that records what    *)
(* was compiled (update_deps_info).                                        *)
(*                                                                         *)
(* Around it the world moves: the user edits, deletes and reverts inputs,  *)
(* removes objects, switches the toolchain, interrupts a build (SIGINT) or *)
(* kills it. A version of an input is identified with the time it was      *)
(* written. Edits happen at even times and compilations start at odd ones: *)
(* a file time is never equal to the time a compilation started, which     *)
(* holds where file times are as fine as the clock.                        *)
(***************************************************************************)
EXTENDS Integers

CONSTANTS Outputs,     \* the object files of the plan
          Inputs,      \* sources and headers
          Reads,       \* Reads[o]: the inputs the compiler reads for o
          Commands,    \* quoted compile commands (toolchain, flags, tweaks)
          MaxEdits,    \* bound: changes to inputs
          MaxBuilds,   \* bound: builds started
          MoveOldFiles, \* may old files replace inputs while a batch runs?
          None         \* no object, no record, no answer

Absent == 0            \* the time of an input that does not exist
EditTime(n) == 2 * n + 2
StartTime(n) == 2 * n + 3
FirstTime == EditTime(0)

ASSUME CompileAllAssumption ==
    /\ Reads \in [Outputs -> (SUBSET Inputs) \ {{}}]
    /\ MaxEdits \in Nat
    /\ MaxBuilds \in Nat
    /\ MoveOldFiles \in BOOLEAN
    /\ None \notin BOOLEAN

VARIABLES
    edits,       \* how many times an input was changed
    mtime,       \* file times of the inputs
    command,     \* the compile command the configuration asks for
    object,      \* what is in each object file: what it was compiled from
    db,          \* the build database: bpt_compilations and bpt_compile_deps
    phase,       \* where the running build is; "idle" when there is none
    needs,       \* compile_ticket.needs_recompile
    started,     \* when each compilation started (compile_start_time)
    status,      \* of each ticket in the batch (ItemBatch)
    result,      \* parallel_run's answer
    newDeps,     \* all_new_deps: the outputs with new dependency information
    cancelled,   \* got_signal
    builds,      \* how many builds were started
    unrecorded   \* history: objects written since their record was

worldVars == <<edits, mtime, command>>
storeVars == <<object, db, unrecorded>>
localVars == <<needs, started, status, result, newDeps, cancelled>>
vars == <<worldVars, storeVars, phase, builds, localVars>>

Batch == INSTANCE ItemBatch WITH Items <- Outputs

Time == 0..StartTime(MaxEdits)

(* An object file: the command and the versions of the inputs it was       *)
(* compiled from. A compiler that is killed may leave a part of a file,    *)
(* compiled from nothing that can be named.                                *)
Contents(o) == [command : Commands, from : [Reads[o] -> Time]]
Damaged == [command |-> None]

(* A record: the command, and for each input the time it had when used. *)
Record(o) == [command : Commands, prev_mtime : [Reads[o] -> Time]]

ASSUME NoneIsNoRecord == \A o \in Outputs : None \notin Record(o)

Phases == {"idle", "compile", "record", "compiled"}

NoTickets == [o \in Outputs |-> FALSE]
NotStarted == [o \in Outputs |-> Absent]
AllPending == [o \in Outputs |-> "pending"]

Init == /\ edits = 0
        /\ mtime = [i \in Inputs |-> FirstTime]
        /\ command \in Commands
        /\ object = [o \in Outputs |-> None]
        /\ db = [o \in Outputs |-> None]
        /\ phase = "idle"
        /\ needs = NoTickets
        /\ started = NotStarted
        /\ Batch!Init
        /\ newDeps = {}
        /\ cancelled = FALSE
        /\ builds = 0
        /\ unrecorded = {}

(* What a build knows dies with it. *)
End == /\ phase' = "idle"
       /\ needs' = NoTickets
       /\ started' = NotStarted
       /\ status' = AllPending
       /\ result' = None
       /\ newDeps' = {}
       /\ cancelled' = FALSE
       /\ UNCHANGED builds
-----------------------------------------------------------------------------
(* get_prior_compilation's newer_inputs: an input is out of date when it   *)
(* is gone or has any other file time than the recorded one.               *)
NewerInputs(o) == {i \in Reads[o] : \/ mtime[i] = Absent
                                    \/ mtime[i] # db[o].prev_mtime[i]}

(* Mutation: the recorded command is not compared. *)
UpToDateUnderAnyCommand(o) == db[o] # None /\ object[o] # None /\ NewerInputs(o) = {}

(* mk_compile_ticket leaves needs_recompile FALSE. *)
UpToDate(o) == /\ db[o] # None
               /\ object[o] # None
               /\ NewerInputs(o) = {}
               /\ db[o].command = command

(* What a compilation of o makes now. *)
Fresh(o) == [command |-> command, from |-> [i \in Reads[o] |-> mtime[i]]]

Compilable(o) == \A i \in Reads[o] : mtime[i] # Absent
-----------------------------------------------------------------------------
(* A build starts: one ticket for each output, before anything runs. *)
Plan == /\ phase = "idle"
        /\ builds < MaxBuilds
        /\ builds' = builds + 1
        /\ phase' = "compile"
        /\ needs' = [o \in Outputs |-> ~UpToDate(o)]
        /\ UNCHANGED <<worldVars, storeVars, started, status, result, newDeps, cancelled>>

(* A worker takes a ticket; a compilation notes its start time. *)
Begin(o) == /\ phase = "compile"
            /\ Batch!Begin(o)
            /\ started' = [started EXCEPT ![o] = StartTime(edits)]
            /\ UNCHANGED <<worldVars, storeVars, phase, builds, needs, newDeps, cancelled>>

(* Nothing to do but repeat the warnings of the prior compilation. *)
Skip(o) == /\ phase = "compile"
           /\ ~needs[o]
           /\ Batch!Succeed(o)
           /\ UNCHANGED <<worldVars, storeVars, phase, builds, needs, started, newDeps, cancelled>>

(* The compiler writes the object. *)
Write(o) == /\ Compilable(o)
            /\ object' = [object EXCEPT ![o] = Fresh(o)]
            /\ unrecorded' = unrecorded \cup {o}

(* It may leave no usable dependency information (deps mode "none", no     *)
(* depfile, no /showIncludes notes).                                       *)
Compile(o) == /\ phase = "compile"
              /\ needs[o]
              /\ ~cancelled
              /\ Batch!Succeed(o)
              /\ Write(o)
              /\ newDeps' \in {newDeps, newDeps \cup {o}}
              /\ UNCHANGED <<worldVars, db, phase, builds, needs, started, cancelled>>

(* The compiler fails, and removes its output or leaves it alone; or it    *)
(* ran in vain: after a signal run_proc throws whatever the exit code was. *)
CompileThrows(o) ==
    /\ phase = "compile"
    /\ needs[o]
    /\ Batch!Throw(o)
    /\ \/ UNCHANGED <<object, unrecorded>>
       \/ object' = [object EXCEPT ![o] = None] /\ UNCHANGED unrecorded
       \/ cancelled /\ Write(o)
    /\ UNCHANGED <<worldVars, db, phase, builds, needs, started, newDeps, cancelled>>

BatchReturns == /\ phase = "compile"
                /\ Batch!Return
                /\ phase' = "record"
                /\ UNCHANGED <<worldVars, storeVars, builds, needs, started, newDeps, cancelled>>

(* Mutation: the file time is recorded as it is when the batch is over. *)
PrevMtimeAtEnd(i, o) == mtime[i]

(* Mutation: the start time is recorded for every input. *)
PrevMtimeAtStart(i, o) == started[o]

(* update_deps_info: an input that changed after the compilation started   *)
(* may not be the one the compiler read, so it gets the earlier time.      *)
PrevMtime(i, o) == IF mtime[i] < started[o] THEN mtime[i] ELSE started[o]

(* Mutation: only the inputs are recorded, not the command. *)
DepsInfoWithoutCommand(o) == [command |-> None,
                              prev_mtime |-> [i \in Reads[o] |-> PrevMtime(i, o)]]

DepsInfo(o) == [command |-> command,
                prev_mtime |-> [i \in Reads[o] |-> PrevMtime(i, o)]]

(* last_write_time throws for an input that is gone, and a signal throws   *)
(* before the transaction is over: nothing of the batch is recorded.       *)
RecordRolledBack == /\ phase = "record"
                    /\ cancelled \/ \E o \in newDeps : ~Compilable(o)
                    /\ End
                    /\ UNCHANGED <<worldVars, storeVars>>

(* What did compile is recorded, also when another compilation failed;     *)
(* then compile_all throws.                                                *)
RecordCommitted == /\ phase = "record"
                   /\ ~cancelled
                   /\ \A o \in newDeps : Compilable(o)
                   /\ db' = [o \in Outputs |-> IF o \in newDeps THEN DepsInfo(o) ELSE db[o]]
                   /\ unrecorded' = unrecorded \ newDeps
                   /\ IF result THEN phase' = "compiled" /\ UNCHANGED <<builds, localVars>>
                                ELSE End
                   /\ UNCHANGED <<worldVars, object>>

(* Whatever follows compile_all, the build comes to an end. *)
Finish == phase = "compiled" /\ End /\ UNCHANGED <<worldVars, storeVars>>

BuildStep == \/ Plan \/ BatchReturns \/ RecordRolledBack \/ RecordCommitted
             \/ \E o \in Outputs : Begin(o) \/ Skip(o) \/ Compile(o) \/ CompileThrows(o)
-----------------------------------------------------------------------------
(* SIGINT: the handler only sets a flag. *)
Cancel == /\ phase # "idle"
          /\ ~cancelled
          /\ cancelled' = TRUE
          /\ UNCHANGED <<worldVars, storeVars, phase, builds, needs, started, status, result, newDeps>>

Compiling == {o \in Outputs : needs[o] /\ status[o] = "running"}

(* The build dies, and the compilers it was running with it. *)
Killed == /\ phase # "idle"
          /\ End
          /\ \E D \in SUBSET Compiling :
                /\ object' = [o \in Outputs |-> IF o \in D THEN Damaged ELSE object[o]]
                /\ unrecorded' = unrecorded \cup D
          /\ UNCHANGED <<worldVars, db>>

SetMtime(i, t) == /\ edits < MaxEdits
                  /\ edits' = edits + 1
                  /\ mtime' = [mtime EXCEPT ![i] = t]
                  /\ UNCHANGED <<command, storeVars, phase, builds, localVars>>

Edit(i) == SetMtime(i, EditTime(edits + 1))
Delete(i) == mtime[i] # Absent /\ SetMtime(i, Absent)
(* The first version comes back with its file time (mv, cp -p, a package   *)
(* that is expanded again).                                                *)
Revert(i) == /\ MoveOldFiles \/ phase \in {"idle", "compiled"}
             /\ mtime[i] # FirstTime
             /\ SetMtime(i, FirstTime)

(* The output directory is left alone while a build runs in it. *)
RemoveObject(o) == /\ phase = "idle"
                   /\ object[o] # None
                   /\ object' = [object EXCEPT ![o] = None]
                   /\ UNCHANGED <<worldVars, db, unrecorded, phase, builds, localVars>>

(* A build in progress has read its configuration. *)
SetCommand(c) == /\ phase = "idle"
                 /\ c # command
                 /\ command' = c
                 /\ UNCHANGED <<edits, mtime, storeVars, phase, builds, localVars>>

WorldStep == \/ Cancel \/ Killed
             \/ \E i \in Inputs : Edit(i) \/ Delete(i) \/ Revert(i)
             \/ \E o \in Outputs : RemoveObject(o)
             \/ \E c \in Commands : SetCommand(c)

Next == BuildStep \/ Finish \/ WorldStep

Spec == Init /\ [][Next]_vars
-----------------------------------------------------------------------------
TypeOK == /\ edits \in 0..MaxEdits
          /\ mtime \in [Inputs -> Time]
          /\ command \in Commands
          /\ \A o \in Outputs : /\ object[o] \in Contents(o) \cup {None, Damaged}
                                /\ db[o] \in Record(o) \cup {None}
          /\ DOMAIN object = Outputs /\ DOMAIN db = Outputs
          /\ phase \in Phases
          /\ needs \in [Outputs -> BOOLEAN]
          /\ started \in [Outputs -> Time]
          /\ status \in [Outputs -> Batch!Status]
          /\ result \in BOOLEAN \cup {None}
          /\ newDeps \in SUBSET Outputs
          /\ cancelled \in BOOLEAN
          /\ builds \in 0..MaxBuilds
          /\ unrecorded \in SUBSET Outputs

(* An object the next build would not recompile, and whose last            *)
(* compilation was recorded, is what compiling it now would make: no edit, *)
(* deletion, revert, failed or concurrent compilation, at any moment of a  *)
(* build, makes bpt link a stale object.                                   *)
SkippedIsCurrent ==
    \A o \in Outputs \ unrecorded : UpToDate(o) => object[o] = Fresh(o)

(* What the code takes "up-to-date" to mean, without that exception. Not   *)
(* so: an object written by a batch that is interrupted before its         *)
(* transaction commits is taken for what the record before it describes.   *)
UpToDateIsCurrent == \A o \in Outputs : UpToDate(o) => object[o] = Fresh(o)
=============================================================================
