-------------------------------- MODULE Build --------------------------------
(***************************************************************************)
(* builder::build: compile_all, archive_all, link_all, run_all_tests, one  *)
(* after the other, each a parallel_run over its own items. A phase that   *)
(* fails ends the build by an exception; run_all_tests does not look at    *)
(* the answer of its parallel_run, only at the failures its tests report.  *)
(***************************************************************************)
EXTENDS CompileAll

CONSTANTS Libraries,    \* libraries with an archive
          Objects,      \* Objects[l]: the outputs archived in l
          Executables,
          Entry,        \* Entry[e]: the object with e's main()
          Links,        \* Links[e]: the archives e is linked with
          Tests         \* the executables that are tests

ASSUME BuildAssumption ==
    /\ Objects \in [Libraries -> SUBSET Outputs]
    /\ Entry \in [Executables -> Outputs]
    /\ Links \in [Executables -> SUBSET Libraries]
    /\ Tests \subseteq Executables

Earlier == "earlier"  \* a file that an earlier build made, whatever is in it

VARIABLES
    archive,   \* what each static library was made from
    exe,       \* what each executable was linked from
    stage,     \* the phase after compile_all; "none" before
    jobs,      \* of each item of the phase (ItemBatch)
    answer,    \* that phase's parallel_run
    fails,     \* the tests whose failure was reported
    passed,    \* history: the tests of this build that exited with zero
    outcome,   \* how the last build ended
    seen,      \* history: the versions each input had since the build started
    untrusted  \* history: `unrecorded` when the build started

binVars == <<archive, exe>>
stageVars == <<stage, jobs, answer>>
noteVars == <<fails, passed, outcome, seen, untrusted>>
allVars == <<vars, binVars, stageVars, noteVars>>

StageItems(s) == CASE s = "archive" -> Libraries
              [] s = "link" -> Executables
              [] s = "test" -> Tests
              [] OTHER -> {}

Stages == {"archive", "link", "test"}

Run(s) == INSTANCE ItemBatch WITH Items <- StageItems(s), status <- jobs, result <- answer

Nothing == [i \in Inputs |-> {}]

BuildInit == /\ Init
             /\ archive = [l \in Libraries |-> None]
             /\ exe = [e \in Executables |-> None]
             /\ stage = "none"
             /\ jobs = <<>>
             /\ answer = None
             /\ fails = {}
             /\ passed = {}
             /\ outcome = "none"
             /\ seen = Nothing
             /\ untrusted = {}

(* What is left of the files when a build ends, for the next one to see. *)
Aged(files) == [f \in DOMAIN files |-> IF files[f] = None THEN None ELSE Earlier]

(* The build is over, one way or another. *)
Over(how) == /\ stage' = "none"
             /\ jobs' = <<>>
             /\ answer' = None
             /\ fails' = {}
             /\ passed' = {}
             /\ outcome' = how
             /\ seen' = Nothing
             /\ untrusted' = {}
             /\ archive' = Aged(archive)
             /\ exe' = Aged(exe)
-----------------------------------------------------------------------------
(* compile_all's own steps. The history notes what the build starts from. *)
CompilePhase ==
    /\ stage = "none"
    /\ BuildStep
    /\ \/ /\ phase = "idle"
          /\ seen' = [i \in Inputs |-> {mtime[i]}]
          /\ untrusted' = unrecorded
          /\ outcome' = "none"
          /\ UNCHANGED <<binVars, stageVars, fails, passed>>
       \/ phase # "idle" /\ phase' = "idle" /\ Over("failed")
       \/ phase # "idle" /\ phase' # "idle" /\ UNCHANGED <<binVars, stageVars, noteVars>>

(* A parallel_run over the items of stage s. *)
Enter(s) == /\ stage' = s
            /\ jobs' = [x \in StageItems(s) |-> "pending"]
            /\ answer' = None
            /\ UNCHANGED <<vars, binVars, noteVars>>

ToArchive == phase = "compiled" /\ stage = "none" /\ Enter("archive")

(* archive_all and link_all throw when an item threw. *)
NextStage == /\ stage \in {"archive", "link"}
             /\ answer = TRUE
             /\ Enter(IF stage = "archive" THEN "link" ELSE "test")

StageFailed == stage \in {"archive", "link"} /\ answer = FALSE /\ Finish /\ Over("failed")

(* run_all_tests does not. *)
TestsDone == /\ stage = "test"
             /\ answer # None
             /\ Finish
             /\ Over(IF fails = {} THEN "ok" ELSE "failed")

StageReturns(s) == stage = s /\ Run(s)!Return /\ UNCHANGED <<vars, binVars, stage, noteVars>>

(* archive() removes the prior archive first. *)
BeginJob(s, x) == /\ stage = s
                  /\ Run(s)!Begin(x)
                  /\ archive' = IF s = "archive" THEN [archive EXCEPT ![x] = None] ELSE archive
                  /\ UNCHANGED <<vars, exe, stage, noteVars>>

(* An archiver, a linker or a test that fails to run, or one that ends     *)
(* after a signal: the callback throws.                                    *)
JobThrows(s, x) == /\ stage = s
                   /\ Run(s)!Throw(x)
                   /\ UNCHANGED <<vars, binVars, stage, noteVars>>

JobSucceeds(s, x) == stage = s /\ ~cancelled /\ Run(s)!Succeed(x) /\ UNCHANGED <<vars, stage>>

(* The archiver needs every object of the library, ... *)
Archive(l) == /\ JobSucceeds("archive", l)
              /\ \A o \in Objects[l] : object[o] # None
              /\ archive' = [archive EXCEPT ![l] = [o \in Objects[l] |-> object[o]]]
              /\ UNCHANGED <<exe, noteVars>>

(* ... the linker the object with main() and every archive. *)
Link(e) == /\ JobSucceeds("link", e)
           /\ object[Entry[e]] # None
           /\ \A l \in Links[e] : archive[l] # None
           /\ exe' = [exe EXCEPT ![e] = [entry |-> object[Entry[e]],
                                         libs |-> [l \in Links[e] |-> archive[l]]]]
           /\ UNCHANGED <<archive, noteVars>>

(* run_test reports by the exit code alone. *)
RunTest(t) == /\ JobSucceeds("test", t)
              /\ \/ passed' = passed \cup {t} /\ UNCHANGED fails
                 \/ fails' = fails \cup {t} /\ UNCHANGED passed
              /\ UNCHANGED <<binVars, outcome, seen, untrusted>>

LaterPhases ==
    \/ ToArchive \/ NextStage \/ StageFailed \/ TestsDone
    \/ \E l \in Libraries : Archive(l)
    \/ \E e \in Executables : Link(e)
    \/ \E t \in Tests : RunTest(t)
    \/ \E s \in Stages : \/ StageReturns(s)
                         \/ \E x \in StageItems(s) : BeginJob(s, x) \/ JobThrows(s, x)

(* A build that is killed leaves what its archivers and linkers have       *)
(* written so far; the next one removes or overwrites it before use.       *)
World ==
    /\ WorldStep
    /\ \/ phase # "idle" /\ phase' = "idle" /\ Over("failed")
       \/ phase = "idle" /\ UNCHANGED <<binVars, stageVars, noteVars>>
       \/ /\ phase # "idle" /\ phase' # "idle"
          /\ seen' = [i \in Inputs |-> seen[i] \cup {mtime'[i]}]
          /\ UNCHANGED <<binVars, stageVars, fails, passed, outcome, untrusted>>

BuildNext == CompilePhase \/ LaterPhases \/ World

BuildSpec == BuildInit /\ [][BuildNext]_allVars
-----------------------------------------------------------------------------
(* Every object that a successful build links was compiled by the command  *)
(* of that build, from versions of its inputs that existed while the build *)
(* ran, whatever was edited, deleted or reverted meanwhile. The exceptions *)
(* are the objects that an interrupted build had left behind.              *)
Current(c, o) == /\ c.command = command
                 /\ \A i \in Reads[o] : c.from[i] \in seen[i]

LinksCurrent(e) ==
    /\ Entry[e] \notin untrusted => Current(exe[e].entry, Entry[e])
    /\ \A l \in Links[e] : \A o \in Objects[l] \ untrusted : Current(exe[e].libs[l][o], o)

SuccessLinksCurrentObjects ==
    [][outcome' = "ok" /\ outcome # "ok" => \A e \in Executables : LinksCurrent(e)]_allVars

(* "Execute all tests defined in the plan": a build that succeeds has run  *)
(* every test, and each one exited with zero. Not so: a test that is ended *)
(* by a signal to bpt throws, and nobody looks at that.                    *)
SuccessMeansTestsPassed ==
    [][outcome' = "ok" /\ outcome # "ok" => passed = Tests]_allVars

(* Incremental builds converge: if no input changed while the batch ran,   *)
(* what it compiled and recorded is up to date and is not compiled again.  *)
NextBuildSkipsWhatWasRecorded ==
    [][phase = "record" /\ db' # db /\ (\A i \in Inputs : seen[i] = {mtime[i]})
        => \A o \in newDeps : object[o] # None => UpToDate(o)']_allVars
=============================================================================
