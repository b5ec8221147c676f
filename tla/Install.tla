------------------------------- MODULE Install -------------------------------
(***************************************************************************)
(* "bpt install-yourself" on POSIX (cli/cmd/install_yourself.cpp): copies  *)
(* or links the running executable into a binaries directory, and adds     *)
(* that directory to the PATH in the user's shell start-up files, each of  *)
(* which is rewritten as a temporary file, backed up, and replaced. Every  *)
(* file operation may fail, the process may die at any step and be run     *)
(* again, and at any moment the user may add to a start-up file, or write  *)
(* it anew when it is not there.                                           *)
(*                                                                         *)
(* Left out: the Windows registry, the directory of the binaries being     *)
(* made, two processes that install at the same time.                      *)
(***************************************************************************)
EXTENDS Naturals, Sequences

CONSTANTS ShellFiles,  \* the start-up files in the order of the code
          Required,    \* those that must exist (.profile)
          Lines,       \* what users write into them
          PathEntry,   \* the line that puts the directory on the PATH
          Gone,        \* no such file
          MaxRuns, MaxSaves

VARIABLES
    ipc,       \* where the process is
    opts,      \* symlink, dry_run and fixup_path_env of this run
    dest,      \* what lies at the destination
    self,      \* is the executable that runs whole?
    shell,     \* the index in ShellFiles that is being worked on
    buffer,    \* its content, as it was read
    files,     \* each start-up file, its .tmp and its .bak
    saved,     \* what the user has ever saved in each file (history)
    exposed,   \* of that, what a save of the missing file put at risk (history)
    runs, saves

installVars == <<ipc, opts, dest, self, shell, buffer, files, saved, exposed, runs, saves>>

Names == {ShellFiles[i] : i \in DOMAIN ShellFiles}

Options == [symlink : BOOLEAN, dry_run : BOOLEAN, fixup : BOOLEAN]

(* "link": a symbolic link to the executable itself. *)
Dest == {"nothing", "old", "link", "partial", "installed"}

Init == /\ ipc = "ended"
        /\ opts \in {o \in Options : ~o.symlink /\ ~o.dry_run /\ ~o.fixup}
        /\ dest \in {"nothing", "old", "link"}
        /\ self = TRUE
        /\ shell = 0
        /\ buffer = {}
        /\ \E There \in {Required, Names} :
              files = [f \in Names |-> [now |-> IF f \in There THEN {} ELSE Gone,
                                       tmp |-> Gone, bak |-> Gone]]
        /\ saved = [f \in Names |-> {}] /\ exposed = [f \in Names |-> {}]
        /\ runs = 0 /\ saves = 0

Go(a, b) == ipc = a /\ ipc' = b
-----------------------------------------------------------------------------
Run == /\ ipc = "ended" /\ runs < MaxRuns
       /\ ipc' = "place"
       /\ opts' \in Options
       /\ runs' = runs + 1
       /\ UNCHANGED <<dest, self, shell, buffer, files, saved, exposed, saves>>

(* A file operation fails and the error ends the command; or it is killed. *)
Stop == /\ ipc \notin {"ended", "replace", "restore"}
        /\ ipc' = "ended"
        /\ UNCHANGED <<opts, dest, self, shell, buffer, files, saved, exposed, runs, saves>>

(* What there is to do before the executable is put in place: a link is    *)
(* removed, and for a new link also a file.                                *)
Clears == dest = "link" \/ (opts.symlink /\ dest # "nothing")

Clear == /\ ipc = "place" /\ ~opts.dry_run
         /\ Clears
         /\ dest' = "nothing"
         /\ UNCHANGED <<ipc, opts, self, shell, buffer, files, saved, exposed, runs, saves>>

(* fixup_path, for each of the files; system directories are on the PATH. *)
FixupOrEnd == IF opts.fixup THEN ipc' = "read" /\ shell' = 1
              ELSE ipc' = "ended" /\ UNCHANGED shell

MakeLink == /\ ipc = "place" /\ ~opts.dry_run /\ opts.symlink
            /\ dest = "nothing"
            /\ dest' = "link"
            /\ FixupOrEnd
            /\ UNCHANGED <<opts, self, buffer, files, saved, exposed, runs, saves>>

(* copy_file with overwrite_existing truncates, then writes. *)
BeginCopy == /\ ipc = "place" /\ ~opts.dry_run /\ ~opts.symlink
             /\ ~Clears
             /\ ipc' = "copy"
             /\ IF dest = "link" THEN self' = FALSE /\ UNCHANGED dest
                ELSE dest' = "partial" /\ UNCHANGED self
             /\ UNCHANGED <<opts, shell, buffer, files, saved, exposed, runs, saves>>

EndCopy == /\ ipc = "copy"
           /\ dest' = IF dest = "partial" THEN "installed" ELSE dest
           /\ FixupOrEnd
           /\ UNCHANGED <<opts, self, buffer, files, saved, exposed, runs, saves>>

WouldInstall == /\ ipc = "place" /\ opts.dry_run
                /\ FixupOrEnd
                /\ UNCHANGED <<opts, dest, self, buffer, files, saved, exposed, runs, saves>>
-----------------------------------------------------------------------------
File == ShellFiles[shell]

NextFile(s) == IF s < Len(ShellFiles) THEN ipc' = "read" /\ shell' = s + 1
            ELSE ipc' = "ended" /\ UNCHANGED shell

(* A required file that is missing cannot be read, another is passed over. *)
PassOver == /\ ipc = "read"
            /\ files[File].now = Gone
            /\ IF File \in Required THEN ipc' = "ended" /\ UNCHANGED shell ELSE NextFile(shell)
            /\ UNCHANGED <<opts, dest, self, buffer, files, saved, exposed, runs, saves>>

(* The file has the entry, or this is a dry run. *)
LeaveAlone == /\ ipc = "read"
              /\ files[File].now # Gone
              /\ PathEntry \in files[File].now \/ opts.dry_run
              /\ NextFile(shell)
              /\ UNCHANGED <<opts, dest, self, buffer, files, saved, exposed, runs, saves>>

Read == /\ Go("read", "write")
        /\ files[File].now # Gone
        /\ PathEntry \notin files[File].now /\ ~opts.dry_run
        /\ buffer' = files[File].now \cup {PathEntry}
        /\ UNCHANGED <<opts, dest, self, shell, files, saved, exposed, runs, saves>>

WriteTmp == /\ Go("write", "backup")
            /\ files' = [files EXCEPT ![File].tmp = buffer]
            /\ UNCHANGED <<opts, dest, self, shell, buffer, saved, exposed, runs, saves>>

(* Mutant: the new file is moved into place first, and is what is kept. *)
BackupOfNew == /\ Go("backup", "replace")
               /\ files' = [files EXCEPT ![File] = [now |-> Gone, tmp |-> @.tmp, bak |-> @.tmp]]
               /\ UNCHANGED <<opts, dest, self, shell, buffer, saved, exposed, runs, saves>>

Backup == /\ Go("backup", "replace")
          /\ files' = [files EXCEPT ![File] = [now |-> Gone, tmp |-> @.tmp, bak |-> @.now]]
          /\ UNCHANGED <<opts, dest, self, shell, buffer, saved, exposed, runs, saves>>

(* What the backup has stays there, or comes back: it is safe again. *)
Recover == exposed' = [exposed EXCEPT ![File] = @ \ files[File].bak]

Replace == /\ ipc = "replace"
           /\ files' = [files EXCEPT ![File] = [now |-> @.tmp, tmp |-> Gone, bak |-> @.bak]]
           /\ NextFile(shell)
           /\ Recover
           /\ UNCHANGED <<opts, dest, self, buffer, saved, runs, saves>>

(* The deferred action moves the backup back, if there is no file: to look *)
(* and to move are two steps.                                              *)
ReplaceFails == /\ ipc = "replace"
                /\ ipc' = IF files[File].now = Gone THEN "restore" ELSE "ended"
                /\ UNCHANGED <<opts, dest, self, shell, buffer, files, saved, exposed, runs, saves>>

Restore == /\ Go("restore", "ended")
           /\ files' = [files EXCEPT ![File] = [now |-> @.bak, tmp |-> @.tmp, bak |-> Gone]]
           /\ Recover
           /\ UNCHANGED <<opts, dest, self, shell, buffer, saved, runs, saves>>

(* Killed between the two moves: the backup is all there is. *)
Killed == /\ ipc \in {"replace", "restore"}
          /\ ipc' = "ended"
          /\ UNCHANGED <<opts, dest, self, shell, buffer, files, saved, exposed, runs, saves>>

(* Another file is about to be moved to where f was. *)
AboutToReplace(f) == ipc \in {"replace", "restore"} /\ f = File

(* Only the backup has what was saved before in a file that is missing. *)
AtRisk(f) == IF files[f].now = Gone THEN saved[f] ELSE {}

(* The user adds a line, to a new file if there is none. The next run would*)
(* write that over the backup; and the line itself is lost when another    *)
(* file is about to come to that place.                                    *)
Save == /\ saves < MaxSaves
        /\ saves' = saves + 1
        /\ \E f \in Names, l \in Lines :
              /\ files' = [files EXCEPT ![f].now = IF @ = Gone THEN {l} ELSE @ \cup {l}]
              /\ saved' = [saved EXCEPT ![f] = @ \cup {l}]
              /\ exposed' = [exposed EXCEPT ![f] =
                    IF AboutToReplace(f) THEN @ \cup AtRisk(f) \cup {l}
                    ELSE (@ \cup AtRisk(f)) \ {l}]
        /\ UNCHANGED <<ipc, opts, dest, self, shell, buffer, runs>>

Next == \/ Run \/ Stop \/ Clear \/ MakeLink \/ BeginCopy \/ EndCopy \/ WouldInstall
        \/ PassOver \/ LeaveAlone \/ Read \/ WriteTmp \/ Backup \/ Replace
        \/ ReplaceFails \/ Restore \/ Killed \/ Save

Spec == Init /\ [][Next]_installVars
-----------------------------------------------------------------------------
Content == SUBSET (Lines \cup {PathEntry})

TypeOK == /\ ipc \in {"ended", "place", "copy", "read", "write", "backup", "replace", "restore"}
          /\ opts \in Options
          /\ dest \in Dest
          /\ self \in BOOLEAN
          /\ shell \in 0..Len(ShellFiles)
          /\ buffer \in Content
          /\ \A f \in Names : \A v \in {"now", "tmp", "bak"} :
                files[f][v] = Gone \/ files[f][v] \in Content
          /\ saved \in [Names -> SUBSET Lines] /\ exposed \in [Names -> SUBSET Lines]

(* Whatever fails, and whenever the process dies: what the user has saved  *)
(* is in the start-up file or in its backup, and the executable that was   *)
(* to be installed has not been written over by way of a link to itself.   *)
(* The exception is a save of the file while it is missing: a line saved   *)
(* between the two moves, and after a kill there also the lines before it. *)
UserFilesSurvive ==
    /\ self
    /\ \A f \in Names : \A l \in saved[f] \ exposed[f] :
          \E v \in {"now", "bak"} : files[f][v] # Gone /\ l \in files[f][v]
=============================================================================
