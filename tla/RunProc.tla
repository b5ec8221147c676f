------------------------------- MODULE RunProc -------------------------------
(***************************************************************************)
(* bpt::run_proc on POSIX (util/proc.nix.cpp), called by several worker    *)
(* threads at a time: a pipe, a fork, a loop of poll and read until the    *)
(* pipe is at its end, waitpid, and the cancellation point.                *)
(*                                                                         *)
(* The descriptors of a pipe are inherited by every child that any thread  *)
(* forks while they are open in bpt, and are kept across exec: a pipe is   *)
(* at its end only when all of these children have ended.                  *)
(*                                                                         *)
(* Left out: poll that is interrupted by a signal (it is called again),    *)
(* read and waitpid that fail for a reason of the system, children that    *)
(* leave processes of their own behind.                                    *)
(***************************************************************************)
EXTENDS Naturals, FiniteSets

CONSTANTS Callers,         \* the threads; each calls run_proc once
          Timed,           \* those whose options have a timeout (tests)
          MaxChunks,       \* how often a child writes
          MaxForkFailures, \* how many calls of fork may fail
          Parent           \* bpt, as a holder of the write end of a pipe

ASSUME RunProcAssumption == Parent \notin Callers /\ MaxChunks \in Nat

VARIABLES
    ppc,        \* where each call is
    child,      \* the process of each call
    holders,    \* who has the write end of the call's pipe open
    written,    \* chunks that the child has written
    output,     \* chunks that are in res.output
    timeout,    \* does the next poll have a timeout?
    timed_out,  \* res.timed_out
    status,     \* whose exit status the call has
    leaked,     \* calls whose write end another child has inherited (history)
    overdue,    \* calls that timed out when their child had ended (history)
    got_signal  \* the flag of the signal handler

procVars == <<ppc, child, holders, written, output, timeout, timed_out, status,
              leaked, overdue, got_signal>>

PcState == {"idle", "piped", "forked", "poll", "wait", "ok", "cancelled", "error"}

(* "none": never forked; "failed": fork answered -1; "ended": a zombie. *)
ChildState == {"none", "failed", "running", "interrupted", "ended", "reaped"}

Alive == {p \in Callers : child[p] \in {"running", "interrupted"}}

Init == /\ ppc = [p \in Callers |-> "idle"]
        /\ child = [p \in Callers |-> "none"]
        /\ holders = [p \in Callers |-> {}]
        /\ written = [p \in Callers |-> 0]
        /\ output = [p \in Callers |-> 0]
        /\ timeout = [p \in Callers |-> p \in Timed]
        /\ timed_out = [p \in Callers |-> FALSE]
        /\ status = [p \in Callers |-> {}]
        /\ leaked = {}
        /\ overdue = {}
        /\ got_signal = FALSE

Go(p, a, b) == ppc[p] = a /\ ppc' = [ppc EXCEPT ![p] = b]
-----------------------------------------------------------------------------
Pipe(p) == /\ Go(p, "idle", "piped")
           /\ holders' = [holders EXCEPT ![p] = {Parent}]
           /\ UNCHANGED <<child, written, output, timeout, timed_out, status,
                          leaked, overdue, got_signal>>

(* The child closes the read end of its own pipe and nothing else. *)
OpenInParent == {q \in Callers : Parent \in holders[q]}

Fork(p) == /\ Go(p, "piped", "forked")
           /\ child' = [child EXCEPT ![p] = "running"]
           /\ holders' = [q \in Callers |-> IF q \in OpenInParent
                                            THEN holders[q] \cup {p} ELSE holders[q]]
           /\ leaked' = leaked \cup (OpenInParent \ {p})
           /\ UNCHANGED <<written, output, timeout, timed_out, status, overdue, got_signal>>

(* The answer of fork is not looked at: -1 is taken for a process. *)
ForkFailures == {p \in Callers : child[p] = "failed"}

ForkFails(p) == /\ Cardinality(ForkFailures) < MaxForkFailures
                /\ Go(p, "piped", "forked")
                /\ child' = [child EXCEPT ![p] = "failed"]
                /\ UNCHANGED <<holders, written, output, timeout, timed_out, status,
                               leaked, overdue, got_signal>>

(* Mutant: the write end stays open in bpt. *)
KeepWriteEnd(p) == /\ Go(p, "forked", "poll")
                   /\ UNCHANGED <<child, holders, written, output, timeout, timed_out,
                                  status, leaked, overdue, got_signal>>

CloseWriteEnd(p) == /\ Go(p, "forked", "poll")
                    /\ holders' = [holders EXCEPT ![p] = @ \ {Parent}]
                    /\ UNCHANGED <<child, written, output, timeout, timed_out, status,
                                   leaked, overdue, got_signal>>

(* Mutant: off by one. *)
ReadableOrEmpty(p) == output[p] <= written[p]

Readable(p) == output[p] < written[p]

(* Mutant: a child that has been told to end is not read any more. *)
GivesUp(p) == timed_out[p] \/ (~Readable(p) /\ holders[p] = {})

AtEnd(p) == ~Readable(p) /\ holders[p] = {}

(* poll answers that there is something to read, and it is read. *)
ReadSome(p) == /\ ppc[p] = "poll"
               /\ Readable(p)
               /\ output' = [output EXCEPT ![p] = @ + 1]
               /\ UNCHANGED <<ppc, child, holders, written, timeout, timed_out, status,
                              leaked, overdue, got_signal>>

ReadEnd(p) == /\ AtEnd(p)
              /\ Go(p, "poll", "wait")
              /\ UNCHANGED <<child, holders, written, output, timeout, timed_out, status,
                             leaked, overdue, got_signal>>

(* kill(child, SIGINT); kill(-1, SIGINT) reaches every process there is. *)
Signalled(p) == IF child[p] = "failed" THEN Callers ELSE {p}

(* poll answers that nothing happened for the timeout: the child is asked  *)
(* to end, and from now on polled without a timeout.                       *)
TimesOut(p) ==
    /\ ppc[p] = "poll"
    /\ ~Readable(p) /\ ~AtEnd(p)
    /\ timeout[p]
    /\ child' = [q \in Callers |-> IF q \in Signalled(p) /\ child[q] = "running"
                                   THEN "interrupted" ELSE child[q]]
    /\ overdue' = IF p \notin Alive THEN overdue \cup {p} ELSE overdue
    /\ timeout' = [timeout EXCEPT ![p] = FALSE]
    /\ timed_out' = [timed_out EXCEPT ![p] = TRUE]
    /\ UNCHANGED <<ppc, holders, written, output, status, leaked, got_signal>>

(* cancellation_point, the last thing in a call. *)
Outcome == IF got_signal THEN "cancelled" ELSE "ok"

(* waitpid(child), or waitpid(-1): whichever child has ended. *)
Reaps(p) == IF child[p] = "failed" THEN Callers ELSE {p}

WaitPid(p) == /\ \E q \in Reaps(p) :
                   /\ child[q] = "ended"
                   /\ child' = [child EXCEPT ![q] = "reaped"]
                   /\ status' = [status EXCEPT ![p] = {q}]
              /\ Go(p, "wait", Outcome)
              /\ UNCHANGED <<holders, written, output, timeout, timed_out, leaked,
                             overdue, got_signal>>

(* waitpid fails: there is no such child any more, or no child at all. *)
WaitPidFails(p) == /\ \A q \in Reaps(p) : child[q] \in {"none", "failed", "reaped"}
                   /\ Go(p, "wait", "error")
                   /\ UNCHANGED <<child, holders, written, output, timeout, timed_out,
                                  status, leaked, overdue, got_signal>>
-----------------------------------------------------------------------------
(* The children, whose standard output and error are the pipe. *)
ChildWrites(p) == /\ p \in Alive
                  /\ written[p] < MaxChunks
                  /\ written' = [written EXCEPT ![p] = @ + 1]
                  /\ UNCHANGED <<ppc, child, holders, output, timeout, timed_out, status,
                                 leaked, overdue, got_signal>>

ChildEnds(p) == /\ p \in Alive
                /\ child' = [child EXCEPT ![p] = "ended"]
                /\ holders' = [q \in Callers |-> holders[q] \ {p}]
                /\ UNCHANGED <<ppc, written, output, timeout, timed_out, status, leaked,
                               overdue, got_signal>>

Signal == /\ ~got_signal
          /\ got_signal' = TRUE
          /\ UNCHANGED <<ppc, child, holders, written, output, timeout, timed_out, status,
                         leaked, overdue>>
-----------------------------------------------------------------------------
Call(p) == \/ Pipe(p) \/ Fork(p) \/ ForkFails(p) \/ CloseWriteEnd(p)
           \/ ReadSome(p) \/ ReadEnd(p) \/ TimesOut(p)
           \/ WaitPid(p) \/ WaitPidFails(p)

Next == \/ \E p \in Callers : Call(p) \/ ChildWrites(p) \/ ChildEnds(p)
        \/ Signal

Spec == Init /\ [][Next]_procVars

(* A child of a call without a timeout ends by itself; one of a call with  *)
(* a timeout may hang, but ends when it has been interrupted. (A child     *)
(* that handles SIGINT and goes on is waited for without a bound.)         *)
EndsBySigint(p) == (p \in Timed => child[p] = "interrupted") /\ ChildEnds(p)
-----------------------------------------------------------------------------
(* Types, and what the end of a call says about its child. *)
TypeOK ==
    /\ ppc \in [Callers -> PcState]
    /\ child \in [Callers -> ChildState]
    /\ holders \in [Callers -> SUBSET (Callers \cup {Parent})]
    /\ written \in [Callers -> 0..MaxChunks]
    /\ output \in [Callers -> 0..MaxChunks]
    /\ \A p \in Callers : output[p] <= written[p]
    /\ timeout \in [Callers -> BOOLEAN]
    /\ timed_out \in [Callers -> BOOLEAN]
    /\ status \in [Callers -> SUBSET Callers]
    /\ leaked \subseteq Callers /\ overdue \subseteq Callers
    /\ got_signal \in BOOLEAN

(* A call whose fork worked, in a run of bpt where no fork has failed,     *)
(* ends with everything that its child has written, the status of its own  *)
(* child, and that child reaped, also after a timeout or a signal.         *)
ReturnsOwnResult ==
    ForkFailures = {} =>
        \A p \in Callers : ppc[p] \in {"ok", "cancelled", "error"} =>
            /\ ppc[p] # "error"
            /\ child[p] = "reaped" /\ status[p] = {p}
            /\ output[p] = written[p]

(* A call times out only while its child runs: unless another child has    *)
(* inherited the write end of its pipe, in which case a child that ended   *)
(* in time is reported as timed out.                                       *)
TimesOutOnlyWhileRunning == overdue \subseteq leaked

(* Every call returns, although some wait for the children of others. *)
CallsReturn == \A p \in Callers :
    ppc[p] = "piped" ~> ppc[p] \in {"ok", "cancelled", "error"}
=============================================================================
