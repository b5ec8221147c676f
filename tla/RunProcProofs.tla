----------------------------- MODULE RunProcProofs -----------------------------
(***************************************************************************)
(* For any number of threads, with or without timeouts, and any length of  *)
(* output: a call of run_proc ends with the output and the status of its   *)
(* own child, and a timeout that comes too late is the fault of an         *)
(* inherited pipe.                                                         *)
(***************************************************************************)
EXTENDS RunProc, TLAPS

Finished == {"ok", "cancelled", "error"}

(* Who holds a pipe lives: bpt between pipe and close, a child until it    *)
(* ends; and each child holds the pipe it writes to.                       *)
HoldersLive == \A p \in Callers :
    /\ holders[p] \subseteq Alive \cup {Parent}
    /\ Parent \in holders[p] <=> ppc[p] \in {"piped", "forked"}
    /\ p \in Alive => p \in holders[p]

(* Another child has a pipe only by inheritance. *)
OthersInherited == \A p, q \in Callers : q \in holders[p] /\ q # p => p \in leaked

(* Before fork there is no child, and a process that was never made does   *)
(* not change.                                                             *)
NoChildBeforeFork == \A p \in Callers : ppc[p] \in {"idle", "piped"} => child[p] = "none"

(* While no fork has failed, a child is where its call is: nobody else     *)
(* reaps it, and it has ended with all its output read before it is        *)
(* waited for.                                                             *)
ChildFollowsCall ==
    ForkFailures = {} => \A p \in Callers :
        /\ ppc[p] \in {"forked", "poll"} => child[p] \in {"running", "interrupted", "ended"}
        /\ ppc[p] = "wait" => child[p] = "ended" /\ output[p] = written[p]

IInv == /\ TypeOK
        /\ HoldersLive
        /\ OthersInherited
        /\ NoChildBeforeFork
        /\ ChildFollowsCall
        /\ ReturnsOwnResult
        /\ TimesOutOnlyWhileRunning

LEMMA InitIInv == Init => IInv
<1> SUFFICES ASSUME Init PROVE IInv
  OBVIOUS
<1> USE RunProcAssumption DEF Init
<1>1. TypeOK
  <2>1. timeout \in [Callers -> BOOLEAN]
    OBVIOUS
  <2>2. 0 \in 0..MaxChunks
    OBVIOUS
  <2>3. output \in [Callers -> 0..MaxChunks] /\ written \in [Callers -> 0..MaxChunks]
    BY <2>2
  <2>4. /\ ppc \in [Callers -> PcState]
        /\ child \in [Callers -> ChildState]
        /\ timed_out \in [Callers -> BOOLEAN]
    BY DEF PcState, ChildState
  <2>5. /\ holders \in [Callers -> SUBSET (Callers \cup {Parent})]
        /\ status \in [Callers -> SUBSET Callers]
    OBVIOUS
  <2>6. \A p \in Callers : output[p] <= written[p]
    OBVIOUS
  <2>7. QED
    BY <2>1, <2>3, <2>4, <2>5, <2>6 DEF TypeOK
<1>2. HoldersLive /\ OthersInherited /\ NoChildBeforeFork
  BY DEF HoldersLive, OthersInherited, NoChildBeforeFork, Alive
<1>3. ChildFollowsCall /\ ReturnsOwnResult /\ TimesOutOnlyWhileRunning
  BY DEF ChildFollowsCall, ReturnsOwnResult, TimesOutOnlyWhileRunning
<1>4. QED
  BY <1>1, <1>2, <1>3 DEF IInv

(* The calls, up to the loop of poll and read. *)
LEMMA StartingKeepsIInv ==
  ASSUME IInv, NEW p \in Callers, Pipe(p) \/ Fork(p) \/ ForkFails(p) \/ CloseWriteEnd(p)
  PROVE  IInv'
<1> USE RunProcAssumption DEF IInv, Go
<1>1. CASE Pipe(p)
  <2> USE <1>1 DEF Pipe
  <2>1. TypeOK'
    BY DEF TypeOK, PcState
  <2>2. HoldersLive' /\ OthersInherited'
    BY DEF TypeOK, HoldersLive, OthersInherited, NoChildBeforeFork, Alive
  <2>3. NoChildBeforeFork' /\ ChildFollowsCall' /\ ReturnsOwnResult' /\ TimesOutOnlyWhileRunning'
    BY DEF TypeOK, NoChildBeforeFork, ChildFollowsCall, ReturnsOwnResult,
           TimesOutOnlyWhileRunning, ForkFailures
  <2>4. QED
    BY <2>1, <2>2, <2>3
<1>2. CASE Fork(p)
  <2> USE <1>2 DEF Fork
  <2>1. TypeOK'
    BY DEF TypeOK, PcState, ChildState, OpenInParent
  <2>2. HoldersLive' /\ OthersInherited'
    BY DEF TypeOK, HoldersLive, OthersInherited, NoChildBeforeFork, Alive, OpenInParent
  <2>3. NoChildBeforeFork' /\ ChildFollowsCall' /\ ReturnsOwnResult' /\ TimesOutOnlyWhileRunning'
    BY DEF TypeOK, NoChildBeforeFork, ChildFollowsCall, ReturnsOwnResult,
           TimesOutOnlyWhileRunning, ForkFailures
  <2>4. QED
    BY <2>1, <2>2, <2>3
<1>3. CASE ForkFails(p)
  <2> USE <1>3 DEF ForkFails
  <2>1. TypeOK'
    BY DEF TypeOK, PcState, ChildState
  <2>2. HoldersLive' /\ OthersInherited'
    BY DEF TypeOK, HoldersLive, OthersInherited, NoChildBeforeFork, Alive
  <2>3. NoChildBeforeFork' /\ TimesOutOnlyWhileRunning'
    BY DEF TypeOK, NoChildBeforeFork, TimesOutOnlyWhileRunning
  <2>4. p \in ForkFailures'
    BY DEF ForkFailures, TypeOK
  <2>5. ChildFollowsCall' /\ ReturnsOwnResult'
    BY <2>4 DEF ChildFollowsCall, ReturnsOwnResult
  <2>6. QED
    BY <2>1, <2>2, <2>3, <2>5
<1>4. CASE CloseWriteEnd(p)
  <2> USE <1>4 DEF CloseWriteEnd
  <2>1. TypeOK'
    BY DEF TypeOK, PcState
  <2>2. HoldersLive' /\ OthersInherited'
    BY DEF TypeOK, HoldersLive, OthersInherited, Alive
  <2>3. NoChildBeforeFork' /\ ChildFollowsCall' /\ ReturnsOwnResult' /\ TimesOutOnlyWhileRunning'
    BY DEF TypeOK, NoChildBeforeFork, ChildFollowsCall, ReturnsOwnResult,
           TimesOutOnlyWhileRunning, ForkFailures
  <2>4. QED
    BY <2>1, <2>2, <2>3
<1>5. QED
  BY <1>1, <1>2, <1>3, <1>4

(* The loop. At the end of the pipe the child has ended, since it would    *)
(* hold it; before that a holder lives, who has inherited it if the child  *)
(* has ended.                                                              *)
LEMMA PollingKeepsIInv ==
  ASSUME IInv, NEW p \in Callers, ReadSome(p) \/ ReadEnd(p) \/ TimesOut(p)
  PROVE  IInv'
<1> USE RunProcAssumption DEF IInv, Go
<1>1. CASE ReadSome(p)
  <2> USE <1>1 DEF ReadSome, Readable
  <2>1. TypeOK'
    <3>1. written[p] \in Nat /\ output[p] <= written[p] /\ output[p] + 1 <= written[p]
      BY DEF TypeOK
    <3>2. QED
      BY <3>1 DEF TypeOK
  <2>2. HoldersLive' /\ OthersInherited' /\ NoChildBeforeFork' /\ TimesOutOnlyWhileRunning'
    BY DEF TypeOK, HoldersLive, OthersInherited, NoChildBeforeFork, TimesOutOnlyWhileRunning, Alive
  <2>3. ChildFollowsCall' /\ ReturnsOwnResult'
    BY DEF TypeOK, ChildFollowsCall, ReturnsOwnResult, ForkFailures
  <2>4. QED
    BY <2>1, <2>2, <2>3
<1>2. CASE ReadEnd(p)
  <2> USE <1>2 DEF ReadEnd, AtEnd, Readable
  <2>1. TypeOK'
    BY DEF TypeOK, PcState
  <2>2. HoldersLive' /\ OthersInherited' /\ NoChildBeforeFork' /\ TimesOutOnlyWhileRunning'
    BY DEF TypeOK, HoldersLive, OthersInherited, NoChildBeforeFork, TimesOutOnlyWhileRunning, Alive
  <2>3. p \notin Alive
    BY DEF HoldersLive
  <2>4. output[p] = written[p]
    BY DEF TypeOK
  <2>5. ChildFollowsCall' /\ ReturnsOwnResult'
    BY <2>3, <2>4 DEF TypeOK, ChildFollowsCall, ReturnsOwnResult, ForkFailures, Alive
  <2>6. QED
    BY <2>1, <2>2, <2>5
<1>3. CASE TimesOut(p)
  <2> USE <1>3 DEF TimesOut, AtEnd
  <2>1. TypeOK'
    BY DEF TypeOK, ChildState, Signalled
  <2>2. Alive' = Alive
    BY DEF TypeOK, Alive
  <2>3. HoldersLive' /\ OthersInherited' /\ NoChildBeforeFork'
    BY <2>2 DEF TypeOK, HoldersLive, OthersInherited, NoChildBeforeFork
  <2>4. ForkFailures' = ForkFailures
    BY DEF TypeOK, ForkFailures
  <2>5. ChildFollowsCall' /\ ReturnsOwnResult'
    BY <2>4 DEF TypeOK, ChildFollowsCall, ReturnsOwnResult, Readable
  <2>6. p \notin Alive => p \in leaked
    BY DEF TypeOK, HoldersLive, OthersInherited, Alive
  <2>7. TimesOutOnlyWhileRunning'
    BY <2>6 DEF TimesOutOnlyWhileRunning
  <2>8. QED
    BY <2>1, <2>3, <2>5, <2>7
<1>4. QED
  BY <1>1, <1>2, <1>3

(* The end of a call. *)
LEMMA WaitingKeepsIInv ==
  ASSUME IInv, NEW p \in Callers, WaitPid(p) \/ WaitPidFails(p)
  PROVE  IInv'
<1> USE RunProcAssumption DEF IInv, Go
<1>1. CASE WaitPid(p)
  <2>1. PICK q \in Reaps(p) : /\ child[q] = "ended"
                              /\ child' = [child EXCEPT ![q] = "reaped"]
                              /\ status' = [status EXCEPT ![p] = {q}]
    BY <1>1 DEF WaitPid
  <2> USE <1>1, <2>1 DEF WaitPid, Outcome
  <2>2. q \in Callers /\ (ForkFailures = {} => q = p)
    BY DEF Reaps, ForkFailures
  <2>3. TypeOK'
    BY <2>2 DEF TypeOK, PcState, ChildState
  <2>4. Alive' = Alive /\ ForkFailures' = ForkFailures
    BY <2>2 DEF TypeOK, Alive, ForkFailures
  <2>5. HoldersLive' /\ OthersInherited' /\ NoChildBeforeFork' /\ TimesOutOnlyWhileRunning'
    BY <2>2, <2>4 DEF TypeOK, HoldersLive, OthersInherited, NoChildBeforeFork, TimesOutOnlyWhileRunning
  <2>6. ChildFollowsCall' /\ ReturnsOwnResult'
    BY <2>2, <2>4 DEF TypeOK, ChildFollowsCall, ReturnsOwnResult
  <2>7. QED
    BY <2>3, <2>5, <2>6
<1>2. CASE WaitPidFails(p)
  <2> USE <1>2 DEF WaitPidFails
  <2>1. TypeOK'
    BY DEF TypeOK, PcState
  <2>2. HoldersLive' /\ OthersInherited' /\ NoChildBeforeFork' /\ TimesOutOnlyWhileRunning'
    BY DEF TypeOK, HoldersLive, OthersInherited, NoChildBeforeFork, TimesOutOnlyWhileRunning, Alive
  <2>3. ForkFailures # {}
    BY DEF ChildFollowsCall, Reaps
  <2>4. ChildFollowsCall' /\ ReturnsOwnResult'
    BY <2>3 DEF ChildFollowsCall, ReturnsOwnResult, ForkFailures
  <2>5. QED
    BY <2>1, <2>2, <2>4
<1>3. QED
  BY <1>1, <1>2

LEMMA ChildrenKeepIInv ==
  ASSUME IInv, NEW p \in Callers, ChildWrites(p) \/ ChildEnds(p)
  PROVE  IInv'
<1> USE RunProcAssumption DEF IInv
<1>1. CASE ChildWrites(p)
  <2> USE <1>1 DEF ChildWrites
  <2>1. TypeOK'
    <3>1. written[p] \in 0..MaxChunks /\ written[p] + 1 \in 0..MaxChunks
      BY DEF TypeOK
    <3>2. \A q \in Callers : output[q] <= written'[q]
      BY <3>1 DEF TypeOK
    <3>3. QED
      BY <3>1, <3>2 DEF TypeOK
  <2>2. HoldersLive' /\ OthersInherited' /\ NoChildBeforeFork' /\ TimesOutOnlyWhileRunning'
    BY DEF TypeOK, HoldersLive, OthersInherited, NoChildBeforeFork, TimesOutOnlyWhileRunning, Alive
  <2>3. ChildFollowsCall' /\ ReturnsOwnResult'
    BY DEF TypeOK, ChildFollowsCall, ReturnsOwnResult, ForkFailures, Alive
  <2>4. QED
    BY <2>1, <2>2, <2>3
<1>2. CASE ChildEnds(p)
  <2> USE <1>2 DEF ChildEnds
  <2>1. TypeOK'
    BY DEF TypeOK, ChildState
  <2>2. HoldersLive' /\ OthersInherited' /\ NoChildBeforeFork' /\ TimesOutOnlyWhileRunning'
    BY DEF TypeOK, HoldersLive, OthersInherited, NoChildBeforeFork, TimesOutOnlyWhileRunning, Alive
  <2>3. ChildFollowsCall' /\ ReturnsOwnResult'
    BY DEF TypeOK, ChildFollowsCall, ReturnsOwnResult, ForkFailures, Alive
  <2>4. QED
    BY <2>1, <2>2, <2>3
<1>3. QED
  BY <1>1, <1>2

LEMMA UnchangedKeepsIInv ==
  ASSUME IInv, Signal \/ UNCHANGED procVars
  PROVE  IInv'
<1> USE DEF Signal, procVars, IInv
<1>1. TypeOK'
  BY DEF TypeOK
<1>2. HoldersLive' /\ OthersInherited' /\ NoChildBeforeFork'
  BY DEF HoldersLive, OthersInherited, NoChildBeforeFork, Alive
<1>3. ChildFollowsCall' /\ ReturnsOwnResult' /\ TimesOutOnlyWhileRunning'
  BY DEF ChildFollowsCall, ReturnsOwnResult, TimesOutOnlyWhileRunning, ForkFailures
<1>4. QED
  BY <1>1, <1>2, <1>3

LEMMA SpecIInv == Spec => []IInv
<1>1. IInv /\ [Next]_procVars => IInv'
  BY StartingKeepsIInv, PollingKeepsIInv, WaitingKeepsIInv, ChildrenKeepIInv, UnchangedKeepsIInv
  DEF Next, Call
<1>2. QED
  BY <1>1, InitIInv, PTL DEF Spec

(* The variables of run_proc have the values of their types: the output of *)
(* a call is part of what its child has written.                           *)
THEOREM TypeCorrect == Spec => []TypeOK
  BY SpecIInv, PTL DEF IInv

(* run_proc returns the result of its own child (util/proc.nix.cpp:67-142),*)
(* however many threads call it, unless a fork has failed.                 *)
THEOREM ResultIsOwn == Spec => []ReturnsOwnResult
  BY SpecIInv, PTL DEF IInv

(* A call times out after its child has ended only if another child has    *)
(* inherited the pipe: the deadline of poll is otherwise that of the child.*)
THEOREM LateTimeoutIsInherited == Spec => []TimesOutOnlyWhileRunning
  BY SpecIInv, PTL DEF IInv
=============================================================================
