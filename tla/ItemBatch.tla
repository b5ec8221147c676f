------------------------------ MODULE ItemBatch ------------------------------
(***************************************************************************)
(* What a call of bpt::parallel_run promises its callers (compile_all,     *)
(* archive_all, link_all, run_all_tests): every item is handed to the      *)
(* callback at most once, none is handed out once a callback is known to   *)
(* have thrown, and the call returns when no callback is in progress,      *)
(* answering TRUE exactly when every item was processed without throwing.  *)
(* ParallelRun.tla shows the worker threads implement this, CompileAll.tla  *)
(* and Build.tla use it for the batches of a build.                        *)
(***************************************************************************)
CONSTANTS Items,    \* what the range holds
          None      \* "the call has not returned yet"

VARIABLES status,   \* what has become of each item
          result    \* the answer of the call, or None

batchVars == <<status, result>>

Status == {"pending", "running", "ok", "threw"}

Failed == \E i \in Items : status[i] = "threw"

Running == {i \in Items : status[i] = "running"}

Init == /\ status = [i \in Items |-> "pending"]
        /\ result = None

Become(i, from, to) == /\ status[i] = from
                       /\ status' = [status EXCEPT ![i] = to]
                       /\ UNCHANGED result

Begin(i) == ~Failed /\ Become(i, "pending", "running")

Succeed(i) == Become(i, "running", "ok")

Throw(i) == Become(i, "running", "threw")

Return == /\ result = None
          /\ Running = {}
          /\ Failed \/ \A i \in Items : status[i] = "ok"
          /\ result' = ~Failed
          /\ UNCHANGED status

Next == \/ \E i \in Items : Begin(i) \/ Succeed(i) \/ Throw(i)
        \/ Return

Spec == Init /\ [][Next]_batchVars
=============================================================================
