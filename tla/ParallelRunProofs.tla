-------------------------- MODULE ParallelRunProofs --------------------------
(***************************************************************************)
(* For every range length and every number of workers: parallel_run's      *)
(* variables keep their types, no item is in the hands of two workers, and *)
(* every step of the threads is a step of ItemBatch or changes nothing of  *)
(* it. IInv is the inductive invariant all of it follows from.             *)
(***************************************************************************)
EXTENDS ParallelRun, TLAPS

(* Exactly the thread between lock and unlock holds the mutex; while the   *)
(* caller has it, no worker is past the head of its loop.                  *)
MutexHeld ==
    /\ \A w \in Workers : mut = w <=> wpc[w] \in {"locked", "fetched"}
    /\ \A w \in Workers : wpc[w] = "unborn" <=> w > spawned
    /\ mut = Main => \A w \in Workers : wpc[w] \in {"unborn", "top"}
    /\ mut # Main => spawned = Jobs

(* A worker has an item from the moment it looks at it until its callback  *)
(* is over, and it is the iterator's until the iterator moves on.          *)
ItemInHand ==
    \A w \in Workers :
        /\ item[w] # None <=> wpc[w] \in {"fetched", "calling", "caught"}
        /\ item[w] # None => status[item[w]] = "running"
        /\ wpc[w] = "fetched" => item[w] = iter /\ exceptions = {}
        /\ wpc[w] \in {"calling", "caught"} => item[w] < iter

(* The iterator separates what was handed out from what was not. *)
HandedOut ==
    \A i \in Items :
        /\ status[i] = "running" => \E w \in Workers : item[w] = i
        /\ i < iter => status[i] # "pending"
        /\ i > iter => status[i] = "pending"
        /\ i = iter /\ (\A w \in Workers : wpc[w] # "fetched") => status[i] = "pending"

(* What the exception list says, and why a worker leaves. *)
WhyExited ==
    /\ exceptions = {i \in Items : status[i] = "threw"}
    /\ \A w \in Workers : wpc[w] = "exited" => exceptions # {} \/ iter = NItems + 1
    /\ result # None => \A w \in Workers : wpc[w] = "exited"

IInv == TypeOK /\ OneWorkerPerItem /\ MutexHeld /\ ItemInHand /\ HandedOut /\ WhyExited
-----------------------------------------------------------------------------
(* There is always a worker: a caller's "default" of n_jobs < 1 means two  *)
(* more than the number of processors, even if that number is unknown.     *)
LEMMA SomeWorker == Jobs \in Nat /\ 1 \in Workers
  BY ParallelRunAssumption DEF Jobs, Workers

(* Before the first worker exists, the invariant holds. *)
LEMMA InitEstablishesIInv == Init => IInv
  BY ParallelRunAssumption, SomeWorker
     DEF Init, IInv, TypeOK, OneWorkerPerItem, MutexHeld, ItemInHand, HandedOut, WhyExited,
         Items, Workers, WorkerState

(* Every step of the caller and of each worker preserves the invariant. *)
LEMMA NextPreservesIInv == IInv /\ [Next]_vars => IInv'
<1> SUFFICES ASSUME IInv, [Next]_vars PROVE IInv'
  OBVIOUS
<1> USE ParallelRunAssumption, SomeWorker
        DEF IInv, TypeOK, OneWorkerPerItem, MutexHeld, ItemInHand, HandedOut, WhyExited,
            Items, Workers, WorkerState, Go
<1>1. CASE Spawn
  BY <1>1 DEF Spawn
<1>2. CASE ReleaseWorkers
  BY <1>2 DEF ReleaseWorkers
<1>3. CASE JoinAll
  BY <1>3 DEF JoinAll
<1>4. ASSUME NEW w \in Workers, Lock(w) PROVE IInv'
  BY <1>4 DEF Lock
<1>5. ASSUME NEW w \in Workers, Leave(w) PROVE IInv'
  BY <1>5 DEF Leave
<1>6. ASSUME NEW w \in Workers, Fetch(w) PROVE IInv'
  BY <1>6 DEF Fetch
<1>7. ASSUME NEW w \in Workers, Advance(w) PROVE IInv'
  BY <1>7 DEF Advance
<1>8. ASSUME NEW w \in Workers, CallReturns(w) PROVE IInv'
  BY <1>8 DEF CallReturns
<1>9. ASSUME NEW w \in Workers, CallThrows(w) PROVE IInv'
  BY <1>9 DEF CallThrows
<1>10. ASSUME NEW w \in Workers, Record(w) PROVE IInv'
  BY <1>10 DEF Record
<1>11. CASE UNCHANGED vars
  BY <1>11 DEF vars
<1> QED
  BY <1>1, <1>2, <1>3, <1>4, <1>5, <1>6, <1>7, <1>8, <1>9, <1>10, <1>11 DEF Next, WorkerStep

(* The variables of parallel_run keep their types and IInv always holds. *)
THEOREM Invariance == Spec => []IInv
<1>1. Init => IInv
  BY InitEstablishesIInv
<1>2. IInv /\ [Next]_vars => IInv'
  BY NextPreservesIInv
<1> QED
  BY <1>1, <1>2, PTL DEF Spec

(* Type correctness: in particular the shared iterator never passes the    *)
(* end of the range, however the workers overtake each other.              *)
THEOREM TypeCorrect == Spec => []TypeOK
<1>1. IInv => TypeOK
  BY DEF IInv
<1> QED
  BY <1>1, Invariance, PTL

(* No item is in the hands of two workers, for any number of workers. *)
THEOREM ItemsAreExclusive == Spec => []OneWorkerPerItem
<1>1. IInv => OneWorkerPerItem
  BY DEF IInv
<1> QED
  BY <1>1, Invariance, PTL
-----------------------------------------------------------------------------
(* Only three steps show outside: an item is begun, ends well, or throws.  *)
LEMMA BatchInit == Init => Batch!Init
  BY DEF Init, Batch!Init

(* Fetch is ItemBatch's Begin: no exception is recorded, so nothing that   *)
(* ItemBatch calls failed is visible yet.                                  *)
LEMMA FetchBegins ==
  ASSUME IInv, NEW w \in Workers, Fetch(w)
  PROVE  \E i \in Items : Batch!Begin(i)
<1>1. iter \in Items /\ status[iter] = "pending"
  BY SomeWorker, ParallelRunAssumption
     DEF IInv, TypeOK, MutexHeld, HandedOut, Fetch, Go, Items, Workers, WorkerState
<1>2. ~Batch!Failed
  BY DEF IInv, WhyExited, Fetch, Batch!Failed
<1>3. Batch!Begin(iter)
  BY <1>1, <1>2 DEF Fetch, Batch!Begin, Batch!Become
<1> QED
  BY <1>1, <1>3

(* The callback's end is one of ItemBatch's two ends. *)
LEMMA CallbackEnds ==
  ASSUME IInv, NEW w \in Workers, CallReturns(w) \/ Record(w)
  PROVE  \E i \in Items : Batch!Succeed(i) \/ Batch!Throw(i)
<1>1. item[w] \in Items /\ status[item[w]] = "running"
  BY DEF IInv, TypeOK, ItemInHand, CallReturns, Record, Go
<1>2. CASE CallReturns(w)
  BY <1>1, <1>2 DEF CallReturns, Batch!Succeed, Batch!Become
<1>3. CASE Record(w)
  BY <1>1, <1>3 DEF Record, Batch!Throw, Batch!Become
<1> QED
  BY <1>2, <1>3

(* Once every worker has left, nothing runs, and what was not handed out   *)
(* was withheld because of an exception.                                   *)
LEMMA JoinReturns ==
  ASSUME IInv, JoinAll
  PROVE  Batch!Return
<1>1. Batch!Running = {}
  BY ParallelRunAssumption DEF IInv, HandedOut, ItemInHand, JoinAll, Items, Batch!Running
<1>2. Batch!Failed <=> exceptions # {}
  BY DEF IInv, WhyExited, Batch!Failed
<1>3. exceptions = {} => \A i \in Items : status[i] = "ok"
  <2> SUFFICES ASSUME exceptions = {}, NEW i \in Items PROVE status[i] = "ok"
    OBVIOUS
  <2>1. iter = NItems + 1
    BY SomeWorker DEF IInv, WhyExited, JoinAll
  <2>2. i < iter
    BY <2>1, ParallelRunAssumption DEF Items
  <2>3. status[i] # "pending" /\ status[i] # "threw" /\ status[i] # "running"
    BY <1>1, <2>2 DEF IInv, HandedOut, WhyExited, Batch!Running
  <2> QED
    BY <2>3 DEF IInv, TypeOK
<1> QED
  BY <1>1, <1>2, <1>3 DEF JoinAll, Batch!Return

(* Every other step leaves what ItemBatch sees alone. *)
LEMMA StepsImplementBatch == IInv /\ [Next]_vars => [Batch!Next]_(Batch!batchVars)
<1> SUFFICES ASSUME IInv, [Next]_vars PROVE Batch!Next \/ UNCHANGED <<status, result>>
  BY DEF Batch!batchVars
<1>1. CASE JoinAll
  BY <1>1, JoinReturns DEF Batch!Next
<1>2. ASSUME NEW w \in Workers, WorkerStep(w) PROVE Batch!Next \/ UNCHANGED <<status, result>>
  <2>1. CASE Fetch(w)
    BY <2>1, FetchBegins DEF Batch!Next
  <2>2. CASE CallReturns(w) \/ Record(w)
    BY <2>2, CallbackEnds DEF Batch!Next
  <2>3. CASE Lock(w) \/ Leave(w) \/ Advance(w) \/ CallThrows(w)
    BY <2>3 DEF Lock, Leave, Advance, CallThrows
  <2> QED
    BY <1>2, <2>1, <2>2, <2>3 DEF WorkerStep
<1>3. CASE Spawn \/ ReleaseWorkers
  BY <1>3 DEF Spawn, ReleaseWorkers
<1>4. CASE UNCHANGED vars
  BY <1>4 DEF vars
<1> QED
  BY <1>1, <1>2, <1>3, <1>4 DEF Next

(* The worker threads implement ItemBatch, which is all that compile_all,  *)
(* archive_all, link_all and run_all_tests know of parallel_run.           *)
THEOREM ImplementsBatch == Spec => ImplementsItemBatch
<1>1. Init => Batch!Init
  BY BatchInit
<1>2. IInv /\ [Next]_vars => [Batch!Next]_(Batch!batchVars)
  BY StepsImplementBatch
<1> QED
  BY <1>1, <1>2, Invariance, PTL DEF Spec, ImplementsItemBatch, Batch!Spec
=============================================================================
