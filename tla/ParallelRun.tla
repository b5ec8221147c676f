----------------------------- MODULE ParallelRun -----------------------------
(***************************************************************************)
(* bpt::parallel_run (util/parallel.hpp): a range is processed by worker   *)
(* threads that share an iterator and a list of exceptions under one       *)
(* mutex. The caller holds that mutex while it creates the workers, lets   *)
(* it go, joins every worker, and answers whether nothing was thrown.      *)
(*                                                                         *)
(* Every section that runs under the mutex is one or two actions; the      *)
(* callback runs outside it. A callback that throws is "caught" until its  *)
(* worker has the mutex again: others may still take items in between.     *)
(***************************************************************************)
EXTENDS Integers

CONSTANTS NItems,               \* length of the range
          n_jobs,               \* what the caller asked for
          HardwareConcurrency,  \* what the C++ library answers; 0 if unknown
          Main,                 \* the calling thread, as a holder of the mutex
          None                  \* no thread / no answer / no item

(* n_jobs < 1 asks for a default. *)
Jobs == IF n_jobs < 1 THEN HardwareConcurrency + 2 ELSE n_jobs

Items == 1..NItems
Workers == 1..Jobs

ASSUME ParallelRunAssumption ==
    /\ NItems \in Nat
    /\ n_jobs \in Int
    /\ HardwareConcurrency \in Nat
    /\ Main \notin Nat
    /\ None \notin Nat \cup BOOLEAN
    /\ Main # None

VARIABLES
    mut,         \* the thread that holds the mutex, or None
    spawned,     \* how many workers the caller has created
    wpc,         \* where each worker is in run_one
    item,        \* the item a worker is working on
    iter,        \* the shared iterator: the next item to hand out
    exceptions,  \* the items whose callback is recorded to have thrown
    status,      \* what has become of each item (see ItemBatch)
    result       \* the answer of the call, or None

vars == <<mut, spawned, wpc, item, iter, exceptions, status, result>>

WorkerState == {"unborn", "top", "locked", "fetched", "calling", "caught", "exited"}

Init == /\ mut = Main
        /\ spawned = 0
        /\ wpc = [w \in Workers |-> "unborn"]
        /\ item = [w \in Workers |-> None]
        /\ iter = 1
        /\ exceptions = {}
        /\ status = [i \in Items |-> "pending"]
        /\ result = None

(* w moves from a to b. *)
Go(w, a, b) == wpc[w] = a /\ wpc' = [wpc EXCEPT ![w] = b]
-----------------------------------------------------------------------------
(* The caller creates the workers, all while it holds the mutex, ... *)
Spawn == /\ mut = Main
         /\ spawned < Jobs
         /\ spawned' = spawned + 1
         /\ Go(spawned + 1, "unborn", "top")
         /\ UNCHANGED <<mut, item, iter, exceptions, status, result>>

(* ... unlocks, ... *)
ReleaseWorkers == /\ mut = Main
                  /\ spawned = Jobs
                  /\ mut' = None
                  /\ UNCHANGED <<spawned, wpc, item, iter, exceptions, status, result>>

(* ... and returns once it has joined them all. *)
JoinAll == /\ result = None
           /\ mut # Main
           /\ \A w \in Workers : wpc[w] = "exited"
           /\ result' = (exceptions = {})
           /\ UNCHANGED <<mut, spawned, wpc, item, iter, exceptions, status>>

(* Mutation: the loop forgets to take the lock. *)
LockNotTaken(w) == /\ Go(w, "top", "locked")
                   /\ UNCHANGED <<mut, spawned, item, iter, exceptions, status, result>>

(* A worker at the head of its loop takes the mutex. *)
Lock(w) == /\ mut = None
           /\ Go(w, "top", "locked")
           /\ mut' = w
           /\ UNCHANGED <<spawned, item, iter, exceptions, status, result>>

(* Mutation: the worker breaks out of the loop without releasing the lock, *)
(* as it would with a plain mut.lock() in place of the unique_lock.        *)
LeaveLocked(w) == /\ exceptions # {} \/ iter = NItems + 1
                  /\ Go(w, "locked", "exited")
                  /\ UNCHANGED <<mut, spawned, item, iter, exceptions, status, result>>

(* It leaves the loop after an exception, whoever threw it, or at the end. *)
Leave(w) == /\ exceptions # {} \/ iter = NItems + 1
            /\ Go(w, "locked", "exited")
            /\ mut' = None
            /\ UNCHANGED <<spawned, item, iter, exceptions, status, result>>

(* Mutation: nobody looks at the exceptions before taking an item. *)
FetchAfterFailure(w) == /\ iter # NItems + 1
                        /\ Go(w, "locked", "fetched")
                        /\ item' = [item EXCEPT ![w] = iter]
                        /\ status' = [status EXCEPT ![iter] = "running"]
                        /\ UNCHANGED <<mut, spawned, iter, exceptions, result>>

(* Otherwise it looks at the next item, ... *)
Fetch(w) == /\ exceptions = {}
            /\ iter # NItems + 1
            /\ Go(w, "locked", "fetched")
            /\ item' = [item EXCEPT ![w] = iter]
            /\ status' = [status EXCEPT ![iter] = "running"]
            /\ UNCHANGED <<mut, spawned, iter, exceptions, result>>

(* Mutation: the iterator is advanced twice (a for loop that also increments). *)
AdvanceTwice(w) == /\ Go(w, "fetched", "calling")
                   /\ iter' = iter + 2
                   /\ mut' = None
                   /\ UNCHANGED <<spawned, item, exceptions, status, result>>

(* ... advances the iterator, unlocks and calls back. *)
Advance(w) == /\ Go(w, "fetched", "calling")
              /\ iter' = iter + 1
              /\ mut' = None
              /\ UNCHANGED <<spawned, item, exceptions, status, result>>

CallReturns(w) == /\ Go(w, "calling", "top")
                  /\ status' = [status EXCEPT ![item[w]] = "ok"]
                  /\ item' = [item EXCEPT ![w] = None]
                  /\ UNCHANGED <<mut, spawned, iter, exceptions, result>>

CallThrows(w) == /\ Go(w, "calling", "caught")
                 /\ UNCHANGED <<mut, spawned, item, iter, exceptions, status, result>>

(* The handler locks, records the exception and breaks; leaving the block  *)
(* releases the mutex.                                                     *)
Record(w) == /\ mut = None
             /\ Go(w, "caught", "exited")
             /\ exceptions' = exceptions \cup {item[w]}
             /\ status' = [status EXCEPT ![item[w]] = "threw"]
             /\ item' = [item EXCEPT ![w] = None]
             /\ UNCHANGED <<mut, spawned, iter, result>>

WorkerStep(w) == Lock(w) \/ Leave(w) \/ Fetch(w) \/ Advance(w) \/ CallReturns(w)
                 \/ CallThrows(w) \/ Record(w)

Next == Spawn \/ ReleaseWorkers \/ JoinAll \/ \E w \in Workers : WorkerStep(w)

(* Every thread is scheduled and every callback ends. A worker that waits  *)
(* for the mutex may be overtaken for as long as there are other workers.  *)
Fairness == /\ WF_vars(Spawn \/ ReleaseWorkers \/ JoinAll)
            /\ \A w \in Workers : WF_vars(WorkerStep(w))

Spec == Init /\ [][Next]_vars
FairSpec == Spec /\ Fairness
-----------------------------------------------------------------------------
TypeOK == /\ mut \in Workers \cup {Main, None}
          /\ spawned \in 0..Jobs
          /\ wpc \in [Workers -> WorkerState]
          /\ item \in [Workers -> Items \cup {None}]
          /\ iter \in 1..(NItems + 1)
          /\ exceptions \in SUBSET Items
          /\ status \in [Items -> {"pending", "running", "ok", "threw"}]
          /\ result \in BOOLEAN \cup {None}

(* No item is in the hands of two workers: the callbacks of one compile    *)
(* batch never write the same object file at once.                         *)
OneWorkerPerItem ==
    \A v, w \in Workers : item[v] = item[w] /\ item[v] # None => v = w

(* The workers keep the promise the callers rely on: no item twice, no new *)
(* item once an exception is recorded, TRUE only if every callback         *)
(* returned, and no callback still running when the call returns.          *)
Batch == INSTANCE ItemBatch
ImplementsItemBatch == Batch!Spec

(* The join cannot hang: the caller gets its answer, also with one worker, *)
(* with an empty range and after exceptions.                               *)
EventuallyReturns == <>(result # None)
=============================================================================
