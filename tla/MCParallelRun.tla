---------------------------- MODULE MCParallelRun ----------------------------
(* Three items and three workers: a worker can fail while a second one is  *)
(* in its callback and a third one waits for the mutex.                    *)
EXTENDS ParallelRun
=============================================================================
