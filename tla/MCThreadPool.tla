---------------------------- MODULE MCThreadPool ----------------------------
(***************************************************************************)
(* Small instances of ThreadPool for TLC.                                  *)
(***************************************************************************)
EXTENDS ThreadPool, TLC

\* Threads that are there from the start are interchangeable.
WorkerSymmetry == Permutations(InitialWorkers)
=============================================================================
