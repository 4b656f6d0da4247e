--------------------------- MODULE MCWorkerQueue ---------------------------
(* Small instances of WorkerQueue for TLC. *)
EXTENDS WorkerQueue, TLC

CallSymmetry == Permutations(Calls)
=============================================================================
