------------------------------ MODULE MCWorkerPool ------------------------------
(* Constants for the model-checking runs of WorkerPool. *)
EXTENDS WorkerPool, TLC

CONSTANTS w1, w2

TwoWorkers == {w1, w2}
OneJob == {1}

WorkerSymmetry == Permutations(TwoWorkers)
=============================================================================
