---------------------------- MODULE MCMemoryClients ----------------------------
(* Constants for the model-checking run of MemoryClients. *)
EXTENDS MemoryClients, TLC

CONSTANTS w1, w2

TwoWorkers == {w1, w2}

WorkerSymmetry == Permutations(TwoWorkers)
=============================================================================
