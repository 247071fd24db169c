----------------------------- MODULE MCStoreClients -----------------------------
(* Constants for the model-checking run of StoreClients. *)
EXTENDS StoreClients, JobAttempts, TLC

CONSTANTS w1, w2

TwoWorkers == {w1, w2}

WorkerSymmetry == Permutations(TwoWorkers)
=============================================================================
