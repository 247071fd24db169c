-------------------------- MODULE MCSqliteTransactions --------------------------
(* Constants for the model-checking runs of SqliteTransactions. *)
EXTENDS SqliteTransactions, TLC

CONSTANTS w1, c1, c2

OneWorker == {w1}
TwoCallers == {c1, c2}
=============================================================================
