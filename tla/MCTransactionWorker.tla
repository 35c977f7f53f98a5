------------------------ MODULE MCTransactionWorker -------------------------
(* Small deployments of the worker for TLC. *)
EXTENDS TransactionWorker, TLC

CONSTANTS w1, w2, pays, fails

\* The runs of worker.js are interchangeable; transactions differ by verdict.
Symmetry == Permutations(Instances)

MCVerdict == [t \in Txns |-> IF t = fails THEN "FAILED" ELSE "COMPLETED"]
=============================================================================
