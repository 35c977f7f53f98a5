---------------------------- MODULE MCPaymentSim ----------------------------
(* Small deployments of the whole system for TLC. *)
EXTENDS PaymentSim, TLC

CONSTANTS o1, o2, w1, w2

\* The payments with even numbers fail.
MCVerdict == [t \in Txns |-> IF t % 2 = 0 THEN "FAILED" ELSE "COMPLETED"]
=============================================================================
