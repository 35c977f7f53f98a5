------------------------ MODULE MCProcessingTimeline ------------------------
(* A small deployment of the worker and its timelines for TLC. *)
EXTENDS ProcessingTimeline

CONSTANTS w1, w2, pays, fails

MCVerdict == [t \in Txns |-> IF t = fails THEN "FAILED" ELSE "COMPLETED"]

Symmetry == Permutations(Instances)
=============================================================================
