------------------------- MODULE MCOutboxProcessor --------------------------
(* Small deployments of the outbox process for TLC. *)
EXTENDS OutboxProcessor, TLC

CONSTANTS o1, o2
=============================================================================
