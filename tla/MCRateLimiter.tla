---------------------------- MODULE MCRateLimiter ---------------------------
(* A small window for TLC. *)
EXTENDS RateLimiter, TLC

CONSTANTS c1, c2
=============================================================================
