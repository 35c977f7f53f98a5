------------------------------ MODULE MCIntake ------------------------------
(* Small sets of requests for TLC. *)
EXTENDS Intake, TLC

CONSTANTS r1, r2, r3, r4, r5, r6, k1, k2, good, other, bad, own

\* Four requests have one key, one of them for another payment; two have another
\* key, one of them with a payload that is refused.
MCKeyOf == [r \in Requests |-> IF r \in {r5, r6} THEN k2 ELSE k1]
MCBodyOf == [r \in Requests |-> IF r = r3 THEN other ELSE IF r = r6 THEN bad ELSE good]

NoOwnIds == [b \in Bodies |-> NoId]
SomeOwnIds == [b \in Bodies |-> IF b = good THEN own ELSE NoId]
=============================================================================
