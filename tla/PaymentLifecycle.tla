-------------------------- MODULE PaymentLifecycle --------------------------
(***************************************************************************)
(* What payment-sim promises about a payment, as GET /status/:id shows it: *)
(* it is accepted once, stays open while it is worked on, and settles at   *)
(* what the business rules say of it. A fault of a worker may open a       *)
(* settled payment again, and enough of them make one FAILED that should   *)
(* have had another outcome, or had it already. Faults of the outbox do    *)
(* not count: they may keep a payment open and nothing else.               *)
(***************************************************************************)
EXTENDS Naturals

CONSTANTS
    Payments,
    Outcome,            \* what the business rules say of each payment
    Attempts            \* failures after which a payment is FAILED

VARIABLES
    state,              \* none, open or an outcome
    faults              \* faults of workers so far

vars == <<state, faults>>

Outcomes == {"COMPLETED", "DECLINED", "FAILED"}

Init ==
    /\ state = [t \in Payments |-> "none"]
    /\ faults = 0

Become(t, s) == state' = [state EXCEPT ![t] = s]

Accept(t) ==
    /\ state[t] = "none"
    /\ Become(t, "open")
    /\ UNCHANGED faults

\* The step that changes a payment may be the fault itself: it took effect and its
\* answer was lost.
FaultOrNone == faults' \in {faults, faults + 1}

Settle(t) ==
    /\ state[t] = "open"
    /\ FaultOrNone
    /\ Become(t, Outcome[t])

\* A payment that is open, or was settled otherwise.
Fail(t) ==
    /\ state[t] # "none"
    /\ FaultOrNone
    /\ faults' >= Attempts
    /\ Become(t, "FAILED")

Reopen(t) ==
    /\ state[t] \in Outcomes
    /\ FaultOrNone
    /\ faults' > 0
    /\ Become(t, "open")

Fault == faults' = faults + 1 /\ UNCHANGED state

Next ==
    \/ \E t \in Payments : Accept(t) \/ Settle(t) \/ Fail(t) \/ Reopen(t)
    \/ Fault

Spec == Init /\ [][Next]_vars
=============================================================================
