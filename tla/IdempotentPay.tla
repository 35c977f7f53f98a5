--------------------------- MODULE IdempotentPay ----------------------------
(***************************************************************************)
(* What POST /pay promises to its clients (README.md:63-66, and the tests  *)
(* of tests/reliabilityTest.js:54-124): each key belongs to the first      *)
(* payment that is recorded under it, at once and for ever; the same       *)
(* payment is told the recorded id, another one is told of the conflict;   *)
(* a request that fails may have been recorded, and is then found by the   *)
(* next one with its key.                                                  *)
(***************************************************************************)
CONSTANTS
    Requests,       \* calls of POST /pay; a repeated call is another element
    Ids,            \* transaction ids
    KeyOf,          \* the x-idempotency-key of each request
    BodyOf,         \* its payload, up to what the request hash ignores
    Admitted        \* requests that pass validation and risk

VARIABLES
    ledger,         \* the payments on record
    answers         \* what each request was answered

vars == <<ledger, answers>>

Unanswered == [kind |-> "none"]
AcceptedAs(id) == [kind |-> "accepted", id |-> id]
DuplicateOf(id) == [kind |-> "duplicate", id |-> id]
Conflict == [kind |-> "conflict"]
Refusal == [kind |-> "refused"]
Error == [kind |-> "error"]

Entry(r, id) == [id |-> id, key |-> KeyOf[r], body |-> BodyOf[r]]

Answer(r, answer) ==
    /\ answers[r] = Unanswered
    /\ answers' = [answers EXCEPT ![r] = answer]

Init ==
    /\ ledger = {}
    /\ answers = [r \in Requests |-> Unanswered]

\* The first of its key goes on record under an id of its own.  Its client may
\* not hear of it.
Record(r) ==
    /\ r \in Admitted
    /\ \A e \in ledger : e.key # KeyOf[r]
    /\ \E id \in Ids :
          /\ \A e \in ledger : e.id # id
          /\ ledger' = ledger \cup {Entry(r, id)}
          /\ Answer(r, AcceptedAs(id)) \/ Answer(r, Error)

\* The key is on record: its payment decides.
Repeat(r) ==
    /\ r \in Admitted
    /\ \E e \in ledger :
          /\ e.key = KeyOf[r]
          /\ Answer(r, IF e.body = BodyOf[r] THEN DuplicateOf(e.id) ELSE Conflict)
    /\ UNCHANGED ledger

Refuse(r) ==
    /\ r \notin Admitted
    /\ Answer(r, Refusal)
    /\ UNCHANGED ledger

Fail(r) ==
    /\ Answer(r, Error)
    /\ UNCHANGED ledger

Next == \E r \in Requests : Record(r) \/ Repeat(r) \/ Refuse(r) \/ Fail(r)

Spec == Init /\ [][Next]_vars
=============================================================================
