------------------------------- MODULE Intake -------------------------------
(***************************************************************************)
(* POST /pay: the handler of app.js:128-233 with saveTransactionWithOutbox *)
(* of store/store.js:34-128, for any number of concurrent requests.  A     *)
(* step is one statement of the database transaction, at READ COMMITTED:   *)
(* rows of a transaction that is still open are seen by nobody, but hold   *)
(* up an insert that would clash with them.                                *)
(*                                                                         *)
(* A request of which nobody hears again (its process died, the answer was *)
(* lost) looks to its client like one answered 500, and is one here.  When *)
(* a client calls again, that is another request.                          *)
(***************************************************************************)
EXTENDS Naturals, FiniteSets

CONSTANTS
    Requests,       \* calls of POST /pay; each draws its own txnId (app.js:170)
    Keys,           \* values of x-idempotency-key
    Bodies,         \* payloads, up to what createRequestHash ignores
    KeyOf, BodyOf,  \* the key and payload of each request
    Admissible,     \* payloads that pass validation and risk
    OwnIds,         \* values of a field "id" in a payload
    OwnIdOf,        \* what each payload has there
    NoId,           \* nothing
    PoolSize,       \* connections of the process: 10 by default
    MaxErrors       \* bound: statements that raise, processes that die

ASSUME RequestsAssumption ==
    /\ KeyOf \in [Requests -> Keys]
    /\ BodyOf \in [Requests -> Bodies]
    /\ Admissible \subseteq Bodies
ASSUME OwnIdsAssumption ==
    /\ OwnIdOf \in [Bodies -> OwnIds \cup {NoId}]
    /\ NoId \notin OwnIds
    /\ OwnIds \cap Requests = {}
ASSUME IntakeBoundsAssumption == PoolSize \in Nat \ {0} /\ MaxErrors \in Nat

VARIABLES
    pc,             \* where each request is
    rows,           \* transactions: what was committed
    outbox,         \* outbox_events: txn_id of what was committed
    answers,        \* the response of each request
    errors          \* history: how many statements raised

vars == <<pc, rows, outbox, answers, errors>>

Stages == {"sent", "admitted", "begun", "inserted", "complete", "refound", "done"}

Ids == Requests \cup OwnIds

Rows == [id: Ids, key: Keys, body: Bodies]

Unanswered == [kind |-> "none"]
Refusal == [kind |-> "refused"]
Conflict == [kind |-> "conflict"]
Error == [kind |-> "error"]

Answers ==
    {Unanswered, Refusal, Conflict, Error} \cup [kind: {"accepted", "duplicate"}, id: Ids]

TypeOK ==
    /\ pc \in [Requests -> Stages]
    /\ rows \subseteq Rows
    /\ outbox \subseteq Ids
    /\ answers \in [Requests -> Answers]
    /\ errors \in Nat
    /\ \A r \in Requests : pc[r] = "done" <=> answers[r] # Unanswered

Init ==
    /\ pc = [r \in Requests |-> "sent"]
    /\ rows = {}
    /\ outbox = {}
    /\ answers = [r \in Requests |-> Unanswered]
    /\ errors = 0

Goto(r, stage) == pc' = [pc EXCEPT ![r] = stage]

Reply(r, answer) ==
    /\ Goto(r, "done")
    /\ answers' = [answers EXCEPT ![r] = answer]

-----------------------------------------------------------------------------
(* The rows of a request *)

\* ...validatedTxn (app.js:181) comes after id: txnId (line 177).
IdOf(r) == IF OwnIdOf[BodyOf[r]] = NoId THEN r ELSE OwnIdOf[BodyOf[r]]

RowOf(r) == [id |-> IdOf(r), key |-> KeyOf[r], body |-> BodyOf[r]]

\* Mutant of Connected: client.release() is forgotten.
ConnectedForEver == {r \in Requests : pc[r] \notin {"sent", "admitted"}}

\* Requests that hold a database connection.
Connected == {r \in Requests : pc[r] \in {"begun", "inserted", "complete", "refound"}}

\* Requests whose row is inserted and not committed.
Inserting == {r \in Requests : pc[r] \in {"inserted", "complete"}}

\* Mutant of HeldUp: no unique index, so nothing to wait for.
HeldUpNever(r) == FALSE

\* An insert waits for an open transaction that has its key or its id.
HeldUp(r) == \E q \in Inserting : KeyOf[q] = KeyOf[r] \/ IdOf(q) = IdOf(r)

KeyIsTaken(r) == \E row \in rows : row.key = KeyOf[r]

IdIsTaken(r) == \E row \in rows : row.id = IdOf(r)

-----------------------------------------------------------------------------
(* The handler *)

Refuse(r) ==
    /\ pc[r] = "sent"
    /\ BodyOf[r] \notin Admissible
    /\ Reply(r, Refusal)
    /\ UNCHANGED <<rows, outbox, errors>>

Admit(r) ==
    /\ pc[r] = "sent"
    /\ BodyOf[r] \in Admissible
    /\ Goto(r, "admitted")
    /\ UNCHANGED <<rows, outbox, answers, errors>>

\* pool.connect() waits for a free connection; BEGIN.
Begin(r) ==
    /\ pc[r] = "admitted"
    /\ Cardinality(Connected) < PoolSize
    /\ Goto(r, "begun")
    /\ UNCHANGED <<rows, outbox, answers, errors>>

\* ON CONFLICT DO NOTHING covers the key, not the id.
Insert(r) ==
    /\ pc[r] = "begun"
    /\ ~HeldUp(r)
    /\ KeyIsTaken(r) \/ ~IdIsTaken(r)
    /\ Goto(r, IF KeyIsTaken(r) THEN "refound" ELSE "inserted")
    /\ UNCHANGED <<rows, outbox, answers, errors>>

\* A clash of ids alone raises: rolled back, and answered 500.
InsertClashes(r) ==
    /\ pc[r] = "begun"
    /\ ~HeldUp(r)
    /\ ~KeyIsTaken(r) /\ IdIsTaken(r)
    /\ Reply(r, Error)
    /\ UNCHANGED <<rows, outbox, errors>>

InsertEvent(r) ==
    /\ pc[r] = "inserted"
    /\ Goto(r, "complete")
    /\ UNCHANGED <<rows, outbox, answers, errors>>

\* Mutant of CommitRows: the event is not part of the database transaction.
CommitRowAlone(r) ==
    /\ rows' = rows \cup {RowOf(r)}
    /\ UNCHANGED outbox

CommitRows(r) ==
    /\ rows' = rows \cup {RowOf(r)}
    /\ outbox' = outbox \cup {IdOf(r)}

\* The response names txnId, not the id of the row (app.js:222).
Commit(r) ==
    /\ pc[r] = "complete"
    /\ CommitRows(r)
    /\ Reply(r, [kind |-> "accepted", id |-> r])
    /\ UNCHANGED errors

\* Mutants of AnswerFrom: the hashes are not compared; a duplicate is told txnId.
AnswerUncompared(row, r) == [kind |-> "duplicate", id |-> row.id]

AnswerWithDrawnId(row, r) ==
    IF row.body = BodyOf[r] THEN [kind |-> "duplicate", id |-> r] ELSE Conflict

\* The row that has the key, and the comparison of hashes (store.js:89-109,
\* app.js:205-218).
AnswerFrom(row, r) ==
    IF row.body = BodyOf[r] THEN [kind |-> "duplicate", id |-> row.id] ELSE Conflict

ReplyFromRow(r) ==
    /\ pc[r] = "refound"
    /\ \E row \in rows : row.key = KeyOf[r] /\ Reply(r, AnswerFrom(row, r))
    /\ UNCHANGED <<rows, outbox, errors>>

\* A statement raises, or the process dies: an open transaction is rolled back,
\* unless it was the COMMIT that went through unanswered.
Breaks(r) ==
    /\ pc[r] # "done"
    /\ errors < MaxErrors
    /\ errors' = errors + 1
    /\ \/ UNCHANGED <<rows, outbox>>
       \/ pc[r] = "complete" /\ CommitRows(r)
    /\ Reply(r, Error)

-----------------------------------------------------------------------------
Step(r) ==
    \/ Refuse(r) \/ Admit(r) \/ Begin(r) \/ Insert(r) \/ InsertClashes(r)
    \/ InsertEvent(r) \/ Commit(r) \/ ReplyFromRow(r)

Next == \E r \in Requests : Step(r) \/ Breaks(r)

Spec == Init /\ [][Next]_vars

\* Every statement is answered or raises; nobody has to break.
Fairness == \A r \in Requests : WF_vars(Step(r))

FairSpec == Spec /\ Fairness

-----------------------------------------------------------------------------
(* Safety *)

ToldId(r) == answers[r].kind \in {"accepted", "duplicate"}

\* tests/reliabilityTest.js:69-74 "all same-payload concurrent requests should
\* return original transaction id": however requests with one key are interleaved,
\* delayed or repeated, all that are told an id are told the same one.
OneIdPerKey ==
    \A q, r \in Requests :
        ToldId(q) /\ ToldId(r) /\ KeyOf[q] = KeyOf[r] => answers[q].id = answers[r].id

\* README.md:63-66: an answer is true of the database: who is told an id will find
\* that transaction, recorded under its own key and payload, and its event; who is
\* told of a conflict has one.
AnswersHold ==
    \A r \in Requests :
        /\ ToldId(r) => /\ answers[r].id \in outbox
                        /\ [RowOf(r) EXCEPT !.id = answers[r].id] \in rows
        /\ answers[r] = Conflict =>
              \E row \in rows : row.key = KeyOf[r] /\ row.body # BodyOf[r]

\* README.md:61 "Atomic transaction insert plus outbox insert": a transaction has
\* its event, whichever statement broke.
EventsMatchRows == outbox = {row.id : row \in rows}

\* README.md:63 "Race-safe idempotency".
OneRowPerKey == \A row1, row2 \in rows : row1.key = row2.key => row1 = row2

-----------------------------------------------------------------------------
(* Liveness, under FairSpec *)

\* Every request is answered: waiting for a connection and waiting for another
\* request's insert never close a circle, and a pool of any size will do.
EveryRequestAnswered == \A r \in Requests : <>(pc[r] = "done")

-----------------------------------------------------------------------------
(* What is promised *)

Promise == INSTANCE IdempotentPay WITH
    Admitted <- {r \in Requests : BodyOf[r] \in Admissible},
    ledger <- rows

\* POST /pay keeps the promise of IdempotentPay: the COMMIT is the moment a payment
\* is recorded, and no answer, given however late, contradicts it.
KeepsPromise == Promise!Spec
=============================================================================
