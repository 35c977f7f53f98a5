# Verification of payment-sim

TLA+ modules of payment-sim, the TLC configurations that check them on small
instances, and theorems about them that TLAPS checks for every instance. Line
numbers refer to the files of the repository.

## 1. The system

| Part | Code | State | Operations | What makes it correct |
|---|---|---|---|---|
| Intake | `app.js:128-233`, `store/store.js:8-128` | rows of `transactions` and `outbox_events` | `POST /pay`: validate, assess risk, insert both rows in one database transaction, or answer from the row that has the key | one transaction per idempotency key, also for racing and repeated requests; never a transaction without its event |
| Decisions | `validation/`, `risk/`, `processor/`, `broker/`, `systems/` | none | pure functions of a payment | the worker decides on what it is given as the rules say of the request; no accepted payment runs into a branch nobody wrote |
| Outbox | `outbox/outboxProcessor.js`, `outbox.js` | `outbox_events` (status, claim time, three counters), the batch in memory | a pass: recover stale events, claim a batch, add a job and mark the event for each | no event SENT without a job; no two processes on one event; every event comes to rest |
| Queue | BullMQ and Redis (external), `jobs/transactionQueue.js` | one job per transaction (`jobId` = `txn_id`) | add, take, complete, fail and retry, stall | - |
| Worker | `jobs/transactionJobHandler.js`, `jobs/transactionWorker.js`, `worker.js` | `transactions` (status, lease, retry count), `dead_letter_jobs`, the job in hand | claim, heartbeat, finalize; on failure reset for a retry or dead-letter | one owner at a time; work leaves the queue final; FAILED only with a durable dead letter |
| Recovery | `recovery/transactionRecovery.js`, `store/store.js:302-341` | - | reset rows whose lease ran out | no row stays PROCESSING |
| Migrations | `db/migrate.js` | `schema_migrations` | apply what is missing under an advisory lock | each file applied once, in order |
| Rate limiter | `middleware/rateLimiter.js` | a counter per address in Redis | count a request in a fixed window | bounded requests per window |
| Reads, auth, CORS, metrics, data handling, logging, config | `app.js:44-126`, `middleware/`, `observability/`, `utils/`, `logger/`, `config/` | none | one request each | stateless |

How they interact. API, worker and outbox are separate processes that share
nothing but PostgreSQL and Redis. The API inserts a transaction (ACCEPTED) and
its event (PENDING); an outbox process turns the event into a job and marks it
SENT; a worker takes the job, claims the row (PROCESSING, with a lease it renews
by heartbeat) and writes the outcome (COMPLETED or DECLINED). A handler that
throws is retried by BullMQ up to three attempts; after each failed attempt the
`failed` event handler writes the row back to ACCEPTED, and after the last one it
saves a dead letter and writes FAILED. The recovery scheduler, which runs in the
outbox process, writes rows with an expired lease back to ACCEPTED.

What is hard is everything between two statements: every `await` lets other
processes run, any statement may fail before or after it took effect, processes
die, and leases, locks and claims run out under processes that are merely slow.
PROJECT.json lists each such place under `hazards`.

## 2. Modules

```
ProcessorInstances          runs of worker.js, and "nobody"
  TransactionStore          a row of transactions; what each statement makes of it
  BullQueue                 a job (external)
    TransactionWorker       workers, failed handler, heartbeat, recovery, faults
      MCTransactionWorker       definitions for TLC
      TransactionWorkerProofs   theorems
      ProcessingTimeline        the same, with the column processing_timeline
        MCProcessingTimeline        definitions for TLC
        ProcessingTimelineProofs    theorems
      PaymentSim                the same, with an instance of OutboxProcessor beside it;
                                implements PaymentLifecycle
        MCPaymentSim                definitions for TLC
        PaymentSimProofs            theorems, over those of TransactionWorkerProofs
OutboxProcessor             outbox processes, their events and faults
  MCOutboxProcessor         definitions for TLC
  OutboxProcessorProofs     theorems
PaymentLifecycle            the life of a payment (abstract)
IdempotentPay               what POST /pay promises (abstract)
  Intake                    concurrent requests, statement by statement; implements it
    MCIntake                    definitions for TLC
    IntakeProofs                theorems
PaymentDecisions            validation, risk, PIN, payload, processor, router, systems
  MCPaymentDecisions, PaymentDecisionsProofs
Migrations                  runs of the migration runner
  MCMigrations, MigrationsProofs
RateLimiter                 the limiter of production, over Redis
  MCRateLimiter, RateLimiterProofs
```

**TransactionStore** keeps of a row what decides control: `status`, `owner`
(`processor_instance_id`), `lease` (`lease_expires_at` against now: none, live,
expired) and `retryCount`. Each SQL statement is a condition (`CanStart`, `Owns`,
`Abandoned`: its WHERE clause) and a new row (`Started`, `Renewed`, `Finalized`,
`Recovered`, `Updated`). Route, reason and result decide nothing; the timeline is in
ProcessingTimeline.

**BullQueue** is the job as the code relies on it: a `jobId` that exists absorbs
another `add()`, a completed job is removed and a failed one kept
(`removeOnComplete`, `removeOnFail`), three attempts with backoff, and a job that
loses its lock goes back to the queue until its stall limit fails it for good.
BullMQ is not in the repository; nothing is claimed about its own code.

**TransactionWorker**: one step is one statement or one BullMQ transition.

| Action | Code |
|---|---|
| `TakeJob`, `TakeDoomed` | the BullMQ worker fetches a job (`transactionWorker.js:12-20`), or fails one over its stall limit |
| `ReadTxn` | `getTransaction` and both early returns, `transactionJobHandler.js:32-58` |
| `Claim` | `startTransactionProcessing`, and "claim lost", lines 60-89 |
| `Heartbeat` | the interval of lines 91-117 |
| `ProcessorFails`, `Finalize` | `processClaimedTransaction`, lines 130-212; which outcome is the constant `Verdict` of the transaction |
| `QueryFails` | any of these statements raises, executed or not; the handler throws |
| `CompleteJob`, `FailJob` | BullMQ moves the job, if the worker still has its lock; failing it queues a call of the `failed` handler |
| `HandleRetry`, `SaveDeadLetter`, `MarkFailed` | the `failed` handler, `transactionWorker.js:26-66` |
| `HandleRetryFails` | the statement of line 39 raises: no `try` surrounds it, so the rejection ends the process |
| `DeadLetterFails` | the `catch` of line 63 |
| `RetryDue`, `Stall`, `LeaseExpires`, `Crash` | time and death |
| `Recover` | `recoverStaleProcessingTransactions` |
| `Enqueue` | the outbox process adds the job, possibly again after it is gone |

A process is one element of `Instances`: `processorInstanceId` is drawn when the
process starts, so a restarted worker is another element. A process handles one
job at a time (BullMQ's default concurrency), while its `failed` handler calls
run beside it (`failures`). `claims` and `myClaim` are history variables that
number the claims; `spent` counts the faults that happened.

A fault is bounded, never excluded: a process that dies, one that is cut off for
longer than a lease or a lock, a statement that raises, a retry that comes due
before its handler wrote. What time does by itself is free: the lease of a row
whose process will not write it any more expires, the lock of a dead process
runs out, a backoff ends.

**OutboxProcessor**: `Recover`, `Claim`, `Add`, `MarkSent`, `Revert` are the
statements of `processOutboxEvents` in their order; `RecoverFails`, `ClaimFails`,
`AddFails`, `MarkSentFails`, `RevertFails` the same calls raising, executed or
not, with where the exception goes (the `catch` of line 153 or, from within it and
from lines 119-120, out of the pass). `todo[p]` is what process p has left of its
batch. `locked_by` is not kept: no statement reads it. `GrowsStale` lets a claim
reach `OUTBOX_STALE_TIMEOUT_MS`, free when nobody has the event in hand, a fault
(`slow`) otherwise. `Accept` and `JobCompletes` are the environment.

**ProcessingTimeline** adds one column to TransactionWorker. `timeline[t]` is the
list of entries, told apart by their messages; `copies[i]` is the handler's own
`processingTimeline`, read with the row (`ReadTimeline`), written back whole by the
claim (`ClaimTimeline`) and by the final write (`FinalizeTimeline`), and by either
when it raises although it was executed (`QueryFailsTimeline`). Every other step of
TransactionWorker leaves the column alone (`Elsewhere`).

**PaymentSim** is everything behind `POST /pay`: outbox processes, queue, workers and
the recovery scheduler, which lives as long as an outbox process (`RecoveryRuns`). It
extends TransactionWorker, whose variables and steps it takes as they are
(`SystemStep`, `SystemHeartbeat`, `SystemRecover`, ...: a worker's step that leaves the
outbox alone), and has an instance of OutboxProcessor, `Outbox`, beside it. The two
share the queue and the number of jobs added. `Add` and `AddFails` also put the job
into the workers' queue (`JobIsAdded`), unless its id is there; `Queued` lets the
outbox see which ids are. What each module left to its environment (`JobCompletes`,
`Enqueue`) is thereby done by the other. TransactionWorker bounds the jobs added by
`MaxAdds`; `AddsAssumption` makes that bound as large as the outbox's faults can use
up, so that it never holds an `add()` up (`AddsStayWithinBounds`, which holds in the
system by `SystemIsAnOutbox`).

**PaymentLifecycle** is what a client sees of it: a payment is accepted once, is open,
and settles at the outcome its rules say (`Settle`). A fault of a worker, and nothing
else, may open it again (`Reopen`), and as many as there are attempts may fail it
(`Fail`). `Lifecycle` in PaymentSim is its instance, with `state` computed from event
and row.

**Intake** is `POST /pay` for any number of concurrent requests. `pc[r]` is where
request r is in `saveTransactionWithOutbox`; `rows` and `outbox` are what was
committed, for PostgreSQL runs at READ COMMITTED: an open transaction is seen by
nobody but holds up an insert that has its key or its id (`HeldUp`).

| Action | Code |
|---|---|
| `Refuse`, `Admit` | validation, risk and the row to insert, `app.js:130-203`; which payloads pass is the constant `Admissible` |
| `Begin` | `pool.connect()`, which waits for a free connection, and BEGIN, `store.js:36-39` |
| `Insert` | INSERT ... ON CONFLICT DO NOTHING, lines 41-88: inserted, or the key is taken |
| `InsertClashes` | the id is taken and the key is not: the UNIQUE constraint on `txn_id` raises, ROLLBACK, 500 |
| `InsertEvent`, `Commit` | lines 112-114, and the 202 of `app.js:220-224` |
| `ReplyFromRow` | the row that has the key, the comparison of hashes, 200 or 409 |
| `Breaks` | any statement raises, the answer is lost or the process dies; a COMMIT may have gone through |

A repeated call of a client is another request with the same key; a request that
is never answered is one answered 500. The request hash is equality of payloads.

**IdempotentPay** has two variables, the payments on record and the answers, and
one atomic step per request: record it as the first of its key, repeat what is
recorded, refuse, fail. `Promise` in Intake is its instance, with `rows` for the
ledger; the COMMIT is the step that records, and `Breaks` is a failure that may
have recorded.

**PaymentDecisions** follows one payment by its contents. `Pay` is validation
(`Valid`), risk (`RejectedForRisk`, `ReviewedForRisk`), the PIN check (`PinVerified`),
the payload (`FullTxn`, `Sanitized`, `Persisted`) and whether its row fits
(`FitsRow`, with the rounding of `NUMERIC(12,2)`); `Work` is `Decision`, that is
`processTransaction`, `Route` and the systems, on the stored payload, sanitized once
more as `transactionJobHandler.js:33` does. Amounts are numbers of thousandths, a text
is absent, known, unknown or too long, and of a card number it matters whether it is
long enough and has digits. The verdict is what TransactionWorker has as the constant
`Verdict`, and `Valid` with the two risk rules what Intake has as `Admissible`.

**Migrations** is `migrate()` for any number of runs, each with the files of its
release: `Lock`, `Look`, `RunSql`, `Record`, `Commit` and `Close` are its statements
in order. A transaction's effects (`tx`) become visible at once (`Publish`); an insert
of a version waits for an open transaction that inserted it (`HeldUp`). `Raises` is a
statement that fails on a connection that lives, `Breaks` a run that dies, with a
COMMIT that may have gone through; the advisory lock is the session's and goes with
it. File names are their places in filename order, and a file's content stands for its
checksum.

**RateLimiter** is `redisRateLimiter` in two steps: `Request` runs the script
(`Executed`: INCR, and PEXPIRE at the first) and puts its answer under way, `Arrive` is
the `.then` of line 56 that calls `next()`. Between the two anything may happen, time
and the end of the window included, and answers arrive in any order. `EvalFails` is a
call that rejects, executed or not (503), or whose process is gone; a script that
ioredis sends again after it lost the connection is one that failed and one that did
not. Time passes in ticks. `underway` counts the answers by age; `granted`, `refused`
and `recent` are history variables: `granted[c]` is how many requests the window of c
counted within the limit, `recent[c][n]` how many reached `next()` in this tick and the
n before it. The code sets no bound on the time an answer takes: `MaxDelay` is a bound
of the model, and what it costs is part of the property. If answers took no time, two
quotas could pass in a stretch as long as a window; with a delay shorter than a window
it may be three, all but the request that opened the first: the answers of one window
come late, the next window's pass, and those of a third follow (`BurstsAreBounded`).

## 3. Runs

| Run | Instance | Shows |
|---|---|---|
| `worker_safety` | the workers with their timelines: 2 processes, 2 transactions (one always fails), 2 attempts, 2 adds, one fault of each kind | `TypeOK`; `ClaimsAreFenced`: no worker renews or finalizes on another's claim; `SettledWhenOver`: without faults the queue lets go of final work only; `ResetSparesLiveClaims`: which faults it takes before a reset for a retry can hit a worker that owns the row; `FinalChangesOnlyAfterFault`; `EveryClaimIsOnRecord`: only a worker that was cut off overwrites what another one wrote; `FinalWriteOnlyAppends` |
| `worker_progress` | 2 processes, 2 transactions, 2 attempts, 1 crash, 1 cut-off, 1 failing statement, under fairness | `FailedHasDeadLetter`, `DeadLetterIsParked`: dead letter, parked job and FAILED row agree through every partial failure; `SettlesDespiteDbError`, `ExhaustedIsDeadLettered`, `NoRowStaysProcessing` |
| `worker_stranded` | 1 transaction, the real 3 attempts, 1 crash | **violated**: `StuckTransactionRecovers` |
| `worker_reprocessed` | 1 transaction, 3 attempts, 1 failing statement | **violated**: `FinalizedNotReprocessed` |
| `outbox` | 2 processes, 2 events in a batch of 2, 2 recoveries, one fault of each kind, under fairness | `AddedAgainForCauseOnly`: a job is added at most once more for each fault; `SentMeansAdded`; `GivenUpForCauseOnly`: OUTBOX_FAILED takes as many faults or slow claims as recoveries are allowed; `OneProcessPerEvent`; `SettledReopensOnlyAfterFault`; `EveryEventSettles` |
| `system` | 1 payment, 2 outbox processes, 2 recoveries, 2 workers, 2 attempts; an outbox process that dies, an `add()` and an outbox statement that raise, a worker that dies and a worker's statement that raises, under fairness | `NeverForgotten`: no payment falls between outbox and queue while no worker fails; `FollowsLifecycle`: the refinement of `PaymentLifecycle`; `EveryPaymentSettles` |
| `intake` | 6 requests: four with one key (one of them another payload), two with another key (one refused); 2 connections, 2 errors | `OneIdPerKey`; `AnswersHold`: who is told an id finds that transaction and its event; `KeepsPromise`: the refinement of `IdempotentPay` |
| `intake_ids` | the same, one payload brings an `id`, so ids clash across keys; 1 error, under fairness | `OneRowPerKey`, `EventsMatchRows`, `EveryRequestAnswered` |
| `intake_answer` | 2 requests with that payload and one key | **violated**: `OneIdPerKey` |
| `decisions` | some 74,000 bodies around every limit | `VerdictIsPolicy`: the worker decides on the payload what the rules say of the request; `ErrorForCauseOnly`; `CardSurvives`; `CompletesUpToTheLimits`: smaller amounts, and larger ones up to and including the next limit, fare no worse |
| `migrations` | 4 runs of 3 releases, one with an edited file; 1 failing statement, 2 runs that break, under fairness | `RecordsAreTheSchema`: each file once, as recorded; `DoneMeansComplete`; `AppliedInFilenameOrder`; `FailsForCauseOnly`; `EveryRunEnds` |
| `rate_limit` | 2 addresses, a limit of 2, windows of 3 ticks, answers that take up to 1 tick, 1 call that fails, under fairness | `QuotaIsKept`: of what a window counts; `BurstsAreBounded`: of what reaches `next()` within a window's length; `RefusedForCauseOnly`; `RefusalEnds` |

Deadlock is checked in `outbox`, where a pass is always possible while a process
lives (one crash, two processes), and in `rate_limit`, where time passes or an answer arrives. It
is not checked in the other runs, where everything may be settled and nothing left to
do; that nothing waits for ever there is what `EveryRequestAnswered`, `EveryRunEnds`,
`EveryPaymentSettles` and the liveness properties of `worker_progress` say.

**Why the bounds are enough.** The hazards are races of two parties over one row:
an old and a new owner, a handler call and a retry, recovery and a claim. Two
processes and one fault of each kind together reach every such pair; a crash and a
cut-off are the two stalls that take a job over BullMQ's stall limit. Two attempts
distinguish "retried" from "exhausted"; the two violations have the three of the code.
Two events in one batch let a process die or fail with a part of its batch done, and
two recoveries distinguish "once more" from "given up". Faults are counted by kind, so
a property that says "only after a fault of kind k" is checked on the behaviours with
all the other kinds. Symmetry over processes is used only in `worker_safety` and
`worker_reprocessed`, which check no liveness.
Intake's hazards are a winner, a loser and one who comes when the winner failed or
was not heard of; four requests of one key on two connections have all three, with
connections that run out, and a second key for clashes of ids across keys.
In `system` payments would not interact beyond sharing processes, which
`worker_safety` and `outbox` have with two of them; its one payment may be added to
the queue by two outbox processes and meet a worker that dies and a statement that
fails there; cut-offs and early retries are left to the runs of the worker and to
`FollowsLifecycleCorrect`, which has any number of them (with one early retry the run
passes too, in three times the time). Its attempts are scaled from 3 to 2 and BullMQ's
stall limit from 1 to 0, so that one crash and one failing statement are enough to fail
the payment for good. `decisions` takes each limit, the next cent or thousandth, and
the last amount the column holds; `LargestStored` is scaled from 9,999,999,999.99 to
20,000 to stay within TLC's integers (the theorems are for any whole number of cents
that is above the limit). `migrations` has two runs of one release, one that is older
and one that disagrees, so that every pair of them races for the lock, and a file is
taken up by a run after another one broke in the middle of it. In `rate_limit` a
window of three ticks has a beginning, a middle and an end, and a delay of one lets an
answer arrive in the window after its own: five requests of the bound of six do reach
`next()` within a window's length there, more than two quotas.

**Fairness.** A process that lives takes its next step (`WF` of `Step`, of
`Pass`): an awaited statement answers or raises. BullMQ's timers are fair, and so
is the recovery interval (`transactionRecovery.js:24-38`), which a failing run does not
stop. Faults, heartbeats and new work are not fair; the lease of an attended
row never has to expire. `EveryEventSettles` relies on `setInterval` of
`outboxProcessor.js:178` and on one process that is left. A request of Intake takes
its next step or waits for another; `pg` has no timeout on waiting for a connection
here, and none is needed: whoever is waited for holds its connection already.
PaymentSim has the fairness of its two components, with the recovery interval only
while an outbox process lives. A migration run takes its next step; the weak fairness
of `Lock` says no more than that PostgreSQL gives a lock that stays free to one who
waits for it, and it suffices since every run takes the lock at most once. In
RateLimiter time is fair and so is the arrival of answers, for which it waits; no client
has to stop asking.

### Findings

1. `worker_stranded`. A worker dies with a claim. BullMQ gives its job to another
   worker after the 30 s lock, long before the 120 s lease ends. That worker finds
   the row PROCESSING, returns normally (`transactionJobHandler.js:51-58`), and the
   job is completed and removed. When the lease ends, recovery sets the row to
   ACCEPTED and adds no job; its event is SENT. The transaction stays ACCEPTED,
   although `README.md:31` lists "runs stuck transaction recovery".
   `NoRowStaysProcessing` shows what recovery does achieve.
2. `worker_reprocessed`. `README.md:69`: "finalized transactions are not
   reprocessed". The finalizing statement commits, its answer is lost, the handler
   throws, and `transactionWorker.js:39` writes ACCEPTED by `txn_id` alone over
   COMPLETED. `FinalChangesOnlyAfterFault` says what it takes.
3. `intake_answer`. `README.md:65`: "Same idempotency key + same payload returns the
   original transaction"; `tests/reliabilityTest.js:73`: "all same-payload concurrent
   requests should return original transaction id". A payload with a field `id` is
   recorded under it, because `...validatedTxn` (`app.js:181`) follows `id: txnId`,
   while the 202 names `txnId` (line 222), under which nothing is recorded. A
   duplicate is told the recorded id. Without such a field the property holds (run
   `intake`, and `OneIdPerKeyCorrect` for every instance).

Two observations more are part of the model. A statement that fails in the retry
branch ends the worker process, and another transaction this process was working on
is then stranded as in 1; this is why `SettlesDespiteDbError` is stated for behaviours
in which no process died. And the dead letter is written after BullMQ moved the job to
its failed set (`FailJob`, then `SaveDeadLetter`), so a worker that dies in between
(`Crash`) leaves a failed job without one, although `README.md:68` lists a "Durable
`dead_letter_jobs` table for failed jobs"; `ExhaustedIsDeadLettered` therefore supposes
that no fault happened, and `FailedHasDeadLetter` is about the row, not the job.

## 4. Proofs

The eight `...Proofs` modules prove, for any number of processes, transactions,
events, requests, runs, files, clients, attempts and faults and any limits, from the
named assumptions on the constants only (and `NoOwnId` where the table says so):

| Theorem | Argument |
|---|---|
| worker `TypeCorrect` | one step per action; `RowTypes` and `JobTypes` say that the operators on rows and jobs stay within their types |
| `LeaseColumnsCorrect` | `RowSteps`: a row changes only by one of the six statements, each of which writes status and lease columns together |
| `ClaimsAreFencedCorrect` | inductive with types: a claim is made on an ACCEPTED row, which nobody owns (`LeaseColumnsAgree`), and numbers itself last; every other statement leaves the owner or removes it |
| `DeadLetterIsParkedCorrect` | inductive with `HandlersAgree`: a call that will dead-letter must already find the job parked, and a parked job never leaves the failed set (`FailedJobsStay`) |
| `FailedHasDeadLetterCorrect` | the same invariant: `MarkFailed` runs on a call whose dead letter was saved |
| `FinalChangesOnlyAfterFaultCorrect` | `FailuresInv`: as long as no retry overtook its handler, the job of a pending `failed` call waits for it (`FailuresWait`), so no other process finalizes the row before that call resets it; and as long as no statement failed, the call is there because processing answers FAILED or the job is over its stall limit (`FailuresHaveCause`), hence never for a row that was finalized otherwise (`OutcomesRight`) |
| `ResetSparesLiveClaimsCorrect` | `LossesHaveCause`: it takes a cut-off for a process to work without its job's lock, a cut-off or a failed statement to lose its row, and two of these for both; a reset that hits a live claim needs both, for otherwise the job waits for the call |
| `SettledWhenOverCorrect` | `Dropped`: without a fault, a PROCESSING row has a process at work on it, and what a process returned from, what left the queue and what was parked is final. It rests on `FaultsAreToBlame`: each attempt that failed, each stall and each death was paid for by a fault, unless processing answers FAILED |
| outbox `TypeCorrect` | one step per action; includes that a process has events in hand exactly in the middle of a pass |
| `ClaimsAreAccountedCorrect` | `EventSteps`: an event changes only by one of five statements; each is checked against the counters |
| `SentMeansAddedCorrect` | inductive with two strengthenings: what is queued was added, and a process at line 139 added its event |
| `HandsHoldClaimsCorrect`, `OneProcessPerEventCorrect` | together inductive while no claim went stale under its process: a claim takes PENDING rows, which by `HandsHoldClaims` are in no hand, and only the process that has an event in hand writes it |
| `GivenUpForCauseOnlyCorrect` | inductive with `RecoveriesHaveCauses`: the recoveries of all events, and the claims that are lost but not yet recovered, are no more than the faults that lost them (`LostByFault`) |
| `SettledReopensOnlyAfterFaultCorrect` | until a claim goes stale, every event in a hand is that process's claim (`AllHeld`), so nobody else writes it; and a SENT event about to be reverted is one whose process did not hear of its own write (`UnheardOnly`) |
| `AddedAgainForCauseOnlyCorrect`, `AddsStayWithinBounds` | `Accounted`: the jobs of an event that were added, the processes that will still add one (`Owing`), and one more if the event is open to be claimed (`Loose`), are together no more than 1 + the faults: a step of a pass turns one into another (`PassPays`), and only a fault makes one more (`FaultPays`) |
| `SystemIsAnOutbox`, `SystemIsWorkers` | every step of the system is a step or a stutter of each component: completing a job is the outbox's `JobCompletes`, adding one is the workers' `Enqueue`, unless its id is there; what is proved of a component alone therefore holds in the system |
| `NeverForgottenCorrect` | `HandedOver`: what the outbox has in hand or added was accepted, and SENT means added (as `SentMeansAdded`, over the workers' count); a payment that is SENT and in no part of the queue was let go of, which by `Dropped` happens to final rows only |
| `FollowsLifecycleCorrect` | `SystemInv` collects the invariants of both components; `ShownSteps` says how a row may change what a client sees and which faults that takes (from `FinalChangesOnlyAfterFault`'s invariant and `FaultsAreToBlame`), `AcceptedSteps` how a payment begins; `OneMoves`: no step moves two payments, so each step is one of `PaymentLifecycle` or a stutter |
| `EveryClaimIsOnRecordCorrect` | `RecordInv`: until a worker was cut off, a row's timeline has as many "started" entries as the row has had claims, and who is about to claim holds that timeline, since nobody else can have claimed since it read |
| `FinalWriteOnlyAppendsCorrect`, `TimelineTypeCorrect` | `CopyIsCurrent`: a worker that owns the row it claimed has the row's timeline in memory, since a claim of another one needs an ACCEPTED row, which nobody owns |
| intake `TypeCorrect` | includes that a request is over exactly when it was answered, so no request is answered twice |
| `OneRowPerKeyCorrect`, `EventsMatchRowsCorrect` | `TablesInv`: inductive with `OpenApart` (open transactions clash with none that is open or committed), which is what waiting in `Insert` achieves; `InsertingSteps` reduces every step to opening, closing or committing one |
| `AnswersHoldCorrect` (under `NoOwnId`) | rows and events only grow, so an answer that was true when given stays true; `AnswerSteps` lists how answers are given |
| `OneIdPerKeyCorrect` (under `NoOwnId`) | from the last two: what two answers name is one row |
| `IntakeKeepsPromise` (under `NoOwnId`) | `PromiseStep`: each action is a step of `IdempotentPay` or a stutter, from `TablesInv` and `OnlyAdmitted` |
| migrations `TypeCorrect`, `LookStaysTrueCorrect` | `Control`: who is past line 24 has the lock (`LockCovers`), a transaction has done what its run has (`TransactionsAgree`), and so what was seen at line 36 stays true |
| `RecordsAreTheSchemaCorrect` | the COMMIT writes effect and record at once, on a version that by `LookStaysTrue` has no record |
| `DoneMeansCompleteCorrect`, `FailsForCauseOnlyCorrect` | `DealtWith`: what a run has put behind it is recorded as in its release, and records stay |
| `AppliedInFilenameOrderCorrect` | the first file that a run has left comes after files that are all recorded, hence applied; with releases that only append, nothing else can come before it |
| rate limiter `TypeCorrect`, `CountersExpireCorrect`, `QuotaIsKeptCorrect`, `RefusedForCauseOnlyCorrect` | `Agreement` of counter, expiry, what was granted and what was lost |
| `BurstsAreBoundedCorrect` | `Accounts`: whatever k, the answers given since k windows' length before the key was created, under way or arrived, are no more than what was granted since then and k quotas. The script adds to both sides, an arrival to neither, a tick shifts the ages, and one that ends the window trades what was granted for one more quota (`TickReaches`); no answer is older than `MaxDelay`, for `Tick` waits for it. For every delay, so none is supposed |
| decisions `TypeCorrect`, `VerdictIsPolicyCorrect`, `AcceptedIsProcessableCorrect`, `CompletedHadPinCorrect`, `ErrorForCauseOnlyCorrect`, `CardSurvivesCorrect`, `CompletesUpToTheLimitsCorrect` | `SeenIsRequest`: sanitizing again changes nothing, so the payload a worker sees is a function of the request; `DecisionOfValid`: what becomes of a valid one. For every set of requests and any limits |

`NoOwnId` says that no payload brings a field `id`. With one, `OneIdPerKey` is false
(finding 3).

Some theorems state more than the runs check: `LeaseColumnsAgree`, `HandlersAgree`
(within `DeadLetterIsParkedCorrect`), `ClaimsAreAccounted`, `HandsHoldClaims`,
`AddsStayWithinBounds`, `LookStaysTrue`, `CountersExpire`, `AcceptedIsProcessable`,
`CompletedHadPin` and the types of six modules are proved for every instance, so no
run repeats them.

Every invariant, every action property and both refinements of the passing runs are
proved. Model-checked only are the eight liveness properties (`SettlesDespiteDbError`,
`ExhaustedIsDeadLettered`, `NoRowStaysProcessing`, `EveryEventSettles`,
`EveryPaymentSettles`, `EveryRequestAnswered`, `EveryRunEnds`, `RefusalEnds`), since
fairness and ENABLED are out of the prover's reach, and the three violations.

## 5. Not modelled, and why

- Of `POST /pay`: a missing key header (answered at once), payload fields other than
  `id` that have the name of a server field (`idempotencyKey`, `requestHash`,
  `clientId` override the server's in the same way), a ROLLBACK that raises as well
  (for the tables it is a broken connection, which `Breaks` has), and the share of the
  connections that other endpoints use.
- Of a row: route, reason, result, timestamps; no decision depends on them. A FAILED
  row gets no entry on its timeline (`transactionWorker.js:53-58` writes none).
- Recovery's fallback `processing_started_at + timeout` (`store.js:309-312`): it
  is for rows older than the lease columns; the running code always fills them.
- `Transaction not found` (`transactionJobHandler.js:38`): a job exists only for an
  event inserted together with its row, and rows are never deleted.
- Order among jobs, Redis losing data (jobs or counters), a database that forgets
  commits.
- Of decisions: messages, the balance an inquiry answers, the request hash (Intake
  takes it as equality of payloads), the fingerprint of the job's payload.
- Of migrations: what a file does to the schema, beyond which one it is, and a release
  that adds a file before one that is already applied, which the runner would apply
  late. `AppliedInFilenameOrder` supposes that releases only append (`OnlyAppended`),
  as `README.md:144` asks.
- The limiter outside production, which is express-rate-limit's own, in memory.
- Graceful shutdown: for the shared state it is a crash at a convenient moment.
- Reads, API keys and access checks, CORS, metrics, masking and redaction, logging,
  configuration: no state, pure functions of one request or of the environment, which
  unit tests reach fully. `queue/queue.js` is imported by nothing and
  `generateSettlement.js` is a separate script.

## 6. Plan

Done: worker with its timeline, outbox, intake, the whole system, decisions,
migrations and rate limiter, each with its runs, and a theorem for every safety
property the runs check. What is left:

1. Safety results that come close to liveness: that some step is always possible while
   work is left (for instance that an event PROCESSING in no hand can be recovered, and
   a row PROCESSING whose lease ran out too), stated over the guards of the actions
   instead of ENABLED.
2. The composition the other way: `PaymentSim` assumes that a transaction and its event
   appear together, which `EventsMatchRowsCorrect` proves of Intake; an instance that
   has both in one module would say so in a theorem.
