------------------------------ MODULE BullQueue -----------------------------
(***************************************************************************)
(* A job of the BullMQ queue "transaction-processing", as far as the code  *)
(* relies on it.  The jobId is the txn_id, so there is at most one job per *)
(* transaction.  External: BullMQ and Redis are not in the repository; the *)
(* options are those of outbox/outboxProcessor.js:127-136.                 *)
(***************************************************************************)
EXTENDS Naturals, ProcessorInstances

CONSTANTS
    MaxAttempts,        \* attempts: 3
    MaxStalledCount     \* BullMQ's default maxStalledCount: 1

ASSUME MaxAttemptsAssumption == MaxAttempts \in Nat \ {0}
ASSUME MaxStalledCountAssumption == MaxStalledCount \in Nat

JobStates == {"absent", "waiting", "active", "delayed", "failed"}

Jobs == [state: JobStates, holder: MaybeInstance, attemptsMade: Nat, stalledCount: Nat]

NoJob == [state |-> "absent", holder |-> NoInstance, attemptsMade |-> 0, stalledCount |-> 0]

NewJob == [NoJob EXCEPT !.state = "waiting"]

\* add() with a jobId that exists in any state changes nothing: a failed job is
\* kept (removeOnFail: false) and shadows its jobId for ever.
Added(job) == IF job.state = "absent" THEN NewJob ELSE job

\* A job that stalled more than maxStalledCount times is failed for good by the
\* next worker that takes it, instead of being processed.
Doomed(job) == job.stalledCount > MaxStalledCount

Taken(job, instance) == [job EXCEPT !.state = "active", !.holder = instance]

\* The worker's lock: moveToCompleted and moveToFailed need it.
HoldsLock(job, instance) == job.state = "active" /\ job.holder = instance

\* The lock ran out: the job goes back to the head of the queue.
Stalled(job) ==
    [job EXCEPT !.state = "waiting", !.holder = NoInstance, !.stalledCount = @ + 1]

\* removeOnComplete: true.
Completed(job) == NoJob

\* A failed attempt is retried after a backoff until the attempts are used up.
Retried(job) ==
    [job EXCEPT !.state = IF job.attemptsMade + 1 < MaxAttempts THEN "delayed" ELSE "failed",
                !.holder = NoInstance,
                !.attemptsMade = @ + 1]

\* An UnrecoverableError fails the job whatever attempts it has left.
FailedForGood(job) ==
    [job EXCEPT !.state = "failed", !.holder = NoInstance, !.attemptsMade = @ + 1]

Due(job) == [job EXCEPT !.state = "waiting"]
=============================================================================
