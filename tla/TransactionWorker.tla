------------------------- MODULE TransactionWorker --------------------------
(***************************************************************************)
(* The worker processes of payment-sim: jobs/transactionJobHandler.js run  *)
(* by the BullMQ Worker of jobs/transactionWorker.js, the latter's         *)
(* "failed" handler, the lease heartbeat, and the recovery scheduler of    *)
(* recovery/transactionRecovery.js that runs in the outbox process.        *)
(*                                                                         *)
(* One step is one statement sent to PostgreSQL or one BullMQ transition;  *)
(* between two of them any other process may run.  The outbox process is   *)
(* here only as Enqueue; OutboxProcessor models it.                        *)
(***************************************************************************)
EXTENDS TransactionStore, BullQueue

CONSTANTS
    Txns,           \* transaction ids, which are also the job ids
    NoTxn,          \* the transaction of a process that has none
    Verdict,        \* what processor, router and systems answer for each one
    MaxAdds,        \* bound: jobs added per transaction (1 + redeliveries)
    MaxCrashes,     \* bound: processes that die
    MaxPauses,      \* bound: processes cut off for longer than a lease or lock
    MaxDbErrors,    \* bound: statements that raise an error
    MaxLates        \* bound: retries that come due before their handler wrote

ASSUME NoTxnAssumption == NoTxn \notin Txns
ASSUME VerdictAssumption == Verdict \in [Txns -> {"COMPLETED", "DECLINED", "FAILED"}]
ASSUME BoundsAssumption ==
    /\ MaxAdds \in Nat /\ MaxCrashes \in Nat /\ MaxPauses \in Nat
    /\ MaxDbErrors \in Nat /\ MaxLates \in Nat

VARIABLES
    txns,           \* transactions table: Txns -> Rows
    deadLetters,    \* job ids in dead_letter_jobs
    jobs,           \* the queue: Txns -> Jobs
    adds,           \* how often each job was added
    pc,             \* where each process is in handleTransactionJob
    cur,            \* the transaction of the job each process works on
    failures,       \* calls of the "failed" handler that have not finished
    claims,         \* history: times each transaction was claimed
    myClaim,        \* history: the number of the claim each process made last
    spent           \* history: faults that happened, by kind

vars == <<txns, deadLetters, jobs, adds, pc, cur, failures, claims, myClaim, spent>>

\* idle: waits for a job; taken: before getTransaction; read: saw ACCEPTED;
\* claimed: startTransactionProcessing answered a row; threw, returned: the
\* handler is over and BullMQ has not moved the job yet.
Stages == {"idle", "taken", "read", "claimed", "threw", "returned", "dead"}

\* attempts is the job.attemptsMade the handler was called with; round tells
\* the jobs apart that had this id; saved says saveDeadLetterJob answered.
Failures == [by: Instances, txn: Txns, round: Nat, attempts: Nat, saved: BOOLEAN]

FaultKinds == {"crashes", "pauses", "dbErrors", "lates"}

TypeOK ==
    /\ txns \in [Txns -> Rows]
    /\ deadLetters \subseteq Txns
    /\ jobs \in [Txns -> Jobs]
    /\ adds \in [Txns -> Nat]
    /\ pc \in [Instances -> Stages]
    /\ cur \in [Instances -> Txns \cup {NoTxn}]
    /\ failures \subseteq Failures
    /\ claims \in [Txns -> Nat]
    /\ myClaim \in [Instances -> Nat]
    /\ spent \in [FaultKinds -> Nat]
    /\ \A i \in Instances : pc[i] \notin {"idle", "dead"} => cur[i] \in Txns

Init ==
    /\ txns = [t \in Txns |-> AcceptedRow]
    /\ deadLetters = {}
    /\ jobs = [t \in Txns |-> NoJob]
    /\ adds = [t \in Txns |-> 0]
    /\ pc = [i \in Instances |-> "idle"]
    /\ cur = [i \in Instances |-> NoTxn]
    /\ failures = {}
    /\ claims = [t \in Txns |-> 0]
    /\ myClaim = [i \in Instances |-> 0]
    /\ spent = [k \in FaultKinds |-> 0]

Bound(kind) ==
    CASE kind = "crashes"  -> MaxCrashes
      [] kind = "pauses"   -> MaxPauses
      [] kind = "dbErrors" -> MaxDbErrors
      [] kind = "lates"    -> MaxLates

\* A fault of this kind happens in this step.
Spend(kind) ==
    /\ spent[kind] < Bound(kind)
    /\ spent' = [spent EXCEPT ![kind] = @ + 1]

\* The step is a fault of this kind if excused is false, and none otherwise.
SpendUnless(excused, kind) ==
    IF excused THEN UNCHANGED spent ELSE Spend(kind)

Goto(i, stage) == pc' = [pc EXCEPT ![i] = stage]

\* Process i is done with its job, whatever became of it.
Release(i) ==
    /\ Goto(i, "idle")
    /\ cur' = [cur EXCEPT ![i] = NoTxn]

FailureOf(i, t) ==
    [by |-> i, txn |-> t, round |-> adds[t],
     attempts |-> jobs[t].attemptsMade + 1, saved |-> FALSE]

\* Mutants of ToBeRetried.
ToBeRetriedAtLimit(f) == f.attempts <= MaxAttempts

ToBeRetriedTooFew(f) == f.attempts + 1 < MaxAttempts

\* The branch transactionWorker.js:37 takes: reset for a retry, or dead-letter.
ToBeRetried(f) == f.attempts < MaxAttempts

-----------------------------------------------------------------------------
(* The queue hands jobs out *)

\* The outbox process adds the job; adding it while it exists does nothing, so
\* only the first add and those after the job was removed are steps.
Enqueue(t) ==
    /\ jobs[t].state = "absent"
    /\ adds[t] < MaxAdds
    /\ jobs' = [jobs EXCEPT ![t] = Added(@)]
    /\ adds' = [adds EXCEPT ![t] = @ + 1]
    /\ UNCHANGED <<txns, deadLetters, pc, cur, failures, claims, myClaim, spent>>

TakeJob(i, t) ==
    /\ pc[i] = "idle"
    /\ jobs[t].state = "waiting"
    /\ ~Doomed(jobs[t])
    /\ jobs' = [jobs EXCEPT ![t] = Taken(@, i)]
    /\ Goto(i, "taken")
    /\ cur' = [cur EXCEPT ![i] = t]
    /\ UNCHANGED <<txns, deadLetters, adds, failures, claims, myClaim, spent>>

\* A job over its stall limit never reaches the handler.
TakeDoomed(i, t) ==
    /\ pc[i] = "idle"
    /\ jobs[t].state = "waiting"
    /\ Doomed(jobs[t])
    /\ jobs' = [jobs EXCEPT ![t] = FailedForGood(@)]
    /\ failures' = failures \cup {FailureOf(i, t)}
    /\ UNCHANGED <<txns, deadLetters, adds, pc, cur, claims, myClaim, spent>>

-----------------------------------------------------------------------------
(* handleTransactionJob *)

\* The two early returns after getTransaction: the transaction is final, or
\* somebody else is processing it.
SkippedAsDuplicate(row) == row.status \in FinalStatuses \/ row.status # "ACCEPTED"

ReadTxn(i) ==
    /\ pc[i] = "taken"
    /\ Goto(i, IF SkippedAsDuplicate(txns[cur[i]]) THEN "returned" ELSE "read")
    /\ UNCHANGED <<txns, deadLetters, jobs, adds, cur, failures, claims, myClaim, spent>>

\* What startTransactionProcessing does to the database.
ClaimRow(i) ==
    LET t == cur[i] IN
    IF CanStart(txns[t])
    THEN /\ txns' = [txns EXCEPT ![t] = Started(@, i)]
         /\ claims' = [claims EXCEPT ![t] = @ + 1]
         /\ myClaim' = [myClaim EXCEPT ![i] = claims[t] + 1]
    ELSE UNCHANGED <<txns, claims, myClaim>>

Claim(i) ==
    /\ pc[i] = "read"
    /\ ClaimRow(i)
    /\ Goto(i, IF CanStart(txns[cur[i]]) THEN "claimed" ELSE "returned")
    /\ UNCHANGED <<deadLetters, jobs, adds, cur, failures, spent>>

\* The interval set at line 92; an answer without a row only clears it.
Heartbeat(i) ==
    /\ pc[i] = "claimed"
    /\ Owns(txns[cur[i]], i)
    /\ txns' = [txns EXCEPT ![cur[i]] = Renewed(@)]
    /\ UNCHANGED <<deadLetters, jobs, adds, pc, cur, failures, claims, myClaim, spent>>

\* processTransaction answered FAILED.
ProcessorFails(i) ==
    /\ pc[i] = "claimed"
    /\ Verdict[cur[i]] = "FAILED"
    /\ Goto(i, "threw")
    /\ UNCHANGED <<txns, deadLetters, jobs, adds, cur, failures, claims, myClaim, spent>>

\* What finalizeTransactionProcessing does to the database.
FinalizeRow(i) ==
    LET t == cur[i] IN
    IF Owns(txns[t], i)
    THEN txns' = [txns EXCEPT ![t] = Finalized(@, Verdict[t])]
    ELSE UNCHANGED txns

\* Finalizing returns normally whether the row was still ours or not
\* ("Transaction finalization lost").
Finalize(i) ==
    /\ pc[i] = "claimed"
    /\ Verdict[cur[i]] # "FAILED"
    /\ FinalizeRow(i)
    /\ Goto(i, "returned")
    /\ UNCHANGED <<deadLetters, jobs, adds, cur, failures, claims, myClaim, spent>>

\* A query raises: it was not executed, or it was and its answer is lost.
QueryFails(i) ==
    /\ Spend("dbErrors")
    /\ \/ /\ pc[i] \in {"taken", "read"}
          /\ UNCHANGED <<txns, claims, myClaim>>
       \/ /\ pc[i] = "read"
          /\ ClaimRow(i)
       \/ /\ pc[i] = "claimed"
          /\ Verdict[cur[i]] # "FAILED"
          /\ FinalizeRow(i) \/ UNCHANGED txns
          /\ UNCHANGED <<claims, myClaim>>
    /\ Goto(i, "threw")
    /\ UNCHANGED <<deadLetters, jobs, adds, cur, failures>>

-----------------------------------------------------------------------------
(* BullMQ moves the job when the handler is over *)

CompleteJob(i) ==
    /\ pc[i] = "returned"
    /\ LET t == cur[i] IN
       jobs' = IF HoldsLock(jobs[t], i) THEN [jobs EXCEPT ![t] = Completed(@)] ELSE jobs
    /\ Release(i)
    /\ UNCHANGED <<txns, deadLetters, adds, failures, claims, myClaim, spent>>

\* moveToFailed, after which "failed" is emitted; a worker that lost its lock
\* gets an error instead and emits nothing.
FailJob(i) ==
    /\ pc[i] = "threw"
    /\ LET t == cur[i] IN
       IF HoldsLock(jobs[t], i)
       THEN /\ jobs' = [jobs EXCEPT ![t] = Retried(@)]
            /\ failures' = failures \cup {FailureOf(i, t)}
       ELSE UNCHANGED <<jobs, failures>>
    /\ Release(i)
    /\ UNCHANGED <<txns, deadLetters, adds, claims, myClaim, spent>>

PendingFailures(t) == {f \in failures : f.txn = t}

\* The backoff of 1 s, then 2 s, is over.  The handler of the failure it backs
\* off from has normally written by then; that it has not is a fault.
RetryDue(t) ==
    /\ jobs[t].state = "delayed"
    /\ jobs' = [jobs EXCEPT ![t] = Due(@)]
    /\ SpendUnless(PendingFailures(t) = {}, "lates")
    /\ UNCHANGED <<txns, deadLetters, adds, pc, cur, failures, claims, myClaim>>

-----------------------------------------------------------------------------
(* worker.on("failed") *)

HandleRetry(f) ==
    /\ f \in failures
    /\ ToBeRetried(f)
    /\ txns' = [txns EXCEPT ![f.txn] = Updated(@, "ACCEPTED", f.attempts)]
    /\ failures' = failures \ {f}
    /\ UNCHANGED <<deadLetters, jobs, adds, pc, cur, claims, myClaim, spent>>

SaveDeadLetter(f) ==
    /\ f \in failures
    /\ ~ToBeRetried(f)
    /\ ~f.saved
    /\ deadLetters' = deadLetters \cup {f.txn}
    /\ failures' = (failures \ {f}) \cup {[f EXCEPT !.saved = TRUE]}
    /\ UNCHANGED <<txns, jobs, adds, pc, cur, claims, myClaim, spent>>

\* Mutant of MarkFailed: the row is written without waiting for the dead letter.
MarkFailedUnsaved(f) ==
    /\ f \in failures
    /\ ~ToBeRetried(f)
    /\ txns' = [txns EXCEPT ![f.txn] = Updated(@, "FAILED", f.attempts)]
    /\ failures' = failures \ {f}
    /\ UNCHANGED <<deadLetters, jobs, adds, pc, cur, claims, myClaim, spent>>

MarkFailed(f) ==
    /\ f \in failures
    /\ ~ToBeRetried(f)
    /\ f.saved
    /\ txns' = [txns EXCEPT ![f.txn] = Updated(@, "FAILED", f.attempts)]
    /\ failures' = failures \ {f}
    /\ UNCHANGED <<deadLetters, jobs, adds, pc, cur, claims, myClaim, spent>>

\* The catch at line 63 only logs: the call is over with what it had done.
DeadLetterFails(f) ==
    /\ f \in failures
    /\ ~ToBeRetried(f)
    /\ Spend("dbErrors")
    /\ \/ UNCHANGED <<txns, deadLetters>>
       \/ ~f.saved /\ deadLetters' = deadLetters \cup {f.txn} /\ UNCHANGED txns
       \/ f.saved /\ txns' = [txns EXCEPT ![f.txn] = Updated(@, "FAILED", f.attempts)]
          /\ UNCHANGED deadLetters
    /\ failures' = failures \ {f}
    /\ UNCHANGED <<jobs, adds, pc, cur, claims, myClaim>>

\* Process i is gone, with the handler calls it had not finished.  Its row stays
\* PROCESSING and its job active.
Die(i) ==
    /\ Goto(i, "dead")
    /\ cur' = [cur EXCEPT ![i] = NoTxn]
    /\ failures' = {f \in failures : f.by # i}
    /\ UNCHANGED <<deadLetters, jobs, adds, claims, myClaim>>

\* The retry branch has no try: its rejection is unhandled and ends the process.
HandleRetryFails(f) ==
    /\ f \in failures
    /\ ToBeRetried(f)
    /\ Spend("dbErrors")
    /\ \/ UNCHANGED txns
       \/ txns' = [txns EXCEPT ![f.txn] = Updated(@, "ACCEPTED", f.attempts)]
    /\ Die(f.by)

-----------------------------------------------------------------------------
(* Crashes, time, and the recovery scheduler *)

Crash(i) ==
    /\ pc[i] # "dead"
    /\ Spend("crashes")
    /\ Die(i)
    /\ UNCHANGED txns

\* The stalled-job check finds an active job without a lock.  A live holder
\* renews its lock unless it is cut off.
Stall(t) ==
    /\ jobs[t].state = "active"
    /\ SpendUnless(pc[jobs[t].holder] = "dead", "pauses")
    /\ jobs' = [jobs EXCEPT ![t] = Stalled(@)]
    /\ UNCHANGED <<txns, deadLetters, adds, pc, cur, failures, claims, myClaim>>

\* Somebody will write the row before its lease is over, or is cut off.
Attended(t) ==
    LET i == txns[t].owner IN
    \/ pc[i] \in {"claimed", "threw"} /\ cur[i] = t
    \/ \E f \in failures : f.txn = t /\ f.by = i

LeaseExpires(t) ==
    /\ txns[t].status = "PROCESSING"
    /\ txns[t].lease = "live"
    /\ SpendUnless(~Attended(t), "pauses")
    /\ txns' = [txns EXCEPT ![t].lease = "expired"]
    /\ UNCHANGED <<deadLetters, jobs, adds, pc, cur, failures, claims, myClaim>>

\* One statement resets every abandoned row.  Nothing is added to the queue.
Recover ==
    /\ \E t \in Txns : Abandoned(txns[t])
    /\ txns' = [t \in Txns |->
                  IF Abandoned(txns[t]) THEN Recovered(txns[t]) ELSE txns[t]]
    /\ UNCHANGED <<deadLetters, jobs, adds, pc, cur, failures, claims, myClaim, spent>>

-----------------------------------------------------------------------------
\* What a process does by itself when nothing goes wrong.
Step(i) ==
    \/ \E t \in Txns : TakeJob(i, t) \/ TakeDoomed(i, t)
    \/ ReadTxn(i) \/ Claim(i) \/ ProcessorFails(i) \/ Finalize(i)
    \/ CompleteJob(i) \/ FailJob(i)

Handle(f) == HandleRetry(f) \/ SaveDeadLetter(f) \/ MarkFailed(f)

Fault ==
    \/ \E i \in Instances : QueryFails(i) \/ Crash(i)
    \/ \E f \in failures : HandleRetryFails(f) \/ DeadLetterFails(f)

Next ==
    \/ \E t \in Txns : Enqueue(t) \/ RetryDue(t) \/ Stall(t) \/ LeaseExpires(t)
    \/ \E i \in Instances : Step(i) \/ Heartbeat(i)
    \/ \E f \in failures : Handle(f)
    \/ Recover
    \/ Fault

Spec == Init /\ [][Next]_vars

\* Timers and processes that keep running are fair; a fault, the lease of a
\* process that is cut off and the arrival of work never are.
Fairness ==
    /\ \A i \in Instances : WF_vars(Step(i))
    /\ \A t \in Txns : WF_vars(RetryDue(t)) /\ WF_vars(Stall(t)) /\ WF_vars(LeaseExpires(t))
    /\ WF_vars(\E f \in failures : Handle(f))
    /\ WF_vars(Recover)

FairSpec == Spec /\ Fairness

-----------------------------------------------------------------------------
(* Safety *)

NoFault == \A k \in FaultKinds : spent[k] = 0

LeaseAgrees(row) ==
    /\ (row.status = "PROCESSING") <=> (row.owner # NoInstance)
    /\ (row.owner = NoInstance) <=> (row.lease = "none")

\* The lease columns are filled exactly while a row is PROCESSING: recovery can
\* always tell who held it and until when (store.js:188-191, 275-278, 317-320).
LeaseColumnsAgree == \A t \in Txns : LeaseAgrees(txns[t])

\* Whoever still owns the row it claimed made the latest claim on it: a worker
\* that lost its lease to recovery and to a second claim is fenced off, so it
\* neither renews nor finalizes the work of its successor (store.js:253-255, 280-282).
ClaimsAreFenced ==
    \A i \in Instances :
        pc[i] = "claimed" /\ Owns(txns[cur[i]], i) => myClaim[i] = claims[cur[i]]

\* A transaction is shown as FAILED only once its dead letter is durable and its
\* attempts are used up (transactionWorker.js:50-60).
FailedHasDeadLetter ==
    \A t \in Txns : txns[t].status = "FAILED" =>
        t \in deadLetters /\ txns[t].retryCount >= MaxAttempts

Parked(job) == job.state = "failed" /\ job.attemptsMade >= MaxAttempts

\* A dead-lettered job is parked in the failed set, from which no worker takes it
\* and under whose id no other job can be added (removeOnFail: false).
DeadLetterIsParked == \A t \in deadLetters : Parked(jobs[t])

\* A call of the "failed" handler that will dead-letter finds the job parked, and
\* the dead letter is there before the call goes on to the row.
HandlersAgree ==
    \A f \in failures :
        /\ ~ToBeRetried(f) => Parked(jobs[f.txn])
        /\ f.saved => ~ToBeRetried(f) /\ f.txn \in deadLetters

\* No job left for t, and no handler call that will still write its row.
Over(t) ==
    /\ adds[t] > 0
    /\ jobs[t].state \in {"absent", "failed"}
    /\ PendingFailures(t) = {}
    /\ \A i \in Instances : cur[i] # t

\* Without a fault the queue lets go of a transaction only when it is final: the
\* "skipped" returns, which complete the job, never drop unfinished work.
SettledWhenOver ==
    \A t \in Txns : NoFault /\ Over(t) => txns[t].status \in FinalStatuses

\* The retry branch resets the row by txn_id alone (store.js:193).  While such a
\* reset is pending, a process at work owns the row only if the retry overtook its
\* handler, or the job hit its stall limit, or two faults met: one cut a worker
\* off and a second one cut its lease off or broke a query.
ResetSparesLiveClaims ==
    \A f \in failures, i \in Instances :
        ToBeRetried(f) /\ pc[i] = "claimed" /\ cur[i] = f.txn /\ Owns(txns[f.txn], i)
            => \/ spent["lates"] > 0
               \/ Doomed(jobs[f.txn])
               \/ spent["pauses"] > 0 /\ spent["pauses"] + spent["dbErrors"] >= 2

\* README.md:69 "finalized transactions are not reprocessed", as far as it holds:
\* a final status changes only after a database error, a retry that overtook the
\* handler of its failure, or a job that hit its stall limit.
FinalChangesOnlyAfterFault ==
    [][\A t \in Txns :
          txns[t].status \in FinalStatuses /\ txns'[t].status # txns[t].status
              => \/ spent["dbErrors"] > 0
                 \/ spent["lates"] > 0
                 \/ Doomed(jobs[t])]_vars

-----------------------------------------------------------------------------
(* Liveness, under FairSpec *)

\* Every process is up, and none was cut off or overtaken.
Undisturbed ==
    /\ \A i \in Instances : pc[i] # "dead"
    /\ spent["pauses"] = 0 /\ spent["lates"] = 0

\* README.md:67 "BullMQ retries": as long as no process dies, one database error
\* anywhere costs an attempt and never the transaction, which settles at its
\* verdict for good.  (A process does die of an error in the retry branch, and
\* takes the job it was working on along: HandleRetryFails.)
SettlesDespiteDbError ==
    \A t \in Txns :
        [](adds[t] > 0 /\ Verdict[t] # "FAILED"
              => <>[](txns[t].status = Verdict[t] \/ ~Undisturbed))

\* README.md:68: without a fault, work whose attempts are used up ends FAILED with
\* a durable dead letter and its job parked (transactionWorker.js:50-60).
ExhaustedIsDeadLettered ==
    \A t \in Txns :
        [](adds[t] > 0 /\ Verdict[t] = "FAILED"
              => <>[]((txns[t].status = "FAILED" /\ t \in deadLetters) \/ ~NoFault))

\* README.md:70-71: whatever the fault, no row stays PROCESSING for ever: its
\* owner writes it, or its lease runs out and recovery resets it.
NoRowStaysProcessing ==
    \A t \in Txns : txns[t].status = "PROCESSING" ~> txns[t].status # "PROCESSING"

-----------------------------------------------------------------------------
(* What the documents say, and the code does not do *)

\* README.md:31 the outbox process "runs stuck transaction recovery": work that a
\* dead process left PROCESSING is brought to an end.
StuckTransactionRecovers ==
    \A t \in Txns :
        txns[t].status = "PROCESSING" /\ pc[txns[t].owner] = "dead"
            ~> txns[t].status \in FinalStatuses

\* README.md:69 "Idempotent worker behavior: finalized transactions are not
\* reprocessed."
FinalizedNotReprocessed ==
    [][\A t \in Txns :
          txns[t].status \in FinalStatuses => txns'[t].status \in FinalStatuses]_vars

=============================================================================
