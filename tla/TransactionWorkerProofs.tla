---------------------- MODULE TransactionWorkerProofs -----------------------
(* Theorems about TransactionWorker, for every value of its constants. *)
EXTENDS TransactionWorker, TLAPS

-----------------------------------------------------------------------------
(* Type correctness *)

\* Every statement of the store turns a row into a row.
LEMMA RowTypes ==
    /\ AcceptedRow \in Rows
    /\ \A row \in Rows, i \in Instances : Started(row, i) \in Rows
    /\ \A row \in Rows : Renewed(row) \in Rows /\ Recovered(row) \in Rows
    /\ \A row \in Rows : [row EXCEPT !.lease = "expired"] \in Rows
    /\ \A row \in Rows, s \in Statuses : Finalized(row, s) \in Rows
    /\ \A row \in Rows, s \in Statuses, n \in Nat : Updated(row, s, n) \in Rows
BY DEF Rows, AcceptedRow, Started, Renewed, Finalized, Recovered, Updated,
       WithoutLease, Statuses, Leases, MaybeInstance

\* Every transition of the queue turns a job into a job.
LEMMA JobTypes ==
    /\ NoJob \in Jobs
    /\ \A job \in Jobs : /\ Added(job) \in Jobs /\ Completed(job) \in Jobs
                         /\ Stalled(job) \in Jobs /\ Due(job) \in Jobs
                         /\ Retried(job) \in Jobs /\ FailedForGood(job) \in Jobs
    /\ \A job \in Jobs, i \in Instances : Taken(job, i) \in Jobs
<1>1. NoJob \in Jobs /\ NewJob \in Jobs
  BY DEF Jobs, JobStates, NoJob, NewJob, MaybeInstance
<1>2. ASSUME NEW job \in Jobs
      PROVE  /\ Added(job) \in Jobs /\ Completed(job) \in Jobs
             /\ Stalled(job) \in Jobs /\ Due(job) \in Jobs
             /\ Retried(job) \in Jobs /\ FailedForGood(job) \in Jobs
  <2>1. Added(job) \in Jobs /\ Completed(job) \in Jobs
    BY <1>1 DEF Added, Completed
  <2>2. job.stalledCount + 1 \in Nat /\ job.attemptsMade + 1 \in Nat
    BY DEF Jobs
  <2>3. Stalled(job) \in Jobs
    BY <2>2 DEF Jobs, JobStates, Stalled, MaybeInstance
  <2>4. Due(job) \in Jobs
    BY DEF Jobs, JobStates, Due
  <2>5. (IF job.attemptsMade + 1 < MaxAttempts THEN "delayed" ELSE "failed") \in JobStates
    BY DEF JobStates
  <2>6. Retried(job) \in Jobs
    BY <2>2, <2>5 DEF Jobs, Retried, MaybeInstance
  <2>7. FailedForGood(job) \in Jobs
    BY <2>2 DEF Jobs, JobStates, FailedForGood, MaybeInstance
  <2> QED BY <2>1, <2>3, <2>4, <2>6, <2>7
<1>3. ASSUME NEW job \in Jobs, NEW i \in Instances PROVE Taken(job, i) \in Jobs
  BY DEF Jobs, JobStates, Taken, MaybeInstance
<1> QED BY <1>1, <1>2, <1>3

LEMMA FailureTypes ==
    ASSUME TypeOK, NEW i \in Instances, NEW t \in Txns
    PROVE  FailureOf(i, t) \in Failures
BY DEF TypeOK, FailureOf, Failures, Jobs

\* Spending a fault keeps the counters natural numbers.
LEMMA SpentTypes ==
    ASSUME TypeOK, NEW kind \in FaultKinds, Spend(kind) \/ UNCHANGED spent
    PROVE  spent' \in [FaultKinds -> Nat]
BY DEF TypeOK, Spend

LEMMA InitTypeOK == Init => TypeOK
BY RowTypes, JobTypes DEF Init, TypeOK, Stages, AcceptedRow, Rows, Statuses, Leases,
   MaybeInstance, NoJob, Jobs, JobStates

\* What the two statements of a claimed job leave behind.
LEMMA ClaimRowTypes ==
    ASSUME TypeOK, NEW i \in Instances, cur[i] \in Txns, ClaimRow(i)
    PROVE  /\ txns' \in [Txns -> Rows]
           /\ claims' \in [Txns -> Nat]
           /\ myClaim' \in [Instances -> Nat]
<1>1. CASE CanStart(txns[cur[i]])
  <2>1. txns' = [txns EXCEPT ![cur[i]] = Started(txns[cur[i]], i)]
    BY <1>1 DEF ClaimRow
  <2>2. Started(txns[cur[i]], i) \in Rows
    BY RowTypes DEF TypeOK
  <2>3. claims' \in [Txns -> Nat] /\ myClaim' \in [Instances -> Nat]
    BY <1>1 DEF ClaimRow, TypeOK
  <2> QED BY <2>1, <2>2, <2>3 DEF TypeOK
<1>2. CASE ~CanStart(txns[cur[i]])
  BY <1>2 DEF TypeOK, ClaimRow
<1> QED BY <1>1, <1>2

LEMMA FinalizeRowTypes ==
    ASSUME TypeOK, NEW i \in Instances, cur[i] \in Txns, FinalizeRow(i)
    PROVE  txns' \in [Txns -> Rows]
<1>1. Verdict[cur[i]] \in Statuses
  BY VerdictAssumption DEF Statuses
<1>2. Finalized(txns[cur[i]], Verdict[cur[i]]) \in Rows
  BY <1>1, RowTypes DEF TypeOK
<1> QED BY <1>2 DEF TypeOK, FinalizeRow

\* The two writes of the "failed" handler.
LEMMA UpdatedTypes ==
    ASSUME TypeOK, NEW f \in failures, NEW s \in {"ACCEPTED", "FAILED"},
           txns' = [txns EXCEPT ![f.txn] = Updated(@, s, f.attempts)]
    PROVE  txns' \in [Txns -> Rows]
<1>1. f \in Failures /\ f.txn \in Txns /\ f.attempts \in Nat /\ f.by \in Instances
  BY DEF TypeOK, Failures
<1>2. s \in Statuses
  BY DEF Statuses
<1> QED BY <1>1, <1>2, RowTypes DEF TypeOK

\* A process that dies leaves no handler call and no job of its own.
LEMMA DieTypes ==
    ASSUME TypeOK, NEW i \in Instances, Die(i)
    PROVE  /\ pc' \in [Instances -> Stages]
           /\ cur' \in [Instances -> Txns \cup {NoTxn}]
           /\ failures' \subseteq Failures
           /\ UNCHANGED <<deadLetters, jobs, adds, claims, myClaim>>
           /\ \A j \in Instances : pc'[j] \notin {"idle", "dead"} => cur'[j] \in Txns
BY DEF TypeOK, Die, Goto, Stages

LEMMA NextTypeOK == TypeOK /\ [Next]_vars => TypeOK'
<1> SUFFICES ASSUME TypeOK, [Next]_vars
             PROVE  TypeOK'
  OBVIOUS
<1> USE DEF FaultKinds
<1>1. ASSUME NEW t \in Txns, Enqueue(t) PROVE TypeOK'
  BY <1>1, JobTypes DEF TypeOK, Enqueue
<1>2. ASSUME NEW i \in Instances, NEW t \in Txns, TakeJob(i, t) PROVE TypeOK'
  BY <1>2, JobTypes DEF TypeOK, TakeJob, Goto, Stages
<1>3. ASSUME NEW i \in Instances, NEW t \in Txns, TakeDoomed(i, t) PROVE TypeOK'
  BY <1>3, JobTypes, FailureTypes DEF TypeOK, TakeDoomed
<1>4. ASSUME NEW i \in Instances, ReadTxn(i) PROVE TypeOK'
  BY <1>4 DEF TypeOK, ReadTxn, Goto, Stages
<1>5. ASSUME NEW i \in Instances, Claim(i) PROVE TypeOK'
  <2>1. cur[i] \in Txns
    BY <1>5 DEF TypeOK, Claim
  <2> QED BY <1>5, <2>1, ClaimRowTypes DEF TypeOK, Claim, Goto, Stages
<1>6. ASSUME NEW i \in Instances, Heartbeat(i) PROVE TypeOK'
  BY <1>6, RowTypes DEF TypeOK, Heartbeat
<1>7. ASSUME NEW i \in Instances, ProcessorFails(i) PROVE TypeOK'
  BY <1>7 DEF TypeOK, ProcessorFails, Goto, Stages
<1>8. ASSUME NEW i \in Instances, Finalize(i) PROVE TypeOK'
  <2>1. cur[i] \in Txns
    BY <1>8 DEF TypeOK, Finalize
  <2> QED BY <1>8, <2>1, FinalizeRowTypes DEF TypeOK, Finalize, Goto, Stages
<1>9. ASSUME NEW i \in Instances, QueryFails(i) PROVE TypeOK'
  <2>1. cur[i] \in Txns
    BY <1>9 DEF TypeOK, QueryFails
  <2>2. /\ txns' \in [Txns -> Rows]
        /\ claims' \in [Txns -> Nat]
        /\ myClaim' \in [Instances -> Nat]
    BY <1>9, <2>1, ClaimRowTypes, FinalizeRowTypes DEF TypeOK, QueryFails
  <2>3. spent' \in [FaultKinds -> Nat]
    BY <1>9, SpentTypes DEF QueryFails
  <2> QED BY <1>9, <2>1, <2>2, <2>3 DEF TypeOK, QueryFails, Goto, Stages
<1>10. ASSUME NEW i \in Instances, CompleteJob(i) PROVE TypeOK'
  BY <1>10, JobTypes DEF TypeOK, CompleteJob, Release, Goto, Stages
<1>11. ASSUME NEW i \in Instances, FailJob(i) PROVE TypeOK'
  <2>1. cur[i] \in Txns
    BY <1>11 DEF TypeOK, FailJob
  <2>2. jobs' \in [Txns -> Jobs] /\ failures' \subseteq Failures
    BY <1>11, <2>1, JobTypes, FailureTypes DEF TypeOK, FailJob
  <2> QED BY <1>11, <2>1, <2>2 DEF TypeOK, FailJob, Release, Goto, Stages
<1>12. ASSUME NEW t \in Txns, RetryDue(t) PROVE TypeOK'
  <2>1. spent' \in [FaultKinds -> Nat]
    BY <1>12, SpentTypes DEF RetryDue, SpendUnless
  <2> QED BY <1>12, <2>1, JobTypes DEF TypeOK, RetryDue
<1>13. ASSUME NEW f \in failures, HandleRetry(f) PROVE TypeOK'
  BY <1>13, UpdatedTypes DEF TypeOK, HandleRetry
<1>14. ASSUME NEW f \in failures, SaveDeadLetter(f) PROVE TypeOK'
  <2>1. f \in Failures /\ [f EXCEPT !.saved = TRUE] \in Failures
    BY DEF TypeOK, Failures
  <2> QED BY <1>14, <2>1 DEF TypeOK, SaveDeadLetter, Failures
<1>15. ASSUME NEW f \in failures, MarkFailed(f) PROVE TypeOK'
  BY <1>15, UpdatedTypes DEF TypeOK, MarkFailed
<1>16. ASSUME NEW f \in failures, DeadLetterFails(f) PROVE TypeOK'
  <2>1. spent' \in [FaultKinds -> Nat]
    BY <1>16, SpentTypes DEF DeadLetterFails
  <2>2. txns' \in [Txns -> Rows]
    BY <1>16, UpdatedTypes DEF TypeOK, DeadLetterFails
  <2>3. f.txn \in Txns
    BY DEF TypeOK, Failures
  <2> QED BY <1>16, <2>1, <2>2, <2>3 DEF TypeOK, DeadLetterFails
<1>17. ASSUME NEW f \in failures, HandleRetryFails(f) PROVE TypeOK'
  <2>1. spent' \in [FaultKinds -> Nat]
    BY <1>17, SpentTypes DEF HandleRetryFails
  <2>2. txns' \in [Txns -> Rows]
    BY <1>17, UpdatedTypes DEF TypeOK, HandleRetryFails
  <2>3. f.by \in Instances
    BY DEF TypeOK, Failures
  <2> QED BY <1>17, <2>1, <2>2, <2>3, DieTypes DEF TypeOK, HandleRetryFails
<1>18. ASSUME NEW i \in Instances, Crash(i) PROVE TypeOK'
  <2>1. spent' \in [FaultKinds -> Nat]
    BY <1>18, SpentTypes DEF Crash
  <2> QED BY <1>18, <2>1, DieTypes DEF TypeOK, Crash
<1>19. ASSUME NEW t \in Txns, Stall(t) PROVE TypeOK'
  <2>1. spent' \in [FaultKinds -> Nat]
    BY <1>19, SpentTypes DEF Stall, SpendUnless
  <2> QED BY <1>19, <2>1, JobTypes DEF TypeOK, Stall
<1>20. ASSUME NEW t \in Txns, LeaseExpires(t) PROVE TypeOK'
  <2>1. spent' \in [FaultKinds -> Nat]
    BY <1>20, SpentTypes DEF LeaseExpires, SpendUnless
  <2> QED BY <1>20, <2>1, RowTypes DEF TypeOK, LeaseExpires
<1>21. CASE Recover
  BY <1>21, RowTypes DEF TypeOK, Recover
<1>22. CASE UNCHANGED vars
  BY <1>22 DEF TypeOK, vars
<1> QED
  BY <1>1, <1>2, <1>3, <1>4, <1>5, <1>6, <1>7, <1>8, <1>9, <1>10, <1>11, <1>12,
     <1>13, <1>14, <1>15, <1>16, <1>17, <1>18, <1>19, <1>20, <1>21, <1>22
     DEF Next, Step, Handle, Fault

\* Whatever the deployment and however often things go wrong, the tables, the
\* queue and the processes hold values of their types.
THEOREM TypeCorrect == Spec => []TypeOK
BY InitTypeOK, NextTypeOK, PTL DEF Spec

-----------------------------------------------------------------------------
(* Rows change only by the statements of the store, under their guards *)

RowStep(t) ==
    \/ txns'[t] = txns[t]
    \/ /\ CanStart(txns[t])
       /\ \E i \in Instances :
             /\ pc[i] = "read" /\ cur[i] = t /\ txns'[t] = Started(txns[t], i)
             /\ Claim(i) \/ QueryFails(i)
       /\ claims'[t] = claims[t] + 1
    \/ \E i \in Instances :
          /\ cur[i] = t /\ Owns(txns[t], i)
          /\ \/ txns'[t] = Renewed(txns[t])
             \/ /\ Verdict[t] # "FAILED" /\ txns'[t] = Finalized(txns[t], Verdict[t])
                /\ Finalize(i) \/ QueryFails(i)
    \/ /\ txns[t].status = "PROCESSING"
       /\ \/ LeaseExpires(t) /\ txns'[t] = [txns[t] EXCEPT !.lease = "expired"]
          \/ txns[t].lease = "expired" /\ txns'[t] = Recovered(txns[t])
    \/ \E f \in failures :
          /\ f.txn = t
          /\ \/ /\ ToBeRetried(f) /\ txns'[t] = Updated(txns[t], "ACCEPTED", f.attempts)
                /\ HandleRetry(f) \/ HandleRetryFails(f)
             \/ /\ f.saved /\ txns'[t] = Updated(txns[t], "FAILED", f.attempts)
                /\ MarkFailed(f) \/ DeadLetterFails(f)

LEMMA RowSteps ==
    ASSUME TypeOK, [Next]_vars, NEW t \in Txns
    PROVE  RowStep(t)
<1>1. CASE txns' = txns
  BY <1>1 DEF RowStep
<1>2. ASSUME NEW i \in Instances, cur[i] \in Txns, pc[i] = "read", ClaimRow(i),
             Claim(i) \/ QueryFails(i)
      PROVE  RowStep(t)
  BY <1>2 DEF RowStep, ClaimRow, TypeOK
<1>3. ASSUME NEW i \in Instances, Heartbeat(i) PROVE RowStep(t)
  BY <1>3 DEF RowStep, Heartbeat, TypeOK
<1>4. ASSUME NEW i \in Instances, cur[i] \in Txns, Verdict[cur[i]] # "FAILED", FinalizeRow(i),
             Finalize(i) \/ QueryFails(i)
      PROVE  RowStep(t)
  BY <1>4 DEF RowStep, FinalizeRow, TypeOK
<1>5. ASSUME NEW f \in failures,
             \/ /\ ToBeRetried(f)
                /\ txns' = [txns EXCEPT ![f.txn] = Updated(@, "ACCEPTED", f.attempts)]
                /\ HandleRetry(f) \/ HandleRetryFails(f)
             \/ /\ f.saved
                /\ txns' = [txns EXCEPT ![f.txn] = Updated(@, "FAILED", f.attempts)]
                /\ MarkFailed(f) \/ DeadLetterFails(f)
      PROVE  RowStep(t)
  BY <1>5 DEF RowStep, TypeOK
<1>6. ASSUME NEW u \in Txns, LeaseExpires(u) PROVE RowStep(t)
  BY <1>6 DEF RowStep, LeaseExpires, TypeOK
<1>7. CASE Recover
  BY <1>7 DEF RowStep, Recover, Abandoned
<1>8. ASSUME NEW i \in Instances, pc[i] \in {"taken", "read", "claimed"} PROVE cur[i] \in Txns
  BY <1>8 DEF TypeOK
<1>9. ASSUME NEW i \in Instances, Step(i) PROVE RowStep(t)
  <2>1. CASE Claim(i)
    BY <2>1, <1>2, <1>8 DEF Claim
  <2>2. CASE Finalize(i)
    BY <2>2, <1>4, <1>8 DEF Finalize
  <2> QED
    BY <2>1, <2>2, <1>1, <1>9 DEF Step, TakeJob, TakeDoomed, ReadTxn, ProcessorFails,
       CompleteJob, FailJob
<1>10. CASE Fault
  <2>1. ASSUME NEW i \in Instances, QueryFails(i) PROVE RowStep(t)
    BY <2>1, <1>1, <1>2, <1>4, <1>8 DEF QueryFails
  <2>2. ASSUME NEW i \in Instances, Crash(i) PROVE RowStep(t)
    BY <2>2, <1>1 DEF Crash
  <2>3. ASSUME NEW f \in failures, HandleRetryFails(f) \/ DeadLetterFails(f) PROVE RowStep(t)
    BY <2>3, <1>1, <1>5 DEF HandleRetryFails, DeadLetterFails
  <2> QED BY <1>10, <2>1, <2>2, <2>3 DEF Fault
<1>11. ASSUME NEW f \in failures, Handle(f) PROVE RowStep(t)
  BY <1>11, <1>1, <1>5 DEF Handle, HandleRetry, SaveDeadLetter, MarkFailed
<1>12. ASSUME NEW u \in Txns, Enqueue(u) \/ RetryDue(u) \/ Stall(u) PROVE RowStep(t)
  BY <1>12, <1>1 DEF Enqueue, RetryDue, Stall
<1>13. CASE UNCHANGED vars
  BY <1>13, <1>1 DEF vars
<1> QED
  BY <1>3, <1>6, <1>7, <1>9, <1>10, <1>11, <1>12, <1>13 DEF Next

-----------------------------------------------------------------------------
(* The lease columns *)

LEMMA LeaseColumnsStep ==
    ASSUME TypeOK, LeaseColumnsAgree, [Next]_vars
    PROVE  LeaseColumnsAgree'
<1> SUFFICES ASSUME NEW t \in Txns PROVE LeaseAgrees(txns'[t])
  BY DEF LeaseColumnsAgree
<1>1. RowStep(t) /\ LeaseAgrees(txns[t]) /\ txns[t] \in Rows
  BY RowSteps DEF LeaseColumnsAgree, TypeOK
<1> DEFINE row == txns[t]
<1>2. row \in Rows /\ LeaseAgrees(row)
  BY <1>1
<1>3. Verdict[t] \in {"COMPLETED", "DECLINED", "FAILED"}
  BY VerdictAssumption
<1>4. \A i \in Instances : LeaseAgrees(Started(row, i))
  BY <1>2, NoInstanceAssumption DEF Rows, Started, LeaseAgrees
<1>5. ASSUME NEW i \in Instances, Owns(row, i)
      PROVE  LeaseAgrees(Renewed(row)) /\ LeaseAgrees(Finalized(row, Verdict[t]))
  BY <1>2, <1>3, <1>5, NoInstanceAssumption
     DEF Rows, Owns, Renewed, Finalized, WithoutLease, LeaseAgrees
<1>6. ASSUME row.status = "PROCESSING"
      PROVE  LeaseAgrees([row EXCEPT !.lease = "expired"]) /\ LeaseAgrees(Recovered(row))
  BY <1>2, <1>6 DEF Rows, Recovered, WithoutLease, LeaseAgrees
<1>7. \A f \in failures : /\ LeaseAgrees(Updated(row, "ACCEPTED", f.attempts))
                          /\ LeaseAgrees(Updated(row, "FAILED", f.attempts))
  BY <1>2 DEF Rows, Updated, WithoutLease, LeaseAgrees
<1> QED
  BY <1>1, <1>2, <1>4, <1>5, <1>6, <1>7 DEF RowStep

\* In every deployment, with any number of faults, the lease columns of a row are
\* filled exactly while it is PROCESSING.
THEOREM LeaseColumnsCorrect == Spec => []LeaseColumnsAgree
<1>1. Init => LeaseColumnsAgree
  BY DEF Init, LeaseColumnsAgree, LeaseAgrees, AcceptedRow
<1> QED BY <1>1, TypeCorrect, LeaseColumnsStep, PTL DEF Spec

-----------------------------------------------------------------------------
(* Dead letters *)

\* Nothing takes, retries, stalls or removes a job of the failed set.
LEMMA FailedJobsStay ==
    ASSUME TypeOK, [Next]_vars, NEW t \in Txns, jobs[t].state = "failed"
    PROVE  jobs'[t] = jobs[t]
<1>1. CASE jobs' = jobs
  BY <1>1
<1>2. ASSUME NEW u \in Txns, Enqueue(u) \/ RetryDue(u) \/ Stall(u) PROVE jobs'[t] = jobs[t]
  BY <1>2 DEF Enqueue, RetryDue, Stall, TypeOK
<1>3. ASSUME NEW i \in Instances, Step(i) PROVE jobs'[t] = jobs[t]
  <2>1. ASSUME NEW u \in Txns, TakeJob(i, u) \/ TakeDoomed(i, u) PROVE jobs'[t] = jobs[t]
    BY <2>1 DEF TakeJob, TakeDoomed, TypeOK
  <2>2. CASE CompleteJob(i) \/ FailJob(i)
    BY <2>2 DEF CompleteJob, FailJob, HoldsLock, TypeOK
  <2> QED
    BY <2>1, <2>2, <1>1, <1>3 DEF Step, ReadTxn, Claim, ProcessorFails, Finalize
<1>4. CASE Fault
  BY <1>4, <1>1 DEF Fault, QueryFails, Crash, HandleRetryFails, DeadLetterFails, Die
<1> QED
  BY <1>1, <1>2, <1>3, <1>4 DEF Next, Heartbeat, Handle, HandleRetry, SaveDeadLetter,
     MarkFailed, LeaseExpires, Recover, vars

\* Where the members of failures come from.
LEMMA FailureSteps ==
    ASSUME TypeOK, [Next]_vars, NEW f \in failures'
    PROVE  \/ f \in failures
           \/ /\ f.txn \in Txns /\ ~f.saved
              /\ f.attempts = jobs[f.txn].attemptsMade + 1
              /\ jobs'[f.txn] \in {Retried(jobs[f.txn]), FailedForGood(jobs[f.txn])}
           \/ \E g \in failures :
                 /\ f = [g EXCEPT !.saved = TRUE] /\ ~ToBeRetried(g)
                 /\ g.txn \in deadLetters'
<1>1. CASE failures' \subseteq failures
  BY <1>1
<1>2. ASSUME NEW i \in Instances, NEW u \in Txns, f = FailureOf(i, u),
             jobs' \in {[jobs EXCEPT ![u] = Retried(@)], [jobs EXCEPT ![u] = FailedForGood(@)]}
      PROVE  /\ f.txn \in Txns /\ ~f.saved
             /\ f.attempts = jobs[f.txn].attemptsMade + 1
             /\ jobs'[f.txn] \in {Retried(jobs[f.txn]), FailedForGood(jobs[f.txn])}
  BY <1>2 DEF FailureOf, TypeOK
<1>3. ASSUME NEW i \in Instances, NEW u \in Txns, TakeDoomed(i, u), f \notin failures
      PROVE  f = FailureOf(i, u) /\ jobs' = [jobs EXCEPT ![u] = FailedForGood(@)]
  BY <1>3 DEF TakeDoomed
<1>4. ASSUME NEW i \in Instances, FailJob(i), f \notin failures
      PROVE  /\ f = FailureOf(i, cur[i]) /\ cur[i] \in Txns
             /\ jobs' = [jobs EXCEPT ![cur[i]] = Retried(@)]
  BY <1>4 DEF FailJob, TypeOK
<1>5. ASSUME NEW i \in Instances, Step(i), f \notin failures
      PROVE  /\ f.txn \in Txns /\ ~f.saved
             /\ f.attempts = jobs[f.txn].attemptsMade + 1
             /\ jobs'[f.txn] \in {Retried(jobs[f.txn]), FailedForGood(jobs[f.txn])}
  BY <1>5, <1>2, <1>3, <1>4 DEF Step, TakeJob, ReadTxn, Claim, ProcessorFails, Finalize,
     CompleteJob
<1>6. ASSUME NEW g \in failures, SaveDeadLetter(g), f \notin failures
      PROVE  f = [g EXCEPT !.saved = TRUE] /\ ~ToBeRetried(g) /\ g.txn \in deadLetters'
  BY <1>6 DEF SaveDeadLetter
<1>7. CASE Fault
  BY <1>7, <1>1 DEF Fault, QueryFails, Crash, HandleRetryFails, DeadLetterFails, Die
<1> QED
  BY <1>1, <1>5, <1>6, <1>7 DEF Next, Heartbeat, Handle, HandleRetry, MarkFailed,
     Enqueue, RetryDue, Stall, LeaseExpires, Recover, vars

\* Dead letters are never deleted, and a new one is written by a handler call
\* that is past its last attempt.
LEMMA DeadLetterSteps ==
    ASSUME TypeOK, [Next]_vars
    PROVE  /\ deadLetters \subseteq deadLetters'
           /\ \A t \in deadLetters' :
                t \in deadLetters \/ \E f \in failures : f.txn = t /\ ~ToBeRetried(f)
<1>1. CASE deadLetters' = deadLetters
  BY <1>1
<1>2. ASSUME NEW f \in failures, SaveDeadLetter(f) \/ DeadLetterFails(f)
      PROVE  ~ToBeRetried(f) /\ deadLetters' \in {deadLetters, deadLetters \cup {f.txn}}
  BY <1>2 DEF SaveDeadLetter, DeadLetterFails
<1>3. CASE Fault
  BY <1>3, <1>1, <1>2 DEF Fault, QueryFails, Crash, HandleRetryFails, Die
<1>4. ASSUME NEW i \in Instances, Step(i) PROVE deadLetters' = deadLetters
  BY <1>4 DEF Step, TakeJob, TakeDoomed, ReadTxn, Claim, ProcessorFails, Finalize,
     CompleteJob, FailJob
<1> QED
  BY <1>1, <1>2, <1>3, <1>4 DEF Next, Heartbeat, Handle, HandleRetry, MarkFailed,
     Enqueue, RetryDue, Stall, LeaseExpires, Recover, vars

\* The invariant the three facts about dead letters follow from: a row is FAILED
\* only behind its dead letter because the handler that wrote it had saved it, and
\* a dead letter's job is parked because the handler that saved it found it so.
DeadLetterInv == HandlersAgree /\ DeadLetterIsParked /\ FailedHasDeadLetter

LEMMA DeadLetterInit == Init => DeadLetterInv
BY DEF Init, DeadLetterInv, HandlersAgree, DeadLetterIsParked, FailedHasDeadLetter,
   AcceptedRow

LEMMA HandlersAgreeStep ==
    ASSUME TypeOK, HandlersAgree, [Next]_vars
    PROVE  HandlersAgree'
<1> SUFFICES ASSUME NEW f \in failures'
             PROVE  /\ ~ToBeRetried(f) => Parked(jobs'[f.txn])
                    /\ f.saved => ~ToBeRetried(f) /\ f.txn \in deadLetters'
  BY DEF HandlersAgree, ToBeRetried, Parked
<1>1. CASE f \in failures
  <2>1. f.txn \in Txns
    BY <1>1 DEF TypeOK, Failures
  <2>2. ~ToBeRetried(f) => jobs'[f.txn] = jobs[f.txn]
    BY <1>1, <2>1, FailedJobsStay DEF HandlersAgree, Parked
  <2> QED BY <1>1, <2>2, DeadLetterSteps DEF HandlersAgree
<1>2. CASE /\ f.txn \in Txns /\ ~f.saved
           /\ f.attempts = jobs[f.txn].attemptsMade + 1
           /\ jobs'[f.txn] \in {Retried(jobs[f.txn]), FailedForGood(jobs[f.txn])}
  <2>1. jobs[f.txn] \in Jobs /\ f.attempts \in Nat
    BY <1>2 DEF TypeOK, Jobs
  <2>2. CASE jobs'[f.txn] = Retried(jobs[f.txn])
    BY <1>2, <2>1, <2>2, MaxAttemptsAssumption DEF ToBeRetried, Parked, Retried, Jobs
  <2>3. CASE jobs'[f.txn] = FailedForGood(jobs[f.txn])
    BY <1>2, <2>1, <2>3, MaxAttemptsAssumption DEF ToBeRetried, Parked, FailedForGood, Jobs
  <2> QED BY <1>2, <2>2, <2>3
<1>3. ASSUME NEW g \in failures, f = [g EXCEPT !.saved = TRUE], ~ToBeRetried(g),
             g.txn \in deadLetters'
      PROVE  ~ToBeRetried(f) /\ Parked(jobs'[f.txn]) /\ f.txn \in deadLetters'
  <2>1. g \in Failures /\ f.txn = g.txn /\ f.attempts = g.attempts
    BY <1>3 DEF TypeOK, Failures
  <2>2. Parked(jobs[g.txn])
    BY <1>3 DEF HandlersAgree
  <2>3. jobs'[g.txn] = jobs[g.txn]
    BY <2>1, <2>2, FailedJobsStay DEF Parked, Failures
  <2> QED BY <1>3, <2>1, <2>2, <2>3 DEF ToBeRetried
<1> QED BY <1>1, <1>2, <1>3, FailureSteps

LEMMA DeadLetterIsParkedStep ==
    ASSUME TypeOK, HandlersAgree, DeadLetterIsParked, [Next]_vars
    PROVE  DeadLetterIsParked'
<1> SUFFICES ASSUME NEW t \in deadLetters' PROVE Parked(jobs'[t])
  BY DEF DeadLetterIsParked, Parked
<1>1. t \in Txns /\ Parked(jobs[t])
  BY DeadLetterSteps DEF HandlersAgree, DeadLetterIsParked, TypeOK, Failures
<1> QED BY <1>1, FailedJobsStay DEF Parked

LEMMA FailedHasDeadLetterStep ==
    ASSUME TypeOK, HandlersAgree, FailedHasDeadLetter, [Next]_vars
    PROVE  FailedHasDeadLetter'
<1> SUFFICES ASSUME NEW t \in Txns, txns'[t].status = "FAILED"
             PROVE  t \in deadLetters' /\ txns'[t].retryCount >= MaxAttempts
  BY DEF FailedHasDeadLetter
<1>1. RowStep(t) /\ txns[t] \in Rows /\ deadLetters \subseteq deadLetters'
  BY RowSteps, DeadLetterSteps DEF TypeOK
<1>2. CASE txns'[t] = txns[t]
  BY <1>1, <1>2 DEF FailedHasDeadLetter
<1>3. ASSUME NEW f \in failures, f.txn = t, f.saved,
             txns'[t] = Updated(txns[t], "FAILED", f.attempts)
      PROVE  t \in deadLetters' /\ txns'[t].retryCount >= MaxAttempts
  <2>1. f.txn \in deadLetters /\ f.attempts >= MaxAttempts
    BY <1>3, MaxAttemptsAssumption DEF HandlersAgree, ToBeRetried, TypeOK, Failures
  <2> QED BY <1>1, <1>3, <2>1 DEF Updated, WithoutLease, Rows
<1>4. ASSUME NEW f \in failures, txns'[t] = Updated(txns[t], "ACCEPTED", f.attempts) PROVE FALSE
  BY <1>1, <1>4 DEF Updated, WithoutLease, Rows
<1>5. ASSUME Verdict[t] # "FAILED", txns'[t] = Finalized(txns[t], Verdict[t]) PROVE FALSE
  BY <1>1, <1>5 DEF Finalized, WithoutLease, Rows
<1>6. ASSUME \/ \E i \in Instances : txns'[t] = Started(txns[t], i)
             \/ \E i \in Instances : Owns(txns[t], i) /\ txns'[t] = Renewed(txns[t])
             \/ txns[t].status = "PROCESSING" /\ txns'[t] = [txns[t] EXCEPT !.lease = "expired"]
             \/ txns'[t] = Recovered(txns[t])
      PROVE FALSE
  BY <1>1, <1>6 DEF Started, Owns, Renewed, Recovered, WithoutLease, Rows
<1> QED
  BY <1>1, <1>2, <1>3, <1>4, <1>5, <1>6 DEF RowStep

\* Both of the following come from one invariant.
LEMMA DeadLetterInvariant == Spec => [](TypeOK /\ DeadLetterInv)
<1>1. TypeOK /\ DeadLetterInv /\ [Next]_vars => DeadLetterInv'
  BY HandlersAgreeStep, DeadLetterIsParkedStep, FailedHasDeadLetterStep DEF DeadLetterInv
<1> QED BY <1>1, DeadLetterInit, TypeCorrect, PTL DEF Spec

\* In every deployment, with any number of faults, a transaction is FAILED only
\* behind a durable dead letter and with its attempts used up.
THEOREM FailedHasDeadLetterCorrect == Spec => []FailedHasDeadLetter
<1>1. DeadLetterInv => FailedHasDeadLetter
  BY DEF DeadLetterInv
<1> QED BY <1>1, DeadLetterInvariant, PTL

\* A dead-lettered job is never taken, retried or replaced again.
THEOREM DeadLetterIsParkedCorrect == Spec => []DeadLetterIsParked
<1>1. DeadLetterInv => DeadLetterIsParked
  BY DEF DeadLetterInv
<1> QED BY <1>1, DeadLetterInvariant, PTL

-----------------------------------------------------------------------------
(* Fencing *)

\* A claim takes only rows that nobody owns, and its number is the claimant's.
LEMMA ClaimKeepsFence ==
    ASSUME TypeOK, ClaimsAreFenced, NEW j \in Instances, pc[j] = "read", ClaimRow(j),
           NEW i \in Instances, i # j, pc[i] = "claimed", Owns(txns'[cur[i]], i)
    PROVE  myClaim'[i] = claims'[cur[i]]
<1>1. cur[i] \in Txns /\ cur[j] \in Txns
  BY DEF TypeOK
<1>2. CASE ~CanStart(txns[cur[j]])
  BY <1>2 DEF ClaimRow, ClaimsAreFenced
<1>3. CASE CanStart(txns[cur[j]]) /\ cur[i] # cur[j]
  BY <1>1, <1>3 DEF ClaimRow, ClaimsAreFenced, TypeOK
<1>4. CASE CanStart(txns[cur[j]]) /\ cur[i] = cur[j]
  <2>1. txns'[cur[i]] = Started(txns[cur[j]], j) /\ txns[cur[j]] \in Rows
    BY <1>1, <1>4 DEF ClaimRow, TypeOK
  <2>2. txns'[cur[i]].owner = j
    BY <2>1 DEF Started, Rows
  <2> QED BY <2>2 DEF Owns
<1> QED BY <1>2, <1>3, <1>4

\* No other statement gives a row an owner.
LEMMA OthersKeepOwner ==
    ASSUME TypeOK, NEW t \in Txns, NEW i \in Instances, RowStep(t), claims' = claims,
           Owns(txns'[t], i)
    PROVE  Owns(txns[t], i)
<1>1. txns[t] \in Rows /\ i # NoInstance /\ claims'[t] # claims[t] + 1
  BY NoInstanceAssumption DEF TypeOK
<1>2. txns'[t].status = "PROCESSING" /\ txns'[t].owner = i
  BY DEF Owns
<1>3. CASE txns'[t] = txns[t]
  BY <1>2, <1>3 DEF Owns
<1>4. CASE txns'[t] = Renewed(txns[t])
  BY <1>1, <1>2, <1>4 DEF Owns, Renewed, Rows
<1>5. CASE txns[t].status = "PROCESSING" /\ txns'[t] = [txns[t] EXCEPT !.lease = "expired"]
  BY <1>1, <1>2, <1>5 DEF Owns, Rows
<1>6. CASE \/ \E status \in Statuses : txns'[t] = Finalized(txns[t], status)
          \/ txns'[t] = Recovered(txns[t])
          \/ \E status \in Statuses, n \in Nat : txns'[t] = Updated(txns[t], status, n)
  <2>1. txns'[t].owner = NoInstance
    BY <1>1, <1>6 DEF Finalized, Recovered, Updated, WithoutLease, Rows
  <2> QED BY <1>1, <1>2, <2>1
<1> QED
  BY <1>1, <1>3, <1>4, <1>5, <1>6, VerdictAssumption DEF RowStep, TypeOK, Failures, Statuses

\* A process is past its claim only if it was, on the same job, or claims now.
LEMMA ClaimedSteps ==
    ASSUME TypeOK, [Next]_vars, NEW i \in Instances, pc'[i] = "claimed"
    PROVE  (pc[i] = "claimed" /\ cur'[i] = cur[i]) \/ Claim(i)
<1>1. CASE UNCHANGED <<pc, cur>>
  BY <1>1
<1>2. ASSUME NEW j \in Instances, Step(j), ~Claim(j)
      PROVE  pc[i] = "claimed" /\ cur'[i] = cur[i]
  <2>1. CASE \E t \in Txns : TakeDoomed(j, t)
    BY <2>1 DEF TakeDoomed
  <2> QED
    BY <1>2, <2>1 DEF Step, TakeJob, TakeDoomed, ReadTxn, ProcessorFails, Finalize,
       CompleteJob, FailJob, Release, Goto, TypeOK
<1>3. ASSUME NEW j \in Instances, Claim(j), j # i
      PROVE  pc[i] = "claimed" /\ cur'[i] = cur[i]
  BY <1>3 DEF Claim, Goto, TypeOK
<1>4. ASSUME NEW j \in Instances, Die(j)
      PROVE  pc[i] = "claimed" /\ cur'[i] = cur[i]
  BY <1>4 DEF Die, Goto, TypeOK
<1>5. CASE Fault
  <2>1. ASSUME NEW j \in Instances, QueryFails(j)
        PROVE  pc[i] = "claimed" /\ cur'[i] = cur[i]
    BY <2>1 DEF QueryFails, Goto, TypeOK
  <2>2. \A f \in failures : f.by \in Instances
    BY DEF TypeOK, Failures
  <2> QED BY <1>1, <1>4, <1>5, <2>1, <2>2 DEF Fault, Crash, HandleRetryFails, DeadLetterFails
<1> QED
  BY <1>1, <1>2, <1>3, <1>5 DEF Next, Heartbeat, Handle, HandleRetry, SaveDeadLetter,
     MarkFailed, Enqueue, RetryDue, Stall, LeaseExpires, Recover, vars

\* Only startTransactionProcessing counts a claim.
LEMMA ClaimCountSteps ==
    ASSUME [Next]_vars
    PROVE  \/ UNCHANGED <<claims, myClaim>>
           \/ \E j \in Instances : Claim(j)
           \/ \E j \in Instances : pc[j] = "read" /\ ClaimRow(j) /\ Goto(j, "threw")
                                  /\ UNCHANGED cur
<1>1. CASE Fault
  BY <1>1 DEF Fault, QueryFails, Crash, HandleRetryFails, DeadLetterFails, Die
<1>2. ASSUME NEW j \in Instances, Step(j), ~Claim(j) PROVE UNCHANGED <<claims, myClaim>>
  BY <1>2 DEF Step, TakeJob, TakeDoomed, ReadTxn, ProcessorFails, Finalize, CompleteJob, FailJob
<1> QED
  BY <1>1, <1>2 DEF Next, Heartbeat, Handle, HandleRetry, SaveDeadLetter,
     MarkFailed, Enqueue, RetryDue, Stall, LeaseExpires, Recover, vars

LEMMA ClaimsAreFencedStep ==
    ASSUME TypeOK, ClaimsAreFenced, [Next]_vars
    PROVE  ClaimsAreFenced'
<1> SUFFICES ASSUME NEW i \in Instances, pc'[i] = "claimed", Owns(txns'[cur'[i]], i)
             PROVE  myClaim'[i] = claims'[cur'[i]]
  BY DEF ClaimsAreFenced, Owns
<1>1. CASE UNCHANGED <<claims, myClaim>> /\ ~Claim(i)
  <2>1. pc[i] = "claimed" /\ cur'[i] = cur[i] /\ cur[i] \in Txns
    BY <1>1, ClaimedSteps DEF TypeOK
  <2>2. Owns(txns[cur[i]], i)
    BY <1>1, <2>1, RowSteps, OthersKeepOwner
  <2> QED BY <1>1, <2>1, <2>2 DEF ClaimsAreFenced
<1>2. CASE Claim(i)
  <2>1. CanStart(txns[cur[i]]) /\ cur'[i] = cur[i] /\ cur[i] \in Txns
    BY <1>2 DEF Claim, Goto, TypeOK
  <2> QED BY <1>2, <2>1 DEF Claim, ClaimRow, TypeOK
<1>3. ASSUME NEW j \in Instances, i # j, pc[j] = "read", ClaimRow(j), ~Claim(i), UNCHANGED cur
      PROVE  myClaim'[i] = claims'[cur'[i]]
  BY <1>3, ClaimedSteps, ClaimKeepsFence
<1>4. ASSUME pc[i] = "read", Goto(i, "threw") PROVE FALSE
  BY <1>4 DEF Goto, TypeOK
<1> QED
  BY <1>1, <1>2, <1>3, <1>4, ClaimCountSteps DEF Claim

\* In every deployment, with any number of faults, a worker that still owns the
\* row it claimed holds the latest claim on it.
THEOREM ClaimsAreFencedCorrect == Spec => []ClaimsAreFenced
<1>1. Init => ClaimsAreFenced
  BY DEF Init, ClaimsAreFenced
<1> QED BY <1>1, TypeCorrect, ClaimsAreFencedStep, PTL DEF Spec

-----------------------------------------------------------------------------
(* What moves a job, a process and a fault counter *)

\* The step is the death of process i.
Dies(i) == Crash(i) \/ \E f \in failures : f.by = i /\ HandleRetryFails(f)

JobStep(t) ==
    \/ jobs'[t] = jobs[t]
    \/ Enqueue(t) \/ RetryDue(t) \/ Stall(t)
    \/ \E i \in Instances :
          \/ TakeJob(i, t) \/ TakeDoomed(i, t)
          \/ cur[i] = t /\ HoldsLock(jobs[t], i) /\ (CompleteJob(i) \/ FailJob(i))

LEMMA JobSteps ==
    ASSUME TypeOK, [Next]_vars, NEW t \in Txns
    PROVE  JobStep(t)
<1>1. CASE jobs' = jobs
  BY <1>1 DEF JobStep
<1>2. ASSUME NEW u \in Txns, Enqueue(u) \/ RetryDue(u) \/ Stall(u) PROVE JobStep(t)
  BY <1>2 DEF JobStep, Enqueue, RetryDue, Stall, TypeOK
<1>3. ASSUME NEW i \in Instances, Step(i) PROVE JobStep(t)
  <2>1. ASSUME NEW u \in Txns, TakeJob(i, u) \/ TakeDoomed(i, u) PROVE JobStep(t)
    BY <2>1 DEF JobStep, TakeJob, TakeDoomed, TypeOK
  <2>2. CASE CompleteJob(i) \/ FailJob(i)
    <3>1. CASE HoldsLock(jobs[cur[i]], i) /\ cur[i] = t
      BY <2>2, <3>1 DEF JobStep
    <3>2. CASE ~HoldsLock(jobs[cur[i]], i)
      BY <1>1, <2>2, <3>2 DEF CompleteJob, FailJob
    <3>3. CASE cur[i] # t
      BY <2>2, <3>3 DEF JobStep, CompleteJob, FailJob, TypeOK
    <3> QED BY <3>1, <3>2, <3>3
  <2> QED
    BY <2>1, <2>2, <1>1, <1>3 DEF Step, ReadTxn, Claim, ProcessorFails, Finalize
<1>4. CASE Fault
  BY <1>4, <1>1 DEF Fault, QueryFails, Crash, HandleRetryFails, DeadLetterFails, Die
<1> QED
  BY <1>1, <1>2, <1>3, <1>4 DEF Next, Heartbeat, Handle, HandleRetry, SaveDeadLetter,
     MarkFailed, LeaseExpires, Recover, vars

ProcessStep(i) ==
    \/ pc'[i] = pc[i] /\ cur'[i] = cur[i]
    \/ \E t \in Txns : TakeJob(i, t)
    \/ ReadTxn(i) \/ Claim(i) \/ ProcessorFails(i) \/ Finalize(i) \/ QueryFails(i)
    \/ CompleteJob(i) \/ FailJob(i)
    \/ Dies(i)

LEMMA ProcessSteps ==
    ASSUME TypeOK, [Next]_vars, NEW i \in Instances
    PROVE  ProcessStep(i)
<1>1. CASE UNCHANGED <<pc, cur>>
  BY <1>1 DEF ProcessStep
<1>2. ASSUME NEW j \in Instances, Step(j) PROVE ProcessStep(i)
  <2>1. CASE j = i
    BY <1>1, <1>2, <2>1 DEF ProcessStep, Step, TakeDoomed
  <2>2. CASE j # i
    BY <1>2, <2>2 DEF ProcessStep, Step, TakeJob, TakeDoomed, ReadTxn, Claim, ProcessorFails,
       Finalize, CompleteJob, FailJob, Release, Goto, TypeOK
  <2> QED BY <2>1, <2>2
<1>3. ASSUME NEW j \in Instances, QueryFails(j) PROVE ProcessStep(i)
  BY <1>3 DEF ProcessStep, QueryFails, Goto, TypeOK
<1>4. ASSUME NEW j \in Instances, Dies(j) PROVE ProcessStep(i)
  BY <1>4 DEF ProcessStep, Dies, Crash, HandleRetryFails, Die, Goto, TypeOK
<1>5. CASE Fault
  <2>1. \A f \in failures : f.by \in Instances
    BY DEF TypeOK, Failures
  <2> QED BY <1>1, <1>3, <1>4, <1>5, <2>1 DEF Fault, Dies, DeadLetterFails
<1> QED
  BY <1>1, <1>2, <1>5 DEF Next, Heartbeat, Handle, HandleRetry, SaveDeadLetter,
     MarkFailed, Enqueue, RetryDue, Stall, LeaseExpires, Recover, vars

\* Where the members of failures come from, step by step.
FailureStep(f) ==
    \/ f \in failures
    \/ \E i \in Instances : TakeDoomed(i, f.txn) /\ f = FailureOf(i, f.txn)
    \/ \E i \in Instances : /\ FailJob(i) /\ cur[i] = f.txn /\ HoldsLock(jobs[f.txn], i)
                            /\ f = FailureOf(i, f.txn)
    \/ \E g \in failures : SaveDeadLetter(g) /\ f = [g EXCEPT !.saved = TRUE]

LEMMA FailureOrigins ==
    ASSUME TypeOK, [Next]_vars, NEW f \in failures'
    PROVE  f.txn \in Txns /\ FailureStep(f)
<1>1. f.txn \in Txns
  BY NextTypeOK DEF TypeOK, Failures
<1>2. CASE failures' \subseteq failures
  BY <1>1, <1>2 DEF FailureStep
<1>3. ASSUME NEW i \in Instances, Step(i) PROVE FailureStep(f)
  <2>1. ASSUME NEW t \in Txns, TakeDoomed(i, t), f \notin failures
        PROVE  f = FailureOf(i, t) /\ f.txn = t
    BY <2>1 DEF TakeDoomed, FailureOf
  <2>2. ASSUME FailJob(i), f \notin failures
        PROVE  f = FailureOf(i, cur[i]) /\ f.txn = cur[i] /\ HoldsLock(jobs[cur[i]], i)
    BY <2>2 DEF FailJob, FailureOf
  <2> QED
    BY <1>2, <1>3, <2>1, <2>2 DEF FailureStep, Step, TakeJob, ReadTxn, Claim, ProcessorFails,
       Finalize, CompleteJob
<1>4. ASSUME NEW g \in failures, SaveDeadLetter(g) PROVE FailureStep(f)
  BY <1>4 DEF SaveDeadLetter, FailureStep
<1>5. CASE Fault
  BY <1>2, <1>5 DEF Fault, QueryFails, Crash, HandleRetryFails, DeadLetterFails, Die
<1> QED
  BY <1>1, <1>2, <1>3, <1>4, <1>5 DEF Next, Heartbeat, Handle, HandleRetry, MarkFailed,
     Enqueue, RetryDue, Stall, LeaseExpires, Recover, vars

\* A handler call that is still there went through no change but the dead letter.
LEMMA SavedFailure ==
    ASSUME TypeOK, NEW g \in failures
    PROVE  LET f == [g EXCEPT !.saved = TRUE] IN
           /\ f.txn = g.txn /\ f.by = g.by /\ f.attempts = g.attempts
           /\ ToBeRetried(f) <=> ToBeRetried(g)
           /\ g.txn \in Txns /\ g.by \in Instances
BY DEF TypeOK, Failures, ToBeRetried

\* A step is one fault or none.
LEMMA SpentSteps ==
    ASSUME TypeOK, [Next]_vars
    PROVE  UNCHANGED spent \/ \E k \in FaultKinds : Spend(k)
BY DEF Next, Step, TakeJob, TakeDoomed, ReadTxn, Claim, ProcessorFails, Finalize, CompleteJob,
   FailJob, Heartbeat, Handle, HandleRetry, SaveDeadLetter, MarkFailed, Fault, QueryFails,
   Crash, HandleRetryFails, DeadLetterFails, Enqueue, RetryDue, Stall, LeaseExpires,
   SpendUnless, Recover, FaultKinds, vars

LEMMA SpentOnlyGrows ==
    ASSUME TypeOK, [Next]_vars, NEW k \in FaultKinds
    PROVE  spent[k] \in Nat /\ spent'[k] \in Nat /\ spent'[k] >= spent[k]
<1>1. spent[k] \in Nat
  BY DEF TypeOK
<1>2. \A j \in FaultKinds : Spend(j) =>
         spent'[k] = IF j = k THEN spent[k] + 1 ELSE spent[k]
  BY DEF TypeOK, Spend
<1> QED BY <1>1, <1>2, SpentSteps

-----------------------------------------------------------------------------
(* Who works on a job, and what was never touched *)

\* The holder of an active job works on it or is dead, and a process without a job
\* has no transaction.
HoldersWork ==
    /\ \A i \in Instances : pc[i] \in {"idle", "dead"} => cur[i] = NoTxn
    /\ \A t \in Txns : jobs[t].state = "active" =>
          LET h == jobs[t].holder IN h \in Instances /\ (pc[h] = "dead" \/ cur[h] = t)

\* What each transition leaves of the job's state and counters.
LEMMA JobFields ==
    ASSUME NEW job \in Jobs
    PROVE  /\ NoJob.state = "absent" /\ NoJob.attemptsMade = 0 /\ NoJob.stalledCount = 0
           /\ job.state = "absent" => /\ Added(job).state = "waiting"
                                      /\ Added(job).attemptsMade = 0
                                      /\ Added(job).stalledCount = 0
           /\ \A i \in Instances : /\ Taken(job, i).state = "active"
                                   /\ Taken(job, i).holder = i
                                   /\ Taken(job, i).attemptsMade = job.attemptsMade
                                   /\ Taken(job, i).stalledCount = job.stalledCount
           /\ Due(job).state = "waiting"
           /\ Due(job).attemptsMade = job.attemptsMade
           /\ Due(job).stalledCount = job.stalledCount
           /\ Stalled(job).state = "waiting"
           /\ Stalled(job).attemptsMade = job.attemptsMade
           /\ Stalled(job).stalledCount = job.stalledCount + 1
           /\ Retried(job).state = IF job.attemptsMade + 1 < MaxAttempts THEN "delayed" ELSE "failed"
           /\ Retried(job).attemptsMade = job.attemptsMade + 1
           /\ Retried(job).stalledCount = job.stalledCount
           /\ FailedForGood(job).state = "failed"
           /\ FailedForGood(job).attemptsMade = job.attemptsMade + 1
           /\ FailedForGood(job).stalledCount = job.stalledCount
           /\ Completed(job) = NoJob
<1>1. /\ NoJob.state = "absent" /\ NoJob.attemptsMade = 0 /\ NoJob.stalledCount = 0
      /\ NewJob.state = "waiting" /\ NewJob.attemptsMade = 0 /\ NewJob.stalledCount = 0
  BY DEF NoJob, NewJob
<1>2. job.state = "absent" => Added(job) = NewJob
  BY DEF Added
<1>3. /\ Due(job).state = "waiting"
      /\ Due(job).attemptsMade = job.attemptsMade
      /\ Due(job).stalledCount = job.stalledCount
      /\ Stalled(job).state = "waiting"
      /\ Stalled(job).attemptsMade = job.attemptsMade
      /\ Stalled(job).stalledCount = job.stalledCount + 1
  BY DEF Jobs, Due, Stalled
<1>4. \A i \in Instances : /\ Taken(job, i).state = "active"
                           /\ Taken(job, i).holder = i
                           /\ Taken(job, i).attemptsMade = job.attemptsMade
                           /\ Taken(job, i).stalledCount = job.stalledCount
  BY DEF Jobs, Taken
<1>5. /\ Retried(job).state = IF job.attemptsMade + 1 < MaxAttempts THEN "delayed" ELSE "failed"
      /\ Retried(job).attemptsMade = job.attemptsMade + 1
      /\ Retried(job).stalledCount = job.stalledCount
  BY DEF Jobs, Retried
<1>6. /\ FailedForGood(job).state = "failed"
      /\ FailedForGood(job).attemptsMade = job.attemptsMade + 1
      /\ FailedForGood(job).stalledCount = job.stalledCount
  BY DEF Jobs, FailedForGood
<1>7. Completed(job) = NoJob
  BY DEF Completed
<1> QED BY <1>1, <1>2, <1>3, <1>4, <1>5, <1>6, <1>7

\* The same in terms of the actions.
LEMMA JobChanges ==
    ASSUME TypeOK, NEW t \in Txns
    PROVE  /\ Enqueue(t) => jobs[t].state = "absent" /\ jobs'[t] = Added(jobs[t])
           /\ RetryDue(t) => jobs[t].state = "delayed" /\ jobs'[t] = Due(jobs[t])
           /\ Stall(t) => jobs[t].state = "active" /\ jobs'[t] = Stalled(jobs[t])
           /\ \A i \in Instances :
                 /\ TakeJob(i, t) => jobs[t].state = "waiting" /\ jobs'[t] = Taken(jobs[t], i)
                 /\ TakeDoomed(i, t) => /\ jobs[t].state = "waiting" /\ Doomed(jobs[t])
                                        /\ jobs'[t] = FailedForGood(jobs[t])
                 /\ cur[i] = t /\ HoldsLock(jobs[t], i) =>
                       /\ CompleteJob(i) => jobs'[t] = Completed(jobs[t])
                       /\ FailJob(i) => jobs'[t] = Retried(jobs[t])
BY DEF TypeOK, Enqueue, RetryDue, Stall, TakeJob, TakeDoomed, CompleteJob, FailJob

LEMMA HoldersWorkStep ==
    ASSUME TypeOK, HoldersWork, [Next]_vars
    PROVE  HoldersWork'
<1>1. ASSUME NEW i \in Instances, pc'[i] \in {"idle", "dead"} PROVE cur'[i] = NoTxn
  <2>1. ProcessStep(i)
    BY ProcessSteps
  <2>2. CASE pc'[i] = pc[i] /\ cur'[i] = cur[i]
    BY <1>1, <2>2 DEF HoldersWork
  <2>3. CASE (\E t \in Txns : TakeJob(i, t)) \/ ReadTxn(i) \/ Claim(i) \/ ProcessorFails(i)
             \/ Finalize(i) \/ QueryFails(i)
    BY <1>1, <2>3 DEF TypeOK, TakeJob, ReadTxn, Claim, ProcessorFails, Finalize, QueryFails, Goto
  <2>4. CASE CompleteJob(i) \/ FailJob(i) \/ Dies(i)
    BY <2>4 DEF TypeOK, CompleteJob, FailJob, Release, Dies, Crash, HandleRetryFails, Die
  <2> QED BY <2>1, <2>2, <2>3, <2>4 DEF ProcessStep
<1>2. ASSUME NEW t \in Txns, jobs'[t].state = "active"
      PROVE  jobs'[t].holder \in Instances
             /\ (pc'[jobs'[t].holder] = "dead" \/ cur'[jobs'[t].holder] = t)
  <2>1. JobStep(t) /\ jobs[t] \in Jobs
    BY JobSteps DEF TypeOK
  <2>2. CASE jobs'[t] = jobs[t]
    <3> DEFINE h == jobs[t].holder
    <3>1. h \in Instances /\ (pc[h] = "dead" \/ cur[h] = t) /\ HoldsLock(jobs[t], h)
      BY <1>2, <2>2 DEF HoldersWork, HoldsLock
    <3>2. ProcessStep(h)
      BY <3>1, ProcessSteps
    <3>3. ~(CompleteJob(h) \/ FailJob(h))
      <4>1. CompleteJob(h) \/ FailJob(h) => cur[h] = t
        BY <3>1 DEF CompleteJob, FailJob
      <4>2. jobs'[t] # Completed(jobs[t]) /\ jobs'[t] # Retried(jobs[t])
        BY <1>2, <2>1, JobFields
      <4> QED BY <3>1, <4>1, <4>2, JobChanges
    <3>4. CASE \E u \in Txns : TakeJob(h, u)
      BY <3>1, <3>4, NoTxnAssumption DEF TakeJob, HoldersWork
    <3>5. CASE ReadTxn(h) \/ Claim(h) \/ ProcessorFails(h) \/ Finalize(h) \/ QueryFails(h)
      BY <2>2, <3>1, <3>5 DEF ReadTxn, Claim, ProcessorFails, Finalize, QueryFails
    <3>6. CASE Dies(h)
      BY <2>2, <3>1, <3>6 DEF TypeOK, Dies, Crash, HandleRetryFails, Die, Goto
    <3> QED BY <2>2, <3>1, <3>2, <3>3, <3>4, <3>5, <3>6 DEF ProcessStep
  <2>3. CASE \E i \in Instances : TakeJob(i, t)
    <3>1. PICK i \in Instances : TakeJob(i, t)
      BY <2>3
    <3>2. jobs'[t].holder = i
      BY <2>1, <3>1, JobChanges, JobFields
    <3>3. cur'[i] = t
      BY <3>1 DEF TakeJob, TypeOK
    <3> QED BY <3>2, <3>3
  <2> QED
    BY <1>2, <2>1, <2>2, <2>3, JobChanges, JobFields DEF JobStep
<1> QED BY <1>1, <1>2 DEF HoldersWork

\* Nothing is known of a transaction whose job was never added.
Untouched(t) ==
    /\ jobs[t] = NoJob /\ txns[t] = AcceptedRow
    /\ \A i \in Instances : cur[i] # t
    /\ PendingFailures(t) = {}

UntouchedUntilAdded == \A t \in Txns : adds[t] = 0 => Untouched(t)

LEMMA AddsSteps ==
    ASSUME TypeOK, [Next]_vars, NEW t \in Txns
    PROVE  adds'[t] = adds[t] \/ (Enqueue(t) /\ adds'[t] = adds[t] + 1)
<1>1. CASE adds' = adds
  BY <1>1
<1>2. ASSUME NEW u \in Txns, Enqueue(u)
      PROVE  adds'[t] = adds[t] \/ (Enqueue(t) /\ adds'[t] = adds[t] + 1)
  BY <1>2 DEF Enqueue, TypeOK
<1>3. adds' = adds \/ \E u \in Txns : Enqueue(u)
  BY DEF Next, Step, TakeJob, TakeDoomed, ReadTxn, Claim, ProcessorFails, Finalize, CompleteJob,
   FailJob, Heartbeat, Handle, HandleRetry, SaveDeadLetter, MarkFailed, Fault, QueryFails,
   Crash, HandleRetryFails, DeadLetterFails, Die, RetryDue, Stall, LeaseExpires, Recover, vars
<1> QED BY <1>1, <1>2, <1>3

LEMMA UntouchedStep ==
    ASSUME TypeOK, HoldersWork, UntouchedUntilAdded, [Next]_vars
    PROVE  UntouchedUntilAdded'
<1> SUFFICES ASSUME NEW t \in Txns, adds'[t] = 0 PROVE Untouched(t)'
  BY DEF UntouchedUntilAdded
<1>1. adds[t] = 0 /\ ~Enqueue(t)
  <2>1. adds[t] \in Nat /\ (Enqueue(t) => adds'[t] = adds[t] + 1)
    BY DEF TypeOK, Enqueue
  <2> QED BY <2>1, AddsSteps
<1>2. Untouched(t) /\ jobs[t].state = "absent" /\ txns[t].status = "ACCEPTED"
  BY <1>1 DEF UntouchedUntilAdded, Untouched, NoJob, AcceptedRow
<1>3. /\ ~(RetryDue(t) \/ Stall(t))
      /\ \A i \in Instances : ~(TakeJob(i, t) \/ TakeDoomed(i, t)) /\ ~HoldsLock(jobs[t], i)
  BY <1>2 DEF RetryDue, Stall, TakeJob, TakeDoomed, HoldsLock
<1>4. jobs'[t] = jobs[t]
  BY <1>1, <1>3, JobSteps DEF JobStep
<1>5. txns'[t] = txns[t]
  <2>1. /\ \A i \in Instances : cur[i] # t
        /\ \A f \in failures : f.txn # t
    BY <1>2 DEF Untouched, PendingFailures
  <2> QED BY <1>2, <2>1, RowSteps DEF RowStep
<1>6. ASSUME NEW i \in Instances PROVE cur'[i] # t
  <2>1. cur[i] # t /\ t # NoTxn
    BY <1>2, NoTxnAssumption DEF Untouched
  <2>2. ASSUME NEW u \in Txns, TakeJob(i, u) PROVE cur'[i] = u /\ u # t
    BY <1>3, <2>2 DEF TakeJob, TypeOK
  <2>3. ASSUME CompleteJob(i) \/ FailJob(i) \/ Dies(i) PROVE cur'[i] = NoTxn
    BY <2>3 DEF CompleteJob, FailJob, Release, Dies, Crash, HandleRetryFails, Die, TypeOK
  <2>4. ASSUME ReadTxn(i) \/ Claim(i) \/ ProcessorFails(i) \/ Finalize(i) \/ QueryFails(i)
        PROVE  cur'[i] = cur[i]
    BY <2>4 DEF ReadTxn, Claim, ProcessorFails, Finalize, QueryFails
  <2> QED BY <2>1, <2>2, <2>3, <2>4, ProcessSteps DEF ProcessStep
<1>7. ASSUME NEW f \in failures', f.txn = t PROVE FALSE
  <2>1. FailureStep(f)
    BY FailureOrigins
  <2>2. \A g \in failures : g.txn # t
    BY <1>2 DEF Untouched, PendingFailures
  <2> QED BY <1>3, <1>7, <2>1, <2>2, SavedFailure DEF FailureStep
<1>8. Untouched(t)'
  BY <1>2, <1>4, <1>5, <1>6, <1>7 DEF Untouched, PendingFailures
<1> QED BY <1>8

LEMMA HoldersInvariant == Spec => [](TypeOK /\ HoldersWork /\ UntouchedUntilAdded)
<1>1. Init => HoldersWork /\ UntouchedUntilAdded
  BY NoTxnAssumption DEF Init, HoldersWork, UntouchedUntilAdded, Untouched, PendingFailures, NoJob
<1>2. TypeOK /\ HoldersWork /\ UntouchedUntilAdded /\ [Next]_vars
         => (HoldersWork /\ UntouchedUntilAdded)'
  BY HoldersWorkStep, UntouchedStep
<1> QED BY <1>1, <1>2, TypeCorrect, PTL DEF Spec

-----------------------------------------------------------------------------
(* Calls of the "failed" handler and the jobs they are about *)

\* As long as no retry overtook its handler, the job of a pending call waits for
\* it: in its backoff if the call resets the row, and in the failed set if not (or
\* if the job hit its stall limit before its attempts were used up).
Waits(f) ==
    /\ cur[f.by] # f.txn
    /\ \/ jobs[f.txn].state = "delayed" /\ ToBeRetried(f)
       \/ jobs[f.txn].state = "failed" /\ (ToBeRetried(f) => Doomed(jobs[f.txn]))

FailuresWait ==
    spent["lates"] = 0 =>
        /\ \A f \in failures : Waits(f)
        /\ \A f, g \in failures : f.txn = g.txn => f = g

LEMMA FailureSetSteps ==
    ASSUME TypeOK, [Next]_vars
    PROVE  \/ failures' \subseteq failures
           \/ \E i \in Instances, t \in Txns : TakeDoomed(i, t)
           \/ \E i \in Instances : FailJob(i) /\ HoldsLock(jobs[cur[i]], i)
           \/ \E g \in failures : SaveDeadLetter(g)
<1>1. ASSUME NEW i \in Instances, Step(i)
      PROVE  \/ failures' \subseteq failures
             \/ \E t \in Txns : TakeDoomed(i, t)
             \/ FailJob(i) /\ HoldsLock(jobs[cur[i]], i)
  BY <1>1 DEF Step, TakeJob, ReadTxn, Claim, ProcessorFails, Finalize, CompleteJob, FailJob
<1>2. CASE Fault
  BY <1>2 DEF Fault, QueryFails, Crash, HandleRetryFails, DeadLetterFails, Die
<1> QED
  BY <1>1, <1>2 DEF Next, Heartbeat, Handle, HandleRetry, MarkFailed,
     Enqueue, RetryDue, Stall, LeaseExpires, Recover, vars

\* A job that waits for its handler call stays as it is.
LEMMA WaitingJobStays ==
    ASSUME TypeOK, [Next]_vars, NEW f \in failures, Waits(f), spent'["lates"] = 0,
           spent["lates"] = 0
    PROVE  /\ f.txn \in Txns /\ f.by \in Instances
           /\ jobs'[f.txn] = jobs[f.txn]
           /\ cur'[f.by] # f.txn
<1> DEFINE t == f.txn
<1>1. t \in Txns /\ f.by \in Instances /\ t # NoTxn /\ jobs[t].state \in {"delayed", "failed"}
  BY NoTxnAssumption DEF TypeOK, Failures, Waits
<1>2. ~RetryDue(t)
  <2>1. PendingFailures(t) # {}
    BY DEF PendingFailures
  <2> QED BY <2>1 DEF RetryDue, SpendUnless, Spend, TypeOK, FaultKinds
<1>3. /\ ~(Enqueue(t) \/ Stall(t))
      /\ \A i \in Instances : ~(TakeJob(i, t) \/ TakeDoomed(i, t)) /\ ~HoldsLock(jobs[t], i)
  BY <1>1 DEF Enqueue, Stall, TakeJob, TakeDoomed, HoldsLock
<1>4. jobs'[t] = jobs[t]
  BY <1>1, <1>2, <1>3, JobSteps DEF JobStep
<1>5. cur'[f.by] # t
  <2> DEFINE i == f.by
  <2>1. i \in Instances /\ cur[i] # t
    BY <1>1 DEF Waits
  <2>2. ASSUME NEW u \in Txns, TakeJob(i, u) PROVE cur'[i] = u /\ u # t
    BY <1>3, <2>1, <2>2 DEF TakeJob, TypeOK
  <2>3. ASSUME CompleteJob(i) \/ FailJob(i) \/ Dies(i) PROVE cur'[i] = NoTxn
    BY <2>1, <2>3 DEF CompleteJob, FailJob, Release, Dies, Crash, HandleRetryFails, Die, TypeOK
  <2>4. ASSUME ReadTxn(i) \/ Claim(i) \/ ProcessorFails(i) \/ Finalize(i) \/ QueryFails(i)
        PROVE  cur'[i] = cur[i]
    BY <2>4 DEF ReadTxn, Claim, ProcessorFails, Finalize, QueryFails
  <2>5. ProcessStep(i)
    BY <2>1, ProcessSteps
  <2>6. t # NoTxn
    BY <1>1
  <2> HIDE DEF i, t
  <2>7. cur'[i] # t
    BY <2>1, <2>2, <2>3, <2>4, <2>5, <2>6 DEF ProcessStep
  <2> QED BY <2>7 DEF i
<1> QED BY <1>1, <1>4, <1>5

LEMMA FailuresWaitStep ==
    ASSUME TypeOK, HoldersWork, FailuresWait, [Next]_vars
    PROVE  FailuresWait'
<1> SUFFICES ASSUME spent'["lates"] = 0
             PROVE  /\ \A f \in failures' : Waits(f)'
                    /\ \A f, g \in failures' : f.txn = g.txn => f = g
  BY DEF FailuresWait
<1>1. spent["lates"] = 0
  BY SpentOnlyGrows DEF FaultKinds
<1>2. /\ \A f \in failures : Waits(f)
      /\ \A f, g \in failures : f.txn = g.txn => f = g
  BY <1>1 DEF FailuresWait
<1>3. ASSUME NEW f \in failures, NEW h, h.txn = f.txn, h.by = f.by,
             ToBeRetried(h) <=> ToBeRetried(f)
      PROVE  Waits(h)'
  BY <1>1, <1>2, <1>3, WaitingJobStays DEF Waits, ToBeRetried
<1>4. ASSUME NEW i \in Instances, NEW t \in Txns, TakeDoomed(i, t), NEW f, f = FailureOf(i, t)
      PROVE  Waits(f)'
  <2>1. jobs[t] \in Jobs /\ f.txn = t /\ f.by = i
    BY <1>4 DEF TypeOK, FailureOf
  <2>2. jobs'[t].state = "failed" /\ Doomed(jobs'[t])
    <3>1. jobs'[t] = FailedForGood(jobs[t]) /\ Doomed(jobs[t])
      BY <1>4, JobChanges
    <3> QED BY <2>1, <3>1, JobFields DEF Doomed
  <2>3. cur'[i] # t
    BY <1>4, NoTxnAssumption DEF TakeDoomed, HoldersWork
  <2> QED BY <2>1, <2>2, <2>3 DEF Waits
<1>5. ASSUME NEW i \in Instances, NEW t \in Txns, FailJob(i), cur[i] = t, HoldsLock(jobs[t], i),
             NEW f, f = FailureOf(i, t)
      PROVE  Waits(f)'
  <2>1. /\ jobs[t] \in Jobs /\ jobs[t].attemptsMade \in Nat
        /\ f.txn = t /\ f.by = i /\ f.attempts = jobs[t].attemptsMade + 1
    BY <1>5 DEF TypeOK, FailureOf, Jobs
  <2>2. jobs'[t] = Retried(jobs[t])
    BY <1>5, JobChanges
  <2>3. jobs'[t].state = IF ToBeRetried(f) THEN "delayed" ELSE "failed"
    BY <2>1, <2>2, JobFields DEF ToBeRetried
  <2>4. cur'[i] # t
    BY <1>5, NoTxnAssumption DEF FailJob, Release, TypeOK
  <2> QED BY <2>1, <2>3, <2>4 DEF Waits, ToBeRetried
<1>6. ASSUME NEW f \in failures' PROVE Waits(f)'
  <2>1. f.txn \in Txns /\ FailureStep(f)
    BY FailureOrigins
  <2>2. CASE \E g \in failures : SaveDeadLetter(g) /\ f = [g EXCEPT !.saved = TRUE]
    BY <1>3, <2>2, SavedFailure
  <2> QED BY <1>3, <1>4, <1>5, <2>1, <2>2 DEF FailureStep
<1>7. ASSUME NEW t \in Txns, jobs[t].state \in {"waiting", "active"}, NEW f \in failures
      PROVE  f.txn # t
  BY <1>2, <1>7 DEF Waits
<1>8. ASSUME NEW f \in failures', NEW g \in failures', f.txn = g.txn PROVE f = g
  <2>1. CASE failures' \subseteq failures
    BY <1>2, <1>8, <2>1
  <2>2. ASSUME NEW i \in Instances, NEW t \in Txns, failures' = failures \cup {FailureOf(i, t)},
               jobs[t].state \in {"waiting", "active"}
        PROVE  f = g
    <3>1. FailureOf(i, t).txn = t /\ \A h \in failures : h.txn # t
      BY <1>7, <2>2 DEF FailureOf
    <3> QED BY <1>2, <1>8, <2>2, <3>1
  <2>3. CASE \E i \in Instances, t \in Txns : TakeDoomed(i, t)
    BY <2>2, <2>3 DEF TakeDoomed
  <2>4. CASE \E i \in Instances : FailJob(i) /\ HoldsLock(jobs[cur[i]], i)
    BY <2>2, <2>4 DEF FailJob, HoldsLock, TypeOK
  <2>5. CASE \E h \in failures : SaveDeadLetter(h)
    <3>1. PICK h \in failures : SaveDeadLetter(h)
      BY <2>5
    <3>2. /\ failures' = (failures \ {h}) \cup {[h EXCEPT !.saved = TRUE]}
          /\ [h EXCEPT !.saved = TRUE].txn = h.txn
      BY <3>1, SavedFailure DEF SaveDeadLetter
    <3> QED BY <1>2, <1>8, <3>2
  <2> QED BY <2>1, <2>3, <2>4, <2>5, FailureSetSteps
<1> QED BY <1>6, <1>8

\* As long as no statement failed, an attempt fails because processing answers
\* FAILED, or because the job hit its stall limit.
HasCause(f) ==
    Verdict[f.txn] = "FAILED" \/ (jobs[f.txn].state = "failed" /\ Doomed(jobs[f.txn]))

FailuresHaveCause ==
    spent["dbErrors"] = 0 =>
        /\ \A i \in Instances : pc[i] = "threw" => Verdict[cur[i]] = "FAILED"
        /\ \A f \in failures : HasCause(f)

\* A row that is final holds what processing answered, or FAILED.
OutcomesRight ==
    \A t \in Txns : txns[t].status \in FinalStatuses => txns[t].status \in {Verdict[t], "FAILED"}

LEMMA FailuresHaveCauseStep ==
    ASSUME TypeOK, FailuresHaveCause, [Next]_vars
    PROVE  FailuresHaveCause'
<1> SUFFICES ASSUME spent'["dbErrors"] = 0
             PROVE  /\ \A i \in Instances : pc'[i] = "threw" => Verdict[cur'[i]] = "FAILED"
                    /\ \A f \in failures' : HasCause(f)'
  BY DEF FailuresHaveCause
<1>1. /\ spent["dbErrors"] = 0 /\ ~Spend("dbErrors")
      /\ \A i \in Instances : pc[i] = "threw" => Verdict[cur[i]] = "FAILED"
      /\ \A f \in failures : HasCause(f)
  BY SpentOnlyGrows DEF FaultKinds, FailuresHaveCause, Spend, TypeOK
<1>2. ASSUME NEW i \in Instances, pc'[i] = "threw" PROVE Verdict[cur'[i]] = "FAILED"
  <2>1. ProcessStep(i)
    BY ProcessSteps
  <2>2. CASE pc'[i] = pc[i] /\ cur'[i] = cur[i]
    BY <1>1, <1>2, <2>2
  <2>3. CASE ProcessorFails(i)
    BY <2>3 DEF ProcessorFails
  <2>4. ~QueryFails(i)
    BY <1>1 DEF QueryFails
  <2>5. CASE (\E t \in Txns : TakeJob(i, t)) \/ ReadTxn(i) \/ Claim(i) \/ Finalize(i)
    BY <1>2, <2>5 DEF TakeJob, ReadTxn, Claim, Finalize, Goto, TypeOK
  <2>6. CASE CompleteJob(i) \/ FailJob(i) \/ Dies(i)
    BY <1>2, <2>6
       DEF CompleteJob, FailJob, Release, Goto, Dies, Crash, HandleRetryFails, Die, TypeOK
  <2> QED BY <2>1, <2>2, <2>3, <2>4, <2>5, <2>6 DEF ProcessStep
<1>3. ASSUME NEW f \in failures, NEW h, h.txn = f.txn PROVE HasCause(h)'
  <2>1. f.txn \in Txns /\ HasCause(f)
    BY <1>1 DEF TypeOK, Failures
  <2> QED BY <1>3, <2>1, FailedJobsStay DEF HasCause
<1>4. ASSUME NEW i \in Instances, NEW t \in Txns, TakeDoomed(i, t), NEW f, f.txn = t
      PROVE  HasCause(f)'
  <2>1. jobs[t] \in Jobs /\ jobs'[t] = FailedForGood(jobs[t]) /\ Doomed(jobs[t])
    BY <1>4, JobChanges DEF TypeOK
  <2> QED BY <1>4, <2>1, JobFields DEF HasCause, Doomed
<1>5. ASSUME NEW i \in Instances, FailJob(i), NEW f, f.txn = cur[i] PROVE HasCause(f)'
  BY <1>1, <1>5 DEF FailJob, HasCause
<1>6. ASSUME NEW f \in failures' PROVE HasCause(f)'
  <2>1. f.txn \in Txns /\ FailureStep(f)
    BY FailureOrigins
  <2>2. CASE \E g \in failures : SaveDeadLetter(g) /\ f = [g EXCEPT !.saved = TRUE]
    BY <1>3, <2>2, SavedFailure
  <2> QED BY <1>3, <1>4, <1>5, <2>1, <2>2 DEF FailureStep
<1> QED BY <1>2, <1>6

\* The status a row step leaves, as far as it changes.
LEMMA StatusSteps ==
    ASSUME TypeOK, [Next]_vars, NEW t \in Txns, txns'[t].status # txns[t].status
    PROVE  \/ txns[t].status = "ACCEPTED" /\ txns'[t].status = "PROCESSING"
           \/ txns[t].status = "PROCESSING" /\ txns'[t].status \in {Verdict[t], "ACCEPTED"}
           \/ \E f \in failures :
                 /\ f.txn = t
                 /\ \/ ToBeRetried(f) /\ txns'[t].status = "ACCEPTED"
                    \/ f.saved /\ txns'[t].status = "FAILED"
<1>1. RowStep(t) /\ txns[t] \in Rows
  BY RowSteps DEF TypeOK
<1>2. /\ Renewed(txns[t]).status = txns[t].status
      /\ [txns[t] EXCEPT !.lease = "expired"].status = txns[t].status
      /\ Recovered(txns[t]).status = "ACCEPTED"
      /\ \A i \in Instances : Started(txns[t], i).status = "PROCESSING"
      /\ \A s \in Statuses : Finalized(txns[t], s).status = s
      /\ \A s, n : Updated(txns[t], s, n).status = s
  BY <1>1 DEF Rows, Renewed, Recovered, WithoutLease, Started, Finalized, Updated
<1>3. Verdict[t] \in Statuses
  BY VerdictAssumption DEF Statuses
<1>4. CASE \E i \in Instances : CanStart(txns[t]) /\ txns'[t] = Started(txns[t], i)
  BY <1>2, <1>4 DEF CanStart
<1>5. CASE \E i \in Instances : /\ Owns(txns[t], i)
                               /\ \/ txns'[t] = Renewed(txns[t])
                                  \/ txns'[t] = Finalized(txns[t], Verdict[t])
  BY <1>2, <1>3, <1>5 DEF Owns
<1>6. CASE /\ txns[t].status = "PROCESSING"
           /\ \/ txns'[t] = [txns[t] EXCEPT !.lease = "expired"]
              \/ txns'[t] = Recovered(txns[t])
  BY <1>2, <1>6
<1>7. ASSUME NEW f \in failures, f.txn = t,
             \/ ToBeRetried(f) /\ txns'[t] = Updated(txns[t], "ACCEPTED", f.attempts)
             \/ f.saved /\ txns'[t] = Updated(txns[t], "FAILED", f.attempts)
      PROVE  \/ ToBeRetried(f) /\ txns'[t].status = "ACCEPTED"
             \/ f.saved /\ txns'[t].status = "FAILED"
  BY <1>2, <1>7
<1> QED BY <1>1, <1>4, <1>5, <1>6, <1>7 DEF RowStep

LEMMA OutcomesRightStep ==
    ASSUME TypeOK, OutcomesRight, [Next]_vars
    PROVE  OutcomesRight'
BY StatusSteps DEF OutcomesRight, FinalStatuses

\* Together: the state of the pending handler calls.
FailuresInv ==
    HoldersWork /\ UntouchedUntilAdded /\ FailuresWait /\ FailuresHaveCause /\ OutcomesRight

LEMMA FailuresInvariant == Spec => [](TypeOK /\ DeadLetterInv /\ FailuresInv)
<1>1. Init => FailuresWait /\ FailuresHaveCause /\ OutcomesRight
  BY DEF Init, FailuresWait, FailuresHaveCause, OutcomesRight, AcceptedRow, FinalStatuses
<1>2. TypeOK /\ HoldersWork /\ FailuresWait /\ FailuresHaveCause /\ OutcomesRight /\ [Next]_vars
         => FailuresWait' /\ FailuresHaveCause' /\ OutcomesRight'
  BY FailuresWaitStep, FailuresHaveCauseStep, OutcomesRightStep
<1> QED BY <1>1, <1>2, HoldersInvariant, DeadLetterInvariant, PTL DEF Spec, FailuresInv

LEMMA FinalChangesStep ==
    ASSUME TypeOK, DeadLetterInv, FailuresInv, [Next]_vars, NEW t \in Txns,
           txns[t].status \in FinalStatuses, txns'[t].status # txns[t].status
    PROVE  spent["dbErrors"] > 0 \/ spent["lates"] > 0 \/ Doomed(jobs[t])
<1> SUFFICES ASSUME spent["dbErrors"] = 0, spent["lates"] = 0, ~Doomed(jobs[t])
             PROVE  FALSE
  BY DEF TypeOK, FaultKinds
<1>1. PICK f \in failures :
         /\ f.txn = t
         /\ \/ ToBeRetried(f) /\ txns'[t].status = "ACCEPTED"
            \/ f.saved /\ txns'[t].status = "FAILED"
  BY StatusSteps DEF FinalStatuses
<1>2. Waits(f) /\ Verdict[t] = "FAILED"
  BY <1>1 DEF FailuresInv, FailuresWait, FailuresHaveCause, HasCause
<1>3. txns[t].status = "FAILED"
  BY <1>2 DEF FailuresInv, OutcomesRight
<1>4. jobs[t].state = "failed"
  BY <1>3 DEF DeadLetterInv, FailedHasDeadLetter, DeadLetterIsParked, Parked
<1>5. ~ToBeRetried(f)
  BY <1>1, <1>2, <1>4 DEF Waits
<1> QED BY <1>1, <1>3, <1>5

\* In every deployment a final status changes only after a database error, a retry
\* that overtook the handler of its failure, or a job at its stall limit; crashes
\* and processes that are cut off never suffice.
THEOREM FinalChangesOnlyAfterFaultCorrect == Spec => FinalChangesOnlyAfterFault
<1>1. TypeOK /\ DeadLetterInv /\ FailuresInv /\ [Next]_vars
        => [\A t \in Txns :
              txns[t].status \in FinalStatuses /\ txns'[t].status # txns[t].status
                => \/ spent["dbErrors"] > 0
                   \/ spent["lates"] > 0
                   \/ Doomed(jobs[t])]_vars
  BY FinalChangesStep
<1> QED BY <1>1, FailuresInvariant, PTL DEF Spec, FinalChangesOnlyAfterFault

-----------------------------------------------------------------------------
(* Processes cut off from their job or their row *)

\* Some process works on t without the lock of its job.
CutOff(t) == \E i \in Instances : cur[i] = t /\ ~HoldsLock(jobs[t], i)

\* i claimed t, or tried to, and its handler or its "failed" handler is not over.
PastClaim(t, i) ==
    \/ pc[i] \in {"claimed", "threw"} /\ cur[i] = t
    \/ \E f \in failures : f.txn = t /\ f.by = i

Keeps(t, i) == Owns(txns[t], i) /\ txns[t].lease # "expired"

\* Some process past its claim no longer has the row, or is about to lose it.
Robbed(t) == \E i \in Instances : PastClaim(t, i) /\ ~Keeps(t, i)

Disturbances == spent["pauses"] + spent["dbErrors"]

\* It takes a pause to cut a process off from its job, a pause or a failed
\* statement to rob it of its row, and two of these to do both.
LossesHaveCause ==
    /\ \A t \in Txns : CutOff(t) => spent["pauses"] >= 1
    /\ spent["lates"] = 0 =>
          \A t \in Txns : jobs[t].state # "failed" =>
              /\ Robbed(t) => Disturbances >= 1
              /\ CutOff(t) /\ Robbed(t) => Disturbances >= 2

LEMMA CutOffSteps ==
    ASSUME TypeOK, HoldersWork, [Next]_vars, NEW t \in Txns, CutOff(t)'
    PROVE  CutOff(t) \/ (Stall(t) /\ Spend("pauses"))
<1> SUFFICES ASSUME ~CutOff(t) PROVE Stall(t) /\ Spend("pauses")
  OBVIOUS
<1>1. PICK i \in Instances : cur'[i] = t /\ ~HoldsLock(jobs'[t], i)
  BY DEF CutOff
<1>2. t # NoTxn /\ jobs[t] \in Jobs /\ ProcessStep(i) /\ JobStep(t)
  BY NoTxnAssumption, ProcessSteps, JobSteps DEF TypeOK
<1>3. ~\E u \in Txns : TakeJob(i, u)
  <2>1. ASSUME NEW u \in Txns, TakeJob(i, u) PROVE FALSE
    <3>1. u = t
      BY <1>1, <2>1 DEF TakeJob, TypeOK
    <3>2. jobs'[t].state = "active" /\ jobs'[t].holder = i
      BY <1>2, <2>1, <3>1, JobChanges, JobFields
    <3> QED BY <1>1, <3>2 DEF HoldsLock
  <2> QED BY <2>1
<1>4. ~(CompleteJob(i) \/ FailJob(i) \/ Dies(i))
  <2>1. CompleteJob(i) \/ FailJob(i) \/ Dies(i) => cur'[i] = NoTxn
    BY DEF CompleteJob, FailJob, Release, Dies, Crash, HandleRetryFails, Die, TypeOK
  <2> QED BY <1>1, <1>2, <2>1
<1>5. cur[i] = t
  BY <1>1, <1>2, <1>3, <1>4 DEF ProcessStep, ReadTxn, Claim, ProcessorFails, Finalize, QueryFails
<1>6. HoldsLock(jobs[t], i) /\ jobs[t].state = "active" /\ jobs[t].holder = i
  BY <1>5 DEF CutOff, HoldsLock
<1>7. Stall(t)
  <2>1. jobs'[t] # jobs[t]
    BY <1>1, <1>6 DEF HoldsLock
  <2>2. \A j \in Instances : HoldsLock(jobs[t], j) => j = i
    BY <1>6 DEF HoldsLock
  <2> QED
    BY <1>2, <1>4, <1>6, <2>1, <2>2 DEF JobStep, Enqueue, RetryDue, TakeJob, TakeDoomed
<1>8. pc[i] # "dead"
  BY <1>2, <1>5 DEF HoldersWork
<1> QED BY <1>6, <1>7, <1>8 DEF Stall, SpendUnless

\* How a process comes to be past its claim.
LEMMA PastClaimSteps ==
    ASSUME TypeOK, [Next]_vars, NEW t \in Txns, NEW i \in Instances, PastClaim(t, i)',
           jobs'[t].state # "failed", ~Spend("dbErrors")
    PROVE  \/ PastClaim(t, i)
           \/ Claim(i) /\ cur[i] = t /\ CanStart(txns[t])
<1>1. CASE \E f \in failures' : f.txn = t /\ f.by = i
  <2>1. PICK f \in failures' : f.txn = t /\ f.by = i
    BY <1>1
  <2>2. FailureStep(f)
    BY FailureOrigins
  <2>3. ~\E j \in Instances : TakeDoomed(j, t)
    BY JobChanges, JobFields DEF TypeOK
  <2>4. ASSUME NEW j \in Instances, FailJob(j), cur[j] = t, f = FailureOf(j, t)
        PROVE  PastClaim(t, i)
    BY <2>1, <2>4 DEF FailJob, FailureOf, PastClaim
  <2>5. ASSUME NEW g \in failures, f = [g EXCEPT !.saved = TRUE] PROVE PastClaim(t, i)
    BY <2>1, <2>5, SavedFailure DEF PastClaim
  <2>6. CASE f \in failures
    BY <2>1, <2>6 DEF PastClaim
  <2> QED BY <2>1, <2>2, <2>3, <2>4, <2>5, <2>6 DEF FailureStep
<1>2. CASE pc'[i] \in {"claimed", "threw"} /\ cur'[i] = t
  <2>1. ProcessStep(i) /\ ~QueryFails(i)
    BY ProcessSteps DEF QueryFails
  <2>2. CASE pc'[i] = pc[i] /\ cur'[i] = cur[i]
    BY <1>2, <2>2 DEF PastClaim
  <2>3. CASE Claim(i)
    BY <1>2, <2>3 DEF Claim, Goto, TypeOK
  <2>4. CASE ProcessorFails(i)
    BY <1>2, <2>4 DEF ProcessorFails, PastClaim
  <2>5. CASE (\E u \in Txns : TakeJob(i, u)) \/ ReadTxn(i) \/ Finalize(i) \/ CompleteJob(i)
             \/ FailJob(i) \/ Dies(i)
    BY <1>2, <2>5 DEF TakeJob, ReadTxn, Finalize, CompleteJob, FailJob, Release, Goto,
       Dies, Crash, HandleRetryFails, Die, TypeOK
  <2> QED BY <2>1, <2>2, <2>3, <2>4, <2>5 DEF ProcessStep
<1> QED BY <1>1, <1>2 DEF PastClaim

LEMMA RobbedSteps ==
    ASSUME TypeOK, HandlersAgree, FailuresWait, [Next]_vars, NEW t \in Txns, Robbed(t)',
           jobs'[t].state # "failed", spent["lates"] = 0
    PROVE  Robbed(t) \/ Spend("pauses") \/ Spend("dbErrors")
<1> SUFFICES ASSUME ~Robbed(t), ~Spend("pauses"), ~Spend("dbErrors") PROVE FALSE
  OBVIOUS
<1>1. PICK i \in Instances : PastClaim(t, i)' /\ ~Keeps(t, i)'
  BY DEF Robbed
<1>2. jobs[t].state # "failed" /\ txns[t] \in Rows /\ RowStep(t) /\ i # NoInstance
  BY FailedJobsStay, RowSteps, NoInstanceAssumption DEF TypeOK
<1>3. \A f \in failures : Waits(f) /\ \A g \in failures : f.txn = g.txn => f = g
  BY DEF FailuresWait
<1>4. CASE Claim(i) /\ cur[i] = t /\ CanStart(txns[t])
  <2>1. txns'[t] = Started(txns[t], i)
    BY <1>4 DEF Claim, ClaimRow, TypeOK
  <2>2. Owns(txns'[t], i) /\ txns'[t].lease = "live"
    BY <1>2, <2>1 DEF Started, Rows, Owns
  <2> QED BY <1>1, <2>2 DEF Keeps, Owns
<1>5. CASE PastClaim(t, i)
  <2>1. Owns(txns[t], i) /\ txns[t].lease # "expired"
    BY <1>5 DEF Robbed, Keeps
  <2>2. ~(txns'[t] = txns[t] \/ txns'[t] = Renewed(txns[t]))
    BY <1>1, <1>2, <2>1 DEF Keeps, Owns, Renewed, Rows
  <2>3. ~Finalize(i) \/ cur[i] # t
    <3>1. SUFFICES ASSUME Finalize(i), cur[i] = t PROVE FALSE
      OBVIOUS
    <3>2. pc'[i] = "returned" /\ failures' = failures
      BY <3>1 DEF Finalize, Goto, TypeOK
    <3>3. PICK f \in failures : f.txn = t /\ f.by = i
      BY <1>1, <3>2 DEF PastClaim
    <3> QED BY <1>3, <3>1, <3>3 DEF Waits
  <2>4. ~LeaseExpires(t)
    <3>1. Attended(t)
      BY <1>5, <2>1 DEF PastClaim, Attended, Owns
    <3> QED BY <3>1 DEF LeaseExpires, SpendUnless
  <2>5. ASSUME NEW f \in failures, f.txn = t, ToBeRetried(f), HandleRetry(f) \/ HandleRetryFails(f)
        PROVE  FALSE
    <3>1. HandleRetry(f)
      BY <2>5 DEF HandleRetryFails
    <3>2. f.by = i
      <4>1. f.by \in Instances /\ PastClaim(t, f.by)
        BY <2>5 DEF PastClaim, TypeOK, Failures
      <4> QED BY <2>1, <4>1 DEF Robbed, Keeps, Owns
    <3>3. failures' = failures \ {f} /\ pc' = pc /\ cur' = cur
      BY <3>1 DEF HandleRetry
    <3>4. cur[i] # t
      BY <1>3, <2>5, <3>2 DEF Waits
    <3>5. \A g \in failures' : g.txn # t
      BY <1>3, <2>5, <3>3
    <3> QED BY <1>1, <3>3, <3>4, <3>5 DEF PastClaim
  <2>6. ASSUME NEW f \in failures, f.txn = t, f.saved PROVE FALSE
    BY <1>2, <2>6 DEF HandlersAgree, Parked
  <2>7. \A j \in Instances : ~QueryFails(j) /\ (Owns(txns[t], j) => j = i)
    BY <2>1 DEF QueryFails, Owns
  <2>8. ~CanStart(txns[t])
    BY <2>1 DEF CanStart, Owns
  <2> QED BY <1>2, <2>1, <2>2, <2>3, <2>4, <2>5, <2>6, <2>7, <2>8 DEF RowStep
<1> QED BY <1>1, <1>2, <1>4, <1>5, PastClaimSteps

\* A step of the fault counters costs one disturbance at most, and none is undone.
LEMMA DisturbanceSteps ==
    ASSUME TypeOK, [Next]_vars
    PROVE  /\ Disturbances \in Nat /\ Disturbances' \in Nat /\ Disturbances' >= Disturbances
           /\ Spend("pauses") \/ Spend("dbErrors") => Disturbances' = Disturbances + 1
<1>1. /\ spent["pauses"] \in Nat /\ spent["dbErrors"] \in Nat
      /\ spent'["pauses"] \in Nat /\ spent'["dbErrors"] \in Nat
      /\ spent'["pauses"] >= spent["pauses"] /\ spent'["dbErrors"] >= spent["dbErrors"]
  BY SpentOnlyGrows DEF FaultKinds
<1>2. Spend("pauses") => spent'["pauses"] = spent["pauses"] + 1
                         /\ spent'["dbErrors"] = spent["dbErrors"]
  BY DEF Spend, TypeOK, FaultKinds
<1>3. Spend("dbErrors") => spent'["dbErrors"] = spent["dbErrors"] + 1
                           /\ spent'["pauses"] = spent["pauses"]
  BY DEF Spend, TypeOK, FaultKinds
<1> QED BY <1>1, <1>2, <1>3 DEF Disturbances

LEMMA LossesHaveCauseStep ==
    ASSUME TypeOK, HandlersAgree, HoldersWork, FailuresWait, LossesHaveCause, [Next]_vars
    PROVE  LossesHaveCause'
<1>1. ASSUME NEW t \in Txns, CutOff(t)' PROVE spent'["pauses"] >= 1
  <2>1. spent["pauses"] \in Nat /\ spent'["pauses"] \in Nat /\ spent'["pauses"] >= spent["pauses"]
    BY SpentOnlyGrows DEF FaultKinds
  <2>2. Spend("pauses") => spent'["pauses"] = spent["pauses"] + 1
    BY DEF Spend, TypeOK, FaultKinds
  <2> QED BY <1>1, <2>1, <2>2, CutOffSteps DEF LossesHaveCause
<1>2. ASSUME spent'["lates"] = 0, NEW t \in Txns, jobs'[t].state # "failed"
      PROVE  /\ Robbed(t)' => Disturbances' >= 1
             /\ CutOff(t)' /\ Robbed(t)' => Disturbances' >= 2
  <2>1. spent["lates"] = 0 /\ jobs[t].state # "failed"
    BY <1>2, SpentOnlyGrows, FailedJobsStay DEF FaultKinds
  <2>2. /\ CutOff(t) => Disturbances >= 1
        /\ Robbed(t) => Disturbances >= 1
        /\ CutOff(t) /\ Robbed(t) => Disturbances >= 2
    <3>1. CutOff(t) => spent["pauses"] >= 1
      BY DEF LossesHaveCause
    <3>2. spent["pauses"] \in Nat /\ spent["dbErrors"] \in Nat
      BY DEF TypeOK, FaultKinds
    <3> QED BY <2>1, <3>1, <3>2 DEF LossesHaveCause, Disturbances
  <2>3. /\ Disturbances \in Nat /\ Disturbances' \in Nat /\ Disturbances' >= Disturbances
        /\ Spend("pauses") \/ Spend("dbErrors") => Disturbances' = Disturbances + 1
    BY DisturbanceSteps
  <2>4. Robbed(t)' => Robbed(t) \/ Spend("pauses") \/ Spend("dbErrors")
    BY <1>2, <2>1, RobbedSteps
  <2>5. CutOff(t)' => CutOff(t) \/ (Stall(t) /\ Spend("pauses"))
    BY CutOffSteps
  <2>6. Stall(t) /\ Robbed(t)' => Robbed(t)
    BY DEF Stall, Robbed, PastClaim, Keeps
  <2> HIDE DEF CutOff, Robbed, Disturbances
  <2> QED BY <2>2, <2>3, <2>4, <2>5, <2>6
<1> QED BY <1>1, <1>2 DEF LossesHaveCause

LossesInv == FailuresInv /\ LossesHaveCause

LEMMA LossesInvariant == Spec => [](TypeOK /\ DeadLetterInv /\ LossesInv)
<1>1. Init => LossesHaveCause
  BY NoTxnAssumption DEF Init, LossesHaveCause, CutOff, Robbed, PastClaim
<1>2. TypeOK /\ DeadLetterInv /\ FailuresInv /\ LossesHaveCause /\ [Next]_vars => LossesHaveCause'
  BY LossesHaveCauseStep DEF DeadLetterInv, FailuresInv
<1> QED BY <1>1, <1>2, FailuresInvariant, PTL DEF Spec, LossesInv

\* With its handler in time and its job below the stall limit, the job of a pending
\* reset waits in its backoff: who works on it is cut off, and who failed is robbed.
LEMMA ResetSparesFollows == TypeOK /\ LossesInv => ResetSparesLiveClaims
<1> SUFFICES ASSUME TypeOK, LossesInv,
                    NEW f \in failures, NEW i \in Instances, ToBeRetried(f), pc[i] = "claimed",
                    cur[i] = f.txn, Owns(txns[f.txn], i),
                    spent["lates"] = 0, ~Doomed(jobs[f.txn])
             PROVE  spent["pauses"] > 0 /\ spent["pauses"] + spent["dbErrors"] >= 2
  BY DEF ResetSparesLiveClaims, TypeOK, FaultKinds
<1>1. f.txn \in Txns /\ f.by \in Instances /\ Waits(f)
  BY DEF TypeOK, Failures, LossesInv, FailuresInv, FailuresWait
<1>2. jobs[f.txn].state = "delayed"
  BY <1>1 DEF Waits
<1>3. CutOff(f.txn)
  BY <1>2 DEF CutOff, HoldsLock
<1>4. Robbed(f.txn)
  <2>1. f.by # i
    BY <1>1 DEF Waits
  <2> QED BY <1>1, <2>1 DEF Robbed, PastClaim, Keeps, Owns
<1>5. spent["pauses"] \in Nat
  BY DEF TypeOK, FaultKinds
<1> QED BY <1>1, <1>2, <1>3, <1>4, <1>5 DEF LossesInv, LossesHaveCause, Disturbances

\* In every deployment: while a reset is pending, a process at work owns the row
\* only if the retry overtook its handler, the job hit its stall limit, or two
\* faults met.
THEOREM ResetSparesLiveClaimsCorrect == Spec => []ResetSparesLiveClaims
BY ResetSparesFollows, LossesInvariant, PTL

-----------------------------------------------------------------------------
(* Every failed attempt has a fault to blame, unless processing answers FAILED *)

FaultsSoFar == spent["crashes"] + spent["pauses"] + spent["dbErrors"] + spent["lates"]

LEMMA FaultsSteps ==
    ASSUME TypeOK, [Next]_vars
    PROVE  /\ FaultsSoFar \in Nat
           /\ FaultsSoFar' = FaultsSoFar \/ FaultsSoFar' = FaultsSoFar + 1
           /\ \A k \in FaultKinds : Spend(k) => FaultsSoFar' = FaultsSoFar + 1
           /\ NoFault <=> FaultsSoFar = 0
<1>1. \A k \in FaultKinds : spent[k] \in Nat
  BY DEF TypeOK
<1>2. ASSUME NEW k \in FaultKinds, Spend(k) PROVE FaultsSoFar' = FaultsSoFar + 1
  BY <1>1, <1>2 DEF Spend, TypeOK, FaultKinds, FaultsSoFar
<1>3. UNCHANGED spent => FaultsSoFar' = FaultsSoFar
  BY DEF FaultsSoFar
<1>4. FaultsSoFar \in Nat /\ (NoFault <=> FaultsSoFar = 0)
  <2>1. /\ spent["crashes"] \in Nat /\ spent["pauses"] \in Nat
        /\ spent["dbErrors"] \in Nat /\ spent["lates"] \in Nat
    BY <1>1 DEF FaultKinds
  <2>2. NoFault <=> /\ spent["crashes"] = 0 /\ spent["pauses"] = 0
                    /\ spent["dbErrors"] = 0 /\ spent["lates"] = 0
    BY Zenon DEF NoFault, FaultKinds
  <2>3. FaultsSoFar \in Nat
    BY <2>1 DEF FaultsSoFar
  <2>4. ASSUME FaultsSoFar = 0
        PROVE  /\ spent["crashes"] = 0 /\ spent["pauses"] = 0
               /\ spent["dbErrors"] = 0 /\ spent["lates"] = 0
    <3> DEFINE a == spent["crashes"]
               b == spent["pauses"]
               c == spent["dbErrors"]
               d == spent["lates"]
    <3>1. a \in Nat /\ b \in Nat /\ c \in Nat /\ d \in Nat /\ a + b + c + d = 0
      BY <2>1, <2>4 DEF FaultsSoFar
    <3> HIDE DEF a, b, c, d
    <3>2. a = 0 /\ b = 0 /\ c = 0 /\ d = 0
      BY <3>1
    <3> QED BY <3>2 DEF a, b, c, d
  <2>5. ASSUME spent["crashes"] = 0, spent["pauses"] = 0,
               spent["dbErrors"] = 0, spent["lates"] = 0
        PROVE  FaultsSoFar = 0
    BY <2>5 DEF FaultsSoFar
  <2> QED BY <2>2, <2>3, <2>4, <2>5, Zenon
<1> QED BY <1>2, <1>3, <1>4, SpentSteps

\* What the job of t has cost: the attempts that failed, a stall, and the attempt
\* that is about to fail.
StallCost(job) == IF job.stalledCount >= 1 /\ job.state # "failed" THEN 1 ELSE 0

HolderCost(t) ==
    IF jobs[t].state = "active" /\ pc[jobs[t].holder] \in {"threw", "dead"} THEN 1 ELSE 0

Cost(t) == jobs[t].attemptsMade + StallCost(jobs[t]) + HolderCost(t)

FaultsAreToBlame ==
    /\ \A i \in Instances : pc[i] = "dead" => FaultsSoFar > 0
    /\ \A t \in Txns : jobs[t].stalledCount >= 1 => FaultsSoFar > 0
    /\ \A t \in Txns : Verdict[t] # "FAILED" => Cost(t) <= FaultsSoFar
    /\ \A f \in failures : Verdict[f.txn] # "FAILED" => f.attempts <= FaultsSoFar

LEMMA DeathSteps ==
    ASSUME TypeOK, [Next]_vars, NEW i \in Instances
    PROVE  /\ pc'[i] = "dead" => pc[i] = "dead" \/ Dies(i)
           /\ Dies(i) => FaultsSoFar' = FaultsSoFar + 1 /\ pc'[i] = "dead"
<1>1. Dies(i) => FaultsSoFar' = FaultsSoFar + 1 /\ pc'[i] = "dead"
  BY FaultsSteps DEF Dies, Crash, HandleRetryFails, Die, Goto, FaultKinds, TypeOK
<1>2. ASSUME pc'[i] = "dead" PROVE pc[i] = "dead" \/ Dies(i)
  BY <1>2, ProcessSteps DEF ProcessStep, TakeJob, ReadTxn, Claim, ProcessorFails, Finalize,
     QueryFails, CompleteJob, FailJob, Release, Goto, TypeOK
<1> QED BY <1>1, <1>2

LEMMA StallSteps ==
    ASSUME TypeOK, HoldersWork, FaultsAreToBlame, [Next]_vars, NEW t \in Txns, Stall(t)
    PROVE  /\ FaultsSoFar' > 0
           /\ pc[jobs[t].holder] # "dead" => FaultsSoFar' = FaultsSoFar + 1
           /\ jobs[t].holder \in Instances
<1>1. jobs[t].state = "active" /\ jobs[t].holder \in Instances
  BY DEF Stall, HoldersWork
<1>2. pc[jobs[t].holder] # "dead" => FaultsSoFar' = FaultsSoFar + 1
  BY FaultsSteps DEF Stall, SpendUnless, FaultKinds
<1> QED BY <1>1, <1>2, FaultsSteps DEF FaultsAreToBlame

\* The attempt that is under way fails by a fault.
LEMMA HolderCostSteps ==
    ASSUME TypeOK, HoldersWork, [Next]_vars, NEW t \in Txns, Verdict[t] # "FAILED",
           jobs'[t] = jobs[t]
    PROVE  /\ HolderCost(t) \in 0..1 /\ HolderCost(t)' \in 0..1
           /\ HolderCost(t)' <= HolderCost(t) \/ FaultsSoFar' = FaultsSoFar + 1
<1>1. HolderCost(t) \in 0..1 /\ HolderCost(t)' \in 0..1
  BY DEF HolderCost
<1>2. SUFFICES ASSUME HolderCost(t) = 0, HolderCost(t)' = 1
               PROVE  FaultsSoFar' = FaultsSoFar + 1
  BY <1>1
<1> DEFINE h == jobs[t].holder
<1>3. h \in Instances /\ jobs[t].state = "active" /\ (pc[h] = "dead" \/ cur[h] = t)
  BY <1>2 DEF HolderCost, HoldersWork
<1>4. pc'[h] \in {"threw", "dead"} /\ pc[h] \notin {"threw", "dead"}
  BY <1>2, <1>3 DEF HolderCost
<1>5. ProcessStep(h) /\ cur[h] = t
  BY <1>3, <1>4, ProcessSteps
<1> HIDE DEF h
<1>6. ~ProcessorFails(h)
  BY <1>5 DEF ProcessorFails
<1>7. Dies(h) \/ QueryFails(h)
  BY <1>3, <1>4, <1>5, <1>6 DEF ProcessStep, TakeJob, ReadTxn, Claim, Finalize, CompleteJob,
     FailJob, Release, Goto, TypeOK
<1> QED BY <1>3, <1>7, DeathSteps, FaultsSteps DEF QueryFails, FaultKinds

LEMMA CostStep ==
    ASSUME TypeOK, HoldersWork, FaultsAreToBlame, [Next]_vars, NEW t \in Txns,
           Verdict[t] # "FAILED"
    PROVE  Cost(t)' <= FaultsSoFar'
<1> DEFINE job == jobs[t]
           next == jobs'[t]
<1>1. /\ job \in Jobs /\ job.attemptsMade \in Nat /\ job.stalledCount \in Nat
      /\ next \in Jobs /\ next.attemptsMade \in Nat /\ next.stalledCount \in Nat
  BY NextTypeOK DEF TypeOK, Jobs
<1>2. /\ FaultsSoFar \in Nat /\ FaultsSoFar' \in Nat /\ FaultsSoFar' >= FaultsSoFar
      /\ Cost(t) <= FaultsSoFar
  BY FaultsSteps DEF FaultsAreToBlame
<1>3. /\ StallCost(job) \in 0..1 /\ HolderCost(t) \in 0..1
      /\ StallCost(next) \in 0..1 /\ HolderCost(t)' \in 0..1
  BY DEF StallCost, HolderCost
<1>4. /\ Cost(t) = job.attemptsMade + StallCost(job) + HolderCost(t)
      /\ Cost(t)' = next.attemptsMade + StallCost(next) + HolderCost(t)'
  BY DEF Cost, StallCost
<1>5. CASE next = job
  BY <1>1, <1>2, <1>3, <1>4, <1>5, HolderCostSteps
<1>6. CASE next = NoJob
  BY <1>1, <1>2, <1>4, <1>6, JobFields DEF StallCost, HolderCost
<1>7. CASE Enqueue(t)
  <2>1. next = Added(job) /\ job.state = "absent"
    BY <1>7, JobChanges
  <2>2. next.attemptsMade = 0 /\ next.stalledCount = 0 /\ next.state = "waiting"
    BY <1>1, <2>1, JobFields
  <2>3. StallCost(next) = 0 /\ HolderCost(t)' = 0
    BY <2>2 DEF StallCost, HolderCost
  <2> QED BY <1>2, <1>4, <2>2, <2>3
<1>8. CASE RetryDue(t)
  <2>1. next = Due(job) /\ job.state = "delayed"
    BY <1>8, JobChanges
  <2>2. /\ next.attemptsMade = job.attemptsMade /\ next.stalledCount = job.stalledCount
        /\ next.state = "waiting"
    BY <1>1, <2>1, JobFields
  <2>3. StallCost(next) = StallCost(job) /\ HolderCost(t)' = 0
    BY <2>1, <2>2 DEF StallCost, HolderCost
  <2> QED BY <1>1, <1>2, <1>3, <1>4, <2>2, <2>3
<1>9. CASE Stall(t)
  <2>1. next = Stalled(job) /\ job.state = "active"
    BY <1>9, JobChanges
  <2>2. /\ next.attemptsMade = job.attemptsMade /\ next.state = "waiting"
    BY <1>1, <2>1, JobFields
  <2>3. HolderCost(t)' = 0
    BY <2>2 DEF HolderCost
  <2>4. pc[job.holder] = "dead" => HolderCost(t) = 1
    BY <2>1 DEF HolderCost
  <2>5. pc[job.holder] # "dead" => FaultsSoFar' = FaultsSoFar + 1
    BY <1>9, StallSteps
  <2> HIDE DEF job, next
  <2> QED BY <1>1, <1>2, <1>3, <1>4, <2>2, <2>3, <2>4, <2>5
<1>10. ASSUME NEW i \in Instances, TakeJob(i, t) PROVE Cost(t)' <= FaultsSoFar'
  <2>1. next = Taken(job, i) /\ job.state = "waiting"
    BY <1>10, JobChanges
  <2>2. /\ next.attemptsMade = job.attemptsMade /\ next.stalledCount = job.stalledCount
        /\ next.state = "active" /\ next.holder = i
    BY <1>1, <2>1, JobFields
  <2>3. pc'[i] = "taken"
    BY <1>10 DEF TakeJob, Goto, TypeOK
  <2>4. StallCost(next) = StallCost(job) /\ HolderCost(t)' = 0
    BY <2>1, <2>2, <2>3 DEF StallCost, HolderCost
  <2> HIDE DEF job, next
  <2> QED BY <1>1, <1>2, <1>3, <1>4, <2>2, <2>4
<1>11. ASSUME NEW i \in Instances, TakeDoomed(i, t) PROVE Cost(t)' <= FaultsSoFar'
  <2>1. next = FailedForGood(job) /\ job.state = "waiting" /\ Doomed(job)
    BY <1>11, JobChanges
  <2>2. next.attemptsMade = job.attemptsMade + 1 /\ next.state = "failed"
    BY <1>1, <2>1, JobFields
  <2>3. job.stalledCount >= 1
    BY <1>1, <2>1, MaxStalledCountAssumption DEF Doomed
  <2>4. StallCost(next) = 0 /\ HolderCost(t)' = 0 /\ StallCost(job) = 1
    BY <2>1, <2>2, <2>3 DEF StallCost, HolderCost
  <2> HIDE DEF job, next
  <2> QED BY <1>1, <1>2, <1>3, <1>4, <2>2, <2>4
<1>12. ASSUME NEW i \in Instances, FailJob(i), cur[i] = t, HoldsLock(job, i)
       PROVE  Cost(t)' <= FaultsSoFar'
  <2>1. next = Retried(job) /\ pc[i] = "threw" /\ job.state = "active" /\ job.holder = i
    BY <1>12, JobChanges DEF FailJob, HoldsLock
  <2>2. /\ next.attemptsMade = job.attemptsMade + 1 /\ next.stalledCount = job.stalledCount
        /\ next.state \in {"delayed", "failed"}
    BY <1>1, <2>1, JobFields
  <2>3. StallCost(next) <= StallCost(job) /\ HolderCost(t)' = 0 /\ HolderCost(t) = 1
    BY <2>1, <2>2 DEF StallCost, HolderCost
  <2> HIDE DEF job, next
  <2> QED BY <1>1, <1>2, <1>3, <1>4, <2>2, <2>3
<1>13. ASSUME NEW i \in Instances, CompleteJob(i), cur[i] = t, HoldsLock(job, i)
       PROVE  next = NoJob
  BY <1>1, <1>13, JobChanges, JobFields
<1> HIDE DEF job, next
<1> QED
  BY <1>5, <1>6, <1>7, <1>8, <1>9, <1>10, <1>11, <1>12, <1>13, JobSteps DEF JobStep, job, next

LEMMA FaultsAreToBlameStep ==
    ASSUME TypeOK, HoldersWork, FaultsAreToBlame, [Next]_vars
    PROVE  FaultsAreToBlame'
<1>1. FaultsSoFar \in Nat /\ FaultsSoFar' \in Nat /\ FaultsSoFar' >= FaultsSoFar
  BY FaultsSteps
<1>2. ASSUME NEW i \in Instances, pc'[i] = "dead" PROVE FaultsSoFar' > 0
  BY <1>1, <1>2, DeathSteps DEF FaultsAreToBlame
<1>3. ASSUME NEW t \in Txns, jobs'[t].stalledCount >= 1 PROVE FaultsSoFar' > 0
  <2>1. jobs[t] \in Jobs
    BY DEF TypeOK
  <2>2. CASE jobs[t].stalledCount >= 1
    BY <1>1, <2>2 DEF FaultsAreToBlame
  <2>3. CASE jobs'[t].stalledCount # jobs[t].stalledCount /\ jobs'[t].stalledCount # 0
    <3>1. Stall(t)
      BY <2>1, <2>3, JobSteps, JobChanges, JobFields DEF JobStep
    <3> QED BY <3>1, StallSteps
  <2> QED BY <1>3, <2>2, <2>3
<1>4. ASSUME NEW t \in Txns, Verdict[t] # "FAILED" PROVE Cost(t)' <= FaultsSoFar'
  BY <1>4, CostStep
<1>5. ASSUME NEW f \in failures', Verdict[f.txn] # "FAILED" PROVE f.attempts <= FaultsSoFar'
  <2>1. f.txn \in Txns /\ FailureStep(f)
    BY FailureOrigins
  <2>2. ASSUME NEW g \in failures, f.txn = g.txn, f.attempts = g.attempts
        PROVE  f.attempts <= FaultsSoFar'
    BY <1>1, <1>5, <2>2 DEF FaultsAreToBlame, TypeOK, Failures
  <2>3. ASSUME NEW i \in Instances, f = FailureOf(i, f.txn),
               TakeDoomed(i, f.txn) \/ (FailJob(i) /\ cur[i] = f.txn /\ HoldsLock(jobs[f.txn], i))
        PROVE  f.attempts <= FaultsSoFar'
    <3> DEFINE t == f.txn
    <3>1. /\ jobs[t] \in Jobs /\ jobs[t].attemptsMade \in Nat /\ jobs[t].stalledCount \in Nat
          /\ f.attempts = jobs[t].attemptsMade + 1
      BY <2>1, <2>3 DEF TypeOK, Jobs, FailureOf
    <3>2. StallCost(jobs[t]) \in 0..1 /\ HolderCost(t) \in 0..1
      BY DEF StallCost, HolderCost
    <3>3. StallCost(jobs[t]) = 1 \/ HolderCost(t) = 1
      <4>1. CASE TakeDoomed(i, t)
        BY <3>1, <4>1, MaxStalledCountAssumption DEF TakeDoomed, Doomed, StallCost
      <4>2. CASE FailJob(i) /\ HoldsLock(jobs[t], i)
        BY <4>2 DEF FailJob, HoldsLock, HolderCost
      <4> QED BY <2>3, <4>1, <4>2
    <3>4. jobs[t].attemptsMade + StallCost(jobs[t]) + HolderCost(t) <= FaultsSoFar
      BY <1>5, <2>1 DEF FaultsAreToBlame, Cost
    <3> HIDE DEF t
    <3> QED BY <1>1, <3>1, <3>2, <3>3, <3>4
  <2>4. CASE \E g \in failures : f = [g EXCEPT !.saved = TRUE]
    BY <2>2, <2>4, SavedFailure
  <2> QED BY <2>1, <2>2, <2>3, <2>4 DEF FailureStep
<1> QED BY <1>2, <1>3, <1>4, <1>5 DEF FaultsAreToBlame

LEMMA FaultsInvariant == Spec => [](TypeOK /\ DeadLetterInv /\ LossesInv /\ FaultsAreToBlame)
<1>1. Init => FaultsAreToBlame
  BY DEF Init, FaultsAreToBlame, FaultsSoFar, FaultKinds, Cost, StallCost, HolderCost, NoJob
<1>2. TypeOK /\ LossesInv /\ FaultsAreToBlame /\ [Next]_vars => FaultsAreToBlame'
  BY FaultsAreToBlameStep DEF LossesInv, FailuresInv
<1> QED BY <1>1, <1>2, LossesInvariant, PTL DEF Spec

-----------------------------------------------------------------------------
(* Without a fault, work is dropped only when it is final *)

Final(t) == txns[t].status \in FinalStatuses

Dropped ==
    NoFault =>
        \A t \in Txns :
            /\ txns[t].status = "PROCESSING" => Attended(t)
            /\ jobs[t].state = "absent" /\ adds[t] > 0 => Final(t)
            /\ jobs[t].state = "failed" /\ PendingFailures(t) = {} => Final(t)
            /\ \A i \in Instances : pc[i] = "returned" /\ cur[i] = t => Final(t)

\* How a handler call comes to an end.
LEMMA FailureEnds ==
    ASSUME TypeOK, [Next]_vars, NEW f \in failures, f \notin failures'
    PROVE  \/ HandleRetry(f) \/ MarkFailed(f)
           \/ SaveDeadLetter(f) /\ [f EXCEPT !.saved = TRUE] \in failures'
           \/ \E k \in FaultKinds : Spend(k)
<1>1. ASSUME NEW i \in Instances, Step(i) PROVE FALSE
  BY <1>1 DEF Step, TakeJob, TakeDoomed, ReadTxn, Claim, ProcessorFails, Finalize,
     CompleteJob, FailJob
<1>2. CASE Fault
  BY <1>2 DEF Fault, QueryFails, Crash, HandleRetryFails, DeadLetterFails, FaultKinds
<1>3. ASSUME NEW g \in failures, Handle(g)
      PROVE  HandleRetry(f) \/ MarkFailed(f)
             \/ (SaveDeadLetter(f) /\ [f EXCEPT !.saved = TRUE] \in failures')
  BY <1>3 DEF Handle, HandleRetry, MarkFailed, SaveDeadLetter
<1> QED
  BY <1>1, <1>2, <1>3 DEF Next, Heartbeat, Enqueue, RetryDue, Stall, LeaseExpires, Recover, vars

\* What is known of a state without a fault.
LEMMA CalmState ==
    ASSUME TypeOK, LossesInv, FaultsAreToBlame, NoFault
    PROVE  /\ \A i \in Instances : pc[i] # "dead"
           /\ \A t \in Txns : jobs[t].stalledCount = 0 /\ ~Doomed(jobs[t])
           /\ \A t \in Txns : ~CutOff(t)
           /\ \A t \in Txns : jobs[t].state # "failed" => ~Robbed(t)
           /\ \A f \in failures : Waits(f)
           /\ spent["lates"] = 0 /\ spent["dbErrors"] = 0
<1>1. /\ spent["crashes"] = 0 /\ spent["pauses"] = 0
      /\ spent["dbErrors"] = 0 /\ spent["lates"] = 0
  BY DEF NoFault, FaultKinds
<1>2. FaultsSoFar = 0 /\ Disturbances = 0
  BY <1>1 DEF FaultsSoFar, Disturbances
<1>3. \A t \in Txns : jobs[t].stalledCount \in Nat
  BY DEF TypeOK, Jobs
<1>4. \A t \in Txns : jobs[t].stalledCount = 0
  BY <1>2, <1>3 DEF FaultsAreToBlame
<1>5. \A t \in Txns : ~Doomed(jobs[t])
  BY <1>4, MaxStalledCountAssumption DEF Doomed
<1>6. \A i \in Instances : pc[i] # "dead"
  <2>1. \A i \in Instances : pc[i] = "dead" => FaultsSoFar > 0
    BY Zenon DEF FaultsAreToBlame
  <2>2. ~(FaultsSoFar > 0)
    BY <1>2
  <2> QED BY <2>1, <2>2, Zenon
<1>7. /\ \A t \in Txns : ~CutOff(t)
      /\ \A t \in Txns : jobs[t].state # "failed" => ~Robbed(t)
  BY <1>1, <1>2 DEF LossesInv, LossesHaveCause
<1>8. \A f \in failures : Waits(f)
  BY <1>1 DEF LossesInv, FailuresInv, FailuresWait
<1> QED BY <1>1, <1>4, <1>5, <1>6, <1>7, <1>8

\* A step after which there still is no fault.
LEMMA CalmStep ==
    ASSUME TypeOK, [Next]_vars, NoFault'
    PROVE  /\ NoFault /\ \A k \in FaultKinds : ~Spend(k)
           /\ \A i \in Instances : ~QueryFails(i) /\ ~Dies(i)
<1>1. \A k \in FaultKinds : spent[k] \in Nat /\ spent'[k] = 0 /\ spent'[k] >= spent[k]
  BY SpentOnlyGrows DEF NoFault
<1>2. \A k \in FaultKinds : spent[k] = 0 /\ ~Spend(k)
  BY <1>1 DEF Spend, TypeOK
<1>3. \A i \in Instances : ~QueryFails(i) /\ ~Dies(i)
  BY <1>2 DEF QueryFails, Dies, Crash, HandleRetryFails, FaultKinds
<1> QED BY <1>2, <1>3 DEF NoFault

\* Nobody reads or claims a row that somebody else attends to.
LEMMA NobodyInterferes ==
    ASSUME TypeOK, LeaseColumnsAgree, LossesInv, FaultsAreToBlame, Dropped, NoFault,
           NEW i \in Instances, pc[i] \in {"taken", "read"}, NEW t \in Txns, cur[i] = t
    PROVE  txns[t].status \in FinalStatuses \cup {"ACCEPTED"}
<1> SUFFICES ASSUME txns[t].status = "PROCESSING" PROVE FALSE
  BY DEF TypeOK, Rows, Statuses, FinalStatuses
<1>1. Attended(t)
  BY DEF Dropped
<1>2. HoldsLock(jobs[t], i) /\ \A j \in Instances : cur[j] = t => HoldsLock(jobs[t], j)
  BY CalmState DEF CutOff
<1>3. \A f \in failures : f.txn # t
  BY <1>2, CalmState DEF Waits, HoldsLock
<1>4. txns[t].owner \in Instances
  BY DEF LeaseColumnsAgree, LeaseAgrees, TypeOK, Rows, MaybeInstance
<1> QED BY <1>1, <1>2, <1>3, <1>4 DEF Attended, HoldsLock

LEMMA AttendedStep ==
    ASSUME TypeOK, LeaseColumnsAgree, LossesInv, FaultsAreToBlame, Dropped, [Next]_vars, NoFault',
           NEW t \in Txns, txns'[t].status = "PROCESSING"
    PROVE  Attended(t)'
<1>1. /\ NoFault
      /\ \A i \in Instances : ~QueryFails(i) /\ ~Dies(i)
      /\ \A k \in FaultKinds : ~Spend(k)
  BY CalmStep
<1>2. RowStep(t) /\ txns[t] \in Rows
  BY RowSteps DEF TypeOK
<1>3. ASSUME txns[t].status = "PROCESSING", txns'[t].owner = txns[t].owner
      PROVE  Attended(t)'
  <2> DEFINE o == txns[t].owner
  <2>1. o \in Instances /\ Attended(t)
    BY <1>1, <1>3 DEF LeaseColumnsAgree, LeaseAgrees, TypeOK, Rows, MaybeInstance, Dropped
  <2>2. CASE pc[o] \in {"claimed", "threw"} /\ cur[o] = t
    <3>1. ProcessStep(o) /\ ~QueryFails(o) /\ ~Dies(o)
      BY <1>1, <2>1, ProcessSteps
    <3>2. CASE (pc'[o] = pc[o] /\ cur'[o] = cur[o]) \/ ProcessorFails(o)
      BY <1>3, <2>1, <2>2, <3>2 DEF Attended, ProcessorFails, Goto, TypeOK
    <3>3. CASE Finalize(o)
      <4>1. txns'[t] = Finalized(txns[t], Verdict[t]) /\ Verdict[t] \in FinalStatuses
        BY <1>3, <2>2, <3>3, VerdictAssumption
        DEF Finalize, FinalizeRow, Owns, TypeOK, FinalStatuses
      <4> QED BY <1>2, <4>1 DEF Finalized, WithoutLease, Rows, FinalStatuses
    <3>4. CASE FailJob(o)
      <4>1. HoldsLock(jobs[t], o)
        BY <1>1, <2>1, <2>2, CalmState DEF CutOff
      <4>2. FailureOf(o, t) \in failures'
        BY <2>2, <3>4, <4>1 DEF FailJob
      <4>3. \E f \in failures' : f.txn = t /\ f.by = o
        BY <4>2 DEF FailureOf
      <4> QED BY <1>3, <4>3 DEF Attended
    <3>5. ~((\E u \in Txns : TakeJob(o, u)) \/ ReadTxn(o) \/ Claim(o) \/ CompleteJob(o))
      BY <2>2 DEF TakeJob, ReadTxn, Claim, CompleteJob
    <3> QED BY <3>1, <3>2, <3>3, <3>4, <3>5 DEF ProcessStep
  <2>3. CASE \E f \in failures : f.txn = t /\ f.by = o
    <3>1. PICK f \in failures : f.txn = t /\ f.by = o
      BY <2>3
    <3>2. CASE f \in failures'
      BY <1>3, <3>1, <3>2 DEF Attended
    <3>3. CASE [f EXCEPT !.saved = TRUE] \in failures'
      BY <1>3, <3>1, <3>3, SavedFailure DEF Attended
    <3>4. ~(HandleRetry(f) \/ MarkFailed(f))
      <4>1. ASSUME NEW s \in {"ACCEPTED", "FAILED"} PROVE txns'[t] # Updated(txns[t], s, f.attempts)
        BY <1>2 DEF Updated, WithoutLease, Rows
      <4> QED BY <3>1, <4>1 DEF HandleRetry, MarkFailed, TypeOK
    <3> QED BY <1>1, <3>2, <3>3, <3>4, FailureEnds
  <2> QED BY <2>1, <2>2, <2>3 DEF Attended
<1>4. ASSUME NEW i \in Instances, cur[i] = t, txns'[t] = Started(txns[t], i), Claim(i),
             CanStart(txns[t])
      PROVE  Attended(t)'
  <2>1. txns'[t].owner = i
    BY <1>2, <1>4 DEF Started, Rows
  <2>2. pc'[i] = "claimed" /\ cur'[i] = t
    BY <1>4 DEF Claim, Goto, TypeOK
  <2> QED BY <2>1, <2>2 DEF Attended
<1>5. CASE txns'[t] \in {txns[t], Renewed(txns[t]), [txns[t] EXCEPT !.lease = "expired"]}
  <2>1. txns'[t].status = txns[t].status /\ txns'[t].owner = txns[t].owner
    BY <1>2, <1>5 DEF Renewed, Rows
  <2> QED BY <1>3, <2>1
<1>6. CASE \/ txns'[t] = Recovered(txns[t])
           \/ \E s \in FinalStatuses : txns'[t] = Finalized(txns[t], s)
           \/ \E f \in failures : \/ txns'[t] = Updated(txns[t], "ACCEPTED", f.attempts)
                                  \/ txns'[t] = Updated(txns[t], "FAILED", f.attempts)
  BY <1>2, <1>6 DEF Recovered, Finalized, Updated, WithoutLease, Rows, FinalStatuses
<1> QED
  BY <1>1, <1>2, <1>4, <1>5, <1>6, VerdictAssumption DEF RowStep, FinalStatuses

LEMMA DroppedStep ==
    ASSUME TypeOK, LeaseColumnsAgree, DeadLetterInv, LossesInv, FaultsAreToBlame, Dropped,
           [Next]_vars
    PROVE  Dropped'
<1> SUFFICES ASSUME NoFault', NEW t \in Txns
             PROVE  /\ txns'[t].status = "PROCESSING" => Attended(t)'
                    /\ jobs'[t].state = "absent" /\ adds'[t] > 0 => Final(t)'
                    /\ jobs'[t].state = "failed" /\ PendingFailures(t)' = {} => Final(t)'
                    /\ \A i \in Instances : pc'[i] = "returned" /\ cur'[i] = t => Final(t)'
  BY DEF Dropped
<1>1. /\ NoFault /\ \A k \in FaultKinds : ~Spend(k)
      /\ \A i \in Instances : ~QueryFails(i) /\ ~Dies(i)
  BY CalmStep
<1>2. /\ ~Doomed(jobs[t]) /\ ~CutOff(t) /\ (jobs[t].state # "failed" => ~Robbed(t))
      /\ \A f \in failures : Waits(f)
      /\ spent["lates"] = 0 /\ spent["dbErrors"] = 0
  BY <1>1, CalmState
<1>3. Final(t) => Final(t)'
  BY <1>2, FinalChangesStep DEF Final, LossesInv
<1>4. JobStep(t) /\ jobs[t] \in Jobs
  BY JobSteps DEF TypeOK
<1>5. ASSUME jobs'[t].state = "absent", adds'[t] > 0 PROVE Final(t)'
  <2>1. CASE jobs'[t] = jobs[t]
    <3>1. ~Enqueue(t)
      BY <1>4, <1>5, <2>1, JobChanges, JobFields
    <3>2. adds'[t] = adds[t]
      BY <3>1, AddsSteps
    <3> QED BY <1>1, <1>3, <1>5, <2>1, <3>2 DEF Dropped
  <2>2. ASSUME NEW i \in Instances, cur[i] = t, CompleteJob(i) PROVE Final(t)'
    BY <1>1, <1>3, <2>2 DEF CompleteJob, Dropped
  <2>3. ASSUME NEW i \in Instances, cur[i] = t, HoldsLock(jobs[t], i), FailJob(i) PROVE FALSE
    BY <1>4, <1>5, <2>3, JobChanges, JobFields
  <2>4. ~(Enqueue(t) \/ RetryDue(t) \/ Stall(t))
        /\ \A i \in Instances : ~(TakeJob(i, t) \/ TakeDoomed(i, t))
    BY <1>4, <1>5, JobChanges, JobFields
  <2> QED BY <1>4, <2>1, <2>2, <2>3, <2>4 DEF JobStep
<1>6. ASSUME jobs'[t].state = "failed", PendingFailures(t)' = {} PROVE Final(t)'
  <2>1. CASE jobs[t].state = "failed" /\ PendingFailures(t) = {}
    BY <1>1, <1>3, <2>1 DEF Dropped
  <2>2. ASSUME jobs[t].state = "failed", NEW f \in failures, f.txn = t PROVE Final(t)'
    <3>1. ~ToBeRetried(f)
      BY <1>2, <2>2 DEF Waits
    <3>2. f \notin failures' /\ [f EXCEPT !.saved = TRUE] \notin failures'
      BY <1>6, <2>2, SavedFailure DEF PendingFailures
    <3>3. MarkFailed(f)
      BY <1>1, <3>1, <3>2, FailureEnds DEF HandleRetry
    <3>4. txns'[t] = Updated(txns[t], "FAILED", f.attempts)
      BY <2>2, <3>3 DEF MarkFailed, TypeOK
    <3> QED BY <3>4 DEF Updated, WithoutLease, Final, FinalStatuses, TypeOK, Rows
  <2>3. CASE jobs[t].state # "failed"
    <3>1. ASSUME NEW i \in Instances, cur[i] = t, HoldsLock(jobs[t], i), FailJob(i) PROVE FALSE
      <4>1. FailureOf(i, t) \in failures' /\ FailureOf(i, t).txn = t
        BY <3>1 DEF FailJob, FailureOf
      <4> QED BY <1>6, <4>1 DEF PendingFailures
    <3>2. \A i \in Instances : ~TakeDoomed(i, t)
      BY <1>2 DEF TakeDoomed
    <3>3. /\ ~(Enqueue(t) \/ RetryDue(t) \/ Stall(t))
          /\ \A i \in Instances : ~TakeJob(i, t)
          /\ \A i \in Instances : cur[i] = t /\ HoldsLock(jobs[t], i) => ~CompleteJob(i)
      BY <1>4, <1>6, JobChanges, JobFields
    <3>4. jobs'[t] # jobs[t]
      BY <1>6, <2>3
    <3> QED BY <1>4, <3>1, <3>2, <3>3, <3>4 DEF JobStep
  <2> QED BY <2>1, <2>2, <2>3 DEF PendingFailures
<1>7. ASSUME NEW i \in Instances, pc'[i] = "returned", cur'[i] = t PROVE Final(t)'
  <2>1. ProcessStep(i) /\ ~QueryFails(i) /\ ~Dies(i)
    BY <1>1, ProcessSteps
  <2>2. CASE pc'[i] = pc[i] /\ cur'[i] = cur[i]
    BY <1>1, <1>3, <1>7, <2>2 DEF Dropped
  <2>3. CASE ReadTxn(i)
    <3>1. cur[i] = t /\ SkippedAsDuplicate(txns[t]) /\ pc[i] = "taken"
      BY <1>7, <2>3 DEF ReadTxn, Goto, TypeOK
    <3>2. Final(t)
      BY <1>1, <3>1, NobodyInterferes DEF SkippedAsDuplicate, Final, FinalStatuses
    <3> QED BY <1>3, <3>2
  <2>4. CASE Claim(i)
    <3>1. cur[i] = t /\ ~CanStart(txns[t]) /\ pc[i] = "read"
      BY <1>7, <2>4 DEF Claim, Goto, TypeOK
    <3>2. Final(t)
      BY <1>1, <3>1, NobodyInterferes DEF CanStart, Final, FinalStatuses
    <3> QED BY <1>3, <3>2
  <2>5. CASE Finalize(i)
    <3>1. cur[i] = t /\ pc[i] = "claimed"
      BY <1>7, <2>5 DEF Finalize
    <3>2. HoldsLock(jobs[t], i) /\ PastClaim(t, i)
      BY <1>2, <3>1 DEF CutOff, PastClaim
    <3>3. Owns(txns[t], i)
      BY <1>2, <3>2 DEF Robbed, Keeps, HoldsLock
    <3>4. txns'[t] = Finalized(txns[t], Verdict[t]) /\ Verdict[t] \in FinalStatuses
      BY <2>5, <3>1, <3>3, VerdictAssumption DEF Finalize, FinalizeRow, TypeOK, FinalStatuses
    <3> QED BY <3>4 DEF Finalized, WithoutLease, Final, TypeOK, Rows
  <2>6. ~(\/ \E u \in Txns : TakeJob(i, u)
          \/ ProcessorFails(i) \/ CompleteJob(i) \/ FailJob(i))
    BY <1>7 DEF TakeJob, ProcessorFails, CompleteJob, FailJob, Release, Goto, TypeOK
  <2> QED BY <2>1, <2>2, <2>3, <2>4, <2>5, <2>6 DEF ProcessStep
<1> QED BY <1>5, <1>6, <1>7, AttendedStep

LEMMA DroppedInvariant ==
    Spec => [](TypeOK /\ LeaseColumnsAgree /\ DeadLetterInv /\ LossesInv /\ FaultsAreToBlame /\ Dropped)
<1>1. Init => Dropped
  BY DEF Init, Dropped, AcceptedRow, NoJob
<1>2. TypeOK /\ LeaseColumnsAgree /\ DeadLetterInv /\ LossesInv /\ FaultsAreToBlame
        /\ Dropped /\ [Next]_vars => Dropped'
  BY DroppedStep
<1> QED BY <1>1, <1>2, LeaseColumnsCorrect, FaultsInvariant, PTL DEF Spec

\* In every deployment: without a fault, the queue lets go of a transaction only when
\* it is final.
THEOREM SettledWhenOverCorrect == Spec => []SettledWhenOver
<1>1. Dropped => SettledWhenOver
  BY DEF Dropped, SettledWhenOver, Over, Final
<1> QED BY <1>1, DroppedInvariant, PTL
=============================================================================
