----------------------------- MODULE PaymentSim -----------------------------
(***************************************************************************)
(* payment-sim behind POST /pay: the outbox processes and the workers over *)
(* one queue and one database.  The workers are TransactionWorker, which   *)
(* this module extends, and the outbox processes are an instance of        *)
(* OutboxProcessor; a step of the system is a step of one of them that     *)
(* leaves the other's part alone, or both at once where they meet: add()   *)
(* puts the job into the workers' queue, and a job that completes leaves   *)
(* the queue that add() looks at.                                          *)
(***************************************************************************)
EXTENDS TransactionWorker, FiniteSets

\* A txn_id of Txns is also the outbox_events.id and the jobId of its payment.
CONSTANTS
    Processors,         \* runs of outbox.js
    BatchSize,          \* claimOutboxEvents(10)
    MaxRecoveries,      \* OUTBOX_MAX_RECOVERIES: 3
    MaxOutboxCrashes,   \* bounds on faults of the outbox: processes that die
    MaxSlow,            \* ... claims that go stale under their process
    MaxRedisErrors,     \* ... add() calls that raise
    MaxOutboxDbErrors   \* ... statements that raise

\* Ids are numbers, so that every set of them has a first one.
ASSUME TxnsAssumption ==
    /\ Txns \subseteq Nat
    /\ \A S \in SUBSET Txns : S # {} => \E t \in S : \A u \in S : t <= u
ASSUME LimitsAssumption == BatchSize \in Nat \ {0} /\ MaxRecoveries \in Nat \ {0}
ASSUME FaultsAssumption ==
    /\ MaxOutboxCrashes \in Nat /\ MaxSlow \in Nat
    /\ MaxRedisErrors \in Nat /\ MaxOutboxDbErrors \in Nat
\* No fault of the outbox adds a job more than once: the workers' bound on what is
\* added to their queue never holds add() up.
ASSUME AddsAssumption ==
    MaxAdds >= 1 + MaxOutboxCrashes + MaxSlow + MaxRedisErrors + MaxOutboxDbErrors

VARIABLES
    events, passes, todo, outboxFaults      \* the outbox's own, beside the queue

outboxVars == <<events, passes, todo, outboxFaults>>
systemVars == <<outboxVars, vars>>

\* Transactions whose jobId is taken.
Queued == {t \in Txns : jobs[t].state # "absent"}

Outbox == INSTANCE OutboxProcessor WITH
    Events <- Txns, queued <- Queued, added <- adds, pc <- passes,
    spent <- outboxFaults, MaxCrashes <- MaxOutboxCrashes, MaxDbErrors <- MaxOutboxDbErrors

SystemInit == Init /\ Outbox!Init

-----------------------------------------------------------------------------
(* Where the two meet *)

\* add() as the workers' queue sees it.
JobIsAdded(t) == IF jobs[t].state = "absent" THEN Enqueue(t) ELSE UNCHANGED vars

Add(p) ==
    /\ passes[p] = "adding"
    /\ JobIsAdded(Outbox!Current(p))
    /\ Outbox!Add(p)

AddFails(p) ==
    /\ passes[p] = "adding"
    /\ JobIsAdded(Outbox!Current(p)) \/ UNCHANGED vars
    /\ Outbox!AddFails(p)

\* outbox.js:11: the recovery scheduler runs in the outbox processes.
RecoveryRuns == \E p \in Processors : passes[p] # "dead"

-----------------------------------------------------------------------------
Pass(p) ==
    \/ Add(p)
    \/ /\ UNCHANGED vars
       /\ Outbox!Recover(p) \/ Outbox!Claim(p) \/ Outbox!MarkSent(p) \/ Outbox!Revert(p)

OutboxFault(p) ==
    \/ AddFails(p)
    \/ /\ UNCHANGED vars
       /\ \/ Outbox!RecoverFails(p) \/ Outbox!ClaimFails(p) \/ Outbox!MarkSentFails(p)
          \/ Outbox!RevertFails(p) \/ Outbox!Crash(p)

\* POST /pay commits a transaction and its event.
Accept(t) == UNCHANGED vars /\ Outbox!Accept(t)

GrowsStale(t) == UNCHANGED vars /\ Outbox!GrowsStale(t)

SystemStep(i) == Step(i) /\ UNCHANGED outboxVars

SystemHeartbeat(i) == Heartbeat(i) /\ UNCHANGED outboxVars

SystemHandle == (\E f \in failures : Handle(f)) /\ UNCHANGED outboxVars

SystemRetryDue(t) == RetryDue(t) /\ UNCHANGED outboxVars

SystemStall(t) == Stall(t) /\ UNCHANGED outboxVars

SystemLeaseExpires(t) == LeaseExpires(t) /\ UNCHANGED outboxVars

SystemRecover == RecoveryRuns /\ Recover /\ UNCHANGED outboxVars

WorkerFault == Fault /\ UNCHANGED outboxVars

SystemNext ==
    \/ \E t \in Txns :
          \/ Accept(t) \/ GrowsStale(t)
          \/ SystemRetryDue(t) \/ SystemStall(t) \/ SystemLeaseExpires(t)
    \/ \E p \in Processors : Pass(p) \/ OutboxFault(p)
    \/ \E i \in Instances : SystemStep(i) \/ SystemHeartbeat(i)
    \/ SystemHandle \/ SystemRecover \/ WorkerFault

SystemSpec == SystemInit /\ [][SystemNext]_systemVars

\* What is fair in the two components: timers, and processes that live.
SystemFairness ==
    /\ \A p \in Processors : WF_systemVars(Pass(p))
    /\ \A t \in Txns :
          /\ WF_systemVars(GrowsStale(t) /\ Outbox!InHand(t) = {})
          /\ WF_systemVars(SystemRetryDue(t))
          /\ WF_systemVars(SystemStall(t))
          /\ WF_systemVars(SystemLeaseExpires(t))
    /\ \A i \in Instances : WF_systemVars(SystemStep(i))
    /\ WF_systemVars(SystemHandle)
    /\ WF_systemVars(SystemRecover)

FairSystemSpec == SystemSpec /\ SystemFairness

-----------------------------------------------------------------------------
(* Safety *)

Accepted(t) == events[t].status # "absent"

Open(t) == Accepted(t) /\ txns[t].status \notin FinalStatuses

\* Somebody still has t to deal with: the outbox, the queue, or a failed handler.
InPipeline(t) ==
    \/ events[t].status \in {"PENDING", "PROCESSING"}
    \/ jobs[t].state \in {"waiting", "active", "delayed"}
    \/ PendingFailures(t) # {}

\* While no worker fails, an accepted payment that is not settled is never lost
\* between the outbox and the queue, whatever happens to the outbox short of giving
\* the event up (outboxProcessor.js:124-168 against removeOnComplete, and the early
\* returns of transactionJobHandler.js:42-58).
NeverForgotten ==
    \A t \in Txns :
        NoFault /\ Open(t) /\ events[t].status # "OUTBOX_FAILED" => InPipeline(t)

FaultsOfWorkers == spent["crashes"] + spent["pauses"] + spent["dbErrors"] + spent["lates"]

PaymentState(t) ==
    IF ~Accepted(t) THEN "none"
    ELSE IF txns[t].status \in FinalStatuses THEN txns[t].status ELSE "open"

Lifecycle == INSTANCE PaymentLifecycle WITH
    Payments <- Txns, Outcome <- Verdict, Attempts <- MaxAttempts,
    state <- [t \in Txns |-> PaymentState(t)], faults <- FaultsOfWorkers

\* The system implements the life of a payment: outbox faults, redeliveries and
\* retries never reopen a payment nor change its outcome.
FollowsLifecycle == Lifecycle!Spec

-----------------------------------------------------------------------------
(* Liveness, under FairSystemSpec *)

\* README.md:12-38, the whole way: an accepted payment settles at its outcome for
\* good, as long as the outbox fails less often than OUTBOX_MAX_RECOVERIES and no
\* worker fails.
EveryPaymentSettles ==
    \A t \in Txns :
        [](Accepted(t) => <>[](\/ txns[t].status = Verdict[t]
                               \/ ~NoFault
                               \/ Outbox!Faults >= MaxRecoveries))
=============================================================================
