-------------------------- MODULE PaymentSimProofs --------------------------
(* Theorems about the composition.  Every behaviour of PaymentSim is, seen  *)
(* through one component's variables, a behaviour of that component, so the *)
(* theorems of TransactionWorkerProofs hold of it; what is proved here on   *)
(* top is about both components at once.                                    *)
EXTENDS PaymentSim, TransactionWorkerProofs

-----------------------------------------------------------------------------
(* What the workers do to the queue, as the outbox sees it *)

\* One job goes on, or one job completes.
QueueMoves ==
    \/ UNCHANGED jobs
    \/ \E t \in Txns, job \in Jobs :
          /\ jobs' = [jobs EXCEPT ![t] = job]
          /\ jobs[t].state # "absent" /\ job.state # "absent"
    \/ \E t \in Txns :
          jobs[t].state # "absent" /\ jobs' = [jobs EXCEPT ![t] = NoJob]

\* What moves a job whose process may have no transaction at all.
LEMMA MovedJob ==
    ASSUME TypeOK, NEW t, NEW i \in Instances, HoldsLock(jobs[t], i),
           \/ jobs' = [jobs EXCEPT ![t] = Completed(@)]
           \/ jobs' = [jobs EXCEPT ![t] = Retried(@)]
    PROVE  QueueMoves
<1>1. CASE t \in Txns
  <2>1. jobs[t] \in Jobs /\ jobs[t].state # "absent"
    BY <1>1 DEF TypeOK, HoldsLock
  <2>2. Completed(jobs[t]) = NoJob /\ Retried(jobs[t]) \in Jobs
        /\ Retried(jobs[t]).state # "absent"
    BY <2>1, JobTypes, JobFields DEF Jobs
  <2> QED BY <1>1, <2>1, <2>2 DEF QueueMoves, TypeOK
<1>2. CASE t \notin Txns
  BY <1>2 DEF QueueMoves, TypeOK
<1> QED BY <1>1, <1>2

LEMMA StepMovesQueue ==
    ASSUME TypeOK, NEW i \in Instances, Step(i)
    PROVE  QueueMoves
<1>1. ASSUME NEW t \in Txns, TakeJob(i, t) PROVE QueueMoves
  <2>1. jobs[t] \in Jobs /\ jobs[t].state # "absent"
    BY <1>1 DEF TypeOK, TakeJob
  <2>2. Taken(jobs[t], i) \in Jobs /\ Taken(jobs[t], i).state # "absent"
    BY <2>1, JobTypes, JobFields
  <2> QED BY <1>1, <2>1, <2>2 DEF QueueMoves, TakeJob
<1>2. ASSUME NEW t \in Txns, TakeDoomed(i, t) PROVE QueueMoves
  <2>1. jobs[t] \in Jobs /\ jobs[t].state # "absent"
    BY <1>2 DEF TypeOK, TakeDoomed
  <2>2. FailedForGood(jobs[t]) \in Jobs /\ FailedForGood(jobs[t]).state # "absent"
    BY <2>1, JobTypes, JobFields
  <2> QED BY <1>2, <2>1, <2>2 DEF QueueMoves, TakeDoomed
<1>3. CASE ReadTxn(i) \/ Claim(i) \/ ProcessorFails(i) \/ Finalize(i)
  BY <1>3 DEF QueueMoves, ReadTxn, Claim, ProcessorFails, Finalize
<1>4. CASE CompleteJob(i)
  BY <1>4, MovedJob DEF QueueMoves, CompleteJob
<1>5. CASE FailJob(i)
  BY <1>5, MovedJob DEF QueueMoves, FailJob
<1> QED BY <1>1, <1>2, <1>3, <1>4, <1>5 DEF Step

LEMMA TimerMovesQueue ==
    ASSUME TypeOK, NEW t \in Txns, RetryDue(t) \/ Stall(t)
    PROVE  QueueMoves
<1>1. jobs[t] \in Jobs /\ jobs[t].state # "absent"
  BY DEF TypeOK, RetryDue, Stall
<1>2. /\ Due(jobs[t]) \in Jobs /\ Due(jobs[t]).state # "absent"
      /\ Stalled(jobs[t]) \in Jobs /\ Stalled(jobs[t]).state # "absent"
  BY <1>1, JobTypes, JobFields
<1> QED BY <1>1, <1>2 DEF QueueMoves, RetryDue, Stall

\* A step of the workers.
WorkersStep ==
    \/ \E i \in Instances : SystemStep(i) \/ SystemHeartbeat(i)
    \/ \E t \in Txns : SystemRetryDue(t) \/ SystemStall(t) \/ SystemLeaseExpires(t)
    \/ SystemHandle \/ SystemRecover \/ WorkerFault

LEMMA WorkersMoveOnly ==
    ASSUME TypeOK, WorkersStep
    PROVE  Next /\ QueueMoves /\ UNCHANGED <<outboxVars, adds>>
<1> DEFINE Seen == QueueMoves /\ UNCHANGED <<outboxVars, adds>>
<1>1. ASSUME NEW i \in Instances, SystemStep(i) PROVE Seen
  <2>1. UNCHANGED <<outboxVars, adds>>
    BY <1>1 DEF SystemStep, Step, TakeJob, TakeDoomed, ReadTxn, Claim, ProcessorFails,
           Finalize, CompleteJob, FailJob
  <2> QED BY <1>1, <2>1, StepMovesQueue DEF SystemStep
<1>2. ASSUME NEW i \in Instances, SystemHeartbeat(i) PROVE Seen
  BY <1>2 DEF SystemHeartbeat, Heartbeat, QueueMoves
<1>3. ASSUME NEW t \in Txns, SystemRetryDue(t) \/ SystemStall(t) PROVE Seen
  <2>1. UNCHANGED <<outboxVars, adds>>
    BY <1>3 DEF SystemRetryDue, SystemStall, RetryDue, Stall
  <2> QED BY <1>3, <2>1, TimerMovesQueue DEF SystemRetryDue, SystemStall
<1>4. ASSUME NEW t \in Txns, SystemLeaseExpires(t) PROVE Seen
  BY <1>4 DEF SystemLeaseExpires, LeaseExpires, QueueMoves
<1>5. ASSUME SystemHandle PROVE Seen
  BY <1>5 DEF SystemHandle, Handle, HandleRetry, SaveDeadLetter, MarkFailed, QueueMoves
<1>6. ASSUME SystemRecover PROVE Seen
  BY <1>6 DEF SystemRecover, Recover, QueueMoves
<1>7. ASSUME WorkerFault PROVE Seen
  BY <1>7 DEF WorkerFault, Fault, QueryFails, Crash, Die, HandleRetryFails, DeadLetterFails,
         QueueMoves
<1>8. Seen
  BY <1>1, <1>2, <1>3, <1>4, <1>5, <1>6, <1>7 DEF WorkersStep
<1>9. Next
  BY DEF WorkersStep, SystemStep, SystemHeartbeat, SystemRetryDue, SystemStall,
     SystemLeaseExpires, SystemHandle, SystemRecover, WorkerFault, Next
<1> QED BY <1>8, <1>9

LEMMA CompletionIsJobCompletes ==
    ASSUME TypeOK, QueueMoves, UNCHANGED <<outboxVars, adds>>
    PROVE  [Outbox!Next]_Outbox!vars
<1>1. CASE UNCHANGED jobs
  BY <1>1 DEF outboxVars, Outbox!vars, Queued
<1>2. ASSUME NEW t \in Txns, NEW job \in Jobs, jobs' = [jobs EXCEPT ![t] = job],
             jobs[t].state # "absent", job.state # "absent"
      PROVE  UNCHANGED Outbox!vars
  <2>1. Queued' = Queued
    BY <1>2 DEF Queued, TypeOK
  <2> QED BY <2>1 DEF outboxVars, Outbox!vars
<1>3. ASSUME NEW t \in Txns, jobs[t].state # "absent", jobs' = [jobs EXCEPT ![t] = NoJob]
      PROVE  Outbox!JobCompletes(t)
  <2>1. t \in Queued /\ Queued' = Queued \ {t}
    BY <1>3 DEF Queued, TypeOK, NoJob
  <2> QED BY <2>1 DEF outboxVars, Outbox!JobCompletes
<1> QED BY <1>1, <1>2, <1>3 DEF QueueMoves, Outbox!Next

-----------------------------------------------------------------------------
(* What the outbox does to its events *)

OutboxTypeOK ==
    /\ events \in [Txns -> Outbox!EventRows]
    /\ passes \in [Processors -> Outbox!PassStages]
    /\ todo \in [Processors -> SUBSET Txns]
    /\ \A p \in Processors : passes[p] \in {"adding", "marking", "reverting"} => todo[p] # {}

LEMMA EventFields ==
    ASSUME NEW row \in Outbox!EventRows
    PROVE  /\ Outbox!RecoveredEvent(row) \in Outbox!EventRows
           /\ Outbox!RecoveredEvent(row).status \in {"PENDING", "OUTBOX_FAILED"}
           /\ Outbox!ClaimedEvent(row) \in Outbox!EventRows
           /\ Outbox!ClaimedEvent(row).status = "PROCESSING"
           /\ Outbox!SentEvent(row) \in Outbox!EventRows
           /\ Outbox!SentEvent(row).status = "SENT"
           /\ Outbox!RevertedEvent(row) \in Outbox!EventRows
           /\ Outbox!RevertedEvent(row).status = "PENDING"
<1>1. /\ row.recoveryCount + 1 \in Nat /\ row.claimCount + 1 \in Nat
      /\ row.attempts + 1 \in Nat
  BY DEF Outbox!EventRows
<1>2. (IF row.recoveryCount + 1 >= MaxRecoveries THEN "OUTBOX_FAILED" ELSE "PENDING")
         \in {"PENDING", "OUTBOX_FAILED"}
  OBVIOUS
<1>3. /\ Outbox!RecoveredEvent(row) \in Outbox!EventRows
      /\ Outbox!RecoveredEvent(row).status \in {"PENDING", "OUTBOX_FAILED"}
  BY <1>1, <1>2 DEF Outbox!EventRows, Outbox!EventStatuses, Outbox!RecoveredEvent
<1>4. /\ Outbox!ClaimedEvent(row) \in Outbox!EventRows
      /\ Outbox!ClaimedEvent(row).status = "PROCESSING"
  BY <1>1 DEF Outbox!EventRows, Outbox!EventStatuses, Outbox!ClaimedEvent
<1>5. /\ Outbox!SentEvent(row) \in Outbox!EventRows
      /\ Outbox!SentEvent(row).status = "SENT"
      /\ Outbox!RevertedEvent(row) \in Outbox!EventRows
      /\ Outbox!RevertedEvent(row).status = "PENDING"
  BY <1>1 DEF Outbox!EventRows, Outbox!EventStatuses, Outbox!SentEvent, Outbox!RevertedEvent
<1> QED BY <1>3, <1>4, <1>5

LEMMA CurrentIsTxn ==
    ASSUME OutboxTypeOK, NEW p \in Processors,
           passes[p] \in {"adding", "marking", "reverting"}
    PROVE  Outbox!Current(p) \in todo[p] /\ Outbox!Current(p) \in Txns
<1>1. todo[p] \in SUBSET Txns /\ todo[p] # {}
  BY DEF OutboxTypeOK
<1>2. PICK t \in todo[p] : \A u \in todo[p] : t <= u
  BY <1>1, TxnsAssumption
<1>3. Outbox!Current(p) \in todo[p]
  BY <1>2 DEF Outbox!Current
<1> QED BY <1>1, <1>3

\* A process that has an event in hand writes its row by id alone.
Writes(p, t) == passes[p] \in {"marking", "reverting"} /\ t = Outbox!Current(p)

\* What a step of the outbox does to one event.
EventStep(t) ==
    \/ events'[t] = events[t]
    \/ Outbox!Accept(t) /\ events'[t].status = "PENDING"
    \/ /\ events[t].status \in {"PENDING", "PROCESSING"}
       /\ events'[t].status \in {"PENDING", "PROCESSING", "OUTBOX_FAILED"}
    \/ \E p \in Processors : Writes(p, t) /\ events'[t].status = "PENDING"
    \/ \E p \in Processors :
          passes[p] = "marking" /\ Writes(p, t) /\ events'[t].status = "SENT"

LEMMA EventSteps ==
    ASSUME OutboxTypeOK, [Outbox!Next]_Outbox!vars
    PROVE  events' \in [Txns -> Outbox!EventRows] /\ \A t \in Txns : EventStep(t)
<1> DEFINE Goal == events' \in [Txns -> Outbox!EventRows] /\ \A t \in Txns : EventStep(t)
<1> USE DEF OutboxTypeOK
<1>1. CASE UNCHANGED events
  BY <1>1 DEF EventStep
<1>2. ASSUME NEW e \in Txns, Outbox!Accept(e) PROVE Goal
  <2>1. [events[e] EXCEPT !.status = "PENDING"] \in Outbox!EventRows
    BY DEF Outbox!EventRows, Outbox!EventStatuses
  <2> QED BY <1>2, <2>1 DEF Outbox!Accept, Outbox!EventRows, EventStep
<1>3. ASSUME NEW e \in Txns, Outbox!GrowsStale(e) PROVE Goal
  <2>1. [events[e] EXCEPT !.stale = TRUE] \in Outbox!EventRows
    BY DEF Outbox!EventRows
  <2> QED BY <1>3, <2>1 DEF Outbox!GrowsStale, Outbox!EventRows, EventStep
<1>4. ASSUME events' = [e \in Txns |-> IF Outbox!Stale(events[e])
                                       THEN Outbox!RecoveredEvent(events[e]) ELSE events[e]]
      PROVE  Goal
  BY <1>4, EventFields DEF Outbox!Stale, EventStep
<1>5. ASSUME NEW batch \in SUBSET Outbox!Pending, Outbox!ClaimRows(batch) PROVE Goal
  BY <1>5, EventFields DEF Outbox!ClaimRows, Outbox!Pending, EventStep
<1>6. ASSUME NEW p \in Processors, passes[p] = "marking",
             Outbox!Write(Outbox!Current(p), Outbox!SentEvent(events[Outbox!Current(p)]))
      PROVE  Goal
  <2>1. Outbox!Current(p) \in Txns
    BY <1>6, CurrentIsTxn
  <2> QED BY <1>6, <2>1, EventFields DEF Outbox!Write, Writes, EventStep
<1>7. ASSUME NEW p \in Processors, passes[p] = "reverting",
             Outbox!Write(Outbox!Current(p), Outbox!RevertedEvent(events[Outbox!Current(p)]))
      PROVE  Goal
  <2>1. Outbox!Current(p) \in Txns
    BY <1>7, CurrentIsTxn
  <2> QED BY <1>7, <2>1, EventFields DEF Outbox!Write, Writes, EventStep
<1>8. ASSUME NEW p \in Processors, Outbox!Pass(p) PROVE Goal
  BY <1>1, <1>4, <1>5, <1>6, <1>7, <1>8
  DEF Outbox!Pass, Outbox!Recover, Outbox!Claim, Outbox!Add, Outbox!MarkSent, Outbox!Revert
<1>9. ASSUME NEW p \in Processors, Outbox!Fault(p) PROVE Goal
  BY <1>1, <1>4, <1>5, <1>6, <1>7, <1>9
  DEF Outbox!Fault, Outbox!RecoverFails, Outbox!ClaimFails, Outbox!AddFails,
      Outbox!MarkSentFails, Outbox!RevertFails, Outbox!Crash
<1> QED
  BY <1>1, <1>2, <1>3, <1>8, <1>9 DEF Outbox!Next, Outbox!JobCompletes, Outbox!vars

\* What a step of the outbox does to the batch of one process.
BatchStep(p) ==
    \/ passes'[p] = passes[p] /\ todo'[p] = todo[p]
    \/ passes'[p] \in {"idle", "dead"} /\ todo'[p] = {}
    \/ passes'[p] = "claiming" /\ todo'[p] = todo[p]
    \/ passes'[p] = "adding" /\ todo'[p] # {} /\ todo'[p] \subseteq Outbox!Pending
    \/ passes'[p] = "adding" /\ todo'[p] # {} /\ todo'[p] \subseteq todo[p]
    \/ Outbox!Add(p) /\ passes'[p] = "marking" /\ todo'[p] = todo[p]
    \/ /\ passes[p] \in {"adding", "marking"} /\ passes'[p] = "reverting"
       /\ todo'[p] = todo[p]

LEMMA BatchSteps ==
    ASSUME OutboxTypeOK, [Outbox!Next]_Outbox!vars
    PROVE  /\ passes' \in [Processors -> Outbox!PassStages]
           /\ todo' \in [Processors -> SUBSET Txns]
           /\ \A p \in Processors : BatchStep(p)
<1> DEFINE Goal == /\ passes' \in [Processors -> Outbox!PassStages]
                   /\ todo' \in [Processors -> SUBSET Txns]
                   /\ \A p \in Processors : BatchStep(p)
<1> USE DEF OutboxTypeOK, Outbox!PassStages, Outbox!Goto
<1>1. CASE UNCHANGED <<passes, todo>>
  BY <1>1 DEF BatchStep
<1>2. ASSUME NEW q \in Processors, Outbox!Recover(q) PROVE Goal
  BY <1>2 DEF Outbox!Recover, BatchStep
<1>3. ASSUME NEW q \in Processors, Outbox!Claim(q) PROVE Goal
  <2>1. PICK batch \in SUBSET Outbox!Pending :
           /\ todo' = [todo EXCEPT ![q] = batch]
           /\ passes' = [passes EXCEPT ![q] = IF batch = {} THEN "idle" ELSE "adding"]
    BY <1>3 DEF Outbox!Claim
  <2>2. batch \in SUBSET Txns
    BY DEF Outbox!Pending
  <2> QED BY <2>1, <2>2 DEF BatchStep
<1>4. ASSUME NEW q \in Processors, Outbox!Add(q) PROVE Goal
  BY <1>4 DEF Outbox!Add, BatchStep
<1>5. ASSUME NEW q \in Processors, passes[q] \in {"adding", "marking"},
             Outbox!Goto(q, "reverting"), UNCHANGED todo
      PROVE  Goal
  BY <1>5 DEF BatchStep
<1>6. ASSUME NEW q \in Processors, passes[q] \in {"marking", "reverting"}, Outbox!Advance(q)
      PROVE  Goal
  <2>1. PICK e :
           /\ todo' = [todo EXCEPT ![q] = todo[q] \ {e}]
           /\ passes' = [passes EXCEPT ![q] = IF todo[q] = {e} THEN "idle" ELSE "adding"]
           /\ e = Outbox!Current(q)
    BY <1>6 DEF Outbox!Advance
  <2>2. CASE todo[q] \ {e} # {}
    BY <2>1, <2>2 DEF BatchStep
  <2>3. CASE todo[q] = {e}
    BY <2>1, <2>3 DEF BatchStep
  <2> QED BY <1>6, <2>2, <2>3
<1>7. ASSUME NEW q \in Processors, NEW stage \in {"idle", "dead"},
             Outbox!Goto(q, stage), todo' = [todo EXCEPT ![q] = {}]
      PROVE  Goal
  BY <1>7 DEF BatchStep
<1>8. ASSUME NEW q \in Processors, Outbox!Pass(q) PROVE Goal
  BY <1>2, <1>3, <1>4, <1>6, <1>8 DEF Outbox!Pass, Outbox!MarkSent, Outbox!Revert
<1>9. ASSUME NEW q \in Processors, Outbox!Fault(q) PROVE Goal
  BY <1>1, <1>5, <1>7, <1>9
  DEF Outbox!Fault, Outbox!RecoverFails, Outbox!ClaimFails, Outbox!AddFails,
      Outbox!MarkSentFails, Outbox!RevertFails, Outbox!Crash, Outbox!Abort
<1> QED
  BY <1>1, <1>8, <1>9
  DEF Outbox!Next, Outbox!Accept, Outbox!JobCompletes, Outbox!GrowsStale, Outbox!vars

LEMMA OutboxTypeStep ==
    ASSUME OutboxTypeOK, [Outbox!Next]_Outbox!vars
    PROVE  OutboxTypeOK'
<1>1. events' \in [Txns -> Outbox!EventRows]
  BY EventSteps DEF OutboxTypeOK
<1>2. ASSUME NEW p \in Processors
      PROVE  passes'[p] \in {"adding", "marking", "reverting"} => todo'[p] # {}
  BY BatchSteps DEF BatchStep, OutboxTypeOK, Outbox!Add
<1> QED BY <1>1, <1>2, BatchSteps DEF OutboxTypeOK

-----------------------------------------------------------------------------
(* The composition is made of the components *)

\* add() is a step of both, or of the outbox alone if the job is there already.
LEMMA SystemMoves ==
    ASSUME TypeOK, OutboxTypeOK, [SystemNext]_systemVars
    PROVE  [Next]_vars /\ [Outbox!Next]_Outbox!vars
<1>1. CASE WorkersStep
  BY <1>1, WorkersMoveOnly, CompletionIsJobCompletes
<1>2. ASSUME NEW p \in Processors, Add(p) \/ AddFails(p) PROVE [Next]_vars
  <2>1. Outbox!Current(p) \in Txns
    BY <1>2, CurrentIsTxn DEF Add, AddFails
  <2> QED BY <1>2, <2>1 DEF Add, AddFails, JobIsAdded, vars, Next
<1>3. ASSUME NEW p \in Processors, Pass(p)
      PROVE  [Next]_vars /\ [Outbox!Next]_Outbox!vars
  <2>1. [Next]_vars
    BY <1>2, <1>3 DEF Pass
  <2>2. Outbox!Pass(p)
    BY <1>3 DEF Pass, Add, Outbox!Pass
  <2> QED BY <2>1, <2>2 DEF Outbox!Next
<1>4. ASSUME NEW p \in Processors, OutboxFault(p)
      PROVE  [Next]_vars /\ [Outbox!Next]_Outbox!vars
  <2>1. [Next]_vars
    BY <1>2, <1>4 DEF OutboxFault
  <2>2. Outbox!Fault(p)
    BY <1>4 DEF OutboxFault, AddFails, Outbox!Fault
  <2> QED BY <2>1, <2>2 DEF Outbox!Next
<1>5. ASSUME NEW t \in Txns, Accept(t) \/ GrowsStale(t)
      PROVE  [Next]_vars /\ [Outbox!Next]_Outbox!vars
  BY <1>5 DEF Accept, GrowsStale, Outbox!Next
<1>6. CASE UNCHANGED systemVars
  BY <1>6 DEF systemVars, outboxVars, vars, Outbox!vars, Queued
<1> QED BY <1>1, <1>3, <1>4, <1>5, <1>6 DEF SystemNext, WorkersStep

LEMMA SystemTypes == SystemSpec => [](TypeOK /\ OutboxTypeOK)
<1>1. SystemInit => TypeOK /\ OutboxTypeOK
  BY InitTypeOK
  DEF SystemInit, Outbox!Init, Outbox!EventRows, Outbox!EventStatuses, Outbox!PassStages,
      OutboxTypeOK
<1>2. TypeOK /\ OutboxTypeOK /\ [SystemNext]_systemVars => (TypeOK /\ OutboxTypeOK)'
  BY SystemMoves, NextTypeOK, OutboxTypeStep
<1> QED BY <1>1, <1>2, PTL DEF SystemSpec

\* The system is a set of workers: what TransactionWorker leaves to its environment, a
\* job that is added while there is none of that id, is all that the outbox does
\* (outboxProcessor.js:124).
THEOREM SystemIsWorkers == SystemSpec => Spec
<1>1. SystemInit => Init
  BY DEF SystemInit
<1>2. TypeOK /\ OutboxTypeOK /\ [SystemNext]_systemVars => [Next]_vars
  BY SystemMoves
<1> QED BY <1>1, <1>2, SystemTypes, PTL DEF SystemSpec, Spec

\* The system is an outbox: what OutboxProcessor leaves to its environment, a job that
\* completes at any time, is all that the workers do to it (removeOnComplete).
THEOREM SystemIsAnOutbox == SystemSpec => Outbox!Spec
<1>1. SystemInit => Outbox!Init
  BY DEF SystemInit
<1>2. TypeOK /\ OutboxTypeOK /\ [SystemNext]_systemVars => [Outbox!Next]_Outbox!vars
  BY SystemMoves
<1> QED BY <1>1, <1>2, SystemTypes, PTL DEF SystemSpec, Outbox!Spec

-----------------------------------------------------------------------------
(* What the outbox hands over was accepted, and SENT was really added *)

HandedOver ==
    /\ \A p \in Processors : \A t \in todo[p] : Accepted(t)
    /\ \A t \in Txns : adds[t] > 0 => Accepted(t)
    /\ \A p \in Processors : passes[p] = "marking" => adds[Outbox!Current(p)] > 0
    /\ \A t \in Txns : events[t].status = "SENT" => adds[t] > 0

\* A job is counted for the payment some process is adding.
LEMMA HandedAddsSteps ==
    ASSUME TypeOK, OutboxTypeOK, [Outbox!Next]_Outbox!vars, NEW t \in Txns
    PROVE  \/ adds'[t] = adds[t]
           \/ /\ adds'[t] = adds[t] + 1
              /\ \E p \in Processors : passes[p] = "adding" /\ t = Outbox!Current(p)
<1>1. CASE UNCHANGED adds
  BY <1>1
<1>2. ASSUME NEW p \in Processors, passes[p] = "adding", Outbox!AddJob(Outbox!Current(p))
      PROVE  \/ adds'[t] = adds[t]
             \/ adds'[t] = adds[t] + 1 /\ t = Outbox!Current(p)
  <2>1. Outbox!Current(p) \in Txns
    BY <1>2, CurrentIsTxn
  <2> QED BY <1>2, <2>1 DEF Outbox!AddJob, TypeOK
<1>3. ASSUME NEW p \in Processors, Outbox!Pass(p)
      PROVE  UNCHANGED adds \/ (passes[p] = "adding" /\ Outbox!AddJob(Outbox!Current(p)))
  BY <1>3 DEF Outbox!Pass, Outbox!Recover, Outbox!Claim, Outbox!Add, Outbox!MarkSent, Outbox!Revert
<1>4. ASSUME NEW p \in Processors, Outbox!Fault(p)
      PROVE  UNCHANGED adds \/ (passes[p] = "adding" /\ Outbox!AddJob(Outbox!Current(p)))
  BY <1>4
  DEF Outbox!Fault, Outbox!RecoverFails, Outbox!ClaimFails, Outbox!AddFails,
      Outbox!MarkSentFails, Outbox!RevertFails, Outbox!Crash
<1> QED
  BY <1>1, <1>2, <1>3, <1>4
  DEF Outbox!Next, Outbox!Accept, Outbox!JobCompletes, Outbox!GrowsStale, Outbox!vars

\* add() finds a job only of a payment that was added before.
LEMMA AddIsCounted ==
    ASSUME TypeOK, OutboxTypeOK, UntouchedUntilAdded, NEW p \in Processors, Outbox!Add(p)
    PROVE  adds'[Outbox!Current(p)] > 0
<1>1. Outbox!Current(p) \in Txns
  BY CurrentIsTxn DEF Outbox!Add
<1> DEFINE t == Outbox!Current(p)
<1>2. CASE t \in Queued
  <2>1. adds[t] > 0
    BY <1>1, <1>2 DEF Queued, UntouchedUntilAdded, Untouched, NoJob, TypeOK
  <2> QED BY <1>2, <2>1 DEF Outbox!Add, Outbox!AddJob
<1>3. CASE t \notin Queued
  BY <1>1, <1>3 DEF Outbox!Add, Outbox!AddJob, TypeOK
<1> QED BY <1>2, <1>3

LEMMA AcceptedStays ==
    ASSUME OutboxTypeOK, [Outbox!Next]_Outbox!vars, NEW t \in Txns, Accepted(t)
    PROVE  Accepted(t)'
BY EventSteps DEF EventStep, Accepted, Outbox!Accept

LEMMA HandedOverStep ==
    ASSUME TypeOK, OutboxTypeOK, UntouchedUntilAdded, HandedOver,
           [Outbox!Next]_Outbox!vars
    PROVE  HandedOver'
<1>1. ASSUME NEW p \in Processors, NEW t \in todo'[p] PROVE Accepted(t)'
  <2>1. t \in Txns
    BY BatchSteps
  <2>2. t \in todo[p] \/ t \in Outbox!Pending
    BY BatchSteps DEF BatchStep
  <2>3. Accepted(t)
    BY <2>2 DEF HandedOver, Accepted, Outbox!Pending
  <2> QED BY <2>1, <2>3, AcceptedStays
<1>2. ASSUME NEW t \in Txns, adds'[t] > 0 PROVE Accepted(t)'
  <2>1. CASE adds'[t] = adds[t]
    BY <1>2, <2>1, AcceptedStays DEF HandedOver
  <2>2. ASSUME NEW p \in Processors, passes[p] = "adding", t = Outbox!Current(p)
        PROVE  Accepted(t)'
    BY <2>2, CurrentIsTxn, AcceptedStays DEF HandedOver
  <2> QED BY <2>1, <2>2, HandedAddsSteps
<1>3. ASSUME NEW t \in Txns, adds[t] > 0 PROVE adds'[t] > 0
  BY <1>3, HandedAddsSteps DEF TypeOK
<1>4. ASSUME NEW p \in Processors, passes'[p] = "marking"
      PROVE  adds'[Outbox!Current(p)'] > 0
  <2>1. todo'[p] = todo[p] /\ (passes[p] = "marking" \/ Outbox!Add(p))
    BY <1>4, BatchSteps DEF BatchStep
  <2>2. Outbox!Current(p)' = Outbox!Current(p)
    BY <2>1 DEF Outbox!Current
  <2>3. CASE passes[p] = "marking"
    BY <1>3, <2>2, <2>3, CurrentIsTxn DEF HandedOver
  <2>4. CASE Outbox!Add(p)
    BY <2>2, <2>4, AddIsCounted
  <2> QED BY <2>1, <2>3, <2>4
<1>5. ASSUME NEW t \in Txns, events'[t].status = "SENT" PROVE adds'[t] > 0
  <2>1. \/ events[t].status = "SENT"
        \/ \E p \in Processors : passes[p] = "marking" /\ t = Outbox!Current(p)
    BY <1>5, EventSteps DEF EventStep, Writes
  <2>2. adds[t] > 0
    BY <2>1 DEF HandedOver
  <2> QED BY <1>3, <2>2
<1> QED BY <1>1, <1>2, <1>3, <1>4, <1>5 DEF HandedOver

\* Everything that is known of the workers, and what the outbox adds to it.
SystemInv ==
    /\ TypeOK /\ LeaseColumnsAgree /\ DeadLetterInv /\ LossesInv /\ FaultsAreToBlame /\ Dropped
    /\ OutboxTypeOK /\ HandedOver

LEMMA SystemInvariant == SystemSpec => []SystemInv
<1>1. SystemInit => HandedOver
  BY DEF SystemInit, Init, Outbox!Init, HandedOver
<1>2. /\ TypeOK /\ LossesInv /\ OutboxTypeOK
      /\ HandedOver /\ [SystemNext]_systemVars
      => HandedOver'
  BY SystemMoves, HandedOverStep DEF LossesInv, FailuresInv
<1> QED
  BY <1>1, <1>2, SystemIsWorkers, SystemTypes, DroppedInvariant, PTL
  DEF SystemSpec, SystemInv

-----------------------------------------------------------------------------
(* Nothing is lost between the outbox and the queue *)

\* While no worker fails, an accepted payment that is not settled is in the outbox, in
\* the queue or before a failed handler, whatever happens to the outbox short of
\* giving the event up: SENT means that the job was added, and a job is let go of only
\* when its payment is settled (outboxProcessor.js:124-168,
\* transactionJobHandler.js:42-58).
THEOREM NeverForgottenCorrect == SystemSpec => []NeverForgotten
<1>1. SystemInv => NeverForgotten
  <2> SUFFICES ASSUME SystemInv, NEW t \in Txns, NoFault, Open(t),
                      events[t].status # "OUTBOX_FAILED", ~InPipeline(t)
               PROVE  FALSE
    BY DEF NeverForgotten
  <2>1. events[t].status \in Outbox!EventStatuses
    BY DEF SystemInv, OutboxTypeOK, Outbox!EventRows
  <2>2. events[t].status = "SENT"
    BY <2>1 DEF Outbox!EventStatuses, Open, Accepted, InPipeline
  <2>3. adds[t] > 0
    BY <2>2 DEF SystemInv, HandedOver
  <2>4. jobs[t].state \in {"absent", "failed"} /\ PendingFailures(t) = {}
    BY DEF InPipeline, SystemInv, TypeOK, Jobs, JobStates
  <2>5. Final(t)
    BY <2>3, <2>4 DEF SystemInv, Dropped
  <2> QED BY <2>5 DEF Open, Final
<1> QED BY <1>1, SystemInvariant, PTL

-----------------------------------------------------------------------------
(* The life of a payment, as the workers move it *)

\* What GET /status/:id shows of an accepted payment.
Shown(t) == IF Final(t) THEN txns[t].status ELSE "open"

\* A payment settles at its outcome; it fails, or is opened again, only if as many
\* faults happened as that takes.
LEMMA ShownSteps ==
    ASSUME TypeOK, DeadLetterInv, FailuresInv, FaultsAreToBlame, [Next]_vars,
           NEW t \in Txns, Shown(t)' # Shown(t)
    PROVE  \/ Shown(t) = "open" /\ Shown(t)' = Verdict[t]
           \/ Shown(t)' = "FAILED" /\ FaultsSoFar' >= MaxAttempts
           \/ Final(t) /\ Shown(t)' = "open" /\ FaultsSoFar' > 0
<1> USE DEF Shown, Final, FinalStatuses
<1>1. txns'[t].status # txns[t].status
  OBVIOUS
<1>2. CASE txns[t].status = "ACCEPTED" /\ txns'[t].status = "PROCESSING"
  BY <1>2
<1>3. CASE txns[t].status = "PROCESSING" /\ txns'[t].status \in {Verdict[t], "ACCEPTED"}
  BY <1>3, VerdictAssumption
<1>4. ASSUME NEW f \in failures, f.txn = t, ToBeRetried(f), txns'[t].status = "ACCEPTED"
      PROVE  Final(t) /\ Shown(t)' = "open" /\ FaultsSoFar' > 0
  <2>1. Final(t) /\ Shown(t)' = "open"
    BY <1>4
  <2>2. spent["dbErrors"] > 0 \/ spent["lates"] > 0 \/ Doomed(jobs[t])
    BY <1>1, <2>1, FinalChangesStep
  <2>3. spent["dbErrors"] > 0 \/ spent["lates"] > 0 => FaultsSoFar # 0
    BY FaultsSteps DEF NoFault, FaultKinds, TypeOK
  <2>4. Doomed(jobs[t]) => FaultsSoFar # 0
    <3>1. jobs[t].stalledCount \in Nat
      BY DEF TypeOK, Jobs
    <3>2. Doomed(jobs[t]) => jobs[t].stalledCount >= 1
      BY <3>1, MaxStalledCountAssumption DEF Doomed
    <3> QED BY <3>2, FaultsSteps DEF FaultsAreToBlame
  <2>5. FaultsSoFar' > 0
    BY <2>2, <2>3, <2>4, FaultsSteps
  <2> QED BY <2>1, <2>5
<1>5. ASSUME NEW f \in failures, f.txn = t, f.saved, txns'[t].status = "FAILED"
      PROVE  \/ Shown(t) = "open" /\ Shown(t)' = Verdict[t]
             \/ Shown(t)' = "FAILED" /\ FaultsSoFar' >= MaxAttempts
  <2>1. CASE Verdict[t] = "FAILED"
    <3>1. ~Final(t)
      BY <1>5, <2>1, <1>1 DEF FailuresInv, OutcomesRight
    <3> QED BY <1>5, <2>1, <3>1
  <2>2. CASE Verdict[t] # "FAILED"
    <3>1. f.attempts \in Nat /\ f.attempts >= MaxAttempts
      BY <1>5, MaxAttemptsAssumption
      DEF DeadLetterInv, HandlersAgree, ToBeRetried, TypeOK, Failures
    <3>2. f.attempts <= FaultsSoFar
      BY <1>5, <2>2 DEF FaultsAreToBlame
    <3>3. FaultsSoFar' >= MaxAttempts
      BY <3>1, <3>2, FaultsSteps, MaxAttemptsAssumption
    <3> QED BY <1>5, <3>3
  <2> QED BY <2>1, <2>2
<1> QED BY <1>1, <1>2, <1>3, <1>4, <1>5, StatusSteps

\* One statement shows at most one payment differently; recovery, which writes many
\* rows at once, writes only open ones.
LEMMA OneIsShownOtherwise ==
    ASSUME TypeOK, [Next]_vars, NEW t \in Txns, Shown(t)' # Shown(t),
           NEW u \in Txns, u # t
    PROVE  Shown(u)' = Shown(u)
<1>1. CASE Recover
  <2>1. \A v \in Txns :
           txns'[v] = txns[v] \/ (Abandoned(txns[v]) /\ txns'[v] = Recovered(txns[v]))
    BY <1>1 DEF Recover, TypeOK
  <2>2. \A v \in Txns :
           Abandoned(txns[v]) => ~Final(v) /\ Recovered(txns[v]).status \notin FinalStatuses
    BY DEF Abandoned, Recovered, WithoutLease, Final, FinalStatuses, TypeOK, Rows
  <2>3. Shown(t)' = Shown(t)
    BY <2>1, <2>2 DEF Shown, Final
  <2> QED BY <2>3
<1>2. ASSUME NEW v \in Txns, NEW row, txns' = [txns EXCEPT ![v] = row]
      PROVE  txns'[u] = txns[u] \/ txns'[t] = txns[t]
  BY <1>2 DEF TypeOK
<1>3. (\E v \in Txns : \E row : txns' = [txns EXCEPT ![v] = row]) \/ UNCHANGED txns \/ Recover
  <2> DEFINE OneRow == (\E v \in Txns : \E row : txns' = [txns EXCEPT ![v] = row]) \/ UNCHANGED txns
  <2>1. ASSUME NEW i \in Instances, Step(i) PROVE OneRow
    <3>1. CASE Claim(i)
      BY <3>1 DEF Claim, ClaimRow, TypeOK
    <3>2. CASE Finalize(i)
      BY <3>2 DEF Finalize, FinalizeRow, TypeOK
    <3> QED BY <2>1, <3>1, <3>2
        DEF Step, TakeJob, TakeDoomed, ReadTxn, ProcessorFails, CompleteJob, FailJob
  <2>2. ASSUME NEW i \in Instances, Heartbeat(i) PROVE OneRow
    BY <2>2 DEF Heartbeat, TypeOK
  <2>3. ASSUME NEW i \in Instances, QueryFails(i) PROVE OneRow
    BY <2>3 DEF QueryFails, ClaimRow, FinalizeRow, TypeOK
  <2>4. ASSUME NEW v \in Txns, Enqueue(v) \/ RetryDue(v) \/ Stall(v) \/ LeaseExpires(v)
        PROVE  OneRow
    BY <2>4 DEF Enqueue, RetryDue, Stall, LeaseExpires, TypeOK
  <2>5. ASSUME NEW f \in failures, Handle(f) \/ HandleRetryFails(f) \/ DeadLetterFails(f)
        PROVE  OneRow
    <3>1. f.txn \in Txns
      BY DEF TypeOK, Failures
    <3> QED BY <2>5, <3>1
        DEF Handle, HandleRetry, SaveDeadLetter, MarkFailed, HandleRetryFails, DeadLetterFails
  <2>6. ASSUME NEW i \in Instances, Crash(i) PROVE OneRow
    BY <2>6 DEF Crash
  <2>7. CASE UNCHANGED vars
    BY <2>7 DEF vars
  <2> QED BY <2>1, <2>2, <2>3, <2>4, <2>5, <2>6, <2>7 DEF Next, Fault
<1> QED BY <1>1, <1>2, <1>3 DEF Shown, Final

-----------------------------------------------------------------------------
(* The system implements the life of a payment *)

\* A step of the outbox shows no accepted payment differently.
LEMMA OutboxLeavesRows ==
    ASSUME [SystemNext]_systemVars, ~WorkersStep
    PROVE  UNCHANGED <<txns, spent>>
BY DEF SystemNext, WorkersStep, Accept, GrowsStale, Pass, Add, OutboxFault, AddFails,
   JobIsAdded, Enqueue, systemVars, vars

LEMMA AcceptedSteps ==
    ASSUME SystemInv, [SystemNext]_systemVars, NEW t \in Txns, Accepted(t)' # Accepted(t)
    PROVE  /\ ~WorkersStep /\ ~Accepted(t) /\ ~Final(t)
           /\ Accepted(t)'
           /\ \A u \in Txns \ {t} : events'[u] = events[u]
<1>1. [Outbox!Next]_Outbox!vars
  BY SystemMoves DEF SystemInv
<1>2. ~Accepted(t) /\ Accepted(t)'
  BY <1>1, AcceptedStays DEF SystemInv, Accepted
<1>3. Outbox!Accept(t)
  <2>1. ASSUME NEW p \in Processors, Writes(p, t) PROVE Accepted(t)
    BY <2>1, CurrentIsTxn DEF Writes, SystemInv, HandedOver
  <2> QED BY <1>1, <1>2, <2>1, EventSteps DEF EventStep, Accepted, SystemInv
<1>4. ~WorkersStep
  BY <1>2, WorkersMoveOnly DEF SystemInv, outboxVars, Accepted
<1>5. adds[t] = 0
  BY <1>2 DEF SystemInv, HandedOver, TypeOK
<1>6. ~Final(t)
  BY <1>5
  DEF SystemInv, LossesInv, FailuresInv, UntouchedUntilAdded, Untouched, AcceptedRow, Final,
      FinalStatuses
<1>7. \A u \in Txns \ {t} : events'[u] = events[u]
  BY <1>3 DEF Outbox!Accept, SystemInv, OutboxTypeOK
<1> QED BY <1>2, <1>4, <1>6, <1>7

\* At most one payment moves.
LEMMA OneMoves ==
    ASSUME SystemInv, [SystemNext]_systemVars, NEW t \in Txns,
           PaymentState(t)' # PaymentState(t), NEW s, s = PaymentState(t)'
    PROVE  Lifecycle!Become(t, s)
<1>1. [Next]_vars
  BY SystemMoves DEF SystemInv
<1>2. ASSUME NEW u \in Txns, u # t PROVE PaymentState(u)' = PaymentState(u)
  <2>1. CASE Accepted(t)' # Accepted(t)
    BY <1>2, <2>1, AcceptedSteps, OutboxLeavesRows DEF PaymentState, Accepted
  <2>2. CASE Accepted(t)' = Accepted(t)
    <3>1. Shown(t)' # Shown(t)
      BY <2>2 DEF PaymentState, Shown, Final
    <3>2. WorkersStep
      BY <3>1, OutboxLeavesRows DEF Shown, Final
    <3>3. Shown(u)' = Shown(u)
      BY <1>1, <1>2, <3>1, OneIsShownOtherwise DEF SystemInv
    <3>4. Accepted(u)' = Accepted(u)
      BY <3>2, WorkersMoveOnly DEF SystemInv, outboxVars, Accepted
    <3> QED BY <3>3, <3>4 DEF PaymentState, Shown, Final
  <2> QED BY <2>1, <2>2
<1> QED BY <1>2 DEF Lifecycle!Become

LEMMA LifecycleStep ==
    ASSUME SystemInv, [SystemNext]_systemVars
    PROVE  [Lifecycle!Next]_Lifecycle!vars
<1>1. [Next]_vars
  BY SystemMoves DEF SystemInv
<1>2. /\ FaultsSoFar = FaultsOfWorkers /\ FaultsSoFar' = FaultsOfWorkers'
      /\ FaultsOfWorkers' = FaultsOfWorkers \/ FaultsOfWorkers' = FaultsOfWorkers + 1
  BY <1>1, FaultsSteps DEF SystemInv, FaultsSoFar, FaultsOfWorkers
<1>3. CASE \A t \in Txns : PaymentState(t)' = PaymentState(t)
  BY <1>2, <1>3 DEF Lifecycle!Next, Lifecycle!Fault, Lifecycle!vars
<1>4. ASSUME NEW t \in Txns, PaymentState(t)' # PaymentState(t)
      PROVE  Lifecycle!Next
  <2>1. CASE Accepted(t)' # Accepted(t)
    <3>1. /\ PaymentState(t) = "none" /\ PaymentState(t)' = "open"
          /\ FaultsOfWorkers' = FaultsOfWorkers
      BY <2>1, AcceptedSteps, OutboxLeavesRows DEF PaymentState, Final, FaultsOfWorkers
    <3>2. Lifecycle!Become(t, "open")
      BY <1>4, <3>1, OneMoves
    <3> QED BY <3>1, <3>2 DEF Lifecycle!Next, Lifecycle!Accept
  <2>2. CASE Accepted(t)' = Accepted(t)
    <3>1. Accepted(t) /\ Accepted(t)' /\ Shown(t)' # Shown(t)
      BY <1>4, <2>2 DEF PaymentState, Shown, Final
    <3>2. PaymentState(t) = Shown(t) /\ PaymentState(t)' = Shown(t)'
      BY <3>1 DEF PaymentState, Shown, Final
    <3>3. Lifecycle!FaultOrNone
      BY <1>2 DEF Lifecycle!FaultOrNone
    <3>4. CASE Shown(t) = "open" /\ Shown(t)' = Verdict[t]
      <4>1. Lifecycle!Become(t, Verdict[t])
        BY <1>4, <3>2, <3>4, OneMoves
      <4> QED BY <3>2, <3>3, <3>4, <4>1 DEF Lifecycle!Next, Lifecycle!Settle
    <3>5. CASE Shown(t)' = "FAILED" /\ FaultsSoFar' >= MaxAttempts
      <4>1. Lifecycle!Become(t, "FAILED")
        BY <1>4, <3>2, <3>5, OneMoves
      <4>2. PaymentState(t) # "none"
        BY <3>2 DEF Shown, Final, FinalStatuses
      <4> QED BY <1>2, <3>3, <3>5, <4>1, <4>2 DEF Lifecycle!Next, Lifecycle!Fail
    <3>6. CASE Final(t) /\ Shown(t)' = "open" /\ FaultsSoFar' > 0
      <4>1. Lifecycle!Become(t, "open")
        BY <1>4, <3>2, <3>6, OneMoves
      <4>2. PaymentState(t) \in Lifecycle!Outcomes
        BY <3>2, <3>6 DEF Shown, Final, FinalStatuses, Lifecycle!Outcomes
      <4> QED BY <1>2, <3>3, <3>6, <4>1, <4>2 DEF Lifecycle!Next, Lifecycle!Reopen
    <3> QED BY <1>1, <3>1, <3>4, <3>5, <3>6, ShownSteps DEF SystemInv, LossesInv
  <2> QED BY <2>1, <2>2
<1> QED BY <1>3, <1>4

\* The system implements the life of a payment, PaymentLifecycle: whatever the outbox
\* does or fails to do, and however often a job is delivered, a payment settles at what
\* the business rules say of it, and only faults of workers, as many as an attempt each,
\* fail it or open it again (transactionWorker.js:37-60, store.js:193).
THEOREM FollowsLifecycleCorrect == SystemSpec => FollowsLifecycle
<1>1. SystemInit => Lifecycle!Init
  BY
  DEF SystemInit, Init, FaultKinds, Outbox!Init, Lifecycle!Init, PaymentState, Accepted,
      FaultsOfWorkers
<1>2. SystemInv /\ [SystemNext]_systemVars => [Lifecycle!Next]_Lifecycle!vars
  BY LifecycleStep
<1> QED
  BY <1>1, <1>2, SystemInvariant, PTL DEF SystemSpec, FollowsLifecycle, Lifecycle!Spec
=============================================================================
