-------------------------- MODULE OutboxProcessor ---------------------------
(***************************************************************************)
(* The outbox processes of payment-sim: outbox/outboxProcessor.js run by   *)
(* outbox.js.  A pass recovers stale events, claims a batch of PENDING     *)
(* ones and adds a job for each.  Passes of one process never overlap (the *)
(* running flag, line 176); any number of processes may run.               *)
(*                                                                         *)
(* locked_by is written by every statement and read by none of them except *)
(* for logging, so a row does not keep it: which process has an event in   *)
(* hand is known to the process alone (todo).                              *)
(***************************************************************************)
EXTENDS Naturals, FiniteSets

CONSTANTS
    Events,             \* outbox_events.id, in insertion order; one per transaction
    Processors,         \* runs of outbox.js; a restart is another element
    BatchSize,          \* claimOutboxEvents(10)
    MaxRecoveries,      \* OUTBOX_MAX_RECOVERIES: 3
    MaxCrashes,         \* bound: processes that die
    MaxSlow,            \* bound: events that go stale while a process has them in hand
    MaxRedisErrors,     \* bound: add() calls that raise
    MaxDbErrors         \* bound: statements that raise

\* Ids are numbers, so that every set of them has a first one.
ASSUME EventsAssumption ==
    /\ Events \subseteq Nat
    /\ \A S \in SUBSET Events : S # {} => \E e \in S : \A f \in S : e <= f
ASSUME BatchSizeAssumption == BatchSize \in Nat \ {0}
ASSUME MaxRecoveriesAssumption == MaxRecoveries \in Nat \ {0}
ASSUME OutboxBoundsAssumption ==
    /\ MaxCrashes \in Nat /\ MaxSlow \in Nat
    /\ MaxRedisErrors \in Nat /\ MaxDbErrors \in Nat

VARIABLES
    events,         \* outbox_events: Events -> EventRows
    queued,         \* events whose job is in the queue
    pc,             \* where each process is in its pass
    todo,           \* events of its batch each process has not finished
    added,          \* history: times the job of each event was really added
    spent           \* history: faults that happened, by kind

vars == <<events, queued, pc, todo, added, spent>>

EventStatuses == {"absent", "PENDING", "PROCESSING", "SENT", "OUTBOX_FAILED"}

\* stale: claimed_at is older than OUTBOX_STALE_TIMEOUT_MS.  "absent": the
\* transaction is not accepted yet.
EventRows == [status: EventStatuses, stale: BOOLEAN,
              claimCount: Nat, recoveryCount: Nat, attempts: Nat]

\* idle: between two passes; claiming: stale events are recovered; adding,
\* marking, reverting: at the call of line 124, 139 or 156 for the next event.
PassStages == {"idle", "claiming", "adding", "marking", "reverting", "dead"}

FaultKinds == {"crashes", "slow", "redisErrors", "dbErrors"}

TypeOK ==
    /\ events \in [Events -> EventRows]
    /\ queued \subseteq Events
    /\ pc \in [Processors -> PassStages]
    /\ todo \in [Processors -> SUBSET Events]
    /\ added \in [Events -> Nat]
    /\ spent \in [FaultKinds -> Nat]
    /\ \A p \in Processors :
          (todo[p] # {}) <=> (pc[p] \in {"adding", "marking", "reverting"})

Init ==
    /\ events = [e \in Events |-> [status |-> "absent", stale |-> FALSE,
                                   claimCount |-> 0, recoveryCount |-> 0, attempts |-> 0]]
    /\ queued = {}
    /\ pc = [p \in Processors |-> "idle"]
    /\ todo = [p \in Processors |-> {}]
    /\ added = [e \in Events |-> 0]
    /\ spent = [k \in FaultKinds |-> 0]

Bound(kind) ==
    CASE kind = "crashes"     -> MaxCrashes
      [] kind = "slow"        -> MaxSlow
      [] kind = "redisErrors" -> MaxRedisErrors
      [] kind = "dbErrors"    -> MaxDbErrors

Spend(kind) ==
    /\ spent[kind] < Bound(kind)
    /\ spent' = [spent EXCEPT ![kind] = @ + 1]

Goto(p, stage) == pc' = [pc EXCEPT ![p] = stage]

\* result.rows is in id order, and the loop takes it from the front.
Current(p) == CHOOSE e \in todo[p] : \A f \in todo[p] : e <= f

InHand(e) == {p \in Processors : e \in todo[p]}

-----------------------------------------------------------------------------
(* What the statements do to an event *)

\* Mutants of Stale: the age of the claim is not looked at; the wrong status is.
StaleAtOnce(event) == event.status = "PROCESSING"

StalePending(event) == event.status = "PENDING" /\ event.stale

Stale(event) == event.status = "PROCESSING" /\ event.stale

\* Mutant of RecoveredEvent: the comparison of line 27 is off by one.
RecoveredOnceLess(event) ==
    [event EXCEPT
        !.status = IF event.recoveryCount + 2 >= MaxRecoveries THEN "OUTBOX_FAILED" ELSE "PENDING",
        !.stale = FALSE,
        !.recoveryCount = @ + 1]

RecoveredEvent(event) ==
    [event EXCEPT
        !.status = IF event.recoveryCount + 1 >= MaxRecoveries THEN "OUTBOX_FAILED" ELSE "PENDING",
        !.stale = FALSE,
        !.recoveryCount = @ + 1]

ClaimedEvent(event) ==
    [event EXCEPT !.status = "PROCESSING", !.stale = FALSE, !.claimCount = @ + 1]

\* Lines 139-150 and 156-168: WHERE id only, whatever became of the claim.
SentEvent(event) ==
    [event EXCEPT !.status = "SENT", !.stale = FALSE, !.attempts = @ + 1]

RevertedEvent(event) ==
    [event EXCEPT !.status = "PENDING", !.stale = FALSE, !.attempts = @ + 1]

-----------------------------------------------------------------------------
(* The environment: transactions are accepted, jobs come to an end *)

Accept(e) ==
    /\ events[e].status = "absent"
    /\ events' = [events EXCEPT ![e].status = "PENDING"]
    /\ UNCHANGED <<queued, pc, todo, added, spent>>

\* removeOnComplete: true makes room for another job of the same id.
JobCompletes(e) ==
    /\ e \in queued
    /\ queued' = queued \ {e}
    /\ UNCHANGED <<events, pc, todo, added, spent>>

-----------------------------------------------------------------------------
(* One pass: processOutboxEvents *)

Recover(p) ==
    /\ pc[p] = "idle"
    /\ events' = [e \in Events |->
                    IF Stale(events[e]) THEN RecoveredEvent(events[e]) ELSE events[e]]
    /\ Goto(p, "claiming")
    /\ UNCHANGED <<queued, todo, added, spent>>

Pending == {e \in Events : events[e].status = "PENDING"}

\* ORDER BY id LIMIT BatchSize FOR UPDATE SKIP LOCKED, then the update, in one
\* database transaction: two processes never pick the same row.
IsBatch(batch) ==
    /\ batch \subseteq Pending
    /\ \A e \in batch, f \in Pending \ batch : e < f
    /\ Cardinality(batch) <= BatchSize
    /\ Cardinality(batch) < BatchSize => batch = Pending

\* Mutant of ClaimRows: claimed rows are left PENDING, for others to pick.
ClaimRowsUnmarked(batch) ==
    events' = [e \in Events |->
                 IF e \in batch THEN [events[e] EXCEPT !.claimCount = @ + 1] ELSE events[e]]

ClaimRows(batch) ==
    events' = [e \in Events |->
                 IF e \in batch THEN ClaimedEvent(events[e]) ELSE events[e]]

Claim(p) ==
    /\ pc[p] = "claiming"
    /\ \E batch \in SUBSET Pending :
          /\ IsBatch(batch)
          /\ ClaimRows(batch)
          /\ todo' = [todo EXCEPT ![p] = batch]
          /\ Goto(p, IF batch = {} THEN "idle" ELSE "adding")
    /\ UNCHANGED <<queued, added, spent>>

\* add() changes nothing while a job of that id exists.
AddJob(e) ==
    /\ queued' = queued \cup {e}
    /\ added' = IF e \in queued THEN added ELSE [added EXCEPT ![e] = @ + 1]

Add(p) ==
    /\ pc[p] = "adding"
    /\ AddJob(Current(p))
    /\ Goto(p, "marking")
    /\ UNCHANGED <<events, todo, spent>>

\* Process p is done with its current event and takes the next one, if any.
Advance(p) ==
    /\ todo' = [todo EXCEPT ![p] = @ \ {Current(p)}]
    /\ Goto(p, IF todo[p] = {Current(p)} THEN "idle" ELSE "adding")

Write(e, row) == events' = [events EXCEPT ![e] = row]

MarkSent(p) ==
    /\ pc[p] = "marking"
    /\ Write(Current(p), SentEvent(events[Current(p)]))
    /\ Advance(p)
    /\ UNCHANGED <<queued, added, spent>>

Revert(p) ==
    /\ pc[p] = "reverting"
    /\ Write(Current(p), RevertedEvent(events[Current(p)]))
    /\ Advance(p)
    /\ UNCHANGED <<queued, added, spent>>

-----------------------------------------------------------------------------
(* Faults.  A call that raises was not executed, or was and its answer is  *)
(* lost.  (A recovery that was not executed changes nothing at all.)       *)

\* The pass is over; what was claimed and not finished stays PROCESSING.
Abort(p) ==
    /\ Goto(p, "idle")
    /\ todo' = [todo EXCEPT ![p] = {}]

RecoverFails(p) ==
    /\ pc[p] = "idle"
    /\ Spend("dbErrors")
    /\ events' = [e \in Events |->
                    IF Stale(events[e]) THEN RecoveredEvent(events[e]) ELSE events[e]]
    /\ UNCHANGED <<queued, pc, todo, added>>

ClaimFails(p) ==
    /\ pc[p] = "claiming"
    /\ Spend("dbErrors")
    /\ \/ UNCHANGED events
       \/ \E batch \in SUBSET Pending : IsBatch(batch) /\ ClaimRows(batch)
    /\ Abort(p)
    /\ UNCHANGED <<queued, added>>

\* Mutant of AddFails: the rejected add() is not awaited and nobody notices.
AddFailsUnnoticed(p) ==
    /\ pc[p] = "adding"
    /\ Spend("redisErrors")
    /\ AddJob(Current(p)) \/ UNCHANGED <<queued, added>>
    /\ Goto(p, "marking")
    /\ UNCHANGED <<events, todo>>

AddFails(p) ==
    /\ pc[p] = "adding"
    /\ Spend("redisErrors")
    /\ AddJob(Current(p)) \/ UNCHANGED <<queued, added>>
    /\ Goto(p, "reverting")
    /\ UNCHANGED <<events, todo>>

MarkSentFails(p) ==
    /\ pc[p] = "marking"
    /\ Spend("dbErrors")
    /\ Write(Current(p), SentEvent(events[Current(p)])) \/ UNCHANGED events
    /\ Goto(p, "reverting")
    /\ UNCHANGED <<queued, todo, added>>

\* Thrown inside the catch: it leaves the loop and the rest of the batch.
RevertFails(p) ==
    /\ pc[p] = "reverting"
    /\ Spend("dbErrors")
    /\ Write(Current(p), RevertedEvent(events[Current(p)])) \/ UNCHANGED events
    /\ Abort(p)
    /\ UNCHANGED <<queued, added>>

Crash(p) ==
    /\ pc[p] # "dead"
    /\ Spend("crashes")
    /\ Goto(p, "dead")
    /\ todo' = [todo EXCEPT ![p] = {}]
    /\ UNCHANGED <<events, queued, added>>

\* The claim reaches OUTBOX_STALE_TIMEOUT_MS: for sure when nobody has the event
\* in hand, and also under a process that is slow with its batch.
GrowsStale(e) ==
    /\ events[e].status = "PROCESSING"
    /\ ~events[e].stale
    /\ IF InHand(e) = {} THEN UNCHANGED spent ELSE Spend("slow")
    /\ events' = [events EXCEPT ![e].stale = TRUE]
    /\ UNCHANGED <<queued, pc, todo, added>>

-----------------------------------------------------------------------------
Pass(p) == Recover(p) \/ Claim(p) \/ Add(p) \/ MarkSent(p) \/ Revert(p)

Fault(p) ==
    \/ RecoverFails(p) \/ ClaimFails(p) \/ AddFails(p) \/ MarkSentFails(p)
    \/ RevertFails(p) \/ Crash(p)

Next ==
    \/ \E e \in Events : Accept(e) \/ JobCompletes(e) \/ GrowsStale(e)
    \/ \E p \in Processors : Pass(p) \/ Fault(p)

Spec == Init /\ [][Next]_vars

\* The interval of line 178 fires for ever, and a claim nobody works on ages.
Fairness ==
    /\ \A p \in Processors : WF_vars(Pass(p))
    /\ \A e \in Events : WF_vars(GrowsStale(e) /\ InHand(e) = {})

FairSpec == Spec /\ Fairness

-----------------------------------------------------------------------------
(* Safety *)

Faults == spent["crashes"] + spent["slow"] + spent["redisErrors"] + spent["dbErrors"]

\* About to mark an event SENT, its job was added (lines 124-139).
MarkingFollowsAdd == \A p \in Processors : pc[p] = "marking" => added[Current(p)] > 0

\* An event is SENT only after its job was in the queue, in whatever order the
\* processes that had it in hand wrote the row (lines 124-150).
SentMeansAdded == \A e \in Events : events[e].status = "SENT" => added[e] > 0

\* What a process relies on for an event it has in hand: the claim it made, or the
\* SENT it wrote itself without hearing so.
Held(p, e) ==
    /\ ~events[e].stale
    /\ \/ events[e].status = "PROCESSING"
       \/ events[e].status = "SENT" /\ pc[p] = "reverting" /\ e = Current(p)

\* Before any claim goes stale under its process, every event in hand is held.
HandsHoldClaims ==
    spent["slow"] = 0 => \A p \in Processors : \A e \in todo[p] : Held(p, e)

\* README.md:62 "Outbox claiming with FOR UPDATE SKIP LOCKED": two processes have
\* the same event in hand only after one was so slow that its claim went stale.
OneProcessPerEvent ==
    \A e \in Events, p, q \in Processors :
        p # q /\ e \in todo[p] \cap todo[q] => spent["slow"] > 0

\* The three counters of a row tell its story: each claim after the first follows
\* a counted recovery or a counted attempt, so claim_count cannot run away from
\* recovery_count, which OUTBOX_FAILED limits (lines 27, 100, 143, 160).
ClaimsAreAccounted ==
    \A e \in Events :
        events[e].claimCount <= events[e].recoveryCount + events[e].attempts
            + (IF events[e].status = "PROCESSING" THEN 1 ELSE 0)

\* An event is given up, which may strand its transaction as ACCEPTED, only after as
\* many faults as OUTBOX_MAX_RECOVERIES: no fault is counted twice (line 27).
GivenUpForCauseOnly ==
    \A e \in Events : events[e].status = "OUTBOX_FAILED" => Faults >= MaxRecoveries

\* Delivery repeats itself for cause only: whatever was recovered, reverted, claimed by
\* two processes or cut short with the rest of its batch, a job is added at most once
\* more for each fault (lines 18-52, 118-168).
AddedAgainForCauseOnly == \A e \in Events : added[e] <= 1 + Faults

\* A settled event is opened again only by a process whose claim went stale, which
\* writes the row by id alone (lines 147, 165), or, if it was SENT, by its own
\* process that did not get the answer.
SettledReopensOnlyAfterFault ==
    [][\A e \in Events :
          events[e].status \in {"SENT", "OUTBOX_FAILED"} /\ events'[e].status # events[e].status
              => \/ spent["slow"] > 0
                 \/ events[e].status = "SENT" /\ spent["dbErrors"] > 0]_vars

-----------------------------------------------------------------------------
(* Liveness, under FairSpec *)

\* Every accepted transaction's event comes to rest, SENT or given up, whatever
\* happens to the processes as long as one is left.
EveryEventSettles ==
    \A e \in Events :
        [](events[e].status # "absent"
              => <>[](events[e].status \in {"SENT", "OUTBOX_FAILED"}))

=============================================================================
