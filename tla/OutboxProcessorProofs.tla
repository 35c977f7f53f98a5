----------------------- MODULE OutboxProcessorProofs ------------------------
(* Theorems about OutboxProcessor, for every value of its constants. *)
EXTENDS OutboxProcessor, FiniteSetTheorems, TLAPS

-----------------------------------------------------------------------------
(* The event a process works on, and what the statements do to a row *)

LEMMA CurrentInTodo ==
    ASSUME TypeOK, NEW p \in Processors, todo[p] # {}
    PROVE  Current(p) \in todo[p] /\ Current(p) \in Events
<1>1. todo[p] \in SUBSET Events
  BY DEF TypeOK
<1>2. PICK e \in todo[p] : \A f \in todo[p] : e <= f
  BY <1>1, EventsAssumption
<1>3. Current(p) \in todo[p]
  BY <1>2 DEF Current
<1> QED BY <1>1, <1>3

LEMMA EventRowTypes ==
    ASSUME NEW row \in EventRows
    PROVE  /\ RecoveredEvent(row) \in EventRows
           /\ ClaimedEvent(row) \in EventRows
           /\ SentEvent(row) \in EventRows
           /\ RevertedEvent(row) \in EventRows
           /\ [row EXCEPT !.status = "PENDING"] \in EventRows
           /\ [row EXCEPT !.stale = TRUE] \in EventRows
<1>1. /\ row.recoveryCount + 1 \in Nat /\ row.claimCount + 1 \in Nat
      /\ row.attempts + 1 \in Nat
  BY DEF EventRows
<1>2. (IF row.recoveryCount + 1 >= MaxRecoveries THEN "OUTBOX_FAILED" ELSE "PENDING")
         \in EventStatuses
  BY DEF EventStatuses
<1>3. RecoveredEvent(row) \in EventRows
  BY <1>1, <1>2 DEF EventRows, RecoveredEvent
<1>4. ClaimedEvent(row) \in EventRows
  BY <1>1 DEF EventRows, EventStatuses, ClaimedEvent
<1>5. SentEvent(row) \in EventRows /\ RevertedEvent(row) \in EventRows
  BY <1>1 DEF EventRows, EventStatuses, SentEvent, RevertedEvent
<1>6. /\ [row EXCEPT !.status = "PENDING"] \in EventRows
      /\ [row EXCEPT !.stale = TRUE] \in EventRows
  BY DEF EventRows, EventStatuses
<1> QED BY <1>3, <1>4, <1>5, <1>6

LEMMA SpentTypes ==
    ASSUME TypeOK, NEW kind \in FaultKinds, Spend(kind) \/ UNCHANGED spent
    PROVE  spent' \in [FaultKinds -> Nat]
BY DEF TypeOK, Spend

\* Adding a job for the current event.
LEMMA AddTypes ==
    ASSUME TypeOK, NEW e \in Events, AddJob(e) \/ UNCHANGED <<queued, added>>
    PROVE  queued' \subseteq Events /\ added' \in [Events -> Nat]
BY DEF TypeOK, AddJob

\* Going on to the next event of the batch, or ending the pass.
LEMMA AdvanceTypes ==
    ASSUME TypeOK, NEW p \in Processors, todo[p] # {}, Advance(p)
    PROVE  /\ pc' \in [Processors -> PassStages]
           /\ todo' \in [Processors -> SUBSET Events]
           /\ \A q \in Processors :
                 (todo'[q] # {}) <=> (pc'[q] \in {"adding", "marking", "reverting"})
BY DEF TypeOK, Advance, Goto, PassStages

LEMMA AbortTypes ==
    ASSUME TypeOK, NEW p \in Processors, NEW stage \in {"idle", "dead"},
           Goto(p, stage), todo' = [todo EXCEPT ![p] = {}]
    PROVE  /\ pc' \in [Processors -> PassStages]
           /\ todo' \in [Processors -> SUBSET Events]
           /\ \A q \in Processors :
                 (todo'[q] # {}) <=> (pc'[q] \in {"adding", "marking", "reverting"})
BY DEF TypeOK, Goto, PassStages

LEMMA WriteTypes ==
    ASSUME TypeOK, NEW e \in Events, NEW row \in EventRows,
           Write(e, row) \/ UNCHANGED events
    PROVE  events' \in [Events -> EventRows]
BY DEF TypeOK, Write

-----------------------------------------------------------------------------
(* Type correctness *)

LEMMA InitTypeOK == Init => TypeOK
BY DEF Init, TypeOK, EventRows, EventStatuses, PassStages

LEMMA NextTypeOK == TypeOK /\ [Next]_vars => TypeOK'
<1> SUFFICES ASSUME TypeOK, [Next]_vars
             PROVE  TypeOK'
  OBVIOUS
<1> USE DEF FaultKinds
<1>a. ASSUME NEW batch \in SUBSET Events, ClaimRows(batch) PROVE events' \in [Events -> EventRows]
  BY <1>a, EventRowTypes DEF TypeOK, ClaimRows
<1>b. ASSUME NEW p \in Processors, pc[p] \in {"adding", "marking", "reverting"}
      PROVE  todo[p] # {} /\ Current(p) \in Events /\ events[Current(p)] \in EventRows
  BY <1>b, CurrentInTodo DEF TypeOK
<1>1. ASSUME NEW e \in Events, Accept(e) PROVE TypeOK'
  BY <1>1, EventRowTypes DEF TypeOK, Accept
<1>2. ASSUME NEW e \in Events, JobCompletes(e) PROVE TypeOK'
  BY <1>2 DEF TypeOK, JobCompletes
<1>3. ASSUME NEW p \in Processors, Recover(p) PROVE TypeOK'
  BY <1>3, EventRowTypes DEF TypeOK, Recover, Goto, PassStages
<1>4. ASSUME NEW p \in Processors, Claim(p) PROVE TypeOK'
  <2>1. PICK batch \in SUBSET Pending :
           /\ ClaimRows(batch)
           /\ todo' = [todo EXCEPT ![p] = batch]
           /\ Goto(p, IF batch = {} THEN "idle" ELSE "adding")
    BY <1>4 DEF Claim
  <2>2. batch \in SUBSET Events
    BY DEF Pending
  <2>3. events' \in [Events -> EventRows]
    BY <1>a, <2>1, <2>2
  <2> QED BY <1>4, <2>1, <2>2, <2>3 DEF TypeOK, Claim, Goto, PassStages
<1>5. ASSUME NEW p \in Processors, Add(p) PROVE TypeOK'
  <2>1. queued' \subseteq Events /\ added' \in [Events -> Nat]
    BY <1>5, <1>b, AddTypes DEF Add
  <2> QED BY <1>5, <2>1 DEF TypeOK, Add, Goto, PassStages
<1>6. ASSUME NEW p \in Processors, MarkSent(p) PROVE TypeOK'
  <2>1. events' \in [Events -> EventRows]
    BY <1>6, <1>b, EventRowTypes, WriteTypes DEF MarkSent
  <2> QED BY <1>6, <1>b, <2>1, AdvanceTypes DEF TypeOK, MarkSent
<1>7. ASSUME NEW p \in Processors, Revert(p) PROVE TypeOK'
  <2>1. events' \in [Events -> EventRows]
    BY <1>7, <1>b, EventRowTypes, WriteTypes DEF Revert
  <2> QED BY <1>7, <1>b, <2>1, AdvanceTypes DEF TypeOK, Revert
<1>8. ASSUME NEW p \in Processors, RecoverFails(p) PROVE TypeOK'
  <2>1. spent' \in [FaultKinds -> Nat]
    BY <1>8, SpentTypes DEF RecoverFails
  <2> QED BY <1>8, <2>1, EventRowTypes DEF TypeOK, RecoverFails
<1>9. ASSUME NEW p \in Processors, ClaimFails(p) PROVE TypeOK'
  <2>1. spent' \in [FaultKinds -> Nat]
    BY <1>9, SpentTypes DEF ClaimFails
  <2>2. events' \in [Events -> EventRows]
    BY <1>9, <1>a DEF TypeOK, ClaimFails, Pending
  <2> QED BY <1>9, <2>1, <2>2, AbortTypes DEF TypeOK, ClaimFails, Abort
<1>10. ASSUME NEW p \in Processors, AddFails(p) PROVE TypeOK'
  <2>1. spent' \in [FaultKinds -> Nat]
    BY <1>10, SpentTypes DEF AddFails
  <2>2. queued' \subseteq Events /\ added' \in [Events -> Nat]
    BY <1>10, <1>b, AddTypes DEF AddFails
  <2> QED BY <1>10, <2>1, <2>2 DEF TypeOK, AddFails, Goto, PassStages
<1>11. ASSUME NEW p \in Processors, MarkSentFails(p) PROVE TypeOK'
  <2>1. spent' \in [FaultKinds -> Nat]
    BY <1>11, SpentTypes DEF MarkSentFails
  <2>2. events' \in [Events -> EventRows]
    BY <1>11, <1>b, EventRowTypes, WriteTypes DEF MarkSentFails
  <2> QED BY <1>11, <2>1, <2>2 DEF TypeOK, MarkSentFails, Goto, PassStages
<1>12. ASSUME NEW p \in Processors, RevertFails(p) PROVE TypeOK'
  <2>1. spent' \in [FaultKinds -> Nat]
    BY <1>12, SpentTypes DEF RevertFails
  <2>2. events' \in [Events -> EventRows]
    BY <1>12, <1>b, EventRowTypes, WriteTypes DEF RevertFails
  <2> QED BY <1>12, <2>1, <2>2, AbortTypes DEF TypeOK, RevertFails, Abort
<1>13. ASSUME NEW p \in Processors, Crash(p) PROVE TypeOK'
  <2>1. spent' \in [FaultKinds -> Nat]
    BY <1>13, SpentTypes DEF Crash
  <2> QED BY <1>13, <2>1, AbortTypes DEF TypeOK, Crash
<1>14. ASSUME NEW e \in Events, GrowsStale(e) PROVE TypeOK'
  <2>1. spent' \in [FaultKinds -> Nat]
    BY <1>14, SpentTypes DEF GrowsStale
  <2> QED BY <1>14, <2>1, EventRowTypes DEF TypeOK, GrowsStale
<1>15. CASE UNCHANGED vars
  BY <1>15 DEF TypeOK, vars
<1> QED
  BY <1>1, <1>2, <1>3, <1>4, <1>5, <1>6, <1>7, <1>8, <1>9, <1>10, <1>11, <1>12, <1>13,
     <1>14, <1>15 DEF Next, Pass, Fault

\* However many processes run and whatever fails, the outbox, the queue and the
\* processes hold values of their types, and a process is in the middle of a pass
\* exactly while it has events in hand.
THEOREM TypeCorrect == Spec => []TypeOK
BY InitTypeOK, NextTypeOK, PTL DEF Spec

-----------------------------------------------------------------------------
(* Events change only by the statements of the pass, under their guards *)

EventStep(e) ==
    \/ events'[e] = events[e]
    \/ /\ events[e].status = "absent"
       /\ events'[e] = [events[e] EXCEPT !.status = "PENDING"]
    \/ Stale(events[e]) /\ events'[e] = RecoveredEvent(events[e])
    \/ events[e].status = "PENDING" /\ events'[e] = ClaimedEvent(events[e])
    \/ \E p \in Processors :
          /\ pc[p] = "marking" /\ e = Current(p)
          /\ events'[e] = SentEvent(events[e])
    \/ \E p \in Processors :
          /\ pc[p] = "reverting" /\ e = Current(p)
          /\ events'[e] = RevertedEvent(events[e])
    \/ /\ events[e].status = "PROCESSING"
       /\ InHand(e) = {} \/ spent'["slow"] > 0
       /\ events'[e] = [events[e] EXCEPT !.stale = TRUE]

LEMMA EventSteps ==
    ASSUME TypeOK, [Next]_vars, NEW e \in Events
    PROVE  EventStep(e)
<1>1. CASE events' = events
  BY <1>1 DEF EventStep
<1>2. ASSUME NEW f \in Events, Accept(f) PROVE EventStep(e)
  BY <1>2 DEF EventStep, Accept, TypeOK
<1>3. ASSUME NEW f \in Events, GrowsStale(f) PROVE EventStep(e)
  <2>1. InHand(f) = {} \/ spent'["slow"] > 0
    BY <1>3 DEF GrowsStale, Spend, TypeOK, FaultKinds
  <2> QED BY <1>3, <2>1 DEF EventStep, GrowsStale, TypeOK
<1>4. ASSUME NEW p \in Processors, Recover(p) \/ RecoverFails(p) PROVE EventStep(e)
  BY <1>4 DEF EventStep, Recover, RecoverFails
<1>5. ASSUME NEW batch \in SUBSET Pending, ClaimRows(batch) PROVE EventStep(e)
  BY <1>5 DEF EventStep, ClaimRows, Pending
<1>6. ASSUME NEW p \in Processors, pc[p] = "marking",
             Write(Current(p), SentEvent(events[Current(p)]))
      PROVE  EventStep(e)
  BY <1>6 DEF EventStep, Write, TypeOK
<1>7. ASSUME NEW p \in Processors, pc[p] = "reverting",
             Write(Current(p), RevertedEvent(events[Current(p)]))
      PROVE  EventStep(e)
  BY <1>7 DEF EventStep, Write, TypeOK
<1>8. ASSUME NEW p \in Processors, Pass(p) PROVE EventStep(e)
  BY <1>8, <1>1, <1>4, <1>5, <1>6, <1>7 DEF Pass, Claim, Add, MarkSent, Revert
<1>9. ASSUME NEW p \in Processors, Fault(p) PROVE EventStep(e)
  BY <1>9, <1>1, <1>4, <1>5, <1>6, <1>7
  DEF Fault, ClaimFails, AddFails, MarkSentFails, RevertFails, Crash
<1> QED
  BY <1>1, <1>2, <1>3, <1>8, <1>9 DEF Next, JobCompletes, vars

-----------------------------------------------------------------------------
(* The counters of a row *)

LEMMA ClaimsAreAccountedStep ==
    ASSUME TypeOK, ClaimsAreAccounted, [Next]_vars
    PROVE  ClaimsAreAccounted'
<1> DEFINE Accounted(row) ==
             row.claimCount <= row.recoveryCount + row.attempts
                 + (IF row.status = "PROCESSING" THEN 1 ELSE 0)
<1> SUFFICES ASSUME NEW e \in Events PROVE Accounted(events'[e])
  BY DEF ClaimsAreAccounted
<1>1. EventStep(e) /\ events[e] \in EventRows /\ Accounted(events[e])
  BY EventSteps DEF ClaimsAreAccounted, TypeOK
<1>2. CASE events'[e] = events[e]
  BY <1>1, <1>2
<1>3. CASE events[e].status = "absent" /\ events'[e] = [events[e] EXCEPT !.status = "PENDING"]
  BY <1>1, <1>3 DEF EventRows
<1>4. CASE Stale(events[e]) /\ events'[e] = RecoveredEvent(events[e])
  <2>1. /\ events'[e].claimCount = events[e].claimCount
        /\ events'[e].recoveryCount = events[e].recoveryCount + 1
        /\ events'[e].attempts = events[e].attempts
        /\ events'[e].status # "PROCESSING"
    BY <1>1, <1>4 DEF EventRows, RecoveredEvent
  <2> QED BY <1>1, <2>1 DEF EventRows
<1>5. CASE events[e].status = "PENDING" /\ events'[e] = ClaimedEvent(events[e])
  BY <1>1, <1>5 DEF EventRows, ClaimedEvent
<1>6. CASE events'[e] = SentEvent(events[e])
  BY <1>1, <1>6 DEF EventRows, SentEvent
<1>7. CASE events'[e] = RevertedEvent(events[e])
  BY <1>1, <1>7 DEF EventRows, RevertedEvent
<1>8. CASE events'[e] = [events[e] EXCEPT !.stale = TRUE]
  BY <1>1, <1>8 DEF EventRows
<1> QED BY <1>1, <1>2, <1>3, <1>4, <1>5, <1>6, <1>7, <1>8 DEF EventStep

\* With any number of processes and faults, each claim of an event after its first
\* is answered for by a counted recovery or a counted attempt.
THEOREM ClaimsAreAccountedCorrect == Spec => []ClaimsAreAccounted
<1>1. Init => ClaimsAreAccounted
  BY DEF Init, ClaimsAreAccounted
<1> QED BY <1>1, TypeCorrect, ClaimsAreAccountedStep, PTL DEF Spec

-----------------------------------------------------------------------------
(* No event is SENT before its job was added *)

\* Jobs are only ever counted up, and never without the event being current.
LEMMA AddedSteps ==
    ASSUME TypeOK, [Next]_vars
    PROVE  \A e \in Events : added'[e] >= added[e]
<1>1. CASE added' = added
  BY <1>1 DEF TypeOK
<1>2. ASSUME NEW f, AddJob(f) PROVE \A e \in Events : added'[e] >= added[e]
  BY <1>2 DEF AddJob, TypeOK
<1> QED
  BY <1>1, <1>2 DEF Next, Accept, JobCompletes, GrowsStale, Pass, Recover, Claim, Add,
     MarkSent, Revert, Fault, RecoverFails, ClaimFails, AddFails, MarkSentFails,
     RevertFails, Crash, vars

\* A job that is queued was added.
QueuedWereAdded == \A e \in queued : added[e] > 0

LEMMA QueuedWereAddedStep ==
    ASSUME TypeOK, QueuedWereAdded, [Next]_vars
    PROVE  QueuedWereAdded'
<1> USE DEF QueuedWereAdded
<1>0. \A e \in queued : added'[e] > 0
  <2> SUFFICES ASSUME NEW e \in queued PROVE added'[e] > 0
    OBVIOUS
  <2>1. e \in Events
    BY DEF TypeOK
  <2>2. added[e] > 0 /\ added'[e] >= added[e]
    BY <2>1, AddedSteps
  <2>3. added[e] \in Nat /\ added'[e] \in Nat
    BY <2>1, NextTypeOK DEF TypeOK
  <2> QED BY <2>2, <2>3
<1>1. CASE queued' \subseteq queued
  BY <1>0, <1>1
<1>2. ASSUME NEW f \in Events, AddJob(f) PROVE QueuedWereAdded'
  <2>1. CASE f \in queued
    BY <1>0, <1>2, <2>1 DEF AddJob
  <2>2. CASE f \notin queued
    <3>1. added'[f] = added[f] + 1 /\ added[f] \in Nat
      BY <1>2, <2>2 DEF AddJob, TypeOK
    <3>2. added'[f] > 0
      BY <3>1
    <3> QED BY <1>0, <1>2, <3>2 DEF AddJob
  <2> QED BY <2>1, <2>2
<1>3. ASSUME NEW p \in Processors, Add(p) \/ AddFails(p) PROVE QueuedWereAdded'
  <2>1. Current(p) \in Events
    BY <1>3, CurrentInTodo DEF Add, AddFails, TypeOK
  <2> QED BY <1>1, <1>2, <1>3, <2>1 DEF Add, AddFails
<1> QED
  BY <1>1, <1>3 DEF Next, Accept, JobCompletes, GrowsStale, Pass, Recover, Claim,
     MarkSent, Revert, Fault, RecoverFails, ClaimFails, MarkSentFails,
     RevertFails, Crash, vars

\* A process reaches line 139 from a call of add() for the same event.
LEMMA MarkingSteps ==
    ASSUME TypeOK, [Next]_vars, NEW p \in Processors, pc'[p] = "marking"
    PROVE  todo'[p] = todo[p] /\ (pc[p] = "marking" \/ Add(p))
<1>1. CASE UNCHANGED <<pc, todo>>
  BY <1>1
<1>2. ASSUME NEW q \in Processors, Pass(q), ~Add(q)
      PROVE  todo'[p] = todo[p] /\ pc[p] = "marking"
  BY <1>2 DEF Pass, Recover, Claim, MarkSent, Revert, Advance, Goto, TypeOK
<1>3. ASSUME NEW q \in Processors, Add(q), q # p
      PROVE  todo'[p] = todo[p] /\ pc[p] = "marking"
  BY <1>3 DEF Add, Goto, TypeOK
<1>4. ASSUME NEW q \in Processors, Add(q)
      PROVE  todo'[p] = todo[p]
  BY <1>4 DEF Add
<1>5. ASSUME NEW q \in Processors, Fault(q)
      PROVE  todo'[p] = todo[p] /\ pc[p] = "marking"
  BY <1>5 DEF Fault, RecoverFails, ClaimFails, AddFails, MarkSentFails, RevertFails, Crash,
     Abort, Goto, TypeOK
<1> QED
  BY <1>1, <1>2, <1>3, <1>4, <1>5 DEF Next, Accept, JobCompletes, GrowsStale, vars

LEMMA MarkingFollowsAddStep ==
    ASSUME TypeOK, QueuedWereAdded, MarkingFollowsAdd, [Next]_vars
    PROVE  MarkingFollowsAdd'
<1> SUFFICES ASSUME NEW p \in Processors, pc'[p] = "marking" PROVE added'[Current(p)'] > 0
  BY DEF MarkingFollowsAdd
<1>1. todo'[p] = todo[p] /\ Current(p)' = Current(p)
  BY MarkingSteps DEF Current
<1>2. todo[p] # {}
  BY <1>1, NextTypeOK DEF TypeOK
<1>3. Current(p) \in Events
  BY <1>2, CurrentInTodo
<1> DEFINE e == Current(p)
<1> HIDE DEF e
<1>a. e \in Events /\ Current(p)' = e
  BY <1>1, <1>3 DEF e
<1>b. added[e] \in Nat /\ added'[e] \in Nat /\ added'[e] >= added[e]
  BY <1>a, NextTypeOK, AddedSteps DEF TypeOK
<1>4. CASE pc[p] = "marking"
  <2>1. added[e] > 0
    BY <1>4 DEF MarkingFollowsAdd, e
  <2> QED BY <1>a, <1>b, <2>1
<1>5. CASE Add(p)
  <2>1. e \in queued'
    BY <1>5 DEF Add, AddJob, e
  <2>2. QueuedWereAdded'
    BY QueuedWereAddedStep
  <2> QED BY <1>a, <2>1, <2>2 DEF QueuedWereAdded
<1> QED BY <1>4, <1>5, MarkingSteps

LEMMA SentMeansAddedStep ==
    ASSUME TypeOK, MarkingFollowsAdd, SentMeansAdded, [Next]_vars
    PROVE  SentMeansAdded'
<1> SUFFICES ASSUME NEW e \in Events, events'[e].status = "SENT" PROVE added'[e] > 0
  BY DEF SentMeansAdded
<1>1. EventStep(e) /\ events[e] \in EventRows /\ added'[e] >= added[e]
  BY EventSteps, AddedSteps DEF TypeOK
<1>2. events[e].status = "SENT" \/ \E p \in Processors : pc[p] = "marking" /\ e = Current(p)
  BY <1>1 DEF EventStep, EventRows, RecoveredEvent, ClaimedEvent, RevertedEvent
<1>3. added[e] > 0
  BY <1>2 DEF SentMeansAdded, MarkingFollowsAdd
<1>4. added[e] \in Nat /\ added'[e] \in Nat
  BY NextTypeOK DEF TypeOK
<1> QED BY <1>1, <1>3, <1>4

\* With any number of processes, in any order of their writes and whatever fails,
\* an event is SENT only after its job was in the queue.
THEOREM SentMeansAddedCorrect == Spec => []SentMeansAdded
<1> DEFINE IInv == QueuedWereAdded /\ MarkingFollowsAdd /\ SentMeansAdded
<1>1. Init => IInv
  BY DEF Init, QueuedWereAdded, MarkingFollowsAdd, SentMeansAdded
<1>2. TypeOK /\ IInv /\ [Next]_vars => IInv'
  BY QueuedWereAddedStep, MarkingFollowsAddStep, SentMeansAddedStep
<1>3. IInv => SentMeansAdded
  OBVIOUS
<1> QED BY <1>1, <1>2, <1>3, TypeCorrect, PTL DEF Spec

-----------------------------------------------------------------------------
(* Two processes do not have the same event in hand *)

Unshared ==
    \A e \in Events, p, q \in Processors : p # q => ~(e \in todo[p] \cap todo[q])

AllHeld == \A p \in Processors : \A e \in todo[p] : Held(p, e)

\* Slow processes are only ever counted up.
LEMMA SlowSteps ==
    ASSUME TypeOK, [Next]_vars, spent'["slow"] = 0
    PROVE  /\ spent["slow"] = 0
           /\ \A e \in Events : GrowsStale(e) => InHand(e) = {}
<1> USE DEF FaultKinds
<1>1. spent["slow"] \in Nat
  BY DEF TypeOK
<1>2. ASSUME NEW kind \in FaultKinds, Spend(kind) PROVE spent["slow"] = 0
  BY <1>1, <1>2 DEF Spend, TypeOK
<1>3. ASSUME NEW e \in Events, GrowsStale(e) PROVE InHand(e) = {} /\ spent["slow"] = 0
  BY <1>1, <1>3 DEF GrowsStale, Spend, TypeOK
<1>4. ASSUME NEW p \in Processors, Fault(p) PROVE spent["slow"] = 0
  BY <1>2, <1>4 DEF Fault, RecoverFails, ClaimFails, AddFails, MarkSentFails, RevertFails, Crash
<1>5. ASSUME UNCHANGED spent PROVE spent["slow"] = 0
  BY <1>5
<1>6. spent["slow"] = 0
  BY <1>3, <1>4, <1>5 DEF Next, Accept, JobCompletes, Pass, Recover, Claim, Add, MarkSent,
     Revert, vars
<1> QED BY <1>3, <1>6

\* Nobody takes or drops an event, and the rows of those in hand are as they were.
LEMMA RowsKept ==
    ASSUME AllHeld, Unshared,
           UNCHANGED todo,
           \A p \in Processors : \A e \in todo[p] : events'[e] = events[e],
           \A p \in Processors : pc[p] = "reverting" => pc'[p] = "reverting"
    PROVE  AllHeld' /\ Unshared'
BY DEF AllHeld, Unshared, Held, Current

\* A batch of PENDING rows is in no other hands.
LEMMA BatchTaken ==
    ASSUME TypeOK, AllHeld, Unshared,
           NEW p \in Processors, NEW batch \in SUBSET Pending, pc[p] = "claiming",
           ClaimRows(batch),
           todo' \in {todo, [todo EXCEPT ![p] = {}], [todo EXCEPT ![p] = batch]},
           \A q \in Processors : q # p => pc'[q] = pc[q]
    PROVE  AllHeld' /\ Unshared'
<1>1. todo[p] = {}
  BY DEF TypeOK
<1>2. \A q \in Processors : \A e \in todo[q] : e \notin Pending
  BY DEF AllHeld, Held, Pending
<1>3. \A q \in Processors : q # p => todo'[q] = todo[q]
  BY DEF TypeOK
<1>4. todo'[p] \subseteq batch
  BY <1>1 DEF TypeOK
<1>5. \A e \in batch : events'[e].status = "PROCESSING" /\ ~events'[e].stale
  <2> SUFFICES ASSUME NEW e \in batch
               PROVE  events'[e].status = "PROCESSING" /\ ~events'[e].stale
    OBVIOUS
  <2>1. e \in Events
    BY DEF Pending
  <2>2. events'[e] = ClaimedEvent(events[e])
    BY <2>1 DEF ClaimRows
  <2>3. events[e] \in EventRows
    BY <2>1 DEF TypeOK
  <2>4. ClaimedEvent(events[e]).status = "PROCESSING" /\ ~ClaimedEvent(events[e]).stale
    BY <2>3 DEF ClaimedEvent, EventRows
  <2> QED BY <2>2, <2>4
<1>6. \A e \in Events \ batch : events'[e] = events[e]
  BY DEF ClaimRows
<1>7. \A q \in Processors : q # p => \A e \in todo'[q] : events'[e] = events[e] /\ e \notin batch
  BY <1>2, <1>3, <1>6 DEF TypeOK
<1>8. Unshared'
  <2> SUFFICES ASSUME NEW e \in Events, NEW q \in Processors, NEW r \in Processors, q # r,
                      e \in todo'[q], e \in todo'[r]
               PROVE  FALSE
    BY DEF Unshared
  <2>1. CASE q # p /\ r # p
    BY <1>3, <2>1 DEF Unshared
  <2>2. CASE q = p \/ r = p
    BY <1>4, <1>7, <2>2
  <2> QED BY <2>1, <2>2
<1>9. AllHeld'
  <2> SUFFICES ASSUME NEW q \in Processors, NEW e \in todo'[q] PROVE Held(q, e)'
    BY DEF AllHeld
  <2>1. CASE q = p
    BY <1>4, <1>5, <2>1 DEF Held
  <2>2. CASE q # p
    BY <1>3, <1>7, <2>2 DEF AllHeld, Held, Current
  <2> QED BY <2>1, <2>2
<1> QED BY <1>8, <1>9

\* A process writes its current event, and either drops it or stays to revert it.
LEMMA CurrentWritten ==
    ASSUME TypeOK, AllHeld, Unshared,
           NEW p \in Processors, todo[p] # {},
           \A e \in Events : e # Current(p) => events'[e] = events[e],
           \A q \in Processors : q # p => pc'[q] = pc[q] /\ todo'[q] = todo[q],
           todo'[p] \subseteq todo[p],
           \/ Current(p) \notin todo'[p]
           \/ /\ todo'[p] = todo[p] /\ pc'[p] = "reverting" /\ pc[p] # "reverting"
              /\ \/ events'[Current(p)] = events[Current(p)]
                 \/ events'[Current(p)] = SentEvent(events[Current(p)])
    PROVE  AllHeld' /\ Unshared'
<1>1. Current(p) \in todo[p] /\ Current(p) \in Events /\ events[Current(p)] \in EventRows
  BY CurrentInTodo DEF TypeOK
<1>2. Unshared'
  BY DEF Unshared
<1>3. ASSUME NEW q \in Processors, q # p, NEW e \in todo'[q] PROVE Held(q, e)'
  <2>1. e \in todo[q] /\ e \in Events /\ e # Current(p)
    BY <1>1, <1>3 DEF Unshared, TypeOK
  <2> QED BY <1>3, <2>1 DEF AllHeld, Held, Current
<1>4. ASSUME NEW e \in todo'[p], e # Current(p) PROVE Held(p, e)'
  <2>1. e \in todo[p] /\ e \in Events
    BY DEF TypeOK
  <2>2. events[e].status = "PROCESSING" /\ ~events[e].stale
    BY <1>4, <2>1 DEF AllHeld, Held
  <2> QED BY <1>4, <2>1, <2>2 DEF Held
<1>5. ASSUME NEW e \in todo'[p], e = Current(p) PROVE Held(p, e)'
  <2>1. /\ todo'[p] = todo[p] /\ pc'[p] = "reverting" /\ pc[p] # "reverting"
        /\ events'[e] = events[e] \/ events'[e] = SentEvent(events[e])
    BY <1>5
  <2>2. events[e].status = "PROCESSING" /\ ~events[e].stale /\ events[e] \in EventRows
    BY <1>1, <1>5, <2>1 DEF AllHeld, Held
  <2>3. Current(p)' = e
    BY <1>5, <2>1 DEF Current
  <2> QED BY <2>1, <2>2, <2>3 DEF Held, SentEvent, EventRows
<1>6. ASSUME NEW q \in Processors, NEW e \in todo'[q] PROVE Held(q, e)'
  <2>1. CASE q # p
    BY <1>3, <2>1
  <2>2. CASE q = p /\ e # Current(p)
    BY <1>4, <2>2
  <2>3. CASE q = p /\ e = Current(p)
    BY <1>5, <2>3
  <2> QED BY <2>1, <2>2, <2>3
<1>7. AllHeld'
  BY <1>6 DEF AllHeld
<1> QED BY <1>2, <1>7

LEMMA HandsStep ==
    ASSUME TypeOK, [Next]_vars, spent'["slow"] = 0, AllHeld, Unshared
    PROVE  AllHeld' /\ Unshared'
<1>a. \A q \in Processors : \A e \in todo[q] :
         e \in Events /\ ~Stale(events[e]) /\ events[e].status \notin {"absent", "PENDING"}
  BY DEF AllHeld, Held, Stale, TypeOK
<1>b. ASSUME NEW p \in Processors, pc[p] \in {"adding", "marking", "reverting"}
      PROVE  todo[p] # {} /\ Current(p) \in todo[p] /\ Current(p) \in Events
  BY <1>b, CurrentInTodo DEF TypeOK
<1>1. ASSUME NEW e \in Events, Accept(e) \/ JobCompletes(e) PROVE AllHeld' /\ Unshared'
  <2>1. \A q \in Processors : \A f \in todo[q] : events'[f] = events[f]
    BY <1>a, <1>1 DEF Accept, JobCompletes, TypeOK
  <2> QED BY <1>1, <2>1, RowsKept DEF Accept, JobCompletes
<1>2. ASSUME NEW e \in Events, GrowsStale(e) PROVE AllHeld' /\ Unshared'
  <2>1. InHand(e) = {}
    BY <1>2, SlowSteps
  <2>2. \A q \in Processors : \A f \in todo[q] : events'[f] = events[f]
    BY <1>a, <1>2, <2>1 DEF GrowsStale, InHand, TypeOK
  <2> QED BY <1>2, <2>2, RowsKept DEF GrowsStale
<1>3. ASSUME NEW p \in Processors, Recover(p) \/ RecoverFails(p) PROVE AllHeld' /\ Unshared'
  <2>1. \A q \in Processors : \A f \in todo[q] : events'[f] = events[f]
    BY <1>a, <1>3 DEF Recover, RecoverFails
  <2>2. \A q \in Processors : pc[q] = "reverting" => pc'[q] = "reverting"
    BY <1>3 DEF Recover, RecoverFails, Goto, TypeOK
  <2> QED BY <1>3, <2>1, <2>2, RowsKept DEF Recover, RecoverFails
<1>4. ASSUME NEW p \in Processors, Claim(p) PROVE AllHeld' /\ Unshared'
  BY <1>4, BatchTaken DEF Claim, Goto, TypeOK
<1>5. ASSUME NEW p \in Processors, ClaimFails(p) PROVE AllHeld' /\ Unshared'
  <2>1. todo' = [todo EXCEPT ![p] = {}] /\ \A q \in Processors : q # p => pc'[q] = pc[q]
    BY <1>5 DEF ClaimFails, Abort, Goto, TypeOK
  <2>2. CASE \E batch \in SUBSET Pending : IsBatch(batch) /\ ClaimRows(batch)
    BY <1>5, <2>1, <2>2, BatchTaken DEF ClaimFails
  <2>3. CASE UNCHANGED events
    BY <2>1, <2>3 DEF AllHeld, Unshared, Held, Current, TypeOK
  <2> QED BY <1>5, <2>2, <2>3 DEF ClaimFails
<1>6. ASSUME NEW p \in Processors, Add(p) \/ AddFails(p) PROVE AllHeld' /\ Unshared'
  BY <1>6, RowsKept DEF Add, AddFails, Goto, TypeOK
<1>7. ASSUME NEW p \in Processors, MarkSent(p) \/ Revert(p) PROVE AllHeld' /\ Unshared'
  <2>1. Advance(p) /\ pc[p] \in {"marking", "reverting"}
    BY <1>7 DEF MarkSent, Revert
  <2>2. \A e \in Events : e # Current(p) => events'[e] = events[e]
    BY <1>7 DEF MarkSent, Revert, Write, TypeOK
  <2>3. /\ \A q \in Processors : q # p => pc'[q] = pc[q] /\ todo'[q] = todo[q]
        /\ todo'[p] \subseteq todo[p] /\ Current(p) \notin todo'[p]
    BY <2>1 DEF Advance, Goto, TypeOK
  <2> QED BY <1>b, <2>1, <2>2, <2>3, CurrentWritten
<1>8. ASSUME NEW p \in Processors, MarkSentFails(p) PROVE AllHeld' /\ Unshared'
  <2>1. /\ \A e \in Events : e # Current(p) => events'[e] = events[e]
        /\ \A q \in Processors : q # p => pc'[q] = pc[q]
        /\ UNCHANGED todo /\ pc'[p] = "reverting" /\ pc[p] = "marking"
    BY <1>8 DEF MarkSentFails, Write, Goto, TypeOK
  <2>2. \/ events'[Current(p)] = events[Current(p)]
        \/ events'[Current(p)] = SentEvent(events[Current(p)])
    BY <1>8, <1>b, <2>1 DEF MarkSentFails, Write, TypeOK
  <2> QED BY <1>b, <2>1, <2>2, CurrentWritten
<1>9. ASSUME NEW p \in Processors, RevertFails(p) PROVE AllHeld' /\ Unshared'
  <2>1. /\ pc[p] = "reverting" /\ todo' = [todo EXCEPT ![p] = {}]
        /\ \A e \in Events : e # Current(p) => events'[e] = events[e]
        /\ \A q \in Processors : q # p => pc'[q] = pc[q]
    BY <1>9 DEF RevertFails, Abort, Write, Goto, TypeOK
  <2>2. /\ todo'[p] = {}
        /\ \A q \in Processors : q # p => todo'[q] = todo[q]
    BY <2>1 DEF TypeOK
  <2> QED BY <1>b, <2>1, <2>2, CurrentWritten
<1>10. ASSUME NEW p \in Processors, Crash(p) PROVE AllHeld' /\ Unshared'
  BY <1>10 DEF Crash, Goto, AllHeld, Unshared, Held, Current, TypeOK
<1>11. CASE UNCHANGED vars
  BY <1>11, RowsKept DEF vars
<1> QED
  BY <1>1, <1>2, <1>3, <1>4, <1>5, <1>6, <1>7, <1>8, <1>9, <1>10, <1>11
  DEF Next, Pass, Fault

\* The inductive invariant: HandsHoldClaims, and no event in two hands.
LEMMA HandsInvariant == Spec => [](HandsHoldClaims /\ (spent["slow"] = 0 => Unshared))
<1> DEFINE IInv == HandsHoldClaims /\ (spent["slow"] = 0 => Unshared)
<1>1. Init => IInv
  BY DEF Init, HandsHoldClaims, Unshared
<1>2. TypeOK /\ IInv /\ [Next]_vars => IInv'
  <2>1. HandsHoldClaims <=> (spent["slow"] = 0 => AllHeld)
    BY DEF HandsHoldClaims, AllHeld
  <2>2. HandsHoldClaims' <=> (spent'["slow"] = 0 => AllHeld')
    BY DEF HandsHoldClaims, AllHeld
  <2> QED BY <2>1, <2>2, HandsStep, SlowSteps
<1> QED BY <1>1, <1>2, TypeCorrect, PTL DEF Spec

\* As long as no claim went stale under its process, what a process has in hand is
\* a row that is still its claim: no other process claimed, recovered, marked or
\* reverted it meanwhile, whatever failed and whoever died.
THEOREM HandsHoldClaimsCorrect == Spec => []HandsHoldClaims
BY HandsInvariant, PTL

\* With any number of processes and events, two processes have the same event in
\* hand only after the claim of one went stale under it: SKIP LOCKED and the status
\* keep everybody else apart, through every crash, failed statement and recovery.
THEOREM OneProcessPerEventCorrect == Spec => []OneProcessPerEvent
<1>1. TypeOK /\ (spent["slow"] = 0 => Unshared) => OneProcessPerEvent
  <2> SUFFICES ASSUME TypeOK, spent["slow"] = 0 => Unshared,
                      NEW e \in Events, NEW p \in Processors, NEW q \in Processors,
                      p # q, e \in todo[p] \cap todo[q]
               PROVE  spent["slow"] > 0
    BY DEF OneProcessPerEvent
  <2>1. spent["slow"] \in Nat /\ spent["slow"] # 0
    BY DEF TypeOK, FaultKinds, Unshared
  <2> QED BY <2>1
<1> QED BY <1>1, HandsInvariant, TypeCorrect, PTL

-----------------------------------------------------------------------------
(* A settled event is opened again only by a fault *)

\* Which steps lead to the call of line 156, and which leave it pending.
LEMMA RevertingSteps ==
    ASSUME TypeOK, [Next]_vars, NEW p \in Processors, pc'[p] = "reverting"
    PROVE  /\ todo'[p] = todo[p]
           /\ \/ pc[p] = "reverting"
              \/ AddFails(p)
              \/ MarkSentFails(p)
<1>1. CASE UNCHANGED <<pc, todo>>
  BY <1>1
<1>2. ASSUME NEW q \in Processors, Pass(q)
      PROVE  todo'[p] = todo[p] /\ pc[p] = "reverting"
  BY <1>2 DEF Pass, Recover, Claim, Add, MarkSent, Revert, Advance, Goto, TypeOK
<1>3. ASSUME NEW q \in Processors, Fault(q), q # p
      PROVE  todo'[p] = todo[p] /\ pc[p] = "reverting"
  BY <1>3 DEF Fault, RecoverFails, ClaimFails, AddFails, MarkSentFails, RevertFails, Crash,
     Abort, Goto, TypeOK
<1>4. CASE Fault(p)
  BY <1>4 DEF Fault, RecoverFails, ClaimFails, AddFails, MarkSentFails, RevertFails, Crash,
     Abort, Goto, TypeOK
<1> QED
  BY <1>1, <1>2, <1>3, <1>4 DEF Next, Accept, JobCompletes, GrowsStale, vars

\* Before any claim goes stale under its process, an event that is SENT and about to
\* be reverted is one whose process did not hear that it was SENT.
UnheardOnly ==
    \A p \in Processors :
        pc[p] = "reverting" /\ events[Current(p)].status = "SENT" => spent["dbErrors"] > 0

LEMMA UnheardOnlyStep ==
    ASSUME TypeOK, [Next]_vars, spent'["slow"] = 0, AllHeld, Unshared, UnheardOnly
    PROVE  UnheardOnly'
<1> SUFFICES ASSUME NEW p \in Processors, pc'[p] = "reverting",
                    events'[Current(p)'].status = "SENT"
             PROVE  spent'["dbErrors"] > 0
  BY DEF UnheardOnly
<1> DEFINE e == Current(p)
<1>1. todo'[p] = todo[p] /\ Current(p)' = e
  BY RevertingSteps DEF Current
<1>2. e \in todo[p] /\ e \in Events
  BY <1>1, RevertingSteps, CurrentInTodo DEF TypeOK, AddFails, MarkSentFails
<1>3. /\ spent["dbErrors"] > 0 => spent'["dbErrors"] > 0
      /\ MarkSentFails(p) => spent'["dbErrors"] > 0
  <2>1. UNCHANGED spent \/ \E kind \in FaultKinds : Spend(kind)
    BY DEF Next, Pass, Fault, Accept, JobCompletes, GrowsStale, Recover, Claim, Add, MarkSent,
           Revert, RecoverFails, ClaimFails, AddFails, MarkSentFails, RevertFails, Crash,
           FaultKinds, vars
  <2>2. spent["dbErrors"] \in Nat
    BY DEF TypeOK, FaultKinds
  <2>3. \A kind \in FaultKinds : Spend(kind) =>
           spent'["dbErrors"] = IF kind = "dbErrors" THEN spent["dbErrors"] + 1
                                                     ELSE spent["dbErrors"]
    BY DEF Spend, TypeOK, FaultKinds
  <2> QED BY <2>1, <2>2, <2>3 DEF MarkSentFails, FaultKinds
<1>4. CASE pc[p] = "reverting"
  <2>1. CASE events[e].status = "SENT"
    BY <1>3, <1>4, <2>1 DEF UnheardOnly
  <2>2. CASE events[e].status # "SENT"
    <3>a. EventStep(e) /\ events[e] \in EventRows /\ events'[e].status = "SENT"
      BY <1>1, <1>2, EventSteps DEF TypeOK
    <3>1. \E q \in Processors : pc[q] = "marking" /\ e = Current(q)
      BY <2>2, <3>a DEF EventStep, EventRows, RecoveredEvent, ClaimedEvent, RevertedEvent
    <3>2. PICK q \in Processors : pc[q] = "marking" /\ e = Current(q)
      BY <3>1
    <3>3. e \in todo[q] /\ q # p
      BY <1>4, <3>2, CurrentInTodo DEF TypeOK
    <3> QED BY <1>2, <3>3 DEF Unshared
  <2> QED BY <2>1, <2>2
<1>5. CASE AddFails(p)
  <2>1. events[e].status = "PROCESSING" /\ events'[e] = events[e]
    BY <1>2, <1>5 DEF AddFails, AllHeld, Held
  <2> QED BY <1>1, <2>1
<1> QED BY <1>3, <1>4, <1>5, RevertingSteps

LEMMA UnheardOnlyInvariant == Spec => [](spent["slow"] = 0 => AllHeld /\ UnheardOnly)
<1> DEFINE Unheard == spent["slow"] = 0 => UnheardOnly
<1>1. Init => Unheard
  BY DEF Init, UnheardOnly
<1>2. TypeOK /\ HandsHoldClaims /\ (spent["slow"] = 0 => Unshared) /\ Unheard /\ [Next]_vars
         => Unheard'
  <2>1. ASSUME TypeOK, HandsHoldClaims, spent["slow"] = 0 => Unshared,
               spent["slow"] = 0 => UnheardOnly, [Next]_vars, spent'["slow"] = 0
        PROVE  UnheardOnly'
    <3>1. spent["slow"] = 0
      BY <2>1, SlowSteps
    <3>2. AllHeld /\ Unshared /\ UnheardOnly
      BY <2>1, <3>1 DEF HandsHoldClaims, AllHeld
    <3> QED BY <2>1, <3>2, UnheardOnlyStep
  <2> QED BY <2>1
<1>3. HandsHoldClaims /\ Unheard => (spent["slow"] = 0 => AllHeld /\ UnheardOnly)
  BY DEF HandsHoldClaims, AllHeld
<1> QED BY <1>1, <1>2, <1>3, TypeCorrect, HandsInvariant, PTL DEF Spec

\* In no deployment is an event that was SENT or given up opened again, except after
\* a claim went stale under its process or, if it was SENT, a statement failed.
THEOREM SettledReopensOnlyAfterFaultCorrect == Spec => SettledReopensOnlyAfterFault
<1> DEFINE ReopensForCause ==
      \A e \in Events :
         events[e].status \in {"SENT", "OUTBOX_FAILED"} /\ events'[e].status # events[e].status
            => \/ spent["slow"] > 0
               \/ events[e].status = "SENT" /\ spent["dbErrors"] > 0
<1>1. ASSUME TypeOK, spent["slow"] = 0 => AllHeld /\ UnheardOnly, [Next]_vars
      PROVE  ReopensForCause
  <2> SUFFICES ASSUME NEW e \in Events, events[e].status \in {"SENT", "OUTBOX_FAILED"},
                      events'[e].status # events[e].status, ~(spent["slow"] > 0)
               PROVE  events[e].status = "SENT" /\ spent["dbErrors"] > 0
    OBVIOUS
  <2>1. AllHeld /\ UnheardOnly
    BY <1>1 DEF TypeOK, FaultKinds
  <2>2. \A p \in Processors :
           pc[p] \in {"marking", "reverting"} /\ e = Current(p) => Held(p, e)
    BY <1>1, <2>1, CurrentInTodo DEF AllHeld, TypeOK
  <2>3. EventStep(e) /\ events[e] \in EventRows
    BY <1>1, EventSteps DEF TypeOK
  <2>4. \E p \in Processors : pc[p] \in {"marking", "reverting"} /\ e = Current(p)
    BY <2>3 DEF EventStep, EventRows, Stale
  <2>5. PICK p \in Processors : pc[p] \in {"marking", "reverting"} /\ e = Current(p)
    BY <2>4
  <2>6. pc[p] = "reverting" /\ events[e].status = "SENT"
    BY <2>2, <2>5 DEF Held
  <2> QED BY <2>1, <2>5, <2>6 DEF UnheardOnly
<1>2. TypeOK /\ (spent["slow"] = 0 => AllHeld /\ UnheardOnly) /\ [Next]_vars
         => [ReopensForCause]_vars
  BY <1>1
<1> QED BY <1>2, TypeCorrect, UnheardOnlyInvariant, PTL DEF Spec, SettledReopensOnlyAfterFault

-----------------------------------------------------------------------------
(* An event is recovered once for each time a fault lost it *)

LEMMA FaultCount ==
    ASSUME TypeOK
    PROVE  /\ Faults \in Nat
           /\ \A kind \in FaultKinds : Spend(kind) => Faults' = Faults + 1
           /\ UNCHANGED spent => Faults' = Faults
<1>1. Faults \in Nat
  BY DEF TypeOK, FaultKinds, Faults
<1>2. ASSUME NEW kind \in FaultKinds, Spend(kind) PROVE Faults' = Faults + 1
  BY <1>2 DEF TypeOK, FaultKinds, Faults, Spend
<1>3. UNCHANGED spent => Faults' = Faults
  BY DEF Faults
<1> QED BY <1>1, <1>2, <1>3

LEMMA FaultsOnlyGrow ==
    ASSUME TypeOK, [Next]_vars
    PROVE  Faults' \in Nat /\ Faults' >= Faults
<1>1. UNCHANGED spent \/ \E kind \in FaultKinds : Spend(kind)
  BY DEF Next, Pass, Fault, Accept, JobCompletes, GrowsStale, Recover, Claim, Add, MarkSent,
         Revert, RecoverFails, ClaimFails, AddFails, MarkSentFails, RevertFails, Crash,
         FaultKinds, vars
<1> QED BY <1>1, FaultCount

\* A claimed event that no process will finish in time.
Lost(e) == events[e].status = "PROCESSING" /\ (events[e].stale \/ InHand(e) = {})

LEMMA ClaimLosesNothing ==
    ASSUME TypeOK, NEW p \in Processors, Claim(p), NEW e \in Events, Lost(e)'
    PROVE  Lost(e)
<1>1. PICK batch \in SUBSET Pending : ClaimRows(batch) /\ todo' = [todo EXCEPT ![p] = batch]
  BY DEF Claim
<1>2. todo[p] = {} /\ todo'[p] = batch /\ \A q \in Processors : q # p => todo'[q] = todo[q]
  BY <1>1 DEF Claim, TypeOK
<1>3. CASE e \in batch
  <2>1. p \in InHand(e)' /\ ~events'[e].stale
    BY <1>1, <1>2, <1>3 DEF InHand, ClaimRows, ClaimedEvent, TypeOK, EventRows
  <2> QED BY <2>1 DEF Lost
<1>4. CASE e \notin batch
  <2>1. events'[e] = events[e] /\ InHand(e)' = InHand(e)
    BY <1>1, <1>2, <1>4 DEF InHand, ClaimRows
  <2> QED BY <2>1 DEF Lost
<1> QED BY <1>3, <1>4

\* Writing the current event and going on to the next one.
LEMMA WriteLosesNothing ==
    ASSUME TypeOK, NEW p \in Processors, todo[p] # {}, NEW row, row.status # "PROCESSING",
           Write(Current(p), row), Advance(p), NEW e \in Events, Lost(e)'
    PROVE  Lost(e)
<1>1. Current(p) \in Events
  BY CurrentInTodo
<1>2. e # Current(p)
  BY <1>1 DEF Lost, Write, TypeOK
<1>3. events'[e] = events[e]
  BY <1>2 DEF Write, TypeOK
<1>4. \A q \in Processors : e \in todo'[q] <=> e \in todo[q]
  BY <1>2 DEF Advance, TypeOK
<1>5. InHand(e)' = InHand(e)
  BY <1>4 DEF InHand
<1> QED BY <1>3, <1>5 DEF Lost

LEMMA LostByFault ==
    ASSUME TypeOK, [Next]_vars, NEW e \in Events, Lost(e)'
    PROVE  Lost(e) \/ Faults' > Faults
<1> USE DEF FaultKinds
<1>1. ASSUME UNCHANGED <<events, todo>> PROVE Lost(e)
  BY <1>1 DEF Lost, InHand
<1>2. ASSUME NEW f \in Events, Accept(f) PROVE Lost(e)
  <2>1. UNCHANGED todo /\ (e # f => events'[e] = events[e])
        /\ (e = f => events'[e].status = "PENDING")
    BY <1>2 DEF Accept, TypeOK, EventRows
  <2> QED BY <2>1 DEF Lost, InHand
<1>3. ASSUME NEW f \in Events, GrowsStale(f) PROVE Lost(e) \/ Faults' > Faults
  <2>1. CASE InHand(f) = {} /\ e = f
    BY <1>3, <2>1 DEF GrowsStale, Lost
  <2>2. CASE e # f
    BY <1>3, <2>2 DEF GrowsStale, Lost, InHand, TypeOK
  <2>3. CASE InHand(f) # {}
    BY <1>3, <2>3, FaultCount DEF GrowsStale
  <2> QED BY <2>1, <2>2, <2>3
<1>4. ASSUME NEW p \in Processors, Recover(p) PROVE Lost(e)
  <2>1. RecoveredEvent(events[e]).status # "PROCESSING"
    BY DEF RecoveredEvent, TypeOK, EventRows
  <2> QED BY <1>4, <2>1 DEF Recover, Lost, InHand
<1>5. ASSUME NEW p \in Processors, Claim(p) PROVE Lost(e)
  BY <1>5, ClaimLosesNothing
<1>6. ASSUME NEW p \in Processors, MarkSent(p) PROVE Lost(e)
  <2>1. todo[p] # {} /\ Current(p) \in Events
    BY <1>6, CurrentInTodo DEF MarkSent, TypeOK
  <2>2. SentEvent(events[Current(p)]).status # "PROCESSING"
    BY <2>1 DEF SentEvent, TypeOK, EventRows
  <2> QED BY <1>6, <2>1, <2>2, WriteLosesNothing DEF MarkSent
<1>7. ASSUME NEW p \in Processors, Revert(p) PROVE Lost(e)
  <2>1. todo[p] # {} /\ Current(p) \in Events
    BY <1>7, CurrentInTodo DEF Revert, TypeOK
  <2>2. RevertedEvent(events[Current(p)]).status # "PROCESSING"
    BY <2>1 DEF RevertedEvent, TypeOK, EventRows
  <2> QED BY <1>7, <2>1, <2>2, WriteLosesNothing DEF Revert
<1>8. ASSUME NEW p \in Processors, Fault(p) PROVE Faults' > Faults
  <2>1. \E kind \in FaultKinds : Spend(kind)
    BY <1>8 DEF Fault, RecoverFails, ClaimFails, AddFails, MarkSentFails, RevertFails, Crash
  <2> QED BY <2>1, FaultCount
<1> QED
  BY <1>1, <1>2, <1>3, <1>4, <1>5, <1>6, <1>7, <1>8
  DEF Next, Pass, JobCompletes, Add, vars

RecoveriesHaveCauses ==
    \A e \in Events :
        /\ events[e].recoveryCount + (IF Lost(e) THEN 1 ELSE 0) <= Faults
        /\ events[e].status = "OUTBOX_FAILED" => events[e].recoveryCount >= MaxRecoveries

LEMMA RecoveriesHaveCausesStep ==
    ASSUME TypeOK, RecoveriesHaveCauses, [Next]_vars
    PROVE  RecoveriesHaveCauses'
<1> SUFFICES ASSUME NEW e \in Events
    PROVE  /\ events'[e].recoveryCount + (IF Lost(e)' THEN 1 ELSE 0) <= Faults'
           /\ events'[e].status = "OUTBOX_FAILED" => events'[e].recoveryCount >= MaxRecoveries
  BY DEF RecoveriesHaveCauses
<1>1. EventStep(e) /\ events[e] \in EventRows
  BY EventSteps DEF TypeOK
<1>2. /\ Faults \in Nat /\ Faults' \in Nat /\ Faults' >= Faults
      /\ Lost(e)' => Lost(e) \/ Faults' > Faults
  BY FaultCount, FaultsOnlyGrow, LostByFault
<1>3. /\ events[e].recoveryCount + (IF Lost(e) THEN 1 ELSE 0) <= Faults
      /\ events[e].status = "OUTBOX_FAILED" => events[e].recoveryCount >= MaxRecoveries
      /\ events[e].recoveryCount \in Nat
  BY <1>1 DEF RecoveriesHaveCauses, EventRows
<1>4. CASE Stale(events[e]) /\ events'[e] = RecoveredEvent(events[e])
  <2>1. Lost(e)
    BY <1>4 DEF Stale, Lost
  <2>2. /\ events'[e].recoveryCount = events[e].recoveryCount + 1
        /\ events'[e].status # "PROCESSING"
        /\ events'[e].status = "OUTBOX_FAILED" => events[e].recoveryCount + 1 >= MaxRecoveries
    BY <1>1, <1>4 DEF EventRows, RecoveredEvent
  <2>3. ~Lost(e)'
    BY <2>2 DEF Lost
  <2> QED BY <1>2, <1>3, <2>1, <2>2, <2>3
<1>5. CASE ~(Stale(events[e]) /\ events'[e] = RecoveredEvent(events[e]))
  <2>1. /\ events'[e].recoveryCount = events[e].recoveryCount
        /\ events'[e].status = "OUTBOX_FAILED" => events[e].status = "OUTBOX_FAILED"
    BY <1>1, <1>5 DEF EventStep, EventRows, ClaimedEvent, SentEvent, RevertedEvent
  <2> QED BY <1>2, <1>3, <2>1
<1> QED BY <1>4, <1>5

\* No fault makes an event recovered twice, so an event is given up only after as many
\* faults as the limit, for any limit, batch size and number of processes.
THEOREM GivenUpForCauseOnlyCorrect == Spec => []GivenUpForCauseOnly
<1>1. Init => RecoveriesHaveCauses
  BY DEF Init, RecoveriesHaveCauses, Lost, Faults, FaultKinds
<1>2. TypeOK /\ RecoveriesHaveCauses /\ [Next]_vars => RecoveriesHaveCauses'
  BY RecoveriesHaveCausesStep
<1>3. TypeOK /\ RecoveriesHaveCauses => GivenUpForCauseOnly
  <2> SUFFICES ASSUME TypeOK, RecoveriesHaveCauses, NEW e \in Events,
                      events[e].status = "OUTBOX_FAILED"
               PROVE  Faults >= MaxRecoveries
    BY DEF GivenUpForCauseOnly
  <2>1. Faults \in Nat /\ events[e].recoveryCount \in Nat
    BY FaultCount DEF TypeOK, EventRows
  <2>2. events[e].recoveryCount >= MaxRecoveries /\ events[e].recoveryCount <= Faults
    BY <2>1 DEF RecoveriesHaveCauses, Lost
  <2> QED BY <2>1, <2>2, MaxRecoveriesAssumption
<1> QED BY <1>1, <1>2, <1>3, TypeCorrect, PTL DEF Spec

-----------------------------------------------------------------------------
(* A job is added once more for each fault, at most *)

\* Processes that will still add a job for e, or open e again for others to do so.
Owing(e) == {p \in Processors : e \in todo[p] /\ ~(pc[p] = "marking" /\ e = Current(p))}

\* Some process will claim e, sooner or later.
Loose(e) == events[e].status = "PENDING" \/ Lost(e)

\* The jobs of e that were added and those still to come were each paid for by a fault,
\* the first one aside.
Accounted(e) ==
    /\ IsFiniteSet(Owing(e))
    /\ added[e] + Cardinality(Owing(e)) + (IF Loose(e) THEN 1 ELSE 0) <= 1 + Faults
    /\ events[e].status = "absent" => added[e] = 0 /\ InHand(e) = {}

\* What one process owes for e, together with what e is worth to everybody.
Share(p, e) ==
    added[e] + (IF p \in Owing(e) THEN 1 ELSE 0) + (IF Loose(e) THEN 1 ELSE 0)

LEMMA ShareTypes ==
    ASSUME TypeOK, NEW p, NEW e \in Events
    PROVE  Share(p, e) \in Nat
BY DEF TypeOK, Share

\* The other processes go on owing what they owed.
LEMMA OthersStay ==
    ASSUME TypeOK, NEW p \in Processors, Pass(p) \/ Fault(p),
           NEW q \in Processors, q # p
    PROVE  /\ pc'[q] = pc[q] /\ todo'[q] = todo[q]
           /\ \A e \in Events : q \in Owing(e)' <=> q \in Owing(e)
<1>1. pc'[q] = pc[q] /\ todo'[q] = todo[q]
  <2>1. CASE Pass(p)
    BY <2>1 DEF Pass, Recover, Claim, Add, MarkSent, Revert, Advance, Goto, TypeOK
  <2>2. CASE Fault(p)
    BY <2>2
    DEF Fault, RecoverFails, ClaimFails, AddFails, MarkSentFails, RevertFails, Crash, Abort,
        Goto, TypeOK
  <2> QED BY <2>1, <2>2
<1> QED BY <1>1 DEF Owing, Current

LEMMA OwingCount ==
    ASSUME TypeOK, NEW p \in Processors, Pass(p) \/ Fault(p),
           NEW e \in Events, IsFiniteSet(Owing(e))
    PROVE  /\ IsFiniteSet(Owing(e)')
           /\ Cardinality(Owing(e)) \in Nat /\ Cardinality(Owing(e)') \in Nat
           /\ Cardinality(Owing(e)') + (IF p \in Owing(e) THEN 1 ELSE 0)
                 = Cardinality(Owing(e)) + (IF p \in Owing(e)' THEN 1 ELSE 0)
<1> DEFINE O == Owing(e)  P == Owing(e)'  rest == O \ {p}
<1>1. O \subseteq Processors /\ P \subseteq Processors
  BY DEF Owing
<1>2. P \ {p} = rest
  BY <1>1, OthersStay
<1>3. /\ IsFiniteSet(rest) /\ Cardinality(O) \in Nat
      /\ Cardinality(rest) = IF p \in O THEN Cardinality(O) - 1 ELSE Cardinality(O)
  BY FS_RemoveElement, FS_CardinalityType
<1>4. Cardinality(rest) \in Nat
  BY <1>3, FS_CardinalityType
<1>5. CASE p \in P
  <2>1. P = rest \cup {p}
    BY <1>2, <1>5
  <2>2. p \notin rest
    OBVIOUS
  <2>3. IsFiniteSet(P) /\ Cardinality(P) = Cardinality(rest) + 1
    BY <1>3, <2>1, <2>2, FS_AddElement
  <2> HIDE DEF O, P, rest
  <2>4. Cardinality(P) + (IF p \in O THEN 1 ELSE 0) = Cardinality(O) + 1
    BY <1>3, <1>4, <2>3
  <2>5. IsFiniteSet(P) /\ Cardinality(P) \in Nat
    BY <1>4, <2>3
  <2> USE DEF O, P
  <2> QED BY <1>3, <1>5, <2>4, <2>5
<1>6. CASE p \notin P
  <2>1. P = rest
    BY <1>2, <1>6
  <2> HIDE DEF O, P, rest
  <2>2. Cardinality(P) + (IF p \in O THEN 1 ELSE 0) = Cardinality(O)
    BY <1>3, <1>4, <2>1
  <2>3. IsFiniteSet(P) /\ Cardinality(P) \in Nat
    BY <1>3, <1>4, <2>1
  <2> USE DEF O, P
  <2> QED BY <1>3, <1>6, <2>2, <2>3
<1> QED BY <1>5, <1>6

\* A statement that is answered makes e cost no more than it did.
LEMMA PassPays ==
    ASSUME TypeOK, NEW p \in Processors, Pass(p), NEW e \in Events
    PROVE  Share(p, e)' <= Share(p, e) /\ Faults' = Faults
<1>1. [Next]_vars /\ Faults' = Faults
  BY FaultCount DEF Next, Pass, Recover, Claim, Add, MarkSent, Revert
<1>2. added[e] \in Nat /\ events[e] \in EventRows
  BY DEF TypeOK
<1>3. Lost(e)' => Lost(e)
  BY <1>1, LostByFault, FaultCount
<1>4. CASE Recover(p)
  <2>1. p \notin Owing(e)' /\ added' = added
    BY <1>4 DEF Recover, Owing, TypeOK
  <2>2. Loose(e)' => Loose(e)
    BY <1>2, <1>3, <1>4 DEF Recover, Loose, Lost, Stale
  <2> QED BY <1>1, <1>2, <2>1, <2>2 DEF Share
<1>5. CASE Claim(p)
  <2>1. PICK batch \in SUBSET Pending :
           /\ ClaimRows(batch) /\ todo' = [todo EXCEPT ![p] = batch]
    BY <1>5 DEF Claim
  <2>2. added' = added /\ todo[p] = {} /\ todo'[p] = batch
    BY <1>5, <2>1 DEF Claim, TypeOK
  <2>3. CASE e \in batch
    <3>1. Loose(e) /\ events'[e].status = "PROCESSING" /\ ~events'[e].stale
      BY <1>2, <2>1, <2>3 DEF Loose, ClaimRows, ClaimedEvent, Pending, EventRows
    <3>2. p \in InHand(e)'
      BY <2>2, <2>3 DEF InHand
    <3>3. ~Loose(e)' /\ p \notin Owing(e)
      BY <2>2, <3>1, <3>2 DEF Loose, Lost, Owing
    <3> QED BY <1>1, <1>2, <2>2, <3>1, <3>3 DEF Share
  <2>4. CASE e \notin batch
    <3>1. p \notin Owing(e)'
      BY <2>2, <2>4 DEF Owing
    <3>2. Loose(e)' => Loose(e)
      BY <1>3, <2>1, <2>4 DEF Loose, ClaimRows
    <3> QED BY <1>1, <1>2, <2>2, <3>1, <3>2 DEF Share
  <2> QED BY <2>3, <2>4
<1>6. CASE Add(p)
  <2>1. UNCHANGED <<events, todo>> /\ Current(p)' = Current(p) /\ pc[p] = "adding"
        /\ pc'[p] = "marking"
    BY <1>6 DEF Add, Goto, Current, TypeOK
  <2>2. Loose(e)' <=> Loose(e)
    BY <2>1 DEF Loose, Lost, InHand
  <2>3. todo[p] # {} /\ Current(p) \in todo[p]
    BY <2>1, CurrentInTodo DEF TypeOK
  <2>4. CASE e = Current(p)
    <3>1. p \in Owing(e) /\ p \notin Owing(e)'
      BY <2>1, <2>3, <2>4 DEF Owing
    <3>2. added'[e] = added[e] \/ added'[e] = added[e] + 1
      BY <1>6, <2>4 DEF Add, AddJob, TypeOK
    <3> QED BY <1>1, <1>2, <2>2, <3>1, <3>2 DEF Share
  <2>5. CASE e # Current(p)
    <3>1. p \in Owing(e)' => p \in Owing(e)
      BY <2>1 DEF Owing
    <3>2. added'[e] = added[e]
      BY <1>6, <2>5 DEF Add, AddJob, TypeOK
    <3> QED BY <1>1, <1>2, <2>2, <3>1, <3>2 DEF Share
  <2> QED BY <2>4, <2>5
<1>7. CASE MarkSent(p) \/ Revert(p)
  <2>1. /\ added' = added /\ Advance(p) /\ pc[p] \in {"marking", "reverting"}
        /\ todo[p] # {} /\ Current(p) \in todo[p] /\ todo'[p] = todo[p] \ {Current(p)}
    BY <1>7, CurrentInTodo DEF MarkSent, Revert, Advance, TypeOK
  <2>2. CASE e # Current(p)
    <3>1. events'[e] = events[e]
      BY <1>7, <2>2 DEF MarkSent, Revert, Write, TypeOK
    <3>2. Loose(e)' => Loose(e)
      BY <1>3, <3>1 DEF Loose
    <3>3. p \in Owing(e)' => p \in Owing(e)
      BY <2>1, <2>2 DEF Owing
    <3> QED BY <1>1, <1>2, <2>1, <3>2, <3>3 DEF Share
  <2>3. CASE e = Current(p) /\ MarkSent(p)
    <3>1. events'[e].status = "SENT"
      BY <1>2, <2>3 DEF MarkSent, Write, SentEvent, TypeOK, EventRows
    <3>2. ~Loose(e)' /\ p \notin Owing(e)'
      BY <2>1, <2>3, <3>1 DEF Loose, Lost, Owing
    <3> QED BY <1>1, <1>2, <2>1, <3>2 DEF Share
  <2>4. CASE e = Current(p) /\ Revert(p)
    <3>1. p \in Owing(e) /\ p \notin Owing(e)'
      BY <2>1, <2>4 DEF Owing, Revert
    <3> QED BY <1>1, <1>2, <2>1, <3>1 DEF Share
  <2> QED BY <1>7, <2>2, <2>3, <2>4
<1> QED BY <1>4, <1>5, <1>6, <1>7 DEF Pass

\* A statement or process that fails makes e cost at most one more.
LEMMA FaultPays ==
    ASSUME TypeOK, NEW p \in Processors, Fault(p), NEW e \in Events
    PROVE  Share(p, e)' <= Share(p, e) + 1 /\ Faults' = Faults + 1
<1>1. Faults' = Faults + 1
  <2>1. \E kind \in FaultKinds : Spend(kind)
    BY DEF Fault, RecoverFails, ClaimFails, AddFails, MarkSentFails, RevertFails, Crash, FaultKinds
  <2> QED BY <2>1, FaultCount
<1>2. added[e] \in Nat /\ events[e] \in EventRows
  BY DEF TypeOK
<1>3. CASE RecoverFails(p) \/ ClaimFails(p) \/ RevertFails(p) \/ Crash(p)
  <2>1. added' = added
    BY <1>3 DEF RecoverFails, ClaimFails, RevertFails, Crash
  <2>2. todo'[p] = {}
    BY <1>3 DEF RecoverFails, ClaimFails, RevertFails, Crash, Abort, TypeOK
  <2>3. p \notin Owing(e)'
    BY <2>2 DEF Owing
  <2> QED BY <1>1, <1>2, <2>1, <2>3 DEF Share
<1>4. CASE AddFails(p)
  <2>1. /\ UNCHANGED <<events, todo>> /\ Current(p)' = Current(p)
        /\ pc[p] = "adding" /\ pc'[p] = "reverting"
    BY <1>4 DEF AddFails, Goto, Current, TypeOK
  <2>2. Loose(e)' <=> Loose(e)
    BY <2>1 DEF Loose, Lost, InHand
  <2>3. p \in Owing(e)' <=> p \in Owing(e)
    BY <2>1 DEF Owing
  <2>4. added'[e] = added[e] \/ added'[e] = added[e] + 1
    BY <1>4 DEF AddFails, AddJob, TypeOK
  <2> QED BY <1>1, <1>2, <2>2, <2>3, <2>4 DEF Share
<1>5. CASE MarkSentFails(p)
  <2>1. added' = added /\ todo' = todo /\ pc[p] = "marking"
    BY <1>5 DEF MarkSentFails
  <2>2. events'[e] = events[e] \/ events'[e].status = "SENT"
    <3>1. \/ UNCHANGED events
          \/ events' = [events EXCEPT ![Current(p)] = SentEvent(events[Current(p)])]
      BY <1>5 DEF MarkSentFails, Write
    <3>2. CASE e = Current(p)
      BY <1>2, <3>1, <3>2 DEF SentEvent, TypeOK, EventRows
    <3>3. CASE e # Current(p)
      BY <3>1, <3>3 DEF TypeOK
    <3> QED BY <3>2, <3>3
  <2>3. Loose(e)' => Loose(e)
    BY <2>1, <2>2 DEF Loose, Lost, InHand
  <2> QED BY <1>1, <1>2, <2>1, <2>3 DEF Share
<1> QED BY <1>3, <1>4, <1>5 DEF Fault

\* No process has an event in hand, and nothing was added for it, before it is accepted.
LEMMA AcceptedFirst ==
    ASSUME TypeOK, [Next]_vars, NEW e \in Events, Accounted(e),
           events'[e].status = "absent"
    PROVE  added'[e] = 0 /\ InHand(e)' = {}
<1>1. events[e].status = "absent" /\ events[e] \in EventRows
  <2>1. EventStep(e) /\ events[e] \in EventRows
    BY EventSteps DEF TypeOK
  <2>2. RecoveredEvent(events[e]).status # "absent"
    BY <2>1 DEF RecoveredEvent, EventRows
  <2>3. /\ ClaimedEvent(events[e]).status # "absent"
        /\ SentEvent(events[e]).status # "absent"
        /\ RevertedEvent(events[e]).status # "absent"
    BY <2>1 DEF ClaimedEvent, SentEvent, RevertedEvent, EventRows
  <2> QED BY <2>1, <2>2, <2>3 DEF EventStep, EventRows
<1>2. added[e] = 0 /\ \A p \in Processors : e \notin todo[p]
  BY <1>1 DEF Accounted, InHand
<1>3. ASSUME NEW p \in Processors, Add(p) \/ AddFails(p) PROVE added'[e] = 0
  <2>1. Current(p) \in todo[p]
    BY <1>3, CurrentInTodo DEF Add, AddFails, TypeOK
  <2>2. e # Current(p)
    BY <1>2, <2>1
  <2> QED BY <1>2, <1>3, <2>2 DEF Add, AddFails, AddJob, TypeOK
<1>4. added'[e] = 0
  BY <1>2, <1>3 DEF Next, Accept, JobCompletes, GrowsStale, Pass, Recover, Claim, MarkSent,
     Revert, Fault, RecoverFails, ClaimFails, MarkSentFails, RevertFails, Crash, vars
<1>5. ASSUME NEW p \in Processors PROVE e \notin todo'[p]
  <2>1. ASSUME NEW q \in Processors, Claim(q) PROVE e \notin todo'[p]
    BY <1>1, <1>2, <2>1 DEF Claim, Pending, TypeOK
  <2> QED
    BY <1>2, <2>1 DEF Next, Accept, JobCompletes, GrowsStale, Pass, Recover, Add, MarkSent,
       Revert, Advance, Fault, RecoverFails, ClaimFails, AddFails, MarkSentFails, RevertFails,
       Crash, Abort, vars, TypeOK
<1> QED BY <1>4, <1>5 DEF InHand

\* A step that moves no process.
LEMMA OutsidePays ==
    ASSUME TypeOK, [Next]_vars, NEW e \in Events, Accounted(e),
           UNCHANGED <<pc, todo, added>>,
           \/ UNCHANGED events
           \/ \E f \in Events : Accept(f) \/ GrowsStale(f)
    PROVE  /\ Owing(e)' = Owing(e)
           /\ added[e] + Cardinality(Owing(e)) + (IF Loose(e)' THEN 1 ELSE 0) <= 1 + Faults'
<1>1. Owing(e)' = Owing(e) /\ InHand(e)' = InHand(e)
  BY DEF Owing, Current, InHand
<1>2. /\ Faults \in Nat /\ Faults' \in Nat /\ Faults' >= Faults
      /\ Lost(e)' => Lost(e) \/ Faults' > Faults
      /\ added[e] \in Nat /\ events[e] \in EventRows
  BY FaultCount, FaultsOnlyGrow, LostByFault DEF TypeOK
<1>3. Cardinality(Owing(e)) \in Nat
  BY FS_CardinalityType DEF Accounted
<1>4. CASE Loose(e)' => Loose(e) \/ Faults' > Faults
  BY <1>1, <1>2, <1>3, <1>4 DEF Accounted
<1>5. CASE Loose(e)' /\ ~Loose(e) /\ ~(Faults' > Faults)
  <2>1. events'[e].status = "PENDING" /\ events[e].status # "PENDING"
    BY <1>2, <1>5 DEF Loose
  <2>2. events[e].status = "absent"
    BY <1>2, <2>1 DEF Accept, GrowsStale, TypeOK, EventRows
  <2>3. added[e] = 0 /\ Owing(e) = {}
    BY <2>2 DEF Accounted, Owing, InHand
  <2> QED BY <1>1, <1>2, <2>3, FS_EmptySet
<1> QED BY <1>4, <1>5

LEMMA AccountedStep ==
    ASSUME TypeOK, [Next]_vars, NEW e \in Events, Accounted(e)
    PROVE  Accounted(e)'
<1>1. ASSUME NEW p \in Processors, Pass(p) \/ Fault(p) PROVE Accounted(e)'
  <2> DEFINE before == IF p \in Owing(e) THEN 1 ELSE 0
             after  == IF p \in Owing(e)' THEN 1 ELSE 0
             loose  == IF Loose(e) THEN 1 ELSE 0
             loosed == IF Loose(e)' THEN 1 ELSE 0
             count  == Cardinality(Owing(e))
             counted == Cardinality(Owing(e)')
  <2>1. /\ IsFiniteSet(Owing(e)') /\ count \in Nat /\ counted \in Nat
        /\ counted + before = count + after
    BY <1>1, OwingCount DEF Accounted
  <2>2. /\ added'[e] + after + loosed <= added[e] + before + loose + (Faults' - Faults)
        /\ Faults \in Nat /\ Faults' \in Nat
    <3>1. Share(p, e) = added[e] + before + loose /\ Share(p, e)' = added'[e] + after + loosed
      BY DEF Share
    <3>2. Share(p, e) \in Nat /\ Share(p, e)' \in Nat
      BY ShareTypes, NextTypeOK DEF Share, TypeOK
    <3>3. Faults \in Nat /\ Faults' \in Nat
      BY FaultCount, FaultsOnlyGrow
    <3>4. Share(p, e)' <= Share(p, e) + (Faults' - Faults)
      BY <1>1, <3>2, <3>3, PassPays, FaultPays
    <3> QED BY <3>1, <3>3, <3>4
  <2>3. added[e] + count + loose <= 1 + Faults
    BY DEF Accounted
  <2>4. added[e] \in Nat /\ added'[e] \in Nat
    BY NextTypeOK DEF TypeOK
  <2>5. before \in 0..1 /\ after \in 0..1 /\ loose \in 0..1 /\ loosed \in 0..1
    OBVIOUS
  <2>6. added'[e] + counted + loosed <= 1 + Faults'
    <3> HIDE DEF before, after, loose, loosed, count, counted
    <3> QED BY <2>1, <2>2, <2>3, <2>4, <2>5
  <2> QED BY <2>1, <2>6, AcceptedFirst DEF Accounted
<1>2. ASSUME UNCHANGED <<pc, todo, added>>,
             UNCHANGED events \/ \E f \in Events : Accept(f) \/ GrowsStale(f)
      PROVE  Accounted(e)'
  BY <1>2, OutsidePays, AcceptedFirst DEF Accounted
<1>3. ASSUME NEW f \in Events, Accept(f) \/ GrowsStale(f) PROVE UNCHANGED <<pc, todo, added>>
  BY <1>3 DEF Accept, GrowsStale
<1> QED BY <1>1, <1>2, <1>3 DEF Next, JobCompletes, vars

LEMMA AccountedInvariant == Spec => [](\A e \in Events : Accounted(e))
<1>1. Init => \A e \in Events : Accounted(e)
  <2> SUFFICES ASSUME Init, NEW e \in Events PROVE Accounted(e)
    OBVIOUS
  <2>1. Owing(e) = {} /\ InHand(e) = {} /\ ~Loose(e) /\ added[e] = 0 /\ Faults = 0
    BY DEF Init, Owing, InHand, Loose, Lost, Faults, FaultKinds
  <2> QED BY <2>1, FS_EmptySet DEF Accounted
<1>2. TypeOK /\ (\A e \in Events : Accounted(e)) /\ [Next]_vars
        => (\A e \in Events : Accounted(e))'
  BY AccountedStep
<1> QED BY <1>1, <1>2, TypeCorrect, PTL DEF Spec

\* Delivery repeats itself for cause only: whatever the batch size, the limit and the
\* number of processes, the job of an event is added at most once more for each fault.
THEOREM AddedAgainForCauseOnlyCorrect == Spec => []AddedAgainForCauseOnly
<1>1. TypeOK /\ (\A e \in Events : Accounted(e)) => AddedAgainForCauseOnly
  <2> SUFFICES ASSUME TypeOK, NEW e \in Events, Accounted(e) PROVE added[e] <= 1 + Faults
    BY DEF AddedAgainForCauseOnly
  <2>1. Cardinality(Owing(e)) \in Nat /\ added[e] \in Nat /\ Faults \in Nat
    BY FS_CardinalityType, FaultCount DEF Accounted, TypeOK
  <2> QED BY <2>1 DEF Accounted
<1> QED BY <1>1, TypeCorrect, AccountedInvariant, PTL

\* No fault beyond its bound.
SpentWithinBounds == \A kind \in FaultKinds : spent[kind] <= Bound(kind)

LEMMA SpentInvariant == Spec => []SpentWithinBounds
<1>1. Init => SpentWithinBounds
  BY OutboxBoundsAssumption DEF Init, SpentWithinBounds, FaultKinds, Bound
<1>2. TypeOK /\ SpentWithinBounds /\ [Next]_vars => SpentWithinBounds'
  <2> SUFFICES ASSUME TypeOK, SpentWithinBounds, [Next]_vars PROVE SpentWithinBounds'
    OBVIOUS
  <2>1. UNCHANGED spent \/ \E kind \in FaultKinds : Spend(kind)
    BY DEF Next, Pass, Fault, Accept, JobCompletes, GrowsStale, Recover, Claim, Add, MarkSent,
           Revert, RecoverFails, ClaimFails, AddFails, MarkSentFails, RevertFails, Crash,
           FaultKinds, vars
  <2>2. \A kind \in FaultKinds : spent[kind] \in Nat /\ Bound(kind) \in Nat
    BY OutboxBoundsAssumption DEF TypeOK, FaultKinds, Bound
  <2> QED BY <2>1, <2>2 DEF SpentWithinBounds, Spend, TypeOK
<1> QED BY <1>1, <1>2, TypeCorrect, PTL DEF Spec

\* A process that calls add() finds fewer jobs added than the faults that can happen
\* account for: a bound of as many jobs on the queue holds no add() up
\* (PaymentSim's AddsAssumption).
THEOREM AddsStayWithinBounds ==
    Spec => [](\A p \in Processors : pc[p] = "adding" =>
                  added[Current(p)] < 1 + MaxCrashes + MaxSlow + MaxRedisErrors + MaxDbErrors)
<1> DEFINE Bounded ==
             \A p \in Processors : pc[p] = "adding" =>
                added[Current(p)] < 1 + MaxCrashes + MaxSlow + MaxRedisErrors + MaxDbErrors
<1>1. TypeOK /\ (\A e \in Events : Accounted(e)) /\ SpentWithinBounds => Bounded
  <2> SUFFICES ASSUME TypeOK, \A e \in Events : Accounted(e), SpentWithinBounds,
                      NEW p \in Processors, pc[p] = "adding"
               PROVE  added[Current(p)] < 1 + MaxCrashes + MaxSlow + MaxRedisErrors + MaxDbErrors
    OBVIOUS
  <2> DEFINE e == Current(p)
  <2>1. e \in todo[p] /\ e \in Events
    BY CurrentInTodo DEF TypeOK
  <2>2. p \in Owing(e) /\ Accounted(e)
    BY <2>1 DEF Owing
  <2>3. Cardinality(Owing(e)) \in Nat /\ Cardinality(Owing(e)) # 0
    BY <2>2, FS_CardinalityType, FS_EmptySet DEF Accounted
  <2>4. added[e] \in Nat /\ Faults \in Nat
    BY <2>1, FaultCount DEF TypeOK
  <2>5. added[e] <= Faults
    <3> HIDE DEF e
    <3> QED BY <2>2, <2>3, <2>4 DEF Accounted
  <2>6. Faults <= MaxCrashes + MaxSlow + MaxRedisErrors + MaxDbErrors
    BY OutboxBoundsAssumption DEF SpentWithinBounds, Bound, FaultKinds, Faults, TypeOK
  <2> QED BY <2>4, <2>5, <2>6, OutboxBoundsAssumption
<1> QED BY <1>1, TypeCorrect, AccountedInvariant, SpentInvariant, PTL
=============================================================================
