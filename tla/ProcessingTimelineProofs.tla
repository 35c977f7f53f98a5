---------------------- MODULE ProcessingTimelineProofs ----------------------
(* Theorems of ProcessingTimeline, on top of those of TransactionWorker. *)
EXTENDS ProcessingTimeline, TransactionWorkerProofs, FiniteSetTheorems

-----------------------------------------------------------------------------
(* The timeline is an addition: the rest of the row is TransactionWorker's *)

LEMMA TimelineStep == TimelineNext => Next
BY DEF TimelineNext, ReadTimeline, ClaimTimeline, FinalizeTimeline, QueryFailsTimeline,
       Elsewhere, Next, Step, Fault

LEMMA TimelineSpecIsSpec == TimelineSpec => Spec
<1>1. TimelineInit => Init
  BY DEF TimelineInit
<1>2. [TimelineNext]_timelineVars => [Next]_vars
  BY TimelineStep DEF timelineVars
<1> QED BY <1>1, <1>2, PTL DEF TimelineSpec, Spec

-----------------------------------------------------------------------------
(* Types *)

LEMMA WriteTimelineTypes ==
    ASSUME TimelineTypeOK, NEW i \in Instances, cur[i] \in Txns,
           NEW entries \in Seq(Entries), WriteTimeline(i, entries)
    PROVE  timeline' \in [Txns -> Seq(Entries)]
BY DEF TimelineTypeOK, WriteTimeline

LEMMA StartedTimelineTypes ==
    ASSUME TimelineTypeOK, NEW i \in Instances, cur[i] \in Txns, StartedTimeline(i)
    PROVE  timeline' \in [Txns -> Seq(Entries)]
<1>1. copies[i] \in Seq(Entries)
  BY DEF TimelineTypeOK
<1> QED BY <1>1, WriteTimelineTypes DEF StartedTimeline, TimelineTypeOK

LEMMA ClosingTypes == \A t : Closing(t) \in Seq(Entries)
<1>1. <<"processed", "completed">> \in Seq(Entries)
  BY DEF Entries
<1>2. <<"declined">> \in Seq(Entries)
  BY DEF Entries
<1> QED BY <1>1, <1>2 DEF Closing

LEMMA FinalTimelineTypes ==
    ASSUME TimelineTypeOK, NEW i \in Instances, cur[i] \in Txns, FinalTimeline(i)
    PROVE  timeline' \in [Txns -> Seq(Entries)]
<1>1. copies[i] \in Seq(Entries) /\ Closing(cur[i]) \in Seq(Entries)
  BY ClosingTypes DEF TimelineTypeOK
<1>2. copies[i] \o Closing(cur[i]) \in Seq(Entries)
  BY <1>1
<1> QED BY <1>2, WriteTimelineTypes DEF FinalTimeline, TimelineTypeOK

LEMMA CopiesLeftTypes ==
    ASSUME TimelineTypeOK, CopiesLeft
    PROVE  copies' \in [Instances -> Seq(Entries)]
<1>1. \A i \in Instances : copies[i] \in Seq(Entries) /\ <<>> \in Seq(Entries)
  BY DEF TimelineTypeOK
<1> QED BY <1>1 DEF CopiesLeft

LEMMA TimelineTypeStep ==
    ASSUME TimelineTypeOK, [TimelineNext]_timelineVars
    PROVE  TimelineTypeOK'
<1>1. TypeOK /\ TypeOK'
  <2>1. TypeOK /\ [Next]_vars
    BY TimelineStep DEF TimelineTypeOK, timelineVars
  <2> QED BY <2>1, NextTypeOK
<1> DEFINE Typed ==
      timeline' \in [Txns -> Seq(Entries)] /\ copies' \in [Instances -> Seq(Entries)]
<1>2. SUFFICES Typed
  BY <1>1 DEF TimelineTypeOK
<1>3. CASE UNCHANGED timelineVars
  BY <1>3 DEF timelineVars, TimelineTypeOK
<1>4. ASSUME NEW i \in Instances, ReadTimeline(i) PROVE Typed
  <2>1. cur[i] \in Txns
    BY <1>1, <1>4 DEF ReadTimeline, ReadTxn, TypeOK
  <2>2. timeline[cur[i]] \in Seq(Entries)
    BY <2>1 DEF TimelineTypeOK
  <2>3. Append(timeline[cur[i]], "started") \in Seq(Entries)
    BY <2>2 DEF Entries
  <2> QED BY <1>4, <2>3 DEF ReadTimeline, TimelineTypeOK
<1>5. ASSUME NEW i \in Instances, ClaimTimeline(i) PROVE Typed
  <2>1. cur[i] \in Txns
    BY <1>1, <1>5 DEF ClaimTimeline, Claim, TypeOK
  <2> QED BY <1>5, <2>1, StartedTimelineTypes, CopiesLeftTypes DEF ClaimTimeline
<1>6. ASSUME NEW i \in Instances, FinalizeTimeline(i) PROVE Typed
  <2>1. cur[i] \in Txns
    BY <1>1, <1>6 DEF FinalizeTimeline, Finalize, TypeOK
  <2> QED BY <1>6, <2>1, FinalTimelineTypes, CopiesLeftTypes DEF FinalizeTimeline
<1>7. ASSUME NEW i \in Instances, QueryFailsTimeline(i) PROVE Typed
  <2>1. cur[i] \in Txns
    BY <1>1, <1>7 DEF QueryFailsTimeline, QueryFails, TypeOK
  <2> QED
    BY <1>7, <2>1, StartedTimelineTypes, FinalTimelineTypes, CopiesLeftTypes
    DEF QueryFailsTimeline, TimelineTypeOK
<1>8. CASE Elsewhere
  BY <1>8, CopiesLeftTypes DEF Elsewhere, TimelineTypeOK
<1> QED
  BY <1>3, <1>4, <1>5, <1>6, <1>7, <1>8 DEF TimelineNext

\* In every deployment timelines are lists of entries, none inside another.
THEOREM TimelineTypeCorrect == TimelineSpec => []TimelineTypeOK
<1>1. TimelineInit => TimelineTypeOK
  <2>1. <<"accepted">> \in Seq(Entries) /\ <<>> \in Seq(Entries)
    BY DEF Entries
  <2> QED BY <2>1, InitTypeOK DEF TimelineInit, TimelineTypeOK
<1> QED BY <1>1, TimelineTypeStep, PTL DEF TimelineSpec
-----------------------------------------------------------------------------
(* The final write appends *)

\* What a worker would append to is what the row has, as long as it owns the row.
CopyIsCurrent ==
    \A i \in Instances :
        pc[i] = "claimed" /\ Owns(txns[cur[i]], i) => timeline[cur[i]] = copies[i]

\* A step that changes a timeline is a claim or the final write of a row.
LEMMA TimelineSteps ==
    ASSUME TimelineTypeOK, [TimelineNext]_timelineVars
    PROVE  \/ UNCHANGED timeline /\ claims' = claims
           \/ \E j \in Instances :
                 /\ pc[j] = "read" /\ CanStart(txns[cur[j]])
                 /\ ClaimRow(j) /\ WriteTimeline(j, copies[j])
                 /\ Claim(j) \/ pc'[j] = "threw"
           \/ \E j \in Instances :
                 /\ pc[j] = "claimed" /\ Owns(txns[cur[j]], j)
                 /\ WriteTimeline(j, copies[j] \o Closing(cur[j]))
                 /\ pc'[j] # "claimed" /\ claims' = claims
<1>1. TypeOK /\ \A i \in Instances : pc[i] \in {"taken", "read", "claimed"} => cur[i] \in Txns
  BY DEF TimelineTypeOK, TypeOK
<1>2. CASE UNCHANGED timelineVars
  BY <1>2 DEF timelineVars, vars
<1>3. ASSUME NEW i \in Instances, ReadTimeline(i) PROVE UNCHANGED timeline /\ claims' = claims
  BY <1>3 DEF ReadTimeline, ReadTxn
<1>4. ASSUME NEW i \in Instances, ClaimTimeline(i)
      PROVE  \/ UNCHANGED timeline /\ claims' = claims
             \/ /\ pc[i] = "read" /\ CanStart(txns[cur[i]]) /\ Claim(i)
                /\ ClaimRow(i) /\ WriteTimeline(i, copies[i])
  BY <1>4 DEF ClaimTimeline, Claim, ClaimRow, StartedTimeline
<1>5. ASSUME NEW i \in Instances, FinalizeTimeline(i)
      PROVE  \/ UNCHANGED timeline /\ claims' = claims
             \/ /\ pc[i] = "claimed" /\ Owns(txns[cur[i]], i)
                /\ WriteTimeline(i, copies[i] \o Closing(cur[i]))
                /\ pc'[i] # "claimed" /\ claims' = claims
  BY <1>1, <1>5 DEF FinalizeTimeline, Finalize, FinalTimeline, Goto, TypeOK
<1>6. ASSUME NEW i \in Instances, QueryFailsTimeline(i)
      PROVE  \/ UNCHANGED timeline /\ claims' = claims
             \/ /\ pc[i] = "read" /\ CanStart(txns[cur[i]]) /\ pc'[i] = "threw"
                /\ ClaimRow(i) /\ WriteTimeline(i, copies[i])
             \/ /\ pc[i] = "claimed" /\ Owns(txns[cur[i]], i)
                /\ WriteTimeline(i, copies[i] \o Closing(cur[i]))
                /\ pc'[i] # "claimed" /\ claims' = claims
  <2>1. pc'[i] = "threw"
    BY <1>1, <1>6 DEF QueryFailsTimeline, QueryFails, Goto, TypeOK
  <2>2. CASE txns' = txns
    <3>1. ~(CanStart(txns[cur[i]]) /\ pc[i] = "read" /\ ClaimRow(i))
      <4> SUFFICES ASSUME CanStart(txns[cur[i]]), pc[i] = "read", ClaimRow(i) PROVE FALSE
        OBVIOUS
      <4>1. cur[i] \in Txns /\ txns[cur[i]] \in Rows
        BY <1>1 DEF TypeOK
      <4>2. txns'[cur[i]] = Started(txns[cur[i]], i)
        BY <4>1, <1>1 DEF ClaimRow, TypeOK
      <4>3. txns'[cur[i]].status = "PROCESSING" /\ txns[cur[i]].status = "ACCEPTED"
        BY <4>1, <4>2 DEF CanStart, Started, Rows
      <4> QED BY <2>2, <4>3
    <3>2. claims' = claims
      BY <1>6, <3>1 DEF QueryFailsTimeline, QueryFails, ClaimRow
    <3> QED BY <1>6, <2>2, <3>2 DEF QueryFailsTimeline
  <2>3. CASE txns' # txns /\ pc[i] = "read"
    BY <1>6, <2>1, <2>3 DEF QueryFailsTimeline, QueryFails, ClaimRow, StartedTimeline
  <2>4. CASE txns' # txns /\ pc[i] = "claimed"
    BY <1>6, <2>1, <2>4 DEF QueryFailsTimeline, QueryFails, FinalizeRow, FinalTimeline
  <2> QED BY <1>6, <2>2, <2>3, <2>4 DEF QueryFailsTimeline
<1>7. CASE Elsewhere
  BY <1>7 DEF Elsewhere, Enqueue, RetryDue, Stall, LeaseExpires, TakeJob, TakeDoomed,
     ProcessorFails, CompleteJob, FailJob, Heartbeat, Crash, Die, Handle, HandleRetry,
     SaveDeadLetter, MarkFailed, HandleRetryFails, DeadLetterFails, Recover
<1> QED BY <1>2, <1>3, <1>4, <1>5, <1>6, <1>7 DEF TimelineNext

LEMMA CopiesOfClaimsStay ==
    ASSUME TimelineTypeOK, [TimelineNext]_timelineVars,
           NEW i \in Instances, pc'[i] = "claimed"
    PROVE  copies'[i] = copies[i]
<1>1. ASSUME NEW j \in Instances, ReadTimeline(j) PROVE copies'[i] = copies[i]
  <2>1. j # i
    BY <1>1 DEF ReadTimeline, ReadTxn, Goto, TimelineTypeOK, TypeOK
  <2> QED BY <1>1, <2>1 DEF ReadTimeline, TimelineTypeOK
<1>2. CASE CopiesLeft
  BY <1>2 DEF CopiesLeft
<1> QED
  BY <1>1, <1>2 DEF TimelineNext, ClaimTimeline, FinalizeTimeline, QueryFailsTimeline,
     Elsewhere, timelineVars

LEMMA CopyIsCurrentStep ==
    ASSUME TimelineTypeOK, CopyIsCurrent, [TimelineNext]_timelineVars
    PROVE  CopyIsCurrent'
<1> SUFFICES ASSUME NEW i \in Instances, pc'[i] = "claimed", Owns(txns'[cur'[i]], i)
             PROVE  timeline'[cur'[i]] = copies'[i]
  BY DEF CopyIsCurrent, Owns
<1>1. TypeOK /\ [Next]_vars
  BY TimelineStep DEF TimelineTypeOK, timelineVars
<1>2. copies'[i] = copies[i]
  BY CopiesOfClaimsStay
<1>3. Claim(i) => claims' # claims /\ pc' = [pc EXCEPT ![i] = "claimed"]
  <2> SUFFICES ASSUME Claim(i) PROVE claims' # claims /\ pc' = [pc EXCEPT ![i] = "claimed"]
    OBVIOUS
  <2>1. CanStart(txns[cur[i]]) /\ cur[i] \in Txns
    BY <1>1 DEF Claim, Goto, TypeOK
  <2>2. claims'[cur[i]] = claims[cur[i]] + 1 /\ claims[cur[i]] \in Nat
    BY <1>1, <2>1 DEF Claim, ClaimRow, TypeOK
  <2> QED BY <2>1, <2>2 DEF Claim, Goto
<1>4. CASE claims' = claims
  <2>1. pc[i] = "claimed" /\ cur'[i] = cur[i] /\ cur[i] \in Txns
    BY <1>1, <1>3, <1>4, ClaimedSteps DEF TypeOK
  <2>2. Owns(txns[cur[i]], i)
    BY <1>1, <1>4, <2>1, RowSteps, OthersKeepOwner
  <2>3. timeline[cur[i]] = copies[i]
    BY <2>1, <2>2 DEF CopyIsCurrent
  <2>4. ASSUME NEW j \in Instances, pc[j] = "claimed", Owns(txns[cur[j]], j),
               pc'[j] # "claimed", WriteTimeline(j, copies[j] \o Closing(cur[j]))
        PROVE  timeline'[cur[i]] = timeline[cur[i]]
    <3>1. cur[j] # cur[i]
      BY <2>2, <2>4 DEF Owns
    <3> QED BY <2>1, <2>4, <3>1 DEF WriteTimeline, TimelineTypeOK
  <2>5. timeline'[cur[i]] = timeline[cur[i]]
    <3>1. ASSUME NEW j \in Instances, ClaimRow(j), CanStart(txns[cur[j]]), pc[j] = "read"
          PROVE  FALSE
      BY <1>1, <1>4, <3>1 DEF ClaimRow, TypeOK
    <3> QED BY <2>4, <3>1, TimelineSteps
  <2> QED BY <1>2, <2>1, <2>3, <2>5
<1>5. ASSUME NEW j \in Instances, pc[j] = "read", CanStart(txns[cur[j]]), ClaimRow(j),
             WriteTimeline(j, copies[j]), Claim(j) \/ pc'[j] = "threw"
      PROVE  timeline'[cur'[i]] = copies'[i]
  <2>1. cur[j] \in Txns
    BY <1>1, <1>5 DEF TypeOK
  <2>2. CASE j = i
    <3>1. cur'[i] = cur[i]
      BY <1>5, <2>2 DEF Claim
    <3> QED BY <1>2, <1>5, <2>1, <2>2, <3>1 DEF WriteTimeline, TimelineTypeOK
  <2>3. CASE j # i
    <3>1. pc'[j] # "read"
      BY <1>1, <1>5 DEF Claim, Goto, TypeOK
    <3>2. ~Claim(i)
      BY <1>1, <1>3, <1>5, <2>3, <3>1 DEF TypeOK
    <3>3. pc[i] = "claimed" /\ cur'[i] = cur[i] /\ cur[i] \in Txns
      BY <1>1, <3>2, ClaimedSteps DEF TypeOK
    <3>4. cur[i] # cur[j]
      <4>1. txns'[cur[j]] = Started(txns[cur[j]], j) /\ txns[cur[j]] \in Rows
        BY <1>1, <1>5, <2>1 DEF ClaimRow, TypeOK
      <4>2. txns'[cur[j]].owner = j
        BY <4>1 DEF Started, Rows
      <4> QED BY <2>3, <3>3, <4>2 DEF Owns
    <3>5. Owns(txns[cur[i]], i) /\ timeline'[cur[i]] = timeline[cur[i]]
      BY <1>1, <1>5, <2>1, <3>3, <3>4 DEF ClaimRow, WriteTimeline, TimelineTypeOK, TypeOK
    <3> QED BY <1>2, <3>3, <3>5 DEF CopyIsCurrent
  <2> QED BY <2>2, <2>3
<1> QED BY <1>4, <1>5, TimelineSteps

LEMMA AppendedPrefix ==
    ASSUME NEW s \in Seq(Entries), NEW u \in Seq(Entries)
    PROVE  IsPrefix(s, s) /\ IsPrefix(s, s \o u)
<1>1. Len(s) \in Nat /\ Len(s) <= Len(s \o u)
  OBVIOUS
<1>2. SubSeq(s, 1, Len(s)) = s /\ SubSeq(s \o u, 1, Len(s)) = s
  OBVIOUS
<1> QED BY <1>1, <1>2 DEF IsPrefix

LEMMA FinalWriteAppends ==
    ASSUME TimelineTypeOK, CopyIsCurrent, [TimelineNext]_timelineVars,
           NEW t \in Txns, txns'[t].status \in FinalStatuses
    PROVE  IsPrefix(timeline[t], timeline'[t])
<1>1. timeline[t] \in Seq(Entries) /\ IsPrefix(timeline[t], timeline[t])
  BY AppendedPrefix DEF TimelineTypeOK
<1>2. ASSUME NEW j \in Instances, pc[j] = "read", CanStart(txns[cur[j]]), ClaimRow(j),
             WriteTimeline(j, copies[j])
      PROVE  timeline'[t] = timeline[t]
  <2>1. cur[j] \in Txns
    BY <1>2 DEF TimelineTypeOK, TypeOK
  <2>2. txns'[cur[j]] = Started(txns[cur[j]], j) /\ txns[cur[j]] \in Rows
    BY <1>2, <2>1 DEF ClaimRow, TimelineTypeOK, TypeOK
  <2>3. txns'[cur[j]].status = "PROCESSING"
    BY <2>2 DEF Started, Rows
  <2>4. t # cur[j]
    BY <2>3 DEF FinalStatuses
  <2> QED BY <1>2, <2>1, <2>4 DEF WriteTimeline, TimelineTypeOK
<1>3. ASSUME NEW j \in Instances, pc[j] = "claimed", Owns(txns[cur[j]], j),
             WriteTimeline(j, copies[j] \o Closing(cur[j]))
      PROVE  IsPrefix(timeline[t], timeline'[t])
  <2>1. cur[j] \in Txns /\ timeline[cur[j]] = copies[j]
    BY <1>3 DEF CopyIsCurrent, TimelineTypeOK, TypeOK
  <2>2. CASE t = cur[j]
    <3>1. timeline'[t] = timeline[t] \o Closing(cur[j])
      BY <1>3, <2>1, <2>2 DEF WriteTimeline, TimelineTypeOK
    <3> QED BY <1>1, <3>1, ClosingTypes, AppendedPrefix
  <2>3. CASE t # cur[j]
    BY <1>1, <1>3, <2>1, <2>3 DEF WriteTimeline, TimelineTypeOK
  <2> QED BY <2>2, <2>3
<1> QED BY <1>1, <1>2, <1>3, TimelineSteps

\* In every deployment, with any number of faults, a final write loses nothing that the
\* timeline had: a worker that still owns its row has the row's timeline in memory.
THEOREM FinalWriteOnlyAppendsCorrect == TimelineSpec => FinalWriteOnlyAppends
<1>1. TimelineInit => CopyIsCurrent
  BY DEF TimelineInit, Init, CopyIsCurrent
<1>2. TimelineSpec => [](TimelineTypeOK /\ CopyIsCurrent)
  BY <1>1, TimelineTypeCorrect, CopyIsCurrentStep, PTL DEF TimelineSpec
<1>3. ASSUME TimelineTypeOK, CopyIsCurrent, [TimelineNext]_timelineVars
      PROVE  [\A t \in Txns : txns'[t].status \in FinalStatuses
                => IsPrefix(timeline[t], timeline'[t])]_timelineVars
  BY <1>3, FinalWriteAppends
<1> QED BY <1>2, <1>3, PTL DEF TimelineSpec, FinalWriteOnlyAppends

-----------------------------------------------------------------------------
(* Every claim is on record *)

LEMMA StartsAreFinite ==
    ASSUME NEW s \in Seq(Entries)
    PROVE  IsFiniteSet(StartsIn(s)) /\ Cardinality(StartsIn(s)) \in Nat
<1>1. DOMAIN s = 1 .. Len(s) /\ Len(s) \in Nat
  OBVIOUS
<1>2. IsFiniteSet(1 .. Len(s))
  BY <1>1, FS_Interval
<1>3. StartsIn(s) \subseteq 1 .. Len(s)
  BY <1>1 DEF StartsIn
<1> QED BY <1>2, <1>3, FS_Subset, FS_CardinalityType

\* The entry of a claim counts once, and those of a final write do not.
LEMMA StartsAppended ==
    ASSUME NEW s \in Seq(Entries)
    PROVE  Cardinality(StartsIn(Append(s, "started"))) = Cardinality(StartsIn(s)) + 1
<1>1. StartsIn(Append(s, "started")) = StartsIn(s) \cup {Len(s) + 1}
  BY DEF StartsIn
<1>2. Len(s) + 1 \notin StartsIn(s)
  BY DEF StartsIn
<1> QED BY <1>1, <1>2, StartsAreFinite, FS_AddElement

LEMMA StartsClosed ==
    ASSUME NEW s \in Seq(Entries), NEW t
    PROVE  StartsIn(s \o Closing(t)) = StartsIn(s)
<1>1. \A n \in 1 .. Len(Closing(t)) : Closing(t)[n] # "started"
  BY DEF Closing
<1>2. Closing(t) \in Seq(Entries)
  BY ClosingTypes
<1> QED BY <1>1, <1>2 DEF StartsIn

\* As long as nobody was cut off, a worker about to claim a row has the row's
\* timeline in memory, with the entry of its claim.
RecordInv ==
    spent["pauses"] = 0 =>
        /\ \A i \in Instances :
              pc[i] = "read" => copies[i] = Append(timeline[cur[i]], "started")
        /\ \A t \in Txns : Starts(t) = claims[t]

\* A process is about to claim only if it was, or reads now.
LEMMA ReadSteps ==
    ASSUME TimelineTypeOK, [TimelineNext]_timelineVars, NEW i \in Instances, pc'[i] = "read"
    PROVE  \/ ReadTimeline(i)
           \/ pc[i] = "read" /\ cur'[i] = cur[i] /\ copies'[i] = copies[i]
<1>1. ASSUME NEW j \in Instances, NEW stage, stage # "read", Goto(j, stage),
             \/ UNCHANGED cur
             \/ \E t \in Txns \cup {NoTxn} : cur' = [cur EXCEPT ![j] = t]
      PROVE  pc[i] = "read" /\ cur'[i] = cur[i]
  BY <1>1 DEF Goto, TimelineTypeOK, TypeOK
<1>2. ASSUME NEW j \in Instances, Die(j) PROVE pc[i] = "read" /\ cur'[i] = cur[i]
  BY <1>1, <1>2 DEF Die
<1>3. CASE UNCHANGED timelineVars
  BY <1>3 DEF timelineVars, vars
<1>4. ASSUME NEW j \in Instances, ReadTimeline(j), j # i
      PROVE  pc[i] = "read" /\ cur'[i] = cur[i] /\ copies'[i] = copies[i]
  BY <1>4 DEF ReadTimeline, ReadTxn, Goto, TimelineTypeOK, TypeOK
<1>5. CopiesLeft => copies'[i] = copies[i]
  BY DEF CopiesLeft
<1>6. ASSUME NEW j \in Instances,
             ClaimTimeline(j) \/ FinalizeTimeline(j) \/ QueryFailsTimeline(j)
      PROVE  pc[i] = "read" /\ cur'[i] = cur[i] /\ copies'[i] = copies[i]
  BY <1>1, <1>5, <1>6 DEF ClaimTimeline, FinalizeTimeline, QueryFailsTimeline, Claim, Finalize,
     QueryFails
<1>7. CASE Elsewhere
  <2>1. ASSUME NEW j \in Instances,
               \/ \E t \in Txns : TakeJob(j, t) \/ TakeDoomed(j, t)
               \/ ProcessorFails(j) \/ CompleteJob(j) \/ FailJob(j) \/ Heartbeat(j) \/ Crash(j)
        PROVE  pc[i] = "read" /\ cur'[i] = cur[i]
    <3>1. CASE \E t \in Txns : TakeJob(j, t)
      BY <1>1, <3>1 DEF TakeJob
    <3>2. CASE (\E t \in Txns : TakeDoomed(j, t)) \/ Heartbeat(j)
      BY <3>2 DEF TakeDoomed, Heartbeat
    <3>3. CASE ProcessorFails(j) \/ CompleteJob(j) \/ FailJob(j)
      BY <1>1, <3>3 DEF ProcessorFails, CompleteJob, FailJob, Release
    <3>4. CASE Crash(j)
      BY <1>2, <3>4 DEF Crash
    <3> QED BY <2>1, <3>1, <3>2, <3>3, <3>4
  <2>2. ASSUME NEW f \in failures, Handle(f) \/ HandleRetryFails(f) \/ DeadLetterFails(f)
        PROVE  pc[i] = "read" /\ cur'[i] = cur[i]
    <3>1. f.by \in Instances
      BY DEF TimelineTypeOK, TypeOK, Failures
    <3> QED BY <1>2, <2>2, <3>1 DEF Handle, HandleRetry, SaveDeadLetter, MarkFailed,
               HandleRetryFails, DeadLetterFails
  <2>3. ASSUME NEW t \in Txns, Enqueue(t) \/ RetryDue(t) \/ Stall(t) \/ LeaseExpires(t)
        PROVE  pc[i] = "read" /\ cur'[i] = cur[i]
    BY <2>3 DEF Enqueue, RetryDue, Stall, LeaseExpires
  <2>4. Recover => pc[i] = "read" /\ cur'[i] = cur[i]
    BY DEF Recover
  <2> QED BY <1>5, <1>7, <2>1, <2>2, <2>3, <2>4 DEF Elsewhere
<1> QED BY <1>3, <1>4, <1>6, <1>7 DEF TimelineNext

LEMMA RecordStep ==
    ASSUME TimelineTypeOK, CopyIsCurrent, LossesHaveCause, RecordInv,
           [TimelineNext]_timelineVars
    PROVE  RecordInv'
<1>1. TypeOK /\ [Next]_vars
  BY TimelineStep DEF TimelineTypeOK, timelineVars
<1> SUFFICES ASSUME spent'["pauses"] = 0
             PROVE  /\ \A i \in Instances :
                          pc'[i] = "read" => copies'[i] = Append(timeline'[cur'[i]], "started")
                    /\ \A t \in Txns : Starts(t)' = claims'[t]
  BY DEF RecordInv
<1>2. spent["pauses"] = 0
  BY <1>1, SpentOnlyGrows DEF FaultKinds
<1>3. /\ \A i \in Instances : pc[i] = "read" => copies[i] = Append(timeline[cur[i]], "started")
      /\ \A t \in Txns : Starts(t) = claims[t]
  BY <1>2 DEF RecordInv
<1>4. ASSUME NEW i \in Instances, NEW j \in Instances, cur[i] = cur[j], cur[i] \in Txns
      PROVE  i = j
  BY <1>2, <1>4 DEF LossesHaveCause, CutOff, HoldsLock
<1>5. \A i \in Instances : pc[i] \in {"taken", "read", "claimed"} => cur[i] \in Txns
  BY <1>1 DEF TypeOK
<1>6. ASSUME NEW i \in Instances, pc'[i] = "read"
      PROVE  copies'[i] = Append(timeline'[cur'[i]], "started")
  <2>1. CASE ReadTimeline(i)
    BY <1>5, <2>1 DEF ReadTimeline, ReadTxn, TimelineTypeOK
  <2>2. CASE pc[i] = "read" /\ cur'[i] = cur[i] /\ copies'[i] = copies[i]
    <3>1. timeline'[cur[i]] = timeline[cur[i]]
      <4>1. ASSUME NEW j \in Instances, NEW entries, WriteTimeline(j, entries), j # i,
                   pc[j] \in {"read", "claimed"}
            PROVE  timeline'[cur[i]] = timeline[cur[i]]
        <5>1. cur[i] # cur[j] /\ cur[i] \in Txns
          BY <1>4, <1>5, <2>2, <4>1
        <5> QED BY <4>1, <5>1 DEF WriteTimeline, TimelineTypeOK
      <4>2. ASSUME NEW j \in Instances, Claim(j) \/ pc'[j] = "threw", pc[j] = "read" PROVE j # i
        BY <1>1, <1>6, <4>2 DEF Claim, Goto, TypeOK
      <4> QED BY <2>2, <4>1, <4>2, TimelineSteps
    <3> QED BY <1>3, <2>2, <3>1
  <2> QED BY <1>6, <2>1, <2>2, ReadSteps
<1>7. ASSUME NEW t \in Txns PROVE Starts(t)' = claims'[t]
  <2>1. /\ timeline[t] \in Seq(Entries) /\ Starts(t) = claims[t]
        /\ Starts(t)' = Cardinality(StartsIn(timeline'[t]))
        /\ Starts(t) = Cardinality(StartsIn(timeline[t]))
    BY <1>3 DEF TimelineTypeOK, Starts
  <2>2. CASE UNCHANGED timeline /\ claims' = claims
    BY <2>1, <2>2
  <2>3. ASSUME NEW j \in Instances, pc[j] = "read", CanStart(txns[cur[j]]),
               ClaimRow(j), WriteTimeline(j, copies[j])
        PROVE  Starts(t)' = claims'[t]
    <3>1. cur[j] \in Txns /\ copies[j] = Append(timeline[cur[j]], "started")
      BY <1>3, <1>5, <2>3
    <3>2. CASE cur[j] = t
      <4>1. timeline'[t] = Append(timeline[t], "started") /\ claims'[t] = claims[t] + 1
        BY <1>1, <2>3, <3>1, <3>2 DEF WriteTimeline, ClaimRow, TimelineTypeOK, TypeOK
      <4> QED BY <2>1, <4>1, StartsAppended
    <3>3. CASE cur[j] # t
      <4>1. timeline'[t] = timeline[t] /\ claims'[t] = claims[t]
        BY <1>1, <2>3, <3>1, <3>3 DEF WriteTimeline, ClaimRow, TimelineTypeOK, TypeOK
      <4> QED BY <2>1, <4>1
    <3> QED BY <3>2, <3>3
  <2>4. ASSUME NEW j \in Instances, pc[j] = "claimed", Owns(txns[cur[j]], j),
               WriteTimeline(j, copies[j] \o Closing(cur[j])), claims' = claims
        PROVE  Starts(t)' = claims'[t]
    <3>1. cur[j] \in Txns /\ copies[j] = timeline[cur[j]]
      BY <1>5, <2>4 DEF CopyIsCurrent
    <3>2. timeline'[t] = IF cur[j] = t THEN timeline[t] \o Closing(t) ELSE timeline[t]
      BY <2>4, <3>1 DEF WriteTimeline, TimelineTypeOK
    <3> QED BY <2>1, <2>4, <3>2, StartsClosed
  <2> QED BY <2>2, <2>3, <2>4, TimelineSteps
<1> QED BY <1>6, <1>7

\* In every deployment, with crashes, retries, recoveries and failed statements: as
\* long as no process is cut off, the timeline has one entry for each claim.
THEOREM EveryClaimIsOnRecordCorrect == TimelineSpec => []EveryClaimIsOnRecord
<1>1. TimelineInit => RecordInv /\ CopyIsCurrent
  <2>1. StartsIn(<<"accepted">>) = {}
    BY DEF StartsIn
  <2> QED BY <2>1, FS_EmptySet DEF TimelineInit, Init, RecordInv, CopyIsCurrent, Starts
<1>2. TimelineSpec => [](TimelineTypeOK /\ CopyIsCurrent)
  BY <1>1, TimelineTypeCorrect, CopyIsCurrentStep, PTL DEF TimelineSpec
<1>3. LossesInv => LossesHaveCause
  BY DEF LossesInv
<1>4. TimelineSpec => []RecordInv
  BY <1>1, <1>2, <1>3, TimelineSpecIsSpec, LossesInvariant, RecordStep, PTL DEF TimelineSpec
<1>5. RecordInv => EveryClaimIsOnRecord
  BY DEF RecordInv, EveryClaimIsOnRecord
<1> QED BY <1>4, <1>5, PTL
=============================================================================
