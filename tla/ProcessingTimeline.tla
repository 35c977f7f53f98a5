------------------------- MODULE ProcessingTimeline -------------------------
(***************************************************************************)
(* The column processing_timeline, beside what TransactionWorker does to   *)
(* the rest of the row.  It is read with the row, extended in the memory   *)
(* of the handler, and written back whole by the claim and by the final    *)
(* write: between the two anybody may have written it.  The resets of the  *)
(* failed handler and of recovery leave it alone.                          *)
(***************************************************************************)
EXTENDS TransactionWorker, SequencesExt

VARIABLES
    timeline,       \* processing_timeline of each row
    copies          \* the handler's own processingTimeline, while it runs

timelineVars == <<vars, timeline, copies>>

\* An entry is told by its message: two of them have the status PROCESSING.
Entries == {"accepted", "started", "processed", "completed", "declined"}

TimelineTypeOK ==
    /\ TypeOK
    /\ timeline \in [Txns -> Seq(Entries)]
    /\ copies \in [Instances -> Seq(Entries)]

TimelineInit ==
    /\ Init
    /\ timeline = [t \in Txns |-> <<"accepted">>]
    /\ copies = [i \in Instances |-> <<>>]

-----------------------------------------------------------------------------
WriteTimeline(i, entries) == timeline' = [timeline EXCEPT ![cur[i]] = entries]

\* Mutant of ReadTimeline: the copy starts from the job's data, which is as old as
\* the payment (the other side of the || in line 61).
ReadTimelineOfJob(i) ==
    /\ ReadTxn(i)
    /\ copies' = [copies EXCEPT ![i] = <<"accepted", "started">>]
    /\ UNCHANGED timeline

\* The copy, with the entry of the claim that is about to be made.
ReadTimeline(i) ==
    /\ ReadTxn(i)
    /\ copies' = [copies EXCEPT ![i] = Append(timeline[cur[i]], "started")]
    /\ UNCHANGED timeline

\* The copy of a handler that is over is gone with it.
CopiesLeft ==
    copies' = [i \in Instances |-> IF pc'[i] \in {"read", "claimed"} THEN copies[i] ELSE <<>>]

\* The timeline written by startTransactionProcessing, if it finds its row.
StartedTimeline(i) ==
    IF CanStart(txns[cur[i]]) THEN WriteTimeline(i, copies[i]) ELSE UNCHANGED timeline

Closing(t) ==
    IF Verdict[t] = "COMPLETED" THEN <<"processed", "completed">> ELSE <<"declined">>

\* The timeline written by finalizeTransactionProcessing, if the row is still owned.
FinalTimeline(i) ==
    IF Owns(txns[cur[i]], i)
    THEN WriteTimeline(i, copies[i] \o Closing(cur[i]))
    ELSE UNCHANGED timeline

ClaimTimeline(i) == Claim(i) /\ StartedTimeline(i) /\ CopiesLeft

FinalizeTimeline(i) == Finalize(i) /\ FinalTimeline(i) /\ CopiesLeft

\* A query that raises wrote the timeline if it wrote the row.
QueryFailsTimeline(i) ==
    /\ QueryFails(i)
    /\ IF txns' = txns THEN UNCHANGED timeline
       ELSE \/ pc[i] = "read" /\ StartedTimeline(i)
            \/ pc[i] = "claimed" /\ FinalTimeline(i)
    /\ CopiesLeft

\* Everything else leaves the column as it is.
Elsewhere ==
    /\ \/ \E t \in Txns : Enqueue(t) \/ RetryDue(t) \/ Stall(t) \/ LeaseExpires(t)
       \/ \E i \in Instances, t \in Txns : TakeJob(i, t) \/ TakeDoomed(i, t)
       \/ \E i \in Instances :
             ProcessorFails(i) \/ CompleteJob(i) \/ FailJob(i) \/ Heartbeat(i) \/ Crash(i)
       \/ \E f \in failures : Handle(f) \/ HandleRetryFails(f) \/ DeadLetterFails(f)
       \/ Recover
    /\ UNCHANGED timeline
    /\ CopiesLeft

TimelineNext ==
    \/ \E i \in Instances :
          \/ ReadTimeline(i) \/ ClaimTimeline(i)
          \/ FinalizeTimeline(i) \/ QueryFailsTimeline(i)
    \/ Elsewhere

TimelineSpec == TimelineInit /\ [][TimelineNext]_timelineVars

-----------------------------------------------------------------------------
StartsIn(entries) == {n \in DOMAIN entries : entries[n] = "started"}

Starts(t) == Cardinality(StartsIn(timeline[t]))

\* Every claim ever made of a row is on its timeline, through retries, crashes and
\* recoveries, unless a process was cut off between reading the row and claiming it
\* (transactionJobHandler.js:36 and 60-74).
EveryClaimIsOnRecord == \A t \in Txns : spent["pauses"] = 0 => Starts(t) = claims[t]

\* The final write (lines 142, 177, 196) only appends, whatever went wrong before:
\* nobody has written the timeline since the claim of a worker that still owns the row.
FinalWriteOnlyAppends ==
    [][\A t \in Txns :
          txns'[t].status \in FinalStatuses => IsPrefix(timeline[t], timeline'[t])]_timelineVars

=============================================================================
