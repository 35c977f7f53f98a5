-------------------------- MODULE TransactionStore --------------------------
(***************************************************************************)
(* The row of the transactions table, and what each SQL statement of       *)
(* store/store.js does to one row.  The row keeps the columns that decide  *)
(* control: status, the lease columns and retry_count.  The four lease     *)
(* columns are written together by every statement, so they are the pair   *)
(* owner (processor_instance_id) and lease (lease_expires_at against       *)
(* CURRENT_TIMESTAMP); route, reason, result and timeline are left out.    *)
(***************************************************************************)
EXTENDS Naturals, ProcessorInstances

Statuses == {"ACCEPTED", "PROCESSING", "COMPLETED", "DECLINED", "FAILED"}

FinalStatuses == {"COMPLETED", "DECLINED", "FAILED"}

\* lease_expires_at: NULL, in the future, in the past.
Leases == {"none", "live", "expired"}

Rows == [status: Statuses, owner: MaybeInstance, lease: Leases, retryCount: Nat]

\* The row saveTransactionWithOutbox inserts.
AcceptedRow ==
    [status |-> "ACCEPTED", owner |-> NoInstance, lease |-> "none", retryCount |-> 0]

WithoutLease(row) == [row EXCEPT !.owner = NoInstance, !.lease = "none"]

-----------------------------------------------------------------------------
(* startTransactionProcessing *)

\* Mutants, here and below: what a plausible mistake would make of the definition
\* that follows.  Nothing uses them.
CanStartAny(row) == TRUE

CanStart(row) == row.status = "ACCEPTED"

Started(row, instance) ==
    [row EXCEPT !.status = "PROCESSING", !.owner = instance, !.lease = "live"]

-----------------------------------------------------------------------------
(* The WHERE clause shared by renewTransactionProcessingLease and          *)
(* finalizeTransactionProcessing, and what the two write.                  *)

OwnsAnyInstance(row, instance) == row.status = "PROCESSING"

Owns(row, instance) == row.status = "PROCESSING" /\ row.owner = instance

Renewed(row) == [row EXCEPT !.lease = "live"]

Finalized(row, status) == [WithoutLease(row) EXCEPT !.status = status]

-----------------------------------------------------------------------------
(* recoverStaleProcessingTransactions *)

AbandonedWithoutLease(row) == row.status = "PROCESSING" /\ row.lease = "none"

Abandoned(row) == row.status = "PROCESSING" /\ row.lease = "expired"

RecoveredToFailed(row) == [WithoutLease(row) EXCEPT !.status = "FAILED"]

RecoveredToPending(row) == [WithoutLease(row) EXCEPT !.status = "PENDING"]

Recovered(row) == [WithoutLease(row) EXCEPT !.status = "ACCEPTED"]

-----------------------------------------------------------------------------
(* updateTransaction as the failed handler calls it, with clearProcessing: *)
(* WHERE txn_id only, whatever the status and whoever the owner.           *)

UpdatedKeepingStatus(row, status, retryCount) ==
    [WithoutLease(row) EXCEPT !.retryCount = retryCount]

Updated(row, status, retryCount) ==
    [WithoutLease(row) EXCEPT !.status = status, !.retryCount = retryCount]
=============================================================================
