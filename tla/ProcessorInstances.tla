------------------------- MODULE ProcessorInstances -------------------------
(***************************************************************************)
(* Every run of worker.js draws a fresh processorInstanceId                *)
(* (jobs/transactionWorker.js:10).  An element of Instances is one such    *)
(* run of the process: when it crashes it never comes back, and the        *)
(* process that replaces it is another element.                            *)
(***************************************************************************)
CONSTANTS
    Instances,      \* the runs of the worker process
    NoInstance      \* NULL in processor_instance_id, or a job nobody holds

ASSUME NoInstanceAssumption == NoInstance \notin Instances

MaybeInstance == Instances \cup {NoInstance}
=============================================================================
