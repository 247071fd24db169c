-------------------------- MODULE JobLifecycleService --------------------------
(***************************************************************************)
(* Jobs/Lifecycle/JobLifecycleService.cs over the SQLite store: what the   *)
(* API calls to enqueue a job and a worker to report an execution.         *)
(* ClaimNextDueJob and RenewLease pass their arguments to the store.       *)
(***************************************************************************)
EXTENDS SqliteJobStore

CONSTANTS
    MaxAttempts,  \* RetryPolicy.MaxAttempts of the job type
    RetryDelay    \* RetryPolicy.Delay

ASSUME RetryPolicyAssumption == MaxAttempts \in Nat \ {0} /\ RetryDelay \in Nat

\* Enqueue: an id never used before, run at once or after a delay.
Enqueue(j, delay) ==
    Add(j, IF delay > 0
           THEN ScheduledJob(lastId + 1, MaxAttempts, now + delay, now)
           ELSE EnqueuedJob(lastId + 1, MaxAttempts, now))

\* Mutation of CompleteExecution: the last attempt is never used.
CompleteExecution_OneLess(claim, succeeded, at) ==
    IF succeeded
    THEN MarkCompleted(claim.job, claim.id)
    ELSE IF claim.attempts + 1 < MaxAttempts
         THEN ScheduleRetry(claim.job, claim.id, FALSE, at + RetryDelay)
         ELSE MarkFailed(claim.job, claim.id, FALSE)

\* CompleteExecution of the claim a worker holds: the copy of the job it was handed
\* decides between a retry and a failure, and the retry delay runs from the clock
\* ("at") the service read before it called the store.
CompleteExecution(claim, succeeded, at) ==
    IF succeeded
    THEN MarkCompleted(claim.job, claim.id)
    ELSE IF claim.attempts < MaxAttempts
         THEN ScheduleRetry(claim.job, claim.id, FALSE, at + RetryDelay)
         ELSE MarkFailed(claim.job, claim.id, FALSE)
=============================================================================
