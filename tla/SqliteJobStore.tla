----------------------------- MODULE SqliteJobStore -----------------------------
(***************************************************************************)
(* Jobs/Persistence/SqliteJobStore.cs: the table of jobs and the           *)
(* operations on it.  Each operation of the code runs in one transaction   *)
(* that EF Core opens with BEGIN IMMEDIATE, or is one UPDATE statement;     *)
(* SQLite lets one writer in at a time, so an operation is one step here.  *)
(* TryClaimNextDueJob is the exception: it reads its answer back after the  *)
(* commit.  That is a second step in WorkerPool (ReloadClaim).              *)
(***************************************************************************)
EXTENDS JobRecord

CONSTANT JobIds   \* the ids of the jobs; the claim query orders by them

ASSUME JobIdsAssumption == JobIds \subseteq Nat

VARIABLES
    jobs,         \* the row of each job with its history, or NoJob
    lastId,       \* the last state-change id handed out (Guid.NewGuid)
    now           \* DateTimeOffset.UtcNow

storeVars == <<jobs, lastId>>

NoJob == [status |-> "Absent"]

Exists(j) == jobs[j] # NoJob

\* The rows the store writes, with the n changes they add numbered from lastId + 1.
Write(j, job, n) ==
    /\ jobs' = [jobs EXCEPT ![j] = job]
    /\ lastId' = lastId + n

\* Mutations of IsCurrentClaim: the status is not checked; the id is not checked.
IsCurrentClaim_AnyStatus(j, stateChangeId) ==
    Exists(j) /\ jobs[j].currentStateChangeId = stateChangeId

IsCurrentClaim_AnyId(j, stateChangeId) == jobs[j].status = "Running"

\* The condition of every UPDATE made for the owner of a claim.
IsCurrentClaim(j, stateChangeId) ==
    /\ jobs[j].status = "Running"
    /\ jobs[j].currentStateChangeId = stateChangeId

-----------------------------------------------------------------------------
(* TryClaimNextDueJob *)

\* Mutations of IsDue: any running job is due; a lease expires one unit early; RunAt
\* is not compared; expired leases are not looked for.
IsDue_LeaseIgnored(job, at) ==
    \/ job.status \in Pending /\ job.runAt <= at
    \/ job.status = "Running"

IsDue_LeaseExpiresEarly(job, at) ==
    \/ job.status \in Pending /\ job.runAt <= at
    \/ job.status = "Running" /\ job.leaseExpiresAt <= at + 1

IsDue_RunAtIgnored(job, at) ==
    \/ job.status \in Pending
    \/ job.status = "Running" /\ job.leaseExpiresAt <= at

IsDue_NoReclaim(job, at) == job.status \in Pending /\ job.runAt <= at

IsDue(job, at) ==
    \/ /\ job.status \in Pending
       /\ job.runAt # NoTime
       /\ job.runAt <= at
    \/ /\ job.status = "Running"
       /\ job.leaseExpiresAt # NoTime
       /\ job.leaseExpiresAt <= at

Due(at) == {j \in JobIds : IsDue(jobs[j], at)}

DueTime(job) == IF job.status = "Running" THEN job.leaseExpiresAt ELSE job.runAt

\* The job the query returns: the earliest due, the smaller id among equals.
IsNextDue(j, at) ==
    /\ j \in Due(at)
    /\ \A k \in Due(at) :
         \/ DueTime(jobs[j]) < DueTime(jobs[k])
         \/ DueTime(jobs[j]) = DueTime(jobs[k]) /\ j <= k

\* Mutation of TryClaimNextDueJob: a Scheduled job is claimed without being queued.
TryClaimNextDueJob_SkipsQueued(j, worker, at, leaseExpiresAt) ==
    /\ IsNextDue(j, at)
    /\ leaseExpiresAt > at
    /\ Write(j, Claimed(jobs[j], worker, lastId + 1, at, leaseExpiresAt), 1)

\* A worker whose clock read "at" claims job j until leaseExpiresAt.  A Scheduled
\* job passes through Queued on the way.  The row is the one the query read, so
\* the conditional UPDATE finds it.
TryClaimNextDueJob(j, worker, at, leaseExpiresAt) ==
    /\ IsNextDue(j, at)
    /\ leaseExpiresAt > at
    /\ \/ /\ jobs[j].status \in {"Running", "Queued"}
          /\ Write(j, Claimed(jobs[j], worker, lastId + 1, at, leaseExpiresAt), 1)
       \/ /\ jobs[j].status = "Scheduled"
          /\ Write(j, Claimed(Requeued(jobs[j], lastId + 1, at),
                              worker, lastId + 2, at, leaseExpiresAt), 2)

-----------------------------------------------------------------------------
(* The other operations.  Each answers whether it updated the row; when the  *)
(* row is not the caller's any more it changes nothing.                      *)

Add(j, job) == ~Exists(j) /\ Write(j, job, 1)

Refused == UNCHANGED storeVars

MarkCompleted(j, stateChangeId) ==
    IF IsCurrentClaim(j, stateChangeId)
    THEN Write(j, Completed(jobs[j], lastId + 1, now), 1)
    ELSE Refused

MarkFailed(j, stateChangeId, blankReason) ==
    IF IsCurrentClaim(j, stateChangeId) /\ ~blankReason
    THEN Write(j, Failed(jobs[j], lastId + 1, now), 1)
    ELSE Refused

\* Mutation of ScheduleRetry: one retry too many.
ScheduleRetry_OneMore(j, stateChangeId, blankReason, scheduledAt) ==
    IF /\ IsCurrentClaim(j, stateChangeId)
       /\ AttemptCount(jobs[j]) <= jobs[j].maxAttempts
       /\ ~blankReason
    THEN Write(j, RetryScheduled(jobs[j], lastId + 1, now, scheduledAt), 2)
    ELSE Refused

ScheduleRetry(j, stateChangeId, blankReason, scheduledAt) ==
    IF /\ IsCurrentClaim(j, stateChangeId)
       /\ AttemptCount(jobs[j]) < jobs[j].maxAttempts
       /\ ~blankReason
    THEN Write(j, RetryScheduled(jobs[j], lastId + 1, now, scheduledAt), 2)
    ELSE Refused

\* Mutation of RenewLease: the time of the renewal is stored as the new expiry.
RenewLease_StoresRenewedAt(j, stateChangeId, renewedAt, leaseExpiresAt) ==
    IF leaseExpiresAt > renewedAt /\ IsCurrentClaim(j, stateChangeId)
    THEN Write(j, [jobs[j] EXCEPT !.leaseExpiresAt = renewedAt], 0)
    ELSE Refused

\* One UPDATE: the lease may already have expired, only a reclaim moves the id on.
RenewLease(j, stateChangeId, renewedAt, leaseExpiresAt) ==
    IF leaseExpiresAt > renewedAt /\ IsCurrentClaim(j, stateChangeId)
    THEN Write(j, [jobs[j] EXCEPT !.leaseExpiresAt = leaseExpiresAt], 0)
    ELSE Refused

\* One UPDATE of the two acknowledgement columns, whatever the status.
Acknowledge(j) ==
    IF Exists(j) THEN Write(j, [jobs[j] EXCEPT !.acknowledged = TRUE], 0)
                 ELSE Refused

-----------------------------------------------------------------------------
StoreInit ==
    /\ jobs = [j \in JobIds |-> NoJob]
    /\ lastId = 0
    /\ now = 0

StoreTypeOK ==
    /\ jobs \in [JobIds -> JobRecords \cup {NoJob}]
    /\ lastId \in Nat
    /\ now \in Nat

-----------------------------------------------------------------------------
(* What the rows promise, whoever calls the operations above. *)

Stored == {j \in JobIds : Exists(j)}

LegalSteps ==
    {<<"Scheduled", "Queued">>, <<"Queued", "Running">>, <<"Running", "Running">>,
     <<"Running", "Completed">>, <<"Running", "Failed">>, <<"Failed", "Scheduled">>}

Steps(history) == 1 .. Len(history) - 1

\* Every history starts pending and moves along the lifecycle only: no job is
\* completed or failed without running, none runs from Failed without a retry being
\* scheduled.  The changes of one transaction are appended together, behind the
\* ones the transaction read.
HistoryLegal ==
    \A j \in Stored : LET h == jobs[j].history IN
        /\ h[1].status \in Pending
        /\ \A i \in Steps(h) : <<h[i].status, h[i + 1].status>> \in LegalSteps

\* The columns of the row tell the same story as the last change of its history:
\* its id guards the next UPDATE, its worker holds the lease, and exactly the
\* pending jobs have a time to run at, exactly the running ones a lease.  The
\* code writes the row and the history in separate statements.
RowMatchesHistory ==
    \A j \in Stored :
        LET job == jobs[j]
            last == job.history[Len(job.history)]
        IN  /\ job.currentStateChangeId = last.id
            /\ job.status = last.status
            /\ job.claimedBy = last.by
            /\ (job.leaseExpiresAt # NoTime) <=> (job.status = "Running")
            /\ (job.runAt # NoTime) <=> (job.status \in Pending)

\* A delayed job and a retry never start before their time: the change after a
\* Scheduled one is dated at or after the moment that was scheduled, although the
\* claim is dated with a clock read before the transaction.
NeverEarly ==
    \A j \in Stored : LET h == jobs[j].history IN
        \A i \in Steps(h) :
            h[i].status = "Scheduled" => h[i + 1].changedAt >= h[i].scheduledAt

\* Retries stay within MaxAttempts: a failure is followed by another try only if,
\* counting the failed one, fewer than MaxAttempts had been started.
RetriesWithinBudget ==
    \A j \in Stored : LET h == jobs[j].history IN
        \A i \in Steps(h) :
            h[i].status = "Failed"
              => AttemptsIn(SubSeq(h, 1, i)) < jobs[j].maxAttempts
=============================================================================
