---------------------------- MODULE InMemoryJobStore ----------------------------
(***************************************************************************)
(* Jobs/Storage/InMemoryJobStore.cs: the other implementation of IJobStore. *)
(* A dictionary of records, and beside it a sorted index of the pending     *)
(* jobs so that a claim does not look at all of them.  Every operation runs  *)
(* under one lock and is one step here; a claim answers with the record it    *)
(* has just written.                                                       *)
(***************************************************************************)
EXTENDS JobRecord

CONSTANT JobIds   \* the ids of the jobs; entries are compared by them last

ASSUME JobIdsAssumption == JobIds \subseteq Nat

VARIABLES
    jobs,         \* _jobsById: the record of each job, or NoJob
    pending,      \* _pendingJobs: a set of entries, sorted by Before
    lastId,       \* the last state-change id handed out (Guid.NewGuid)
    now           \* DateTimeOffset.UtcNow

storeVars == <<jobs, pending, lastId>>

NoJob == [status |-> "Absent"]

Exists(j) == jobs[j] # NoJob

Write(j, job, n) ==
    /\ jobs' = [jobs EXCEPT ![j] = job]
    /\ lastId' = lastId + n

-----------------------------------------------------------------------------
(* JobQueueEntry *)

Entry(runAt, addedAt, j) == [runAt |-> runAt, addedAt |-> addedAt, job |-> j]

\* JobRecord.ScheduledAt: that of the last Scheduled change.
ScheduledAt(job) ==
    LET scheduled == {i \in DOMAIN job.history : job.history[i].status = "Scheduled"}
        last == CHOOSE i \in scheduled : \A k \in scheduled : k <= i
    IN  IF scheduled = {} THEN NoTime ELSE job.history[last].scheduledAt

EnqueuedAt(job) == job.history[1].changedAt

\* Mutation of EntryFor: a retry is filed under the date of the enqueue.
EntryFor_Enqueued(job, j) == Entry(EnqueuedAt(job), now, j)

EntryFor(job, j) ==
    Entry(IF ScheduledAt(job) # NoTime THEN ScheduledAt(job) ELSE EnqueuedAt(job),
          now, j)

\* Mutation of Before: the time an entry was added comes first.
Before_AddedAtFirst(e, f) ==
    \/ e.addedAt < f.addedAt
    \/ e.addedAt = f.addedAt /\ e.runAt < f.runAt
    \/ e.addedAt = f.addedAt /\ e.runAt = f.runAt /\ e.job < f.job

\* CompareTo
Before(e, f) ==
    \/ e.runAt < f.runAt
    \/ e.runAt = f.runAt /\ e.addedAt < f.addedAt
    \/ e.runAt = f.runAt /\ e.addedAt = f.addedAt /\ e.job < f.job

-----------------------------------------------------------------------------
(* NextDuePendingOrExpiredRunningJob *)

\* The pending entry to be taken: the first of the index, once its time has come.
IsDuePending(e, at) ==
    /\ e \in pending
    /\ \A f \in pending : f = e \/ Before(e, f)
    /\ e.runAt <= at

Expired(at) ==
    {j \in JobIds : /\ jobs[j].status = "Running"
                    /\ jobs[j].leaseExpiresAt # NoTime
                    /\ jobs[j].leaseExpiresAt <= at}

IsFirstExpired(j, at) ==
    /\ j \in Expired(at)
    /\ \A k \in Expired(at) :
         \/ jobs[j].leaseExpiresAt < jobs[k].leaseExpiresAt
         \/ jobs[j].leaseExpiresAt = jobs[k].leaseExpiresAt /\ j <= k

\* The entry an expired job competes with: ClaimedAt is the date of its last change.
ExpiredEntry(j) ==
    LET h == jobs[j].history
    IN  Entry(jobs[j].leaseExpiresAt, h[Len(h)].changedAt, j)

\* An expired job goes first only if its entry compares below the pending one.
IsNextExpired(j, at) ==
    /\ IsFirstExpired(j, at)
    /\ \A e \in pending : IsDuePending(e, at) => Before(ExpiredEntry(j), e)

IsNextPending(e, at) ==
    /\ IsDuePending(e, at)
    /\ \A j \in JobIds : IsFirstExpired(j, at) => ~Before(ExpiredEntry(j), e)

-----------------------------------------------------------------------------
(* The operations. *)

\* AddPendingJobUnderLock
AddPending(job, j) ==
    pending' = IF job.status \in Pending
               THEN pending \cup {EntryFor(job, j)}
               ELSE pending

Refused == UNCHANGED storeVars

Add(j, job) ==
    /\ ~Exists(j)
    /\ Write(j, job, 1)
    /\ AddPending(job, j)

ReclaimExpired(j, worker, at, leaseExpiresAt) ==
    /\ IsNextExpired(j, at)
    /\ Write(j, Claimed(jobs[j], worker, lastId + 1, at, leaseExpiresAt), 1)
    /\ UNCHANGED pending

\* The head of the index.  A record that is neither Scheduled nor Queued is not claimed
\* through its entry (the code throws); IndexExact says that there is none.
ClaimPending(e, worker, at, leaseExpiresAt) ==
    /\ IsNextPending(e, at)
    /\ pending' = pending \ {e}
    /\ LET job == jobs[e.job] IN
       \/ /\ job.status = "Scheduled"
          /\ Write(e.job, Claimed(Requeued(job, lastId + 1, at),
                                  worker, lastId + 2, at, leaseExpiresAt), 2)
       \/ /\ job.status = "Queued"
          /\ Write(e.job, Claimed(job, worker, lastId + 1, at, leaseExpiresAt), 1)

\* Job j is what TryClaimNextDueJob answers.
TryClaimNextDueJob(j, worker, at, leaseExpiresAt) ==
    /\ leaseExpiresAt > at
    /\ \/ ReclaimExpired(j, worker, at, leaseExpiresAt)
       \/ \E e \in pending : e.job = j /\ ClaimPending(e, worker, at, leaseExpiresAt)

\* Mutation of IsCurrentClaim: the change id is not compared.
IsCurrentClaim_AnyId(j, stateChangeId) == jobs[j].status = "Running"

IsCurrentClaim(j, stateChangeId) ==
    /\ jobs[j].status = "Running"
    /\ jobs[j].currentStateChangeId = stateChangeId

MarkCompleted(j, stateChangeId) ==
    IF IsCurrentClaim(j, stateChangeId)
    THEN Write(j, Completed(jobs[j], lastId + 1, now), 1) /\ UNCHANGED pending
    ELSE Refused

\* JobRecord.RenewLease
LeaseRenewed(job, leaseExpiresAt) == [job EXCEPT !.leaseExpiresAt = leaseExpiresAt]

RenewLease(j, stateChangeId, renewedAt, leaseExpiresAt) ==
    IF leaseExpiresAt > renewedAt /\ IsCurrentClaim(j, stateChangeId)
    THEN Write(j, LeaseRenewed(jobs[j], leaseExpiresAt), 0) /\ UNCHANGED pending
    ELSE Refused

MarkFailed(j, stateChangeId, blankReason) ==
    IF ~blankReason /\ IsCurrentClaim(j, stateChangeId)
    THEN Write(j, Failed(jobs[j], lastId + 1, now), 1) /\ UNCHANGED pending
    ELSE Refused

\* Mutation of ScheduleRetry: the attempts are not counted.
ScheduleRetry_Unlimited(j, stateChangeId, blankReason, scheduledAt) ==
    IF ~blankReason /\ IsCurrentClaim(j, stateChangeId)
    THEN LET retried == RetryScheduled(jobs[j], lastId + 1, now, scheduledAt)
         IN  Write(j, retried, 2) /\ AddPending(retried, j)
    ELSE Refused

ScheduleRetry(j, stateChangeId, blankReason, scheduledAt) ==
    IF /\ ~blankReason
       /\ IsCurrentClaim(j, stateChangeId)
       /\ AttemptCount(jobs[j]) < jobs[j].maxAttempts
    THEN LET retried == RetryScheduled(jobs[j], lastId + 1, now, scheduledAt)
         IN  Write(j, retried, 2) /\ AddPending(retried, j)
    ELSE Refused

\* JobRecord.Acknowledge
Acknowledge(j) ==
    IF Exists(j)
    THEN Write(j, [jobs[j] EXCEPT !.acknowledged = TRUE], 0) /\ UNCHANGED pending
    ELSE Refused

-----------------------------------------------------------------------------
StoreInit ==
    /\ jobs = [j \in JobIds |-> NoJob]
    /\ pending = {}
    /\ lastId = 0
    /\ now = 0

StoreTypeOK ==
    /\ jobs \in [JobIds -> JobRecords \cup {NoJob}]
    /\ pending \subseteq [runAt : Nat, addedAt : Nat, job : JobIds]
    /\ lastId \in Nat
    /\ now \in Nat
=============================================================================
