------------------------------- MODULE JobRecord -------------------------------
(***************************************************************************)
(* Jobs/Core: the job record, the state changes it accumulates and the     *)
(* transitions it offers, as pure operators.  Every transition takes the   *)
(* identifiers of the state changes it creates (Guid.NewGuid in the code,  *)
(* a fresh number here), so that the caller decides where they come from.  *)
(*                                                                         *)
(* Left out: tenant, owner, type and payload (copied by every transition   *)
(* and read by none of them), ClaimedAt (the changedAt of the Running      *)
(* change) and the wording of reasons.  The worker named by the reason of  *)
(* a Running change is kept as the field "by".                             *)
(***************************************************************************)
EXTENDS Integers, Sequences, FiniteSets

CONSTANT Workers    \* the worker ids

JobStatus == {"Scheduled", "Queued", "Running", "Completed", "Failed"}

Terminal == {"Completed", "Failed"}
Pending == {"Scheduled", "Queued"}

\* A null DateTimeOffset, a null worker.
NoTime == -1
NoWorker == "no worker"

ASSUME WorkersAssumption == NoWorker \notin Workers

-----------------------------------------------------------------------------
(* JobStateChange *)

StateChange(id, status, changedAt, by, scheduledAt) ==
    [id |-> id, status |-> status, changedAt |-> changedAt,
     by |-> by, scheduledAt |-> scheduledAt]

QueuedChange(id, at) == StateChange(id, "Queued", at, NoWorker, NoTime)
ScheduledChange(id, at, runAt) == StateChange(id, "Scheduled", at, NoWorker, runAt)
RunningChange(id, at, worker) == StateChange(id, "Running", at, worker, NoTime)
SettledChange(id, at, status) == StateChange(id, status, at, NoWorker, NoTime)

-----------------------------------------------------------------------------
(* JobRecord.  AttemptCount is computed from the history, as in the code. *)

AttemptsIn(history) ==
    Cardinality({i \in DOMAIN history : history[i].status = "Running"})

AttemptCount(job) == AttemptsIn(job.history)

\* The two factories, Enqueue and Schedule: a new record has no claim and is not
\* acknowledged.
NewJob(change, runAt, maxAttempts) ==
    [status |-> change.status, currentStateChangeId |-> change.id, runAt |-> runAt,
     claimedBy |-> NoWorker, leaseExpiresAt |-> NoTime,
     acknowledged |-> FALSE, maxAttempts |-> maxAttempts,
     failureReason |-> FALSE, history |-> <<change>>]

EnqueuedJob(id, maxAttempts, enqueuedAt) ==
    NewJob(QueuedChange(id, enqueuedAt), enqueuedAt, maxAttempts)

ScheduledJob(id, maxAttempts, scheduledAt, changedAt) ==
    NewJob(ScheduledChange(id, changedAt, scheduledAt), scheduledAt, maxAttempts)

\* Mutations of Unclaimed: the acknowledgement is cleared; the history starts over.
Unclaimed_Unacknowledged(job, change, runAt) ==
    [job EXCEPT !.status = change.status, !.currentStateChangeId = change.id,
                !.runAt = runAt, !.claimedBy = NoWorker, !.leaseExpiresAt = NoTime,
                !.history = Append(@, change), !.acknowledged = FALSE]

Unclaimed_HistoryReplaced(job, change, runAt) ==
    [job EXCEPT !.status = change.status, !.currentStateChangeId = change.id,
                !.runAt = runAt, !.claimedBy = NoWorker, !.leaseExpiresAt = NoTime,
                !.history = <<change>>]

\* What every transition but a claim does: append the change, make it the current
\* one and drop the claim.
Unclaimed(job, change, runAt) ==
    [job EXCEPT !.status = change.status, !.currentStateChangeId = change.id,
                !.runAt = runAt, !.claimedBy = NoWorker, !.leaseExpiresAt = NoTime,
                !.history = Append(@, change)]

\* TransitionTo, for the two statuses the program passes to it.
Requeued(job, id, at) == Unclaimed(job, QueuedChange(id, at), at)

Completed(job, id, at) == Unclaimed(job, SettledChange(id, at, "Completed"), NoTime)

\* TransitionToFailed.
Failed(job, id, at) ==
    [Unclaimed(job, SettledChange(id, at, "Failed"), NoTime)
        EXCEPT !.failureReason = TRUE]

\* Mutation of Claimed: a status the enumeration does not have.
Claimed_UnknownStatus(job, worker, id, claimedAt, leaseExpiresAt) ==
    [job EXCEPT !.status = "Claimed", !.currentStateChangeId = id,
                !.runAt = NoTime, !.claimedBy = worker,
                !.leaseExpiresAt = leaseExpiresAt,
                !.history = Append(@, RunningChange(id, claimedAt, worker))]

\* Claim and ReclaimExpiredLease build the same record; they differ in the record
\* they accept, a Queued one or a Running one whose lease has expired.
Claimed(job, worker, id, claimedAt, leaseExpiresAt) ==
    [job EXCEPT !.status = "Running", !.currentStateChangeId = id,
                !.runAt = NoTime, !.claimedBy = worker,
                !.leaseExpiresAt = leaseExpiresAt,
                !.history = Append(@, RunningChange(id, claimedAt, worker))]

\* Mutations of RetryScheduled: the Failed change stays current; the retry is due
\* when the failure is recorded.
RetryScheduled_FailedIsCurrent(job, id, failedAt, scheduledAt) ==
    [Unclaimed([job EXCEPT !.history =
                    Append(@, SettledChange(id, failedAt, "Failed"))],
               ScheduledChange(id + 1, failedAt, scheduledAt), scheduledAt)
        EXCEPT !.failureReason = TRUE, !.currentStateChangeId = id]

RetryScheduled_DueAtOnce(job, id, failedAt, scheduledAt) ==
    [Unclaimed([job EXCEPT !.history =
                    Append(@, SettledChange(id, failedAt, "Failed"))],
               ScheduledChange(id + 1, failedAt, scheduledAt), failedAt)
        EXCEPT !.failureReason = TRUE]

\* ScheduleRetry appends two changes, Failed (id) and Scheduled (id + 1).
RetryScheduled(job, id, failedAt, scheduledAt) ==
    [Unclaimed([job EXCEPT !.history =
                    Append(@, SettledChange(id, failedAt, "Failed"))],
               ScheduledChange(id + 1, failedAt, scheduledAt), scheduledAt)
        EXCEPT !.failureReason = TRUE]

-----------------------------------------------------------------------------
(* Sets for the type invariants, and what invariants say of a record. *)

StateChanges ==
    [id : Nat, status : JobStatus, changedAt : Nat,
     by : Workers \cup {NoWorker}, scheduledAt : Nat \cup {NoTime}]

JobRecords ==
    [status : JobStatus, currentStateChangeId : Nat, runAt : Nat \cup {NoTime},
     claimedBy : Workers \cup {NoWorker}, leaseExpiresAt : Nat \cup {NoTime},
     acknowledged : BOOLEAN, maxAttempts : Nat \ {0}, failureReason : BOOLEAN,
     history : Seq(StateChanges)]

\* Worker w wrote the Running change with this id.
WroteClaim(history, id, w) ==
    \E i \in DOMAIN history :
        history[i].id = id /\ history[i].status = "Running" /\ history[i].by = w

\* The stage, in JobOwnership, of a record (or of "Absent") at a time.
StageAt(job, at) ==
    CASE job.status = "Absent" -> "absent"
      [] job.status \in Pending -> "waiting"
      [] job.status \in Terminal -> "settled"
      [] job.status = "Running" ->
             IF job.leaseExpiresAt > at THEN "running" ELSE "lapsed"
=============================================================================
