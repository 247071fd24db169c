------------------------------ MODULE JobAttempts ------------------------------
(***************************************************************************)
(* JobRecord.BuildAttempts: the list of attempts that the API and the pages *)
(* show, rebuilt from the history of a job each time it is asked for.       *)
(* An attempt's CompletedAt and FailedAt are one field, finishedAt, told     *)
(* apart by the status; the reason of a failure is left out.                *)
(***************************************************************************)
EXTENDS SqliteJobStore

Attempt(number, status, startedAt, finishedAt) ==
    [number |-> number, status |-> status,
     startedAt |-> startedAt, finishedAt |-> finishedAt]

\* The loop's state: the attempts so far and the start of the open one (runningChange).
Scan(attempts, startedAt) == [attempts |-> attempts, startedAt |-> startedAt]

IsOpen(scan) == scan.startedAt # NoTime

Close(scan, status, finishedAt) ==
    Append(scan.attempts,
           Attempt(Len(scan.attempts) + 1, status, scan.startedAt, finishedAt))

\* Mutation of ScanChange: runningChange is not reset when an attempt ends.
ScanChange_NotReset(scan, change) ==
    CASE change.status = "Running" -> Scan(scan.attempts, change.changedAt)
      [] change.status \in Terminal /\ IsOpen(scan) ->
             Scan(Close(scan, change.status, change.changedAt), scan.startedAt)
      [] OTHER -> scan

\* The body of the loop.  A Running change replaces the one before it.
ScanChange(scan, change) ==
    CASE change.status = "Running" -> Scan(scan.attempts, change.changedAt)
      [] change.status \in Terminal /\ IsOpen(scan) ->
             Scan(Close(scan, change.status, change.changedAt), NoTime)
      [] OTHER -> scan

\* The state of the loop after each number of changes.
Scans(history) ==
    LET scans[n \in 0 .. Len(history)] ==
          IF n = 0 THEN Scan(<<>>, NoTime) ELSE ScanChange(scans[n - 1], history[n])
    IN  scans

BuildAttempts(history) ==
    LET scan == Scans(history)[Len(history)]
    IN  IF IsOpen(scan) THEN Close(scan, "Running", NoTime) ELSE scan.attempts

-----------------------------------------------------------------------------
\* The claims that were not taken over: each is an attempt that ended with the next
\* change or is still going on.
FinalClaims(history) ==
    {i \in DOMAIN history :
        /\ history[i].status = "Running"
        /\ i + 1 \in DOMAIN history => history[i + 1].status # "Running"}

\* Their numbers: from one, in the order of the history.
AttemptNumber(history, i) == Cardinality({k \in FinalClaims(history) : k <= i})

AttemptAt(history, i) ==
    IF i + 1 \in DOMAIN history
    THEN Attempt(AttemptNumber(history, i), history[i + 1].status,
                 history[i].changedAt, history[i + 1].changedAt)
    ELSE Attempt(AttemptNumber(history, i), "Running", history[i].changedAt, NoTime)

\* What a list of attempts should be: one for each final claim, in its place, with the
\* start of the claim and the end that the change after it records.
AreAttemptsOf(attempts, history) ==
    /\ Len(attempts) = Cardinality(FinalClaims(history))
    /\ \A i \in FinalClaims(history) :
         attempts[AttemptNumber(history, i)] = AttemptAt(history, i)

\* The attempts shown are the claims that were not taken over, through retries,
\* takeovers and delays.
AttemptsMatchHistory ==
    \A j \in Stored : AreAttemptsOf(BuildAttempts(jobs[j].history), jobs[j].history)

\* What JobRecordTests.cs:371 (AttemptsProjectMultipleRunsFromStateHistory) says of
\* a retried job, for every job: the list has as many attempts as AttemptCount, the
\* number that the pages show above it.
OneAttemptPerRun ==
    \A j \in Stored : Len(BuildAttempts(jobs[j].history)) = AttemptCount(jobs[j])
=============================================================================
