------------------------ MODULE SqliteTransactionsProofs ------------------------
(***************************************************************************)
(* Theorems about SqliteTransactions, for any callers, jobs and bounds: the  *)
(* write lock belongs to the open transaction, the statements of the store's   *)
(* operations implement the atomic operations of AtomicStore, and the rows     *)
(* that are committed keep what StoreClients promises of them.                *)
(***************************************************************************)
EXTENDS SqliteTransactions, JobRecordProofs, SequenceTheorems

-----------------------------------------------------------------------------
(* The inductive invariant.  What a call works with is stated of the values of  *)
(* the variables, so that a step that leaves these alone keeps it.              *)

ClaimOp == "TryClaimNextDueJob"
SingleUpdates == {"RenewLease", "Acknowledge"}
Transitions == {ClaimOp, "MarkCompleted", "MarkFailed", "ScheduleRetry"}

\* IsNextDue, Added and Successor with the table and the last id as arguments.
DueFirst(table, j, at) ==
    /\ IsDue(table[j], at)
    /\ \A k \in JobIds : IsDue(table[k], at) =>
         \/ DueTime(table[j]) < DueTime(table[k])
         \/ DueTime(table[j]) = DueTime(table[k]) /\ j <= k

AddedRecord(r, last) ==
    IF r.until > r.at
    THEN ScheduledJob(last + 1, MaxAttempts, r.until, r.at)
    ELSE EnqueuedJob(last + 1, MaxAttempts, r.at)

NextRecord(r, job, at, last) ==
    CASE r.op = ClaimOp ->
             IF job.status = "Scheduled"
             THEN Claimed(Requeued(job, last + 1, r.at),
                          r.worker, last + 2, r.at, r.until)
             ELSE Claimed(job, r.worker, last + 1, r.at, r.until)
      [] r.op = "MarkCompleted" -> Completed(job, last + 1, at)
      [] r.op = "MarkFailed" -> Failed(job, last + 1, at)
      [] r.op = "ScheduleRetry" -> RetryScheduled(job, last + 1, at, r.until)

\* The requests that are made, and what the first checks leave of them.
Legal(r) ==
    /\ r \in Requests
    /\ r.op # ClaimOp => r.job \in JobIds
    /\ r.op = ClaimOp => r.worker \in Workers /\ r.at < r.until

Fitting(point, r) ==
    /\ point = "idle" => r = NoRequest
    /\ point # "idle" => Legal(r)
    /\ point \notin {"idle", "enter", "return"} => ~Invalid(r)
    /\ point = "autocommit" => r.op \in SingleUpdates
    /\ point \in {"begin"} \cup InTransaction => r.op \notin SingleUpdates
    /\ point = "query" => r.op = ClaimOp
    /\ point \in {"load", "update"} => r.op # "Add"

\* The job a transaction works on.
Chosen(r, table, j) ==
    /\ r.op \in Transitions
    /\ IF r.op = ClaimOp THEN DueFirst(table, j, r.at) ELSE j = r.job

Ready(r, table, j) == Chosen(r, table, j) /\ ~Refuses(r, table[j])

Matched(r, row) ==
    r.op # ClaimOp => row.status = "Running" /\ row.currentStateChangeId = r.id

WithoutHistory(job) == [job EXCEPT !.history = <<>>]

\* Its local variables and its uncommitted writes, statement by statement.
AddTx(r, last, image) ==
    [job |-> r.job, loaded |-> WithoutHistory(AddedRecord(r, last)),
     next |-> AddedRecord(r, last), image |-> image]

TransitionTx(r, j, table, last, clock, image) ==
    [job |-> j, loaded |-> table[j], next |-> NextRecord(r, table[j], clock, last),
     image |-> image]

Working(point, r, t, table, last, clock) ==
    /\ point = "load" => \E j \in JobIds : t = [job |-> j] /\ Chosen(r, table, j)
    /\ point = "update" => \E j \in JobIds :
         /\ Ready(r, table, j)
         /\ t = [job |-> j, loaded |-> table[j],
                 next |-> NextRecord(r, table[j], clock, last)]
    /\ point = "insert" =>
         \/ r.op = "Add" /\ t = AddTx(r, last, WithoutHistory(AddedRecord(r, last)))
         \/ \E j \in JobIds :
              /\ Ready(r, table, j) /\ Matched(r, table[j])
              /\ t = TransitionTx(r, j, table, last, clock,
                       Updated(r, table[j], NextRecord(r, table[j], clock, last)))
    /\ point = "commit" =>
         \/ r.op = "Add" /\ t = AddTx(r, last, AddedRecord(r, last))
         \/ \E j \in JobIds :
              /\ Ready(r, table, j) /\ Matched(r, table[j])
              /\ t = TransitionTx(r, j, table, last, clock,
                       NextRecord(r, table[j], clock, last))

RequestsFit == \A c \in Callers : Fitting(pc[c], request[c])

TransactionsFit ==
    /\ tx = [c \in Callers |-> tx[c]]
    /\ \A c \in Callers : Working(pc[c], request[c], tx[c], jobs, lastId, stamp)

\* Until it is added, the job of an Add has no row and is nobody else's.
NewJobsApart ==
    /\ \A c \in Callers :
         request[c].op = "Add" /\ pc[c] # "return" => jobs[request[c].job] = NoJob
    /\ \A c, d \in Callers :
         c # d /\ request[c].op = "Add" /\ request[d].op = "Add"
           => request[c].job # request[d].job

IInv ==
    /\ TypeOK /\ LockHeldByTransaction
    /\ RequestsFit /\ TransactionsFit /\ NewJobsApart

-----------------------------------------------------------------------------
(* The records a transaction computes, and the rows it writes for them.        *)

\* A record is told by its columns.
LEMMA SameColumns ==
    ASSUME NEW a \in Record, NEW b \in Record,
           a.status = b.status, a.currentStateChangeId = b.currentStateChangeId,
           a.runAt = b.runAt, a.claimedBy = b.claimedBy,
           a.leaseExpiresAt = b.leaseExpiresAt, a.acknowledged = b.acknowledged,
           a.maxAttempts = b.maxAttempts, a.failureReason = b.failureReason,
           a.history = b.history
    PROVE  a = b
BY DEF Record, JobRecords

\* A history behind which n changes were appended.
Longer(new, old, n) ==
    /\ new \in Seq(Change)
    /\ Len(new) = Len(old) + n
    /\ \A i \in 1 .. Len(old) : new[i] = old[i]

\* What is appended of it to the old one gives the new one.
LEMMA AppendedChanges ==
    ASSUME NEW old \in Seq(Change), NEW new, NEW n \in Nat, Longer(new, old, n)
    PROVE  /\ old \o SubSeq(new, Len(old) + 1, Len(new)) = new
           /\ Len(SubSeq(new, Len(old) + 1, Len(new))) = n
<1> DEFINE added == SubSeq(new, Len(old) + 1, Len(new))
<1>1. /\ new \in Seq(Change) /\ Len(new) = Len(old) + n
      /\ \A i \in 1 .. Len(old) : new[i] = old[i]
      /\ Len(old) \in Nat /\ Len(new) \in Nat
  BY DEF Longer
<1>2. \A i \in Len(old) + 1 .. Len(new) : new[i] \in Change
  BY <1>1, ElementOfSeq
<1>3. /\ added \in Seq(Change)
      /\ Len(added) = n
      /\ \A i \in 1 .. n : added[i] = new[Len(old) + i]
  BY <1>1, <1>2, SubSeqProperties
<1> HIDE DEF added
<1>4. /\ old \o added \in Seq(Change)
      /\ Len(old \o added) = Len(old) + Len(added)
      /\ \A i \in 1 .. Len(old) + Len(added) : (old \o added)[i] =
            IF i <= Len(old) THEN old[i] ELSE added[i - Len(old)]
  BY <1>3, ConcatProperties
<1>5. \A i \in 1 .. Len(new) : (old \o added)[i] = new[i]
  BY <1>1, <1>3, <1>4
<1>6. old \o added = new
  BY <1>1, <1>3, <1>4, <1>5, SeqEqual
<1> QED
  BY <1>3, <1>6 DEF added

\* The new record of a transition keeps what no transition changes.
Moved(new, old, n) ==
    /\ new \in Record
    /\ new.acknowledged = old.acknowledged
    /\ new.maxAttempts = old.maxAttempts
    /\ Longer(new.history, old.history, n)

LEMMA HistoryType ==
    ASSUME NEW job \in Record PROVE job.history \in Seq(Change)
BY DEF Record, JobRecords, Change

LEMMA AppendIsLonger ==
    ASSUME NEW h \in Seq(Change), NEW e \in Change
    PROVE  Longer(Append(h, e), h, 1)
BY AppendProperties DEF Longer

LEMMA UnclaimedMoves ==
    ASSUME NEW job \in Record, NEW e \in Change, NEW runAt \in Nat \cup {NoTime}
    PROVE  /\ Moved(Unclaimed(job, e, runAt), job, 1)
           /\ Unclaimed(job, e, runAt).failureReason = job.failureReason
<1>1. Unclaimed(job, e, runAt) \in Record
  BY UnclaimedFacts DEF Extended
<1>2. /\ Unclaimed(job, e, runAt).acknowledged = job.acknowledged
      /\ Unclaimed(job, e, runAt).maxAttempts = job.maxAttempts
      /\ Unclaimed(job, e, runAt).failureReason = job.failureReason
      /\ Unclaimed(job, e, runAt).history = Append(job.history, e)
  BY DEF Unclaimed, Record, JobRecords
<1> QED
  BY <1>1, <1>2, HistoryType, AppendIsLonger DEF Moved

LEMMA ClaimedMoves ==
    ASSUME NEW job \in Record, NEW w \in Workers, NEW id \in Nat,
           NEW at \in Nat, NEW lease \in Nat
    PROVE  /\ Moved(Claimed(job, w, id, at, lease), job, 1)
           /\ Claimed(job, w, id, at, lease).failureReason = job.failureReason
<1> DEFINE new == Claimed(job, w, id, at, lease)
<1>1. new \in Record
  BY ClaimedFacts DEF Acquired
<1>2. /\ new.acknowledged = job.acknowledged
      /\ new.maxAttempts = job.maxAttempts
      /\ new.failureReason = job.failureReason
      /\ new.history = Append(job.history, RunningChange(id, at, w))
  BY DEF Claimed, Record, JobRecords
<1>3. RunningChange(id, at, w) \in Change
  BY DEF RunningChange, StateChange, Change, StateChanges, JobStatus, NoTime
<1> QED
  BY <1>1, <1>2, <1>3, HistoryType, AppendIsLonger DEF Moved

LEMMA LongerIsTransitive ==
    ASSUME NEW a \in Seq(Change), NEW b, NEW c, Longer(b, a, 1), Longer(c, b, 1)
    PROVE  Longer(c, a, 2)
BY DEF Longer

LEMMA QueuedChangeType ==
    ASSUME NEW id \in Nat, NEW at \in Nat PROVE QueuedChange(id, at) \in Change
BY DEF QueuedChange, StateChange, Change, StateChanges, JobStatus, NoTime, NoWorker

LEMMA RequeuedClaimedMoves ==
    ASSUME NEW job \in Record, NEW w \in Workers, NEW id \in Nat, NEW id2 \in Nat,
           NEW at \in Nat, NEW lease \in Nat
    PROVE  /\ Moved(Claimed(Requeued(job, id, at), w, id2, at, lease), job, 2)
           /\ Claimed(Requeued(job, id, at), w, id2, at, lease).failureReason
                = job.failureReason
<1> DEFINE mid == Requeued(job, id, at)
           new == Claimed(mid, w, id2, at, lease)
<1>1. Moved(mid, job, 1) /\ mid.failureReason = job.failureReason
  BY UnclaimedMoves, QueuedChangeType DEF Requeued
<1>2. mid \in Record
  BY <1>1 DEF Moved
<1> HIDE DEF mid
<1>3. Moved(new, mid, 1) /\ new.failureReason = mid.failureReason
  BY <1>2, ClaimedMoves
<1> HIDE DEF new
<1>4. Moved(new, job, 2) /\ new.failureReason = job.failureReason
  BY <1>1, <1>3, HistoryType, LongerIsTransitive DEF Moved
<1> QED
  BY <1>4 DEF new, mid

LEMMA CompletedMoves ==
    ASSUME NEW job \in Record, NEW id \in Nat, NEW at \in Nat
    PROVE  /\ Moved(Completed(job, id, at), job, 1)
           /\ Completed(job, id, at).failureReason = job.failureReason
BY UnclaimedMoves, SettledChangeType DEF Completed, Terminal

\* Setting the failure reason moves nothing else.
LEMMA FailureReasonMoves ==
    ASSUME NEW new \in Record, NEW job, NEW n \in Nat, Moved(new, job, n)
    PROVE  Moved([new EXCEPT !.failureReason = TRUE], job, n)
BY DEF Moved, Record, JobRecords

LEMMA FailedMoves ==
    ASSUME NEW job \in Record, NEW id \in Nat, NEW at \in Nat
    PROVE  Moved(Failed(job, id, at), job, 1)
<1>1. Moved(Unclaimed(job, SettledChange(id, at, "Failed"), NoTime), job, 1)
  BY UnclaimedMoves, SettledChangeType DEF Terminal
<1> QED
  BY <1>1, FailureReasonMoves DEF Failed, Moved

LEMMA RetryScheduledMoves ==
    ASSUME NEW job \in Record, NEW id \in Nat, NEW at \in Nat, NEW runAt \in Nat
    PROVE  Moved(RetryScheduled(job, id, at, runAt), job, 2)
<1> DEFINE e == SettledChange(id, at, "Failed")
           mid == [job EXCEPT !.history = Append(@, e)]
           s == ScheduledChange(id + 1, at, runAt)
           new == Unclaimed(mid, s, runAt)
<1>1. e \in Change
  BY SettledChangeType DEF Terminal
<1>2. s \in Change
  BY DEF ScheduledChange, StateChange, Change, StateChanges, JobStatus, NoWorker
<1>3. RetryScheduled(job, id, at, runAt) = [new EXCEPT !.failureReason = TRUE]
  BY DEF RetryScheduled
<1> HIDE DEF e, s
<1>4. Append(job.history, e) \in Seq(Change) /\ Longer(Append(job.history, e), job.history, 1)
  BY <1>1, HistoryType, AppendIsLonger, AppendProperties
<1>5. /\ mid \in Record /\ mid.history = Append(job.history, e)
      /\ mid.acknowledged = job.acknowledged /\ mid.maxAttempts = job.maxAttempts
  BY <1>4 DEF Record, JobRecords, Change
<1> HIDE DEF mid
<1>6. Moved(new, mid, 1)
  BY <1>2, <1>5, UnclaimedMoves
<1> HIDE DEF new
<1>7. Moved(new, job, 2) /\ new \in Record
  BY <1>4, <1>5, <1>6, HistoryType, LongerIsTransitive DEF Moved
<1> QED
  BY <1>3, <1>7, FailureReasonMoves

\* The number of changes a transition adds.
ChangesOf(r, job) ==
    IF r.op = "ScheduleRetry" \/ (r.op = ClaimOp /\ job.status = "Scheduled") THEN 2 ELSE 1

\* Whatever the transition, the new record extends the loaded one.
LEMMA NextRecordMoves ==
    ASSUME NEW r, Legal(r), r.op \in Transitions, NEW job \in Record,
           NEW clock \in Nat, NEW last \in Nat
    PROVE  LET next == NextRecord(r, job, clock, last)
           IN  /\ Moved(next, job, ChangesOf(r, job))
               /\ r.op \notin {"MarkFailed", "ScheduleRetry"}
                    => next.failureReason = job.failureReason
<1> DEFINE next == NextRecord(r, job, clock, last)
<1>1. r.at \in Nat /\ r.until \in Nat /\ last + 1 \in Nat /\ last + 2 \in Nat
  BY DEF Legal, Requests
<1>2. CASE r.op = ClaimOp /\ job.status = "Scheduled"
  <2>1. next = Claimed(Requeued(job, last + 1, r.at), r.worker, last + 2, r.at, r.until)
    BY <1>2 DEF NextRecord, ClaimOp
  <2>2. r.worker \in Workers /\ ChangesOf(r, job) = 2
    BY <1>2 DEF Legal, ChangesOf
  <2> DEFINE new == Claimed(Requeued(job, last + 1, r.at), r.worker, last + 2, r.at, r.until)
  <2>3. Moved(new, job, 2) /\ new.failureReason = job.failureReason
    <3>1. PICK id \in Nat, id2 \in Nat, at \in Nat, lease \in Nat, w \in Workers :
            /\ id = last + 1 /\ id2 = last + 2
            /\ at = r.at /\ lease = r.until /\ w = r.worker
      BY <1>1, <2>2
    <3>2. Moved(Claimed(Requeued(job, id, at), w, id2, at, lease), job, 2)
      BY RequeuedClaimedMoves
    <3>3. Claimed(Requeued(job, id, at), w, id2, at, lease).failureReason
            = job.failureReason
      BY RequeuedClaimedMoves
    <3> QED
      BY <3>1, <3>2, <3>3
  <2> HIDE DEF next, new
  <2>4. next = new
    BY <2>1 DEF new
  <2>5. Moved(next, job, ChangesOf(r, job)) /\ next.failureReason = job.failureReason
    BY <2>2, <2>3, <2>4
  <2> QED
    BY <2>5 DEF next
<1>3. CASE r.op = ClaimOp /\ job.status # "Scheduled"
  <2>1. next = Claimed(job, r.worker, last + 1, r.at, r.until)
    BY <1>3 DEF NextRecord, ClaimOp
  <2>2. r.worker \in Workers /\ ChangesOf(r, job) = 1
    BY <1>3 DEF Legal, ChangesOf, ClaimOp
  <2> DEFINE new == Claimed(job, r.worker, last + 1, r.at, r.until)
  <2>3. Moved(new, job, 1)
    BY <1>1, <2>2, ClaimedMoves
  <2>4. new.failureReason = job.failureReason
    BY <1>1, <2>2, ClaimedMoves
  <2>5. next = new
    BY <2>1
  <2> HIDE DEF next, new
  <2>6. Moved(next, job, ChangesOf(r, job)) /\ next.failureReason = job.failureReason
    BY <2>2, <2>3, <2>4, <2>5
  <2> QED
    BY <2>6 DEF next
<1>4. CASE r.op = "MarkCompleted"
  <2>1. next = Completed(job, last + 1, clock)
    BY <1>4 DEF NextRecord, ClaimOp
  <2> QED
    BY <1>1, <1>4, <2>1, CompletedMoves DEF ChangesOf, ClaimOp
<1>5. CASE r.op = "MarkFailed"
  <2>1. next = Failed(job, last + 1, clock)
    BY <1>5 DEF NextRecord, ClaimOp
  <2> QED
    BY <1>1, <1>5, <2>1, FailedMoves DEF ChangesOf, ClaimOp
<1>6. CASE r.op = "ScheduleRetry"
  <2>1. next = RetryScheduled(job, last + 1, clock, r.until)
    BY <1>6 DEF NextRecord, ClaimOp
  <2> QED
    BY <1>1, <1>6, <2>1, RetryScheduledMoves DEF ChangesOf
<1> QED
  BY <1>2, <1>3, <1>4, <1>5, <1>6 DEF Transitions

\* The row the UPDATE changed and the changes the INSERTs add make up the new record.
LEMMA RowBecomesNext ==
    ASSUME NEW r, Legal(r), r.op \in Transitions, NEW job \in Record,
           NEW clock \in Nat, NEW last \in Nat
    PROVE  LET next == NextRecord(r, job, clock, last)
               row == Updated(r, job, next)
           IN  /\ [row EXCEPT !.history = @ \o NewChanges(job, next)] = next
               /\ Len(NewChanges(job, next)) = ChangesOf(r, job)
<1> DEFINE next == NextRecord(r, job, clock, last)
           row == Updated(r, job, next)
           added == NewChanges(job, next)
           final == [row EXCEPT !.history = @ \o added]
<1>1. /\ Moved(next, job, ChangesOf(r, job))
      /\ r.op \notin {"MarkFailed", "ScheduleRetry"} => next.failureReason = job.failureReason
  BY NextRecordMoves
<1>2. ChangesOf(r, job) \in Nat
  BY DEF ChangesOf
<1> HIDE DEF next
<1>3. job.history \o added = next.history /\ Len(added) = ChangesOf(r, job)
  <2>1. job.history \in Seq(Change) /\ Longer(next.history, job.history, ChangesOf(r, job))
    BY <1>1, HistoryType DEF Moved
  <2> QED
    BY <1>2, <2>1, AppendedChanges DEF NewChanges
<1>4. next \in Record
  BY <1>1 DEF Moved
<1> HIDE DEF added
<1>5. /\ row.status = next.status /\ row.currentStateChangeId = next.currentStateChangeId
      /\ row.runAt = next.runAt /\ row.claimedBy = next.claimedBy
      /\ row.leaseExpiresAt = next.leaseExpiresAt /\ row.acknowledged = job.acknowledged
      /\ row.maxAttempts = job.maxAttempts /\ row.history = job.history
      /\ row.failureReason = IF r.op \in {"MarkFailed", "ScheduleRetry"}
                             THEN next.failureReason ELSE job.failureReason
      /\ row \in Record
  BY <1>4 DEF Updated, Record, JobRecords
<1> HIDE DEF row
<1>6. /\ final.status = row.status /\ final.currentStateChangeId = row.currentStateChangeId
      /\ final.runAt = row.runAt /\ final.claimedBy = row.claimedBy
      /\ final.leaseExpiresAt = row.leaseExpiresAt /\ final.acknowledged = row.acknowledged
      /\ final.maxAttempts = row.maxAttempts /\ final.history = next.history
      /\ final.failureReason = row.failureReason
      /\ final \in Record
  BY <1>3, <1>4, <1>5 DEF Record, JobRecords
<1> HIDE DEF final
<1>7. final = next
  BY <1>1, <1>4, <1>5, <1>6, SameColumns DEF Moved
<1> QED
  BY <1>3, <1>7 DEF final, row, added, next

\* The record of a new job, its row and its only change.
LEMMA AddedRecordFacts ==
    ASSUME NEW r, Legal(r), NEW last \in Nat
    PROVE  LET new == AddedRecord(r, last)
               row == WithoutHistory(new)
           IN  /\ new \in Record
               /\ [row EXCEPT !.history = @ \o NewChanges(row, new)] = new
               /\ Len(NewChanges(row, new)) = 1
<1> DEFINE new == AddedRecord(r, last)
           row == WithoutHistory(new)
           final == [row EXCEPT !.history = @ \o NewChanges(row, new)]
<1>1. r.at \in Nat /\ r.until \in Nat /\ last + 1 \in Nat
  BY DEF Legal, Requests
<1>2. PICK e \in Change, runAt \in Nat :
        e.status \in Pending /\ new = NewJob(e, runAt, MaxAttempts)
  <2>1. QueuedChange(last + 1, r.at) \in Change
        /\ QueuedChange(last + 1, r.at).status \in Pending
    BY <1>1, QueuedChangeType DEF QueuedChange, StateChange, Pending
  <2>2. ScheduledChange(last + 1, r.at, r.until) \in Change
        /\ ScheduledChange(last + 1, r.at, r.until).status \in Pending
    BY <1>1 DEF ScheduledChange, StateChange, Change, StateChanges, JobStatus, Pending, NoWorker
  <2> QED
    BY <1>1, <2>1, <2>2 DEF AddedRecord, EnqueuedJob, ScheduledJob
<1>3. new \in Record
  BY <1>2, NewJobFacts, BoundsAssumption
<1>4. new.history = <<e>>
  BY <1>2 DEF NewJob
<1> HIDE DEF new
<1>5. <<>> \in Seq(StateChanges) /\ <<>> \in Seq(Change) /\ Longer(<<e>>, <<>>, 1)
  BY DEF Longer, Change
<1>6. row \in Record /\ row.history = <<>>
  BY <1>3, <1>5 DEF WithoutHistory, Record, JobRecords
<1>7. <<>> \o NewChanges(row, new) = <<e>> /\ Len(NewChanges(row, new)) = 1
  <2> HIDE DEF row
  <2>1. NewChanges(row, new) = SubSeq(<<e>>, Len(<<>>) + 1, Len(<<e>>))
    BY <1>4, <1>6 DEF NewChanges
  <2>2. 1 \in Nat
    OBVIOUS
  <2>3. /\ <<>> \o SubSeq(<<e>>, Len(<<>>) + 1, Len(<<e>>)) = <<e>>
        /\ Len(SubSeq(<<e>>, Len(<<>>) + 1, Len(<<e>>))) = 1
    BY <1>5, <2>2, AppendedChanges
  <2> QED
    BY <2>1, <2>3
<1> HIDE DEF row
<1>8. final = [row EXCEPT !.history = <<e>>]
  BY <1>6, <1>7
<1>9. final = new
  BY <1>3, <1>4, <1>8 DEF row, WithoutHistory, Record, JobRecords
<1> QED
  BY <1>3, <1>7, <1>9 DEF new, row, final

-----------------------------------------------------------------------------
(* The invariant is inductive.                                               *)

\* A row that a transition works on is there.
LEMMA ReadyIsStored ==
    ASSUME StoreTypeOK, NEW j \in JobIds, NEW r, Ready(r, jobs, j)
    PROVE  jobs[j] \in Record
<1>1. jobs[j] \in Record \cup {NoJob}
  BY DEF StoreTypeOK, Record
<1>2. jobs[j].status # "Absent"
  <2>1. CASE r.op = ClaimOp
    BY <2>1 DEF Ready, Chosen, DueFirst, IsDue, Pending
  <2>2. CASE r.op # ClaimOp
    BY <2>2 DEF Ready, Refuses, ClaimOp
  <2> QED
    BY <2>1, <2>2
<1> QED
  BY <1>1, <1>2 DEF NoJob

\* The requests that are made are legal, and a new job is unused.
LEMMA CallsAreLegal ==
    ASSUME TypeOK, NEW r \in Calls
    PROVE  Legal(r) /\ (r.op = "Add" => Unused(r.job))
<1> USE DEF Request, Legal, Requests, ClaimOp, NoId
<1>1. now \in Nat /\ lastId \in Nat /\ LeaseDuration \in Nat \ {0}
      /\ Delays \subseteq Nat /\ JobIds \subseteq Nat
  BY BoundsAssumption, JobIdsAssumption DEF TypeOK, StoreTypeOK
<1>2. CASE \E j \in {i \in JobIds : Unused(i)}, d \in Delays :
        r = Request("Add", j, NoId, NoWorker, now, now + d, FALSE)
  BY <1>1, <1>2
<1>3. CASE \E w \in Workers :
        r = Request("TryClaimNextDueJob", NoId, NoId, w, now, now + LeaseDuration, FALSE)
  BY <1>1, <1>3
<1>4. CASE \E j \in JobIds, id \in 1 .. lastId :
        r = Request("MarkCompleted", j, id, NoWorker, 0, 0, FALSE)
  BY <1>1, <1>4
<1>5. CASE \E j \in JobIds, id \in 1 .. lastId, blank \in BOOLEAN :
        r = Request("MarkFailed", j, id, NoWorker, 0, 0, blank)
  BY <1>1, <1>5
<1>6. CASE \E j \in JobIds, id \in 1 .. lastId, d \in Delays, blank \in BOOLEAN :
        r = Request("ScheduleRetry", j, id, NoWorker, 0, now + d, blank)
  BY <1>1, <1>6
<1>7. CASE \E j \in JobIds, id \in 1 .. lastId, d \in {0, LeaseDuration} :
        r = Request("RenewLease", j, id, NoWorker, now, now + d, FALSE)
  BY <1>1, <1>7
<1>8. CASE \E j \in JobIds : r = Request("Acknowledge", j, NoId, NoWorker, 0, 0, FALSE)
  BY <1>1, <1>8
<1> QED
  BY <1>2, <1>3, <1>4, <1>5, <1>6, <1>7, <1>8 DEF Calls

\* A call that is not inside a transaction works with nothing.
LEMMA NothingWorkedWith ==
    ASSUME NEW point, point \notin InTransaction,
           NEW r, NEW t, NEW table, NEW last, NEW clock
    PROVE  Working(point, r, t, table, last, clock)
BY DEF Working, InTransaction

\* A step of one call: the others keep what they work with, because the step either
\* leaves the table alone or is made by the holder of the lock.
LEMMA StepOfOne ==
    ASSUME IInv, NEW c \in Callers, NEW point, NEW t, NEW r,
           pc' = [pc EXCEPT ![c] = point],
           request' = [request EXCEPT ![c] = r],
           tx' = [tx EXCEPT ![c] = t],
           lock \in {c, NoCaller} \/ UNCHANGED <<jobs, lastId, stamp>>,
           Fitting(point, r),
           Working(point, r, t, jobs', lastId', stamp')
    PROVE  RequestsFit' /\ TransactionsFit'
<1>1. /\ pc \in [Callers -> {"idle", "enter", "begin", "autocommit", "return"}
                            \cup InTransaction]
      /\ request \in [Callers -> Requests \cup {NoRequest}]
      /\ tx = [d \in Callers |-> tx[d]]
      /\ \A d \in Callers : Fitting(pc[d], request[d])
      /\ \A d \in Callers : Working(pc[d], request[d], tx[d], jobs, lastId, stamp)
      /\ \A d \in Callers : (lock = d) <=> (pc[d] \in InTransaction)
  BY DEF IInv, TypeOK, RequestsFit, TransactionsFit, LockHeldByTransaction
<1>2. pc'[c] = point /\ request'[c] = r /\ tx'[c] = t
  BY <1>1
<1>3. \A d \in Callers \ {c} :
        pc'[d] = pc[d] /\ request'[d] = request[d] /\ tx'[d] = tx[d]
  BY <1>1
<1>4. tx' = [d \in Callers |-> tx'[d]]
  BY <1>1
<1>5. \A d \in Callers : Fitting(pc'[d], request'[d])
  BY <1>1, <1>2, <1>3
<1>6. \A d \in Callers : Working(pc'[d], request'[d], tx'[d], jobs', lastId', stamp')
  <2> SUFFICES ASSUME NEW d \in Callers, d # c
               PROVE  Working(pc[d], request[d], tx[d], jobs', lastId', stamp')
    BY <1>2, <1>3
  <2>1. CASE UNCHANGED <<jobs, lastId, stamp>>
    BY <1>1, <2>1
  <2>2. CASE lock \in {c, NoCaller}
    <3>1. pc[d] \notin InTransaction
      BY <1>1, <2>2, CallersAssumption
    <3> QED
      BY <3>1, NothingWorkedWith
  <2> QED
    BY <2>1, <2>2
<1> QED
  BY <1>4, <1>5, <1>6 DEF RequestsFit, TransactionsFit

\* New jobs stay apart in a step that ends or goes on with a call, whatever it does
\* to a job that is stored.
LEMMA StillApart ==
    ASSUME IInv, NEW c \in Callers, NEW r, NEW point,
           pc' = [pc EXCEPT ![c] = point],
           request' = [request EXCEPT ![c] = r],
           \/ r = request[c] /\ pc[c] # "return"
           \/ r = NoRequest,
           \A d \in Callers : request'[d].op = "Add" /\ pc'[d] # "return"
              => jobs'[request'[d].job] = jobs[request'[d].job]
    PROVE  NewJobsApart'
<1>1. /\ pc \in [Callers -> {"idle", "enter", "begin", "autocommit", "return"}
                            \cup InTransaction]
      /\ request \in [Callers -> Requests \cup {NoRequest}]
      /\ \A d \in Callers :
           request[d].op = "Add" /\ pc[d] # "return" => jobs[request[d].job] = NoJob
      /\ \A d, e \in Callers :
           d # e /\ request[d].op = "Add" /\ request[e].op = "Add"
             => request[d].job # request[e].job
  BY DEF IInv, TypeOK, NewJobsApart
<1>2. \A d \in Callers : request'[d].op = "Add" => request'[d] = request[d]
  BY <1>1 DEF NoRequest
<1>3. \A d \in Callers : request'[d].op = "Add" /\ pc'[d] # "return" => pc[d] # "return"
  BY <1>1 DEF NoRequest
<1> QED
  BY <1>1, <1>2, <1>3 DEF NewJobsApart

LEMMA InitEstablishesIInv == Init => IInv
<1> SUFFICES ASSUME Init PROVE IInv
  OBVIOUS
<1> USE DEF Init, StoreInit
<1>1. TypeOK
  BY DEF TypeOK, StoreTypeOK
<1>2. LockHeldByTransaction
  BY CallersAssumption DEF LockHeldByTransaction, InTransaction
<1>3. RequestsFit
  BY DEF RequestsFit, Fitting, InTransaction
<1>4. TransactionsFit
  BY NothingWorkedWith DEF TransactionsFit, InTransaction
<1>5. NewJobsApart
  BY DEF NewJobsApart, NoRequest
<1> QED
  BY <1>1, <1>2, <1>3, <1>4, <1>5 DEF IInv

Points == {"idle", "enter", "begin", "autocommit", "return"} \cup InTransaction

\* What a step of one call has to show.
LEMMA OneStep ==
    ASSUME IInv, NEW c \in Callers, NEW point \in Points, NEW t,
           NEW r \in Requests \cup {NoRequest}, NEW b \in BOOLEAN,
           pc' = [pc EXCEPT ![c] = point],
           request' = [request EXCEPT ![c] = r],
           tx' = [tx EXCEPT ![c] = t],
           answer' = [answer EXCEPT ![c] = b],
           \/ point \in InTransaction /\ lock \in {c, NoCaller} /\ lock' = c
           \/ /\ point \notin InTransaction
              /\ lock' = IF lock = c THEN NoCaller ELSE lock,
           lock \in {c, NoCaller} \/ UNCHANGED <<jobs, lastId, stamp>>,
           StoreTypeOK', now' = now, stamp' \in 0 .. now,
           Fitting(point, r),
           Working(point, r, t, jobs', lastId', stamp'),
           \/ r = request[c] /\ pc[c] # "return"
           \/ r = NoRequest,
           \A d \in Callers : request'[d].op = "Add" /\ pc'[d] # "return"
              => jobs'[request'[d].job] = jobs[request'[d].job]
    PROVE  IInv'
<1>1. TypeOK'
  BY DEF IInv, TypeOK, Points
<1>2. LockHeldByTransaction'
  BY CallersAssumption DEF IInv, TypeOK, LockHeldByTransaction
<1>3. RequestsFit' /\ TransactionsFit'
  BY StepOfOne
<1>4. NewJobsApart'
  BY StillApart
<1> QED
  BY <1>1, <1>2, <1>3, <1>4 DEF IInv

\* The end of a call that leaves the table alone.
LEMMA EndKeepsIInv ==
    ASSUME IInv, NEW c \in Callers, End(c)
    PROVE  IInv'
<1>1. /\ pc' = [pc EXCEPT ![c] = "idle"]
      /\ request' = [request EXCEPT ![c] = NoRequest]
      /\ tx' = [tx EXCEPT ![c] = NoTx]
      /\ answer' = [answer EXCEPT ![c] = FALSE]
      /\ lock' = IF lock = c THEN NoCaller ELSE lock
      /\ UNCHANGED <<jobs, lastId, now, stamp>>
  BY DEF End, GoTo, Dispose
<1>2. "idle" \in Points /\ "idle" \notin InTransaction
  BY DEF Points, InTransaction
<1>3. StoreTypeOK' /\ stamp' \in 0 .. now
  BY <1>1 DEF IInv, TypeOK, StoreTypeOK
<1>4. Fitting("idle", NoRequest)
  BY DEF Fitting, InTransaction
<1>5. Working("idle", NoRequest, NoTx, jobs', lastId', stamp')
  BY <1>2, NothingWorkedWith
<1> QED
  BY <1>1, <1>2, <1>3, <1>4, <1>5, OneStep

\* What the steps of a call have in common with their state.
LEMMA RequestOfCall ==
    ASSUME IInv, NEW c \in Callers, pc[c] # "idle"
    PROVE  /\ request[c] \in Requests /\ Legal(request[c])
           /\ request' = request => request' = [request EXCEPT ![c] = request[c]]
           /\ answer' = answer =>
                answer[c] \in BOOLEAN /\ answer' = [answer EXCEPT ![c] = answer[c]]
           /\ tx' = tx => tx' = [tx EXCEPT ![c] = tx[c]]
BY DEF IInv, TypeOK, RequestsFit, Fitting, Legal, TransactionsFit

LEMMA StoreKept ==
    ASSUME IInv, UNCHANGED <<jobs, lastId, now>>
    PROVE  StoreTypeOK' /\ stamp \in 0 .. now /\ now \in 0 .. now
BY DEF IInv, TypeOK, StoreTypeOK

\* An answer: it ends the work of the call.
LEMMA AnswerKeepsIInv ==
    ASSUME IInv, NEW c \in Callers, pc[c] \notin {"idle", "return"}, NEW b \in BOOLEAN,
           Answer(c, b), UNCHANGED <<now, request, stamp>>, StoreTypeOK',
           lock \in {c, NoCaller} \/ UNCHANGED <<jobs, lastId>>,
           \A d \in Callers : d # c /\ request[d].op = "Add" /\ pc[d] # "return"
              => jobs'[request[d].job] = jobs[request[d].job]
    PROVE  IInv'
<1>1. /\ pc' = [pc EXCEPT ![c] = "return"]
      /\ answer' = [answer EXCEPT ![c] = b]
      /\ lock' = IF lock = c THEN NoCaller ELSE lock
      /\ tx' = [tx EXCEPT ![c] = NoTx]
  BY DEF Answer, GoTo, Dispose
<1>2. "return" \in Points /\ "return" \notin InTransaction
  BY DEF Points, InTransaction
<1>3. /\ request[c] \in Requests /\ Legal(request[c])
      /\ request' = [request EXCEPT ![c] = request[c]]
  BY RequestOfCall
<1>4. stamp' \in 0 .. now /\ now' = now
  BY DEF IInv, TypeOK
<1>5. Fitting("return", request[c])
  BY <1>3 DEF Fitting, InTransaction
<1>6. Working("return", request[c], NoTx, jobs', lastId', stamp')
  BY <1>2, NothingWorkedWith
<1>7. \A d \in Callers : request'[d].op = "Add" /\ pc'[d] # "return"
        => jobs'[request'[d].job] = jobs[request'[d].job]
  BY <1>1 DEF IInv, TypeOK
<1> QED
  BY <1>1, <1>2, <1>3, <1>4, <1>5, <1>6, <1>7, OneStep

\* An answer that changes no row.
LEMMA RefusalKeepsIInv ==
    ASSUME IInv, NEW c \in Callers, pc[c] \notin {"idle", "return"}, NEW b \in BOOLEAN,
           Answer(c, b), UNCHANGED <<jobs, lastId, now, request, stamp>>
    PROVE  IInv'
BY StoreKept, AnswerKeepsIInv

\* A statement that goes on within the call.
LEMMA StatementKeepsIInv ==
    ASSUME IInv, NEW c \in Callers, pc[c] \notin {"idle", "return"},
           NEW point \in Points \ {"idle", "return"}, NEW t,
           pc' = [pc EXCEPT ![c] = point],
           tx' = [tx EXCEPT ![c] = t],
           UNCHANGED <<jobs, lastId, now, request, answer>>,
           \/ point \in InTransaction /\ lock \in {c, NoCaller} /\ lock' = c
           \/ point \notin InTransaction /\ lock # c /\ lock' = lock /\ stamp' = stamp,
           stamp' \in {stamp, now},
           Fitting(point, request[c]),
           Working(point, request[c], t, jobs, lastId, stamp')
    PROVE  IInv'
<1>1. /\ request[c] \in Requests
      /\ request' = [request EXCEPT ![c] = request[c]]
      /\ answer[c] \in BOOLEAN /\ answer' = [answer EXCEPT ![c] = answer[c]]
  BY RequestOfCall
<1>2. StoreTypeOK' /\ now' = now /\ stamp' \in 0 .. now
  BY StoreKept DEF IInv, TypeOK, StoreTypeOK
<1>3. Working(point, request[c], t, jobs', lastId', stamp')
  OBVIOUS
<1> QED
  BY <1>1, <1>2, <1>3, OneStep

LEMMA EnterKeepsIInv ==
    ASSUME IInv, NEW c \in Callers, Enter(c)
    PROVE  IInv'
<1>1. pc[c] = "enter" /\ UNCHANGED <<jobs, lastId, now, request, stamp>>
  BY DEF Enter, At
<1>2. CASE Invalid(request[c]) /\ Answer(c, FALSE)
  BY <1>1, <1>2, RefusalKeepsIInv
<1>3. CASE /\ ~Invalid(request[c])
           /\ GoTo(c, IF request[c].op \in {"RenewLease", "Acknowledge"}
                      THEN "autocommit" ELSE "begin")
           /\ UNCHANGED <<lock, tx, answer>>
  <2> DEFINE point == IF request[c].op \in SingleUpdates THEN "autocommit" ELSE "begin"
  <2>1. point \in {"begin", "autocommit"} /\ pc' = [pc EXCEPT ![c] = point]
    BY <1>3 DEF GoTo, SingleUpdates
  <2>2. Legal(request[c]) /\ tx' = [tx EXCEPT ![c] = tx[c]]
    BY <1>1, <1>3, RequestOfCall
  <2>3. Fitting(point, request[c])
    BY <1>3, <2>2 DEF Fitting, SingleUpdates, InTransaction
  <2>4. lock # c
    BY <1>1 DEF IInv, LockHeldByTransaction, InTransaction
  <2> HIDE DEF point
  <2>5. point \in Points \ {"idle", "return"} /\ point \notin InTransaction
    BY <2>1 DEF Points, InTransaction
  <2>6. Working(point, request[c], tx[c], jobs, lastId, stamp')
    BY <2>5, NothingWorkedWith
  <2> QED
    BY <1>1, <1>3, <2>1, <2>2, <2>3, <2>4, <2>5, <2>6, StatementKeepsIInv
<1> QED
  BY <1>2, <1>3 DEF Enter

LEMMA BeginKeepsIInv ==
    ASSUME IInv, NEW c \in Callers, Begin(c)
    PROVE  IInv'
<1> DEFINE r == request[c]
           point == FirstStatement(r)
           t == Opened(r)
<1>1. /\ pc[c] = "begin" /\ lock = NoCaller /\ lock' = c
      /\ pc' = [pc EXCEPT ![c] = point]
      /\ tx' = [tx EXCEPT ![c] = t]
      /\ UNCHANGED <<jobs, lastId, now, request, answer, stamp>>
  BY DEF Begin, At, GoTo
<1>2. Legal(r) /\ ~Invalid(r) /\ r.op \notin SingleUpdates
  BY <1>1 DEF IInv, RequestsFit, Fitting
<1>3. r.op \in Transitions \cup {"Add"}
  BY <1>2 DEF Legal, Requests, SingleUpdates, Transitions, ClaimOp
<1>4. CASE r.op = "Add"
  <2>1. point = "insert"
    BY <1>4 DEF FirstStatement
  <2>2. t = AddTx(r, lastId, WithoutHistory(AddedRecord(r, lastId)))
    BY <1>4 DEF Opened, Added, AddedRecord, AddTx, WithoutHistory
  <2>3. Working(point, r, t, jobs, lastId, stamp')
    BY <1>4, <2>1, <2>2 DEF Working
  <2>4. Fitting(point, r)
    BY <1>2, <2>1 DEF Fitting, InTransaction
  <2> HIDE DEF t, point
  <2>5. point \in InTransaction /\ point \in Points \ {"idle", "return"}
    BY <2>1 DEF InTransaction, Points
  <2> QED
    BY <1>1, <2>3, <2>4, <2>5, StatementKeepsIInv
<1>5. CASE r.op = ClaimOp
  <2>1. point = "query"
    BY <1>5 DEF FirstStatement, ClaimOp
  <2>2. Working(point, r, t, jobs, lastId, stamp')
    BY <2>1 DEF Working
  <2>3. Fitting(point, r)
    BY <1>2, <1>5, <2>1 DEF Fitting, InTransaction
  <2> HIDE DEF t, point
  <2>4. point \in InTransaction /\ point \in Points \ {"idle", "return"}
    BY <2>1 DEF InTransaction, Points
  <2> QED
    BY <1>1, <2>2, <2>3, <2>4, StatementKeepsIInv
<1>6. CASE r.op \in Transitions \ {ClaimOp}
  <2>1. point = "load"
    BY <1>6 DEF FirstStatement, Transitions, ClaimOp
  <2>2. t = [job |-> r.job] /\ r.job \in JobIds /\ Chosen(r, jobs, r.job)
    BY <1>2, <1>6 DEF Opened, Transitions, ClaimOp, Legal, Chosen
  <2>3. Working(point, r, t, jobs, lastId, stamp')
    BY <2>1, <2>2 DEF Working
  <2>4. Fitting(point, r)
    BY <1>2, <1>6, <2>1 DEF Fitting, InTransaction, Transitions, ClaimOp
  <2> HIDE DEF t, point
  <2>5. point \in InTransaction /\ point \in Points \ {"idle", "return"}
    BY <2>1 DEF InTransaction, Points
  <2> QED
    BY <1>1, <2>3, <2>4, <2>5, StatementKeepsIInv
<1> QED
  BY <1>3, <1>4, <1>5, <1>6

\* Inside a transaction: the lock is the call's, its request is a valid one.
LEMMA InsideTransaction ==
    ASSUME IInv, NEW c \in Callers, pc[c] \in InTransaction
    PROVE  /\ lock = c /\ pc[c] \notin {"idle", "return"}
           /\ Legal(request[c]) /\ ~Invalid(request[c])
           /\ request[c].op \in Transitions \cup {"Add"}
           /\ Working(pc[c], request[c], tx[c], jobs, lastId, stamp)
<1>1. /\ Legal(request[c]) /\ ~Invalid(request[c]) /\ request[c].op \notin SingleUpdates
      /\ Working(pc[c], request[c], tx[c], jobs, lastId, stamp)
      /\ lock = c /\ pc[c] \notin {"idle", "return"}
  BY DEF IInv, RequestsFit, Fitting, LockHeldByTransaction, InTransaction, TransactionsFit
<1> QED
  BY <1>1 DEF Legal, Requests, SingleUpdates, Transitions, ClaimOp

LEMMA NextDueIsDueFirst ==
    ASSUME NEW j \in JobIds, NEW at
    PROVE  IsNextDue(j, at) <=> DueFirst(jobs, j, at)
BY DEF IsNextDue, Due, DueFirst

LEMMA QueryKeepsIInv ==
    ASSUME IInv, NEW c \in Callers, Query(c)
    PROVE  IInv'
<1>1. pc[c] = "query" /\ UNCHANGED <<jobs, lastId, now, request, stamp>>
  BY DEF Query, At
<1>2. /\ pc[c] \in InTransaction /\ pc[c] \notin {"idle", "return"}
      /\ lock = c /\ Legal(request[c]) /\ ~Invalid(request[c])
  BY <1>1, InsideTransaction DEF InTransaction
<1>3. CASE Answer(c, FALSE)
  BY <1>1, <1>2, <1>3, RefusalKeepsIInv
<1>4. CASE /\ \E j \in JobIds : /\ IsNextDue(j, request[c].at)
                               /\ tx' = [tx EXCEPT ![c] = [job |-> j]]
           /\ GoTo(c, "load")
           /\ UNCHANGED <<lock, answer>>
  <2>1. PICK j \in JobIds : /\ IsNextDue(j, request[c].at)
                           /\ tx' = [tx EXCEPT ![c] = [job |-> j]]
    BY <1>4
  <2>2. request[c].op = ClaimOp
    BY <1>1 DEF IInv, RequestsFit, Fitting
  <2>3. Chosen(request[c], jobs, j)
    BY <2>1, <2>2, NextDueIsDueFirst DEF Chosen, Transitions
  <2>4. Working("load", request[c], [job |-> j], jobs, lastId, stamp')
    BY <2>3 DEF Working
  <2>5. Fitting("load", request[c])
    BY <1>2, <2>2 DEF Fitting, SingleUpdates, ClaimOp
  <2>6. "load" \in InTransaction /\ "load" \in Points \ {"idle", "return"}
    BY DEF InTransaction, Points
  <2>7. pc' = [pc EXCEPT ![c] = "load"]
    BY <1>4 DEF GoTo
  <2> QED
    BY <1>1, <1>2, <1>4, <2>1, <2>4, <2>5, <2>6, <2>7, StatementKeepsIInv
<1> QED
  BY <1>3, <1>4 DEF Query

\* Successor is NextRecord in the present state; the claim does not look at the clock.
LEMMA SuccessorIsNextRecord ==
    ASSUME NEW r, NEW job, NEW at PROVE Successor(r, job, at) = NextRecord(r, job, at, lastId)
BY DEF Successor, NextRecord, ClaimOp

LEMMA ClaimIgnoresClock ==
    ASSUME NEW r, r.op = ClaimOp, NEW job, NEW at, NEW at2
    PROVE  NextRecord(r, job, at, lastId) = NextRecord(r, job, at2, lastId)
BY DEF NextRecord, ClaimOp

LEMMA LoadKeepsIInv ==
    ASSUME IInv, NEW c \in Callers, Load(c)
    PROVE  IInv'
<1> DEFINE r == request[c]
           job == jobs[tx[c].job]
<1>1. pc[c] = "load" /\ UNCHANGED <<jobs, lastId, now, request>>
  BY DEF Load, At
<1>2. /\ pc[c] \in InTransaction /\ pc[c] \notin {"idle", "return"}
      /\ lock = c /\ Legal(r) /\ ~Invalid(r)
      /\ Working("load", r, tx[c], jobs, lastId, stamp)
  BY <1>1, InsideTransaction DEF InTransaction
<1>3. CASE Refuses(r, job) /\ Answer(c, FALSE) /\ UNCHANGED stamp
  BY <1>1, <1>2, <1>3, RefusalKeepsIInv
<1>4. CASE /\ ~Refuses(r, job)
           /\ GoTo(c, "update")
           /\ tx' = [tx EXCEPT ![c] = [job |-> @.job, loaded |-> job,
                                       next |-> Successor(r, job, now)]]
           /\ stamp' = IF r.op = "TryClaimNextDueJob" THEN stamp ELSE now
           /\ UNCHANGED <<lock, answer>>
  <2>1. PICK j \in JobIds : tx[c] = [job |-> j] /\ Chosen(r, jobs, j)
    BY <1>2 DEF Working
  <2>2. Ready(r, jobs, j) /\ tx[c].job = j
    BY <1>4, <2>1 DEF Ready
  <2> DEFINE t == [job |-> j, loaded |-> jobs[j],
                   next |-> NextRecord(r, jobs[j], stamp', lastId)]
  <2>3. Successor(r, jobs[j], now) = NextRecord(r, jobs[j], stamp', lastId)
    BY <1>4, SuccessorIsNextRecord, ClaimIgnoresClock DEF ClaimOp
  <2>4. tx' = [tx EXCEPT ![c] = t]
    BY <1>4, <2>2, <2>3, RequestOfCall DEF IInv, TransactionsFit
  <2>5. Working("update", r, t, jobs, lastId, stamp')
    BY <2>2 DEF Working
  <2>6. Fitting("update", r)
    BY <1>1, <1>2 DEF Fitting, IInv, RequestsFit, InTransaction
  <2>7. "update" \in InTransaction /\ "update" \in Points \ {"idle", "return"}
    BY DEF InTransaction, Points
  <2>8. pc' = [pc EXCEPT ![c] = "update"] /\ stamp' \in {stamp, now} /\ lock' = c
    BY <1>2, <1>4 DEF GoTo
  <2> HIDE DEF t
  <2> QED
    BY <1>1, <1>2, <1>4, <2>4, <2>5, <2>6, <2>7, <2>8, StatementKeepsIInv
<1> QED
  BY <1>3, <1>4 DEF Load

LEMMA UpdateKeepsIInv ==
    ASSUME IInv, NEW c \in Callers, Update(c)
    PROVE  IInv'
<1> DEFINE r == request[c]
<1>1. pc[c] = "update" /\ UNCHANGED <<jobs, lastId, now, request, stamp>>
  BY DEF Update, At
<1>2. /\ pc[c] \in InTransaction /\ pc[c] \notin {"idle", "return"}
      /\ lock = c /\ Legal(r) /\ ~Invalid(r)
      /\ Working("update", r, tx[c], jobs, lastId, stamp)
  BY <1>1, InsideTransaction DEF InTransaction
<1>3. CASE Answer(c, FALSE)
  BY <1>1, <1>2, <1>3, RefusalKeepsIInv
<1>4. CASE /\ RowMatches(r, tx[c].loaded, jobs[tx[c].job])
           /\ GoTo(c, "insert")
           /\ tx' = [tx EXCEPT ![c] =
                       [job |-> tx[c].job, loaded |-> tx[c].loaded, next |-> tx[c].next,
                        image |-> Updated(r, jobs[tx[c].job], tx[c].next)]]
           /\ UNCHANGED <<lock, answer>>
  <2>1. PICK j \in JobIds :
          /\ Ready(r, jobs, j)
          /\ tx[c] = [job |-> j, loaded |-> jobs[j],
                      next |-> NextRecord(r, jobs[j], stamp, lastId)]
    BY <1>2 DEF Working
  <2>2. /\ tx[c].job = j /\ tx[c].loaded = jobs[j]
        /\ tx[c].next = NextRecord(r, jobs[j], stamp, lastId)
    BY <2>1
  <2>3. Matched(r, jobs[j])
    BY <1>4, <2>2 DEF RowMatches, Matched, ClaimOp
  <2> DEFINE t == TransitionTx(r, j, jobs, lastId, stamp,
                    Updated(r, jobs[j], NextRecord(r, jobs[j], stamp, lastId)))
  <2>4. tx' = [tx EXCEPT ![c] = t]
    BY <1>4, <2>2 DEF TransitionTx
  <2>5. Working("insert", r, t, jobs, lastId, stamp')
    BY <1>1, <2>1, <2>3 DEF Working
  <2>6. Fitting("insert", r)
    BY <1>1, <1>2 DEF Fitting, IInv, RequestsFit, InTransaction
  <2>7. "insert" \in InTransaction /\ "insert" \in Points \ {"idle", "return"}
    BY DEF InTransaction, Points
  <2>8. pc' = [pc EXCEPT ![c] = "insert"] /\ lock' = c
    BY <1>2, <1>4 DEF GoTo
  <2> HIDE DEF t
  <2> QED
    BY <1>1, <1>2, <1>4, <2>4, <2>5, <2>6, <2>7, <2>8, StatementKeepsIInv
<1> QED
  BY <1>3, <1>4 DEF Update

LEMMA InsertKeepsIInv ==
    ASSUME IInv, NEW c \in Callers, Insert(c)
    PROVE  IInv'
<1> DEFINE r == request[c]
           image == [tx[c].image EXCEPT !.history =
                       tx[c].image.history \o NewChanges(tx[c].loaded, tx[c].next)]
           t == [tx[c] EXCEPT !.image = image]
<1>1. /\ pc[c] = "insert" /\ UNCHANGED <<jobs, lastId, now, lock, request, answer, stamp>>
      /\ pc' = [pc EXCEPT ![c] = "commit"]
      /\ tx' = [tx EXCEPT ![c] = t]
  BY DEF Insert, At, GoTo
<1>2. /\ pc[c] \in InTransaction /\ pc[c] \notin {"idle", "return"}
      /\ lock = c /\ Legal(r) /\ ~Invalid(r)
      /\ Working("insert", r, tx[c], jobs, lastId, stamp)
  BY <1>1, InsideTransaction DEF InTransaction
<1>3. lastId \in Nat /\ stamp \in Nat
  BY DEF IInv, TypeOK, StoreTypeOK
<1>4. Working("commit", r, t, jobs, lastId, stamp')
  <2>1. CASE r.op = "Add" /\ tx[c] = AddTx(r, lastId, WithoutHistory(AddedRecord(r, lastId)))
    <3> DEFINE new == AddedRecord(r, lastId)
               row == WithoutHistory(new)
    <3>1. [row EXCEPT !.history = @ \o NewChanges(row, new)] = new
      BY <1>2, <1>3, AddedRecordFacts
    <3> HIDE DEF new, row
    <3>2. tx[c] = [job |-> r.job, loaded |-> row, next |-> new, image |-> row]
      BY <2>1 DEF AddTx, new, row
    <3>3. t = [job |-> r.job, loaded |-> row, next |-> new, image |-> new]
      <4>1. image = new
        BY <3>1, <3>2
      <4> HIDE DEF image
      <4> QED
        BY <3>2, <4>1
    <3>4. t = AddTx(r, lastId, AddedRecord(r, lastId))
      BY <3>3 DEF AddTx, new, row
    <3> QED
      BY <2>1, <3>4 DEF Working
  <2>2. CASE \E j \in JobIds :
              /\ Ready(r, jobs, j) /\ Matched(r, jobs[j])
              /\ tx[c] = TransitionTx(r, j, jobs, lastId, stamp,
                           Updated(r, jobs[j], NextRecord(r, jobs[j], stamp, lastId)))
    <3>1. PICK j \in JobIds :
              /\ Ready(r, jobs, j) /\ Matched(r, jobs[j])
              /\ tx[c] = TransitionTx(r, j, jobs, lastId, stamp,
                           Updated(r, jobs[j], NextRecord(r, jobs[j], stamp, lastId)))
      BY <2>2
    <3> DEFINE next == NextRecord(r, jobs[j], stamp, lastId)
               row == Updated(r, jobs[j], next)
    <3>2. jobs[j] \in Record /\ r.op \in Transitions
      BY <3>1, ReadyIsStored DEF IInv, TypeOK, Ready, Chosen
    <3>3. [row EXCEPT !.history = @ \o NewChanges(jobs[j], next)] = next
      BY <1>2, <1>3, <3>2, RowBecomesNext
    <3> HIDE DEF next, row
    <3>4. tx[c] = [job |-> j, loaded |-> jobs[j], next |-> next, image |-> row]
      BY <3>1 DEF TransitionTx, next, row
    <3>5. t = [job |-> j, loaded |-> jobs[j], next |-> next, image |-> next]
      <4>1. image = next
        <5>1. tx[c].image = row /\ tx[c].loaded = jobs[j] /\ tx[c].next = next
          BY <3>4
        <5> QED
          BY <3>3, <5>1
      <4> HIDE DEF image
      <4> QED
        BY <3>4, <4>1
    <3>6. t = TransitionTx(r, j, jobs, lastId, stamp, NextRecord(r, jobs[j], stamp, lastId))
      BY <3>5 DEF TransitionTx, next
    <3> QED
      BY <1>1, <3>1, <3>6 DEF Working
  <2> QED
    BY <1>2, <2>1, <2>2 DEF Working
<1>5. Fitting("commit", r)
  BY <1>1, <1>2 DEF Fitting, IInv, RequestsFit, InTransaction
<1>6. "commit" \in InTransaction /\ "commit" \in Points \ {"idle", "return"}
  BY DEF InTransaction, Points
<1> HIDE DEF t
<1> QED
  BY <1>1, <1>2, <1>4, <1>5, <1>6, StatementKeepsIInv

\* What a commit writes: a new job where there was none, or the next record of the
\* job that was loaded.
LEMMA CommitFacts ==
    ASSUME IInv, NEW c \in Callers, Commit(c)
    PROVE  LET r == request[c] IN
           \/ /\ r.op = "Add" /\ r.job \in JobIds /\ jobs[r.job] = NoJob
              /\ Write(r.job, AddedRecord(r, lastId), 1)
              /\ AddedRecord(r, lastId) \in Record
           \/ \E j \in JobIds :
                /\ Ready(r, jobs, j) /\ Matched(r, jobs[j]) /\ jobs[j] \in Record
                /\ Write(j, NextRecord(r, jobs[j], stamp, lastId), ChangesOf(r, jobs[j]))
                /\ NextRecord(r, jobs[j], stamp, lastId) \in Record
<1> DEFINE r == request[c]
<1>1. /\ pc[c] = "commit"
      /\ Write(tx[c].job, tx[c].image, Len(NewChanges(tx[c].loaded, tx[c].next)))
  BY DEF Commit, At
<1>2. Legal(r) /\ Working("commit", r, tx[c], jobs, lastId, stamp)
  BY <1>1, InsideTransaction DEF InTransaction
<1>3. lastId \in Nat /\ stamp \in Nat
  BY DEF IInv, TypeOK, StoreTypeOK
<1>4. CASE r.op = "Add" /\ tx[c] = AddTx(r, lastId, AddedRecord(r, lastId))
  <2> DEFINE new == AddedRecord(r, lastId)
             row == WithoutHistory(new)
  <2>1. new \in Record /\ Len(NewChanges(row, new)) = 1
    BY <1>2, <1>3, AddedRecordFacts
  <2>2. r.job \in JobIds /\ jobs[r.job] = NoJob
    BY <1>1, <1>2, <1>4 DEF Legal, ClaimOp, IInv, NewJobsApart
  <2> HIDE DEF new, row
  <2>3. tx[c].job = r.job /\ tx[c].image = new /\ tx[c].loaded = row /\ tx[c].next = new
    BY <1>4 DEF AddTx, new, row
  <2>4. Write(r.job, new, 1)
    BY <1>1, <2>1, <2>3
  <2> QED
    BY <1>4, <2>1, <2>2, <2>4 DEF new
<1>5. CASE \E j \in JobIds :
             /\ Ready(r, jobs, j) /\ Matched(r, jobs[j])
             /\ tx[c] = TransitionTx(r, j, jobs, lastId, stamp,
                          NextRecord(r, jobs[j], stamp, lastId))
  <2>1. PICK j \in JobIds :
             /\ Ready(r, jobs, j) /\ Matched(r, jobs[j])
             /\ tx[c] = TransitionTx(r, j, jobs, lastId, stamp,
                          NextRecord(r, jobs[j], stamp, lastId))
    BY <1>5
  <2> DEFINE next == NextRecord(r, jobs[j], stamp, lastId)
  <2>2. jobs[j] \in Record /\ r.op \in Transitions
    BY <2>1, ReadyIsStored DEF IInv, TypeOK, Ready, Chosen
  <2>3. next \in Record
    BY <1>2, <1>3, <2>2, NextRecordMoves DEF Moved
  <2>4. Len(NewChanges(jobs[j], next)) = ChangesOf(r, jobs[j])
    BY <1>2, <1>3, <2>2, RowBecomesNext
  <2> HIDE DEF next
  <2>5. /\ tx[c].job = j /\ tx[c].image = next
        /\ tx[c].loaded = jobs[j] /\ tx[c].next = next
    BY <2>1 DEF TransitionTx, next
  <2>6. Write(j, next, ChangesOf(r, jobs[j]))
    BY <1>1, <2>4, <2>5
  <2> QED
    BY <2>1, <2>2, <2>3, <2>6 DEF next
<1> QED
  BY <1>2, <1>4, <1>5 DEF Working

\* A row written over a stored job, or by the one call that adds it, is not the row
\* of another new job.
LEMMA WritesKeepApart ==
    ASSUME IInv, NEW c \in Callers, pc[c] # "return", NEW j \in JobIds, NEW row,
           jobs' = [jobs EXCEPT ![j] = row],
           jobs[j] # NoJob \/ (request[c].op = "Add" /\ request[c].job = j),
           NEW d \in Callers, d # c, request[d].op = "Add", pc[d] # "return"
    PROVE  jobs'[request[d].job] = jobs[request[d].job]
BY DEF IInv, NewJobsApart, TypeOK, StoreTypeOK

LEMMA CommitKeepsIInv ==
    ASSUME IInv, NEW c \in Callers, Commit(c)
    PROVE  IInv'
<1> DEFINE r == request[c]
<1>1. /\ pc[c] = "commit" /\ Answer(c, TRUE) /\ UNCHANGED <<now, request, stamp>>
      /\ pc[c] \in InTransaction
  BY DEF Commit, At, InTransaction
<1>2. lock = c /\ pc[c] \notin {"idle", "return"}
  BY <1>1, InsideTransaction
<1>3. PICK j \in JobIds, row \in Record, n \in Nat :
        /\ Write(j, row, n)
        /\ jobs[j] # NoJob \/ (r.op = "Add" /\ r.job = j)
  <2>1. CASE /\ r.op = "Add" /\ r.job \in JobIds
             /\ Write(r.job, AddedRecord(r, lastId), 1)
             /\ AddedRecord(r, lastId) \in Record
    BY <2>1
  <2>2. CASE \E j \in JobIds :
               /\ jobs[j] \in Record
               /\ Write(j, NextRecord(r, jobs[j], stamp, lastId), ChangesOf(r, jobs[j]))
               /\ NextRecord(r, jobs[j], stamp, lastId) \in Record
    <3>1. PICK j \in JobIds :
               /\ jobs[j] \in Record
               /\ Write(j, NextRecord(r, jobs[j], stamp, lastId), ChangesOf(r, jobs[j]))
               /\ NextRecord(r, jobs[j], stamp, lastId) \in Record
      BY <2>2
    <3>2. jobs[j] # NoJob
      BY <3>1 DEF Record, JobRecords, JobStatus, NoJob
    <3>3. ChangesOf(r, jobs[j]) \in Nat
      BY DEF ChangesOf
    <3> QED
      BY <3>1, <3>2, <3>3
  <2> QED
    BY <2>1, <2>2, CommitFacts
<1>4. jobs' = [jobs EXCEPT ![j] = row] /\ lastId' = lastId + n
  BY <1>3 DEF Write
<1>5. StoreTypeOK'
  BY <1>1, <1>4 DEF StoreTypeOK, IInv, TypeOK, Record
<1>6. \A d \in Callers : d # c /\ request[d].op = "Add" /\ pc[d] # "return"
        => jobs'[request[d].job] = jobs[request[d].job]
  BY <1>2, <1>3, <1>4, WritesKeepApart
<1> QED
  BY <1>1, <1>2, <1>5, <1>6, AnswerKeepsIInv

LEMMA AutocommitKeepsIInv ==
    ASSUME IInv, NEW c \in Callers, Autocommit(c)
    PROVE  IInv'
<1> DEFINE r == request[c]
<1>1. /\ pc[c] = "autocommit" /\ lock = NoCaller /\ UNCHANGED <<now, request, stamp>>
      /\ Legal(r) /\ r.op \in SingleUpdates
  BY DEF Autocommit, At, IInv, RequestsFit, Fitting
<1>2. r.job \in JobIds /\ r.until \in Nat
  BY <1>1 DEF Legal, Requests, SingleUpdates, ClaimOp
<1>3. jobs[r.job] \in Record \cup {NoJob}
  BY <1>2 DEF IInv, TypeOK, StoreTypeOK, Record
<1>4. CASE UNCHANGED storeVars /\ Answer(c, FALSE)
  BY <1>1, <1>4, RefusalKeepsIInv DEF storeVars
<1>5. CASE \E row \in Record : /\ jobs[r.job] # NoJob
                               /\ Write(r.job, row, 0)
                               /\ Answer(c, TRUE)
  <2>1. PICK row \in Record : /\ jobs[r.job] # NoJob
                             /\ jobs' = [jobs EXCEPT ![r.job] = row]
                             /\ lastId' = lastId + 0
                             /\ Answer(c, TRUE)
    BY <1>5 DEF Write
  <2>2. StoreTypeOK'
    <3>1. StoreTypeOK
      BY DEF IInv, TypeOK
    <3>2. jobs' \in [JobIds -> JobRecords \cup {NoJob}]
      BY <2>1, <3>1 DEF StoreTypeOK, Record
    <3> QED
      BY <1>1, <2>1, <3>1, <3>2 DEF StoreTypeOK
  <2>3. \A d \in Callers : d # c /\ request[d].op = "Add" /\ pc[d] # "return"
          => jobs'[request[d].job] = jobs[request[d].job]
    BY <1>1, <1>2, <2>1, WritesKeepApart
  <2> QED
    BY <1>1, <2>1, <2>2, <2>3, AnswerKeepsIInv
<1>6. CASE /\ r.op = "RenewLease" /\ IsCurrentClaim(r.job, r.id)
           /\ Write(r.job, [jobs[r.job] EXCEPT !.leaseExpiresAt = r.until], 0)
           /\ Answer(c, TRUE)
  <2>1. jobs[r.job] # NoJob /\ jobs[r.job] \in Record
    BY <1>3, <1>6 DEF IsCurrentClaim, NoJob
  <2>2. [jobs[r.job] EXCEPT !.leaseExpiresAt = r.until] \in Record
    BY <1>2, <2>1 DEF Record, JobRecords
  <2> QED
    BY <1>5, <1>6, <2>1, <2>2
<1>7. CASE /\ r.op = "Acknowledge" /\ Exists(r.job)
           /\ Write(r.job, [jobs[r.job] EXCEPT !.acknowledged = TRUE], 0)
           /\ Answer(c, TRUE)
  <2>1. jobs[r.job] # NoJob /\ jobs[r.job] \in Record
    BY <1>3, <1>7 DEF Exists
  <2>2. [jobs[r.job] EXCEPT !.acknowledged = TRUE] \in Record
    BY <2>1 DEF Record, JobRecords
  <2> QED
    BY <1>5, <1>7, <2>1, <2>2
<1> QED
  BY <1>4, <1>6, <1>7 DEF Autocommit

LEMMA CallKeepsIInv ==
    ASSUME IInv, NEW c \in Callers, Call(c)
    PROVE  IInv'
<1>1. PICK r \in Calls : request' = [request EXCEPT ![c] = r]
  BY DEF Call
<1>2. /\ pc[c] = "idle" /\ pc' = [pc EXCEPT ![c] = "enter"]
      /\ UNCHANGED <<jobs, lastId, now, lock, tx, answer, stamp>>
  BY DEF Call, At, GoTo
<1>3. Legal(r) /\ r \in Requests /\ (r.op = "Add" => Unused(r.job))
  BY CallsAreLegal DEF IInv, Legal
<1>4. tx' = [tx EXCEPT ![c] = tx[c]]
  BY <1>2 DEF IInv, TransactionsFit
<1>5. TypeOK'
  BY <1>1, <1>2, <1>3 DEF IInv, TypeOK, StoreTypeOK
<1>6. LockHeldByTransaction'
  BY <1>2 DEF IInv, TypeOK, LockHeldByTransaction, InTransaction
<1>7. Fitting("enter", r)
  BY <1>3 DEF Fitting, InTransaction
<1>8. Working("enter", r, tx[c], jobs', lastId', stamp')
  BY NothingWorkedWith DEF InTransaction
<1>9. RequestsFit' /\ TransactionsFit'
  BY <1>1, <1>2, <1>4, <1>7, <1>8, StepOfOne
<1>10. NewJobsApart'
  <2>1. \A d \in Callers \ {c} : request'[d] = request[d] /\ pc'[d] = pc[d]
    BY <1>1, <1>2 DEF IInv, TypeOK
  <2>2. request'[c] = r
    BY <1>1 DEF IInv, TypeOK
  <2>3. r.op = "Add" => /\ jobs[r.job] = NoJob
                        /\ \A d \in Callers : request[d].op = "Add" => request[d].job # r.job
    BY <1>3 DEF Unused, Exists
  <2> QED
    BY <1>2, <2>1, <2>2, <2>3 DEF IInv, NewJobsApart
<1> QED
  BY <1>5, <1>6, <1>9, <1>10 DEF IInv

LEMMA CrashKeepsIInv ==
    ASSUME IInv, Crash
    PROVE  IInv'
<1> USE DEF Crash
<1>1. TypeOK'
  BY DEF IInv, TypeOK, StoreTypeOK
<1>2. LockHeldByTransaction'
  BY CallersAssumption DEF LockHeldByTransaction, InTransaction
<1>3. RequestsFit'
  BY DEF RequestsFit, Fitting, InTransaction
<1>4. TransactionsFit'
  BY NothingWorkedWith DEF TransactionsFit, InTransaction
<1>5. NewJobsApart'
  BY DEF NewJobsApart, NoRequest
<1> QED
  BY <1>1, <1>2, <1>3, <1>4, <1>5 DEF IInv

LEMMA TickKeepsIInv ==
    ASSUME IInv, Tick
    PROVE  IInv'
<1>1. TypeOK'
  BY DEF Tick, IInv, TypeOK, StoreTypeOK
<1> QED
  BY <1>1 DEF Tick, IInv, LockHeldByTransaction, RequestsFit, TransactionsFit, NewJobsApart

LEMMA StepKeepsIInv == IInv /\ [Next]_vars => IInv'
<1> SUFFICES ASSUME IInv, [Next]_vars PROVE IInv'
  OBVIOUS
<1>1. CASE UNCHANGED vars
  BY <1>1 DEF vars, IInv, TypeOK, StoreTypeOK, LockHeldByTransaction, RequestsFit,
     TransactionsFit, NewJobsApart
<1>2. CASE \E c \in Callers : Call(c) \/ Step(c) \/ Throw(c)
  <2>1. PICK c \in Callers : Call(c) \/ Step(c) \/ Throw(c)
    BY <1>2
  <2>2. CASE Return(c) \/ TimeOut(c) \/ Throw(c)
    BY <2>2, EndKeepsIInv DEF Return, TimeOut, Throw
  <2> QED
    BY <2>1, <2>2, CallKeepsIInv, EnterKeepsIInv, BeginKeepsIInv, QueryKeepsIInv,
       LoadKeepsIInv, UpdateKeepsIInv, InsertKeepsIInv, CommitKeepsIInv,
       AutocommitKeepsIInv DEF Step
<1> QED
  BY <1>1, <1>2, CrashKeepsIInv, TickKeepsIInv DEF Next

THEOREM StoreInvariant == Spec => []IInv
<1> QED
  BY InitEstablishesIInv, StepKeepsIInv, PTL DEF Spec

\* No return, refusal or exception of an operation leaves the write lock behind on a
\* connection that nobody uses any more.
THEOREM LockFollowsTransaction == Spec => []LockHeldByTransaction
<1>1. IInv => LockHeldByTransaction
  BY DEF IInv
<1> QED
  BY <1>1, StoreInvariant, PTL

-----------------------------------------------------------------------------
(* The refinement: every statement is a step of AtomicStore or changes nothing  *)
(* there.  First, the operations of AtomicStore are those of this module.        *)

LEMMA SameStore ==
    /\ Abstract!NoJob = NoJob
    /\ Abstract!NoRequest = NoRequest
    /\ Abstract!Requests = Requests
    /\ \A j : Abstract!Exists(j) <=> Exists(j)
    /\ \A j, id : Abstract!IsCurrentClaim(j, id) <=> IsCurrentClaim(j, id)
    /\ \A j, row, n : Abstract!Write(j, row, n) <=> Write(j, row, n)
BY DEF Abstract!NoJob, NoJob, Abstract!NoRequest, NoRequest, Abstract!Requests, Requests,
   Abstract!Ops, Abstract!NoWorker, NoWorker, Abstract!Exists, Exists, Abstract!IsCurrentClaim, IsCurrentClaim,
   Abstract!Write, Write

LEMMA SameQuery ==
    /\ \A at : Abstract!Due(at) = Due(at)
    /\ \A j, at : Abstract!IsNextDue(j, at) <=> IsNextDue(j, at)
BY DEF Abstract!Due, Due, Abstract!IsNextDue, IsNextDue, Abstract!IsDue, IsDue,
   Abstract!DueTime, DueTime, Abstract!Pending, Pending, Abstract!NoTime, NoTime

LEMMA SameAttempts ==
    ASSUME NEW job PROVE Abstract!AttemptCount(job) = AttemptCount(job)
<1>1. \A S : Abstract!Cardinality(S) = Cardinality(S)
  BY DEF Abstract!Cardinality, Cardinality, Abstract!IsFiniteSet, IsFiniteSet
<1> QED
  BY <1>1 DEF Abstract!AttemptCount, AttemptCount, Abstract!AttemptsIn, AttemptsIn

LEMMA SameTransitions ==
    ASSUME NEW job, NEW id, NEW at, NEW until, NEW w, NEW id2
    PROVE  /\ Abstract!Claimed(job, w, id, at, until) = Claimed(job, w, id, at, until)
           /\ Abstract!Claimed(Abstract!Requeued(job, id, at), w, id2, at, until)
                = Claimed(Requeued(job, id, at), w, id2, at, until)
           /\ Abstract!Completed(job, id, at) = Completed(job, id, at)
           /\ Abstract!Failed(job, id, at) = Failed(job, id, at)
           /\ Abstract!RetryScheduled(job, id, at, until) = RetryScheduled(job, id, at, until)
<1> USE DEF Abstract!StateChange, StateChange, Abstract!Unclaimed, Unclaimed,
        Abstract!NoTime, NoTime, Abstract!NoWorker, NoWorker,
        Abstract!SettledChange, SettledChange
<1>1. \A x : Abstract!Claimed(x, w, id, at, until) = Claimed(x, w, id, at, until)
      /\ Abstract!Claimed(x, w, id2, at, until) = Claimed(x, w, id2, at, until)
  BY DEF Abstract!Claimed, Claimed, Abstract!RunningChange, RunningChange
<1>2. Abstract!Requeued(job, id, at) = Requeued(job, id, at)
  BY DEF Abstract!Requeued, Requeued, Abstract!QueuedChange, QueuedChange
<1>3. Abstract!Completed(job, id, at) = Completed(job, id, at)
  BY DEF Abstract!Completed, Completed
<1>4. Abstract!Failed(job, id, at) = Failed(job, id, at)
  BY DEF Abstract!Failed, Failed
<1>5. Abstract!RetryScheduled(job, id, at, until) = RetryScheduled(job, id, at, until)
  BY DEF Abstract!RetryScheduled, RetryScheduled, Abstract!ScheduledChange, ScheduledChange
<1> QED
  BY <1>1, <1>2, <1>3, <1>4, <1>5

LEMMA SameAddition ==
    ASSUME NEW r PROVE Abstract!Added(r) = AddedRecord(r, lastId)
BY DEF Abstract!Added, AddedRecord, Abstract!ScheduledJob, ScheduledJob,
   Abstract!EnqueuedJob, EnqueuedJob, Abstract!NewJob, NewJob,
   Abstract!QueuedChange, QueuedChange, Abstract!ScheduledChange, ScheduledChange,
   Abstract!StateChange, StateChange, Abstract!NoTime, NoTime, Abstract!NoWorker, NoWorker

\* A refusal of the code is one of AtomicStore: it changes no row and answers no.
LEMMA RefusalIsPerformed ==
    ASSUME NEW r \in Requests, UNCHANGED <<jobs, lastId>>,
           \/ Invalid(r)
           \/ r.op = ClaimOp /\ Due(r.at) = {}
           \/ /\ r.op \in {"MarkCompleted", "MarkFailed", "ScheduleRetry", "RenewLease"}
              /\ ~IsCurrentClaim(r.job, r.id)
           \/ /\ r.op = "ScheduleRetry"
              /\ ~(AttemptCount(jobs[r.job]) < jobs[r.job].maxAttempts)
           \/ r.op = "Acknowledge" /\ ~Exists(r.job)
    PROVE  Abstract!Performs(r) /\ Abstract!Accepts(r) = FALSE
<1>1. Abstract!Refused
  BY DEF Abstract!Refused, Abstract!storeVars
<1>2. CASE r.op = ClaimOp /\ Due(r.at) = {}
  <2>1. Abstract!Due(r.at) = {}
    BY <1>2, SameQuery
  <2> QED
    BY <1>1, <1>2, <2>1 DEF Abstract!Performs, Abstract!Accepts, ClaimOp
<1>3. CASE r.op = "MarkCompleted" /\ ~IsCurrentClaim(r.job, r.id)
  <2>1. ~Abstract!IsCurrentClaim(r.job, r.id)
    BY <1>3, SameStore
  <2> QED
    BY <1>1, <1>3, <2>1 DEF Abstract!Performs, Abstract!Accepts, Abstract!MarkCompleted
<1>4. CASE r.op = "MarkFailed" /\ (r.blank \/ ~IsCurrentClaim(r.job, r.id))
  <2>1. ~(Abstract!IsCurrentClaim(r.job, r.id) /\ ~r.blank)
    BY <1>4, SameStore
  <2> QED
    BY <1>1, <1>4, <2>1 DEF Abstract!Performs, Abstract!Accepts, Abstract!MarkFailed
<1>5. CASE /\ r.op = "ScheduleRetry"
           /\ \/ r.blank
              \/ ~IsCurrentClaim(r.job, r.id)
              \/ ~(AttemptCount(jobs[r.job]) < jobs[r.job].maxAttempts)
  <2>1. ~(/\ Abstract!IsCurrentClaim(r.job, r.id)
          /\ Abstract!AttemptCount(jobs[r.job]) < jobs[r.job].maxAttempts
          /\ ~r.blank)
    BY <1>5, SameStore, SameAttempts
  <2> QED
    BY <1>1, <1>5, <2>1 DEF Abstract!Performs, Abstract!Accepts, Abstract!ScheduleRetry
<1>6. CASE r.op = "RenewLease" /\ (r.until <= r.at \/ ~IsCurrentClaim(r.job, r.id))
  <2>1. ~(r.until > r.at /\ Abstract!IsCurrentClaim(r.job, r.id))
    BY <1>6, SameStore DEF Requests
  <2> QED
    BY <1>1, <1>6, <2>1 DEF Abstract!Performs, Abstract!Accepts, Abstract!RenewLease
<1>7. CASE r.op = "Acknowledge" /\ ~Exists(r.job)
  <2>1. ~Abstract!Exists(r.job)
    BY <1>7, SameStore
  <2> QED
    BY <1>1, <1>7, <2>1 DEF Abstract!Performs, Abstract!Accepts, Abstract!Acknowledge
<1> QED
  BY <1>2, <1>3, <1>4, <1>5, <1>6, <1>7 DEF Invalid

\* A commit is the operation of AtomicStore, on the row as it is.
LEMMA CommitIsPerformed ==
    ASSUME IInv, NEW c \in Callers, Commit(c)
    PROVE  Abstract!Performs(request[c]) /\ Abstract!Accepts(request[c]) = TRUE
<1> DEFINE r == request[c]
<1>1. Legal(r) /\ ~Invalid(r)
  BY InsideTransaction DEF Commit, At, InTransaction
<1>2. CASE /\ r.op = "Add" /\ jobs[r.job] = NoJob
           /\ Write(r.job, AddedRecord(r, lastId), 1)
  <2>1. Abstract!Add(r.job, Abstract!Added(r))
    BY <1>2, SameStore, SameAddition DEF Abstract!Add, Exists
  <2> QED
    BY <1>2, <2>1 DEF Abstract!Performs, Abstract!Accepts
<1>3. CASE \E j \in JobIds :
             /\ Ready(r, jobs, j) /\ Matched(r, jobs[j]) /\ jobs[j] \in Record
             /\ Write(j, NextRecord(r, jobs[j], stamp, lastId), ChangesOf(r, jobs[j]))
  <2>1. PICK j \in JobIds :
             /\ Ready(r, jobs, j) /\ Matched(r, jobs[j]) /\ jobs[j] \in Record
             /\ Write(j, NextRecord(r, jobs[j], stamp, lastId), ChangesOf(r, jobs[j]))
    BY <1>3
  <2> DEFINE next == NextRecord(r, jobs[j], stamp, lastId)
  <2>2. Abstract!Write(j, next, ChangesOf(r, jobs[j]))
    BY <2>1, SameStore
  <2>3. CASE r.op = ClaimOp
    <3>1. IsNextDue(j, r.at) /\ r.worker \in Workers /\ r.at < r.until
          /\ r.at \in Nat /\ r.until \in Nat
      BY <1>1, <2>1, <2>3, NextDueIsDueFirst DEF Ready, Chosen, Legal, Requests
    <3>2. jobs[j].status \in {"Running", "Queued", "Scheduled"}
      BY <3>1 DEF IsNextDue, Due, IsDue, Pending
    <3>3. Abstract!IsNextDue(j, r.at) /\ Abstract!Due(r.at) # {}
      BY <3>1, SameQuery DEF IsNextDue
    <3>4. CASE jobs[j].status = "Scheduled"
      <4>1. next = Claimed(Requeued(jobs[j], lastId + 1, r.at), r.worker, lastId + 2,
                           r.at, r.until)
        BY <2>3, <3>4 DEF NextRecord, ClaimOp
      <4>2. next = Abstract!Claimed(Abstract!Requeued(jobs[j], lastId + 1, r.at),
                                    r.worker, lastId + 2, r.at, r.until)
        BY <4>1, SameTransitions
      <4>3. ChangesOf(r, jobs[j]) = 2
        BY <2>3, <3>4 DEF ChangesOf
      <4> HIDE DEF next
      <4>4. Abstract!TryClaimNextDueJob(j, r.worker, r.at, r.until)
        BY <2>2, <3>1, <3>3, <3>4, <4>2, <4>3 DEF Abstract!TryClaimNextDueJob
      <4> QED
        BY <2>3, <3>3, <4>4 DEF Abstract!Performs, Abstract!Accepts, ClaimOp
    <3>5. CASE jobs[j].status # "Scheduled"
      <4>1. next = Claimed(jobs[j], r.worker, lastId + 1, r.at, r.until)
        BY <2>3, <3>5 DEF NextRecord, ClaimOp
      <4>2. next = Abstract!Claimed(jobs[j], r.worker, lastId + 1, r.at, r.until)
        BY <4>1, SameTransitions
      <4>3. ChangesOf(r, jobs[j]) = 1
        BY <2>3, <3>5 DEF ChangesOf, ClaimOp
      <4> HIDE DEF next
      <4>4. Abstract!TryClaimNextDueJob(j, r.worker, r.at, r.until)
        BY <2>2, <3>1, <3>2, <3>3, <3>5, <4>2, <4>3 DEF Abstract!TryClaimNextDueJob
      <4> QED
        BY <2>3, <3>3, <4>4 DEF Abstract!Performs, Abstract!Accepts, ClaimOp
    <3> QED
      BY <3>4, <3>5
  <2>4. ASSUME r.op # ClaimOp
        PROVE  j = r.job /\ Abstract!IsCurrentClaim(r.job, r.id)
    BY <2>1, <2>4, SameStore DEF Ready, Chosen, Matched, IsCurrentClaim
  <2>5. CASE r.op = "MarkCompleted"
    <3>1. next = Abstract!Completed(jobs[j], lastId + 1, stamp) /\ ChangesOf(r, jobs[j]) = 1
      BY <2>5, SameTransitions DEF NextRecord, ChangesOf, ClaimOp
    <3> HIDE DEF next
    <3>2. Abstract!MarkCompleted(r.job, r.id)
      BY <2>2, <2>4, <2>5, <3>1 DEF Abstract!MarkCompleted, ClaimOp
    <3> QED
      BY <2>4, <2>5, <3>2 DEF Abstract!Performs, Abstract!Accepts, ClaimOp
  <2>6. CASE r.op = "MarkFailed"
    <3>1. next = Abstract!Failed(jobs[j], lastId + 1, stamp) /\ ChangesOf(r, jobs[j]) = 1
      BY <2>6, SameTransitions DEF NextRecord, ChangesOf, ClaimOp
    <3>2. ~r.blank
      BY <1>1, <2>6 DEF Invalid
    <3> HIDE DEF next
    <3>3. Abstract!MarkFailed(r.job, r.id, r.blank)
      BY <2>2, <2>4, <2>6, <3>1, <3>2 DEF Abstract!MarkFailed, ClaimOp
    <3> QED
      BY <2>4, <2>6, <3>2, <3>3 DEF Abstract!Performs, Abstract!Accepts, ClaimOp
  <2>7. CASE r.op = "ScheduleRetry"
    <3>1. /\ next = Abstract!RetryScheduled(jobs[j], lastId + 1, stamp, r.until)
          /\ ChangesOf(r, jobs[j]) = 2
      BY <2>7, SameTransitions DEF NextRecord, ChangesOf, ClaimOp
    <3>2. ~r.blank
      BY <1>1, <2>7 DEF Invalid
    <3>3. Abstract!AttemptCount(jobs[j]) < jobs[j].maxAttempts
      <4>1. AttemptCount(jobs[j]) \in Nat /\ jobs[j].maxAttempts \in Nat
        BY <2>1, AttemptCountType DEF Record, JobRecords
      <4>2. ~(AttemptCount(jobs[j]) >= jobs[j].maxAttempts)
        BY <2>1, <2>7 DEF Ready, Refuses
      <4> QED
        BY <4>1, <4>2, SameAttempts
    <3> HIDE DEF next
    <3>4. Abstract!ScheduleRetry(r.job, r.id, r.blank, r.until)
      BY <2>2, <2>4, <2>7, <3>1, <3>2, <3>3 DEF Abstract!ScheduleRetry, ClaimOp
    <3> QED
      BY <2>4, <2>7, <3>2, <3>3, <3>4 DEF Abstract!Performs, Abstract!Accepts, ClaimOp
  <2> QED
    BY <2>1, <2>3, <2>5, <2>6, <2>7 DEF Ready, Chosen, Transitions
<1> QED
  BY <1>2, <1>3, CommitFacts

-----------------------------------------------------------------------------
(* The steps.                                                                *)

\* An answer is where the call takes effect.
LEMMA AnswerIsEffect ==
    ASSUME IInv, NEW c \in Callers, pc[c] \notin {"idle", "return"}, NEW b \in BOOLEAN,
           Answer(c, b), UNCHANGED <<request, stamp>>,
           Abstract!Performs(request[c]), Abstract!Accepts(request[c]) = b
    PROVE  Abstract!Next
<1>1. pc' = [pc EXCEPT ![c] = "return"] /\ answer' = [answer EXCEPT ![c] = b]
  BY DEF Answer, GoTo
<1>2. Phase[c] = "called" /\ Phase' = [Phase EXCEPT ![c] = "answered"]
  BY <1>1 DEF Phase, IInv, TypeOK
<1>3. Abstract!TakeEffect(c)
  BY <1>1, <1>2 DEF Abstract!TakeEffect
<1> QED
  BY <1>3 DEF Abstract!Next

\* Within the call nothing is to be seen of it.
LEMMA StatementIsHidden ==
    ASSUME IInv, NEW c \in Callers, pc[c] \notin {"idle", "return"},
           NEW point, point \notin {"idle", "return"},
           pc' = [pc EXCEPT ![c] = point]
    PROVE  UNCHANGED Phase
BY DEF Phase, IInv, TypeOK

LEMMA EndIsEnd ==
    ASSUME IInv, NEW c \in Callers, pc[c] # "idle", End(c)
    PROVE  Abstract!Next
<1>1. /\ pc' = [pc EXCEPT ![c] = "idle"]
      /\ request' = [request EXCEPT ![c] = Abstract!NoRequest]
      /\ answer' = [answer EXCEPT ![c] = FALSE]
      /\ UNCHANGED <<jobs, lastId, stamp>>
  BY SameStore DEF End, GoTo
<1>2. Phase[c] # "idle" /\ Phase' = [Phase EXCEPT ![c] = "idle"]
  BY <1>1 DEF Phase, IInv, TypeOK
<1>3. Abstract!End(c)
  BY <1>1, <1>2 DEF Abstract!End
<1> QED
  BY <1>3 DEF Abstract!Next

LEMMA CallIsCall ==
    ASSUME IInv, NEW c \in Callers, Call(c)
    PROVE  Abstract!Next
<1>1. PICK r \in Calls : request' = [request EXCEPT ![c] = r]
  BY DEF Call
<1>2. /\ pc[c] = "idle" /\ pc' = [pc EXCEPT ![c] = "enter"]
      /\ UNCHANGED <<jobs, lastId, answer, stamp>>
  BY DEF Call, At, GoTo
<1>3. r \in Abstract!Requests
  BY CallsAreLegal, SameStore DEF IInv, Legal
<1>4. request'[c] = r
  BY <1>1 DEF IInv, TypeOK
<1>5. Phase[c] = "idle" /\ Phase' = [Phase EXCEPT ![c] = "called"]
  BY <1>2 DEF Phase, IInv, TypeOK
<1>6. Abstract!Call(c)
  BY <1>1, <1>2, <1>3, <1>4, <1>5 DEF Abstract!Call
<1> QED
  BY <1>6 DEF Abstract!Next

LEMMA CrashIsCrash ==
    ASSUME IInv, Crash
    PROVE  Abstract!Next
<1>1. Phase' = [c \in Callers |-> "idle"]
  BY DEF Phase, Crash
<1>2. Abstract!Crash
  BY <1>1, SameStore DEF Abstract!Crash, Crash
<1> QED
  BY <1>2 DEF Abstract!Next

Unseen == UNCHANGED <<jobs, lastId, stamp, Phase, request, answer>>

LEMMA EnterImplements ==
    ASSUME IInv, NEW c \in Callers, Enter(c)
    PROVE  Abstract!Next \/ Unseen
<1>1. pc[c] = "enter" /\ UNCHANGED <<jobs, lastId, request, stamp>>
  BY DEF Enter, At
<1>2. CASE Invalid(request[c]) /\ Answer(c, FALSE)
  <2>1. request[c] \in Requests
    BY <1>1, RequestOfCall
  <2>2. Abstract!Performs(request[c]) /\ Abstract!Accepts(request[c]) = FALSE
    BY <1>1, <1>2, <2>1, RefusalIsPerformed
  <2> QED
    BY <1>1, <1>2, <2>2, AnswerIsEffect
<1>3. CASE /\ GoTo(c, IF request[c].op \in {"RenewLease", "Acknowledge"}
                      THEN "autocommit" ELSE "begin")
           /\ UNCHANGED <<lock, tx, answer>>
  <2>1. PICK point \in {"autocommit", "begin"} : pc' = [pc EXCEPT ![c] = point]
    BY <1>3 DEF GoTo
  <2>2. UNCHANGED Phase
    BY <1>1, <2>1, StatementIsHidden
  <2> QED
    BY <1>1, <1>3, <2>2 DEF Unseen
<1> QED
  BY <1>2, <1>3 DEF Enter

LEMMA BeginImplements ==
    ASSUME IInv, NEW c \in Callers, Begin(c)
    PROVE  Unseen
<1>1. /\ pc[c] = "begin" /\ pc' = [pc EXCEPT ![c] = FirstStatement(request[c])]
      /\ UNCHANGED <<jobs, lastId, request, answer, stamp>>
  BY DEF Begin, At, GoTo
<1>2. FirstStatement(request[c]) \notin {"idle", "return"}
  BY DEF FirstStatement
<1>3. UNCHANGED Phase
  BY <1>1, <1>2, StatementIsHidden
<1> QED
  BY <1>1, <1>3 DEF Unseen

LEMMA QueryImplements ==
    ASSUME IInv, NEW c \in Callers, Query(c)
    PROVE  Abstract!Next \/ Unseen
<1>1. pc[c] = "query" /\ UNCHANGED <<jobs, lastId, request, stamp>>
  BY DEF Query, At
<1>2. CASE Due(request[c].at) = {} /\ Answer(c, FALSE)
  <2>1. request[c] \in Requests /\ request[c].op = ClaimOp
    BY <1>1, RequestOfCall DEF IInv, RequestsFit, Fitting
  <2>2. Abstract!Performs(request[c]) /\ Abstract!Accepts(request[c]) = FALSE
    BY <1>1, <1>2, <2>1, RefusalIsPerformed
  <2> QED
    BY <1>1, <1>2, <2>2, AnswerIsEffect
<1>3. CASE GoTo(c, "load") /\ UNCHANGED <<lock, answer>>
  <2>1. UNCHANGED Phase
    BY <1>1, <1>3, StatementIsHidden DEF GoTo
  <2> QED
    BY <1>1, <1>3, <2>1 DEF Unseen
<1> QED
  BY <1>2, <1>3 DEF Query

LEMMA LoadImplements ==
    ASSUME IInv, NEW c \in Callers, Load(c)
    PROVE  Abstract!Next \/ Unseen
<1> DEFINE r == request[c]
           job == jobs[tx[c].job]
<1>1. pc[c] = "load" /\ UNCHANGED <<jobs, lastId, now, request>>
  BY DEF Load, At
<1>2. r \in Requests /\ Working("load", r, tx[c], jobs, lastId, stamp)
  BY <1>1, InsideTransaction DEF InTransaction, Legal
<1>3. PICK j \in JobIds : tx[c] = [job |-> j] /\ Chosen(r, jobs, j)
  BY <1>2 DEF Working
<1>4. CASE Refuses(r, job) /\ Answer(c, FALSE) /\ UNCHANGED stamp
  <2>1. r.op \in {"MarkCompleted", "MarkFailed", "ScheduleRetry"} /\ job = jobs[r.job]
    BY <1>3, <1>4 DEF Refuses, Chosen, Transitions, ClaimOp
  <2>2. \/ ~IsCurrentClaim(r.job, r.id)
        \/ r.op = "ScheduleRetry" /\ ~(AttemptCount(jobs[r.job]) < jobs[r.job].maxAttempts)
    <3>1. CASE jobs[r.job].status # "Running"
      BY <3>1 DEF IsCurrentClaim
    <3>2. CASE jobs[r.job].status = "Running"
      <4>1. r.op = "ScheduleRetry" /\ AttemptCount(jobs[r.job]) >= jobs[r.job].maxAttempts
        BY <1>4, <2>1, <3>2 DEF Refuses
      <4>2. jobs[r.job] \in Record
        BY <1>3, <2>1, <3>2, ClaimOp # "ScheduleRetry" DEF Chosen, IInv, TypeOK, StoreTypeOK,
           Record, NoJob, ClaimOp
      <4>3. AttemptCount(jobs[r.job]) \in Nat /\ jobs[r.job].maxAttempts \in Nat
        BY <4>2, AttemptCountType DEF Record, JobRecords
      <4> QED
        BY <4>1, <4>3
    <3> QED
      BY <3>1, <3>2
  <2>3. Abstract!Performs(r) /\ Abstract!Accepts(r) = FALSE
    BY <1>1, <1>2, <2>1, <2>2, RefusalIsPerformed
  <2> QED
    BY <1>1, <1>4, <2>3, AnswerIsEffect
<1>5. CASE /\ GoTo(c, "update")
           /\ stamp' = IF r.op = "TryClaimNextDueJob" THEN stamp ELSE now
           /\ UNCHANGED <<lock, answer>>
  <2>1. UNCHANGED Phase
    BY <1>1, <1>5, StatementIsHidden DEF GoTo
  <2>2. stamp' \in Nat /\ stamp' >= stamp
    BY <1>5 DEF IInv, TypeOK, StoreTypeOK
  <2>3. Abstract!ReadClock
    BY <1>1, <1>5, <2>1, <2>2 DEF Abstract!ReadClock
  <2> QED
    BY <2>3 DEF Abstract!Next
<1> QED
  BY <1>4, <1>5 DEF Load

LEMMA UpdateImplements ==
    ASSUME IInv, NEW c \in Callers, Update(c)
    PROVE  Abstract!Next \/ Unseen
<1> DEFINE r == request[c]
<1>1. pc[c] = "update" /\ UNCHANGED <<jobs, lastId, request, stamp>>
  BY DEF Update, At
<1>2. r \in Requests /\ Working("update", r, tx[c], jobs, lastId, stamp)
  BY <1>1, InsideTransaction DEF InTransaction, Legal
<1>3. CASE ~RowMatches(r, tx[c].loaded, jobs[tx[c].job]) /\ Answer(c, FALSE)
  <2>1. PICK j \in JobIds :
          /\ Ready(r, jobs, j)
          /\ tx[c] = [job |-> j, loaded |-> jobs[j],
                      next |-> NextRecord(r, jobs[j], stamp, lastId)]
    BY <1>2 DEF Working
  <2>2. tx[c].job = j /\ tx[c].loaded = jobs[j]
    BY <2>1
  <2>3. r.op # ClaimOp /\ ~IsCurrentClaim(j, r.id)
    BY <1>3, <2>2 DEF RowMatches, IsCurrentClaim, ClaimOp
  <2>4. r.op \in {"MarkCompleted", "MarkFailed", "ScheduleRetry"} /\ j = r.job
    BY <2>1, <2>3 DEF Ready, Chosen, Transitions
  <2>5. Abstract!Performs(r) /\ Abstract!Accepts(r) = FALSE
    BY <1>1, <1>2, <2>3, <2>4, RefusalIsPerformed
  <2> QED
    BY <1>1, <1>3, <2>5, AnswerIsEffect
<1>4. CASE GoTo(c, "insert") /\ UNCHANGED <<lock, answer>>
  <2>1. UNCHANGED Phase
    BY <1>1, <1>4, StatementIsHidden DEF GoTo
  <2> QED
    BY <1>1, <1>4, <2>1 DEF Unseen
<1> QED
  BY <1>3, <1>4 DEF Update

LEMMA InsertImplements ==
    ASSUME IInv, NEW c \in Callers, Insert(c)
    PROVE  Unseen
<1>1. /\ pc[c] = "insert" /\ pc' = [pc EXCEPT ![c] = "commit"]
      /\ UNCHANGED <<jobs, lastId, request, answer, stamp>>
  BY DEF Insert, At, GoTo
<1>2. UNCHANGED Phase
  BY <1>1, StatementIsHidden
<1> QED
  BY <1>1, <1>2 DEF Unseen

LEMMA CommitImplements ==
    ASSUME IInv, NEW c \in Callers, Commit(c)
    PROVE  Abstract!Next
<1>1. pc[c] = "commit" /\ Answer(c, TRUE) /\ UNCHANGED <<request, stamp>>
  BY DEF Commit, At
<1> QED
  BY <1>1, CommitIsPerformed, AnswerIsEffect

LEMMA AutocommitImplements ==
    ASSUME IInv, NEW c \in Callers, Autocommit(c)
    PROVE  Abstract!Next
<1> DEFINE r == request[c]
<1>1. pc[c] = "autocommit" /\ UNCHANGED <<request, stamp>> /\ Legal(r) /\ ~Invalid(r)
  BY DEF Autocommit, At, IInv, RequestsFit, Fitting
<1>2. r \in Requests
  BY <1>1 DEF Legal
<1>3. CASE /\ r.op = "RenewLease" /\ IsCurrentClaim(r.job, r.id)
           /\ Write(r.job, [jobs[r.job] EXCEPT !.leaseExpiresAt = r.until], 0)
           /\ Answer(c, TRUE)
  <2>1. /\ Abstract!IsCurrentClaim(r.job, r.id) /\ r.until > r.at
        /\ Abstract!Write(r.job, [jobs[r.job] EXCEPT !.leaseExpiresAt = r.until], 0)
    BY <1>1, <1>2, <1>3, SameStore DEF Invalid, Requests
  <2>2. Abstract!Performs(r) /\ Abstract!Accepts(r) = TRUE
    BY <1>3, <2>1 DEF Abstract!Performs, Abstract!Accepts, Abstract!RenewLease
  <2> QED
    BY <1>1, <1>3, <2>2, AnswerIsEffect
<1>4. CASE /\ r.op = "Acknowledge" /\ Exists(r.job)
           /\ Write(r.job, [jobs[r.job] EXCEPT !.acknowledged = TRUE], 0)
           /\ Answer(c, TRUE)
  <2>1. /\ Abstract!Exists(r.job)
        /\ Abstract!Write(r.job, [jobs[r.job] EXCEPT !.acknowledged = TRUE], 0)
    BY <1>4, SameStore
  <2>2. Abstract!Performs(r) /\ Abstract!Accepts(r) = TRUE
    BY <1>4, <2>1 DEF Abstract!Performs, Abstract!Accepts, Abstract!Acknowledge
  <2> QED
    BY <1>1, <1>4, <2>2, AnswerIsEffect
<1>5. CASE /\ \/ r.op = "RenewLease" /\ ~IsCurrentClaim(r.job, r.id)
              \/ r.op = "Acknowledge" /\ ~Exists(r.job)
           /\ UNCHANGED storeVars
           /\ Answer(c, FALSE)
  <2>1. Abstract!Performs(r) /\ Abstract!Accepts(r) = FALSE
    BY <1>2, <1>5, RefusalIsPerformed DEF storeVars
  <2> QED
    BY <1>1, <1>5, <2>1, AnswerIsEffect
<1> QED
  BY <1>3, <1>4, <1>5 DEF Autocommit

LEMMA StepImplements ==
    ASSUME IInv, [Next]_vars
    PROVE  [Abstract!Next]_(Abstract!absVars)
<1>1. Abstract!Next \/ Unseen
  <2>1. CASE UNCHANGED vars
    BY <2>1 DEF vars, Unseen, Phase
  <2>2. CASE Tick
    BY <2>2 DEF Tick, Unseen, Phase
  <2>3. CASE \E c \in Callers : Call(c) \/ Step(c) \/ Throw(c)
    <3>1. PICK c \in Callers : Call(c) \/ Step(c) \/ Throw(c)
      BY <2>3
    <3>2. CASE Return(c) \/ TimeOut(c) \/ Throw(c)
      <4>1. pc[c] # "idle" /\ End(c)
        BY <3>2 DEF Return, TimeOut, Throw, At
      <4> QED
        BY <4>1, EndIsEnd
    <3> QED
      BY <3>1, <3>2, CallIsCall, EnterImplements, BeginImplements, QueryImplements,
         LoadImplements, UpdateImplements, InsertImplements, CommitImplements,
         AutocommitImplements DEF Step
  <2> QED
    BY <2>1, <2>2, <2>3, CrashIsCrash DEF Next
<1> QED
  BY <1>1 DEF Abstract!absVars, Unseen

LEMMA InitImplements == Init => Abstract!Init
<1> SUFFICES ASSUME Init PROVE Abstract!Init
  OBVIOUS
<1>1. Phase = [c \in Callers |-> "idle"]
  BY DEF Init, Phase
<1>2. Abstract!StoreInit
  BY SameStore DEF Abstract!StoreInit, Init, StoreInit
<1> QED
  BY <1>1, <1>2, SameStore DEF Abstract!Init, Init

\* The store's operations, statement by statement and however calls, exceptions, lock
\* timeouts and crashes interleave, implement operations that take effect at one
\* instant, at most once, and answer truthfully: any callers, jobs and bounds.
THEOREM OperationsAreAtomic == Spec => ImplementsAtomicStore
<1>1. Init => Abstract!Init
  BY InitImplements
<1>2. IInv /\ [Next]_vars => [Abstract!Next]_(Abstract!absVars)
  BY StepImplements
<1> QED
  BY <1>1, <1>2, StoreInvariant, PTL DEF Spec, ImplementsAtomicStore, Abstract!Spec

-----------------------------------------------------------------------------
(* The committed rows keep what StoreClients promises of them, although each is  *)
(* read, computed, updated and completed by statements of its own: the lemmas of  *)
(* StoreClientsProofs about single records, applied to what the commits write.    *)

Rows == INSTANCE StoreClientsProofs WITH
    Times <- Nat, ChangeIds <- Nat, RetryDelay <- 0

\* What the modules of StoreClients assume of their constants.
LEMMA RowsAssumptions ==
    /\ Rows!NoWorker \notin Workers /\ JobIds \subseteq Nat
    /\ MaxAttempts \in Nat \ {0} /\ 0 \in Nat
    /\ Delays \subseteq Nat /\ LeaseDuration \in Nat
BY WorkersAssumption, JobIdsAssumption, BoundsAssumption DEF NoWorker, Rows!NoWorker

\* The records and the transitions there are those of this module.
LEMMA SameRecords ==
    /\ Rows!Record = Record /\ Rows!Change = Change
    /\ Rows!NoJob = NoJob /\ Rows!NoTime = NoTime /\ Rows!NoWorker = NoWorker
    /\ Rows!Pending = Pending /\ Rows!Terminal = Terminal
    /\ \A j, row, n : Rows!Write(j, row, n) <=> Write(j, row, n)
    /\ Rows!StoreTypeOK <=> StoreTypeOK
    /\ Rows!Stored = Stored
<1> USE DEF Rows!NoTime, NoTime, Rows!NoWorker, NoWorker, Rows!JobStatus, JobStatus,
            Rows!NoJob, NoJob
<1>1. Rows!StateChanges = StateChanges
  BY DEF Rows!StateChanges, StateChanges
<1>2. Rows!JobRecords = JobRecords
  BY <1>1 DEF Rows!JobRecords, JobRecords
<1>3. Rows!Record = Record /\ Rows!Change = Change
  BY <1>1, <1>2 DEF Rows!Record, Record, Rows!Change, Change
<1>4. Rows!Pending = Pending /\ Rows!Terminal = Terminal
  BY DEF Rows!Pending, Pending, Rows!Terminal, Terminal
<1>5. \A j, row, n : Rows!Write(j, row, n) <=> Write(j, row, n)
  BY DEF Rows!Write, Write
<1>6. Rows!StoreTypeOK <=> StoreTypeOK
  BY <1>2 DEF Rows!StoreTypeOK, StoreTypeOK
<1>7. Rows!Stored = Stored
  BY DEF Rows!Stored, Stored, Rows!Exists, Exists
<1> QED
  BY <1>3, <1>4, <1>5, <1>6, <1>7

LEMMA SameMoves ==
    /\ \A job, id, at : Rows!Completed(job, id, at) = Completed(job, id, at)
    /\ \A job, id, at : Rows!Failed(job, id, at) = Failed(job, id, at)
    /\ \A job, id, at, runAt :
         Rows!RetryScheduled(job, id, at, runAt) = RetryScheduled(job, id, at, runAt)
    /\ \A job, w, id, at, lease :
         Rows!Claimed(job, w, id, at, lease) = Claimed(job, w, id, at, lease)
    /\ \A job, id, at : Rows!Requeued(job, id, at) = Requeued(job, id, at)
    /\ \A id, attempts, runAt, at :
         /\ Rows!ScheduledJob(id, attempts, runAt, at) = ScheduledJob(id, attempts, runAt, at)
         /\ Rows!EnqueuedJob(id, attempts, at) = EnqueuedJob(id, attempts, at)
    /\ \A job : Rows!AttemptCount(job) = AttemptCount(job)
<1> USE DEF StateChange, Rows!StateChange, NoTime, Rows!NoTime, NoWorker, Rows!NoWorker,
            SettledChange, Rows!SettledChange, ScheduledChange, Rows!ScheduledChange,
            QueuedChange, Rows!QueuedChange, Unclaimed, Rows!Unclaimed
<1>1. \A job, id, at : Rows!Completed(job, id, at) = Completed(job, id, at)
  BY DEF Completed, Rows!Completed
<1>2. \A job, id, at : Rows!Failed(job, id, at) = Failed(job, id, at)
  BY DEF Failed, Rows!Failed
<1>3. \A job, id, at, runAt :
        Rows!RetryScheduled(job, id, at, runAt) = RetryScheduled(job, id, at, runAt)
  BY DEF RetryScheduled, Rows!RetryScheduled
<1>4. \A job, w, id, at, lease :
        Rows!Claimed(job, w, id, at, lease) = Claimed(job, w, id, at, lease)
  BY DEF Claimed, Rows!Claimed, RunningChange, Rows!RunningChange
<1>5. \A job, id, at : Rows!Requeued(job, id, at) = Requeued(job, id, at)
  BY DEF Requeued, Rows!Requeued
<1>6. \A id, attempts, runAt, at :
        /\ Rows!ScheduledJob(id, attempts, runAt, at) = ScheduledJob(id, attempts, runAt, at)
        /\ Rows!EnqueuedJob(id, attempts, at) = EnqueuedJob(id, attempts, at)
  BY DEF ScheduledJob, Rows!ScheduledJob, EnqueuedJob, Rows!EnqueuedJob, NewJob,
         Rows!NewJob
<1>7. \A job : Rows!AttemptCount(job) = AttemptCount(job)
  BY DEF AttemptCount, Rows!AttemptCount, AttemptsIn, Rows!AttemptsIn,
         Cardinality, Rows!Cardinality
<1> QED
  BY <1>1, <1>2, <1>3, <1>4, <1>5, <1>6, <1>7

\* What a claim makes of a job that is due.
LEMMA ClaimRecordSound ==
    ASSUME NEW r, Legal(r), r.op = ClaimOp, NEW job, Rows!Sound(job), IsDue(job, r.at),
           NEW clock \in Nat, NEW last \in Nat
    PROVE  LET next == NextRecord(r, job, clock, last)
           IN  Rows!Sound(next) /\ Rows!Follows(next, job)
<1>1. /\ r.at \in Nat /\ r.until \in Nat /\ r.worker \in Workers
      /\ last + 1 \in Nat /\ last + 2 \in Nat
  BY DEF Legal, Requests
<1>2. PICK w \in Workers, at \in Nat, lease \in Nat, id \in Nat, id2 \in Nat :
        w = r.worker /\ at = r.at /\ lease = r.until /\ id = last + 1 /\ id2 = last + 2
  BY <1>1
<1>3. CASE job.status = "Scheduled"
  <2> DEFINE next == Rows!Claimed(Rows!Requeued(job, id, at), w, id2, at, lease)
  <2>1. job.status = "Scheduled" /\ job.runAt <= at
    BY <1>2, <1>3 DEF IsDue
  <2>2. Rows!Sound(next) /\ Rows!Follows(next, job)
    BY <2>1, RowsAssumptions, Rows!RequeuedClaimedSound
  <2>3. NextRecord(r, job, clock, last) = Claimed(Requeued(job, id, at), w, id2, at, lease)
    BY <1>2, <1>3 DEF NextRecord, ClaimOp
  <2>4. next = Claimed(Requeued(job, id, at), w, id2, at, lease)
    BY SameMoves
  <2> QED
    BY <2>2, <2>3, <2>4
<1>4. CASE job.status # "Scheduled"
  <2> DEFINE next == Rows!Claimed(job, w, id, at, lease)
  <2>1. job.status \in {"Queued", "Running"}
    BY <1>4 DEF IsDue, Pending
  <2>2. Rows!Sound(next) /\ Rows!Follows(next, job)
    BY <2>1, RowsAssumptions, Rows!ClaimedSound
  <2>3. NextRecord(r, job, clock, last) = Claimed(job, w, id, at, lease)
    BY <1>2, <1>4 DEF NextRecord, ClaimOp
  <2>4. next = Claimed(job, w, id, at, lease)
    BY SameMoves
  <2> QED
    BY <2>2, <2>3, <2>4
<1> QED
  BY <1>3, <1>4

\* What the owner's operations make of a running job.
LEMMA OwnerRecordSound ==
    ASSUME NEW r, Legal(r), r.op \in Transitions \ {ClaimOp}, NEW job, Rows!Sound(job),
           ~Refuses(r, job), NEW clock \in Nat, NEW last \in Nat
    PROVE  LET next == NextRecord(r, job, clock, last)
           IN  /\ Rows!Sound(next) /\ Rows!Follows(next, job)
               /\ next.status # "Running"
<1>1. /\ r.until \in Nat /\ last + 1 \in Nat /\ job.status = "Running"
      /\ r.op = "ScheduleRetry" => ~(AttemptCount(job) >= job.maxAttempts)
  BY DEF Legal, Requests, Refuses, ClaimOp
<1>2. job \in Record
  BY SameRecords DEF Rows!Sound
<1>3. ASSUME NEW s \in Terminal
      PROVE  LET new == Rows!Unclaimed(job, Rows!SettledChange(last + 1, clock, s), NoTime)
             IN  /\ Rows!Sound(new) /\ Rows!Follows(new, job)
                 /\ Rows!Sound([new EXCEPT !.failureReason = TRUE])
                 /\ Rows!Follows([new EXCEPT !.failureReason = TRUE], job)
  <2> DEFINE new == Rows!Unclaimed(job, Rows!SettledChange(last + 1, clock, s), NoTime)
  <2>1. Rows!Sound(new) /\ Rows!Follows(new, job)
    BY <1>1, RowsAssumptions, SameRecords, Rows!SettledSound
  <2> HIDE DEF new
  <2>2. /\ Rows!Sound([new EXCEPT !.failureReason = TRUE])
        /\ Rows!Follows([new EXCEPT !.failureReason = TRUE], job)
    BY <2>1, RowsAssumptions, Rows!ReasonSound
  <2> QED
    BY <2>1, <2>2 DEF new
<1>4. CASE r.op = "MarkCompleted"
  <2>1. NextRecord(r, job, clock, last) = Rows!Completed(job, last + 1, clock)
    BY <1>4, SameMoves DEF NextRecord, ClaimOp
  <2>2. Rows!Completed(job, last + 1, clock)
          = Rows!Unclaimed(job, Rows!SettledChange(last + 1, clock, "Completed"), NoTime)
    BY SameRecords DEF Rows!Completed
  <2>3. Completed(job, last + 1, clock).status = "Completed"
    BY <1>2 DEF Completed, Unclaimed, SettledChange, StateChange, Record, JobRecords
  <2> QED
    BY <1>3, <2>1, <2>2, <2>3, SameMoves DEF Terminal
<1>5. CASE r.op = "MarkFailed"
  <2>1. NextRecord(r, job, clock, last) = Rows!Failed(job, last + 1, clock)
    BY <1>5, SameMoves DEF NextRecord, ClaimOp
  <2>2. Rows!Failed(job, last + 1, clock)
          = [Rows!Unclaimed(job, Rows!SettledChange(last + 1, clock, "Failed"), NoTime)
               EXCEPT !.failureReason = TRUE]
    BY SameRecords DEF Rows!Failed
  <2>3. Failed(job, last + 1, clock).status = "Failed"
    BY <1>2 DEF Failed, Unclaimed, SettledChange, StateChange, Record, JobRecords
  <2> QED
    BY <1>3, <2>1, <2>2, <2>3, SameMoves DEF Terminal
<1>6. CASE r.op = "ScheduleRetry"
  <2>1. NextRecord(r, job, clock, last) = Rows!RetryScheduled(job, last + 1, clock, r.until)
    BY <1>6, SameMoves DEF NextRecord, ClaimOp
  <2>2. Rows!AttemptCount(job) < job.maxAttempts
    BY <1>1, <1>2, <1>6, SameMoves, AttemptCountType DEF Record, JobRecords
  <2>3. LET next == Rows!RetryScheduled(job, last + 1, clock, r.until)
        IN  Rows!Sound(next) /\ Rows!Follows(next, job)
    BY <1>1, <2>2, RowsAssumptions, Rows!RetryScheduledSound
  <2>4. RetryScheduled(job, last + 1, clock, r.until).status = "Scheduled"
    BY <1>2 DEF RetryScheduled, Unclaimed, ScheduledChange, StateChange, Record, JobRecords
  <2> QED
    BY <2>1, <2>3, <2>4, SameMoves
<1> QED
  BY <1>4, <1>5, <1>6 DEF Transitions, ClaimOp

LEMMA AddedRecordSound ==
    ASSUME NEW r, Legal(r), NEW last \in Nat
    PROVE  Rows!Sound(AddedRecord(r, last))
<1>1. PICK at \in Nat, until \in Nat, id \in Nat :
        at = r.at /\ until = r.until /\ id = last + 1
  BY DEF Legal, Requests
<1>2. MaxAttempts \in Nat \ {0}
  BY BoundsAssumption
<1>3. Rows!Sound(Rows!ScheduledJob(id, MaxAttempts, until, at))
  <2>1. LET e == Rows!ScheduledChange(id, at, until)
        IN  /\ e \in Rows!Change /\ e.status = "Scheduled" /\ e.by = Rows!NoWorker
            /\ e.scheduledAt = until
    BY DEF Rows!ScheduledChange, Rows!StateChange, Rows!Change, Rows!StateChanges,
           Rows!JobStatus, Rows!NoWorker
  <2> QED
    BY <1>2, <2>1, RowsAssumptions, Rows!NewJobSound DEF Rows!ScheduledJob, Rows!Pending
<1>4. Rows!Sound(Rows!EnqueuedJob(id, MaxAttempts, at))
  <2>1. LET e == Rows!QueuedChange(id, at)
        IN  e \in Rows!Change /\ e.status = "Queued" /\ e.by = Rows!NoWorker
    BY DEF Rows!QueuedChange, Rows!StateChange, Rows!Change, Rows!StateChanges,
           Rows!JobStatus, Rows!NoWorker, Rows!NoTime
  <2> QED
    BY <1>2, <2>1, RowsAssumptions, Rows!NewJobSound DEF Rows!EnqueuedJob, Rows!Pending
<1> QED
  BY <1>1, <1>3, <1>4, SameMoves DEF AddedRecord

-----------------------------------------------------------------------------
(* The steps that write rows. *)

\* A claim is dated with a clock reading of the past.
PastClaims == \A c \in Callers : request[c].op = ClaimOp => request[c].at <= now

LEMMA CommitKeepsRows ==
    ASSUME IInv, PastClaims, Rows!StoreInv, NEW c \in Callers, Commit(c)
    PROVE  Rows!StoreInv' /\ Rows!RowsEvolve
<1> DEFINE r == request[c]
<1>1. /\ now' = now /\ lastId \in Nat /\ stamp \in Nat /\ now \in Nat
      /\ Legal(r) /\ (r.op = ClaimOp => r.at <= now)
  BY InsideTransaction DEF Commit, At, InTransaction, IInv, TypeOK, StoreTypeOK, PastClaims
<1>2. CASE /\ r.op = "Add" /\ r.job \in JobIds /\ jobs[r.job] = NoJob
           /\ Write(r.job, AddedRecord(r, lastId), 1)
  <2> DEFINE new == AddedRecord(r, lastId)
             j == r.job
  <2>1. Rows!Sound(new)
    BY <1>1, AddedRecordSound
  <2>2. Rows!Write(j, new, 1) /\ j \in JobIds /\ jobs[j] = Rows!NoJob
    BY <1>2, SameRecords
  <2> HIDE DEF new, j
  <2>3. Rows!Evolves(jobs[j], new)
    BY <2>2 DEF Rows!Evolves, Rows!Terminal, Rows!NoJob
  <2> QED
    BY <1>1, <2>1, <2>2, <2>3, RowsAssumptions, Rows!RowWritten
<1>3. ASSUME NEW j \in JobIds, Ready(r, jobs, j), Matched(r, jobs[j]), jobs[j] \in Record,
             Write(j, NextRecord(r, jobs[j], stamp, lastId), ChangesOf(r, jobs[j]))
      PROVE  Rows!StoreInv' /\ Rows!RowsEvolve
  <2> DEFINE new == NextRecord(r, jobs[j], stamp, lastId)
             n == ChangesOf(r, jobs[j])
  <2>1. Rows!Write(j, new, n) /\ n \in Nat
    BY <1>3, SameRecords DEF ChangesOf
  <2>2. Rows!Sound(jobs[j])
    BY <1>3, SameRecords DEF Rows!StoreInv, Rows!Stored, Rows!Exists, Rows!NoJob, NoJob,
                             Record, JobRecords
  <2>3. CASE r.op = ClaimOp
    <3>1. IsDue(jobs[j], r.at)
      BY <1>3, <2>3 DEF Ready, Chosen, DueFirst
    <3>2. Rows!Sound(new) /\ Rows!Follows(new, jobs[j])
      BY <1>1, <2>2, <2>3, <3>1, ClaimRecordSound
    <3>3. jobs[j].leaseExpiresAt \in Nat \cup {NoTime}
      BY <1>3 DEF Record, JobRecords
    <3>4. r.at \in Nat /\ r.at <= now
      BY <1>1, <2>3 DEF Legal, Requests
    <3>5. /\ jobs[j].status \notin Terminal
          /\ ~(jobs[j].status = "Running" /\ jobs[j].leaseExpiresAt > now)
      BY <1>1, <3>1, <3>3, <3>4 DEF IsDue, Pending, Terminal, NoTime
    <3> HIDE DEF new, n
    <3>6. Rows!Evolves(jobs[j], new)
      BY <2>2, <3>2, <3>5, SameRecords DEF Rows!Evolves, Rows!Sound
    <3> QED
      BY <1>1, <2>1, <3>2, <3>6, RowsAssumptions, Rows!RowWritten
  <2>4. CASE r.op # ClaimOp
    <3>1. r.op \in Transitions \ {ClaimOp} /\ ~Refuses(r, jobs[j])
          /\ jobs[j].status = "Running"
      BY <1>3, <2>4 DEF Ready, Chosen, Matched
    <3>2. Rows!Sound(new) /\ Rows!Follows(new, jobs[j]) /\ new.status # "Running"
      BY <1>1, <2>2, <3>1, OwnerRecordSound
    <3> HIDE DEF new, n
    <3>3. Rows!Evolves(jobs[j], new)
      BY <2>2, <3>1, <3>2 DEF Rows!Evolves, Rows!Sound, Rows!Terminal
    <3> QED
      BY <1>1, <2>1, <3>2, <3>3, RowsAssumptions, Rows!RowWritten
  <2> QED
    BY <2>3, <2>4
<1> QED
  BY <1>2, <1>3, CommitFacts

LEMMA AutocommitKeepsRows ==
    ASSUME IInv, Rows!StoreInv, NEW c \in Callers, Autocommit(c)
    PROVE  Rows!StoreInv' /\ Rows!RowsEvolve
<1> DEFINE j == request[c].job
           until == request[c].until
           id == request[c].id
<1>1. /\ now' = now /\ now \in Nat /\ j \in JobIds /\ until \in Nat
  BY DEF Autocommit, At, IInv, RequestsFit, Fitting, Legal, Requests, SingleUpdates,
         ClaimOp, TypeOK, StoreTypeOK
<1> HIDE DEF j, until, id
<1>2. CASE UNCHANGED storeVars
  BY <1>1, <1>2, RowsAssumptions, Rows!NothingWritten DEF storeVars, Rows!storeVars
<1>3. CASE IsCurrentClaim(j, id) /\ Write(j, [jobs[j] EXCEPT !.leaseExpiresAt = until], 0)
  <2> DEFINE new == [jobs[j] EXCEPT !.leaseExpiresAt = until]
  <2>1. /\ Rows!IsCurrentClaim(j, id) /\ Rows!Write(j, new, 0)
        /\ jobs[j].status = "Running" /\ jobs[j].currentStateChangeId = id
    BY <1>3, SameRecords DEF IsCurrentClaim, Rows!IsCurrentClaim
  <2>2. Rows!Sound(jobs[j])
    BY <1>1, <2>1, RowsAssumptions, Rows!OwnerFacts
  <2>3. Rows!Sound(new) /\ Rows!Follows(new, jobs[j])
    BY <1>1, <2>1, <2>2, RowsAssumptions, Rows!RenewedSound
  <2>4. new.currentStateChangeId = id
    BY <2>1, <2>2 DEF Rows!Sound, Rows!Record, Rows!JobRecords
  <2> HIDE DEF new
  <2> QED
    BY <1>1, <2>1, <2>3, <2>4, RowsAssumptions, Rows!OwnerWrites
<1>4. CASE Exists(j) /\ Write(j, [jobs[j] EXCEPT !.acknowledged = TRUE], 0)
  <2> DEFINE new == [jobs[j] EXCEPT !.acknowledged = TRUE]
  <2>1. Rows!Write(j, new, 0) /\ jobs[j] # Rows!NoJob
    BY <1>4, SameRecords DEF Exists
  <2>2. Rows!Sound(jobs[j])
    BY <1>1, <2>1 DEF Rows!StoreInv, Rows!Stored, Rows!Exists
  <2>3. /\ Rows!Sound(new) /\ Rows!Follows(new, jobs[j])
        /\ new.status = jobs[j].status /\ new.history = jobs[j].history
        /\ new.currentStateChangeId = jobs[j].currentStateChangeId
    BY <2>2, RowsAssumptions, Rows!AcknowledgedSound
  <2> HIDE DEF new
  <2>4. Rows!Evolves(jobs[j], new)
    BY <2>2, <2>3 DEF Rows!Evolves, Rows!Sound
  <2> QED
    BY <1>1, <2>1, <2>3, <2>4, RowsAssumptions, Rows!RowWritten
<1> QED
  BY <1>2, <1>3, <1>4 DEF Autocommit, j, until, id

\* Every other step of a call leaves the rows alone.
LEMMA CallKeepsRows ==
    ASSUME IInv, PastClaims, NEW c \in Callers, Call(c)
    PROVE  PastClaims' /\ UNCHANGED <<jobs, lastId, now>>
<1>1. PICK r \in Calls : request' = [request EXCEPT ![c] = r]
  BY DEF Call
<1>2. UNCHANGED <<jobs, lastId, now>> /\ now \in Nat
  BY DEF Call, IInv, TypeOK, StoreTypeOK
<1>3. r.op = ClaimOp => r.at = now
  BY DEF Calls, Request, ClaimOp
<1> QED
  BY <1>1, <1>2, <1>3 DEF PastClaims, IInv, TypeOK

LEMMA ClaimsStayPast ==
    ASSUME IInv, PastClaims, [Next]_vars
    PROVE  PastClaims' /\ now' \in Nat
<1>1. now \in Nat /\ \A c \in Callers : request[c].op = ClaimOp => request[c].at \in Nat
  BY DEF IInv, TypeOK, StoreTypeOK, Requests, NoRequest, ClaimOp
<1>2. NoRequest.op # ClaimOp
  BY DEF NoRequest, ClaimOp
<1>3. CASE UNCHANGED <<request, now>>
  BY <1>1, <1>3 DEF PastClaims
<1>4. ASSUME NEW c \in Callers, End(c) PROVE PastClaims' /\ now' \in Nat
  BY <1>1, <1>2, <1>4 DEF End, PastClaims, IInv, TypeOK
<1>5. CASE Crash
  BY <1>1, <1>2, <1>5 DEF Crash, PastClaims
<1>6. CASE Tick
  BY <1>1, <1>6 DEF Tick, PastClaims
<1>7. ASSUME NEW c \in Callers, Call(c) PROVE PastClaims' /\ now' \in Nat
  BY <1>1, <1>7, CallKeepsRows
<1>8. ASSUME NEW c \in Callers, Step(c) \/ Throw(c) PROVE PastClaims' /\ now' \in Nat
  BY <1>3, <1>4, <1>8 DEF Step, Throw, Enter, Begin, Query, Load, Update, Insert, Commit,
                          Autocommit, Return, TimeOut
<1> QED
  BY <1>3, <1>5, <1>6, <1>7, <1>8 DEF Next, vars

LEMMA StepKeepsRows ==
    ASSUME IInv, PastClaims, Rows!StoreInv, [Next]_vars
    PROVE  PastClaims' /\ Rows!StoreInv' /\ Rows!RowsEvolve
<1>1. PastClaims' /\ now' \in Nat
  BY ClaimsStayPast
<1>2. CASE UNCHANGED <<jobs, lastId>>
  BY <1>1, <1>2, RowsAssumptions, Rows!NothingWritten DEF Rows!storeVars
<1>3. ASSUME NEW c \in Callers, Commit(c) \/ Autocommit(c)
      PROVE  Rows!StoreInv' /\ Rows!RowsEvolve
  BY <1>3, CommitKeepsRows, AutocommitKeepsRows
<1>4. ASSUME NEW c \in Callers,
             \/ Call(c) \/ Enter(c) \/ Begin(c) \/ Query(c) \/ Load(c) \/ Update(c)
             \/ Insert(c) \/ Return(c) \/ TimeOut(c) \/ Throw(c)
      PROVE  UNCHANGED <<jobs, lastId>>
  BY <1>4 DEF Call, Enter, Begin, Query, Load, Update, Insert, Return, TimeOut, Throw, End
<1>5. CASE Crash \/ Tick \/ UNCHANGED vars
  BY <1>2, <1>5 DEF Crash, Tick, vars
<1> QED
  BY <1>1, <1>2, <1>3, <1>4, <1>5 DEF Next, Step

LEMMA InitRows == Init => PastClaims /\ Rows!StoreInv
<1> SUFFICES ASSUME Init PROVE PastClaims /\ Rows!StoreInv
  OBVIOUS
<1>1. StoreTypeOK
  BY DEF Init, StoreInit, StoreTypeOK
<1>2. Stored = {}
  BY DEF Init, StoreInit, Stored, Exists
<1> QED
  BY <1>1, <1>2, SameRecords DEF Init, PastClaims, NoRequest, ClaimOp, Rows!StoreInv

LEMMA RowsInvariant == Spec => [](IInv /\ PastClaims /\ Rows!StoreInv)
<1>1. IInv /\ PastClaims /\ Rows!StoreInv /\ [Next]_vars => PastClaims' /\ Rows!StoreInv'
  BY StepKeepsRows
<1> QED
  BY <1>1, InitRows, StoreInvariant, PTL DEF Spec

LEMMA SoundRows ==
    ASSUME Rows!StoreInv
    PROVE  HistoryLegal /\ RowMatchesHistory /\ NeverEarly /\ RetriesWithinBudget
<1>1. \A j \in Stored : Rows!Sound(jobs[j])
  BY SameRecords DEF Rows!StoreInv
<1>2. HistoryLegal
  BY <1>1, SameRecords
     DEF HistoryLegal, Rows!Sound, Rows!SoundHistory, Rows!Legal, Rows!Steps, Steps,
         Rows!LegalSteps, LegalSteps
<1>3. RowMatchesHistory
  BY <1>1, SameRecords DEF RowMatchesHistory, Rows!Sound, Rows!MatchesHistory, Rows!LastOf
<1>4. NeverEarly
  BY <1>1 DEF NeverEarly, Rows!Sound, Rows!SoundHistory, Rows!OnTime, Rows!Steps, Steps
<1>5. \A h : Rows!AttemptsIn(h) = AttemptsIn(h)
  BY DEF AttemptsIn, Rows!AttemptsIn, Cardinality, Rows!Cardinality
<1>6. RetriesWithinBudget
  BY <1>1, <1>5 DEF RetriesWithinBudget, Rows!Sound, Rows!SoundHistory, Rows!InBudget,
                    Rows!Steps, Steps
<1> QED
  BY <1>2, <1>3, <1>4, <1>6

\* What is committed is sound at every instant between any two statements of any calls, with
\* exceptions, lock timeouts and crashes among them: the histories are legal, the columns of
\* a row say what its history says although they are written by different statements, and
\* nothing runs early or more often than its policy allows.
THEOREM CommittedRowsAreSound ==
    Spec => [](HistoryLegal /\ RowMatchesHistory /\ NeverEarly /\ RetriesWithinBudget)
BY RowsInvariant, SoundRows, PTL

\* And no commit moves a settled job, rewrites a history, loses an acknowledgement, or takes
\* a running job whose lease is ahead of the clock, although each writes what it computed
\* from the row as it was at an earlier statement.
THEOREM CommitsRespectRows ==
    Spec => /\ Rows!SettledIsFinal /\ Rows!HistoryOnlyGrows
            /\ Rows!AcknowledgementSticks /\ Rows!LiveLeaseNotTaken
<1>1. IInv /\ PastClaims /\ Rows!StoreInv /\ [Next]_vars => Rows!RowsEvolve
  BY StepKeepsRows
<1>2. Rows!RowsEvolve =>
        [\A j \in JobIds : jobs[j].status \in Rows!Terminal =>
           /\ jobs'[j].status = jobs[j].status
           /\ jobs'[j].currentStateChangeId = jobs[j].currentStateChangeId
           /\ jobs'[j].history = jobs[j].history]_(Rows!vars)
  BY DEF Rows!RowsEvolve, Rows!Evolves
<1>3. Rows!RowsEvolve =>
        [\A j \in Rows!Stored :
           LET old == jobs[j].history
               new == jobs'[j].history
           IN  Len(old) <= Len(new) /\ SubSeq(new, 1, Len(old)) = old]_(Rows!vars)
  <2> SUFFICES ASSUME Rows!RowsEvolve, NEW j \in Rows!Stored
               PROVE  /\ Len(jobs[j].history) <= Len(jobs'[j].history)
                      /\ SubSeq(jobs'[j].history, 1, Len(jobs[j].history))
                           = jobs[j].history
    OBVIOUS
  <2>1. /\ jobs[j] \in Rows!Record /\ jobs'[j] \in Rows!Record
        /\ Rows!Follows(jobs'[j], jobs[j])
    BY DEF Rows!RowsEvolve, Rows!Evolves, Rows!Stored, Rows!Exists
  <2> QED
    BY <2>1, RowsAssumptions, Rows!HistoryKept
<1>4. Rows!RowsEvolve =>
        [\A j \in Rows!Stored : jobs[j].acknowledged => jobs'[j].acknowledged]_(Rows!vars)
  BY DEF Rows!RowsEvolve, Rows!Evolves, Rows!Follows, Rows!Stored, Rows!Exists
<1>5. Rows!RowsEvolve =>
        [\A j \in JobIds :
           /\ jobs[j].status = "Running"
           /\ jobs[j].leaseExpiresAt > now
           /\ jobs'[j].status = "Running"
           => jobs'[j].currentStateChangeId = jobs[j].currentStateChangeId]_(Rows!vars)
  BY DEF Rows!RowsEvolve, Rows!Evolves
<1> QED
  BY <1>1, <1>2, <1>3, <1>4, <1>5, RowsInvariant, PTL
     DEF Spec, Rows!SettledIsFinal, Rows!HistoryOnlyGrows, Rows!AcknowledgementSticks,
         Rows!LiveLeaseNotTaken

\* What is committed between the statements of a call survives its UPDATE: an acknowledgement
\* or a renewal that arrives after the job was queried or loaded, and every change of the
\* history.  The write lock of BEGIN IMMEDIATE is what the invariant rests on here.
THEOREM UpdatesAreKept == Spec => NoUpdateLost
<1>1. ASSUME Rows!RowsEvolve, NEW j \in JobIds, Exists(j)
      PROVE  LET row == jobs[j]  next == jobs'[j] IN
             /\ row.acknowledged => next.acknowledged
             /\ SubSeq(next.history, 1, Len(row.history)) = row.history
             /\ row.status = "Running" /\ next.status = "Running" /\ row.leaseExpiresAt > now
                  => next.currentStateChangeId = row.currentStateChangeId
  <2>1. Rows!Evolves(jobs[j], jobs'[j]) /\ jobs[j] # Rows!NoJob
    BY <1>1, SameRecords DEF Rows!RowsEvolve, Exists
  <2>2. /\ jobs[j] \in Rows!Record /\ jobs'[j] \in Rows!Record
        /\ Rows!Follows(jobs'[j], jobs[j])
    BY <2>1 DEF Rows!Evolves
  <2>3. SubSeq(jobs'[j].history, 1, Len(jobs[j].history)) = jobs[j].history
    BY <2>2, RowsAssumptions, Rows!HistoryKept
  <2>4. jobs[j].acknowledged => jobs'[j].acknowledged
    BY <2>2 DEF Rows!Follows
  <2> QED
    BY <2>1, <2>3, <2>4 DEF Rows!Evolves
<1>2. IInv /\ PastClaims /\ Rows!StoreInv /\ [Next]_vars => Rows!RowsEvolve
  BY StepKeepsRows
<1>3. Rows!RowsEvolve =>
        [\A j \in JobIds : Exists(j) => LET row == jobs[j]  next == jobs'[j] IN
           /\ row.acknowledged => next.acknowledged
           /\ SubSeq(next.history, 1, Len(row.history)) = row.history
           /\ row.status = "Running" /\ next.status = "Running" /\ row.leaseExpiresAt > now
                => next.currentStateChangeId = row.currentStateChangeId]_jobs
  BY <1>1
<1> QED
  BY <1>2, <1>3, RowsInvariant, PTL DEF Spec, NoUpdateLost
=============================================================================
