-------------------------- MODULE MemoryClientsProofs --------------------------
(***************************************************************************)
(* The in-memory store, for any number of jobs and workers, any delays and  *)
(* any interleaving of its callers: its index is exact, a claim finds        *)
(* whatever is due, every change of the records is one the SQLite store       *)
(* makes, and the claims of its callers implement JobOwnership.              *)
(***************************************************************************)
EXTENDS MemoryClients, JobRecordProofs

QueueEntries == [runAt : Nat, addedAt : Nat, job : JobIds]

IndexInv == TypeOK /\ IndexExact

-----------------------------------------------------------------------------
(* The entry of a record: it is filed under the record's RunAt. *)

\* A history that consists of one change.
LEMMA NewJobEntry ==
    ASSUME NEW c \in Change, c.status \in Pending, NEW runAt, NEW attempts, NEW j,
           c.status = "Scheduled" => c.scheduledAt = runAt /\ runAt # NoTime,
           c.status = "Queued" => c.changedAt = runAt
    PROVE  EntryFor(NewJob(c, runAt, attempts), j) = Entry(runAt, now, j)
<1> DEFINE job == NewJob(c, runAt, attempts)
<1>1. job.history = <<c>> /\ DOMAIN job.history = {1} /\ job.history[1] = c
  BY DEF NewJob
<1> HIDE DEF job
<1>2. EnqueuedAt(job) = c.changedAt
  BY <1>1 DEF EnqueuedAt
<1> DEFINE scheduled == {i \in DOMAIN job.history : job.history[i].status = "Scheduled"}
           last == CHOOSE i \in scheduled : \A k \in scheduled : k <= i
<1>3. ScheduledAt(job) = IF scheduled = {} THEN NoTime ELSE job.history[last].scheduledAt
  BY DEF ScheduledAt
<1>4. CASE c.status = "Scheduled"
  <2>1. scheduled = {1}
    BY <1>1, <1>4
  <2> HIDE DEF scheduled
  <2>2. last = 1
    BY <2>1
  <2> HIDE DEF last
  <2>3. ScheduledAt(job) = runAt
    BY <1>1, <1>3, <1>4, <2>1, <2>2
  <2> QED
    BY <1>4, <2>3 DEF EntryFor, job
<1>5. CASE c.status = "Queued"
  <2>1. scheduled = {}
    BY <1>1, <1>5
  <2> HIDE DEF scheduled, last
  <2>2. ScheduledAt(job) = NoTime
    BY <1>3, <2>1
  <2> QED
    BY <1>2, <1>5, <2>2 DEF EntryFor, job
<1> QED
  BY <1>4, <1>5 DEF Pending

LEMMA LastAppended ==
    ASSUME NEW g \in Seq(Change), NEW c \in Change
    PROVE  LET h == Append(g, c) IN
           /\ Len(h) = Len(g) + 1
           /\ DOMAIN h = 1 .. Len(g) + 1
           /\ h[Len(g) + 1] = c
OBVIOUS

\* A retry: the last Scheduled change is the one just appended.
LEMMA RetryEntry ==
    ASSUME NEW job \in Record, NEW id \in Nat, NEW at \in Nat, NEW runAt \in Nat, NEW j
    PROVE  LET r == RetryScheduled(job, id, at, runAt) IN
           /\ r.status = "Scheduled"
           /\ r.runAt = runAt
           /\ EntryFor(r, j) = Entry(runAt, now, j)
<1> DEFINE r == RetryScheduled(job, id, at, runAt)
           a == SettledChange(id, at, "Failed")
           b == ScheduledChange(id + 1, at, runAt)
           h == Append(Append(job.history, a), b)
<1>1. /\ r.status = b.status
      /\ r.runAt = runAt
      /\ r.history = h
  BY DEF RetryScheduled, Unclaimed, Record, JobRecords
<1>2. /\ b.status = "Scheduled" /\ b.scheduledAt = runAt
      /\ a \in Change /\ b \in Change
  <2>1. a \in Change
    BY SettledChangeType DEF Terminal
  <2>2. b \in Change /\ b.status = "Scheduled" /\ b.scheduledAt = runAt
    BY DEF ScheduledChange, StateChange, Change, StateChanges, JobStatus, NoWorker
  <2> QED
    BY <2>1, <2>2
<1>3. job.history \in Seq(Change)
  BY DEF Record, JobRecords, Change
<1> HIDE DEF a, b, r
<1> DEFINE n == Len(job.history) + 2
<1>4. n \in Nat /\ n > 0 /\ DOMAIN h = 1 .. n /\ h[n] = b
  <2> DEFINE g == Append(job.history, a)
  <2>1. Len(job.history) \in Nat /\ Len(g) = Len(job.history) + 1
    BY <1>3
  <2>2. Len(h) = Len(g) + 1 /\ DOMAIN h = 1 .. Len(g) + 1 /\ h[Len(g) + 1] = b
    <3>1. g \in Seq(Change)
      BY <1>2, <1>3
    <3>2. h = Append(g, b)
      OBVIOUS
    <3> HIDE DEF g, h
    <3> QED
      BY <1>2, <3>1, <3>2, LastAppended
  <2> QED
    BY <2>1, <2>2
<1> HIDE DEF h, n
<1> DEFINE scheduled == {i \in DOMAIN r.history : r.history[i].status = "Scheduled"}
           last == CHOOSE i \in scheduled : \A k \in scheduled : k <= i
<1>5. n \in scheduled /\ scheduled \subseteq 1 .. n
  BY <1>1, <1>2, <1>4
<1>6. ScheduledAt(r) = IF scheduled = {} THEN NoTime ELSE r.history[last].scheduledAt
  BY DEF ScheduledAt
<1> HIDE DEF scheduled
<1>7. last = n
  <2>1. \A k \in scheduled : k <= n
    BY <1>4, <1>5
  <2>2. last \in scheduled /\ \A k \in scheduled : k <= last
    <3>1. \E i \in scheduled : \A k \in scheduled : k <= i
      BY <1>5, <2>1
    <3> QED
      BY <3>1, Zenon
  <2> HIDE DEF last
  <2>3. last <= n /\ n <= last /\ last \in Nat
    BY <1>4, <1>5, <2>1, <2>2
  <2> QED
    BY <1>4, <2>3
<1> HIDE DEF last
<1>8. ScheduledAt(r) = runAt /\ runAt # NoTime
  BY <1>1, <1>2, <1>4, <1>5, <1>6, <1>7 DEF NoTime
<1> QED
  BY <1>1, <1>2, <1>8 DEF EntryFor, r

-----------------------------------------------------------------------------
(* What a write and the index have to do with each other. *)

LEMMA RowFacts ==
    ASSUME StoreTypeOK, NEW j \in JobIds
    PROVE  /\ Exists(j) => jobs[j] \in Record
           /\ jobs[j].status # "Absent" => jobs[j] \in Record
           /\ ~Exists(j) => jobs[j].status \notin Pending
<1>1. jobs[j] \in Record \cup {NoJob}
  BY DEF StoreTypeOK, Record
<1> QED
  BY <1>1 DEF Exists, NoJob, Pending

LEMMA WriteType ==
    ASSUME StoreTypeOK, NEW j \in JobIds, NEW r \in Record, NEW n \in Nat, Write(j, r, n)
    PROVE  /\ jobs' = [jobs EXCEPT ![j] = r]
           /\ jobs' \in [JobIds -> Record \cup {NoJob}]
           /\ lastId' \in Nat
BY DEF StoreTypeOK, Write, Record

\* The record of job j is replaced and is as pending as before.
LEMMA IndexKept ==
    ASSUME IndexInv, NEW j \in JobIds, NEW r \in Record, NEW n \in Nat,
           Write(j, r, n), UNCHANGED pending, now' = now,
           r.status \in Pending <=> jobs[j].status \in Pending,
           r.status \in Pending => r.runAt = jobs[j].runAt
    PROVE  StoreTypeOK' /\ IndexExact'
<1>1. StoreTypeOK
  BY DEF IndexInv, TypeOK
<1>2. /\ jobs' = [jobs EXCEPT ![j] = r]
      /\ jobs' \in [JobIds -> Record \cup {NoJob}]
      /\ lastId' \in Nat
  BY <1>1, WriteType
<1>3. jobs'[j] = r /\ \A k \in JobIds : k # j => jobs'[k] = jobs[k]
  BY <1>1, <1>2 DEF StoreTypeOK
<1>4. pending \subseteq QueueEntries
  BY <1>1 DEF StoreTypeOK, QueueEntries
<1>5. \A e \in pending : e.job \in JobIds
  BY <1>4 DEF QueueEntries
<1>6. IndexExact'
  BY <1>3, <1>5 DEF IndexInv, IndexExact
<1>7. StoreTypeOK'
  BY <1>1, <1>2 DEF StoreTypeOK, Record
<1> QED
  BY <1>6, <1>7

\* The job becomes pending and its entry is added.
LEMMA IndexAdded ==
    ASSUME IndexInv, NEW j \in JobIds, NEW r \in Record, NEW n \in Nat,
           NEW runAt \in Nat,
           Write(j, r, n), AddPending(r, j), now' = now,
           EntryFor(r, j) = Entry(runAt, now, j),
           jobs[j].status \notin Pending, r.status \in Pending, r.runAt = runAt
    PROVE  StoreTypeOK' /\ IndexExact'
<1> DEFINE new == Entry(runAt, now, j)
<1>1. StoreTypeOK
  BY DEF IndexInv, TypeOK
<1>2. /\ jobs' = [jobs EXCEPT ![j] = r]
      /\ jobs' \in [JobIds -> Record \cup {NoJob}]
      /\ lastId' \in Nat
  BY <1>1, WriteType
<1>3. jobs'[j] = r /\ \A k \in JobIds : k # j => jobs'[k] = jobs[k]
  BY <1>1, <1>2 DEF StoreTypeOK
<1>4. pending \subseteq QueueEntries /\ now \in Nat
  BY <1>1 DEF StoreTypeOK, QueueEntries
<1>5. pending' = pending \cup {new}
  BY DEF AddPending
<1>6. new \in QueueEntries /\ new.job = j /\ new.runAt = runAt
  BY <1>4 DEF Entry, QueueEntries
<1> HIDE DEF new
<1>7. \A e \in pending : e.job \in JobIds /\ e.job # j
  BY <1>4 DEF QueueEntries, IndexInv, IndexExact
<1>8. IndexExact'
  <2>1. \A e \in pending' : jobs'[e.job].status \in Pending /\ jobs'[e.job].runAt = e.runAt
    BY <1>3, <1>5, <1>6, <1>7 DEF IndexInv, IndexExact
  <2>2. \A e, f \in pending' : e.job = f.job => e = f
    BY <1>5, <1>6, <1>7 DEF IndexInv, IndexExact
  <2>3. \A k \in JobIds : jobs'[k].status \in Pending => \E e \in pending' : e.job = k
    BY <1>3, <1>5, <1>6 DEF IndexInv, IndexExact
  <2> QED
    BY <2>1, <2>2, <2>3 DEF IndexExact
<1>9. StoreTypeOK'
  BY <1>1, <1>2, <1>4, <1>5, <1>6 DEF StoreTypeOK, Record, QueueEntries
<1> QED
  BY <1>8, <1>9

\* The entry is taken out and its job stops being pending.
LEMMA IndexRemoved ==
    ASSUME IndexInv, NEW e \in pending, NEW r \in Record, NEW n \in Nat,
           Write(e.job, r, n), pending' = pending \ {e}, now' = now,
           r.status \notin Pending
    PROVE  StoreTypeOK' /\ IndexExact'
<1>1. StoreTypeOK
  BY DEF IndexInv, TypeOK
<1>2. pending \subseteq QueueEntries
  BY <1>1 DEF StoreTypeOK, QueueEntries
<1>3. \A f \in pending : f.job \in JobIds
  BY <1>2 DEF QueueEntries
<1>4. /\ jobs' = [jobs EXCEPT ![e.job] = r]
      /\ jobs' \in [JobIds -> Record \cup {NoJob}]
      /\ lastId' \in Nat
  BY <1>1, <1>3, WriteType
<1>5. jobs'[e.job] = r /\ \A k \in JobIds : k # e.job => jobs'[k] = jobs[k]
  BY <1>1, <1>3, <1>4 DEF StoreTypeOK
<1>6. \A f \in pending' : f \in pending /\ f.job # e.job
  BY DEF IndexInv, IndexExact
<1>7. IndexExact'
  <2>1. \A f \in pending' : jobs'[f.job].status \in Pending /\ jobs'[f.job].runAt = f.runAt
    BY <1>3, <1>5, <1>6 DEF IndexInv, IndexExact
  <2>2. \A f, g \in pending' : f.job = g.job => f = g
    BY <1>6 DEF IndexInv, IndexExact
  <2>3. \A k \in JobIds : jobs'[k].status \in Pending => \E f \in pending' : f.job = k
    BY <1>5 DEF IndexInv, IndexExact
  <2> QED
    BY <2>1, <2>2, <2>3 DEF IndexExact
<1>8. StoreTypeOK'
  BY <1>1, <1>2, <1>4 DEF StoreTypeOK, Record, QueueEntries
<1> QED
  BY <1>7, <1>8

-----------------------------------------------------------------------------
(* The operations of the store preserve both. *)

Preserved == StoreTypeOK' /\ IndexExact'

\* A call that is refused, or a step outside the store.
LEMMA StoreUntouched ==
    ASSUME IndexInv, UNCHANGED storeVars, now' \in Nat
    PROVE  Preserved
BY DEF IndexInv, TypeOK, StoreTypeOK, storeVars, IndexExact, Preserved

LEMMA AddKeeps ==
    ASSUME IndexInv, NEW j \in JobIds, NEW delay \in Delays, now' = now,
           Add(j, IF delay > 0
                  THEN ScheduledJob(lastId + 1, MaxAttempts, now + delay, now)
                  ELSE EnqueuedJob(lastId + 1, MaxAttempts, now))
    PROVE  Preserved
<1> DEFINE c == IF delay > 0 THEN ScheduledChange(lastId + 1, now, now + delay)
                             ELSE QueuedChange(lastId + 1, now)
           runAt == IF delay > 0 THEN now + delay ELSE now
           r == NewJob(c, runAt, MaxAttempts)
<1>1. StoreTypeOK /\ now \in Nat /\ lastId \in Nat /\ delay \in Nat
  BY MemoryAssumption DEF IndexInv, TypeOK, StoreTypeOK
<1>2. ~Exists(j) /\ Write(j, r, 1) /\ AddPending(r, j)
  BY DEF Add, ScheduledJob, EnqueuedJob
<1>3. /\ c \in Change /\ c.status \in Pending /\ runAt \in Nat /\ runAt # NoTime
      /\ c.status = "Scheduled" => c.scheduledAt = runAt
      /\ c.status = "Queued" => c.changedAt = runAt
  BY <1>1 DEF ScheduledChange, QueuedChange, StateChange, Change, StateChanges,
              JobStatus, Pending, NoTime, NoWorker
<1> HIDE DEF c, runAt
<1>4. EntryFor(r, j) = Entry(runAt, now, j)
  BY <1>3, NewJobEntry
<1>5. r \in Record /\ r.status = c.status
  BY <1>3, NewJobFacts, MemoryAssumption
<1>6. r.runAt = runAt
  BY DEF NewJob
<1>7. jobs[j].status \notin Pending
  BY <1>1, <1>2, RowFacts
<1> HIDE DEF r
<1> QED
  BY <1>2, <1>3, <1>4, <1>5, <1>6, <1>7, IndexAdded DEF Preserved

LEMMA ClaimKeeps ==
    ASSUME IndexInv, NEW j \in JobIds, NEW w \in Workers, NEW at \in Nat,
           NEW lease \in Nat, TryClaimNextDueJob(j, w, at, lease), now' = now
    PROVE  Preserved /\ lastId' \in Nat
<1>1. StoreTypeOK /\ lastId \in Nat
  BY DEF IndexInv, TypeOK, StoreTypeOK
<1>2. CASE ReclaimExpired(j, w, at, lease)
  <2> DEFINE r == Claimed(jobs[j], w, lastId + 1, at, lease)
  <2>1. jobs[j].status = "Running" /\ Write(j, r, 1) /\ UNCHANGED pending
    BY <1>2 DEF ReclaimExpired, IsNextExpired, IsFirstExpired, Expired
  <2>2. jobs[j] \in Record
    BY <1>1, <2>1, RowFacts
  <2>3. Acquired(r, jobs[j], w, lastId + 1, lease)
    BY <1>1, <2>2, ClaimedFacts
  <2> HIDE DEF r
  <2>4. r \in Record /\ r.status \notin Pending /\ jobs[j].status \notin Pending
    BY <2>1, <2>3 DEF Acquired, Pending
  <2>5. Preserved
    BY <2>1, <2>4, IndexKept DEF Preserved
  <2> QED
    BY <2>5 DEF Preserved, StoreTypeOK
<1>3. ASSUME NEW e \in pending, ClaimPending(e, w, at, lease)
      PROVE  Preserved /\ lastId' \in Nat
  <2> DEFINE job == jobs[e.job]
             once == Claimed(job, w, lastId + 1, at, lease)
             twice == Claimed(Requeued(job, lastId + 1, at), w, lastId + 2, at, lease)
  <2>1. e.job \in JobIds /\ pending' = pending \ {e}
    BY <1>1, <1>3 DEF StoreTypeOK, ClaimPending
  <2>2. /\ job.status \in {"Scheduled", "Queued"}
        /\ Write(e.job, once, 1) \/ Write(e.job, twice, 2)
    BY <1>3 DEF ClaimPending
  <2>3. job \in Record
    BY <1>1, <2>1, <2>2, RowFacts
  <2> HIDE DEF job
  <2>4. Acquired(once, job, w, lastId + 1, lease)
    BY <1>1, <2>3, ClaimedFacts
  <2>5. Acquired(twice, job, w, lastId + 2, lease)
    BY <1>1, <2>3, RequeuedClaimedFacts
  <2>6. /\ once \in Record /\ once.status \notin Pending
        /\ twice \in Record /\ twice.status \notin Pending
    BY <2>4, <2>5 DEF Acquired, Pending
  <2> HIDE DEF once, twice
  <2>7. Preserved
    BY <1>3, <2>1, <2>2, <2>6, IndexRemoved DEF Preserved
  <2> QED
    BY <2>7 DEF Preserved, StoreTypeOK
<1> QED
  BY <1>2, <1>3 DEF TryClaimNextDueJob

\* A running job is completed or failed, or the call is refused.
LEMMA SettleKeeps ==
    ASSUME IndexInv, NEW j \in JobIds, NEW id, NEW blank, now' = now,
           MarkCompleted(j, id) \/ MarkFailed(j, id, blank)
    PROVE  Preserved
<1> DEFINE done == Completed(jobs[j], lastId + 1, now)
           fail == Failed(jobs[j], lastId + 1, now)
<1>1. StoreTypeOK /\ lastId \in Nat /\ now \in Nat
  BY DEF IndexInv, TypeOK, StoreTypeOK
<1>2. CASE UNCHANGED storeVars
  BY <1>1, <1>2, StoreUntouched
<1>3. CASE ~ UNCHANGED storeVars
  <2>1. /\ jobs[j].status = "Running"
        /\ Write(j, done, 1) \/ Write(j, fail, 1)
        /\ UNCHANGED pending
    BY <1>3 DEF MarkCompleted, MarkFailed, IsCurrentClaim, Refused
  <2>2. jobs[j] \in Record
    BY <1>1, <2>1, RowFacts
  <2>3. /\ Released(done, jobs[j], lastId + 1, lastId + 1)
        /\ Released(fail, jobs[j], lastId + 1, lastId + 1)
    BY <1>1, <2>2, CompletedFacts, FailedFacts
  <2>4. done.status = "Completed" /\ fail.status = "Failed"
    BY <2>2 DEF Completed, Failed, Unclaimed, SettledChange, StateChange,
                Record, JobRecords
  <2>5. done \in Record /\ fail \in Record
    BY <2>3 DEF Released
  <2> HIDE DEF done, fail
  <2> QED
    BY <2>1, <2>4, <2>5, IndexKept DEF Preserved, Pending
<1> QED
  BY <1>2, <1>3

LEMMA RetryKeeps ==
    ASSUME IndexInv, NEW j \in JobIds, NEW id, NEW blank, NEW runAt \in Nat, now' = now,
           ScheduleRetry(j, id, blank, runAt)
    PROVE  Preserved
<1> DEFINE r == RetryScheduled(jobs[j], lastId + 1, now, runAt)
<1>1. StoreTypeOK /\ lastId \in Nat /\ now \in Nat
  BY DEF IndexInv, TypeOK, StoreTypeOK
<1>2. CASE UNCHANGED storeVars
  BY <1>1, <1>2, StoreUntouched
<1>3. CASE ~ UNCHANGED storeVars
  <2>1. jobs[j].status = "Running" /\ Write(j, r, 2) /\ AddPending(r, j)
    BY <1>3 DEF ScheduleRetry, IsCurrentClaim, Refused
  <2>2. jobs[j] \in Record
    BY <1>1, <2>1, RowFacts
  <2>3. Released(r, jobs[j], lastId + 1, lastId + 1 + 1)
    BY <1>1, <2>2, RetryScheduledFacts
  <2>4. /\ r.status = "Scheduled" /\ r.runAt = runAt
        /\ EntryFor(r, j) = Entry(runAt, now, j)
    BY <1>1, <2>2, RetryEntry
  <2>5. r \in Record
    BY <2>3 DEF Released
  <2> HIDE DEF r
  <2>6. jobs[j].status \notin Pending /\ r.status \in Pending
    BY <2>1, <2>4 DEF Pending
  <2> QED
    BY <2>1, <2>4, <2>5, <2>6, IndexAdded DEF Preserved
<1> QED
  BY <1>2, <1>3

\* Changes of a record that leave its status and its time alone.
LEMMA TouchKeeps ==
    ASSUME IndexInv, NEW j \in JobIds, now' = now,
           \/ Acknowledge(j)
           \/ \E id, at : \E lease \in Nat : RenewLease(j, id, at, lease)
    PROVE  Preserved
<1>1. StoreTypeOK /\ now \in Nat
  BY DEF IndexInv, TypeOK, StoreTypeOK
<1>2. CASE UNCHANGED storeVars
  BY <1>1, <1>2, StoreUntouched
<1>3. ASSUME NEW r, jobs[j] \in Record, Write(j, r, 0), UNCHANGED pending,
             r \in Record, r.status = jobs[j].status, r.runAt = jobs[j].runAt
      PROVE  Preserved
  BY <1>3, IndexKept DEF Preserved
<1>4. CASE Acknowledge(j) /\ ~ UNCHANGED storeVars
  <2> DEFINE r == [jobs[j] EXCEPT !.acknowledged = TRUE]
  <2>1. Exists(j) /\ Write(j, r, 0) /\ UNCHANGED pending
    BY <1>4 DEF Acknowledge, Refused
  <2>2. jobs[j] \in Record
    BY <1>1, <2>1, RowFacts
  <2>3. r \in Record /\ r.status = jobs[j].status /\ r.runAt = jobs[j].runAt
    BY <2>2 DEF Record, JobRecords
  <2> HIDE DEF r
  <2> QED
    BY <1>3, <2>1, <2>2, <2>3
<1>5. ASSUME NEW id, NEW at, NEW lease \in Nat,
             RenewLease(j, id, at, lease), ~ UNCHANGED storeVars
      PROVE  Preserved
  <2> DEFINE r == LeaseRenewed(jobs[j], lease)
  <2>1. jobs[j].status = "Running" /\ Write(j, r, 0) /\ UNCHANGED pending
    BY <1>5 DEF RenewLease, IsCurrentClaim, Refused
  <2>2. jobs[j] \in Record
    BY <1>1, <2>1, RowFacts
  <2>3. r \in Record /\ r.status = jobs[j].status /\ r.runAt = jobs[j].runAt
    BY <2>2 DEF LeaseRenewed, Record, JobRecords
  <2> HIDE DEF r
  <2> QED
    BY <1>3, <2>1, <2>2, <2>3
<1> QED
  BY <1>2, <1>4, <1>5

-----------------------------------------------------------------------------
LEMMA InitIndexInv == Init => IndexInv
<1> SUFFICES ASSUME Init PROVE IndexInv
  OBVIOUS
<1>1. /\ jobs = [j \in JobIds |-> NoJob] /\ pending = {} /\ lastId = 0 /\ now = 0
      /\ held = [w \in Workers |-> NoClaim]
  BY DEF Init, StoreInit
<1>3. NoJob.status \notin Pending
  BY DEF NoJob, Pending
<1>4. TypeOK
  BY <1>1 DEF TypeOK, StoreTypeOK
<1>5. IndexExact
  BY <1>1, <1>3 DEF IndexExact
<1> QED
  BY <1>4, <1>5 DEF IndexInv

\* A worker that has a claim has it on a job.
LEMMA HeldFacts ==
    ASSUME IndexInv, NEW w \in Workers, held[w] # NoClaim
    PROVE  held[w].job \in JobIds
BY DEF IndexInv, TypeOK

\* Each action preserves the index; beside the store it sets the claim that a worker
\* holds to one of an existing job or to none.
LEMMA NextIndexInv == IndexInv /\ [Next]_vars => IndexInv'
<1> SUFFICES ASSUME IndexInv, [Next]_vars
             PROVE  IndexInv'
  OBVIOUS
<1> DEFINE heldType == held \in [Workers -> [job : JobIds, id : Nat] \cup {NoClaim}]
<1>1. /\ StoreTypeOK /\ IndexExact /\ heldType
      /\ now \in Nat /\ lastId \in Nat
  BY DEF IndexInv, TypeOK, StoreTypeOK
<1>2. SUFFICES Preserved /\ heldType'
  BY DEF Preserved, IndexInv, TypeOK
<1>3. \A at \in ClockReadings : /\ at \in Nat
                                /\ at + LeaseDuration \in Nat
                                /\ at + RetryDelay \in Nat
  BY <1>1, MemoryAssumption DEF ClockReadings
<1>4. ASSUME NEW w \in Workers, Drop(w)
      PROVE  heldType'
  BY <1>1, <1>4 DEF Drop
<1>5. ASSUME NEW j \in JobIds, EnqueueJob(j)
      PROVE  Preserved /\ heldType'
  BY <1>1, <1>5, AddKeeps DEF EnqueueJob
<1>6. ASSUME NEW j \in JobIds, AcknowledgeJob(j)
      PROVE  Preserved /\ heldType'
  BY <1>1, <1>6, TouchKeeps DEF AcknowledgeJob
<1>7. ASSUME NEW w \in Workers, ClaimNext(w)
      PROVE  Preserved /\ heldType'
  <2>1. PICK at \in ClockReadings, j \in JobIds :
            /\ TryClaimNextDueJob(j, w, at, at + LeaseDuration)
            /\ held' = [held EXCEPT ![w] = [job |-> j, id |-> lastId']]
    BY <1>7 DEF ClaimNext
  <2>2. Preserved /\ lastId' \in Nat
    BY <1>3, <1>7, <2>1, ClaimKeeps DEF ClaimNext
  <2> QED
    BY <1>1, <2>1, <2>2
<1>8. ASSUME NEW w \in Workers, RenewJob(w)
      PROVE  Preserved /\ heldType'
  <2>1. PICK at \in ClockReadings :
            RenewLease(held[w].job, held[w].id, at, at + LeaseDuration)
    BY <1>8 DEF RenewJob
  <2>2. held[w].job \in JobIds /\ UNCHANGED <<now, held>>
    BY <1>8, HeldFacts DEF RenewJob
  <2> QED
    BY <1>1, <1>3, <2>1, <2>2, TouchKeeps
<1>9. ASSUME NEW w \in Workers, CompleteJob(w) \/ FailJob(w)
      PROVE  Preserved /\ heldType'
  <2>1. held[w].job \in JobIds /\ Drop(w) /\ now' = now
    BY <1>9, HeldFacts DEF CompleteJob, FailJob
  <2>2. \E blank \in BOOLEAN :
            \/ MarkCompleted(held[w].job, held[w].id)
            \/ MarkFailed(held[w].job, held[w].id, blank)
    BY <1>9 DEF CompleteJob, FailJob
  <2> QED
    BY <1>4, <2>1, <2>2, SettleKeeps
<1>10. ASSUME NEW w \in Workers, RetryJob(w)
       PROVE  Preserved /\ heldType'
  <2>1. held[w].job \in JobIds /\ Drop(w) /\ now' = now
    BY <1>10, HeldFacts DEF RetryJob
  <2>2. \E blank \in BOOLEAN, at \in ClockReadings :
            ScheduleRetry(held[w].job, held[w].id, blank, at + RetryDelay)
    BY <1>10 DEF RetryJob
  <2> QED
    BY <1>3, <1>4, <2>1, <2>2, RetryKeeps
<1>11. ASSUME NEW w \in Workers, ForgetJob(w)
       PROVE  Preserved /\ heldType'
  BY <1>1, <1>4, <1>11, StoreUntouched DEF ForgetJob
<1>12. CASE Tick
  BY <1>1, <1>12, StoreUntouched DEF Tick
<1>13. CASE UNCHANGED vars
  BY <1>1, <1>13, StoreUntouched DEF vars, storeVars
<1> QED
  BY <1>5, <1>6, <1>7, <1>8, <1>9, <1>10, <1>11, <1>12, <1>13 DEF Next

\* Whatever the callers do and however late, the index of the in-memory store holds
\* exactly the pending jobs, each under the time it is to run at
\* (Jobs/Storage/InMemoryJobStore.cs, _pendingJobs against _jobsById).
THEOREM IndexAlwaysExact == Spec => []IndexExact
<1>1. IndexInv => IndexExact
  BY DEF IndexInv
<1> QED
  BY <1>1, InitIndexInv, NextIndexInv, PTL DEF Spec

\* The types of the in-memory store and of what its callers hold.
THEOREM MemoryTypeCorrect == Spec => []TypeOK
<1>1. IndexInv => TypeOK
  BY DEF IndexInv
<1> QED
  BY <1>1, InitIndexInv, NextIndexInv, PTL DEF Spec

-----------------------------------------------------------------------------
(* A claim finds what is due. *)

\* Before has a first entry in every set of entries, finite or not: the entries are
\* compared by their times and then by the numbers of their jobs.
LEMMA FirstEntry ==
    ASSUME NEW P, P \subseteq QueueEntries, P # {}
    PROVE  \E e \in P : \A f \in P : f = e \/ Before(e, f)
<1> USE JobIdsAssumption DEF QueueEntries
<1>1. PICK t \in {e.runAt : e \in P} : \A u \in {e.runAt : e \in P} : t <= u
  <2>1. {e.runAt : e \in P} \subseteq Nat /\ {e.runAt : e \in P} # {}
    OBVIOUS
  <2> QED
    BY <2>1, LeastNumber
<1> DEFINE Q == {e \in P : e.runAt = t}
<1>2. PICK a \in {e.addedAt : e \in Q} : \A b \in {e.addedAt : e \in Q} : a <= b
  <2>1. {e.addedAt : e \in Q} \subseteq Nat /\ {e.addedAt : e \in Q} # {}
    BY <1>1
  <2> QED
    BY <2>1, LeastNumber
<1> DEFINE T == {e \in Q : e.addedAt = a}
<1>3. PICK j \in {e.job : e \in T} : \A k \in {e.job : e \in T} : j <= k
  <2>1. {e.job : e \in T} \subseteq Nat /\ {e.job : e \in T} # {}
    BY <1>2
  <2> QED
    BY <2>1, LeastNumber
<1>4. PICK e \in T : e.job = j
  BY <1>3
<1>5. /\ e \in P /\ e.runAt = t /\ e.addedAt = a /\ e.runAt \in Nat /\ e.addedAt \in Nat
      /\ e.job \in Nat
  BY <1>4
<1>6. ASSUME NEW f \in P PROVE f = e \/ Before(e, f)
  <2>1. t <= f.runAt /\ f.runAt \in Nat /\ f.addedAt \in Nat /\ f.job \in Nat
    BY <1>1
  <2>2. CASE f.runAt # t
    BY <1>5, <2>1, <2>2 DEF Before
  <2>3. CASE f.runAt = t /\ f.addedAt # a
    <3>1. a <= f.addedAt
      BY <1>2, <2>3
    <3> QED
      BY <1>5, <2>1, <2>3, <3>1 DEF Before
  <2>4. CASE f.runAt = t /\ f.addedAt = a
    <3>1. j <= f.job
      BY <1>3, <2>4
    <3>2. CASE f.job = j
      BY <1>4, <1>5, <2>4, <3>2
    <3>3. CASE f.job # j
      BY <1>4, <1>5, <2>1, <2>4, <3>1, <3>3 DEF Before
    <3> QED
      BY <3>2, <3>3
  <2> QED
    BY <2>2, <2>3, <2>4
<1> QED
  BY <1>5, <1>6

LEMMA FirstExpired ==
    ASSUME StoreTypeOK, NEW at \in Nat, Expired(at) # {}
    PROVE  \E j \in JobIds : IsFirstExpired(j, at)
<1>1. /\ Expired(at) \subseteq JobIds /\ JobIds \subseteq Nat
      /\ \A j \in Expired(at) : jobs[j].leaseExpiresAt \in Nat
  <2>1. ASSUME NEW j \in Expired(at) PROVE jobs[j].leaseExpiresAt \in Nat
    <3>1. jobs[j] \in Record /\ jobs[j].leaseExpiresAt # NoTime
      BY <2>1, RowFacts DEF Expired
    <3> QED
      BY <3>1 DEF Record, JobRecords
  <2> QED
    BY <2>1, JobIdsAssumption DEF Expired
<1> DEFINE L == {jobs[j].leaseExpiresAt : j \in Expired(at)}
<1>2. PICK t \in L : \A u \in L : t <= u
  <2>1. L \subseteq Nat /\ L # {}
    BY <1>1
  <2> HIDE DEF L
  <2> QED
    BY <2>1, LeastNumber
<1> DEFINE T == {j \in Expired(at) : jobs[j].leaseExpiresAt = t}
<1>3. PICK j \in T : \A k \in T : j <= k
  <2>1. T \subseteq Nat /\ T # {}
    BY <1>1, <1>2
  <2> HIDE DEF T
  <2> QED
    BY <2>1, LeastNumber
<1>4. j \in Expired(at) /\ jobs[j].leaseExpiresAt = t
  BY <1>3
<1>5. ASSUME NEW k \in Expired(at)
      PROVE  \/ jobs[j].leaseExpiresAt < jobs[k].leaseExpiresAt
             \/ jobs[j].leaseExpiresAt = jobs[k].leaseExpiresAt /\ j <= k
  <2>1. t <= jobs[k].leaseExpiresAt /\ jobs[k].leaseExpiresAt \in Nat /\ t \in Nat
    BY <1>1, <1>2, <1>4
  <2>2. jobs[k].leaseExpiresAt = t => j <= k
    BY <1>3
  <2> QED
    BY <1>4, <2>1, <2>2
<1>6. IsFirstExpired(j, at)
  BY <1>4, <1>5 DEF IsFirstExpired
<1> QED
  BY <1>1, <1>4, <1>6

\* The index has one first entry.
LEMMA OneDueEntry ==
    ASSUME StoreTypeOK, NEW at, NEW e, NEW f, IsDuePending(e, at), IsDuePending(f, at)
    PROVE  e = f
<1>1. e \in QueueEntries /\ f \in QueueEntries
  BY DEF StoreTypeOK, QueueEntries, IsDuePending
<1>2. e.runAt \in Nat /\ e.addedAt \in Nat /\ e.job \in Nat
      /\ f.runAt \in Nat /\ f.addedAt \in Nat /\ f.job \in Nat
  BY <1>1, JobIdsAssumption DEF QueueEntries
<1>3. f = e \/ Before(e, f)
  BY DEF IsDuePending
<1>4. e = f \/ Before(f, e)
  BY DEF IsDuePending
<1> QED
  BY <1>2, <1>3, <1>4 DEF Before

\* A pending job that is due has an entry, so the first entry of the index is due.
LEMMA DueEntry ==
    ASSUME IndexInv, NEW at \in Nat, NEW j \in JobIds, jobs[j].status \in Pending,
           jobs[j].runAt <= at
    PROVE  \E e \in pending : IsDuePending(e, at)
<1>1. PICK f \in pending : f.job = j /\ f.runAt = jobs[j].runAt
  BY DEF IndexInv, IndexExact
<1>2. pending \subseteq QueueEntries
  BY DEF IndexInv, TypeOK, StoreTypeOK, QueueEntries
<1>3. PICK e \in pending : \A g \in pending : g = e \/ Before(e, g)
  BY <1>1, <1>2, FirstEntry
<1>4. e.runAt \in Nat /\ f.runAt \in Nat /\ f.runAt <= at
  BY <1>1, <1>2 DEF QueueEntries
<1>5. e.runAt <= at
  BY <1>3, <1>4 DEF Before
<1> QED
  BY <1>3, <1>5 DEF IsDuePending

LEMMA DueFound == IndexInv => DueIsFound
<1> SUFFICES ASSUME IndexInv, NEW at \in 0 .. now
             PROVE  (\E j \in JobIds : Sqlite!IsDue(jobs[j], at))
                      <=> \/ \E j \in JobIds : IsNextExpired(j, at)
                          \/ \E e \in pending :
                               IsNextPending(e, at) /\ jobs[e.job].status \in Pending
  BY DEF DueIsFound
<1>1. StoreTypeOK /\ now \in Nat /\ at \in Nat /\ pending \subseteq QueueEntries
  BY DEF IndexInv, TypeOK, StoreTypeOK, QueueEntries
<1>2. \A j : Sqlite!IsDue(jobs[j], at)
               <=> \/ /\ jobs[j].status \in Pending
                      /\ jobs[j].runAt # NoTime /\ jobs[j].runAt <= at
                   \/ /\ jobs[j].status = "Running"
                      /\ jobs[j].leaseExpiresAt # NoTime /\ jobs[j].leaseExpiresAt <= at
  BY DEF Sqlite!IsDue, Pending, Sqlite!Pending, NoTime, Sqlite!NoTime
<1>3. ASSUME NEW e \in pending
      PROVE  /\ e.job \in JobIds /\ e.runAt \in Nat
             /\ jobs[e.job].status \in Pending /\ jobs[e.job].runAt = e.runAt
  BY <1>1 DEF IndexInv, IndexExact, QueueEntries
<1>4. ASSUME NEW e \in pending, IsDuePending(e, at)
      PROVE  \/ \E j \in JobIds : IsNextExpired(j, at)
             \/ IsNextPending(e, at)
  <2>1. CASE \E j \in JobIds : IsFirstExpired(j, at) /\ Before(ExpiredEntry(j), e)
    BY <1>1, <1>4, <2>1, OneDueEntry DEF IsNextExpired
  <2>2. CASE ~ \E j \in JobIds : IsFirstExpired(j, at) /\ Before(ExpiredEntry(j), e)
    BY <1>4, <2>2 DEF IsNextPending
  <2> QED
    BY <2>1, <2>2
<1>5. ASSUME NEW j \in JobIds, jobs[j].status \in Pending, jobs[j].runAt <= at
      PROVE  \/ \E k \in JobIds : IsNextExpired(k, at)
             \/ \E e \in pending : IsNextPending(e, at) /\ jobs[e.job].status \in Pending
  <2>1. PICK e \in pending : IsDuePending(e, at)
    BY <1>1, <1>5, DueEntry
  <2> QED
    BY <1>3, <1>4, <2>1
<1>6. ASSUME Expired(at) # {}
      PROVE  \/ \E k \in JobIds : IsNextExpired(k, at)
             \/ \E e \in pending : IsNextPending(e, at) /\ jobs[e.job].status \in Pending
  <2>1. PICK k \in JobIds : IsFirstExpired(k, at)
    BY <1>1, <1>6, FirstExpired
  <2>2. CASE \E e \in pending : IsDuePending(e, at)
    BY <1>3, <1>4, <2>2
  <2>3. CASE ~ \E e \in pending : IsDuePending(e, at)
    BY <2>1, <2>3 DEF IsNextExpired
  <2> QED
    BY <2>2, <2>3
<1>7. ASSUME NEW j \in JobIds, IsNextExpired(j, at) PROVE Sqlite!IsDue(jobs[j], at)
  BY <1>2, <1>7 DEF IsNextExpired, IsFirstExpired, Expired
<1>8. ASSUME NEW e \in pending, IsNextPending(e, at)
      PROVE  \E j \in JobIds : Sqlite!IsDue(jobs[j], at)
  <2>1. e.runAt <= at /\ e.runAt # NoTime
    BY <1>3, <1>8 DEF IsNextPending, IsDuePending, NoTime
  <2> QED
    BY <1>2, <1>3, <2>1
<1>9. ASSUME NEW j \in JobIds, Sqlite!IsDue(jobs[j], at)
      PROVE  \/ \E k \in JobIds : IsNextExpired(k, at)
             \/ \E e \in pending : IsNextPending(e, at) /\ jobs[e.job].status \in Pending
  <2>1. CASE jobs[j].status \in Pending /\ jobs[j].runAt <= at
    BY <1>5, <2>1
  <2>2. CASE /\ jobs[j].status = "Running"
             /\ jobs[j].leaseExpiresAt # NoTime /\ jobs[j].leaseExpiresAt <= at
    BY <1>6, <2>2 DEF Expired
  <2> QED
    BY <1>2, <1>9, <2>1, <2>2
<1> QED
  BY <1>7, <1>8, <1>9

\* A claim over the index and the scan of the running jobs finds a job exactly when the
\* query of the SQLite store would (InMemoryJobStore.cs, NextDuePendingOrExpiredRunningJob),
\* and the entry it takes leads to a job it can claim.
THEOREM DueJobsAreFound == Spec => []DueIsFound
<1> QED
  BY InitIndexInv, NextIndexInv, DueFound, PTL DEF Spec

-----------------------------------------------------------------------------
(* Both stores write the same records. *)

\* The transitions are one module's, whichever store calls them.
LEMMA SameTransitions ==
    /\ \A job, id, at : /\ Sqlite!Completed(job, id, at) = Completed(job, id, at)
                        /\ Sqlite!Failed(job, id, at) = Failed(job, id, at)
    /\ \A job, id, at, runAt :
         Sqlite!RetryScheduled(job, id, at, runAt) = RetryScheduled(job, id, at, runAt)
    /\ \A id, attempts, runAt, at :
         /\ Sqlite!ScheduledJob(id, attempts, runAt, at) = ScheduledJob(id, attempts, runAt, at)
         /\ Sqlite!EnqueuedJob(id, attempts, at) = EnqueuedJob(id, attempts, at)
    /\ \A job : Sqlite!AttemptCount(job) = AttemptCount(job)
<1> USE DEF StateChange, Sqlite!StateChange, NoTime, Sqlite!NoTime, NoWorker, Sqlite!NoWorker,
            SettledChange, Sqlite!SettledChange, ScheduledChange, Sqlite!ScheduledChange,
            QueuedChange, Sqlite!QueuedChange, Unclaimed, Sqlite!Unclaimed
<1>1. \A job, id, at : Sqlite!Completed(job, id, at) = Completed(job, id, at)
  BY DEF Completed, Sqlite!Completed
<1>2. \A job, id, at : Sqlite!Failed(job, id, at) = Failed(job, id, at)
  BY DEF Failed, Sqlite!Failed
<1>3. \A job, id, at, runAt :
        Sqlite!RetryScheduled(job, id, at, runAt) = RetryScheduled(job, id, at, runAt)
  BY DEF RetryScheduled, Sqlite!RetryScheduled
<1>4. \A id, attempts, runAt, at :
        /\ Sqlite!ScheduledJob(id, attempts, runAt, at) = ScheduledJob(id, attempts, runAt, at)
        /\ Sqlite!EnqueuedJob(id, attempts, at) = EnqueuedJob(id, attempts, at)
  BY DEF ScheduledJob, Sqlite!ScheduledJob, EnqueuedJob, Sqlite!EnqueuedJob, NewJob,
         Sqlite!NewJob
<1>5. \A job : Sqlite!AttemptCount(job) = AttemptCount(job)
  BY DEF AttemptCount, Sqlite!AttemptCount, AttemptsIn, Sqlite!AttemptsIn,
         Cardinality, Sqlite!Cardinality
<1> QED
  BY <1>1, <1>2, <1>3, <1>4, <1>5

\* What the query of the SQLite store says of the records.
LEMMA DueInSqlite ==
    ASSUME NEW at, NEW j
    PROVE  /\ Sqlite!IsDue(jobs[j], at)
                <=> \/ /\ jobs[j].status \in Pending
                       /\ jobs[j].runAt # NoTime /\ jobs[j].runAt <= at
                    \/ /\ jobs[j].status = "Running"
                       /\ jobs[j].leaseExpiresAt # NoTime /\ jobs[j].leaseExpiresAt <= at
           /\ jobs[j].status = "Running" => Sqlite!DueTime(jobs[j]) = jobs[j].leaseExpiresAt
           /\ jobs[j].status \in Pending => Sqlite!DueTime(jobs[j]) = jobs[j].runAt
BY DEF Sqlite!IsDue, Sqlite!DueTime, Pending, Sqlite!Pending, NoTime, Sqlite!NoTime

\* The job that is claimed is due, and none is due before it: the head of the index and
\* the first expired job are compared by their times.
LEMMA EarliestClaimed ==
    ASSUME IndexInv, NEW at \in Nat, NEW j \in JobIds,
           \/ IsNextExpired(j, at)
           \/ \E e \in pending : e.job = j /\ IsNextPending(e, at)
    PROVE  /\ j \in Sqlite!Due(at)
           /\ \A k \in Sqlite!Due(at) : Sqlite!DueTime(jobs[j]) <= Sqlite!DueTime(jobs[k])
<1>1. /\ StoreTypeOK /\ pending \subseteq QueueEntries
      /\ \A k : k \in Sqlite!Due(at) <=> k \in JobIds /\ Sqlite!IsDue(jobs[k], at)
  BY DEF IndexInv, TypeOK, StoreTypeOK, QueueEntries, Sqlite!Due
<1>2. ASSUME NEW e \in pending
      PROVE  /\ e.job \in JobIds /\ e.runAt \in Nat /\ e.runAt # NoTime
             /\ jobs[e.job].status \in Pending /\ jobs[e.job].runAt = e.runAt
  BY <1>1 DEF IndexInv, IndexExact, QueueEntries, NoTime
<1>3. ASSUME NEW k \in Expired(at)
      PROVE  /\ jobs[k].leaseExpiresAt \in Nat /\ k \in JobIds
             /\ Sqlite!DueTime(jobs[k]) = jobs[k].leaseExpiresAt
  <2>1. jobs[k] \in Record /\ jobs[k].leaseExpiresAt # NoTime /\ jobs[k].status = "Running"
    BY <1>1, <1>3, RowFacts DEF Expired
  <2> QED
    BY <1>3, <2>1, DueInSqlite DEF Record, JobRecords, Expired
<1>4. ASSUME NEW k \in Sqlite!Due(at)
      PROVE  \/ k \in Expired(at)
             \/ \E e \in pending : /\ e.job = k /\ e.runAt <= at
                                   /\ Sqlite!DueTime(jobs[k]) = e.runAt
  <2>1. CASE jobs[k].status = "Running"
    BY <1>1, <1>4, <2>1, DueInSqlite DEF Expired, Pending
  <2>2. CASE jobs[k].status # "Running"
    <3>1. k \in JobIds /\ jobs[k].status \in Pending /\ jobs[k].runAt <= at
      BY <1>1, <1>4, <2>2, DueInSqlite
    <3>2. PICK e \in pending : e.job = k
      BY <3>1 DEF IndexInv, IndexExact
    <3>3. Sqlite!DueTime(jobs[k]) = e.runAt /\ e.runAt <= at
      BY <1>2, <3>1, <3>2, DueInSqlite
    <3> QED
      BY <3>2, <3>3
  <2> QED
    BY <2>1, <2>2
<1>5. CASE IsNextExpired(j, at)
  <2> DEFINE lease == jobs[j].leaseExpiresAt
  <2>1. j \in Expired(at) /\ Sqlite!IsDue(jobs[j], at) /\ lease \in Nat
        /\ Sqlite!DueTime(jobs[j]) = lease
    BY <1>3, <1>5, DueInSqlite DEF IsNextExpired, IsFirstExpired, Expired
  <2>2. ASSUME NEW k \in Expired(at) PROVE lease <= Sqlite!DueTime(jobs[k])
    <3>1. jobs[k].leaseExpiresAt \in Nat /\ Sqlite!DueTime(jobs[k]) = jobs[k].leaseExpiresAt
      BY <1>3
    <3>2. lease < jobs[k].leaseExpiresAt \/ lease = jobs[k].leaseExpiresAt
      BY <1>5 DEF IsNextExpired, IsFirstExpired
    <3> QED
      BY <2>1, <3>1, <3>2
  <2>3. ASSUME NEW e \in pending, e.runAt <= at PROVE lease <= e.runAt
    <3>1. PICK f \in pending : IsDuePending(f, at)
      BY <1>2, <2>3, DueEntry
    <3>2. Before(ExpiredEntry(j), f) /\ (e = f \/ Before(f, e))
      BY <1>5, <3>1 DEF IsNextExpired, IsDuePending
    <3>3. lease <= f.runAt /\ f.runAt <= e.runAt
      BY <1>2, <2>1, <3>2 DEF Before, ExpiredEntry, Entry
    <3> QED
      BY <1>2, <2>1, <3>3
  <2> QED
    BY <1>1, <1>4, <2>1, <2>2, <2>3
<1>6. ASSUME NEW e \in pending, e.job = j, IsNextPending(e, at)
      PROVE  /\ j \in Sqlite!Due(at)
             /\ \A k \in Sqlite!Due(at) : Sqlite!DueTime(jobs[j]) <= Sqlite!DueTime(jobs[k])
  <2>1. /\ e.runAt \in Nat /\ e.runAt <= at
        /\ Sqlite!DueTime(jobs[j]) = e.runAt /\ j \in Sqlite!Due(at)
    BY <1>1, <1>2, <1>6, DueInSqlite DEF IsNextPending, IsDuePending
  <2>2. ASSUME NEW k \in Expired(at) PROVE e.runAt <= Sqlite!DueTime(jobs[k])
    <3>1. PICK f \in JobIds : IsFirstExpired(f, at)
      BY <1>1, <2>2, FirstExpired
    <3>2. /\ jobs[f].leaseExpiresAt \in Nat /\ jobs[k].leaseExpiresAt \in Nat
          /\ Sqlite!DueTime(jobs[k]) = jobs[k].leaseExpiresAt
      BY <1>3, <2>2, <3>1 DEF IsFirstExpired
    <3>3. jobs[f].leaseExpiresAt <= jobs[k].leaseExpiresAt
      BY <2>2, <3>1, <3>2 DEF IsFirstExpired
    <3>4. e.runAt <= jobs[f].leaseExpiresAt
      BY <1>6, <2>1, <3>1, <3>2 DEF IsNextPending, Before, ExpiredEntry, Entry
    <3> QED
      BY <2>1, <3>2, <3>3, <3>4
  <2>3. ASSUME NEW f \in pending PROVE e.runAt <= f.runAt
    BY <1>2, <1>6 DEF IsNextPending, IsDuePending, Before
  <2> QED
    BY <1>4, <2>1, <2>2, <2>3
<1> QED
  BY <1>5, <1>6

\* What a claim writes, and what it answers.
LEMMA ClaimWrites ==
    ASSUME IndexInv, NEW j \in JobIds, NEW w \in Workers, NEW at \in Nat, NEW lease,
           TryClaimNextDueJob(j, w, at, lease)
    PROVE  /\ jobs[j] \in Record
           /\ \/ IsNextExpired(j, at)
              \/ \E e \in pending : e.job = j /\ IsNextPending(e, at)
           /\ \/ /\ jobs[j].status # "Scheduled"
                 /\ Write(j, Claimed(jobs[j], w, lastId + 1, at, lease), 1)
              \/ /\ jobs[j].status = "Scheduled"
                 /\ Write(j, Claimed(Requeued(jobs[j], lastId + 1, at),
                                     w, lastId + 2, at, lease), 2)
<1>1. StoreTypeOK
  BY DEF IndexInv, TypeOK
<1>2. CASE ReclaimExpired(j, w, at, lease)
  <2>1. jobs[j].status = "Running"
    BY <1>2 DEF ReclaimExpired, IsNextExpired, IsFirstExpired, Expired
  <2> QED
    BY <1>1, <1>2, <2>1, RowFacts DEF ReclaimExpired
<1>3. ASSUME NEW e \in pending, e.job = j, ClaimPending(e, w, at, lease)
      PROVE  /\ IsNextPending(e, at) /\ jobs[j] \in Record
             /\ \/ /\ jobs[j].status # "Scheduled"
                   /\ Write(j, Claimed(jobs[j], w, lastId + 1, at, lease), 1)
                \/ /\ jobs[j].status = "Scheduled"
                   /\ Write(j, Claimed(Requeued(jobs[j], lastId + 1, at),
                                       w, lastId + 2, at, lease), 2)
  <2>1. jobs[j].status \in {"Scheduled", "Queued"}
    BY <1>3 DEF ClaimPending
  <2> QED
    BY <1>1, <1>3, <2>1, RowFacts DEF ClaimPending
<1> QED
  BY <1>2, <1>3 DEF TryClaimNextDueJob

\* The body of AgreesWithSqlite.
SqliteStep ==
    \/ \E j \in JobIds, delay \in Delays : Sqlite!Enqueue(j, delay)
    \/ \E j \in JobIds, w \in Workers, at \in ClockReadings :
         SqliteClaim(j, w, at)
    \/ \E w \in Workers : LET j == held[w].job  id == held[w].id IN
         /\ held[w] # NoClaim
         /\ \/ Sqlite!MarkCompleted(j, id)
            \/ Sqlite!MarkFailed(j, id, FALSE)
            \/ \E at \in ClockReadings :
                 \/ Sqlite!ScheduleRetry(j, id, FALSE, at + RetryDelay)
                 \/ Sqlite!RenewLease(j, id, at, at + LeaseDuration)
    \/ \E j \in JobIds : Sqlite!Acknowledge(j)

LEMMA StepAgrees ==
    ASSUME IndexInv, [Next]_vars
    PROVE  [SqliteStep]_jobs
<1> SUFFICES ASSUME jobs' # jobs PROVE SqliteStep
  OBVIOUS
<1> USE DEF Sqlite!Write, Write, Sqlite!Exists, Exists, Sqlite!NoJob, NoJob
<1>1. ASSUME NEW j \in JobIds, EnqueueJob(j) PROVE SqliteStep
  <2>1. PICK delay \in Delays :
          Add(j, IF delay > 0
                 THEN ScheduledJob(lastId + 1, MaxAttempts, now + delay, now)
                 ELSE EnqueuedJob(lastId + 1, MaxAttempts, now))
    BY <1>1 DEF EnqueueJob
  <2>2. Sqlite!Enqueue(j, delay)
    BY <2>1, SameTransitions DEF Add, Sqlite!Enqueue, Sqlite!Add
  <2> QED
    BY <2>2 DEF SqliteStep
<1>2. ASSUME NEW j \in JobIds, AcknowledgeJob(j) PROVE SqliteStep
  <2>1. Sqlite!Acknowledge(j)
    BY <1>2 DEF AcknowledgeJob, Acknowledge, Sqlite!Acknowledge, Refused, storeVars
  <2> QED
    BY <2>1 DEF SqliteStep
<1>3. ASSUME NEW w \in Workers, ClaimNext(w) PROVE SqliteStep
  <2>1. PICK at \in ClockReadings, j \in JobIds :
          TryClaimNextDueJob(j, w, at, at + LeaseDuration)
    BY <1>3 DEF ClaimNext
  <2>2. at \in Nat
    BY DEF ClockReadings
  <2>3. SqliteClaim(j, w, at)
    BY <2>1, <2>2, ClaimWrites, EarliestClaimed DEF SqliteClaim
  <2> QED
    BY <2>3 DEF SqliteStep
<1>4. ASSUME NEW w \in Workers, RenewJob(w) PROVE SqliteStep
  <2>1. PICK at \in ClockReadings :
          RenewLease(held[w].job, held[w].id, at, at + LeaseDuration)
    BY <1>4 DEF RenewJob
  <2>2. Sqlite!RenewLease(held[w].job, held[w].id, at, at + LeaseDuration)
    BY <2>1 DEF RenewLease, Sqlite!RenewLease, LeaseRenewed, IsCurrentClaim,
                Sqlite!IsCurrentClaim, Refused, storeVars
  <2> QED
    BY <1>4, <2>2 DEF SqliteStep, RenewJob
<1>5. ASSUME NEW w \in Workers, CompleteJob(w) PROVE SqliteStep
  <2>1. Sqlite!MarkCompleted(held[w].job, held[w].id)
    BY <1>5, SameTransitions
       DEF CompleteJob, MarkCompleted, Sqlite!MarkCompleted, IsCurrentClaim,
           Sqlite!IsCurrentClaim, Refused, storeVars
  <2> QED
    BY <1>5, <2>1 DEF SqliteStep, CompleteJob
<1>6. ASSUME NEW w \in Workers, FailJob(w) PROVE SqliteStep
  <2>1. Sqlite!MarkFailed(held[w].job, held[w].id, FALSE)
    BY <1>6, SameTransitions
       DEF FailJob, MarkFailed, Sqlite!MarkFailed, IsCurrentClaim,
           Sqlite!IsCurrentClaim, Refused, storeVars
  <2> QED
    BY <1>6, <2>1 DEF SqliteStep, FailJob
<1>7. ASSUME NEW w \in Workers, RetryJob(w) PROVE SqliteStep
  <2>1. PICK blank \in BOOLEAN, at \in ClockReadings :
          ScheduleRetry(held[w].job, held[w].id, blank, at + RetryDelay)
    BY <1>7 DEF RetryJob
  <2>2. Sqlite!ScheduleRetry(held[w].job, held[w].id, FALSE, at + RetryDelay)
    BY <2>1, SameTransitions
       DEF ScheduleRetry, Sqlite!ScheduleRetry, IsCurrentClaim,
           Sqlite!IsCurrentClaim, Refused, storeVars
  <2> QED
    BY <1>7, <2>2 DEF SqliteStep, RetryJob
<1> QED
  BY <1>1, <1>2, <1>3, <1>4, <1>5, <1>6, <1>7
     DEF Next, ForgetJob, Tick, vars, storeVars

\* Every change of the records is the same call of the SQLite store on the same records,
\* with the same guards, changes and dates; the two stores differ in which of several jobs
\* due at the same time they claim, and in nothing else.
THEOREM StoresAgree == Spec => AgreesWithSqlite
<1>1. IndexInv /\ [Next]_vars => [SqliteStep]_jobs
  BY StepAgrees
<1> QED
  BY <1>1, InitIndexInv, NextIndexInv, PTL DEF Spec, AgreesWithSqlite, SqliteStep

-----------------------------------------------------------------------------
(* The store implements JobOwnership.  What a step does to the rows and to the    *)
(* claims that the workers hold:                                              *)

Rewrites(j, r) == jobs' = [jobs EXCEPT ![j] = r] /\ now' = now

Quiet ==
    /\ UNCHANGED storeVars
    /\ \/ held' = held
       \/ now' = now /\ \E w \in Workers : Drop(w)

Submits(j, r) ==
    /\ Rewrites(j, r) /\ held' = held
    /\ ~Exists(j) /\ r \in Record /\ r.status \in Pending /\ r.claimedBy = NoWorker
    /\ lastId' = lastId + 1 /\ r.currentStateChangeId = lastId'

Grants(w, j, r) ==
    /\ Rewrites(j, r) /\ held[w] = NoClaim
    /\ held' = [held EXCEPT ![w] = [job |-> j, id |-> lastId']]
    /\ jobs[j] \in Record /\ lastId' \in Nat /\ lastId' > lastId
    /\ \E at \in ClockReadings : /\ Acquired(r, jobs[j], w, lastId', at + LeaseDuration)
                                 /\ Sqlite!IsDue(jobs[j], at)

Acknowledges(j, r) ==
    /\ Rewrites(j, r) /\ held' = held /\ lastId' = lastId
    /\ jobs[j] \in Record /\ r \in Record
    /\ r.status = jobs[j].status /\ r.claimedBy = jobs[j].claimedBy
    /\ r.currentStateChangeId = jobs[j].currentStateChangeId
    /\ r.leaseExpiresAt = jobs[j].leaseExpiresAt

Renews(w, r) ==
    /\ Rewrites(held[w].job, r) /\ held' = held /\ lastId' = lastId
    /\ held[w] # NoClaim /\ IsCurrentClaim(held[w].job, held[w].id)
    /\ jobs[held[w].job] \in Record /\ r \in Record
    /\ r.status = "Running" /\ r.claimedBy = jobs[held[w].job].claimedBy
    /\ r.currentStateChangeId = held[w].id
    /\ \E at \in ClockReadings : r.leaseExpiresAt = at + LeaseDuration

Settles(w, r) ==
    /\ Rewrites(held[w].job, r) /\ Drop(w)
    /\ held[w] # NoClaim /\ IsCurrentClaim(held[w].job, held[w].id)
    /\ lastId' \in Nat /\ lastId' > lastId
    /\ Released(r, jobs[held[w].job], lastId + 1, lastId')

LEMMA ReadingFacts ==
    ASSUME IndexInv, NEW at \in ClockReadings
    PROVE  /\ at \in Nat /\ at + LeaseDuration \in Nat /\ at + RetryDelay \in Nat
           /\ at <= now /\ now <= at + Lag /\ now \in Nat
BY MemoryAssumption DEF ClockReadings, IndexInv, TypeOK, StoreTypeOK

LEMMA EnqueueWrites ==
    ASSUME IndexInv, NEW j \in JobIds, EnqueueJob(j)
    PROVE  \E r : Submits(j, r)
<1>1. StoreTypeOK /\ now \in Nat /\ lastId \in Nat
  BY DEF IndexInv, TypeOK, StoreTypeOK
<1>2. PICK delay \in Nat :
        Add(j, IF delay > 0
               THEN ScheduledJob(lastId + 1, MaxAttempts, now + delay, now)
               ELSE EnqueuedJob(lastId + 1, MaxAttempts, now))
  BY MemoryAssumption DEF EnqueueJob
<1> DEFINE c == IF delay > 0 THEN ScheduledChange(lastId + 1, now, now + delay)
                             ELSE QueuedChange(lastId + 1, now)
           runAt == IF delay > 0 THEN now + delay ELSE now
           r == NewJob(c, runAt, MaxAttempts)
<1>3. ~Exists(j) /\ Write(j, r, 1)
  BY <1>2 DEF Add, ScheduledJob, EnqueuedJob
<1>4. /\ c \in Change /\ c.status \in Pending /\ runAt \in Nat /\ c.id = lastId + 1
  BY <1>1 DEF ScheduledChange, QueuedChange, StateChange, Change, StateChanges,
              JobStatus, Pending, NoTime, NoWorker
<1> HIDE DEF c, runAt
<1>5. /\ r \in Record /\ r.status = c.status /\ r.claimedBy = NoWorker
      /\ r.currentStateChangeId = c.id
  BY <1>4, NewJobFacts, MemoryAssumption
<1> HIDE DEF r
<1>6. UNCHANGED <<now, held>>
  BY DEF EnqueueJob
<1>7. Submits(j, r)
  BY <1>3, <1>4, <1>5, <1>6 DEF Submits, Rewrites, Write
<1> QED
  BY <1>7

LEMMA AcknowledgeWrites ==
    ASSUME IndexInv, NEW j \in JobIds, AcknowledgeJob(j)
    PROVE  Quiet \/ \E r : Acknowledges(j, r)
<1> DEFINE r == [jobs[j] EXCEPT !.acknowledged = TRUE]
<1>1. StoreTypeOK /\ lastId \in Nat
  BY DEF IndexInv, TypeOK, StoreTypeOK
<1>2. CASE ~Exists(j)
  BY <1>2 DEF AcknowledgeJob, Acknowledge, Refused, Quiet
<1>3. CASE Exists(j)
  <2>1. jobs[j] \in Record
    BY <1>1, <1>3, RowFacts
  <2>2. /\ r \in Record /\ r.status = jobs[j].status /\ r.claimedBy = jobs[j].claimedBy
        /\ r.currentStateChangeId = jobs[j].currentStateChangeId
        /\ r.leaseExpiresAt = jobs[j].leaseExpiresAt
    BY <2>1 DEF Record, JobRecords
  <2>3. Write(j, r, 0) /\ UNCHANGED <<now, held>>
    BY <1>3 DEF AcknowledgeJob, Acknowledge
  <2> HIDE DEF r
  <2>4. Acknowledges(j, r)
    BY <1>1, <2>1, <2>2, <2>3 DEF Acknowledges, Rewrites, Write
  <2> QED
    BY <2>4
<1> QED
  BY <1>2, <1>3

LEMMA ClaimGrants ==
    ASSUME IndexInv, NEW w \in Workers, ClaimNext(w)
    PROVE  \E j \in JobIds : \E r : Grants(w, j, r)
<1>1. PICK at \in ClockReadings, j \in JobIds :
        /\ TryClaimNextDueJob(j, w, at, at + LeaseDuration)
        /\ held' = [held EXCEPT ![w] = [job |-> j, id |-> lastId']]
  BY DEF ClaimNext
<1>2. held[w] = NoClaim /\ now' = now
  BY DEF ClaimNext
<1>3. at \in Nat /\ at + LeaseDuration \in Nat /\ lastId \in Nat
  BY ReadingFacts DEF IndexInv, TypeOK, StoreTypeOK
<1>4. jobs[j] \in Record /\ Sqlite!IsDue(jobs[j], at)
  BY <1>1, <1>3, ClaimWrites, EarliestClaimed DEF Sqlite!Due
<1> DEFINE once == Claimed(jobs[j], w, lastId + 1, at, at + LeaseDuration)
           twice == Claimed(Requeued(jobs[j], lastId + 1, at), w, lastId + 2, at,
                            at + LeaseDuration)
<1>5. Write(j, once, 1) \/ Write(j, twice, 2)
  BY <1>1, <1>3, ClaimWrites
<1>6. /\ Acquired(once, jobs[j], w, lastId + 1, at + LeaseDuration)
      /\ Acquired(twice, jobs[j], w, lastId + 2, at + LeaseDuration)
  BY <1>3, <1>4, ClaimedFacts, RequeuedClaimedFacts
<1> HIDE DEF once, twice
<1>7. ASSUME NEW r, NEW n \in 1 .. 2, Write(j, r, n),
             Acquired(r, jobs[j], w, lastId + n, at + LeaseDuration)
      PROVE  Grants(w, j, r)
  BY <1>1, <1>2, <1>3, <1>4, <1>7 DEF Grants, Rewrites, Write
<1>8. CASE Write(j, once, 1)
  <2>1. Grants(w, j, once)
    BY <1>6, <1>7, <1>8
  <2> QED
    BY <2>1
<1>9. CASE Write(j, twice, 2)
  <2>1. Grants(w, j, twice)
    BY <1>6, <1>7, <1>9
  <2> QED
    BY <2>1
<1> QED
  BY <1>5, <1>8, <1>9

LEMMA RenewWrites ==
    ASSUME IndexInv, NEW w \in Workers, RenewJob(w)
    PROVE  Quiet \/ \E r : Renews(w, r)
<1> DEFINE j == held[w].job
<1>1. PICK at \in ClockReadings : RenewLease(j, held[w].id, at, at + LeaseDuration)
  BY DEF RenewJob
<1>2. held[w] # NoClaim /\ UNCHANGED <<now, held>>
  BY DEF RenewJob
<1>3. /\ j \in JobIds /\ StoreTypeOK /\ lastId \in Nat /\ at + LeaseDuration \in Nat
  BY <1>2, HeldFacts, ReadingFacts DEF IndexInv, TypeOK, StoreTypeOK
<1>4. CASE UNCHANGED storeVars
  BY <1>2, <1>4 DEF Quiet
<1>5. CASE ~UNCHANGED storeVars
  <2> DEFINE r == LeaseRenewed(jobs[j], at + LeaseDuration)
  <2>1. IsCurrentClaim(j, held[w].id) /\ Write(j, r, 0)
    BY <1>1, <1>5 DEF RenewLease, Refused
  <2>2. jobs[j] \in Record
    BY <1>3, <2>1, RowFacts DEF IsCurrentClaim
  <2>3. /\ r \in Record /\ r.status = jobs[j].status /\ r.claimedBy = jobs[j].claimedBy
        /\ r.currentStateChangeId = jobs[j].currentStateChangeId
        /\ r.leaseExpiresAt = at + LeaseDuration
    BY <1>3, <2>2 DEF LeaseRenewed, Record, JobRecords
  <2> HIDE DEF r
  <2>4. Renews(w, r)
    BY <1>2, <1>3, <2>1, <2>2, <2>3 DEF Renews, Rewrites, Write, IsCurrentClaim
  <2> QED
    BY <2>4
<1> QED
  BY <1>4, <1>5

LEMMA SettleWrites ==
    ASSUME IndexInv, NEW w \in Workers, CompleteJob(w) \/ FailJob(w) \/ RetryJob(w)
    PROVE  Quiet \/ \E r : Settles(w, r)
<1> DEFINE j == held[w].job
<1>1. held[w] # NoClaim /\ Drop(w) /\ now' = now
  BY DEF CompleteJob, FailJob, RetryJob
<1>2. j \in JobIds /\ StoreTypeOK /\ lastId \in Nat /\ now \in Nat
  BY <1>1, HeldFacts DEF IndexInv, TypeOK, StoreTypeOK
<1>3. CASE UNCHANGED storeVars
  BY <1>1, <1>3 DEF Quiet
<1>4. CASE ~UNCHANGED storeVars
  <2>1. PICK runAt \in Nat :
          /\ IsCurrentClaim(j, held[w].id)
          /\ \/ Write(j, Completed(jobs[j], lastId + 1, now), 1)
             \/ Write(j, Failed(jobs[j], lastId + 1, now), 1)
             \/ Write(j, RetryScheduled(jobs[j], lastId + 1, now, runAt), 2)
    <3>1. CASE CompleteJob(w) \/ FailJob(w)
      BY <1>2, <1>4, <3>1 DEF CompleteJob, FailJob, MarkCompleted, MarkFailed, Refused
    <3>2. CASE RetryJob(w)
      BY <1>4, <3>2, ReadingFacts DEF RetryJob, ScheduleRetry, Refused
    <3> QED
      BY <3>1, <3>2
  <2>2. jobs[j] \in Record
    BY <1>2, <2>1, RowFacts DEF IsCurrentClaim
  <2> DEFINE done == Completed(jobs[j], lastId + 1, now)
             fail == Failed(jobs[j], lastId + 1, now)
             retry == RetryScheduled(jobs[j], lastId + 1, now, runAt)
  <2>3. /\ Released(done, jobs[j], lastId + 1, lastId + 1)
        /\ Released(fail, jobs[j], lastId + 1, lastId + 1)
        /\ Released(retry, jobs[j], lastId + 1, lastId + 2)
    <3>1. lastId + 1 \in Nat /\ lastId + 1 + 1 = lastId + 2
      BY <1>2
    <3>2. Released(retry, jobs[j], lastId + 1, lastId + 1 + 1)
      BY <1>2, <2>2, <3>1, RetryScheduledFacts
    <3> QED
      BY <1>2, <2>2, <3>1, <3>2, CompletedFacts, FailedFacts
  <2>4. Write(j, done, 1) \/ Write(j, fail, 1) \/ Write(j, retry, 2)
    BY <2>1
  <2> HIDE DEF done, fail, retry
  <2>5. ASSUME NEW r, NEW n \in 1 .. 2, Write(j, r, n),
               Released(r, jobs[j], lastId + 1, lastId + n)
        PROVE  Settles(w, r)
    BY <1>1, <1>2, <2>1, <2>5 DEF Settles, Rewrites, Write
  <2>6. Settles(w, done) \/ Settles(w, fail) \/ Settles(w, retry)
    BY <2>3, <2>4, <2>5
  <2> QED
    BY <2>6
<1> QED
  BY <1>3, <1>4

LEMMA StepWrites ==
    ASSUME IndexInv, [Next]_vars
    PROVE  \/ Quiet
           \/ \E j \in JobIds : \E r : Submits(j, r) \/ Acknowledges(j, r)
           \/ \E w \in Workers, j \in JobIds : \E r : Grants(w, j, r)
           \/ \E w \in Workers : \E r : Renews(w, r) \/ Settles(w, r)
<1>1. CASE Tick \/ UNCHANGED vars
  BY <1>1 DEF Tick, Quiet, vars, storeVars
<1>2. ASSUME NEW w \in Workers, ForgetJob(w) PROVE Quiet
  BY <1>2 DEF ForgetJob, Quiet
<1> QED
  BY <1>1, <1>2, EnqueueWrites, AcknowledgeWrites, ClaimGrants, RenewWrites, SettleWrites
     DEF Next

-----------------------------------------------------------------------------
(* The claims of the workers.  A claim names a stored job and a change written     *)
(* before; while that change is the job's current one, the row names the worker.     *)

RowFits(j) == Exists(j) => jobs[j].currentStateChangeId <= lastId

ClaimFits(w) ==
    held[w] # NoClaim =>
        /\ Exists(held[w].job) /\ held[w].id <= lastId
        /\ IsCurrentClaim(held[w].job, held[w].id) => jobs[held[w].job].claimedBy = w

ClaimsFit == /\ \A j \in JobIds : RowFits(j)
             /\ \A w \in Workers : ClaimFits(w)

OwnInv == IndexInv /\ ClaimsFit

\* A row is rewritten under a new change id, or keeps its change id and its claim.
FreshOrSame(j, r) ==
    /\ r \in Record /\ r.currentStateChangeId <= lastId'
    /\ \/ r.currentStateChangeId > lastId
       \/ /\ jobs[j] \in Record
          /\ r.status = jobs[j].status /\ r.claimedBy = jobs[j].claimedBy
          /\ r.currentStateChangeId = jobs[j].currentStateChangeId

LEMMA RewrittenFits ==
    ASSUME OwnInv, IndexInv', NEW j \in JobIds, NEW r, Rewrites(j, r), lastId' >= lastId,
           FreshOrSame(j, r)
    PROVE  /\ \A k \in JobIds : RowFits(k)'
           /\ \A w \in Workers : held'[w] \in {held[w], NoClaim} => ClaimFits(w)'
<1>1. /\ StoreTypeOK /\ lastId \in Nat /\ lastId' \in Nat
      /\ r \in Record /\ r # NoJob /\ r.currentStateChangeId \in Nat
  BY DEF OwnInv, IndexInv, TypeOK, StoreTypeOK, FreshOrSame, Record, JobRecords, NoJob,
     JobStatus
<1>2. /\ jobs'[j] = r /\ Exists(j)'
      /\ \A k \in JobIds \ {j} : jobs'[k] = jobs[k]
  BY <1>1 DEF Rewrites, StoreTypeOK, Exists
<1>3. ASSUME NEW k \in JobIds PROVE RowFits(k)'
  <2>1. CASE k = j
    BY <1>2, <2>1 DEF RowFits, FreshOrSame
  <2>2. CASE k # j
    <3>1. ~Exists(k) \/ jobs[k].currentStateChangeId \in Nat
      BY <1>1, RowFacts DEF Record, JobRecords
    <3> QED
      BY <1>1, <1>2, <2>2, <3>1 DEF OwnInv, ClaimsFit, RowFits, Exists
  <2> QED
    BY <2>1, <2>2
<1>4. ASSUME NEW w \in Workers, held'[w] \in {held[w], NoClaim} PROVE ClaimFits(w)'
  <2>1. SUFFICES ASSUME held'[w] = held[w], held[w] # NoClaim PROVE ClaimFits(w)'
    BY <1>4 DEF ClaimFits, NoClaim
  <2> DEFINE k == held[w].job
  <2>2. k \in JobIds /\ held[w].id \in Nat
    BY <2>1 DEF OwnInv, IndexInv, TypeOK
  <2>3. Exists(k) /\ held[w].id <= lastId /\ held[w].id <= lastId'
    BY <1>1, <2>1, <2>2 DEF OwnInv, ClaimsFit, ClaimFits
  <2>4. IsCurrentClaim(k, held[w].id) => jobs[k].claimedBy = w
    BY <2>1 DEF OwnInv, ClaimsFit, ClaimFits
  <2>5. CASE k = j
    <3>1. ASSUME r.status = "Running", r.currentStateChangeId = held[w].id
          PROVE  r.claimedBy = w
      BY <1>1, <2>2, <2>3, <2>4, <2>5, <3>1 DEF FreshOrSame, IsCurrentClaim
    <3> QED
      BY <1>2, <2>1, <2>3, <2>5, <3>1 DEF ClaimFits, IsCurrentClaim
  <2>6. CASE k # j
    <3>1. jobs'[k] = jobs[k]
      BY <1>2, <2>2, <2>6
    <3> QED
      BY <2>1, <2>3, <2>4, <3>1 DEF ClaimFits, IsCurrentClaim, Exists
  <2> QED
    BY <2>5, <2>6
<1> QED
  BY <1>3, <1>4

LEMMA InitOwnInv == Init => OwnInv
BY InitIndexInv DEF OwnInv, ClaimsFit, RowFits, ClaimFits, Init, StoreInit, Exists, NoJob,
                    NoClaim

LEMMA DropKeeps ==
    ASSUME OwnInv, NEW w \in Workers, Drop(w), NEW v \in Workers
    PROVE  held'[v] = (IF v = w THEN NoClaim ELSE held[v])
BY DEF OwnInv, IndexInv, TypeOK, Drop

LEMMA NextOwnInv == OwnInv /\ [Next]_vars => OwnInv'
<1> SUFFICES ASSUME OwnInv, [Next]_vars PROVE ClaimsFit'
  BY NextIndexInv DEF OwnInv
<1>1. IndexInv /\ IndexInv' /\ lastId \in Nat /\ lastId' \in Nat
  BY NextIndexInv DEF OwnInv, IndexInv, TypeOK, StoreTypeOK
<1>2. CASE Quiet
  <2>1. \A w \in Workers : held'[w] \in {held[w], NoClaim}
    BY <1>2, DropKeeps DEF Quiet
  <2>2. UNCHANGED <<jobs, lastId>>
    BY <1>2 DEF Quiet, storeVars
  <2>3. \A j \in JobIds : RowFits(j)'
    BY <2>2 DEF OwnInv, ClaimsFit, RowFits, Exists
  <2>4. \A w \in Workers : ClaimFits(w)'
    BY <2>1, <2>2 DEF OwnInv, ClaimsFit, ClaimFits, Exists, IsCurrentClaim, NoClaim
  <2> QED
    BY <2>3, <2>4 DEF ClaimsFit
<1>3. ASSUME NEW j \in JobIds, NEW r, Submits(j, r) \/ Acknowledges(j, r)
      PROVE  ClaimsFit'
  <2>1. Rewrites(j, r) /\ held' = held
    BY <1>3 DEF Submits, Acknowledges
  <2>2. lastId' >= lastId /\ FreshOrSame(j, r)
    <3>1. CASE Submits(j, r)
      BY <1>1, <3>1 DEF Submits, FreshOrSame
    <3>2. CASE Acknowledges(j, r)
      <4>1. Exists(j) /\ jobs[j].currentStateChangeId \in Nat
        BY <3>2 DEF Acknowledges, Exists, NoJob, Record, JobRecords
      <4> QED
        BY <1>1, <3>2, <4>1 DEF Acknowledges, FreshOrSame, OwnInv, ClaimsFit, RowFits
    <3> QED
      BY <1>3, <3>1, <3>2
  <2> QED
    BY <1>1, <2>1, <2>2, RewrittenFits DEF ClaimsFit
<1>4. ASSUME NEW w \in Workers, NEW j \in JobIds, NEW r, Grants(w, j, r)
      PROVE  ClaimsFit'
  <2>1. /\ Rewrites(j, r) /\ lastId' > lastId /\ r \in Record
        /\ r.currentStateChangeId = lastId' /\ r.claimedBy = w
        /\ held' = [held EXCEPT ![w] = [job |-> j, id |-> lastId']]
    BY <1>4 DEF Grants, Acquired
  <2>2. lastId' >= lastId /\ FreshOrSame(j, r)
    BY <1>1, <2>1 DEF FreshOrSame
  <2>3. /\ held'[w] = [job |-> j, id |-> lastId']
        /\ \A v \in Workers \ {w} : held'[v] = held[v]
    BY <1>1, <2>1 DEF IndexInv, TypeOK
  <2>4. jobs'[j] = r /\ r # NoJob
    BY <1>1, <2>1 DEF Rewrites, IndexInv, TypeOK, StoreTypeOK, Record, JobRecords, NoJob,
                       JobStatus
  <2>5. ClaimFits(w)'
    BY <1>1, <2>1, <2>3, <2>4 DEF ClaimFits, Exists, IsCurrentClaim
  <2> QED
    BY <1>1, <2>1, <2>2, <2>3, <2>5, RewrittenFits DEF ClaimsFit
<1>5. ASSUME NEW w \in Workers, NEW r, Renews(w, r) \/ Settles(w, r)
      PROVE  ClaimsFit'
  <2> DEFINE j == held[w].job
  <2>1. j \in JobIds /\ Rewrites(j, r)
    BY <1>1, <1>5, HeldFacts DEF Renews, Settles
  <2>2. \A v \in Workers : held'[v] \in {held[v], NoClaim}
    BY <1>5, DropKeeps DEF Renews, Settles
  <2>3. lastId' >= lastId /\ FreshOrSame(j, r)
    <3>1. CASE Renews(w, r)
      <4>1. jobs[j] \in Record /\ jobs[j].status = "Running"
            /\ jobs[j].currentStateChangeId = held[w].id /\ held[w].id \in Nat
        BY <3>1 DEF Renews, IsCurrentClaim, Record, JobRecords
      <4>2. held[w].id <= lastId
        BY <3>1 DEF Renews, OwnInv, ClaimsFit, ClaimFits
      <4> QED
        BY <1>1, <3>1, <4>1, <4>2 DEF Renews, FreshOrSame
    <3>2. CASE Settles(w, r)
      BY <1>1, <3>2 DEF Settles, Released, FreshOrSame
    <3> QED
      BY <1>5, <3>1, <3>2
  <2> HIDE DEF j
  <2> QED
    BY <1>1, <2>1, <2>2, <2>3, RewrittenFits DEF ClaimsFit
<1> QED
  BY <1>1, <1>2, <1>3, <1>4, <1>5, StepWrites

-----------------------------------------------------------------------------
(* The refinement mapping of MemoryClients, row by row and worker by worker. *)

OwnerAt(job) == IF job # NoJob THEN job.claimedBy ELSE NoWorker

Stage == [j \in JobIds |-> StageAt(jobs[j], now)]
Owner == [j \in JobIds |-> OwnerAt(jobs[j])]
Claim == [w \in Workers |-> held[w].job]

LEMMA RecordOwner ==
    ASSUME NEW r \in Record
    PROVE  OwnerAt(r) = r.claimedBy
BY DEF OwnerAt, Record, JobRecords, NoJob, JobStatus

LEMMA NoRecord ==
    ASSUME NEW at \in Nat
    PROVE  StageAt(NoJob, at) = "absent" /\ OwnerAt(NoJob) = NoWorker
BY DEF StageAt, OwnerAt, NoJob, Pending, Terminal

LEMMA OneRowMapped ==
    ASSUME IndexInv, NEW j \in JobIds, NEW r, Rewrites(j, r)
    PROVE  /\ Stage' = [Stage EXCEPT ![j] = StageAt(r, now)]
           /\ Owner' = [Owner EXCEPT ![j] = OwnerAt(r)]
BY DEF IndexInv, TypeOK, StoreTypeOK, Stage, Owner, Rewrites

\* A worker whose claim is current is the owner that the row names.
LEMMA CurrentOwner ==
    ASSUME OwnInv, NEW w \in Workers, held[w] # NoClaim,
           IsCurrentClaim(held[w].job, held[w].id)
    PROVE  /\ held[w].job \in JobIds /\ jobs[held[w].job] \in Record
           /\ Claim[w] = held[w].job /\ Claim[w] # -1 /\ Owner[held[w].job] = w
<1> DEFINE j == held[w].job
<1>1. j \in JobIds /\ Exists(j) /\ jobs[j].claimedBy = w
  BY HeldFacts DEF OwnInv, ClaimsFit, ClaimFits
<1>2. jobs[j] \in Record
  BY <1>1, RowFacts DEF OwnInv, IndexInv, TypeOK
<1>3. OwnerAt(jobs[j]) = w
  BY <1>1, <1>2, RecordOwner
<1> QED
  BY <1>1, <1>2, <1>3, JobIdsAssumption DEF Claim, Owner

LEMMA QuietImplements ==
    ASSUME OwnInv, Quiet
    PROVE  Ownership!Next \/ UNCHANGED <<Stage, Owner, Claim>> \/ now' # now
<1> SUFFICES ASSUME now' = now, held' # held
             PROVE  Ownership!Next
  BY DEF Quiet, Stage, Owner, Claim, storeVars
<1>1. Stage' = Stage /\ Owner' = Owner
  BY DEF Quiet, Stage, Owner, storeVars
<1>2. PICK w \in Workers : Drop(w)
  BY DEF Quiet
<1>3. \A v \in Workers : held'[v].job = (IF v \in {w} THEN -1 ELSE held[v].job)
  BY <1>2, DropKeeps DEF NoClaim
<1>4. {w} \in SUBSET Workers /\
      Claim' = [v \in Workers |-> IF v \in {w} THEN -1 ELSE Claim[v]]
  BY <1>3 DEF Claim
<1>5. \E X \in SUBSET Workers :
        Claim' = [v \in Workers |-> IF v \in X THEN -1 ELSE Claim[v]]
  BY <1>4
<1>6. Ownership!GiveUp
  BY <1>1, <1>5 DEF Ownership!GiveUp, Stage, Owner, OwnerAt, Exists, Claim
<1> QED
  BY <1>6 DEF Ownership!Next

-----------------------------------------------------------------------------
(* The writes that matter to JobOwnership. *)

LEMMA SubmitsImplements ==
    ASSUME OwnInv, NEW j \in JobIds, NEW r, Submits(j, r)
    PROVE  Ownership!Next
<1>1. IndexInv /\ now \in Nat
  BY DEF OwnInv, IndexInv, TypeOK, StoreTypeOK
<1>2. StageAt(r, now) = "waiting" /\ OwnerAt(r) = NoWorker
  BY <1>1, StageFacts, RecordOwner DEF Submits
<1>3. Stage[j] = "absent" /\ Owner[j] = NoWorker
  BY <1>1, NoRecord DEF Submits, Exists, Stage, Owner
<1>4. /\ Stage' = [Stage EXCEPT ![j] = "waiting"]
      /\ Owner' = [Owner EXCEPT ![j] = NoWorker]
  BY <1>1, <1>2, OneRowMapped DEF Submits
<1>5. Owner' = Owner /\ Claim' = Claim
  BY <1>3, <1>4 DEF Owner, Claim, Submits
<1>6. Ownership!Submit(j)
  BY <1>3, <1>4, <1>5 DEF Ownership!Submit, Stage, Owner, OwnerAt, Exists, Claim
<1> QED
  BY <1>6 DEF Ownership!Next

LEMMA AcknowledgesImplements ==
    ASSUME OwnInv, NEW j \in JobIds, NEW r, Acknowledges(j, r)
    PROVE  UNCHANGED <<Stage, Owner, Claim>>
<1>1. IndexInv /\ jobs[j] \in Record /\ r \in Record
  BY DEF OwnInv, Acknowledges
<1>2. StageAt(r, now) = StageAt(jobs[j], now) /\ OwnerAt(r) = OwnerAt(jobs[j])
  BY <1>1, RecordOwner DEF Acknowledges, StageAt
<1>3. StageAt(r, now) = Stage[j] /\ OwnerAt(r) = Owner[j]
  BY <1>2 DEF Stage, Owner
<1>4. /\ Stage' = [Stage EXCEPT ![j] = Stage[j]]
      /\ Owner' = [Owner EXCEPT ![j] = Owner[j]]
  BY <1>1, <1>3, OneRowMapped DEF Acknowledges
<1> QED
  BY <1>4 DEF Stage, Owner, Claim, Acknowledges

\* The lease just written lies ahead: the clock read for it is at most Lag old.
LEMMA GrantsImplements ==
    ASSUME Lag < LeaseDuration, OwnInv, NEW w \in Workers, NEW j \in JobIds, NEW r,
           Grants(w, j, r)
    PROVE  Ownership!Next
<1>1. IndexInv /\ now \in Nat /\ jobs[j] \in Record
  BY DEF OwnInv, IndexInv, TypeOK, StoreTypeOK, Grants
<1>2. PICK at \in ClockReadings : /\ Acquired(r, jobs[j], w, lastId', at + LeaseDuration)
                                  /\ Sqlite!IsDue(jobs[j], at)
  BY DEF Grants
<1>3. at \in Nat /\ at <= now /\ at + LeaseDuration > now
  BY <1>1, ReadingFacts, MemoryAssumption
<1>4. StageAt(r, now) = "running" /\ OwnerAt(r) = w
  BY <1>1, <1>2, <1>3, StageFacts, RecordOwner DEF Acquired
<1>5. Stage[j] \in {"waiting", "lapsed"}
  <2>1. CASE jobs[j].status \in Pending
    BY <1>1, <2>1, StageFacts DEF Stage
  <2>2. CASE jobs[j].status \notin Pending
    <3>1. jobs[j].status = "Running" /\ jobs[j].leaseExpiresAt <= at
      BY <1>2, <2>2 DEF Sqlite!IsDue, Sqlite!Pending, Pending
    <3>2. jobs[j].leaseExpiresAt \in Int
      BY <1>1 DEF Record, JobRecords, NoTime
    <3>3. ~(jobs[j].leaseExpiresAt > now)
      BY <1>1, <1>3, <3>1, <3>2
    <3> QED
      BY <1>1, <3>1, <3>3, StageFacts DEF Stage
  <2> QED
    BY <2>1, <2>2
<1>6. Stage' = [Stage EXCEPT ![j] = "running"] /\ Owner' = [Owner EXCEPT ![j] = w]
  BY <1>1, <1>4, OneRowMapped DEF Grants
<1>7. Claim[w] = -1 /\ Claim' = [Claim EXCEPT ![w] = j]
  <2>1. held[w].job = -1 /\ held' = [held EXCEPT ![w] = [job |-> j, id |-> lastId']]
    BY DEF Grants, NoClaim
  <2>2. \A v \in Workers : held'[v].job = (IF v = w THEN j ELSE held[v].job)
    BY <1>1, <2>1 DEF IndexInv, TypeOK
  <2> QED
    BY <2>1, <2>2 DEF Claim
<1>8. Ownership!Grant(w, j)
  BY <1>5, <1>6, <1>7 DEF Ownership!Grant, Stage, Owner, OwnerAt, Exists, Claim
<1> QED
  BY <1>8 DEF Ownership!Next

LEMMA RenewsImplements ==
    ASSUME Lag < LeaseDuration, OwnInv, NEW w \in Workers, NEW r, Renews(w, r)
    PROVE  Ownership!Next
<1> DEFINE j == held[w].job
<1>1. /\ IndexInv /\ now \in Nat /\ r \in Record /\ held' = held
      /\ Rewrites(j, r)
  BY DEF OwnInv, IndexInv, TypeOK, StoreTypeOK, Renews
<1>2. /\ j \in JobIds /\ jobs[j] \in Record /\ Claim[w] = j /\ Claim[w] # -1
      /\ Owner[j] = w
  BY CurrentOwner DEF Renews
<1>3. r.status = "Running" /\ r.claimedBy = w
  BY <1>2, RecordOwner DEF Renews, Owner
<1>4. r.leaseExpiresAt > now
  <2>1. PICK at \in ClockReadings : r.leaseExpiresAt = at + LeaseDuration
    BY DEF Renews
  <2> QED
    BY <1>1, <2>1, ReadingFacts, MemoryAssumption
<1> HIDE DEF j
<1>5. StageAt(r, now) = "running" /\ OwnerAt(r) = w
  BY <1>1, <1>3, <1>4, StageFacts, RecordOwner
<1>6. Stage' = [Stage EXCEPT ![Claim[w]] = "running"]
      /\ Owner' = [Owner EXCEPT ![j] = w]
  BY <1>1, <1>2, <1>5, OneRowMapped
<1>7. Owner' = Owner /\ Claim' = Claim
  BY <1>1, <1>2, <1>6 DEF Owner, Claim
<1>8. Owner[Claim[w]] = w
  BY <1>2
<1>9. Ownership!Extend(w)
  BY <1>2, <1>6, <1>7, <1>8
     DEF Ownership!Extend, Ownership!IsOwner, Stage, Owner, OwnerAt, Exists, Claim
<1> QED
  BY <1>9 DEF Ownership!Next

LEMMA SettlesImplements ==
    ASSUME OwnInv, NEW w \in Workers, NEW r, Settles(w, r)
    PROVE  Ownership!Next
<1> DEFINE j == held[w].job
<1>1. IndexInv /\ now \in Nat /\ r \in Record /\ Rewrites(j, r)
  BY DEF OwnInv, IndexInv, TypeOK, StoreTypeOK, Settles, Released
<1>2. j \in JobIds /\ Claim[w] = j /\ Claim[w] # -1 /\ Owner[j] = w
  BY CurrentOwner DEF Settles
<1>3. r.status \in Pending \cup Terminal /\ r.claimedBy = NoWorker
  BY DEF Settles, Released
<1> HIDE DEF j
<1>4. StageAt(r, now) \in {"settled", "waiting"} /\ OwnerAt(r) = NoWorker
  BY <1>1, <1>3, StageFacts, RecordOwner
<1>5. /\ Stage' = [Stage EXCEPT ![Claim[w]] = StageAt(r, now)]
      /\ Owner' = [Owner EXCEPT ![Claim[w]] = NoWorker]
  BY <1>1, <1>2, <1>4, OneRowMapped
<1>6. Claim' = [Claim EXCEPT ![w] = -1]
  <2>1. \A v \in Workers : held'[v].job = (IF v = w THEN -1 ELSE held[v].job)
    BY DropKeeps DEF Settles, NoClaim
  <2> QED
    BY <2>1 DEF Claim
<1>7. Owner[Claim[w]] = w /\ \E s \in {"settled", "waiting"} : Stage' = [Stage EXCEPT ![Claim[w]] = s]
  BY <1>2, <1>4, <1>5
<1>8. Ownership!Settle(w)
  BY <1>2, <1>5, <1>6, <1>7
     DEF Ownership!Settle, Ownership!IsOwner, Stage, Owner, OwnerAt, Exists, Claim
<1> QED
  BY <1>8 DEF Ownership!Next

LEMMA TickImplements ==
    ASSUME OwnInv, Tick
    PROVE  Ownership!Next
<1>1. now \in Nat /\ now' = now + 1 /\ UNCHANGED <<jobs, held>> /\ StoreTypeOK
  BY DEF OwnInv, IndexInv, TypeOK, StoreTypeOK, Tick, storeVars
<1> DEFINE S == {j \in JobIds : Stage[j] = "running" /\ Stage'[j] = "lapsed"}
<1>2. ASSUME NEW j \in JobIds
      PROVE  Stage'[j] = Stage[j] \/ (Stage[j] = "running" /\ Stage'[j] = "lapsed")
  <2>1. Stage[j] = StageAt(jobs[j], now) /\ Stage'[j] = StageAt(jobs[j], now + 1)
    BY <1>1 DEF Stage
  <2>2. CASE Exists(j)
    BY <1>1, <2>1, <2>2, RowFacts, StageAges
  <2>3. CASE ~Exists(j)
    BY <1>1, <2>1, <2>3, NoRecord DEF Exists
  <2> QED
    BY <2>2, <2>3
<1>3. Stage' = [j \in JobIds |-> IF j \in S THEN "lapsed" ELSE Stage[j]]
  <2>1. Stage' = [j \in JobIds |-> Stage'[j]]
    BY DEF Stage
  <2>2. \A j \in JobIds : Stage'[j] = (IF j \in S THEN "lapsed" ELSE Stage[j])
    BY <1>2
  <2> HIDE DEF S
  <2> QED
    BY <2>1, <2>2 DEF Stage
<1>4. S \in SUBSET {j \in JobIds : Stage[j] = "running"}
  OBVIOUS
<1> HIDE DEF S
<1>5. \E X \in SUBSET {j \in JobIds : Stage[j] = "running"} :
        Stage' = [j \in JobIds |-> IF j \in X THEN "lapsed" ELSE Stage[j]]
  BY <1>3, <1>4
<1>6. Owner' = Owner /\ Claim' = Claim
  BY <1>1 DEF Owner, Claim
<1>7. Ownership!Lapse
  BY <1>5, <1>6 DEF Ownership!Lapse, Stage, Owner, OwnerAt, Exists, Claim
<1> QED
  BY <1>7 DEF Ownership!Next

LEMMA MemoryStepImplements ==
    ASSUME Lag < LeaseDuration, OwnInv, [Next]_vars
    PROVE  [Ownership!Next]_(Ownership!vars)
<1>1. Ownership!Next \/ UNCHANGED <<Stage, Owner, Claim>>
  <2>1. CASE now' # now
    BY <2>1, TickImplements
       DEF Next, EnqueueJob, AcknowledgeJob, ClaimNext, RenewJob, CompleteJob, FailJob,
           RetryJob, ForgetJob, vars
  <2>2. CASE now' = now
    BY <2>2, StepWrites, QuietImplements, SubmitsImplements, AcknowledgesImplements,
       GrantsImplements, RenewsImplements, SettlesImplements DEF OwnInv
  <2> QED
    BY <2>1, <2>2
<1> QED
  BY <1>1 DEF Ownership!vars, Stage, Owner, OwnerAt, Exists, Claim

LEMMA MemoryInitImplements == Init => Ownership!Init
<1> SUFFICES ASSUME Init PROVE Ownership!Init
  OBVIOUS
<1>1. /\ jobs = [j \in JobIds |-> NoJob] /\ now = 0
      /\ held = [w \in Workers |-> NoClaim]
  BY DEF Init, StoreInit
<1>2. Stage = [j \in JobIds |-> "absent"] /\ Owner = [j \in JobIds |-> NoWorker]
  BY <1>1, NoRecord DEF Stage, Owner
<1>3. Claim = [w \in Workers |-> -1]
  BY <1>1 DEF Claim, NoClaim
<1> QED
  BY <1>2, <1>3 DEF Ownership!Init, Stage, Owner, OwnerAt, Exists, Claim

\* The in-memory store keeps the promise of README.md:10 and :28 that the pool over SQLite
\* keeps: a job has one owner, passes on only after its lease, and is extended and settled
\* by its owner alone, whatever late calls other workers make.
THEOREM MemoryImplementsOwnership ==
    ASSUME Lag < LeaseDuration PROVE Spec => ImplementsOwnership
<1>1. Init => Ownership!Init
  BY MemoryInitImplements
<1>2. OwnInv /\ [Next]_vars => [Ownership!Next]_(Ownership!vars)
  BY MemoryStepImplements
<1> QED
  BY <1>1, <1>2, InitOwnInv, NextOwnInv, PTL
     DEF Spec, ImplementsOwnership, Ownership!Spec
=============================================================================
