---------------------------- MODULE WorkerPoolProofs ----------------------------
(***************************************************************************)
(* Proofs about WorkerPool for any number of workers and jobs and any retry  *)
(* policy, checked by TLAPS: first what rests on calls shorter than a lease   *)
(* (the claims, their times, the heartbeat, ownership), in the end what holds  *)
(* whatever the timing, by the store's own conditional updates.              *)
(***************************************************************************)
EXTENDS WorkerPool, JobRecordProofs

-----------------------------------------------------------------------------
(* The operations of the store: which row they write, and what is in it. *)

LEMMA RowFacts ==
    ASSUME StoreTypeOK, NEW j \in JobIds
    PROVE  /\ jobs[j].status # "Absent" => jobs[j] \in Record
           /\ Exists(j) <=> jobs[j] \in Record
           /\ Exists(j) => jobs[j].status \in JobStatus
<1>1. jobs[j] \in Record \cup {NoJob}
  BY DEF StoreTypeOK, Record
<1>2. \A r \in Record : r.status \in JobStatus
  BY DEF Record, JobRecords
<1>3. NoJob.status = "Absent" /\ "Absent" \notin JobStatus
  BY DEF NoJob, JobStatus
<1> QED
  BY <1>1, <1>2, <1>3 DEF Exists

LEMMA WriteType ==
    ASSUME StoreTypeOK, NEW j \in JobIds, NEW r \in Record, NEW n \in Nat, Write(j, r, n)
    PROVE  /\ jobs' = [jobs EXCEPT ![j] = r]
           /\ lastId' = lastId + n
           /\ jobs' \in [JobIds -> Record \cup {NoJob}]
           /\ lastId' \in Nat
BY DEF StoreTypeOK, Write, Record

LEMMA ClaimStep ==
    ASSUME StoreTypeOK, NEW j \in JobIds, NEW w \in Workers, NEW at \in Nat,
           NEW lease \in Nat, TryClaimNextDueJob(j, w, at, lease)
    PROVE  /\ jobs[j] \in Record
           /\ IsDue(jobs[j], at)
           /\ lastId' \in Nat /\ lastId' > lastId
           /\ \E r : /\ jobs' = [jobs EXCEPT ![j] = r]
                     /\ Acquired(r, jobs[j], w, lastId', lease)
<1>1. IsDue(jobs[j], at)
  BY DEF TryClaimNextDueJob, IsNextDue, Due
<1>2. jobs[j].status # "Absent"
  BY <1>1 DEF IsDue, Pending
<1>3. jobs[j] \in Record
  BY <1>2, RowFacts
<1>4. lastId \in Nat
  BY DEF StoreTypeOK
<1>5. CASE jobs[j].status \in {"Running", "Queued"}
  <2> DEFINE r == Claimed(jobs[j], w, lastId + 1, at, lease)
  <2>1. Acquired(r, jobs[j], w, lastId + 1, lease)
    BY <1>3, <1>4, ClaimedFacts
  <2>2. Write(j, r, 1)
    BY <1>5 DEF TryClaimNextDueJob
  <2> HIDE DEF r
  <2>3. r \in Record
    BY <2>1 DEF Acquired
  <2>4. jobs' = [jobs EXCEPT ![j] = r] /\ lastId' = lastId + 1
    BY <2>2, <2>3, WriteType
  <2>5. lastId' \in Nat /\ lastId' > lastId /\ Acquired(r, jobs[j], w, lastId', lease)
    BY <1>4, <2>1, <2>4
  <2>6. \E x : jobs' = [jobs EXCEPT ![j] = x] /\ Acquired(x, jobs[j], w, lastId', lease)
    BY <2>4, <2>5
  <2> QED
    BY <1>1, <1>3, <2>5, <2>6
<1>6. CASE jobs[j].status = "Scheduled"
  <2> DEFINE r == Claimed(Requeued(jobs[j], lastId + 1, at), w, lastId + 2, at, lease)
  <2>1. Acquired(r, jobs[j], w, lastId + 2, lease)
    BY <1>3, <1>4, RequeuedClaimedFacts
  <2>2. Write(j, r, 2)
    BY <1>6 DEF TryClaimNextDueJob
  <2> HIDE DEF r
  <2>3. r \in Record
    BY <2>1 DEF Acquired
  <2>4. jobs' = [jobs EXCEPT ![j] = r] /\ lastId' = lastId + 2
    BY <2>2, <2>3, WriteType
  <2>5. lastId' \in Nat /\ lastId' > lastId /\ Acquired(r, jobs[j], w, lastId', lease)
    BY <1>4, <2>1, <2>4
  <2>6. \E x : jobs' = [jobs EXCEPT ![j] = x] /\ Acquired(x, jobs[j], w, lastId', lease)
    BY <2>4, <2>5
  <2> QED
    BY <1>1, <1>3, <2>5, <2>6
<1> QED
  BY <1>5, <1>6 DEF TryClaimNextDueJob

LEMMA SettleStep ==
    ASSUME StoreTypeOK, NEW claim, claim.job \in JobIds, NEW ok \in BOOLEAN,
           NEW at \in Nat, now \in Nat, CompleteExecution(claim, ok, at)
    PROVE  \/ UNCHANGED storeVars
           \/ /\ IsCurrentClaim(claim.job, claim.id)
              /\ lastId' \in Nat /\ lastId' > lastId
              /\ \E r : /\ jobs' = [jobs EXCEPT ![claim.job] = r]
                        /\ Released(r, jobs[claim.job], lastId + 1, lastId')
<1> DEFINE j == claim.job
<1> SUFFICES ASSUME ~ UNCHANGED storeVars
             PROVE  /\ IsCurrentClaim(j, claim.id)
                    /\ lastId' \in Nat /\ lastId' > lastId
                    /\ \E r : /\ jobs' = [jobs EXCEPT ![j] = r]
                              /\ Released(r, jobs[j], lastId + 1, lastId')
  OBVIOUS
<1>0. lastId \in Nat /\ j \in JobIds
  BY DEF StoreTypeOK
<1>1. IsCurrentClaim(j, claim.id)
  BY DEF CompleteExecution, MarkCompleted, MarkFailed, ScheduleRetry, Refused
<1>2. jobs[j] \in Record
  BY <1>0, <1>1, RowFacts DEF IsCurrentClaim
<1> DEFINE done == Completed(jobs[j], lastId + 1, now)
           fail == Failed(jobs[j], lastId + 1, now)
           retry == RetryScheduled(jobs[j], lastId + 1, now, at + RetryDelay)
<1>3. \/ Write(j, done, 1)
      \/ Write(j, fail, 1)
      \/ Write(j, retry, 2)
  BY DEF CompleteExecution, MarkCompleted, MarkFailed, ScheduleRetry, Refused
<1>a. lastId + 1 \in Nat /\ at + RetryDelay \in Nat /\ lastId + 1 + 1 = lastId + 2
  BY <1>0, RetryPolicyAssumption
<1>b. Released(done, jobs[j], lastId + 1, lastId + 1)
  BY <1>a, <1>2, CompletedFacts
<1>c. Released(fail, jobs[j], lastId + 1, lastId + 1)
  BY <1>a, <1>2, FailedFacts
<1>d. Released(retry, jobs[j], lastId + 1, lastId + 2)
  <2>1. Released(retry, jobs[j], lastId + 1, lastId + 1 + 1)
    BY <1>a, <1>2, RetryScheduledFacts
  <2> QED
    BY <2>1, <1>a
<1>4. done \in Record /\ fail \in Record /\ retry \in Record
  BY <1>b, <1>c, <1>d DEF Released
<1> HIDE DEF done, fail, retry, j
<1>5. PICK r \in Record, n \in 1 .. 2 :
        Write(j, r, n) /\ Released(r, jobs[j], lastId + 1, lastId + n)
  BY <1>3, <1>4, <1>b, <1>c, <1>d
<1>6. jobs' = [jobs EXCEPT ![j] = r] /\ lastId' = lastId + n
  BY <1>0, <1>5, WriteType
<1>7. /\ lastId' \in Nat /\ lastId' > lastId
      /\ Released(r, jobs[j], lastId + 1, lastId')
  BY <1>0, <1>5, <1>6
<1>8. \E x : jobs' = [jobs EXCEPT ![j] = x] /\ Released(x, jobs[j], lastId + 1, lastId')
  BY <1>6, <1>7
<1> QED
  BY <1>1, <1>7, <1>8 DEF j

LEMMA RenewStep ==
    ASSUME StoreTypeOK, NEW j \in JobIds, NEW id, NEW at \in Nat, NEW lease \in Nat,
           RenewLease(j, id, at, lease)
    PROVE  \/ UNCHANGED storeVars
           \/ /\ IsCurrentClaim(j, id)
              /\ lastId' = lastId
              /\ jobs[j] \in Record
              /\ [jobs[j] EXCEPT !.leaseExpiresAt = lease] \in Record
              /\ jobs' = [jobs EXCEPT ![j] = [jobs[j] EXCEPT !.leaseExpiresAt = lease]]
<1> SUFFICES ASSUME ~ UNCHANGED storeVars
             PROVE  /\ IsCurrentClaim(j, id)
                    /\ lastId' = lastId
                    /\ jobs[j] \in Record
                    /\ [jobs[j] EXCEPT !.leaseExpiresAt = lease] \in Record
                    /\ jobs' = [jobs EXCEPT ![j] =
                                    [jobs[j] EXCEPT !.leaseExpiresAt = lease]]
  OBVIOUS
<1> DEFINE r == [jobs[j] EXCEPT !.leaseExpiresAt = lease]
<1>1. IsCurrentClaim(j, id) /\ Write(j, r, 0)
  BY DEF RenewLease, Refused
<1>2. jobs[j] \in Record
  BY <1>1, RowFacts DEF IsCurrentClaim
<1>3. r \in Record
  BY <1>2 DEF Record, JobRecords
<1>4. jobs' = [jobs EXCEPT ![j] = r] /\ lastId' = lastId + 0 /\ lastId \in Nat
  BY <1>1, <1>3, WriteType DEF StoreTypeOK
<1> QED
  BY <1>1, <1>2, <1>3, <1>4

LEMMA EnqueueStep ==
    ASSUME StoreTypeOK, NEW j \in JobIds, NEW delay \in Nat, Enqueue(j, delay)
    PROVE  /\ ~Exists(j)
           /\ lastId' \in Nat /\ lastId' > lastId
           /\ \E r \in Record : /\ jobs' = [jobs EXCEPT ![j] = r]
                                /\ r.status \in Pending
                                /\ r.currentStateChangeId = lastId'
                                /\ r.claimedBy = NoWorker
                                /\ r.leaseExpiresAt = NoTime
<1>1. lastId \in Nat /\ now \in Nat /\ now + delay \in Nat /\ lastId + 1 \in Nat
  BY DEF StoreTypeOK
<1> DEFINE e == IF delay > 0 THEN ScheduledChange(lastId + 1, now, now + delay)
                             ELSE QueuedChange(lastId + 1, now)
           runAt == IF delay > 0 THEN now + delay ELSE now
           r == NewJob(e, runAt, MaxAttempts)
<1>2. e \in Change /\ e.status \in Pending /\ e.id = lastId + 1 /\ runAt \in Nat
  BY <1>1 DEF ScheduledChange, QueuedChange, StateChange, Change, StateChanges,
              JobStatus, Pending, NoTime, NoWorker
<1>3. ~Exists(j) /\ Write(j, r, 1)
  BY DEF Enqueue, Add, ScheduledJob, EnqueuedJob
<1> HIDE DEF e, runAt
<1>4. /\ r \in Record
      /\ r.status = e.status
      /\ r.currentStateChangeId = e.id
      /\ r.claimedBy = NoWorker
      /\ r.leaseExpiresAt = NoTime
  BY <1>2, NewJobFacts, RetryPolicyAssumption
<1> HIDE DEF r
<1>5. jobs' = [jobs EXCEPT ![j] = r] /\ lastId' = lastId + 1
  BY <1>3, <1>4, WriteType
<1>6. lastId' \in Nat /\ lastId' > lastId
  BY <1>1, <1>5
<1>7. /\ r \in Record
      /\ jobs' = [jobs EXCEPT ![j] = r]
      /\ r.status \in Pending
      /\ r.currentStateChangeId = lastId'
      /\ r.claimedBy = NoWorker
      /\ r.leaseExpiresAt = NoTime
  BY <1>2, <1>4, <1>5
<1> QED
  BY <1>3, <1>6, <1>7

-----------------------------------------------------------------------------
(* The inductive invariant ClaimInv. *)

LEMMA InitClaimInv == Init => ClaimInv
<1> SUFFICES ASSUME Init PROVE ClaimInv
  OBVIOUS
<1> USE DEF Init, StoreInit
<1>1. \A j \in JobIds : jobs[j] = NoJob
  OBVIOUS
<1>2. Stored = {}
  BY <1>1 DEF Stored, Exists
<1>3. TypeOK
  BY TimeAssumption DEF TypeOK, StoreTypeOK, Points, NoClaim, NoBeat, Beat
<1>4. ASSUME NEW w \in Workers PROVE WorkerInv(w)
  BY DEF WorkerInv, HeldStored, NothingHeld, HeldIdIssued, HeartbeatInPlace, CallsOnTime,
         ReloadSafe, ClaimRecorded, ClaimMatchesRow, HasClaim, Holding, NoClaim, NoBeat, Beat
<1> QED
  BY <1>2, <1>3, <1>4 DEF ClaimInv, DownIsExited, RowIdsIssued

\* What the parts of the invariant that speak of worker w depend on.
WorkerSame(w) ==
    /\ pc'[w] = pc[w]
    /\ since'[w] = since[w]
    /\ held'[w] = held[w]
    /\ heartbeat'[w].phase = "sending" => heartbeat'[w] = heartbeat[w]

\* A step of another worker that leaves the rows alone does not disturb it.
LEMMA WorkerUndisturbed ==
    ASSUME NEW w \in Workers, WorkerInv(w), WorkerSame(w),
           UNCHANGED storeVars, UNCHANGED now
    PROVE  WorkerInv(w)'
BY DEF WorkerSame, storeVars, WorkerInv, HeldStored, NothingHeld, HeldIdIssued,
       HeartbeatInPlace, CallsOnTime, ReloadSafe, ClaimIntact, ClaimRecorded,
       ClaimMatchesRow, Exists

\* The row r that replaces the row of job j keeps the claims written before and does
\* not upset worker w.
Harmless(w, j, r) ==
    pc[w] \in HasClaim /\ held[w].job = j =>
         /\ \A id, x : WroteClaim(jobs[j].history, id, x) => WroteClaim(r.history, id, x)
         /\ pc[w] # "reloading"
         /\ r.status = "Running"
              => (r.currentStateChangeId = held[w].id <=> r.claimedBy = w)

\* A step of another worker that writes a row does not disturb it either.
LEMMA WorkerUndisturbedByWrite ==
    ASSUME NEW w \in Workers, WorkerInv(w), WorkerSame(w), StoreTypeOK,
           HeldIdIssued(w)', UNCHANGED now,
           NEW j \in JobIds, NEW r \in Record,
           jobs' = [jobs EXCEPT ![j] = r],
           Harmless(w, j, r)
    PROVE  WorkerInv(w)'
<1> USE DEF WorkerSame, WorkerInv
<1>1. HeldStored(w)' /\ NothingHeld(w)' /\ HeartbeatInPlace(w)' /\ CallsOnTime(w)'
  <2>1. r # NoJob
    BY DEF Record, JobRecords, NoJob, JobStatus
  <2> QED
    BY <2>1 DEF HeldStored, NothingHeld, HeartbeatInPlace, CallsOnTime, Exists, StoreTypeOK
<1>2. CASE pc[w] \in HasClaim /\ held[w].job = j
  <2>1. jobs'[held'[w].job] = r
    BY <1>2 DEF StoreTypeOK
  <2> QED
    BY <1>1, <1>2, <2>1 DEF Harmless, ReloadSafe, ClaimRecorded, ClaimMatchesRow
<1>3. CASE pc[w] \in HasClaim /\ held[w].job # j
  <2>1. jobs'[held'[w].job] = jobs[held[w].job]
    BY <1>3 DEF StoreTypeOK, HeldStored
  <2> QED
    BY <1>1, <1>3, <2>1 DEF ReloadSafe, ClaimIntact, ClaimRecorded, ClaimMatchesRow
<1>4. CASE pc[w] \notin HasClaim
  BY <1>1, <1>4 DEF ReloadSafe, ClaimRecorded, ClaimMatchesRow, HasClaim
<1> QED
  BY <1>2, <1>3, <1>4

\* A step of worker w that leaves the rows, the clock and the host alone keeps the
\* invariant if it keeps it for w.
LEMMA QuietStep ==
    ASSUME ClaimInv, NEW w \in Workers, pc[w] # "exited",
           UNCHANGED <<storeVars, now, host>>,
           TypeOK', WorkerInv(w)', \A v \in Workers \ {w} : WorkerSame(v)
    PROVE  ClaimInv'
<1>1. host # "down"
  BY DEF ClaimInv, DownIsExited, AllExited
<1>2. DownIsExited' /\ RowIdsIssued'
  BY <1>1 DEF ClaimInv, DownIsExited, RowIdsIssued, Stored, Exists, storeVars
<1>3. ASSUME NEW v \in Workers PROVE WorkerInv(v)'
  BY <1>3, WorkerUndisturbed DEF ClaimInv
<1> QED
  BY <1>2, <1>3 DEF ClaimInv

\* The facts about one worker that the steps below start from.
LEMMA WorkerTypes ==
    ASSUME TypeOK, NEW w \in Workers
    PROVE  /\ pc[w] \in Points /\ since[w] \in Nat
           /\ held[w].job \in JobIds \cup {-1} /\ held[w].id \in Nat
           /\ held[w].attempts \in Nat
           /\ held[w] = [job |-> held[w].job, id |-> held[w].id,
                         attempts |-> held[w].attempts]
           /\ outcome[w] \in {"none", "succeeded", "failed", "cancelled"}
           /\ heartbeat[w].at \in Nat
           /\ now \in Nat /\ lastId \in Nat /\ StoreTypeOK
BY DEF TypeOK, StoreTypeOK

LEMMA GotoType ==
    ASSUME TypeOK, NEW w, NEW point \in Points, Goto(w, point)
    PROVE  pc' \in [Workers -> Points] /\ since' \in [Workers -> Nat]
<1>1. now \in Nat /\ pc \in [Workers -> Points] /\ since \in [Workers -> Nat]
  BY DEF TypeOK, StoreTypeOK
<1>2. pc' \in [Workers -> Points]
  BY <1>1 DEF Goto
<1>3. since' \in [Workers -> Nat]
  BY <1>1 DEF Goto
<1> QED
  BY <1>2, <1>3

Beats == [phase : {"off", "waiting", "sending", "ended", "cancelled"}, at : Nat]

\* The heartbeat waits until a moment of the clock.
LEMMA NextBeatType ==
    ASSUME TypeOK PROVE NextBeat \in Beats
<1>1. now \in Nat /\ LeaseDuration \in Nat
  BY TimeAssumption DEF TypeOK, StoreTypeOK
<1>2. LeaseDuration \div 2 \in Nat
  BY <1>1
<1>3. LeaseRenewalInterval \in Nat
  BY <1>2 DEF LeaseRenewalInterval
<1> HIDE DEF LeaseRenewalInterval
<1>4. now + LeaseRenewalInterval \in Nat
  BY <1>1, <1>3
<1> QED
  BY <1>4 DEF NextBeat, Beat, Beats

\* A worker that goes back to its loop holds nothing.
LEMMA BackToSafe ==
    ASSUME TypeOK, NEW w \in Workers, NEW point \in {"idle", "exited"},
           BackTo(w, point)
    PROVE  /\ (\A v \in Workers \ {w} : WorkerSame(v))
           /\ pc' \in [Workers -> Points]
           /\ since' \in [Workers -> Nat]
           /\ held' \in [Workers -> [job : JobIds \cup {-1}, id : Nat, attempts : Nat]]
           /\ outcome' \in [Workers -> {"none", "succeeded", "failed", "cancelled"}]
           /\ heartbeat' \in [Workers -> [phase : {"off", "waiting", "sending", "ended",
                                                  "cancelled"}, at : Nat]]
           /\ pc'[w] = point /\ held'[w] = NoClaim /\ heartbeat'[w] = NoBeat
           /\ lastId' \in Nat => WorkerInv(w)'
<1>1. pc'[w] = point /\ held'[w] = NoClaim /\ heartbeat'[w] = NoBeat
  BY DEF BackTo, TypeOK
<1>2. lastId' \in Nat => WorkerInv(w)'
  BY <1>1 DEF WorkerInv, HeldStored, NothingHeld, HeldIdIssued, HeartbeatInPlace, CallsOnTime,
              ReloadSafe, ClaimRecorded, ClaimMatchesRow, HasClaim, Holding, NoClaim, NoBeat,
              Beat
<1>3. \A v \in Workers \ {w} : WorkerSame(v)
  BY DEF BackTo, WorkerSame, TypeOK
<1>4. /\ pc' \in [Workers -> Points]
      /\ since' \in [Workers -> Nat]
      /\ held' \in [Workers -> [job : JobIds \cup {-1}, id : Nat, attempts : Nat]]
      /\ outcome' \in [Workers -> {"none", "succeeded", "failed", "cancelled"}]
      /\ heartbeat' \in [Workers -> [phase : {"off", "waiting", "sending", "ended",
                                             "cancelled"}, at : Nat]]
  BY DEF BackTo, TypeOK, Points, NoClaim, NoBeat, Beat
<1> QED
  BY <1>1, <1>2, <1>3, <1>4

LEMMA GiveUpSteps ==
    ASSUME ClaimInv, NEW w \in Workers,
           NothingDue(w) \/ CallThrows(w) \/ ExitLoop(w)
    PROVE  ClaimInv'
<1>1. TypeOK /\ lastId \in Nat
  BY DEF ClaimInv, TypeOK, StoreTypeOK
<1>2. /\ UNCHANGED <<storeVars, now, host>> /\ pc[w] # "exited"
      /\ faults' \in 0 .. MaxFaults
  BY <1>1, TimeAssumption DEF NothingDue, CallThrows, ExitLoop, Fault, TypeOK
<1>3. PICK point \in {"idle", "exited"} : BackTo(w, point)
  BY DEF NothingDue, CallThrows, ExitLoop
<1>4. TypeOK'
  BY <1>1, <1>2, <1>3, BackToSafe DEF TypeOK, StoreTypeOK, storeVars
<1>5. lastId' \in Nat
  BY <1>1, <1>2 DEF storeVars
<1> QED
  BY <1>1, <1>2, <1>3, <1>4, <1>5, BackToSafe, QuietStep

LEMMA ReadClockStep ==
    ASSUME ClaimInv, NEW w \in Workers, ReadClock(w)
    PROVE  ClaimInv'
<1> USE DEF ReadClock, Goto
<1>1. TypeOK /\ WorkerInv(w)
  BY DEF ClaimInv
<1>2. TypeOK'
  BY <1>1 DEF TypeOK, StoreTypeOK, storeVars, Points
<1>3. pc'[w] = "claiming" /\ since'[w] = now /\ now' = now /\ lastId' = lastId
      /\ held'[w] = held[w] /\ heartbeat'[w] = heartbeat[w] /\ pc[w] = "idle"
  BY <1>1 DEF TypeOK, storeVars
<1>4. WorkerInv(w)'
  <2>1. CallsOnTime(w)'
    <3>1. now \in Nat /\ Lag \in Nat
      BY <1>1, WorkerTypes, TimeAssumption
    <3>2. now' <= now + Lag
      BY <1>3, <3>1
    <3>3. heartbeat'[w].phase # "sending"
      BY <1>1, <1>3 DEF WorkerInv, HeartbeatInPlace
    <3> QED
      BY <1>3, <3>1, <3>2, <3>3 DEF CallsOnTime
  <2>2. HeldStored(w)' /\ NothingHeld(w)' /\ HeldIdIssued(w)' /\ HeartbeatInPlace(w)'
    BY <1>1, <1>3 DEF WorkerInv, HeldStored, NothingHeld, HeldIdIssued, HeartbeatInPlace,
                      HasClaim, Holding
  <2>3. ReloadSafe(w)' /\ ClaimRecorded(w)' /\ ClaimMatchesRow(w)'
    BY <1>3 DEF ReloadSafe, ClaimRecorded, ClaimMatchesRow, HasClaim, Holding
  <2> QED
    BY <2>1, <2>2, <2>3 DEF WorkerInv
<1>5. \A v \in Workers \ {w} : WorkerSame(v)
  BY <1>1 DEF WorkerSame, TypeOK
<1> QED
  BY <1>2, <1>3, <1>4, <1>5, QuietStep

LEMMA ReloadClaimStep ==
    ASSUME ClaimInv, NEW w \in Workers, ReloadClaim(w)
    PROVE  ClaimInv'
<1> DEFINE j == held[w].job
<1>1. TypeOK /\ WorkerInv(w)
  BY DEF ClaimInv
<1>2. pc[w] = "reloading" /\ UNCHANGED <<storeVars, now, host, faults>>
  BY DEF ReloadClaim
<1>3. j \in JobIds /\ Exists(j) /\ ClaimIntact(w)
  BY <1>1, <1>2 DEF WorkerInv, HeldStored, ReloadSafe, HasClaim
<1>4. jobs[j] \in Record
  BY <1>1, <1>3, RowFacts DEF TypeOK
<1>5. AttemptCount(jobs[j]) \in Nat
  BY <1>4, AttemptCountType
<1>6. CopyOf(j).job = j /\ CopyOf(j).id = held[w].id
      /\ CopyOf(j) \in [job : JobIds \cup {-1}, id : Nat, attempts : Nat]
  <2>1. CopyOf(j).job = j /\ CopyOf(j).id = held[w].id /\ held[w].id \in Nat
    BY <1>1, <1>3, WorkerTypes DEF CopyOf, ClaimIntact
  <2> QED
    BY <2>1, <1>3, <1>5 DEF CopyOf
<1>7. held' = [held EXCEPT ![w] = CopyOf(j)]
  BY DEF ReloadClaim
<1> HIDE DEF j
<1>8. NextBeat \in Beats
  BY <1>1, NextBeatType
<1>9. TypeOK'
  <2>1. held' \in [Workers -> [job : JobIds \cup {-1}, id : Nat, attempts : Nat]]
    BY <1>1, <1>6, <1>7 DEF TypeOK
  <2>2. heartbeat' \in [Workers -> [phase : {"off", "waiting", "sending", "ended",
                                           "cancelled"}, at : Nat]]
    <3>1. EndedBeat \in Beats /\ NextBeat \in Beats /\ heartbeat \in [Workers -> Beats]
      BY <1>1, <1>8 DEF TypeOK, EndedBeat, Beat, Beats
    <3>2. \E b \in Beats : heartbeat' = [heartbeat EXCEPT ![w] = b]
      BY <3>1 DEF ReloadClaim
    <3>3. heartbeat' \in [Workers -> Beats]
      BY <3>1, <3>2
    <3> QED
      BY <3>3 DEF Beats
  <2>3. pc' \in [Workers -> Points] /\ since' \in [Workers -> Nat]
    <3>1. PICK point \in Points : Goto(w, point)
      BY DEF ReloadClaim, Points
    <3> QED
      BY <1>1, <3>1, GotoType
  <2>4. outcome' \in [Workers -> {"none", "succeeded", "failed", "cancelled"}]
    BY <1>1 DEF ReloadClaim, TypeOK
  <2> QED
    BY <1>1, <1>2, <2>1, <2>2, <2>3, <2>4 DEF TypeOK, StoreTypeOK, storeVars
<1>10. pc'[w] \in {"executing", "stopping"} /\ heartbeat'[w].phase # "sending"
       /\ held'[w].job = held[w].job /\ held'[w].id = held[w].id
  BY <1>1, <1>6, <1>7 DEF ReloadClaim, Goto, TypeOK, NextBeat, EndedBeat, Beat, j
<1>11. WorkerInv(w)'
  BY <1>1, <1>2, <1>10
     DEF WorkerInv, HeldStored, NothingHeld, HeldIdIssued, HeartbeatInPlace, CallsOnTime,
         ReloadSafe, ClaimRecorded, ClaimMatchesRow, HasClaim, Holding, Exists, storeVars
<1>12. \A v \in Workers \ {w} : WorkerSame(v)
  BY <1>1 DEF ReloadClaim, Goto, WorkerSame, TypeOK
<1> QED
  BY <1>2, <1>9, <1>11, <1>12, QuietStep

\* The steps of the heartbeat that stay inside the process.
LEMMA HeartbeatSteps ==
    ASSUME ClaimInv, NEW w \in Workers,
           ReadRenewalClock(w) \/ CancelWait(w) \/ RenewalThrows(w)
    PROVE  ClaimInv'
<1>1. TypeOK /\ WorkerInv(w)
  BY DEF ClaimInv
<1>2. UNCHANGED <<storeVars, now, host, pc, since, held>>
  BY DEF ReadRenewalClock, CancelWait, RenewalThrows
<1>3. /\ pc[w] \in {"executing", "stopping"}
      /\ \E b \in {EndedBeat, Beat("sending", now)} :
           heartbeat' = [heartbeat EXCEPT ![w] = b]
  BY <1>1 DEF ReadRenewalClock, CancelWait, RenewalThrows, WorkerInv, HeartbeatInPlace
<1>4. faults' \in 0 .. MaxFaults
  BY <1>1, TimeAssumption DEF ReadRenewalClock, CancelWait, RenewalThrows, Fault, TypeOK
<1>5. outcome' = outcome
  BY DEF ReadRenewalClock, CancelWait, RenewalThrows
<1>6. TypeOK'
  BY <1>1, <1>2, <1>3, <1>4, <1>5 DEF TypeOK, StoreTypeOK, storeVars, EndedBeat, Beat
<1>7. WorkerInv(w)'
  <2>1. heartbeat'[w] \in {EndedBeat, Beat("sending", now)}
    BY <1>1, <1>3 DEF TypeOK
  <2>2. CallsOnTime(w)'
    <3>1. now \in Nat /\ Lag \in Nat /\ now' = now
      BY <1>1, <1>2, WorkerTypes, TimeAssumption
    <3>2. heartbeat'[w].phase = "sending" => heartbeat'[w].at = now
      BY <2>1 DEF EndedBeat, Beat
    <3> QED
      BY <1>2, <1>3, <3>1, <3>2 DEF CallsOnTime
  <2> QED
    BY <1>1, <1>2, <1>3, <2>2
       DEF WorkerInv, HeldStored, NothingHeld, HeldIdIssued, HeartbeatInPlace,
           ReloadSafe, ClaimRecorded, ClaimMatchesRow, HasClaim, Holding, Exists, storeVars
<1>8. \A v \in Workers \ {w} : WorkerSame(v)
  BY <1>1, <1>2, <1>3 DEF WorkerSame, TypeOK
<1> QED
  BY <1>2, <1>3, <1>6, <1>7, <1>8, QuietStep

\* The steps that end an execution inside the process.
LEMMA EndSteps ==
    ASSUME ClaimInv, NEW w \in Workers, EndExecution(w) \/ StopLeaseRenewal(w)
    PROVE  ClaimInv'
<1>1. TypeOK /\ WorkerInv(w) /\ lastId \in Nat
  BY DEF ClaimInv, TypeOK, StoreTypeOK
<1>2. /\ UNCHANGED <<storeVars, now, host, faults>>
      /\ pc[w] \in {"executing", "stopping"}
  BY DEF EndExecution, StopLeaseRenewal
<1>3. CASE BackTo(w, "exited")
  <2>1. TypeOK'
    BY <1>1, <1>2, <1>3, BackToSafe DEF TypeOK, StoreTypeOK, storeVars
  <2>2. lastId' \in Nat
    BY <1>1, <1>2 DEF storeVars
  <2> QED
    BY <1>1, <1>2, <1>3, <2>1, <2>2, BackToSafe, QuietStep
<1>4. CASE ~BackTo(w, "exited")
  <2>1. /\ held' = held
        /\ \/ Goto(w, "stopping") /\ heartbeat' = heartbeat
           \/ /\ Goto(w, "completing")
              /\ heartbeat[w].phase # "sending"
              /\ \E b \in {heartbeat[w], Beat("cancelled", 0)} :
                   heartbeat' = [heartbeat EXCEPT ![w] = b]
    BY <1>4 DEF EndExecution, StopLeaseRenewal
  <2>2. outcome' \in [Workers -> {"none", "succeeded", "failed", "cancelled"}]
    BY <1>1, <1>4 DEF EndExecution, StopLeaseRenewal, TypeOK
  <2>3. TypeOK'
    <3>1. heartbeat' \in [Workers -> [phase : {"off", "waiting", "sending", "ended",
                                             "cancelled"}, at : Nat]]
      <4>1. heartbeat \in [Workers -> Beats] /\ Beat("cancelled", 0) \in Beats
        BY <1>1 DEF TypeOK, Beat, Beats
      <4>2. heartbeat' = heartbeat
              \/ \E b \in Beats : heartbeat' = [heartbeat EXCEPT ![w] = b]
        BY <2>1, <4>1
      <4>3. heartbeat' \in [Workers -> Beats]
        BY <4>1, <4>2
      <4> QED
        BY <4>3 DEF Beats
    <3>2. pc' \in [Workers -> Points] /\ since' \in [Workers -> Nat]
      <4>1. PICK point \in Points : Goto(w, point)
        BY <2>1 DEF Points
      <4> QED
        BY <1>1, <4>1, GotoType
    <3> QED
      BY <1>1, <1>2, <2>1, <2>2, <3>1, <3>2 DEF TypeOK, StoreTypeOK, storeVars
  <2>4. WorkerInv(w)'
    <3>1. /\ pc'[w] \in {"stopping", "completing"}
          /\ heartbeat'[w].phase = "sending"
               => pc'[w] = "stopping" /\ heartbeat'[w] = heartbeat[w]
      BY <1>1, <2>1 DEF TypeOK, Goto, Beat
    <3> QED
      BY <1>1, <1>2, <2>1, <3>1
         DEF WorkerInv, HeldStored, NothingHeld, HeldIdIssued, HeartbeatInPlace, CallsOnTime,
             ReloadSafe, ClaimRecorded, ClaimMatchesRow, HasClaim, Holding, Exists, storeVars
  <2>5. \A v \in Workers \ {w} : WorkerSame(v)
    BY <1>1, <2>1 DEF WorkerSame, TypeOK, Goto
  <2> QED
    BY <1>2, <2>3, <2>4, <2>5, QuietStep
<1> QED
  BY <1>3, <1>4

\* A step that writes the row of job j keeps the invariant if it keeps it for the
\* workers in S, which take the step, and is harmless to the others.
LEMMA WritingStep ==
    ASSUME ClaimInv, NEW j \in JobIds, NEW r \in Record, NEW S,
           jobs' = [jobs EXCEPT ![j] = r],
           lastId' \in Nat, lastId' >= lastId, r.currentStateChangeId <= lastId',
           UNCHANGED <<now, host>>, TypeOK', DownIsExited',
           \A v \in Workers \cap S : WorkerInv(v)',
           \A v \in Workers \ S : WorkerSame(v) /\ Harmless(v, j, r)
    PROVE  ClaimInv'
<1>1. TypeOK /\ StoreTypeOK /\ lastId \in Nat
  BY DEF ClaimInv, TypeOK, StoreTypeOK
<1>2. RowIdsIssued'
  <2>1. SUFFICES ASSUME NEW k \in JobIds, Exists(k)'
                 PROVE  jobs'[k].currentStateChangeId <= lastId'
    BY DEF RowIdsIssued, Stored
  <2>2. CASE k = j
    BY <1>1, <2>2 DEF StoreTypeOK
  <2>3. CASE k # j
    <3>1. jobs'[k] = jobs[k] /\ Exists(k)
      BY <1>1, <2>1, <2>3 DEF StoreTypeOK, Exists
    <3>2. jobs[k].currentStateChangeId \in Nat
      BY <1>1, <3>1, RowFacts DEF Record, JobRecords
    <3>3. jobs[k].currentStateChangeId <= lastId
      BY <3>1 DEF ClaimInv, RowIdsIssued, Stored
    <3> QED
      BY <1>1, <3>1, <3>2, <3>3
  <2> QED
    BY <2>2, <2>3
<1>3. ASSUME NEW v \in Workers \ S PROVE WorkerInv(v)'
  <2>1. held[v].id \in Nat /\ held[v].id <= lastId
    BY <1>1, WorkerTypes DEF ClaimInv, WorkerInv, HeldIdIssued
  <2>2. HeldIdIssued(v)'
    BY <1>1, <2>1, <1>3 DEF WorkerSame, HeldIdIssued
  <2> QED
    BY <1>1, <2>2, WorkerUndisturbedByWrite DEF ClaimInv
<1> QED
  BY <1>2, <1>3 DEF ClaimInv

\* Two workers that hold the same job do not both hold its current claim.
LEMMA OneCurrentClaim ==
    ASSUME ClaimInv, NEW v \in Workers, NEW w \in Workers, v # w,
           pc[v] \in HasClaim, pc[w] \in HasClaim, held[v].job = held[w].job, Owns(w)
    PROVE  /\ pc[v] # "reloading"
           /\ jobs[held[v].job].currentStateChangeId # held[v].id
           /\ jobs[held[v].job].claimedBy = w
<1>1. jobs[held[w].job].claimedBy = w /\ jobs[held[w].job].status = "Running"
  BY DEF ClaimInv, WorkerInv, ClaimMatchesRow, Owns, IsCurrentClaim
<1> QED
  BY <1>1 DEF ClaimInv, WorkerInv, ClaimMatchesRow, ReloadSafe, ClaimIntact

LEMMA EnqueueJobStep ==
    ASSUME ClaimInv, NEW j \in JobIds, EnqueueJob(j)
    PROVE  ClaimInv'
<1>1. TypeOK /\ StoreTypeOK /\ lastId \in Nat
  BY DEF ClaimInv, TypeOK, StoreTypeOK
<1>2. PICK delay \in Nat : Enqueue(j, delay)
  BY TimeAssumption DEF EnqueueJob
<1>3. UNCHANGED <<now, host, pc, since, held, outcome, heartbeat, faults>>
  BY DEF EnqueueJob, workerVars
<1>4. ~Exists(j) /\ lastId' \in Nat /\ lastId' > lastId
  BY <1>1, <1>2, EnqueueStep
<1>5. PICK r \in Record : jobs' = [jobs EXCEPT ![j] = r] /\ r.currentStateChangeId = lastId'
  BY <1>1, <1>2, EnqueueStep
<1>6. TypeOK' /\ DownIsExited'
  BY <1>1, <1>3, <1>4, <1>5 DEF TypeOK, StoreTypeOK, Record, ClaimInv, DownIsExited
<1>7. ASSUME NEW v \in Workers PROVE WorkerSame(v) /\ Harmless(v, j, r)
  BY <1>3, <1>4 DEF WorkerSame, Harmless, ClaimInv, WorkerInv, HeldStored
<1> QED
  <2>1. lastId' >= lastId /\ r.currentStateChangeId <= lastId'
    BY <1>1, <1>4, <1>5
  <2>2. \A v \in Workers \cap {} : WorkerInv(v)'
    OBVIOUS
  <2> QED
    BY <1>3, <1>4, <1>5, <1>6, <1>7, <2>1, <2>2, WritingStep

LEMMA RenewalStep ==
    ASSUME ClaimInv, NEW w \in Workers, Renew(w)
    PROVE  ClaimInv'
<1> DEFINE j == held[w].job
           at == heartbeat[w].at
<1>1. TypeOK /\ StoreTypeOK /\ lastId \in Nat /\ WorkerInv(w)
  BY DEF ClaimInv, TypeOK, StoreTypeOK
<1>2. /\ pc[w] \in {"executing", "stopping"} /\ pc[w] \in HasClaim
      /\ j \in JobIds /\ at \in Nat /\ at + LeaseDuration \in Nat
  <2>1. pc[w] \in {"executing", "stopping"}
    BY <1>1 DEF Renew, WorkerInv, HeartbeatInPlace
  <2>2. pc[w] \in HasClaim /\ j \in JobIds
    BY <1>1, <2>1 DEF WorkerInv, HeldStored, HasClaim, Holding
  <2>3. at \in Nat /\ LeaseDuration \in Nat
    BY <1>1, WorkerTypes, TimeAssumption
  <2> QED
    BY <2>1, <2>2, <2>3
<1>3. UNCHANGED <<now, host, pc, since, held, outcome, faults>>
  BY DEF Renew
<1>4. heartbeat' \in [Workers -> Beats] /\ heartbeat'[w].phase # "sending"
      /\ \A v \in Workers \ {w} : heartbeat'[v] = heartbeat[v]
  <2>1. heartbeat \in [Workers -> Beats]
    BY <1>1 DEF TypeOK, Beats
  <2>2. \E b \in {NextBeat, EndedBeat} : heartbeat' = [heartbeat EXCEPT ![w] = b]
    BY DEF Renew
  <2>3. \A b \in {NextBeat, EndedBeat} : b \in Beats /\ b.phase # "sending"
    BY <1>1, NextBeatType DEF NextBeat, EndedBeat, Beat, Beats
  <2> QED
    BY <2>1, <2>2, <2>3
<1>5. RenewLease(j, held[w].id, at, at + LeaseDuration)
  BY DEF Renew
<1>6. CASE UNCHANGED storeVars
  <2>1. TypeOK'
    BY <1>1, <1>3, <1>4, <1>6 DEF TypeOK, StoreTypeOK, storeVars, Beats
  <2>2. ASSUME NEW v \in Workers PROVE WorkerSame(v)
    BY <1>3, <1>4 DEF WorkerSame
  <2>3. WorkerInv(w)'
    BY <1>1, <1>3, <1>6, <2>2, WorkerUndisturbed
  <2> QED
    BY <1>2, <1>3, <1>6, <2>1, <2>2, <2>3, QuietStep
<1>7. CASE ~UNCHANGED storeVars
  <2> DEFINE r == [jobs[j] EXCEPT !.leaseExpiresAt = at + LeaseDuration]
  <2>1. /\ IsCurrentClaim(j, held[w].id) /\ lastId' = lastId
        /\ jobs[j] \in Record /\ r \in Record
        /\ jobs' = [jobs EXCEPT ![j] = r]
    BY <1>1, <1>2, <1>5, <1>7, RenewStep, ZenonT(60)
  <2>2. /\ r.status = "Running" /\ r.history = jobs[j].history
        /\ r.currentStateChangeId = held[w].id /\ jobs[j].currentStateChangeId = held[w].id
        /\ r.claimedBy = jobs[j].claimedBy
    BY <2>1 DEF Record, JobRecords, IsCurrentClaim
  <2> HIDE DEF r
  <2>3. TypeOK' /\ DownIsExited'
    BY <1>1, <1>3, <1>4, <2>1 DEF TypeOK, StoreTypeOK, Record, Beats, ClaimInv, DownIsExited
  <2>4. r.claimedBy = w
    BY <1>1, <1>2, <2>1, <2>2 DEF WorkerInv, ClaimMatchesRow, IsCurrentClaim
  <2>5. ASSUME NEW v \in Workers PROVE WorkerSame(v)
    BY <1>3, <1>4 DEF WorkerSame
  <2>6. ASSUME NEW v \in Workers PROVE Harmless(v, j, r)
    <3>1. CASE v = w
      BY <1>2, <2>2, <2>4, <3>1 DEF Harmless
    <3>2. CASE v # w
      BY <1>2, <2>1, <2>2, <2>4, <3>2, OneCurrentClaim DEF Harmless, Owns
    <3> QED
      BY <3>1, <3>2
  <2>7. lastId' \in Nat /\ lastId' >= lastId /\ r.currentStateChangeId <= lastId'
    BY <1>1, <2>1, <2>2 DEF WorkerInv, HeldIdIssued
  <2>8. \A v \in Workers \cap {} : WorkerInv(v)'
    OBVIOUS
  <2> QED
    BY <1>2, <1>3, <2>1, <2>3, <2>5, <2>6, <2>7, <2>8, WritingStep
<1> QED
  BY <1>6, <1>7

LEMMA CompleteStep ==
    ASSUME ClaimInv, NEW w \in Workers, Complete(w)
    PROVE  ClaimInv'
<1> DEFINE j == held[w].job
<1>1. TypeOK /\ StoreTypeOK /\ lastId \in Nat /\ now \in Nat /\ WorkerInv(w)
  BY DEF ClaimInv, TypeOK, StoreTypeOK
<1>2. /\ pc[w] = "completing" /\ pc[w] \in HasClaim /\ j \in JobIds /\ since[w] \in Nat
      /\ BackTo(w, "idle")
      /\ UNCHANGED <<now, host, faults>>
      /\ CompleteExecution(held[w], outcome[w] = "succeeded", since[w])
  <2>1. pc[w] = "completing" /\ pc[w] \in HasClaim
    BY DEF Complete, HasClaim, Holding
  <2> QED
    BY <1>1, <2>1, WorkerTypes DEF Complete, WorkerInv, HeldStored
<1>3. /\ \A v \in Workers \ {w} : WorkerSame(v)
      /\ lastId' \in Nat => WorkerInv(w)'
  BY <1>1, <1>2, BackToSafe
<1>4. StoreTypeOK' => TypeOK'
  BY <1>1, <1>2, BackToSafe DEF TypeOK
<1>5. CASE UNCHANGED storeVars
  <2>1. TypeOK' /\ lastId' \in Nat
    BY <1>1, <1>2, <1>4, <1>5 DEF StoreTypeOK, storeVars
  <2> QED
    BY <1>2, <1>3, <1>5, <2>1, QuietStep
<1>6. CASE ~UNCHANGED storeVars
  <2>1. /\ IsCurrentClaim(j, held[w].id) /\ lastId' \in Nat /\ lastId' > lastId
        /\ \E r : /\ jobs' = [jobs EXCEPT ![j] = r]
                  /\ Released(r, jobs[j], lastId + 1, lastId')
    BY <1>1, <1>2, <1>6, SettleStep
  <2>2. PICK r : /\ jobs' = [jobs EXCEPT ![j] = r]
                 /\ Released(r, jobs[j], lastId + 1, lastId')
    BY <2>1
  <2>3. /\ r \in Record /\ r.status # "Running" /\ r.currentStateChangeId <= lastId'
        /\ \A id, x : WroteClaim(jobs[j].history, id, x) => WroteClaim(r.history, id, x)
    BY <1>1, <2>1, <2>2 DEF Released, Pending, Terminal
  <2>4. TypeOK' /\ DownIsExited'
    <3>1. StoreTypeOK'
      BY <1>1, <1>2, <2>1, <2>2, <2>3 DEF StoreTypeOK, Record
    <3>2. host # "down"
      BY <1>2 DEF ClaimInv, DownIsExited, AllExited
    <3> QED
      BY <1>2, <1>4, <3>1, <3>2 DEF DownIsExited
  <2>5. ASSUME NEW v \in Workers \ {w} PROVE Harmless(v, j, r)
    BY <1>2, <2>1, <2>3, OneCurrentClaim DEF Harmless, Owns
  <2>6. lastId' >= lastId
    BY <1>1, <2>1
  <2> QED
    BY <1>2, <1>3, <2>1, <2>2, <2>3, <2>4, <2>5, <2>6, WritingStep
<1> QED
  BY <1>5, <1>6

\* The step the assumption is for: a claim that is to be read back is younger than
\* its lease, so no other worker finds the job due.
LEMMA CommitClaimStep ==
    ASSUME Lag < LeaseDuration, ClaimInv, NEW w \in Workers, CommitClaim(w)
    PROVE  ClaimInv'
<1>1. TypeOK /\ StoreTypeOK /\ lastId \in Nat /\ now \in Nat /\ WorkerInv(w)
  BY DEF ClaimInv, TypeOK, StoreTypeOK
<1>2. PICK j \in JobIds :
        /\ TryClaimNextDueJob(j, w, since[w], since[w] + LeaseDuration)
        /\ held' = [held EXCEPT ![w] = [job |-> j, id |-> lastId', attempts |-> 0]]
  BY DEF CommitClaim
<1>3. /\ pc[w] = "claiming" /\ pc' = [pc EXCEPT ![w] = "reloading"]
      /\ UNCHANGED <<now, host, since, outcome, heartbeat, faults>>
  BY DEF CommitClaim
<1>4. since[w] \in Nat /\ since[w] + LeaseDuration \in Nat
      /\ since[w] <= now /\ now <= since[w] + Lag
  <2>1. since[w] \in Nat /\ LeaseDuration \in Nat
    BY <1>1, WorkerTypes, TimeAssumption
  <2> QED
    BY <1>1, <1>3, <2>1 DEF WorkerInv, CallsOnTime
<1>5. /\ jobs[j] \in Record /\ IsDue(jobs[j], since[w])
      /\ lastId' \in Nat /\ lastId' > lastId
      /\ \E r : /\ jobs' = [jobs EXCEPT ![j] = r]
                /\ Acquired(r, jobs[j], w, lastId', since[w] + LeaseDuration)
  BY <1>1, <1>2, <1>4, ClaimStep
<1>6. PICK r : /\ jobs' = [jobs EXCEPT ![j] = r]
               /\ Acquired(r, jobs[j], w, lastId', since[w] + LeaseDuration)
  BY <1>5
<1>7. r \in Record /\ r.currentStateChangeId <= lastId' /\ lastId' >= lastId
  BY <1>1, <1>5, <1>6 DEF Acquired
<1>8. TypeOK' /\ DownIsExited'
  <2>1. StoreTypeOK'
    BY <1>1, <1>3, <1>5, <1>6, <1>7 DEF StoreTypeOK, Record
  <2>2. pc' \in [Workers -> Points]
    BY <1>1, <1>3 DEF TypeOK, Points
  <2>3. held' \in [Workers -> [job : JobIds \cup {-1}, id : Nat, attempts : Nat]]
    BY <1>1, <1>2, <1>5 DEF TypeOK
  <2>4. host # "down"
    BY <1>3 DEF ClaimInv, DownIsExited, AllExited
  <2> QED
    BY <1>1, <1>3, <2>1, <2>2, <2>3, <2>4 DEF TypeOK, DownIsExited
<1>9. WorkerInv(w)'
  <2>1. /\ pc'[w] = "reloading" /\ pc'[w] \in HasClaim
        /\ held'[w].job = j /\ held'[w].id = lastId' /\ jobs'[j] = r
        /\ since'[w] = since[w] /\ heartbeat'[w] = heartbeat[w]
    BY <1>1, <1>2, <1>3, <1>6 DEF TypeOK, StoreTypeOK, HasClaim
  <2>2. HeldStored(w)' /\ NothingHeld(w)' /\ HeldIdIssued(w)'
    <3>1. r # NoJob
      BY <1>7 DEF Record, JobRecords, NoJob, JobStatus
    <3> QED
      BY <1>5, <2>1, <3>1 DEF HeldStored, NothingHeld, HeldIdIssued, Exists
  <2>3. HeartbeatInPlace(w)' /\ CallsOnTime(w)'
    BY <1>1, <1>3, <1>4, <2>1 DEF WorkerInv, HeartbeatInPlace, CallsOnTime
  <2>4. ReloadSafe(w)' /\ ClaimRecorded(w)' /\ ClaimMatchesRow(w)'
    BY <1>6, <2>1 DEF Acquired, ReloadSafe, ClaimIntact, ClaimRecorded, ClaimMatchesRow
  <2> QED
    BY <2>2, <2>3, <2>4 DEF WorkerInv
<1>10. ASSUME NEW v \in Workers \ {w} PROVE WorkerSame(v) /\ Harmless(v, j, r)
  <2>1. WorkerSame(v)
    BY <1>1, <1>2, <1>3 DEF WorkerSame, TypeOK
  <2>2. SUFFICES ASSUME pc[v] \in HasClaim, held[v].job = j
                 PROVE  Harmless(v, j, r)
    BY <2>1 DEF Harmless
  <2>3. pc[v] # "reloading"
    <3>1. SUFFICES ASSUME pc[v] = "reloading" PROVE FALSE
      OBVIOUS
    <3>2. /\ jobs[j].status = "Running"
          /\ jobs[j].leaseExpiresAt = since[v] + LeaseDuration
          /\ now <= since[v] + Lag
      BY <2>2, <3>1 DEF ClaimInv, WorkerInv, ReloadSafe, ClaimIntact, CallsOnTime
    <3>3. jobs[j].leaseExpiresAt <= since[w]
      BY <1>5, <3>2 DEF IsDue, Pending
    <3>4. since[v] \in Nat /\ LeaseDuration \in Nat /\ Lag \in Nat
      BY <1>1, WorkerTypes, TimeAssumption
    <3> QED
      BY <1>1, <1>4, <3>2, <3>3, <3>4
  <2>4. r.currentStateChangeId # held[v].id /\ r.claimedBy # v
    <3>1. held[v].id \in Nat /\ held[v].id <= lastId
      BY <1>1, WorkerTypes DEF ClaimInv, WorkerInv, HeldIdIssued
    <3> QED
      BY <1>1, <1>5, <1>6, <1>10, <3>1 DEF Acquired
  <2> QED
    BY <1>6, <2>3, <2>4 DEF Harmless, Acquired
<1> QED
  BY <1>3, <1>5, <1>6, <1>7, <1>8, <1>9, <1>10, WritingStep

\* No call outlives Lag: the clock waits for it.
LEMMA TickStep ==
    ASSUME ClaimInv, Tick
    PROVE  ClaimInv'
<1>1. TypeOK /\ now \in Nat /\ now' = now + 1
  BY DEF ClaimInv, TypeOK, StoreTypeOK, Tick
<1>2. UNCHANGED <<jobs, lastId, host, pc, since, held, outcome, heartbeat, faults>>
  BY DEF Tick, storeVars, workerVars
<1>3. TypeOK' /\ DownIsExited' /\ RowIdsIssued'
  BY <1>1, <1>2 DEF TypeOK, StoreTypeOK, ClaimInv, DownIsExited, RowIdsIssued, Stored, Exists
<1>4. ASSUME NEW w \in Workers PROVE WorkerInv(w)'
  <2>1. CallsOnTime(w)'
    <3>1. since[w] \in Nat /\ Lag \in Nat
      BY <1>1, WorkerTypes, TimeAssumption
    <3>2. pc[w] \in {"claiming", "reloading"} => since[w] <= now /\ now < since[w] + Lag
      BY DEF Tick, InTime, ClaimInv, WorkerInv, CallsOnTime
    <3>3. heartbeat[w].phase = "sending"
            => heartbeat[w].at <= now /\ now < heartbeat[w].at + Lag
      BY DEF Tick, InTime, ClaimInv, WorkerInv, CallsOnTime
    <3>4. heartbeat[w].at \in Nat
      BY <1>1, WorkerTypes
    <3> QED
      BY <1>1, <1>2, <3>1, <3>2, <3>3, <3>4 DEF CallsOnTime
  <2>2. HeldStored(w)' /\ NothingHeld(w)' /\ HeldIdIssued(w)' /\ HeartbeatInPlace(w)'
    BY <1>2 DEF ClaimInv, WorkerInv, HeldStored, NothingHeld, HeldIdIssued,
                HeartbeatInPlace, Exists
  <2>3. ReloadSafe(w)' /\ ClaimRecorded(w)' /\ ClaimMatchesRow(w)'
    BY <1>2 DEF ClaimInv, WorkerInv, ReloadSafe, ClaimIntact, ClaimRecorded, ClaimMatchesRow
  <2> QED
    BY <2>1, <2>2, <2>3 DEF WorkerInv
<1> QED
  BY <1>3, <1>4 DEF ClaimInv

\* The process stops, dies or starts.
LEMMA HostSteps ==
    ASSUME ClaimInv, RequestStop \/ StopHost \/ Crash \/ Start
    PROVE  ClaimInv'
<1>1. TypeOK /\ lastId \in Nat
  BY DEF ClaimInv, TypeOK, StoreTypeOK
<1>2. UNCHANGED <<jobs, lastId, now>> /\ faults' \in 0 .. MaxFaults
  BY <1>1, TimeAssumption DEF RequestStop, StopHost, Crash, Start, Fault, storeVars, TypeOK
<1>3. RowIdsIssued'
  BY <1>2 DEF ClaimInv, RowIdsIssued, Stored, Exists
<1>4. CASE RequestStop \/ StopHost
  <2>1. UNCHANGED workerVars /\ host' \in {"stopping", "down"}
        /\ (host' = "down" => pc = AllExited)
    BY <1>4 DEF RequestStop, StopHost
  <2>2. TypeOK' /\ DownIsExited'
    BY <1>1, <1>2, <2>1 DEF TypeOK, StoreTypeOK, DownIsExited, AllExited, workerVars
  <2>3. ASSUME NEW w \in Workers PROVE WorkerInv(w)'
    BY <1>2, <2>1, WorkerUndisturbed DEF ClaimInv, WorkerSame, workerVars, storeVars
  <2> QED
    BY <1>3, <2>2, <2>3 DEF ClaimInv
<1>5. CASE Crash
  <2>1. TypeOK' /\ DownIsExited'
    BY <1>1, <1>2, <1>5 DEF Crash, TypeOK, StoreTypeOK, DownIsExited, AllExited, Points,
                            NoClaim, NoBeat, Beat
  <2>2. ASSUME NEW w \in Workers PROVE WorkerInv(w)'
    <3>1. pc'[w] = "exited" /\ held'[w] = NoClaim /\ heartbeat'[w] = NoBeat
      BY <1>5 DEF Crash, AllExited
    <3> QED
      BY <1>1, <1>2, <3>1
         DEF WorkerInv, HeldStored, NothingHeld, HeldIdIssued, HeartbeatInPlace, CallsOnTime,
             ReloadSafe, ClaimRecorded, ClaimMatchesRow, HasClaim, Holding, NoClaim, NoBeat,
             Beat
  <2> QED
    BY <1>3, <2>1, <2>2 DEF ClaimInv
<1>6. CASE Start
  <2>1. host = "down" /\ pc = AllExited /\ host' = "up"
        /\ UNCHANGED <<since, held, outcome, heartbeat, faults>>
        /\ pc' = [w \in Workers |-> "idle"]
    BY <1>6 DEF Start, ClaimInv, DownIsExited
  <2>2. TypeOK' /\ DownIsExited'
    BY <1>1, <1>2, <2>1 DEF TypeOK, StoreTypeOK, DownIsExited, Points
  <2>3. ASSUME NEW w \in Workers PROVE WorkerInv(w)'
    <3>1. pc[w] = "exited" /\ pc'[w] = "idle" /\ WorkerInv(w)
      BY <2>1 DEF AllExited, ClaimInv
    <3> QED
      BY <1>2, <2>1, <3>1
         DEF WorkerInv, HeldStored, NothingHeld, HeldIdIssued, HeartbeatInPlace, CallsOnTime,
             ReloadSafe, ClaimRecorded, ClaimMatchesRow, HasClaim, Holding
  <2> QED
    BY <1>3, <2>2, <2>3 DEF ClaimInv
<1> QED
  BY <1>4, <1>5, <1>6

LEMMA StutterStep ==
    ASSUME ClaimInv, UNCHANGED vars PROVE ClaimInv'
<1>1. UNCHANGED <<jobs, lastId, now, host, pc, since, held, outcome, heartbeat, faults>>
  BY DEF vars, workerVars
<1>2. TypeOK' /\ DownIsExited' /\ RowIdsIssued'
  BY <1>1 DEF ClaimInv, TypeOK, StoreTypeOK, DownIsExited, RowIdsIssued, Stored, Exists
<1>3. ASSUME NEW w \in Workers PROVE WorkerInv(w)'
  BY <1>1, WorkerUndisturbed DEF ClaimInv, WorkerSame, storeVars
<1> QED
  BY <1>2, <1>3 DEF ClaimInv

LEMMA NextClaimInv ==
    ASSUME Lag < LeaseDuration, ClaimInv, [Next]_vars
    PROVE  ClaimInv'
<1>1. ASSUME NEW w \in Workers, Work(w) PROVE ClaimInv'
  BY <1>1, ReadClockStep, GiveUpSteps, CommitClaimStep, ReloadClaimStep, EndSteps,
     CompleteStep DEF Work
<1>2. ASSUME NEW w \in Workers, KeepAlive(w) PROVE ClaimInv'
  BY <1>2, HeartbeatSteps, RenewalStep DEF KeepAlive
<1>3. ASSUME NEW w \in Workers, CallThrows(w) \/ RenewalThrows(w) PROVE ClaimInv'
  BY <1>3, GiveUpSteps, HeartbeatSteps
<1>4. ASSUME NEW j \in JobIds, EnqueueJob(j) PROVE ClaimInv'
  BY <1>4, EnqueueJobStep
<1>5. CASE RequestStop \/ StopHost \/ Crash \/ Start
  BY <1>5, HostSteps
<1>6. CASE Tick
  BY <1>6, TickStep
<1>7. CASE UNCHANGED vars
  BY <1>7, StutterStep
<1> QED
  BY <1>1, <1>2, <1>3, <1>4, <1>5, <1>6, <1>7 DEF Next

-----------------------------------------------------------------------------
(* The theorems. *)

\* The change ids, the worker columns of the rows and the workers' own beliefs agree
\* in every reachable state, for any number of workers and jobs and any retry policy,
\* as long as a claim with its reload takes less time than the lease it writes.
THEOREM ClaimsConsistent ==
    ASSUME Lag < LeaseDuration PROVE Spec => []ClaimInv
<1>1. Init => ClaimInv
  BY InitClaimInv
<1>2. ClaimInv /\ [Next]_vars => ClaimInv'
  BY NextClaimInv
<1> QED
  BY <1>1, <1>2, PTL DEF Spec

\* A worker executes, renews and completes only under a claim it wrote itself
\* (README.md:10 and :28), for every interleaving, crash and stop.  Without the
\* assumption it fails: run PoolSlowReload.
THEOREM ClaimsAreOwn ==
    ASSUME Lag < LeaseDuration PROVE Spec => []ExecutesOwnClaim
<1>1. ClaimInv => ExecutesOwnClaim
  BY DEF ClaimInv, WorkerInv, ClaimRecorded, ExecutesOwnClaim, HasClaim
<1> QED
  BY <1>1, ClaimsConsistent, PTL

-----------------------------------------------------------------------------
(* WorkerPool implements JobOwnership: every step of the pool is a step of        *)
(* JobOwnership or changes nothing there.                                       *)

\* The refinement mapping of the INSTANCE in WorkerPool.
Stage == [j \in JobIds |-> StageAt(jobs[j], now)]
Owner == [j \in JobIds |-> OwnerOf(jobs[j])]
Claim == [w \in Workers |-> held[w].job]

-----------------------------------------------------------------------------
(* The mapping of one row and of one worker. *)

LEMMA RowStage ==
    ASSUME NEW r \in Record, NEW at \in Nat
    PROVE  /\ r.status \in Pending => StageAt(r, at) = "waiting"
           /\ r.status \in Terminal => StageAt(r, at) = "settled"
           /\ r.status = "Running" /\ r.leaseExpiresAt > at => StageAt(r, at) = "running"
           /\ r.status = "Running" /\ ~(r.leaseExpiresAt > at) => StageAt(r, at) = "lapsed"
           /\ OwnerOf(r) = r.claimedBy
<1>1. r # NoJob /\ r.status # "Absent"
  BY DEF Record, JobRecords, NoJob, JobStatus
<1> QED
  BY <1>1 DEF StageAt, OwnerOf, Pending, Terminal

LEMMA NoRowStage ==
    ASSUME NEW at \in Nat
    PROVE  StageAt(NoJob, at) = "absent" /\ OwnerOf(NoJob) = NoWorker
BY DEF StageAt, OwnerOf, NoJob, Pending, Terminal

\* A step that writes one row changes the stage and the owner of that job only.
LEMMA OneRowWritten ==
    ASSUME StoreTypeOK, NEW j \in JobIds, NEW r, jobs' = [jobs EXCEPT ![j] = r],
           UNCHANGED now
    PROVE  /\ Stage' = [Stage EXCEPT ![j] = StageAt(r, now)]
           /\ Owner' = [Owner EXCEPT ![j] = OwnerOf(r)]
BY DEF StoreTypeOK, Stage, Owner

\* A worker that goes back to its loop gives its job up, and nobody else does.
LEMMA OneWorkerLetsGo ==
    ASSUME TypeOK, NEW w \in Workers, NEW point, BackTo(w, point)
    PROVE  Claim' = [Claim EXCEPT ![w] = -1]
BY DEF TypeOK, BackTo, Claim, NoClaim

LEMMA GivingUp ==
    ASSUME NEW w \in Workers, Claim' = [Claim EXCEPT ![w] = -1],
           Stage' = Stage, Owner' = Owner
    PROVE  Ownership!Next
<1> DEFINE W == {w}
<1>1. Claim' = [v \in Workers |-> IF v \in W THEN -1 ELSE Claim[v]]
  BY DEF Claim
<1>2. W \in SUBSET Workers
  OBVIOUS
<1>3. \E X \in SUBSET Workers :
        Claim' = [v \in Workers |-> IF v \in X THEN -1 ELSE Claim[v]]
  BY <1>1, <1>2
<1>4. Ownership!GiveUp
  BY <1>3 DEF Ownership!GiveUp, Stage, Owner, Claim
<1> QED
  BY <1>4 DEF Ownership!Next

-----------------------------------------------------------------------------
(* The steps that matter to JobOwnership. *)

LEMMA EnqueueSubmits ==
    ASSUME ClaimInv, NEW j \in JobIds, EnqueueJob(j)
    PROVE  Ownership!Next
<1>1. TypeOK /\ StoreTypeOK /\ now \in Nat
  BY DEF ClaimInv, TypeOK, StoreTypeOK
<1>2. PICK delay \in Nat : Enqueue(j, delay)
  BY TimeAssumption DEF EnqueueJob
<1>3. UNCHANGED <<now, held>>
  BY DEF EnqueueJob, workerVars
<1>4. ~Exists(j)
  BY <1>1, <1>2, EnqueueStep
<1>5. PICK r \in Record : /\ jobs' = [jobs EXCEPT ![j] = r]
                          /\ r.status \in Pending /\ r.claimedBy = NoWorker
  BY <1>1, <1>2, EnqueueStep
<1>6. StageAt(r, now) = "waiting" /\ OwnerOf(r) = NoWorker
  BY <1>1, <1>5, RowStage
<1>7. Stage[j] = "absent" /\ Owner[j] = NoWorker
  BY <1>1, <1>4, NoRowStage DEF Exists, Stage, Owner
<1>8. Stage' = [Stage EXCEPT ![j] = "waiting"] /\ Owner' = [Owner EXCEPT ![j] = NoWorker]
  BY <1>1, <1>3, <1>5, <1>6, OneRowWritten, ZenonT(60)
<1>9. Owner' = Owner /\ Claim' = Claim
  BY <1>3, <1>7, <1>8 DEF Owner, Claim
<1>10. Ownership!Submit(j)
  BY <1>7, <1>8, <1>9 DEF Ownership!Submit, Stage, Owner, Claim
<1> QED
  BY <1>10 DEF Ownership!Next

\* The lease just written lies ahead: the clock read for it is at most Lag old.
LEMMA CommitGrants ==
    ASSUME Lag < LeaseDuration, ClaimInv, NEW w \in Workers, CommitClaim(w)
    PROVE  Ownership!Next
<1>1. TypeOK /\ StoreTypeOK /\ now \in Nat /\ WorkerInv(w)
  BY DEF ClaimInv, TypeOK, StoreTypeOK
<1>2. PICK j \in JobIds :
        /\ TryClaimNextDueJob(j, w, since[w], since[w] + LeaseDuration)
        /\ held' = [held EXCEPT ![w] = [job |-> j, id |-> lastId', attempts |-> 0]]
  BY DEF CommitClaim
<1>3. pc[w] = "claiming" /\ UNCHANGED now
  BY DEF CommitClaim
<1>4. /\ since[w] \in Nat /\ since[w] + LeaseDuration \in Nat
      /\ since[w] <= now /\ since[w] + LeaseDuration > now
  <2>1. since[w] \in Nat /\ LeaseDuration \in Nat /\ Lag \in Nat
    BY <1>1, WorkerTypes, TimeAssumption
  <2>2. since[w] <= now /\ now <= since[w] + Lag
    BY <1>1, <1>3 DEF WorkerInv, CallsOnTime
  <2> QED
    BY <1>1, <2>1, <2>2
<1>5. /\ jobs[j] \in Record /\ IsDue(jobs[j], since[w])
      /\ \E r : /\ jobs' = [jobs EXCEPT ![j] = r]
                /\ Acquired(r, jobs[j], w, lastId', since[w] + LeaseDuration)
  BY <1>1, <1>2, <1>4, ClaimStep
<1>6. PICK r : /\ jobs' = [jobs EXCEPT ![j] = r]
               /\ Acquired(r, jobs[j], w, lastId', since[w] + LeaseDuration)
  BY <1>5
<1>7. StageAt(r, now) = "running" /\ OwnerOf(r) = w
  BY <1>1, <1>4, <1>6, RowStage DEF Acquired
<1>8. Stage[j] \in {"waiting", "lapsed"}
  <2>1. CASE jobs[j].status \in Pending
    <3>1. StageAt(jobs[j], now) = "waiting"
      BY <1>1, <1>5, <2>1, RowStage
    <3> QED
      BY <3>1 DEF Stage
  <2>2. CASE jobs[j].status \notin Pending
    <3>1. jobs[j].status = "Running" /\ jobs[j].leaseExpiresAt <= since[w]
      BY <1>5, <2>2 DEF IsDue
    <3>2. jobs[j].leaseExpiresAt \in Int
      BY <1>5 DEF Record, JobRecords, NoTime
    <3>3. ~(jobs[j].leaseExpiresAt > now)
      BY <1>1, <1>4, <3>1, <3>2
    <3> QED
      BY <1>1, <1>5, <3>1, <3>3, RowStage DEF Stage
  <2> QED
    BY <2>1, <2>2
<1>9. Stage' = [Stage EXCEPT ![j] = "running"] /\ Owner' = [Owner EXCEPT ![j] = w]
  BY <1>1, <1>3, <1>6, <1>7, OneRowWritten
<1>10. Claim[w] = -1 /\ Claim' = [Claim EXCEPT ![w] = j]
  <2>1. held[w] = NoClaim
    BY <1>1, <1>3 DEF WorkerInv, NothingHeld, HasClaim, Holding
  <2>2. held[w].job = -1
    BY <2>1 DEF NoClaim
  <2>3. held' = [held EXCEPT ![w] = [job |-> j, id |-> lastId', attempts |-> 0]]
    BY <1>2
  <2>4. \A v \in Workers : held'[v].job = (IF v = w THEN j ELSE held[v].job)
    BY <1>1, <2>3 DEF TypeOK
  <2> QED
    BY <2>2, <2>4 DEF Claim
<1>11. Ownership!Grant(w, j)
  BY <1>8, <1>9, <1>10 DEF Ownership!Grant, Stage, Owner, Claim
<1> QED
  BY <1>11 DEF Ownership!Next

\* A worker whose change id is current is the owner the row names.
LEMMA CurrentIsOwner ==
    ASSUME ClaimInv, NEW w \in Workers, pc[w] \in HasClaim, Owns(w)
    PROVE  /\ held[w].job \in JobIds /\ jobs[held[w].job] \in Record
           /\ jobs[held[w].job].claimedBy = w
           /\ Claim[w] = held[w].job /\ Ownership!IsOwner(w)
<1> DEFINE j == held[w].job
<1>1. j \in JobIds /\ Exists(j) /\ StoreTypeOK
  BY DEF ClaimInv, TypeOK, WorkerInv, HeldStored
<1>2. jobs[j] \in Record
  BY <1>1, RowFacts
<1>3. jobs[j].claimedBy = w
  BY DEF ClaimInv, WorkerInv, ClaimMatchesRow, Owns, IsCurrentClaim
<1>4. Claim[w] = j /\ j # -1
  BY <1>1, JobIdsAssumption DEF Claim
<1>5. Owner[j] = w
  BY <1>1, <1>2, <1>3, RowStage DEF Owner, ClaimInv, TypeOK, StoreTypeOK
<1>6. Ownership!IsOwner(w)
  BY <1>4, <1>5 DEF Ownership!IsOwner, Claim, Owner
<1> QED
  BY <1>1, <1>2, <1>3, <1>4, <1>6

LEMMA RenewalExtends ==
    ASSUME Lag < LeaseDuration, ClaimInv, NEW w \in Workers, Renew(w)
    PROVE  Ownership!Next \/ UNCHANGED <<Stage, Owner, Claim>>
<1> DEFINE j == held[w].job
           at == heartbeat[w].at
<1>1. TypeOK /\ StoreTypeOK /\ now \in Nat /\ WorkerInv(w)
  BY DEF ClaimInv, TypeOK, StoreTypeOK
<1>2. heartbeat[w].phase = "sending" /\ UNCHANGED <<now, held>>
      /\ RenewLease(j, held[w].id, at, at + LeaseDuration)
  BY DEF Renew
<1>3. pc[w] \in HasClaim /\ j \in JobIds
  <2>1. pc[w] \in HasClaim
    BY <1>1, <1>2 DEF WorkerInv, HeartbeatInPlace, HasClaim, Holding
  <2> QED
    BY <1>1, <2>1 DEF WorkerInv, HeldStored
<1>4. at \in Nat /\ at + LeaseDuration \in Nat /\ at + LeaseDuration > now
  <2>1. at \in Nat /\ LeaseDuration \in Nat /\ Lag \in Nat
    BY <1>1, WorkerTypes, TimeAssumption
  <2>2. now <= at + Lag
    BY <1>1, <1>2 DEF WorkerInv, CallsOnTime
  <2> QED
    BY <1>1, <2>1, <2>2
<1>5. Claim' = Claim
  BY <1>2 DEF Claim
<1>6. CASE UNCHANGED storeVars
  <2>1. UNCHANGED <<jobs, now>>
    BY <1>2, <1>6 DEF storeVars
  <2> QED
    BY <1>5, <2>1 DEF Stage, Owner
<1>7. CASE ~UNCHANGED storeVars
  <2> DEFINE r == [jobs[j] EXCEPT !.leaseExpiresAt = at + LeaseDuration]
  <2>1. /\ IsCurrentClaim(j, held[w].id) /\ jobs[j] \in Record /\ r \in Record
        /\ jobs' = [jobs EXCEPT ![j] = r]
    BY <1>1, <1>2, <1>3, <1>4, <1>7, RenewStep, ZenonT(60)
  <2>2. /\ r.status = "Running" /\ r.leaseExpiresAt = at + LeaseDuration
        /\ r.claimedBy = jobs[j].claimedBy
    BY <2>1 DEF Record, JobRecords, IsCurrentClaim
  <2> HIDE DEF r
  <2>3. jobs[j].claimedBy = w /\ Claim[w] = j /\ Ownership!IsOwner(w)
    BY <1>3, <2>1, CurrentIsOwner DEF Owns
  <2>4. StageAt(r, now) = "running" /\ OwnerOf(r) = w
    <3>1. r.leaseExpiresAt > now /\ r.claimedBy = w
      BY <1>4, <2>2, <2>3
    <3> QED
      BY <1>1, <2>1, <2>2, <3>1, RowStage
  <2>5. Stage' = [Stage EXCEPT ![j] = "running"] /\ Owner' = [Owner EXCEPT ![j] = w]
    <3>1. UNCHANGED now /\ jobs' = [jobs EXCEPT ![j] = r]
      BY <1>2, <2>1
    <3>2. /\ Stage' = [Stage EXCEPT ![j] = StageAt(r, now)]
          /\ Owner' = [Owner EXCEPT ![j] = OwnerOf(r)]
      BY <1>1, <1>3, <3>1, OneRowWritten
    <3> QED
      BY <2>4, <3>2
  <2>6. Owner[j] = w
    BY <1>1, <1>3, <2>1, <2>3, RowStage DEF Owner
  <2>7. Owner' = Owner
    BY <2>5, <2>6 DEF Owner
  <2>8. Stage' = [Stage EXCEPT ![Claim[w]] = "running"]
    BY <2>3, <2>5
  <2>9. Ownership!Extend(w)
    BY <1>5, <2>3, <2>7, <2>8 DEF Ownership!Extend, Stage, Owner, Claim
  <2> QED
    BY <2>9 DEF Ownership!Next
<1> QED
  BY <1>6, <1>7

LEMMA CompletionSettles ==
    ASSUME ClaimInv, NEW w \in Workers, Complete(w)
    PROVE  Ownership!Next
<1> DEFINE j == held[w].job
<1>1. TypeOK /\ StoreTypeOK /\ now \in Nat /\ lastId \in Nat /\ WorkerInv(w)
  BY DEF ClaimInv, TypeOK, StoreTypeOK
<1>2. pc[w] \in HasClaim /\ j \in JobIds /\ since[w] \in Nat
  <2>1. pc[w] \in HasClaim
    BY DEF Complete, HasClaim, Holding
  <2> QED
    BY <1>1, <2>1, WorkerTypes DEF WorkerInv, HeldStored
<1>3. /\ BackTo(w, "idle") /\ UNCHANGED now
      /\ CompleteExecution(held[w], outcome[w] = "succeeded", since[w])
  BY DEF Complete
<1>4. Claim' = [Claim EXCEPT ![w] = -1]
  BY <1>1, <1>3, OneWorkerLetsGo
<1>5. CASE UNCHANGED storeVars
  <2>1. Stage' = Stage /\ Owner' = Owner
    BY <1>3, <1>5 DEF storeVars, Stage, Owner
  <2> QED
    BY <1>4, <2>1, GivingUp
<1>6. CASE ~UNCHANGED storeVars
  <2>1. /\ IsCurrentClaim(j, held[w].id)
        /\ \E r : /\ jobs' = [jobs EXCEPT ![j] = r]
                  /\ Released(r, jobs[j], lastId + 1, lastId')
    BY <1>1, <1>2, <1>3, <1>6, SettleStep
  <2>2. PICK r : /\ jobs' = [jobs EXCEPT ![j] = r]
                 /\ Released(r, jobs[j], lastId + 1, lastId')
    BY <2>1
  <2>3. StageAt(r, now) \in {"settled", "waiting"} /\ OwnerOf(r) = NoWorker
    BY <1>1, <2>2, RowStage DEF Released
  <2>4. Claim[w] = j /\ Ownership!IsOwner(w)
    BY <1>2, <2>1, CurrentIsOwner DEF Owns
  <2>5. /\ Stage' = [Stage EXCEPT ![j] = StageAt(r, now)]
        /\ Owner' = [Owner EXCEPT ![j] = NoWorker]
    BY <1>1, <1>2, <1>3, <2>2, <2>3, OneRowWritten
  <2>6. /\ \E st \in {"settled", "waiting"} : Stage' = [Stage EXCEPT ![Claim[w]] = st]
        /\ Owner' = [Owner EXCEPT ![Claim[w]] = NoWorker]
    BY <2>3, <2>4, <2>5
  <2>7. Ownership!Settle(w)
    BY <1>4, <2>4, <2>6 DEF Ownership!Settle, Stage, Owner, Claim
  <2> QED
    BY <2>7 DEF Ownership!Next
<1> QED
  BY <1>5, <1>6

LEMMA TimeLapses ==
    ASSUME ClaimInv, Tick
    PROVE  Ownership!Next
<1>1. StoreTypeOK /\ now \in Nat /\ now' = now + 1 /\ UNCHANGED <<jobs, held>>
  BY DEF ClaimInv, TypeOK, StoreTypeOK, Tick, storeVars, workerVars
<1> DEFINE S == {j \in JobIds : Stage[j] = "running" /\ Stage'[j] = "lapsed"}
<1>2. ASSUME NEW j \in JobIds
      PROVE  Stage'[j] = Stage[j] \/ (Stage[j] = "running" /\ Stage'[j] = "lapsed")
  <2>1. Stage[j] = StageAt(jobs[j], now) /\ Stage'[j] = StageAt(jobs[j], now + 1)
    BY <1>1 DEF Stage
  <2>2. now + 1 \in Nat
    BY <1>1
  <2>3. CASE jobs[j] = NoJob
    BY <1>1, <2>1, <2>2, <2>3, NoRowStage
  <2>4. CASE jobs[j] # NoJob
    <3>1. jobs[j] \in Record /\ jobs[j].status \in JobStatus
      BY <1>1, <2>4, RowFacts DEF Exists
    <3>2. CASE jobs[j].status \in Pending
      <4>1. StageAt(jobs[j], now) = "waiting" /\ StageAt(jobs[j], now + 1) = "waiting"
        BY <1>1, <2>2, <3>1, <3>2, RowStage
      <4> QED
        BY <2>1, <4>1
    <3>3. CASE jobs[j].status \in Terminal
      <4>1. StageAt(jobs[j], now) = "settled" /\ StageAt(jobs[j], now + 1) = "settled"
        BY <1>1, <2>2, <3>1, <3>3, RowStage
      <4> QED
        BY <2>1, <4>1
    <3>4. CASE jobs[j].status = "Running"
      <4>1. jobs[j].leaseExpiresAt \in Int
        BY <3>1 DEF Record, JobRecords, NoTime
      <4>2. CASE jobs[j].leaseExpiresAt > now + 1
        <5>1. jobs[j].leaseExpiresAt > now
          BY <1>1, <4>1, <4>2
        <5>2. StageAt(jobs[j], now) = "running" /\ StageAt(jobs[j], now + 1) = "running"
          BY <1>1, <2>2, <3>1, <3>4, <4>2, <5>1, RowStage
        <5> QED
          BY <2>1, <5>2
      <4>3. CASE ~(jobs[j].leaseExpiresAt > now + 1)
        <5>1. StageAt(jobs[j], now + 1) = "lapsed"
          BY <2>2, <3>1, <3>4, <4>3, RowStage
        <5>2. StageAt(jobs[j], now) \in {"running", "lapsed"}
          BY <1>1, <3>1, <3>4, RowStage
        <5> QED
          BY <2>1, <5>1, <5>2
      <4> QED
        BY <4>2, <4>3
    <3> QED
      BY <3>1, <3>2, <3>3, <3>4 DEF JobStatus, Pending, Terminal
  <2> QED
    BY <2>3, <2>4
<1>3. Stage' = [j \in JobIds |-> IF j \in S THEN "lapsed" ELSE Stage[j]]
  <2>1. Stage' = [j \in JobIds |-> Stage'[j]]
    BY DEF Stage
  <2>2. \A j \in JobIds : Stage'[j] = (IF j \in S THEN "lapsed" ELSE Stage[j])
    BY <1>2
  <2> HIDE DEF S
  <2> QED
    BY <2>1, <2>2 DEF Stage
<1>4. S \in SUBSET {j \in JobIds : Stage[j] = "running"}
  OBVIOUS
<1> HIDE DEF S
<1>5. \E X \in SUBSET {j \in JobIds : Stage[j] = "running"} :
        Stage' = [j \in JobIds |-> IF j \in X THEN "lapsed" ELSE Stage[j]]
  BY <1>3, <1>4
<1>6. Owner' = Owner /\ Claim' = Claim
  BY <1>1 DEF Owner, Claim
<1>7. Ownership!Lapse
  BY <1>5, <1>6 DEF Ownership!Lapse, Stage, Owner, Claim
<1> QED
  BY <1>7 DEF Ownership!Next

-----------------------------------------------------------------------------
(* The other steps change nothing JobOwnership can see, or let a job go. *)

LEMMA ReloadKeepsClaim ==
    ASSUME ClaimInv, NEW w \in Workers, ReloadClaim(w)
    PROVE  Claim' = Claim
<1>1. held' = [held EXCEPT ![w] = CopyOf(held[w].job)] /\ TypeOK
  BY DEF ReloadClaim, ClaimInv
<1>2. CopyOf(held[w].job).job = held[w].job
  BY DEF CopyOf
<1>3. \A v \in Workers : held'[v].job = held[v].job
  BY <1>1, <1>2 DEF TypeOK
<1> QED
  BY <1>3 DEF Claim

LEMMA WorkImplements ==
    ASSUME Lag < LeaseDuration, ClaimInv, NEW w \in Workers,
           Work(w) \/ KeepAlive(w) \/ CallThrows(w) \/ RenewalThrows(w)
    PROVE  Ownership!Next \/ UNCHANGED <<Stage, Owner, Claim>>
<1>1. TypeOK
  BY DEF ClaimInv
<1>2. CASE CommitClaim(w)
  BY <1>2, CommitGrants
<1>3. CASE Renew(w)
  BY <1>3, RenewalExtends
<1>4. CASE Complete(w)
  BY <1>4, CompletionSettles
<1>5. CASE NothingDue(w) \/ CallThrows(w) \/ ExitLoop(w)
  <2>1. (\E point : BackTo(w, point)) /\ UNCHANGED <<storeVars, now>>
    BY <1>5 DEF NothingDue, CallThrows, ExitLoop
  <2>2. Stage' = Stage /\ Owner' = Owner
    BY <2>1 DEF storeVars, Stage, Owner
  <2>3. Claim' = [Claim EXCEPT ![w] = -1]
    BY <1>1, <2>1, OneWorkerLetsGo
  <2> QED
    BY <2>2, <2>3, GivingUp
<1>6. CASE StopLeaseRenewal(w)
  <2>1. UNCHANGED <<storeVars, now>> /\ (UNCHANGED held \/ BackTo(w, "exited"))
    BY <1>6 DEF StopLeaseRenewal
  <2>2. Stage' = Stage /\ Owner' = Owner
    BY <2>1 DEF storeVars, Stage, Owner
  <2>3. CASE BackTo(w, "exited")
    BY <1>1, <2>2, <2>3, OneWorkerLetsGo, GivingUp
  <2>4. CASE UNCHANGED held
    BY <2>2, <2>4 DEF Claim
  <2> QED
    BY <2>1, <2>3, <2>4
<1>7. CASE ReloadClaim(w)
  <2>1. UNCHANGED <<storeVars, now>>
    BY <1>7 DEF ReloadClaim
  <2> QED
    BY <1>7, <2>1, ReloadKeepsClaim DEF storeVars, Stage, Owner
<1>8. CASE \/ ReadClock(w) \/ EndExecution(w) \/ ReadRenewalClock(w) \/ CancelWait(w)
           \/ RenewalThrows(w)
  <2>1. UNCHANGED <<storeVars, now, held>>
    BY <1>8 DEF ReadClock, EndExecution, ReadRenewalClock, CancelWait, RenewalThrows
  <2> QED
    BY <2>1 DEF storeVars, Stage, Owner, Claim
<1> QED
  BY <1>2, <1>3, <1>4, <1>5, <1>6, <1>7, <1>8 DEF Work, KeepAlive

LEMMA HostImplements ==
    ASSUME ClaimInv, RequestStop \/ StopHost \/ Crash \/ Start
    PROVE  Ownership!Next \/ UNCHANGED <<Stage, Owner, Claim>>
<1>1. Stage' = Stage /\ Owner' = Owner
  <2>1. UNCHANGED <<jobs, now>>
    BY DEF RequestStop, StopHost, Crash, Start, storeVars
  <2> QED
    BY <2>1 DEF Stage, Owner
<1>2. CASE Crash
  <2>1. Claim' = [w \in Workers |-> IF w \in Workers THEN -1 ELSE Claim[w]]
    BY <1>2 DEF Crash, Claim, NoClaim
  <2>2. Workers \in SUBSET Workers
    OBVIOUS
  <2>3. \E W \in SUBSET Workers :
          Claim' = [w \in Workers |-> IF w \in W THEN -1 ELSE Claim[w]]
    BY <2>1, <2>2
  <2>4. Ownership!GiveUp
    BY <1>1, <2>3 DEF Ownership!GiveUp, Stage, Owner, Claim
  <2> QED
    BY <2>4 DEF Ownership!Next
<1>3. CASE RequestStop \/ StopHost \/ Start
  <2>1. UNCHANGED held
    BY <1>3 DEF RequestStop, StopHost, Start, workerVars
  <2> QED
    BY <1>1, <2>1 DEF Claim
<1> QED
  BY <1>2, <1>3

LEMMA StepImplements ==
    ASSUME Lag < LeaseDuration, ClaimInv, [Next]_vars
    PROVE  [Ownership!Next]_(Ownership!vars)
<1>1. Ownership!Next \/ UNCHANGED <<Stage, Owner, Claim>>
  <2>1. CASE UNCHANGED vars
    BY <2>1 DEF vars, workerVars, Stage, Owner, Claim
  <2>2. CASE Next
    BY <2>2, WorkImplements, HostImplements, EnqueueSubmits, TimeLapses DEF Next
  <2> QED
    BY <2>1, <2>2
<1> QED
  BY <1>1 DEF Ownership!vars, Stage, Owner, Claim

LEMMA InitImplements == Init => Ownership!Init
<1> SUFFICES ASSUME Init PROVE Ownership!Init
  OBVIOUS
<1>1. /\ jobs = [j \in JobIds |-> NoJob] /\ now = 0
      /\ held = [w \in Workers |-> NoClaim]
  BY DEF Init, StoreInit
<1>2. Stage = [j \in JobIds |-> "absent"] /\ Owner = [j \in JobIds |-> NoWorker]
  BY <1>1, NoRowStage DEF Stage, Owner
<1>3. Claim = [w \in Workers |-> -1]
  BY <1>1 DEF Claim, NoClaim
<1> QED
  BY <1>2, <1>3 DEF Ownership!Init, Stage, Owner, Claim

\* The pool of workers, with its change ids, clocks, retries, heartbeats, stops and
\* crashes, implements exclusive and lease-bounded ownership of jobs (README.md:10 and
\* :28): any number of workers and jobs, any retry policy, handlers of any length.
THEOREM PoolImplementsOwnership ==
    ASSUME Lag < LeaseDuration PROVE Spec => ImplementsOwnership
<1>1. Init => Ownership!Init
  BY InitImplements
<1>2. ClaimInv /\ [Next]_vars => [Ownership!Next]_(Ownership!vars)
  BY StepImplements
<1>3. Spec => []ClaimInv
  BY ClaimsConsistent
<1> QED
  BY <1>1, <1>2, <1>3, PTL DEF Spec, ImplementsOwnership, Ownership!Spec

-----------------------------------------------------------------------------
(* Histories. *)

\* A claim that takes another over is dated a full lease later.
LateTakeovers(h) ==
    \A i \in Steps(h) :
        h[i].status = "Running" /\ h[i + 1].status = "Running"
          => h[i + 1].changedAt >= h[i].changedAt + LeaseDuration

InOrder(h) == \A i \in Steps(h) : h[i].changedAt <= h[i + 1].changedAt

LEMMA LastChange ==
    ASSUME NEW h \in Seq(Change), Len(h) # 0
    PROVE  /\ LastOf(h) \in Change /\ Len(h) \in Nat \ {0}
           /\ LastOf(h).changedAt \in Nat
<1>1. Len(h) \in Nat \ {0} /\ LastOf(h) \in Change
  BY DEF LastOf
<1> QED
  BY <1>1 DEF Change, StateChanges

\* The steps of a history that a change is appended to: the old ones and the last.
LEMMA AppendedSteps ==
    ASSUME NEW h \in Seq(Change), Len(h) # 0, NEW e \in Change
    PROVE  \A i \in Steps(Append(h, e)) :
             \/ /\ i \in Steps(h)
                /\ Append(h, e)[i] = h[i] /\ Append(h, e)[i + 1] = h[i + 1]
             \/ /\ i = Len(h)
                /\ Append(h, e)[i] = LastOf(h) /\ Append(h, e)[i + 1] = e
BY Appended DEF Steps, LastOf

LEMMA LateTakeoversAppended ==
    ASSUME NEW h \in Seq(Change), Len(h) # 0, NEW e \in Change, LateTakeovers(h),
           LastOf(h).status = "Running" /\ e.status = "Running"
             => e.changedAt >= LastOf(h).changedAt + LeaseDuration
    PROVE  LateTakeovers(Append(h, e))
BY AppendedSteps, ZenonT(60) DEF LateTakeovers

LEMMA InOrderAppended ==
    ASSUME NEW h \in Seq(Change), Len(h) # 0, NEW e \in Change, InOrder(h),
           LastOf(h).changedAt <= e.changedAt
    PROVE  InOrder(Append(h, e))
BY AppendedSteps, ZenonT(60) DEF InOrder

-----------------------------------------------------------------------------
(* Rows. *)

\* The part of a row's times that every transition starts from.
Kept(job) ==
    /\ job \in Record
    /\ Len(job.history) # 0
    /\ job.maxAttempts = MaxAttempts
    /\ LateTakeovers(job.history)

\* The dates of a row seen at time t: its lease began at the last claim or later and
\* was extended from no later clock than t; a job that failed had used its attempts.
Timed(job, t) ==
    /\ Kept(job)
    /\ job.status = LastOf(job.history).status
    /\ LastOf(job.history).changedAt <= t
    /\ job.status = "Running"
         => /\ LastOf(job.history).changedAt + LeaseDuration <= job.leaseExpiresAt
            /\ job.leaseExpiresAt <= t + LeaseDuration
    /\ job.status = "Failed" => AttemptCount(job) >= MaxAttempts

\* The dates of a row in order, and a pending job is due after its last change.
Ordered(job) ==
    /\ InOrder(job.history)
    /\ job.status \in Pending => LastOf(job.history).changedAt <= job.runAt

LEMMA KeptFacts ==
    ASSUME NEW job, Kept(job)
    PROVE  /\ job.history \in Seq(Change)
           /\ LastOf(job.history) \in Change
           /\ LastOf(job.history).changedAt \in Nat
           /\ job.leaseExpiresAt \in Nat \cup {NoTime}
           /\ job.runAt \in Nat \cup {NoTime}
<1>1. job.history \in Seq(Change)
  BY DEF Kept, Record, JobRecords, Change
<1>2. LastOf(job.history) \in Change /\ LastOf(job.history).changedAt \in Nat
  BY <1>1, LastChange DEF Kept
<1> QED
  BY <1>1, <1>2 DEF Kept, Record, JobRecords

\* Time passes.
LEMMA TimedLater ==
    ASSUME NEW job, NEW t \in Nat, Timed(job, t)
    PROVE  Timed(job, t + 1)
<1>1. /\ LastOf(job.history).changedAt \in Nat
      /\ job.leaseExpiresAt \in Nat \cup {NoTime}
      /\ LeaseDuration \in Nat
  BY KeptFacts, TimeAssumption DEF Timed
<1> QED
  BY <1>1 DEF Timed, NoTime

\* The transitions that drop the claim.
LEMMA UnclaimedTimes ==
    ASSUME NEW job, Kept(job), NEW t \in Nat, NEW e \in Change, e.status # "Running",
           e.changedAt <= t, e.status = "Failed" => AttemptCount(job) >= MaxAttempts,
           NEW runAt \in Nat \cup {NoTime}
    PROVE  /\ Timed(Unclaimed(job, e, runAt), t)
           /\ Unclaimed(job, e, runAt).runAt = runAt
           /\ Unclaimed(job, e, runAt).status = e.status
           /\ /\ InOrder(job.history)
              /\ LastOf(job.history).changedAt <= e.changedAt
              /\ e.status \in Pending => e.changedAt <= runAt
              => Ordered(Unclaimed(job, e, runAt))
<1> DEFINE new == Unclaimed(job, e, runAt)
           h == job.history
<1>0. h \in Seq(Change) /\ Len(h) # 0 /\ job \in Record
  BY KeptFacts DEF Kept
<1>1. new \in Record
  BY <1>0, UnclaimedFacts DEF Extended
<1>2. /\ new.history = Append(h, e) /\ new.status = e.status
      /\ new.runAt = runAt /\ new.maxAttempts = job.maxAttempts
  BY <1>0 DEF Unclaimed, Record, JobRecords
<1> HIDE DEF new
<1>3. LastOf(new.history) = e /\ Len(new.history) # 0
  BY <1>0, <1>2, Appended
<1>4. Kept(new)
  <2>1. LateTakeovers(new.history)
    BY <1>0, <1>2, LateTakeoversAppended DEF Kept
  <2> QED
    BY <1>1, <1>2, <1>3, <2>1 DEF Kept
<1>5. AttemptCount(new) = AttemptCount(job)
  BY <1>0, <1>2, NoAttemptAppended DEF AttemptCount
<1>6. Timed(new, t)
  BY <1>2, <1>3, <1>4, <1>5 DEF Timed
<1>7. ASSUME InOrder(h), LastOf(h).changedAt <= e.changedAt,
             e.status \in Pending => e.changedAt <= runAt
      PROVE  Ordered(new)
  BY <1>0, <1>2, <1>3, <1>7, InOrderAppended DEF Ordered
<1> QED
  BY <1>2, <1>6, <1>7 DEF new

\* Fields beside the dates may change.
LEMMA ReasonTimes ==
    ASSUME NEW job, NEW t, Timed(job, t)
    PROVE  /\ Timed([job EXCEPT !.failureReason = TRUE], t)
           /\ Ordered(job) => Ordered([job EXCEPT !.failureReason = TRUE])
<1> DEFINE r == [job EXCEPT !.failureReason = TRUE]
<1>1. job \in Record
  BY DEF Timed, Kept
<1>2. /\ r \in Record
      /\ r.status = job.status /\ r.history = job.history /\ r.runAt = job.runAt
      /\ r.leaseExpiresAt = job.leaseExpiresAt /\ r.maxAttempts = job.maxAttempts
  BY <1>1 DEF Record, JobRecords
<1> HIDE DEF r
<1>3. Timed(r, t) /\ (Ordered(job) => Ordered(r))
  BY <1>2 DEF Timed, Kept, Ordered, AttemptCount
<1> QED
  BY <1>3 DEF r

\* A claim dated "at", for a lease from then on, of a job that is due at that time.
LEMMA ClaimedTimes ==
    ASSUME NEW job, NEW t \in Nat, Timed(job, t), NEW w \in Workers, NEW id \in Nat,
           NEW at \in Nat, at <= t, IsDue(job, at), job.status \in {"Queued", "Running"}
    PROVE  LET new == Claimed(job, w, id, at, at + LeaseDuration) IN
           Timed(new, t) /\ (Ordered(job) => Ordered(new))
<1> DEFINE e == RunningChange(id, at, w)
           lease == at + LeaseDuration
           new == Claimed(job, w, id, at, lease)
           h == job.history
<1>0. /\ h \in Seq(Change) /\ Len(h) # 0 /\ job \in Record /\ Kept(job)
      /\ LeaseDuration \in Nat \ {0} /\ lease \in Nat
      /\ LastOf(h).changedAt \in Nat
      /\ job.leaseExpiresAt \in Nat \cup {NoTime}
      /\ job.runAt \in Nat \cup {NoTime}
  BY KeptFacts, TimeAssumption DEF Timed, Kept
<1>1. e \in Change /\ e.status = "Running" /\ e.changedAt = at
  BY DEF RunningChange, StateChange, Change, StateChanges, JobStatus, NoTime
<1>2. new \in Record
  BY <1>0, ClaimedFacts DEF Acquired
<1>3. /\ new.history = Append(h, e) /\ new.status = "Running"
      /\ new.leaseExpiresAt = lease /\ new.maxAttempts = job.maxAttempts
  BY <1>0 DEF Claimed, Record, JobRecords
<1> HIDE DEF e
<1>4. LastOf(new.history) = e /\ Len(new.history) # 0
  <2> HIDE DEF new, h
  <2> QED
    BY <1>0, <1>1, <1>3, Appended
<1> HIDE DEF new
<1>5. job.status = "Running" => /\ LastOf(h).changedAt + LeaseDuration <= at
                                /\ LastOf(h).status = "Running"
  BY <1>0 DEF Timed, IsDue, Pending
<1>6. job.status = "Queued" => LastOf(h).status = "Queued" /\ job.runAt <= at
  BY <1>0 DEF Timed, IsDue, Pending
<1>7. Kept(new)
  <2>1. LateTakeovers(new.history)
    BY <1>0, <1>1, <1>3, <1>5, <1>6, LateTakeoversAppended DEF Kept
  <2> QED
    BY <1>0, <1>2, <1>3, <1>4, <2>1 DEF Kept
<1>8. Timed(new, t)
  BY <1>0, <1>1, <1>3, <1>4, <1>7 DEF Timed
<1>9. ASSUME Ordered(job) PROVE Ordered(new)
  <2>1. LastOf(h).changedAt <= at
    <3>1. job.status = "Queued" => LastOf(h).changedAt <= job.runAt /\ job.runAt # NoTime
      BY <1>9 DEF Ordered, Pending, IsDue
    <3> QED
      BY <1>0, <1>5, <1>6, <3>1 DEF NoTime
  <2>2. InOrder(new.history)
    BY <1>0, <1>1, <1>3, <1>9, <2>1, InOrderAppended DEF Ordered
  <2> QED
    BY <1>3, <2>2 DEF Ordered, Pending
<1> QED
  BY <1>8, <1>9 DEF new

\* A Scheduled job is queued on the way, with the same date.
LEMMA RequeuedClaimedTimes ==
    ASSUME NEW job, NEW t \in Nat, Timed(job, t), NEW w \in Workers, NEW id1 \in Nat,
           NEW id2 \in Nat, NEW at \in Nat, at <= t, IsDue(job, at),
           job.status = "Scheduled"
    PROVE  LET new == Claimed(Requeued(job, id1, at), w, id2, at, at + LeaseDuration) IN
           Timed(new, t) /\ (Ordered(job) => Ordered(new))
<1> DEFINE e == QueuedChange(id1, at)
           mid == Requeued(job, id1, at)
<1>1. e \in Change /\ e.status = "Queued" /\ e.changedAt = at
  BY DEF QueuedChange, StateChange, Change, StateChanges, JobStatus, NoTime, NoWorker
<1>2. mid = Unclaimed(job, e, at) /\ Kept(job)
  BY DEF Requeued, Timed
<1> HIDE DEF e, mid
<1>3. Timed(mid, t) /\ mid.status = "Queued" /\ mid.runAt = at
  BY <1>1, <1>2, UnclaimedTimes
<1>4. ASSUME Ordered(job) PROVE Ordered(mid)
  <2>1. /\ LastOf(job.history).changedAt <= job.runAt /\ job.runAt <= at
        /\ LastOf(job.history).changedAt \in Nat /\ job.runAt \in Nat
    BY <1>2, <1>4, KeptFacts DEF Ordered, IsDue, Pending, NoTime
  <2> QED
    BY <1>1, <1>2, <1>4, <2>1, UnclaimedTimes DEF Ordered
<1>5. IsDue(mid, at)
  BY <1>3 DEF IsDue, Pending, NoTime
<1>6. /\ Timed(Claimed(mid, w, id2, at, at + LeaseDuration), t)
      /\ Ordered(mid) => Ordered(Claimed(mid, w, id2, at, at + LeaseDuration))
  BY <1>3, <1>5, ClaimedTimes
<1> QED
  BY <1>4, <1>6 DEF mid

LEMMA CompletedTimes ==
    ASSUME NEW job, NEW t \in Nat, Timed(job, t), NEW id \in Nat
    PROVE  /\ Timed(Completed(job, id, t), t)
           /\ Ordered(job) => Ordered(Completed(job, id, t))
<1> DEFINE e == SettledChange(id, t, "Completed")
<1>1. e \in Change /\ e.status = "Completed" /\ e.changedAt = t
  BY SettledChangeType DEF Terminal, SettledChange, StateChange
<1>2. Completed(job, id, t) = Unclaimed(job, e, NoTime) /\ Kept(job)
  BY DEF Completed, Timed
<1> HIDE DEF e
<1>3. LastOf(job.history).changedAt <= e.changedAt
  BY <1>1 DEF Timed
<1> DEFINE new == Unclaimed(job, e, NoTime)
<1>4. /\ e.status # "Running" /\ e.status # "Failed" /\ e.status \notin Pending
      /\ e.changedAt <= t
  BY <1>1 DEF Pending
<1>5. /\ Timed(new, t)
      /\ InOrder(job.history) => Ordered(new)
  BY <1>1, <1>2, <1>3, <1>4, UnclaimedTimes
<1>6. Timed(new, t) /\ (Ordered(job) => Ordered(new))
  BY <1>5 DEF Ordered
<1> QED
  BY <1>2, <1>6

LEMMA FailedTimes ==
    ASSUME NEW job, NEW t \in Nat, Timed(job, t), NEW id \in Nat,
           AttemptCount(job) >= MaxAttempts
    PROVE  /\ Timed(Failed(job, id, t), t)
           /\ Ordered(job) => Ordered(Failed(job, id, t))
<1> DEFINE e == SettledChange(id, t, "Failed")
           new == Unclaimed(job, e, NoTime)
<1>1. e \in Change /\ e.status = "Failed" /\ e.changedAt = t
  BY SettledChangeType DEF Terminal, SettledChange, StateChange
<1>2. Failed(job, id, t) = [new EXCEPT !.failureReason = TRUE] /\ Kept(job)
  BY DEF Failed, Timed
<1> HIDE DEF e
<1>3. LastOf(job.history).changedAt <= e.changedAt
  BY <1>1 DEF Timed
<1>4. Timed(new, t) /\ (Ordered(job) => Ordered(new))
  BY <1>1, <1>2, <1>3, UnclaimedTimes DEF Ordered, Pending
<1> HIDE DEF new
<1> QED
  BY <1>2, <1>4, ReasonTimes

\* A retry appends two changes with the date of the failure.
LEMMA RetryTimes ==
    ASSUME NEW job, NEW t \in Nat, Timed(job, t), NEW id \in Nat, NEW runAt \in Nat
    PROVE  /\ Timed(RetryScheduled(job, id, t, runAt), t)
           /\ Ordered(job) /\ t <= runAt => Ordered(RetryScheduled(job, id, t, runAt))
<1> DEFINE f == SettledChange(id, t, "Failed")
           mid == [job EXCEPT !.history = Append(@, f)]
           s == ScheduledChange(id + 1, t, runAt)
           new == Unclaimed(mid, s, runAt)
<1>0. job \in Record /\ job.history \in Seq(Change) /\ Kept(job) /\ Len(job.history) # 0
  BY KeptFacts DEF Timed, Kept
<1>1. f \in Change /\ f.status = "Failed" /\ f.changedAt = t
  BY SettledChangeType DEF Terminal, SettledChange, StateChange
<1>2. s \in Change /\ s.status = "Scheduled" /\ s.changedAt = t
  BY DEF ScheduledChange, StateChange, Change, StateChanges, JobStatus, NoWorker
<1>3. RetryScheduled(job, id, t, runAt) = [new EXCEPT !.failureReason = TRUE]
  BY DEF RetryScheduled
<1> HIDE DEF f, s
<1>4. /\ mid \in Record /\ mid.history = Append(job.history, f)
      /\ mid.maxAttempts = job.maxAttempts
  <2>1. Append(job.history, f) \in Seq(Change)
    BY <1>0, <1>1, Appended
  <2> QED
    BY <1>0, <2>1 DEF Record, JobRecords, Change
<1> HIDE DEF mid
<1>5. LastOf(mid.history) = f /\ Len(mid.history) # 0
  BY <1>0, <1>1, <1>4, Appended
<1>6. Kept(mid)
  <2>1. LateTakeovers(mid.history)
    BY <1>0, <1>1, <1>4, LateTakeoversAppended DEF Kept
  <2> QED
    BY <1>0, <1>4, <1>5, <2>1 DEF Kept
<1>7. Timed(new, t)
  BY <1>2, <1>6, UnclaimedTimes
<1>8. ASSUME Ordered(job), t <= runAt PROVE Ordered(new)
  <2>1. InOrder(mid.history)
    BY <1>0, <1>1, <1>4, <1>8, InOrderAppended DEF Ordered, Timed
  <2>2. LastOf(mid.history).changedAt <= s.changedAt
    BY <1>1, <1>2, <1>5
  <2> QED
    BY <1>2, <1>6, <1>8, <2>1, <2>2, UnclaimedTimes
<1> HIDE DEF new
<1> QED
  BY <1>3, <1>7, <1>8, ReasonTimes

\* A renewal computed from a clock that was read after the claim and before t.
LEMMA RenewedTimes ==
    ASSUME NEW job, NEW t \in Nat, Timed(job, t), job.status = "Running",
           NEW at \in Nat, at <= t, job.leaseExpiresAt <= at + LeaseDuration
    PROVE  LET new == [job EXCEPT !.leaseExpiresAt = at + LeaseDuration] IN
           Timed(new, t) /\ (Ordered(job) => Ordered(new))
<1> DEFINE new == [job EXCEPT !.leaseExpiresAt = at + LeaseDuration]
<1>1. /\ job \in Record /\ LeaseDuration \in Nat
      /\ LastOf(job.history).changedAt \in Nat
      /\ job.leaseExpiresAt \in Nat \cup {NoTime}
  BY KeptFacts, TimeAssumption DEF Timed, Kept
<1>2. /\ new \in Record
      /\ new.status = job.status /\ new.history = job.history /\ new.runAt = job.runAt
      /\ new.leaseExpiresAt = at + LeaseDuration /\ new.maxAttempts = job.maxAttempts
  BY <1>1 DEF Record, JobRecords
<1> HIDE DEF new
<1>3. /\ LastOf(job.history).changedAt + LeaseDuration <= at + LeaseDuration
      /\ at + LeaseDuration <= t + LeaseDuration
  BY <1>1 DEF Timed, NoTime
<1>4. Timed(new, t) /\ (Ordered(job) => Ordered(new))
  BY <1>2, <1>3 DEF Timed, Kept, Ordered, AttemptCount
<1> QED
  BY <1>4 DEF new

\* A job that was just added.
LEMMA NewJobTimes ==
    ASSUME NEW e \in Change, e.status \in Pending, NEW runAt \in Nat, NEW t \in Nat,
           e.changedAt <= t, e.changedAt <= runAt
    PROVE  Timed(NewJob(e, runAt, MaxAttempts), t)
             /\ Ordered(NewJob(e, runAt, MaxAttempts))
<1> DEFINE new == NewJob(e, runAt, MaxAttempts)
<1>1. new \in Record
  BY NewJobFacts, RetryPolicyAssumption
<1>2. /\ new.status = e.status /\ new.history = <<e>> /\ new.runAt = runAt
      /\ new.maxAttempts = MaxAttempts
  BY DEF NewJob
<1> HIDE DEF new
<1>3. /\ Len(<<e>>) = 1 /\ LastOf(<<e>>) = e /\ Steps(<<e>>) = {}
  BY DEF LastOf, Steps
<1>4. LateTakeovers(<<e>>) /\ InOrder(<<e>>)
  BY <1>3 DEF LateTakeovers, InOrder
<1>5. Timed(new, t) /\ Ordered(new)
  BY <1>1, <1>2, <1>3, <1>4 DEF Timed, Kept, Ordered, Pending
<1> QED
  BY <1>5 DEF new
-----------------------------------------------------------------------------
(* The inductive invariant behind NoAttemptWasted, TakenOverLate and              *)
(* LeaseOnlyExtends.                                                           *)

SinceRead(w) == since[w] <= now

\* The copy a worker was handed counts the attempts of the row while the claim is its
\* own.
CopyFresh(w) ==
    pc[w] \in Holding /\ Owns(w)
      => held[w].attempts = AttemptCount(jobs[held[w].job])

\* The renewal under way moves the lease forward: its clock was read after the one
\* the lease was computed from.
RenewalAhead(w) ==
    heartbeat[w].phase = "sending" /\ Owns(w)
      => jobs[held[w].job].leaseExpiresAt <= heartbeat[w].at + LeaseDuration

WorkerTimes(w) == SinceRead(w) /\ CopyFresh(w) /\ RenewalAhead(w)

RowsTimed == \A j \in JobIds : Exists(j) => Timed(jobs[j], now)

TimesInv == RowsTimed /\ \A w \in Workers : WorkerTimes(w)

\* The steps that write a row.
LEMMA WritesOnly ==
    ASSUME [Next]_vars
    PROVE  \/ jobs' = jobs
           \/ \E w \in Workers : CommitClaim(w) \/ Complete(w) \/ Renew(w)
           \/ \E k \in JobIds : EnqueueJob(k)
BY DEF Next, Work, KeepAlive, ReadClock, NothingDue, ReloadClaim, EndExecution,
       StopLeaseRenewal, ExitLoop, ReadRenewalClock, CancelWait, CallThrows,
       RenewalThrows, RequestStop, StopHost, Crash, Start, Tick, vars, storeVars

\* What a row is replaced with: a row with good dates, under a change id that is new
\* unless the write is a renewal.
NewRow(r, orderly) ==
    /\ r \in Record
    /\ Timed(r, now)
    /\ orderly => Ordered(r)

LEMMA CommitClaimRow ==
    ASSUME ClaimInv, TimesInv, NEW w \in Workers, CommitClaim(w)
    PROVE  \E j \in JobIds : \E r :
             /\ jobs' = [jobs EXCEPT ![j] = r]
             /\ Exists(j) /\ IsDue(jobs[j], since[w])
             /\ NewRow(r, Ordered(jobs[j]))
             /\ r.currentStateChangeId > lastId
             /\ r.status = "Running"
<1>1. /\ StoreTypeOK /\ lastId \in Nat /\ now \in Nat
      /\ since[w] \in Nat /\ since[w] <= now
      /\ LeaseDuration \in Nat /\ since[w] + LeaseDuration \in Nat
      /\ lastId + 1 \in Nat /\ lastId + 2 \in Nat
  <2>1. since[w] \in Nat /\ LeaseDuration \in Nat
    BY WorkerTypes, TimeAssumption DEF ClaimInv
  <2> QED
    BY <2>1 DEF ClaimInv, TypeOK, StoreTypeOK, TimesInv, WorkerTimes, SinceRead
<1>2. PICK j \in JobIds : TryClaimNextDueJob(j, w, since[w], since[w] + LeaseDuration)
  BY DEF CommitClaim
<1> DEFINE a == Claimed(jobs[j], w, lastId + 1, since[w], since[w] + LeaseDuration)
           b == Claimed(Requeued(jobs[j], lastId + 1, since[w]), w, lastId + 2, since[w],
                        since[w] + LeaseDuration)
<1>3. jobs[j] \in Record /\ IsDue(jobs[j], since[w]) /\ Timed(jobs[j], now) /\ Exists(j)
  BY <1>1, <1>2, ClaimStep, RowFacts DEF TimesInv, RowsTimed
<1>4. CASE jobs[j].status \in {"Running", "Queued"} /\ Write(j, a, 1)
  <2>1. NewRow(a, Ordered(jobs[j])) /\ a.currentStateChangeId > lastId
        /\ a.status = "Running"
    <3>1. Acquired(a, jobs[j], w, lastId + 1, since[w] + LeaseDuration)
      BY <1>1, <1>3, ClaimedFacts
    <3>2. Timed(a, now) /\ (Ordered(jobs[j]) => Ordered(a))
      BY <1>1, <1>3, <1>4, ClaimedTimes
    <3> QED
      BY <1>1, <3>1, <3>2 DEF Acquired, NewRow
  <2>2. jobs' = [jobs EXCEPT ![j] = a]
    BY <1>4 DEF Write
  <2> HIDE DEF a
  <2> QED
    BY <1>3, <2>1, <2>2
<1>5. CASE jobs[j].status = "Scheduled" /\ Write(j, b, 2)
  <2>1. NewRow(b, Ordered(jobs[j])) /\ b.currentStateChangeId > lastId
        /\ b.status = "Running"
    <3>1. Acquired(b, jobs[j], w, lastId + 2, since[w] + LeaseDuration)
      BY <1>1, <1>3, RequeuedClaimedFacts
    <3>2. Timed(b, now) /\ (Ordered(jobs[j]) => Ordered(b))
      BY <1>1, <1>3, <1>5, RequeuedClaimedTimes
    <3> QED
      BY <1>1, <3>1, <3>2 DEF Acquired, NewRow
  <2>2. jobs' = [jobs EXCEPT ![j] = b]
    BY <1>5 DEF Write
  <2> HIDE DEF b
  <2> QED
    BY <1>3, <2>1, <2>2
<1> QED
  BY <1>2, <1>4, <1>5 DEF TryClaimNextDueJob

LEMMA CompleteRow ==
    ASSUME ClaimInv, TimesInv, NEW w \in Workers, Complete(w)
    PROVE  \/ jobs' = jobs
           \/ \E r :
                /\ Owns(w) /\ held[w].job \in JobIds
                /\ jobs' = [jobs EXCEPT ![held[w].job] = r]
                /\ NewRow(r, /\ Ordered(jobs[held[w].job])
                             /\ now <= since[w] + RetryDelay)
                /\ r.currentStateChangeId > lastId
                /\ r.status # "Running"
<1> DEFINE j == held[w].job
           id == held[w].id
<1>1. /\ StoreTypeOK /\ lastId \in Nat /\ now \in Nat /\ since[w] \in Nat
      /\ held[w].attempts \in Nat
  BY WorkerTypes DEF ClaimInv, TypeOK, StoreTypeOK
<1>2. /\ pc[w] = "completing" /\ pc[w] \in HasClaim /\ pc[w] \in Holding
      /\ j \in JobIds /\ Exists(j) /\ j = held[w].job /\ Timed(jobs[j], now)
      /\ CompleteExecution(held[w], outcome[w] = "succeeded", since[w])
  BY DEF Complete, HasClaim, Holding, ClaimInv, WorkerInv, HeldStored, TimesInv, RowsTimed
<1>3. jobs[j] \in Record
  BY <1>2 DEF Timed, Kept
<1> HIDE DEF j
<1> DEFINE done == Completed(jobs[j], lastId + 1, now)
           fail == Failed(jobs[j], lastId + 1, now)
           retry == RetryScheduled(jobs[j], lastId + 1, now, since[w] + RetryDelay)
           Orderly == Ordered(jobs[j]) /\ now <= since[w] + RetryDelay
<1>4. \/ jobs' = jobs
      \/ IsCurrentClaim(j, id) /\ Write(j, done, 1)
      \/ IsCurrentClaim(j, id) /\ Write(j, fail, 1) /\ ~(held[w].attempts < MaxAttempts)
      \/ IsCurrentClaim(j, id) /\ Write(j, retry, 2)
  BY <1>2 DEF CompleteExecution, MarkCompleted, MarkFailed, ScheduleRetry, Refused, storeVars
<1>a. lastId + 1 \in Nat /\ since[w] + RetryDelay \in Nat
  BY <1>1, RetryPolicyAssumption
<1>5. CASE IsCurrentClaim(j, id) /\ Write(j, done, 1)
  <2>1. Released(done, jobs[j], lastId + 1, lastId + 1)
    BY <1>1, <1>3, <1>a, CompletedFacts
  <2>2. Timed(done, now) /\ (Ordered(jobs[j]) => Ordered(done))
    BY <1>1, <1>2, <1>a, CompletedTimes
  <2>3. jobs' = [jobs EXCEPT ![j] = done]
    BY <1>5 DEF Write
  <2> HIDE DEF done
  <2>4. NewRow(done, Orderly) /\ done.currentStateChangeId > lastId
        /\ done.status # "Running"
    BY <1>1, <2>1, <2>2 DEF NewRow, Released, Pending, Terminal
  <2> QED
    BY <1>2, <1>5, <2>3, <2>4 DEF Owns, j
<1>6. CASE /\ IsCurrentClaim(j, id) /\ Write(j, fail, 1)
           /\ ~(held[w].attempts < MaxAttempts)
  <2>1. Released(fail, jobs[j], lastId + 1, lastId + 1)
    BY <1>1, <1>3, <1>a, FailedFacts
  <2>2. AttemptCount(jobs[j]) >= MaxAttempts
    <3>1. held[w].attempts = AttemptCount(jobs[j])
      BY <1>2, <1>6 DEF TimesInv, WorkerTimes, CopyFresh, Owns
    <3> QED
      BY <1>1, <1>6, <3>1, RetryPolicyAssumption
  <2>3. Timed(fail, now) /\ (Ordered(jobs[j]) => Ordered(fail))
    BY <1>1, <1>2, <1>a, <2>2, FailedTimes
  <2>4. jobs' = [jobs EXCEPT ![j] = fail]
    BY <1>6 DEF Write
  <2> HIDE DEF fail
  <2>5. NewRow(fail, Orderly) /\ fail.currentStateChangeId > lastId
        /\ fail.status # "Running"
    BY <1>1, <2>1, <2>3 DEF NewRow, Released, Pending, Terminal
  <2> QED
    BY <1>2, <1>6, <2>4, <2>5 DEF Owns, j
<1>7. CASE IsCurrentClaim(j, id) /\ Write(j, retry, 2)
  <2>1. Released(retry, jobs[j], lastId + 1, lastId + 1 + 1)
    BY <1>1, <1>3, <1>a, RetryScheduledFacts
  <2>2. Timed(retry, now) /\ (Orderly => Ordered(retry))
    BY <1>1, <1>2, <1>a, RetryTimes
  <2>3. jobs' = [jobs EXCEPT ![j] = retry]
    BY <1>7 DEF Write
  <2> HIDE DEF retry
  <2>4. NewRow(retry, Orderly) /\ retry.currentStateChangeId > lastId
        /\ retry.status # "Running"
    BY <1>1, <2>1, <2>2 DEF NewRow, Released, Pending, Terminal
  <2> QED
    BY <1>2, <1>7, <2>3, <2>4 DEF Owns, j
<1> QED
  BY <1>4, <1>5, <1>6, <1>7

LEMMA RenewRow ==
    ASSUME ClaimInv, TimesInv, NEW w \in Workers, Renew(w)
    PROVE  \/ jobs' = jobs /\ ~Owns(w)
           \/ \E r :
                /\ Owns(w) /\ held[w].job \in JobIds /\ pc[w] \in HasClaim
                /\ jobs' = [jobs EXCEPT ![held[w].job] = r]
                /\ r = [jobs[held[w].job] EXCEPT
                            !.leaseExpiresAt = heartbeat[w].at + LeaseDuration]
                /\ NewRow(r, Ordered(jobs[held[w].job]))
                /\ r.leaseExpiresAt = heartbeat[w].at + LeaseDuration
                /\ r.leaseExpiresAt >= jobs[held[w].job].leaseExpiresAt
                /\ r.status = "Running"
                /\ r.currentStateChangeId = held[w].id
                /\ r.history = jobs[held[w].job].history
<1> DEFINE j == held[w].job
           at == heartbeat[w].at
           r == [jobs[j] EXCEPT !.leaseExpiresAt = at + LeaseDuration]
<1>1. /\ StoreTypeOK /\ lastId \in Nat /\ now \in Nat /\ at \in Nat /\ at <= now
      /\ LeaseDuration \in Nat \ {0} /\ at + LeaseDuration \in Nat
      /\ at + LeaseDuration > at
  <2>1. at \in Nat /\ LeaseDuration \in Nat \ {0}
    BY WorkerTypes, TimeAssumption DEF ClaimInv
  <2> QED
    BY <2>1 DEF ClaimInv, TypeOK, StoreTypeOK, WorkerInv, CallsOnTime, Renew
<1>2. /\ pc[w] \in HasClaim
      /\ j \in JobIds /\ Exists(j) /\ Timed(jobs[j], now)
  BY DEF Renew, ClaimInv, WorkerInv, HeartbeatInPlace, HeldStored, HasClaim, Holding,
         TimesInv, RowsTimed
<1>3. RenewLease(j, held[w].id, at, at + LeaseDuration) /\ heartbeat[w].phase = "sending"
  BY DEF Renew
<1>4. CASE ~Owns(w)
  BY <1>3, <1>4 DEF RenewLease, Owns, Refused, storeVars
<1>5. CASE Owns(w)
  <2>1. jobs' = [jobs EXCEPT ![j] = r]
    BY <1>1, <1>3, <1>5 DEF RenewLease, Owns, Write
  <2>2. /\ jobs[j].status = "Running" /\ jobs[j].currentStateChangeId = held[w].id
        /\ jobs[j].leaseExpiresAt <= at + LeaseDuration
    BY <1>3, <1>5 DEF Owns, IsCurrentClaim, TimesInv, WorkerTimes, RenewalAhead
  <2>3. jobs[j] \in Record
    BY <1>2 DEF Timed, Kept
  <2>4. /\ r.status = "Running" /\ r.currentStateChangeId = held[w].id
        /\ r.history = jobs[j].history /\ r.leaseExpiresAt = at + LeaseDuration
    BY <2>2, <2>3 DEF Record, JobRecords
  <2>5. NewRow(r, Ordered(jobs[j]))
    <3>1. Timed(r, now) /\ (Ordered(jobs[j]) => Ordered(r))
      BY <1>1, <1>2, <2>2, RenewedTimes
    <3> QED
      BY <3>1 DEF NewRow, Timed, Kept
  <2>6. r.leaseExpiresAt >= jobs[j].leaseExpiresAt
    <3>1. jobs[j].leaseExpiresAt \in Nat \cup {NoTime}
      BY <2>3 DEF Record, JobRecords
    <3> QED
      BY <1>1, <2>2, <2>4, <3>1 DEF NoTime
  <2> QED
    BY <1>2, <1>5, <2>1, <2>4, <2>5, <2>6
<1> QED
  BY <1>4, <1>5

LEMMA EnqueueRow ==
    ASSUME ClaimInv, NEW j \in JobIds, EnqueueJob(j)
    PROVE  /\ ~Exists(j)
           /\ \E r : jobs' = [jobs EXCEPT ![j] = r] /\ NewRow(r, TRUE)
<1>1. lastId \in Nat /\ now \in Nat /\ lastId + 1 \in Nat
  BY DEF ClaimInv, TypeOK, StoreTypeOK
<1>2. PICK delay \in Nat : Enqueue(j, delay)
  BY TimeAssumption DEF EnqueueJob
<1> DEFINE e == IF delay > 0 THEN ScheduledChange(lastId + 1, now, now + delay)
                             ELSE QueuedChange(lastId + 1, now)
           runAt == IF delay > 0 THEN now + delay ELSE now
           r == NewJob(e, runAt, MaxAttempts)
<1>3. /\ e \in Change /\ e.status \in Pending /\ e.changedAt = now
      /\ runAt \in Nat /\ now <= runAt
  BY <1>1 DEF ScheduledChange, QueuedChange, StateChange, Change, StateChanges,
              JobStatus, Pending, NoTime, NoWorker
<1>4. ~Exists(j) /\ Write(j, r, 1)
  BY <1>2 DEF Enqueue, Add, ScheduledJob, EnqueuedJob
<1> HIDE DEF e, runAt
<1>5. NewRow(r, TRUE)
  BY <1>1, <1>3, NewJobTimes DEF NewRow, Timed, Kept
<1> HIDE DEF r
<1>6. jobs' = [jobs EXCEPT ![j] = r]
  BY <1>4 DEF Write
<1> QED
  BY <1>4, <1>5, <1>6

\* A worker that does not move keeps its part, unless the row of the claim it owns
\* has changed.
LEMMA WorkerTimesKept ==
    ASSUME NEW w \in Workers, WorkerTimes(w), WorkerSame(w), now \in Nat, since[w] \in Nat,
           now' \in {now, now + 1},
           ClaimInv',
           pc[w] \in Holding /\ Owns(w)' => jobs'[held[w].job] = jobs[held[w].job]
    PROVE  WorkerTimes(w)'
<1>1. SinceRead(w)'
  BY DEF WorkerTimes, SinceRead, WorkerSame
<1>2. CopyFresh(w)'
  BY DEF WorkerTimes, CopyFresh, WorkerSame, Owns, IsCurrentClaim
<1>3. RenewalAhead(w)'
  <2> SUFFICES ASSUME heartbeat'[w].phase = "sending", Owns(w)'
               PROVE  jobs'[held'[w].job].leaseExpiresAt <= heartbeat'[w].at + LeaseDuration
    BY DEF RenewalAhead
  <2>1. pc'[w] \in Holding
    BY DEF ClaimInv, WorkerInv, HeartbeatInPlace, Holding
  <2>2. jobs'[held[w].job] = jobs[held[w].job] /\ held'[w] = held[w]
        /\ heartbeat'[w] = heartbeat[w] /\ Owns(w)
    BY <2>1 DEF WorkerSame, Owns, IsCurrentClaim
  <2> QED
    BY <2>2 DEF WorkerTimes, RenewalAhead
<1> QED
  BY <1>1, <1>2, <1>3 DEF WorkerTimes

\* A worker that holds no claim it could use has nothing but its clock to answer for.
LEMMA WorkerTimesIdle ==
    ASSUME NEW w \in Workers, ClaimInv', pc'[w] \notin Holding, SinceRead(w)'
    PROVE  WorkerTimes(w)'
BY DEF ClaimInv, WorkerInv, HeartbeatInPlace, Holding, WorkerTimes, CopyFresh, RenewalAhead

\* The row of the claim a worker owns is written by nobody else.
LEMMA OwnRowKept ==
    ASSUME ClaimInv, NEW v \in Workers, held'[v] = held[v], pc[v] \in Holding, Owns(v)',
           NEW j \in JobIds, NEW r, jobs' = [jobs EXCEPT ![j] = r],
           \/ r.currentStateChangeId > lastId
           \/ ~Exists(j)
           \/ \E w \in Workers \ {v} :
                /\ pc[w] \in HasClaim /\ held[w].job = j /\ Owns(w)
                /\ r.currentStateChangeId = held[w].id
    PROVE  jobs'[held[v].job] = jobs[held[v].job]
<1>1. /\ jobs \in [JobIds -> Record \cup {NoJob}] /\ lastId \in Nat
      /\ held[v].id \in Nat /\ held[v].id <= lastId
      /\ held[v].job \in JobIds /\ Exists(held[v].job) /\ pc[v] \in HasClaim
  BY WorkerTypes DEF ClaimInv, TypeOK, StoreTypeOK, Record, WorkerInv, HeldIdIssued, HeldStored,
                     HasClaim
<1>2. CASE held[v].job # j
  BY <1>1, <1>2
<1>3. CASE held[v].job = j
  <2>1. r.currentStateChangeId = held[v].id
    BY <1>1, <1>3 DEF Owns, IsCurrentClaim
  <2>2. ~(r.currentStateChangeId > lastId) /\ Exists(j)
    BY <1>1, <1>3, <2>1
  <2>3. PICK w \in Workers \ {v} :
            /\ pc[w] \in HasClaim /\ held[w].job = j /\ Owns(w)
            /\ r.currentStateChangeId = held[w].id
    BY <2>2
  <2>4. jobs[j].currentStateChangeId = held[w].id
    BY <2>3 DEF Owns, IsCurrentClaim
  <2>5. jobs[j].currentStateChangeId # held[v].id
    BY <1>1, <1>3, <2>3, OneCurrentClaim
  <2> QED
    BY <2>1, <2>3, <2>4, <2>5
<1> QED
  BY <1>2, <1>3

LEMMA RowsTimedWritten ==
    ASSUME StoreTypeOK, RowsTimed, NEW j \in JobIds, NEW r, jobs' = [jobs EXCEPT ![j] = r],
           Timed(r, now), now' = now
    PROVE  RowsTimed'
<1> SUFFICES ASSUME NEW k \in JobIds, Exists(k)' PROVE Timed(jobs'[k], now')
  BY DEF RowsTimed
<1>1. CASE k = j
  BY <1>1 DEF StoreTypeOK
<1>2. CASE k # j
  BY <1>2 DEF StoreTypeOK, RowsTimed, Exists
<1> QED
  BY <1>1, <1>2

LEMMA RowsTimedUnwritten ==
    ASSUME RowsTimed, jobs' = jobs, now \in Nat, now' \in {now, now + 1}
    PROVE  RowsTimed'
BY TimedLater DEF RowsTimed, Exists

LEMMA CommitClaimTimes ==
    ASSUME ClaimInv, ClaimInv', TimesInv, NEW w \in Workers, CommitClaim(w)
    PROVE  TimesInv'
<1>1. StoreTypeOK /\ now \in Nat /\ TypeOK
  BY DEF ClaimInv, TypeOK, StoreTypeOK
<1>2. PICK j, r :
        /\ j \in JobIds
        /\ jobs' = [jobs EXCEPT ![j] = r]
        /\ NewRow(r, Ordered(jobs[j]))
        /\ r.currentStateChangeId > lastId
  BY CommitClaimRow
<1>3. /\ pc' = [pc EXCEPT ![w] = "reloading"] /\ UNCHANGED <<now, since, heartbeat>>
      /\ \E c : held' = [held EXCEPT ![w] = c]
  BY DEF CommitClaim
<1>4. RowsTimed'
  BY <1>1, <1>2, <1>3, RowsTimedWritten DEF NewRow, TimesInv
<1>5. WorkerTimes(w)'
  <2>1. pc'[w] \notin Holding /\ SinceRead(w)'
    BY <1>1, <1>3 DEF Holding, TypeOK, TimesInv, WorkerTimes, SinceRead
  <2> QED
    BY <2>1, WorkerTimesIdle
<1>6. ASSUME NEW v \in Workers \ {w} PROVE WorkerTimes(v)'
  <2>1. WorkerSame(v)
    BY <1>1, <1>3 DEF WorkerSame, TypeOK
  <2>2. pc[v] \in Holding /\ Owns(v)' => jobs'[held[v].job] = jobs[held[v].job]
    BY <1>2, <2>1, OwnRowKept DEF WorkerSame
  <2> QED
    BY <1>1, <1>3, <2>1, <2>2, WorkerTypes, WorkerTimesKept DEF TimesInv
<1> QED
  BY <1>4, <1>5, <1>6 DEF TimesInv

LEMMA CompleteTimes ==
    ASSUME ClaimInv, ClaimInv', TimesInv, NEW w \in Workers, Complete(w)
    PROVE  TimesInv'
<1>1. StoreTypeOK /\ now \in Nat /\ TypeOK
  BY DEF ClaimInv, TypeOK, StoreTypeOK
<1>2. BackTo(w, "idle") /\ now' = now
  BY DEF Complete
<1>3. WorkerTimes(w)'
  <2>1. pc'[w] = "idle" /\ since'[w] = 0
    BY <1>1, <1>2 DEF BackTo, TypeOK
  <2> QED
    BY <1>1, <1>2, <2>1, WorkerTimesIdle DEF Holding, SinceRead
<1>4. ASSUME NEW v \in Workers \ {w} PROVE WorkerSame(v)
  BY <1>1, <1>2, BackToSafe
<1>5. CASE jobs' = jobs
  <2>1. RowsTimed'
    BY <1>1, <1>2, <1>5, RowsTimedUnwritten DEF TimesInv
  <2>2. ASSUME NEW v \in Workers \ {w} PROVE WorkerTimes(v)'
    BY <1>1, <1>2, <1>4, <1>5, WorkerTypes, WorkerTimesKept DEF TimesInv
  <2> QED
    BY <1>3, <2>1, <2>2 DEF TimesInv
<1>6. CASE jobs' # jobs
  <2>1. PICK r : /\ held[w].job \in JobIds
                 /\ jobs' = [jobs EXCEPT ![held[w].job] = r]
                 /\ Timed(r, now)
                 /\ r.currentStateChangeId > lastId
    BY <1>6, CompleteRow DEF NewRow
  <2>2. RowsTimed'
    BY <1>1, <1>2, <2>1, RowsTimedWritten DEF TimesInv
  <2>3. ASSUME NEW v \in Workers \ {w} PROVE WorkerTimes(v)'
    <3>1. pc[v] \in Holding /\ Owns(v)' => jobs'[held[v].job] = jobs[held[v].job]
      BY <1>4, <2>1, OwnRowKept DEF WorkerSame
    <3> QED
      BY <1>1, <1>2, <1>4, <3>1, WorkerTypes, WorkerTimesKept DEF TimesInv
  <2> QED
    BY <1>3, <2>2, <2>3 DEF TimesInv
<1> QED
  BY <1>5, <1>6

LEMMA RenewTimes ==
    ASSUME ClaimInv, ClaimInv', TimesInv, NEW w \in Workers, Renew(w)
    PROVE  TimesInv'
<1>1. StoreTypeOK /\ now \in Nat /\ TypeOK
  BY DEF ClaimInv, TypeOK, StoreTypeOK
<1>2. UNCHANGED <<now, pc, since, held>>
  BY DEF Renew
<1>3. /\ heartbeat'[w].phase # "sending"
      /\ \A v \in Workers \ {w} : heartbeat'[v] = heartbeat[v]
  BY <1>1 DEF Renew, TypeOK, NextBeat, EndedBeat, Beat
<1>4. ASSUME NEW v \in Workers PROVE WorkerSame(v)
  BY <1>2, <1>3 DEF WorkerSame
<1>5. CASE jobs' = jobs
  <2>1. RowsTimed'
    BY <1>1, <1>2, <1>5, RowsTimedUnwritten DEF TimesInv
  <2>2. ASSUME NEW v \in Workers PROVE WorkerTimes(v)'
    BY <1>1, <1>2, <1>4, <1>5, WorkerTypes, WorkerTimesKept DEF TimesInv
  <2> QED
    BY <2>1, <2>2 DEF TimesInv
<1>6. CASE jobs' # jobs
  <2> DEFINE j == held[w].job
  <2>1. PICK r : /\ Owns(w) /\ j \in JobIds /\ pc[w] \in HasClaim
                 /\ jobs' = [jobs EXCEPT ![j] = r]
                 /\ Timed(r, now)
                 /\ r.currentStateChangeId = held[w].id
                 /\ r.history = jobs[j].history
    BY <1>6, RenewRow DEF NewRow
  <2>2. RowsTimed'
    BY <1>1, <1>2, <2>1, RowsTimedWritten DEF TimesInv
  <2>3. ASSUME NEW v \in Workers \ {w} PROVE WorkerTimes(v)'
    <3>1. pc[v] \in Holding /\ Owns(v)' => jobs'[held[v].job] = jobs[held[v].job]
      BY <1>2, <2>1, OwnRowKept
    <3> QED
      BY <1>1, <1>2, <1>4, <3>1, WorkerTypes, WorkerTimesKept DEF TimesInv
  <2>4. WorkerTimes(w)'
    <3>1. jobs'[j].history = jobs[j].history
      BY <1>1, <2>1 DEF StoreTypeOK
    <3>2. CopyFresh(w)'
      BY <1>2, <2>1, <3>1 DEF TimesInv, WorkerTimes, CopyFresh, AttemptCount
    <3>3. SinceRead(w)' /\ RenewalAhead(w)'
      BY <1>2, <1>3 DEF TimesInv, WorkerTimes, SinceRead, RenewalAhead
    <3> QED
      BY <3>2, <3>3 DEF WorkerTimes
  <2> QED
    BY <2>2, <2>3, <2>4 DEF TimesInv
<1> QED
  BY <1>5, <1>6

LEMMA EnqueueJobTimes ==
    ASSUME ClaimInv, ClaimInv', TimesInv, NEW j \in JobIds, EnqueueJob(j)
    PROVE  TimesInv'
<1>1. StoreTypeOK /\ now \in Nat /\ TypeOK
  BY DEF ClaimInv, TypeOK, StoreTypeOK
<1>2. UNCHANGED <<now, pc, since, held, heartbeat>>
  BY DEF EnqueueJob, workerVars
<1>3. PICK r : jobs' = [jobs EXCEPT ![j] = r] /\ Timed(r, now) /\ ~Exists(j)
  BY EnqueueRow DEF NewRow
<1>4. RowsTimed'
  BY <1>1, <1>2, <1>3, RowsTimedWritten DEF TimesInv
<1>5. ASSUME NEW v \in Workers PROVE WorkerTimes(v)'
  <2>1. WorkerSame(v)
    BY <1>2 DEF WorkerSame
  <2>2. pc[v] \in Holding /\ Owns(v)' => jobs'[held[v].job] = jobs[held[v].job]
    BY <1>2, <1>3, OwnRowKept
  <2> QED
    BY <1>1, <1>2, <2>1, <2>2, WorkerTypes, WorkerTimesKept DEF TimesInv
<1> QED
  BY <1>4, <1>5 DEF TimesInv

\* The steps that leave the rows and the clock alone, seen from a worker that takes
\* one: it keeps nothing, it takes its copy, it reads the clock, or it goes on with
\* what it has.
LEMMA QuietTimes ==
    ASSUME ClaimInv, ClaimInv', TimesInv, UNCHANGED <<jobs, now>>,
           NEW w \in Workers, WorkerTimes(w)',
           \A v \in Workers \ {w} : WorkerSame(v)
    PROVE  TimesInv'
<1>1. now \in Nat /\ TypeOK
  BY DEF ClaimInv, TypeOK, StoreTypeOK
<1>2. RowsTimed'
  BY <1>1, RowsTimedUnwritten DEF TimesInv
<1>3. ASSUME NEW v \in Workers \ {w} PROVE WorkerTimes(v)'
  BY <1>1, WorkerTypes, WorkerTimesKept DEF TimesInv
<1> QED
  BY <1>2, <1>3 DEF TimesInv

LEMMA LoopTimes ==
    ASSUME ClaimInv, ClaimInv', TimesInv, NEW w \in Workers,
           ReadClock(w) \/ NothingDue(w) \/ CallThrows(w) \/ ExitLoop(w)
    PROVE  TimesInv'
<1>1. TypeOK /\ now \in Nat /\ UNCHANGED <<jobs, now>>
  BY DEF ClaimInv, TypeOK, StoreTypeOK, ReadClock, NothingDue, CallThrows, ExitLoop, storeVars
<1>2. CASE ReadClock(w)
  <2>1. pc'[w] = "claiming" /\ since'[w] = now
    BY <1>1, <1>2 DEF ReadClock, Goto, TypeOK
  <2>2. \A v \in Workers \ {w} : WorkerSame(v)
    BY <1>1, <1>2 DEF ReadClock, Goto, TypeOK, WorkerSame
  <2>3. WorkerTimes(w)'
    BY <1>1, <2>1, WorkerTimesIdle DEF Holding, SinceRead
  <2> QED
    BY <1>1, <2>2, <2>3, QuietTimes
<1>3. CASE ~ReadClock(w)
  <2>1. PICK point \in {"idle", "exited"} : BackTo(w, point)
    BY <1>3 DEF NothingDue, CallThrows, ExitLoop
  <2>2. pc'[w] = point /\ since'[w] = 0
    BY <1>1, <2>1 DEF BackTo, TypeOK
  <2>3. WorkerTimes(w)'
    BY <1>1, <2>2, WorkerTimesIdle DEF Holding, SinceRead
  <2> QED
    BY <1>1, <2>1, <2>3, BackToSafe, QuietTimes
<1> QED
  BY <1>2, <1>3

LEMMA ReloadTimes ==
    ASSUME ClaimInv, ClaimInv', TimesInv, NEW w \in Workers, ReloadClaim(w)
    PROVE  TimesInv'
<1>1. TypeOK /\ now \in Nat /\ UNCHANGED <<jobs, now>>
  BY DEF ClaimInv, TypeOK, StoreTypeOK, ReloadClaim, storeVars
<1>2. /\ since'[w] = now /\ held'[w] = CopyOf(held[w].job)
      /\ heartbeat'[w].phase # "sending"
  BY <1>1 DEF ReloadClaim, Goto, TypeOK, NextBeat, EndedBeat, Beat
<1>3. \A v \in Workers \ {w} : WorkerSame(v)
  BY <1>1 DEF ReloadClaim, Goto, WorkerSame, TypeOK
<1>4. WorkerTimes(w)'
  BY <1>1, <1>2 DEF WorkerTimes, SinceRead, CopyFresh, RenewalAhead, CopyOf
<1> QED
  BY <1>1, <1>3, <1>4, QuietTimes

LEMMA BeatTimes ==
    ASSUME ClaimInv, ClaimInv', TimesInv, NEW w \in Workers,
           ReadRenewalClock(w) \/ CancelWait(w) \/ RenewalThrows(w)
    PROVE  TimesInv'
<1>1. TypeOK /\ now \in Nat /\ UNCHANGED <<jobs, now, pc, since, held>>
  BY DEF ClaimInv, TypeOK, StoreTypeOK, ReadRenewalClock, CancelWait, RenewalThrows, storeVars
<1>2. PICK b \in {EndedBeat, Beat("sending", now)} :
        heartbeat' = [heartbeat EXCEPT ![w] = b]
  BY DEF ReadRenewalClock, CancelWait, RenewalThrows
<1>3. \A v \in Workers \ {w} : WorkerSame(v)
  BY <1>1, <1>2 DEF WorkerSame, TypeOK
<1>4. SinceRead(w)' /\ CopyFresh(w)'
  BY <1>1 DEF TimesInv, WorkerTimes, SinceRead, CopyFresh, Owns, IsCurrentClaim
<1>5. RenewalAhead(w)'
  <2> SUFFICES ASSUME heartbeat'[w].phase = "sending", Owns(w)'
               PROVE  jobs[held[w].job].leaseExpiresAt <= heartbeat'[w].at + LeaseDuration
    BY <1>1 DEF RenewalAhead
  <2>1. heartbeat'[w].at = now
    BY <1>1, <1>2 DEF TypeOK, EndedBeat, Beat
  <2>2. /\ pc'[w] \in HasClaim /\ held[w].job \in JobIds /\ Exists(held[w].job)
        /\ jobs[held[w].job].status = "Running"
    BY <1>1 DEF ClaimInv, WorkerInv, HeartbeatInPlace, HeldStored, HasClaim, Holding, Owns,
                IsCurrentClaim, Exists
  <2> QED
    BY <2>1, <2>2 DEF TimesInv, RowsTimed, Timed
<1>6. WorkerTimes(w)'
  BY <1>4, <1>5 DEF WorkerTimes
<1> QED
  BY <1>1, <1>3, <1>6, QuietTimes

LEMMA EndTimes ==
    ASSUME ClaimInv, ClaimInv', TimesInv, NEW w \in Workers,
           EndExecution(w) \/ StopLeaseRenewal(w)
    PROVE  TimesInv'
<1>1. TypeOK /\ now \in Nat /\ UNCHANGED <<jobs, now>>
      /\ pc[w] \in {"executing", "stopping"}
  BY DEF ClaimInv, TypeOK, StoreTypeOK, EndExecution, StopLeaseRenewal, storeVars
<1>2. CASE BackTo(w, "exited")
  <2>1. pc'[w] = "exited" /\ since'[w] = 0
    BY <1>1, <1>2 DEF BackTo, TypeOK
  <2>2. WorkerTimes(w)'
    BY <1>1, <2>1, WorkerTimesIdle DEF Holding, SinceRead
  <2> QED
    BY <1>1, <1>2, <2>2, BackToSafe, QuietTimes
<1>3. CASE ~BackTo(w, "exited")
  <2>1. /\ held' = held
        /\ \/ Goto(w, "stopping") /\ heartbeat' = heartbeat
           \/ /\ Goto(w, "completing")
              /\ heartbeat[w].phase # "sending"
              /\ \E b \in {heartbeat[w], Beat("cancelled", 0)} :
                   heartbeat' = [heartbeat EXCEPT ![w] = b]
    BY <1>3 DEF EndExecution, StopLeaseRenewal
  <2>2. \A v \in Workers \ {w} : WorkerSame(v)
    BY <1>1, <2>1 DEF WorkerSame, TypeOK, Goto
  <2>3. /\ since'[w] = now
        /\ heartbeat'[w].phase = "sending" => heartbeat'[w] = heartbeat[w]
    BY <1>1, <2>1 DEF TypeOK, Goto, Beat
  <2>4. WorkerTimes(w)'
    BY <1>1, <2>1, <2>3
       DEF TimesInv, WorkerTimes, SinceRead, CopyFresh, RenewalAhead, Owns, IsCurrentClaim,
           Holding
  <2> QED
    BY <1>1, <2>2, <2>4, QuietTimes
<1> QED
  BY <1>2, <1>3

LEMMA HostTimes ==
    ASSUME ClaimInv, ClaimInv', TimesInv,
           RequestStop \/ StopHost \/ Crash \/ Start \/ UNCHANGED vars
    PROVE  TimesInv'
<1>1. TypeOK /\ now \in Nat /\ UNCHANGED <<jobs, now>>
  BY DEF ClaimInv, TypeOK, StoreTypeOK, RequestStop, StopHost, Crash, Start, storeVars, vars
<1>4. RowsTimed'
  BY <1>1, RowsTimedUnwritten DEF TimesInv
<1>2. CASE RequestStop \/ StopHost \/ UNCHANGED vars
  <2>1. ASSUME NEW v \in Workers PROVE WorkerTimes(v)'
    <3>1. WorkerSame(v)
      BY <1>2 DEF RequestStop, StopHost, vars, workerVars, WorkerSame
    <3> QED
      BY <1>1, <3>1, WorkerTypes, WorkerTimesKept DEF TimesInv
  <2> QED
    BY <1>4, <2>1 DEF TimesInv
<1>3. CASE Crash \/ Start
  <2>1. ASSUME NEW w \in Workers PROVE WorkerTimes(w)'
    <3>1. pc'[w] \in {"idle", "exited"} /\ since'[w] \in {0, since[w]}
      BY <1>3 DEF Crash, Start, AllExited
    <3> QED
      BY <1>1, <3>1, WorkerTimesIdle DEF Holding, SinceRead, TimesInv, WorkerTimes
  <2> QED
    BY <1>4, <2>1 DEF TimesInv
<1> QED
  BY <1>2, <1>3

LEMMA TickTimes ==
    ASSUME ClaimInv, ClaimInv', TimesInv, Tick
    PROVE  TimesInv'
<1>1. TypeOK /\ now \in Nat /\ now' = now + 1
      /\ UNCHANGED <<jobs, pc, since, held, heartbeat>>
  BY DEF ClaimInv, TypeOK, StoreTypeOK, Tick, storeVars, workerVars
<1>2. RowsTimed'
  BY <1>1, RowsTimedUnwritten DEF TimesInv
<1>3. ASSUME NEW v \in Workers PROVE WorkerTimes(v)'
  BY <1>1, WorkerTypes, WorkerTimesKept DEF TimesInv, WorkerSame
<1> QED
  BY <1>2, <1>3 DEF TimesInv

LEMMA InitTimes == Init => TimesInv
<1> SUFFICES ASSUME Init PROVE TimesInv
  OBVIOUS
<1>1. RowsTimed
  BY DEF Init, StoreInit, RowsTimed, Exists
<1>2. ASSUME NEW w \in Workers PROVE WorkerTimes(w)
  BY DEF Init, StoreInit, WorkerTimes, SinceRead, CopyFresh, RenewalAhead, Holding, NoBeat, Beat
<1> QED
  BY <1>1, <1>2 DEF TimesInv

LEMMA NextTimes ==
    ASSUME ClaimInv, ClaimInv', TimesInv, [Next]_vars
    PROVE  TimesInv'
<1>1. ASSUME NEW w \in Workers, Work(w) PROVE TimesInv'
  BY <1>1, LoopTimes, CommitClaimTimes, ReloadTimes, EndTimes, CompleteTimes DEF Work
<1>2. ASSUME NEW w \in Workers, KeepAlive(w) PROVE TimesInv'
  BY <1>2, BeatTimes, RenewTimes DEF KeepAlive
<1>3. ASSUME NEW w \in Workers, CallThrows(w) \/ RenewalThrows(w) PROVE TimesInv'
  BY <1>3, LoopTimes, BeatTimes
<1>4. ASSUME NEW j \in JobIds, EnqueueJob(j) PROVE TimesInv'
  BY <1>4, EnqueueJobTimes
<1>5. CASE RequestStop \/ StopHost \/ Crash \/ Start \/ UNCHANGED vars
  BY <1>5, HostTimes
<1>6. CASE Tick
  BY <1>6, TickTimes
<1> QED
  BY <1>1, <1>2, <1>3, <1>4, <1>5, <1>6 DEF Next

\* In every reachable state the dates in the rows and in the histories are those above,
\* and what each worker holds or is about to send agrees with them.
THEOREM TimesConsistent ==
    ASSUME Lag < LeaseDuration PROVE Spec => [](ClaimInv /\ TimesInv)
<1>1. Init => TimesInv
  BY InitTimes
<1>2. ClaimInv /\ ClaimInv' /\ TimesInv /\ [Next]_vars => TimesInv'
  BY NextTimes
<1> QED
  BY <1>1, <1>2, ClaimsConsistent, PTL DEF Spec

\* No attempt is lost: a job is given up as Failed only when it has been started as often
\* as its policy allows, although what decides is the copy of the job that a worker took
\* at its claim (JobLifecycleService.cs, CompleteExecution).
THEOREM AttemptsAreUsed ==
    ASSUME Lag < LeaseDuration PROVE Spec => []NoAttemptWasted
<1>1. ClaimInv /\ TimesInv => NoAttemptWasted
  BY DEF TimesInv, RowsTimed, Timed, Kept, NoAttemptWasted, Stored
<1> QED
  BY <1>1, TimesConsistent, PTL

\* A running job is taken over no earlier than one full lease after the claim that is taken
\* over (README.md:12), by the dates both claims carry, whatever the renewals in between.
THEOREM TakeoversAreLate ==
    ASSUME Lag < LeaseDuration PROVE Spec => []TakenOverLate
<1>1. ClaimInv /\ TimesInv => TakenOverLate
  BY DEF TimesInv, RowsTimed, Timed, Kept, LateTakeovers, TakenOverLate, Stored
<1> QED
  BY <1>1, TimesConsistent, PTL

\* While a claim lasts no step moves its lease back: a renewal that was computed earlier
\* never arrives after a later one (SqliteJobStore.cs, RenewLease does not compare them).
THEOREM LeasesOnlyExtend ==
    ASSUME Lag < LeaseDuration PROVE Spec => LeaseOnlyExtends
<1> DEFINE Extends(j) ==
        /\ jobs[j].status = "Running"
        /\ jobs'[j].status = "Running"
        /\ jobs'[j].currentStateChangeId = jobs[j].currentStateChangeId
        => jobs'[j].leaseExpiresAt >= jobs[j].leaseExpiresAt
<1>1. ASSUME ClaimInv, TimesInv, [Next]_vars, NEW j \in JobIds
      PROVE  Extends(j)
  <2>1. /\ jobs \in [JobIds -> Record \cup {NoJob}] /\ lastId \in Nat
        /\ Exists(j) => /\ jobs[j].currentStateChangeId \in Nat
                        /\ jobs[j].currentStateChangeId <= lastId
                        /\ jobs[j].leaseExpiresAt \in Nat \cup {NoTime}
        /\ jobs[j].status = "Running" => Exists(j)
    <3>1. jobs \in [JobIds -> Record \cup {NoJob}] /\ lastId \in Nat /\ StoreTypeOK
      BY <1>1 DEF ClaimInv, TypeOK, StoreTypeOK, Record
    <3>2. Exists(j) => jobs[j] \in Record /\ jobs[j].currentStateChangeId <= lastId
      BY <1>1, <3>1, RowFacts DEF ClaimInv, RowIdsIssued, Stored
    <3> QED
      BY <3>1, <3>2 DEF Record, JobRecords, NoJob, Exists
  <2>2. CASE jobs' = jobs
    BY <2>1, <2>2 DEF NoTime
  <2>3. ASSUME NEW w \in Workers, CommitClaim(w) PROVE Extends(j)
    <3>1. PICK k, r : /\ k \in JobIds
                     /\ jobs' = [jobs EXCEPT ![k] = r]
                     /\ r.currentStateChangeId > lastId
      BY <1>1, <2>3, CommitClaimRow
    <3> QED
      BY <2>1, <3>1 DEF NoTime
  <2>4. ASSUME NEW w \in Workers, Complete(w) PROVE Extends(j)
    <3> SUFFICES ASSUME jobs' # jobs PROVE Extends(j)
      BY <2>2
    <3>1. PICK r : /\ held[w].job \in JobIds
                   /\ jobs' = [jobs EXCEPT ![held[w].job] = r]
                   /\ r.status # "Running"
      BY <1>1, <2>4, CompleteRow DEF NewRow
    <3> QED
      BY <2>1, <3>1 DEF NoTime
  <2>5. ASSUME NEW w \in Workers, Renew(w) PROVE Extends(j)
    <3> SUFFICES ASSUME jobs' # jobs PROVE Extends(j)
      BY <2>2
    <3>1. PICK r : /\ held[w].job \in JobIds
                   /\ jobs' = [jobs EXCEPT ![held[w].job] = r]
                   /\ r.leaseExpiresAt >= jobs[held[w].job].leaseExpiresAt
      BY <1>1, <2>5, RenewRow
    <3> QED
      BY <2>1, <3>1 DEF NoTime
  <2>6. ASSUME NEW k \in JobIds, EnqueueJob(k) PROVE Extends(j)
    <3>1. ~Exists(k) /\ \E r : jobs' = [jobs EXCEPT ![k] = r]
      BY <1>1, <2>6, EnqueueRow
    <3> QED
      BY <2>1, <3>1 DEF NoTime
  <2> QED
    BY <1>1, <2>2, <2>3, <2>4, <2>5, <2>6, WritesOnly
<1>2. ClaimInv /\ TimesInv /\ [Next]_vars => [\A j \in JobIds : Extends(j)]_vars
  BY <1>1
<1> QED
  BY <1>2, TimesConsistent, PTL DEF Spec, LeaseOnlyExtends

-----------------------------------------------------------------------------
(* Histories in order.  A retry is scheduled from a clock read before the call and  *)
(* dated with one read inside it, so this takes a retry delay no shorter than a     *)
(* call.                                                                       *)

CompletionOnTime(w) == pc[w] = "completing" => now <= since[w] + Lag

OrderInv ==
    /\ \A j \in JobIds : Exists(j) => Ordered(jobs[j])
    /\ \A w \in Workers : CompletionOnTime(w)

LEMMA NextCompletionOnTime ==
    ASSUME ClaimInv, ClaimInv', TimesInv, [Next]_vars, NEW w \in Workers, CompletionOnTime(w)
    PROVE  CompletionOnTime(w)'
<1>1. /\ TypeOK /\ now \in Nat /\ Lag \in Nat /\ since[w] \in Nat
      /\ pc \in [Workers -> Points] /\ since \in [Workers -> Nat]
  BY WorkerTypes, TimeAssumption DEF ClaimInv, TypeOK
<1>2. CASE pc'[w] = pc[w] /\ since'[w] = since[w] /\ now' = now
  BY <1>2 DEF CompletionOnTime
<1>3. CASE since'[w] = now /\ now' = now
  BY <1>1, <1>3 DEF CompletionOnTime
<1>4. CASE pc'[w] # "completing"
  BY <1>4 DEF CompletionOnTime
<1>5. CASE Tick
  BY <1>1, <1>5 DEF Tick, InTime, workerVars, CompletionOnTime
<1> DEFINE Cases == \/ pc'[w] = pc[w] /\ since'[w] = since[w] /\ now' = now
                    \/ since'[w] = now /\ now' = now
                    \/ pc'[w] # "completing"
                    \/ Tick
<1>6. Cases
  <2>1. ASSUME NEW v \in Workers, NEW point, Goto(v, point) \/ BackTo(v, point), now' = now,
               point # "completing" \/ Goto(v, point)
        PROVE  Cases
    BY <1>1, <2>1 DEF Goto, BackTo
  <2>2. ASSUME UNCHANGED <<now, pc, since>> PROVE Cases
    BY <2>2
  <2>3. ASSUME NEW v \in Workers, CommitClaim(v) PROVE Cases
    BY <1>1, <2>3 DEF CommitClaim
  <2>4. ASSUME NEW v \in Workers, Work(v) PROVE Cases
    BY <2>1, <2>3, <2>4 DEF Work, ReadClock, NothingDue, ReloadClaim, EndExecution,
                            StopLeaseRenewal, Complete, ExitLoop
  <2>5. ASSUME NEW v \in Workers, CallThrows(v) PROVE Cases
    BY <2>1, <2>5 DEF CallThrows
  <2>6. ASSUME Crash \/ Start PROVE Cases
    BY <2>6 DEF Crash, Start, AllExited
  <2> QED
    BY <2>2, <2>4, <2>5, <2>6
       DEF Next, KeepAlive, ReadRenewalClock, Renew, CancelWait, RenewalThrows, RequestStop,
           StopHost, EnqueueJob, vars, workerVars
<1> QED
  BY <1>2, <1>3, <1>4, <1>5, <1>6

\* The rows of another job, and rows that nobody writes, stay in order.
LEMMA RowsOrderedWritten ==
    ASSUME StoreTypeOK, NEW j \in JobIds, NEW r, jobs' = [jobs EXCEPT ![j] = r], Ordered(r),
           \A k \in JobIds : Exists(k) => Ordered(jobs[k])
    PROVE  \A k \in JobIds : Exists(k)' => Ordered(jobs[k])'
<1> SUFFICES ASSUME NEW k \in JobIds, Exists(k)' PROVE Ordered(jobs'[k])
  OBVIOUS
<1>1. CASE k = j
  BY <1>1 DEF StoreTypeOK
<1>2. CASE k # j
  BY <1>2 DEF StoreTypeOK, Exists
<1> QED
  BY <1>1, <1>2

LEMMA NextOrder ==
    ASSUME Lag <= RetryDelay, ClaimInv, ClaimInv', TimesInv, OrderInv, [Next]_vars
    PROVE  OrderInv'
<1>1. \A w \in Workers : CompletionOnTime(w)'
  BY NextCompletionOnTime DEF OrderInv
<1>2. SUFFICES \A k \in JobIds : Exists(k)' => Ordered(jobs[k])'
  BY <1>1 DEF OrderInv
<1>3. StoreTypeOK /\ \A k \in JobIds : Exists(k) => Ordered(jobs[k])
  BY DEF ClaimInv, TypeOK, OrderInv
<1>4. CASE jobs' = jobs
  BY <1>3, <1>4 DEF Exists
<1>5. ASSUME NEW w \in Workers, CommitClaim(w)
      PROVE  \A k \in JobIds : Exists(k)' => Ordered(jobs[k])'
  <2>1. PICK j, r : /\ j \in JobIds /\ Exists(j)
                    /\ jobs' = [jobs EXCEPT ![j] = r]
                    /\ Ordered(jobs[j]) => Ordered(r)
    BY <1>5, CommitClaimRow DEF NewRow
  <2> QED
    BY <1>3, <2>1, RowsOrderedWritten
<1>6. ASSUME NEW w \in Workers, Complete(w), jobs' # jobs
      PROVE  \A k \in JobIds : Exists(k)' => Ordered(jobs[k])'
  <2>1. now <= since[w] + RetryDelay
    <3>1. now <= since[w] + Lag
      BY <1>6 DEF Complete, OrderInv, CompletionOnTime
    <3>2. now \in Nat /\ since[w] \in Nat /\ Lag \in Nat /\ RetryDelay \in Nat
      BY WorkerTypes, TimeAssumption, RetryPolicyAssumption DEF ClaimInv
    <3> QED
      BY <3>1, <3>2
  <2>2. PICK r : /\ held[w].job \in JobIds
                 /\ jobs' = [jobs EXCEPT ![held[w].job] = r]
                 /\ Ordered(jobs[held[w].job]) => Ordered(r)
    BY <1>6, <2>1, CompleteRow DEF NewRow
  <2>3. Exists(held[w].job)
    BY <1>6 DEF Complete, ClaimInv, WorkerInv, HeldStored, HasClaim, Holding
  <2> QED
    BY <1>3, <2>2, <2>3, RowsOrderedWritten
<1>7. ASSUME NEW w \in Workers, Renew(w), jobs' # jobs
      PROVE  \A k \in JobIds : Exists(k)' => Ordered(jobs[k])'
  <2>1. PICK r : /\ held[w].job \in JobIds /\ pc[w] \in HasClaim
                 /\ jobs' = [jobs EXCEPT ![held[w].job] = r]
                 /\ Ordered(jobs[held[w].job]) => Ordered(r)
    BY <1>7, RenewRow DEF NewRow
  <2>2. Exists(held[w].job)
    BY <2>1 DEF ClaimInv, WorkerInv, HeldStored
  <2> QED
    BY <1>3, <2>1, <2>2, RowsOrderedWritten
<1>8. ASSUME NEW j \in JobIds, EnqueueJob(j)
      PROVE  \A k \in JobIds : Exists(k)' => Ordered(jobs[k])'
  <2>1. PICK r : jobs' = [jobs EXCEPT ![j] = r] /\ Ordered(r)
    BY <1>8, EnqueueRow DEF NewRow
  <2> QED
    BY <1>3, <2>1, RowsOrderedWritten
<1> QED
  BY <1>4, <1>5, <1>6, <1>7, <1>8, WritesOnly

LEMMA InitOrder == Init => OrderInv
<1> SUFFICES ASSUME Init PROVE OrderInv
  OBVIOUS
<1> QED
  BY DEF Init, StoreInit, OrderInv, Exists, CompletionOnTime

\* The history of a job is in the order of its dates although a claim is dated with a clock
\* read before its transaction, a completion with one read inside it.  The assumption on the
\* retry delay is needed: a retry is due RetryDelay after a clock that may be one call older
\* than the failure it is appended with.
THEOREM HistoriesInOrder ==
    ASSUME Lag < LeaseDuration, Lag <= RetryDelay PROVE Spec => []HistoryChronological
<1>1. Init => OrderInv
  BY InitOrder
<1>2. ClaimInv /\ ClaimInv' /\ TimesInv /\ OrderInv /\ [Next]_vars => OrderInv'
  BY NextOrder
<1>3. OrderInv => HistoryChronological
  BY DEF OrderInv, Ordered, InOrder, HistoryChronological, Stored
<1> QED
  BY <1>1, <1>2, <1>3, TimesConsistent, PTL DEF Spec

-----------------------------------------------------------------------------
(* The heartbeat.                                                              *)

\* A lease outlasts the interval to the next renewal, the claim or renewal it was
\* computed for, the next one, and the two timers in between.
LeaseOutlasts == LeaseRenewalInterval + 2 * Lag + 2 * TimerSlack < LeaseDuration

Beating == {"waiting", "sending", "cancelled"}

\* Where the worker is while its heartbeat waits, and how late it may be.
BeatPlaced(w) ==
    LET beat == heartbeat[w] IN
    /\ beat.phase = "waiting" => pc[w] \in {"executing", "stopping"}
    /\ beat.phase = "waiting" /\ pc[w] = "executing" => now <= beat.at + TimerSlack
    /\ beat.phase = "waiting" /\ pc[w] = "stopping"
         => since[w] <= beat.at + TimerSlack /\ now <= beat.at + 2 * TimerSlack
    /\ beat.phase = "cancelled" => pc[w] = "completing"

\* The lease is ahead of the next thing the worker does by what that may take.
LeaseAhead(w) ==
    LET beat == heartbeat[w]
        lease == jobs[held[w].job].leaseExpiresAt
    IN  /\ beat.phase \in Beating => Owns(w)
        /\ beat.phase = "waiting"
             => beat.at + LeaseDuration <= lease + LeaseRenewalInterval + Lag
        /\ beat.phase = "sending"
             => beat.at + LeaseDuration <= lease + LeaseRenewalInterval + Lag + TimerSlack
        /\ beat.phase = "cancelled"
             => since[w] + LeaseDuration
                  <= lease + LeaseRenewalInterval + Lag + 2 * TimerSlack

WorkerProtected(w) == BeatPlaced(w) /\ LeaseAhead(w)

ProtectInv == \A w \in Workers : CompletionOnTime(w) /\ WorkerProtected(w)

LEMMA IntervalType == LeaseRenewalInterval \in Nat
<1>1. LeaseDuration \div 2 \in Nat
  BY TimeAssumption
<1> QED
  BY <1>1 DEF LeaseRenewalInterval

LEMMA ShorterThanLease ==
    ASSUME LeaseOutlasts PROVE Lag < LeaseDuration
<1>1. LeaseRenewalInterval \in Nat /\ Lag \in Nat /\ TimerSlack \in Nat
      /\ LeaseDuration \in Nat
  BY IntervalType, TimeAssumption
<1> HIDE DEF LeaseRenewalInterval
<1> QED
  BY <1>1 DEF LeaseOutlasts

\* What is known of a worker whose heartbeat has not ended by itself.
LEMMA BeatingFacts ==
    ASSUME ClaimInv, TimesInv, NEW w \in Workers, WorkerProtected(w),
           heartbeat[w].phase \in Beating
    PROVE  /\ Owns(w) /\ pc[w] \in Holding /\ pc[w] \in HasClaim
           /\ held[w].job \in JobIds /\ Exists(held[w].job)
           /\ jobs[held[w].job].status = "Running"
           /\ jobs[held[w].job].leaseExpiresAt \in Nat
<1>1. pc[w] \in Holding /\ Owns(w)
  BY DEF WorkerProtected, BeatPlaced, LeaseAhead, Beating, ClaimInv, WorkerInv, HeartbeatInPlace,
         Holding
<1>2. held[w].job \in JobIds /\ Exists(held[w].job) /\ pc[w] \in HasClaim
  BY <1>1 DEF ClaimInv, WorkerInv, HeldStored, HasClaim
<1>3. jobs[held[w].job].status = "Running"
  BY <1>1 DEF Owns, IsCurrentClaim
<1>4. Timed(jobs[held[w].job], now)
  BY <1>2 DEF TimesInv, RowsTimed
<1>5. jobs[held[w].job].leaseExpiresAt \in Nat
  <2>1. /\ LastOf(jobs[held[w].job].history).changedAt \in Nat
        /\ jobs[held[w].job].leaseExpiresAt \in Nat \cup {NoTime}
        /\ LeaseDuration \in Nat
    BY <1>4, KeptFacts, TimeAssumption DEF Timed
  <2> QED
    BY <1>3, <1>4, <2>1 DEF Timed, NoTime
<1> QED
  BY <1>1, <1>2, <1>3, <1>5

\* The lease of such a worker is never over.
LEMMA LeaseNotOver ==
    ASSUME LeaseOutlasts, ClaimInv, TimesInv, NEW w \in Workers, WorkerProtected(w),
           CompletionOnTime(w), heartbeat[w].phase \in Beating
    PROVE  now < jobs[held[w].job].leaseExpiresAt
<1> DEFINE lease == jobs[held[w].job].leaseExpiresAt
<1>1. /\ now \in Nat /\ since[w] \in Nat /\ heartbeat[w].at \in Nat /\ lease \in Nat
      /\ LeaseRenewalInterval \in Nat /\ LeaseDuration \in Nat /\ Lag \in Nat
      /\ TimerSlack \in Nat
  BY WorkerTypes, BeatingFacts, IntervalType, TimeAssumption DEF ClaimInv
<1> HIDE DEF LeaseRenewalInterval
<1>2. CASE heartbeat[w].phase = "waiting"
  <2>1. now <= heartbeat[w].at + 2 * TimerSlack
    BY <1>1, <1>2 DEF WorkerProtected, BeatPlaced
  <2>2. heartbeat[w].at + LeaseDuration <= lease + LeaseRenewalInterval + Lag
    BY <1>2 DEF WorkerProtected, LeaseAhead
  <2> HIDE DEF lease
  <2>3. now < lease
    BY <1>1, <2>1, <2>2 DEF LeaseOutlasts
  <2> QED
    BY <2>3 DEF lease
<1>3. CASE heartbeat[w].phase = "sending"
  <2>1. now <= heartbeat[w].at + Lag
    BY <1>3 DEF ClaimInv, WorkerInv, CallsOnTime
  <2>2. heartbeat[w].at + LeaseDuration <= lease + LeaseRenewalInterval + Lag + TimerSlack
    BY <1>3 DEF WorkerProtected, LeaseAhead
  <2> HIDE DEF lease
  <2>3. now < lease
    BY <1>1, <2>1, <2>2 DEF LeaseOutlasts
  <2> QED
    BY <2>3 DEF lease
<1>4. CASE heartbeat[w].phase = "cancelled"
  <2>1. now <= since[w] + Lag
    BY <1>4 DEF WorkerProtected, BeatPlaced, CompletionOnTime
  <2>2. since[w] + LeaseDuration <= lease + LeaseRenewalInterval + Lag + 2 * TimerSlack
    BY <1>4 DEF WorkerProtected, LeaseAhead
  <2> HIDE DEF lease
  <2>3. now < lease
    BY <1>1, <2>1, <2>2 DEF LeaseOutlasts
  <2> QED
    BY <2>3 DEF lease
<1> QED
  BY <1>2, <1>3, <1>4 DEF Beating

LEMMA NotBeating ==
    ASSUME NEW w \in Workers, heartbeat'[w].phase \notin Beating
    PROVE  WorkerProtected(w)'
BY DEF WorkerProtected, BeatPlaced, LeaseAhead, Beating

\* A worker stays protected through a step of another one that leaves its row alone.
LEMMA ProtectedKept ==
    ASSUME NEW w \in Workers, WorkerProtected(w),
           now' = now, pc'[w] = pc[w], since'[w] = since[w], held'[w] = held[w],
           heartbeat'[w] = heartbeat[w],
           heartbeat[w].phase \in Beating => jobs'[held[w].job] = jobs[held[w].job]
    PROVE  WorkerProtected(w)'
<1>1. BeatPlaced(w)'
  BY DEF WorkerProtected, BeatPlaced
<1>2. LeaseAhead(w)'
  <2>1. CASE heartbeat[w].phase \in Beating
    BY <2>1 DEF WorkerProtected, LeaseAhead, Owns, IsCurrentClaim
  <2>2. CASE heartbeat[w].phase \notin Beating
    BY <2>2 DEF LeaseAhead, Beating
  <2> QED
    BY <2>1, <2>2
<1> QED
  BY <1>1, <1>2 DEF WorkerProtected

\* No other worker writes the row of a claim that a heartbeat protects: it is not due,
\* and nobody else owns it.
LEMMA ProtectedRow ==
    ASSUME LeaseOutlasts, ClaimInv, TimesInv, ProtectInv, NEW v \in Workers,
           heartbeat[v].phase \in Beating,
           NEW j \in JobIds, NEW r, jobs' = [jobs EXCEPT ![j] = r],
           \/ ~Exists(j)
           \/ \E w \in Workers : IsDue(jobs[j], since[w])
           \/ \E w \in Workers \ {v} : pc[w] \in HasClaim /\ held[w].job = j /\ Owns(w)
    PROVE  jobs'[held[v].job] = jobs[held[v].job]
<1>1. /\ Owns(v) /\ pc[v] \in HasClaim /\ held[v].job \in JobIds /\ Exists(held[v].job)
      /\ jobs[held[v].job].status = "Running"
      /\ now < jobs[held[v].job].leaseExpiresAt
      /\ jobs[held[v].job].leaseExpiresAt \in Nat
      /\ jobs \in [JobIds -> Record \cup {NoJob}]
      /\ now \in Nat
  BY BeatingFacts, LeaseNotOver DEF ProtectInv, ClaimInv, TypeOK, StoreTypeOK, Record
<1>2. CASE held[v].job # j
  BY <1>1, <1>2
<1>3. CASE held[v].job = j
  <2>1. Exists(j)
    BY <1>1, <1>3
  <2>2. ASSUME NEW w \in Workers, IsDue(jobs[j], since[w]) PROVE FALSE
    <3>1. since[w] <= now /\ since[w] \in Nat
      BY WorkerTypes DEF ClaimInv, TimesInv, WorkerTimes, SinceRead
    <3>2. jobs[j].leaseExpiresAt <= since[w]
      BY <1>1, <1>3, <2>2 DEF IsDue, Pending
    <3> QED
      BY <1>1, <1>3, <3>1, <3>2
  <2>3. ASSUME NEW w \in Workers \ {v}, pc[w] \in HasClaim, held[w].job = j, Owns(w)
        PROVE  FALSE
    <3>1. jobs[held[v].job].currentStateChangeId # held[v].id
      BY <1>1, <1>3, <2>3, OneCurrentClaim
    <3> QED
      BY <1>1, <3>1 DEF Owns, IsCurrentClaim
  <2> QED
    BY <2>1, <2>2, <2>3
<1> QED
  BY <1>2, <1>3

\* A step of one worker leaves the others where they are.
LEMMA OthersStay ==
    ASSUME TypeOK, NEW w \in Workers, NEW v \in Workers \ {w},
           Work(w) \/ KeepAlive(w) \/ CallThrows(w) \/ RenewalThrows(w)
    PROVE  /\ now' = now /\ pc'[v] = pc[v] /\ since'[v] = since[v]
           /\ held'[v] = held[v] /\ heartbeat'[v] = heartbeat[v]
<1> USE DEF TypeOK
<1>1. CASE \E point : BackTo(w, point) /\ now' = now
  BY <1>1 DEF BackTo
<1>2. CASE ReadClock(w) \/ EndExecution(w)
  BY <1>2 DEF ReadClock, EndExecution, Goto
<1>3. CASE CommitClaim(w)
  BY <1>3 DEF CommitClaim
<1>4. CASE ReloadClaim(w)
  BY <1>4 DEF ReloadClaim, Goto
<1>5. CASE StopLeaseRenewal(w)
  BY <1>1, <1>5 DEF StopLeaseRenewal, Goto
<1>6. CASE KeepAlive(w) \/ RenewalThrows(w)
  BY <1>6 DEF KeepAlive, ReadRenewalClock, Renew, CancelWait, RenewalThrows
<1> QED
  BY <1>1, <1>2, <1>3, <1>4, <1>5, <1>6
     DEF Work, NothingDue, Complete, ExitLoop, CallThrows

\* The worker that takes the step, by what it does with its heartbeat.
LEMMA IdleProtected ==
    ASSUME ClaimInv, ClaimInv', ProtectInv, NEW w \in Workers,
           \/ ReadClock(w) \/ NothingDue(w) \/ CommitClaim(w) \/ Complete(w) \/ ExitLoop(w)
           \/ CallThrows(w) \/ CancelWait(w) \/ RenewalThrows(w)
    PROVE  WorkerProtected(w)'
<1>1. heartbeat \in [Workers -> Beats] /\ pc \in [Workers -> Points]
  BY DEF ClaimInv, TypeOK, Beats
<1>2. CASE \E b \in {NoBeat, EndedBeat} : heartbeat'[w] = b
  BY <1>2, NotBeating DEF NoBeat, EndedBeat, Beat, Beating
<1>3. CASE (ReadClock(w) \/ CommitClaim(w)) /\ heartbeat' = heartbeat
  <2>1. pc[w] \in {"idle", "claiming"}
    BY <1>3 DEF ReadClock, CommitClaim
  <2>2. heartbeat'[w].phase \notin Beating
    BY <1>3, <2>1 DEF ProtectInv, WorkerProtected, BeatPlaced, ClaimInv, WorkerInv,
                      HeartbeatInPlace, Beating
  <2> QED
    BY <2>2, NotBeating
<1>4. CASE \E point : BackTo(w, point)
  BY <1>1, <1>2, <1>4 DEF BackTo
<1> QED
  BY <1>1, <1>2, <1>3, <1>4
     DEF ReadClock, NothingDue, CommitClaim, Complete, ExitLoop, CallThrows, CancelWait,
         RenewalThrows

\* The lease the claim was given is computed from the clock it was made with.
LEMMA ReloadProtected ==
    ASSUME ClaimInv, NEW w \in Workers, ReloadClaim(w)
    PROVE  WorkerProtected(w)'
<1> DEFINE job == jobs[held[w].job]
<1>1. /\ now \in Nat /\ since[w] \in Nat /\ LeaseRenewalInterval \in Nat
      /\ LeaseDuration \in Nat /\ Lag \in Nat /\ TimerSlack \in Nat
      /\ now' = now /\ jobs' = jobs /\ TypeOK
  BY WorkerTypes, IntervalType, TimeAssumption DEF ClaimInv, ReloadClaim, storeVars
<1>2. /\ job.status = "Running" /\ job.leaseExpiresAt = since[w] + LeaseDuration
      /\ now <= since[w] + Lag
  BY DEF ReloadClaim, ClaimInv, WorkerInv, ReloadSafe, ClaimIntact, CallsOnTime
<1>3. held'[w].job = held[w].job /\ Owns(w)'
  BY <1>1, <1>2 DEF ReloadClaim, CopyOf, TypeOK, Owns, IsCurrentClaim
<1>4. CASE host = "up"
  <2>1. pc'[w] = "executing"
    BY <1>1, <1>4 DEF ReloadClaim, Goto, TypeOK
  <2>2. heartbeat'[w].phase = "waiting" /\ heartbeat'[w].at = now + LeaseRenewalInterval
    BY <1>1, <1>4 DEF ReloadClaim, NextBeat, Beat, TypeOK
  <2> HIDE DEF LeaseRenewalInterval
  <2>3. /\ now <= heartbeat'[w].at + TimerSlack
        /\ heartbeat'[w].at + LeaseDuration <= job.leaseExpiresAt + LeaseRenewalInterval + Lag
    BY <1>1, <1>2, <2>2
  <2> QED
    BY <1>1, <1>3, <2>1, <2>2, <2>3 DEF WorkerProtected, BeatPlaced, LeaseAhead
<1>5. CASE host # "up"
  <2>1. heartbeat'[w].phase = "ended"
    BY <1>1, <1>5 DEF ReloadClaim, EndedBeat, Beat, TypeOK
  <2> QED
    BY <2>1, NotBeating DEF Beating
<1> QED
  BY <1>4, <1>5

LEMMA ReadRenewalClockProtected ==
    ASSUME ClaimInv, TimesInv, ProtectInv, NEW w \in Workers, ReadRenewalClock(w)
    PROVE  WorkerProtected(w)'
<1> DEFINE lease == jobs[held[w].job].leaseExpiresAt
<1>1. /\ heartbeat'[w].phase = "sending" /\ heartbeat'[w].at = now
      /\ UNCHANGED <<jobs, now, held>>
  BY DEF ReadRenewalClock, Beat, ClaimInv, TypeOK, storeVars
<1>2. /\ Owns(w)
      /\ now <= heartbeat[w].at + TimerSlack
      /\ heartbeat[w].at + LeaseDuration <= lease + LeaseRenewalInterval + Lag
  BY DEF ReadRenewalClock, HeartbeatDue, ProtectInv, WorkerProtected, BeatPlaced, LeaseAhead,
         Beating
<1>3. now + LeaseDuration <= lease + LeaseRenewalInterval + Lag + TimerSlack
  <2>1. /\ lease \in Nat /\ now \in Nat /\ heartbeat[w].at \in Nat
        /\ LeaseRenewalInterval \in Nat
        /\ LeaseDuration \in Nat /\ Lag \in Nat /\ TimerSlack \in Nat
    BY WorkerTypes, BeatingFacts, IntervalType, TimeAssumption
       DEF ReadRenewalClock, HeartbeatDue, ProtectInv, ClaimInv, Beating
  <2> HIDE DEF lease, LeaseRenewalInterval
  <2> QED
    BY <1>2, <2>1
<1>4. Owns(w)'
  BY <1>1, <1>2 DEF Owns, IsCurrentClaim
<1> QED
  BY <1>1, <1>3, <1>4 DEF WorkerProtected, BeatPlaced, LeaseAhead

\* A renewal that is done sets the lease from the clock the heartbeat read before it.
LEMMA RenewProtected ==
    ASSUME ClaimInv, TimesInv, NEW w \in Workers, Renew(w)
    PROVE  WorkerProtected(w)'
<1>1. /\ now \in Nat /\ since[w] \in Nat /\ heartbeat[w].at \in Nat
      /\ LeaseRenewalInterval \in Nat
      /\ LeaseDuration \in Nat /\ Lag \in Nat /\ TimerSlack \in Nat
      /\ UNCHANGED <<now, pc, since, held>> /\ TypeOK
  BY WorkerTypes, IntervalType, TimeAssumption DEF ClaimInv, Renew
<1>2. CASE ~Owns(w)
  <2>1. heartbeat'[w].phase = "ended"
    BY <1>1, <1>2 DEF Renew, Owns, EndedBeat, Beat, TypeOK
  <2> QED
    BY <2>1, NotBeating DEF Beating
<1>3. CASE Owns(w)
  <2> DEFINE row == jobs'[held[w].job]
  <2>1. row.leaseExpiresAt = heartbeat[w].at + LeaseDuration /\ Owns(w)'
    <3>1. PICK r : /\ held[w].job \in JobIds
                   /\ jobs' = [jobs EXCEPT ![held[w].job] = r]
                   /\ r.leaseExpiresAt = heartbeat[w].at + LeaseDuration
                   /\ r.status = "Running"
                   /\ r.currentStateChangeId = held[w].id
      BY <1>3, RenewRow
    <3>2. row = r
      BY <1>1, <3>1 DEF TypeOK, StoreTypeOK
    <3> QED
      BY <1>1, <3>1, <3>2 DEF Owns, IsCurrentClaim
  <2>2. heartbeat'[w].phase = "waiting" /\ heartbeat'[w].at = now + LeaseRenewalInterval
    BY <1>1, <1>3 DEF Renew, Owns, NextBeat, Beat, TypeOK
  <2>3. /\ pc'[w] \in {"executing", "stopping"}
        /\ since[w] <= now /\ now <= heartbeat[w].at + Lag
    BY <1>1 DEF Renew, ClaimInv, WorkerInv, HeartbeatInPlace, CallsOnTime, TimesInv,
                WorkerTimes, SinceRead
  <2> HIDE DEF LeaseRenewalInterval
  <2>4. /\ now <= heartbeat'[w].at + TimerSlack
        /\ now <= heartbeat'[w].at + 2 * TimerSlack
        /\ since[w] <= heartbeat'[w].at + TimerSlack
        /\ heartbeat'[w].at + LeaseDuration
             <= row.leaseExpiresAt + LeaseRenewalInterval + Lag
    BY <1>1, <2>1, <2>2, <2>3
  <2> QED
    BY <1>1, <2>1, <2>2, <2>3, <2>4 DEF WorkerProtected, BeatPlaced, LeaseAhead
<1> QED
  BY <1>2, <1>3

LEMMA EndExecutionProtected ==
    ASSUME ClaimInv, ProtectInv, NEW w \in Workers, EndExecution(w)
    PROVE  WorkerProtected(w)'
<1>1. /\ now \in Nat /\ heartbeat[w].at \in Nat /\ TimerSlack \in Nat
      /\ UNCHANGED <<jobs, now, held, heartbeat>>
      /\ pc[w] = "executing" /\ pc'[w] = "stopping" /\ since'[w] = now
  BY WorkerTypes, TimeAssumption DEF ClaimInv, EndExecution, Goto, TypeOK, storeVars
<1>2. BeatPlaced(w) /\ LeaseAhead(w)
  BY DEF ProtectInv, WorkerProtected
<1>3. /\ heartbeat[w].phase # "cancelled"
      /\ heartbeat[w].phase = "waiting" => /\ now <= heartbeat[w].at + TimerSlack
                                           /\ now <= heartbeat[w].at + 2 * TimerSlack
  BY <1>1, <1>2 DEF BeatPlaced
<1>4. BeatPlaced(w)'
  BY <1>1, <1>3 DEF BeatPlaced
<1>5. LeaseAhead(w)'
  BY <1>1, <1>2, <1>3 DEF LeaseAhead, Owns, IsCurrentClaim
<1> QED
  BY <1>4, <1>5 DEF WorkerProtected

LEMMA StopLeaseRenewalProtected ==
    ASSUME ClaimInv, TimesInv, ProtectInv, NEW w \in Workers, StopLeaseRenewal(w)
    PROVE  WorkerProtected(w)'
<1>1. /\ now' = now /\ jobs' = jobs /\ TypeOK
      /\ pc[w] = "stopping" /\ heartbeat[w].phase # "sending"
      /\ BeatPlaced(w) /\ LeaseAhead(w)
  BY DEF ClaimInv, StopLeaseRenewal, storeVars, ProtectInv, WorkerProtected
<1>2. CASE BackTo(w, "exited")
  BY <1>1, <1>2, NotBeating DEF BackTo, NoBeat, Beat, Beating, TypeOK
<1>3. CASE ~BackTo(w, "exited") /\ heartbeat[w].phase # "waiting"
  <2>1. heartbeat'[w].phase \notin Beating
    BY <1>1, <1>3 DEF StopLeaseRenewal, BeatPlaced, Beating, TypeOK
  <2> QED
    BY <2>1, NotBeating
<1>4. CASE ~BackTo(w, "exited") /\ heartbeat[w].phase = "waiting"
  <2> DEFINE lease == jobs[held[w].job].leaseExpiresAt
  <2>1. /\ held' = held /\ pc'[w] = "completing" /\ since'[w] = now
        /\ heartbeat'[w].phase = "cancelled"
    BY <1>1, <1>4 DEF StopLeaseRenewal, Goto, Beat, TypeOK
  <2>2. /\ now <= heartbeat[w].at + 2 * TimerSlack
        /\ heartbeat[w].at + LeaseDuration <= lease + LeaseRenewalInterval + Lag
        /\ Owns(w)
    BY <1>1, <1>4 DEF BeatPlaced, LeaseAhead, Beating
  <2>3. /\ now \in Nat /\ heartbeat[w].at \in Nat /\ lease \in Nat
        /\ LeaseRenewalInterval \in Nat /\ LeaseDuration \in Nat /\ Lag \in Nat
        /\ TimerSlack \in Nat
    BY <1>1, <1>4, WorkerTypes, BeatingFacts, IntervalType, TimeAssumption
       DEF Beating, WorkerProtected
  <2>4. now + LeaseDuration <= lease + LeaseRenewalInterval + Lag + 2 * TimerSlack
    <3> HIDE DEF lease, LeaseRenewalInterval
    <3> QED
      BY <2>2, <2>3
  <2>5. Owns(w)'
    BY <1>1, <2>1, <2>2 DEF Owns, IsCurrentClaim
  <2> QED
    BY <1>1, <2>1, <2>4, <2>5 DEF WorkerProtected, BeatPlaced, LeaseAhead
<1> QED
  BY <1>2, <1>3, <1>4

\* The clock stands still when a timer or a call is as late as it may be.
LEMMA TickProtected ==
    ASSUME ClaimInv, ProtectInv, Tick, NEW w \in Workers
    PROVE  WorkerProtected(w)'
<1>1. /\ now \in Nat /\ now' = now + 1 /\ since[w] \in Nat /\ heartbeat[w].at \in Nat
      /\ TimerSlack \in Nat /\ InTime(w)
      /\ UNCHANGED <<jobs, pc, since, held, heartbeat>>
  BY WorkerTypes, TimeAssumption DEF ClaimInv, Tick, storeVars, workerVars
<1>2. BeatPlaced(w) /\ LeaseAhead(w)
  BY DEF ProtectInv, WorkerProtected
<1>3. LeaseAhead(w)'
  <2>1. UNCHANGED <<jobs, since, held, heartbeat>> /\ (Owns(w)' <=> Owns(w))
    BY <1>1 DEF Owns, IsCurrentClaim
  <2> QED
    BY <1>2, <2>1 DEF LeaseAhead
<1>4. CASE heartbeat[w].phase = "waiting" /\ pc[w] = "executing"
  BY <1>1, <1>2, <1>3, <1>4 DEF BeatPlaced, InTime, WorkerProtected
<1>5. CASE heartbeat[w].phase = "waiting" /\ pc[w] = "stopping"
  <2>1. now < since[w] + TimerSlack /\ since[w] <= heartbeat[w].at + TimerSlack
    BY <1>1, <1>2, <1>5 DEF InTime, BeatPlaced
  <2>2. now + 1 <= heartbeat[w].at + 2 * TimerSlack
    BY <1>1, <2>1
  <2> QED
    BY <1>1, <1>2, <1>3, <1>5, <2>2 DEF BeatPlaced, WorkerProtected
<1>6. BeatPlaced(w)'
  BY <1>1, <1>2, <1>4, <1>5 DEF BeatPlaced, WorkerProtected
<1> QED
  BY <1>3, <1>6 DEF WorkerProtected

\* Nobody else writes the row of a claim that a heartbeat protects.
LEMMA OthersProtected ==
    ASSUME LeaseOutlasts, ClaimInv, TimesInv, ProtectInv, NEW w \in Workers,
           Work(w) \/ KeepAlive(w) \/ CallThrows(w) \/ RenewalThrows(w),
           NEW v \in Workers \ {w}
    PROVE  WorkerProtected(v)'
<1>1. /\ now' = now /\ pc'[v] = pc[v] /\ since'[v] = since[v]
      /\ held'[v] = held[v] /\ heartbeat'[v] = heartbeat[v]
  BY OthersStay DEF ClaimInv
<1>2. ASSUME heartbeat[v].phase \in Beating PROVE jobs'[held[v].job] = jobs[held[v].job]
  <2>1. CASE jobs' = jobs
    BY <2>1
  <2>2. CASE CommitClaim(w)
    <3>1. PICK j, r : /\ j \in JobIds /\ IsDue(jobs[j], since[w])
                     /\ jobs' = [jobs EXCEPT ![j] = r]
      BY <2>2, CommitClaimRow
    <3> QED
      BY <1>2, <3>1, ProtectedRow
  <2>3. CASE (Complete(w) \/ Renew(w)) /\ jobs' # jobs
    <3>1. PICK r : /\ Owns(w) /\ held[w].job \in JobIds
                   /\ jobs' = [jobs EXCEPT ![held[w].job] = r]
      BY <2>3, CompleteRow, RenewRow
    <3>2. pc[w] \in HasClaim
      BY <2>3 DEF Complete, Renew, ClaimInv, WorkerInv, HeartbeatInPlace, HasClaim, Holding
    <3> QED
      BY <1>2, <3>1, <3>2, ProtectedRow
  <2> QED
    BY <2>1, <2>2, <2>3
       DEF Work, KeepAlive, ReadClock, NothingDue, ReloadClaim, EndExecution,
           StopLeaseRenewal, ExitLoop, ReadRenewalClock, CancelWait, CallThrows,
           RenewalThrows, storeVars
<1>3. WorkerProtected(v)
  BY DEF ProtectInv
<1> QED
  BY <1>1, <1>2, <1>3, ProtectedKept

LEMMA NextProtect ==
    ASSUME LeaseOutlasts, ClaimInv, ClaimInv', TimesInv, ProtectInv, [Next]_vars
    PROVE  ProtectInv'
<1>1. ASSUME NEW w \in Workers PROVE CompletionOnTime(w)'
  BY NextCompletionOnTime DEF ProtectInv
<1>2. ASSUME NEW w \in Workers, NEW v \in Workers,
             Work(w) \/ KeepAlive(w) \/ CallThrows(w) \/ RenewalThrows(w)
      PROVE  WorkerProtected(v)'
  <2>1. CASE v # w
    BY <1>2, <2>1, OthersProtected
  <2>2. WorkerProtected(w)'
    BY <1>2, IdleProtected, ReloadProtected, ReadRenewalClockProtected, RenewProtected,
       EndExecutionProtected, StopLeaseRenewalProtected DEF Work, KeepAlive
  <2> QED
    BY <2>1, <2>2
<1>3. ASSUME NEW j \in JobIds, EnqueueJob(j), NEW v \in Workers PROVE WorkerProtected(v)'
  <2>1. PICK r : jobs' = [jobs EXCEPT ![j] = r] /\ ~Exists(j)
    BY <1>3, EnqueueRow
  <2>2. heartbeat[v].phase \in Beating => jobs'[held[v].job] = jobs[held[v].job]
    BY <2>1, ProtectedRow
  <2> QED
    BY <1>3, <2>2, ProtectedKept DEF EnqueueJob, workerVars, ProtectInv
<1>4. ASSUME RequestStop \/ StopHost \/ UNCHANGED vars, NEW v \in Workers
      PROVE  WorkerProtected(v)'
  BY <1>4, ProtectedKept DEF RequestStop, StopHost, vars, workerVars, storeVars, ProtectInv
<1>5. ASSUME Crash, NEW v \in Workers PROVE WorkerProtected(v)'
  BY <1>5, NotBeating DEF Crash, NoBeat, Beat, Beating
<1>6. ASSUME Start, NEW v \in Workers PROVE WorkerProtected(v)'
  <2>1. pc[v] = "exited"
    BY <1>6 DEF Start, ClaimInv, DownIsExited, AllExited
  <2>2. heartbeat'[v].phase \notin Beating
    BY <1>6, <2>1 DEF Start, ProtectInv, WorkerProtected, BeatPlaced, ClaimInv, WorkerInv,
                      HeartbeatInPlace, Beating
  <2> QED
    BY <2>2, NotBeating
<1>7. ASSUME Tick, NEW v \in Workers PROVE WorkerProtected(v)'
  BY <1>7, TickProtected
<1>8. ASSUME NEW v \in Workers PROVE WorkerProtected(v)'
  BY <1>2, <1>3, <1>4, <1>5, <1>6, <1>7 DEF Next
<1> QED
  BY <1>1, <1>8 DEF ProtectInv

LEMMA InitProtect == Init => ProtectInv
<1> SUFFICES ASSUME Init, NEW w \in Workers PROVE CompletionOnTime(w) /\ WorkerProtected(w)
  BY DEF ProtectInv
<1> QED
  BY DEF Init, NoBeat, Beat, CompletionOnTime, WorkerProtected, BeatPlaced, LeaseAhead, Beating

\* The heartbeat keeps the lease (README.md:12 and :30): as long as it has not ended by
\* itself, the worker owns the running job until its result is stored.  The assumption is
\* what the renewal interval of half a lease leaves for two calls and two timers: TLC finds
\* a takeover when the two sides are equal.
THEOREM HeartbeatKeepsLease ==
    ASSUME LeaseOutlasts PROVE Spec => []HeartbeatProtects
<1>1. Spec => [](ClaimInv /\ TimesInv)
  BY ShorterThanLease, TimesConsistent
<1>2. Init => ProtectInv
  BY InitProtect
<1>3. ClaimInv /\ ClaimInv' /\ TimesInv /\ ProtectInv /\ [Next]_vars => ProtectInv'
  BY NextProtect
<1>4. ProtectInv => HeartbeatProtects
  BY DEF ProtectInv, WorkerProtected, LeaseAhead, Beating, HeartbeatProtects
<1> QED
  BY <1>1, <1>2, <1>3, <1>4, PTL DEF Spec

-----------------------------------------------------------------------------
(* Whatever the timing: what holds of the pool without any bound on its calls. *)

IdsIssued == \A j \in Stored : jobs[j].currentStateChangeId \in 1 .. lastId

\* What a worker passes to the store: a row that exists, a change id that was handed out and
\* a clock reading of the past.
CallInPlace(w) ==
    /\ pc[w] \in HasClaim =>
         held[w].job \in JobIds /\ Exists(held[w].job) /\ held[w].id \in 1 .. lastId
    /\ HeartbeatInPlace(w)
    /\ since[w] <= now
    /\ heartbeat[w].phase = "sending" => heartbeat[w].at <= now

CallInv ==
    /\ TypeOK /\ DownIsExited /\ IdsIssued
    /\ \A w \in Workers : CallInPlace(w)

\* The rows stay, and their change ids have been handed out.
RowsKept ==
    /\ StoreTypeOK' /\ IdsIssued'
    /\ lastId <= lastId' /\ now <= now'
    /\ \A j \in JobIds : Exists(j) => Exists(j)'

LEMMA RowsKeptUnwritten ==
    ASSUME CallInv, UNCHANGED storeVars, now' \in Nat, now <= now'
    PROVE  RowsKept
<1>1. jobs' = jobs /\ lastId' = lastId /\ lastId \in Nat /\ StoreTypeOK
  BY DEF storeVars, CallInv, TypeOK, StoreTypeOK
<1>2. StoreTypeOK' /\ lastId <= lastId'
  BY <1>1 DEF StoreTypeOK
<1>3. IdsIssued' /\ \A j \in JobIds : Exists(j) => Exists(j)'
  BY <1>1 DEF CallInv, IdsIssued, Stored, Exists
<1> QED
  BY <1>2, <1>3 DEF RowsKept

LEMMA RowsKeptWritten ==
    ASSUME CallInv, NEW j \in JobIds, NEW r \in Record, jobs' = [jobs EXCEPT ![j] = r],
           lastId' \in Nat, lastId <= lastId', r.currentStateChangeId \in 1 .. lastId',
           now' = now
    PROVE  RowsKept
<1>1. StoreTypeOK /\ lastId \in Nat /\ now \in Nat
  BY DEF CallInv, TypeOK, StoreTypeOK
<1>2. StoreTypeOK' /\ now <= now'
  BY <1>1 DEF StoreTypeOK, Record
<1>3. r # NoJob
  BY DEF Record, JobRecords, NoJob, JobStatus
<1>4. \A k \in JobIds : jobs'[k] = IF k = j THEN r ELSE jobs[k]
  BY <1>1 DEF StoreTypeOK
<1>5. \A k \in JobIds : Exists(k) => Exists(k)'
  BY <1>3, <1>4 DEF Exists
<1>6. IdsIssued'
  <2> SUFFICES ASSUME NEW k \in JobIds, Exists(k)'
               PROVE  jobs'[k].currentStateChangeId \in 1 .. lastId'
    BY DEF IdsIssued, Stored
  <2>1. CASE k = j
    BY <1>4, <2>1
  <2>2. CASE k # j
    <3>1. jobs[k].currentStateChangeId \in 1 .. lastId
      BY <1>4, <2>2 DEF CallInv, IdsIssued, Stored, Exists
    <3> QED
      BY <1>1, <1>4, <2>2, <3>1
  <2> QED
    BY <2>1, <2>2
<1> QED
  BY <1>2, <1>5, <1>6 DEF RowsKept

\* A worker that does not take the step.
LEMMA CallUndisturbed ==
    ASSUME CallInv, RowsKept, NEW v \in Workers, WorkerSame(v)
    PROVE  CallInPlace(v)'
<1>1. /\ TypeOK /\ CallInPlace(v) /\ lastId \in Nat /\ lastId' \in Nat
      /\ now \in Nat /\ now' \in Nat /\ since[v] \in Nat /\ heartbeat[v].at \in Nat
  BY WorkerTypes DEF CallInv, RowsKept, StoreTypeOK
<1>2. /\ pc'[v] = pc[v] /\ held'[v] = held[v] /\ since'[v] = since[v]
      /\ heartbeat'[v].phase = "sending" => heartbeat'[v] = heartbeat[v]
  BY DEF WorkerSame
<1>3. pc[v] \in HasClaim =>
        /\ held[v].job \in JobIds /\ held[v].id \in 1 .. lastId'
        /\ jobs'[held[v].job] # NoJob
  BY <1>1 DEF RowsKept, CallInPlace, Exists
<1>4. since[v] <= now' /\ (heartbeat[v].phase = "sending" => heartbeat[v].at <= now')
  BY <1>1 DEF RowsKept, CallInPlace
<1> QED
  BY <1>1, <1>2, <1>3, <1>4 DEF CallInPlace, HeartbeatInPlace, Exists

\* A step of worker w.
LEMMA CallStep ==
    ASSUME CallInv, RowsKept, NEW w \in Workers, pc[w] # "exited", host' = host,
           TypeOK', CallInPlace(w)', \A v \in Workers \ {w} : WorkerSame(v)
    PROVE  CallInv'
<1>1. host # "down"
  BY DEF CallInv, DownIsExited, AllExited
<1>2. \A v \in Workers : CallInPlace(v)'
  BY CallUndisturbed
<1> QED
  BY <1>1, <1>2 DEF CallInv, DownIsExited, RowsKept

LEMMA CallFacts ==
    ASSUME CallInv, NEW w \in Workers
    PROVE  /\ TypeOK /\ StoreTypeOK /\ CallInPlace(w)
           /\ lastId \in Nat /\ now \in Nat /\ since[w] \in Nat /\ heartbeat[w].at \in Nat
           /\ LeaseDuration \in Nat
BY WorkerTypes, TimeAssumption DEF CallInv

\* A worker that goes back to its loop passes nothing to the store.
LEMMA BackToInPlace ==
    ASSUME TypeOK, NEW w \in Workers, NEW point \in {"idle", "exited"}, BackTo(w, point),
           now' \in Nat
    PROVE  CallInPlace(w)'
<1>1. pc'[w] = point /\ since'[w] = 0 /\ heartbeat'[w] = NoBeat
  BY DEF BackTo, TypeOK
<1> QED
  BY <1>1 DEF CallInPlace, HeartbeatInPlace, HasClaim, Holding, NoBeat, Beat

LEMMA GiveUpInPlace ==
    ASSUME CallInv, NEW w \in Workers,
           NothingDue(w) \/ CallThrows(w) \/ ExitLoop(w)
    PROVE  CallInv'
<1>1. TypeOK /\ now \in Nat /\ lastId \in Nat
  BY CallFacts
<1>2. /\ UNCHANGED <<storeVars, now, host>> /\ pc[w] # "exited"
      /\ faults' \in 0 .. MaxFaults
  BY <1>1, TimeAssumption DEF NothingDue, CallThrows, ExitLoop, Fault, TypeOK
<1>3. PICK point \in {"idle", "exited"} : BackTo(w, point)
  BY DEF NothingDue, CallThrows, ExitLoop
<1>4. RowsKept
  BY <1>1, <1>2, RowsKeptUnwritten
<1>5. TypeOK'
  BY <1>1, <1>2, <1>3, BackToSafe DEF TypeOK, StoreTypeOK, storeVars
<1>6. CallInPlace(w)'
  BY <1>1, <1>2, <1>3, BackToInPlace
<1> QED
  BY <1>1, <1>2, <1>3, <1>4, <1>5, <1>6, BackToSafe, CallStep

LEMMA ReadClockInPlace ==
    ASSUME CallInv, NEW w \in Workers, ReadClock(w)
    PROVE  CallInv'
<1> USE DEF ReadClock, Goto
<1>1. TypeOK /\ CallInPlace(w) /\ now \in Nat
  BY CallFacts
<1>2. TypeOK'
  BY <1>1 DEF TypeOK, StoreTypeOK, storeVars, Points
<1>3. RowsKept
  BY <1>1, RowsKeptUnwritten
<1>4. pc'[w] = "claiming" /\ since'[w] = now /\ now' = now
      /\ heartbeat'[w] = heartbeat[w] /\ pc[w] = "idle"
  BY <1>1 DEF TypeOK
<1>5. CallInPlace(w)'
  BY <1>1, <1>4 DEF CallInPlace, HeartbeatInPlace, HasClaim, Holding
<1>6. \A v \in Workers \ {w} : WorkerSame(v)
  BY <1>1 DEF WorkerSame, TypeOK
<1> QED
  BY <1>2, <1>3, <1>4, <1>5, <1>6, CallStep

LEMMA CommitInPlace ==
    ASSUME CallInv, NEW w \in Workers, CommitClaim(w)
    PROVE  CallInv'
<1>1. /\ TypeOK /\ StoreTypeOK /\ CallInPlace(w) /\ lastId \in Nat /\ now \in Nat
      /\ since[w] \in Nat /\ since[w] + LeaseDuration \in Nat
  BY CallFacts
<1>2. PICK j \in JobIds :
        /\ TryClaimNextDueJob(j, w, since[w], since[w] + LeaseDuration)
        /\ held' = [held EXCEPT ![w] = [job |-> j, id |-> lastId', attempts |-> 0]]
  BY DEF CommitClaim
<1>3. /\ pc[w] = "claiming" /\ pc' = [pc EXCEPT ![w] = "reloading"]
      /\ UNCHANGED <<now, host, since, outcome, heartbeat, faults>>
  BY DEF CommitClaim
<1>4. /\ lastId' \in Nat /\ lastId' > lastId
      /\ \E r : /\ jobs' = [jobs EXCEPT ![j] = r]
                /\ Acquired(r, jobs[j], w, lastId', since[w] + LeaseDuration)
  BY <1>1, <1>2, ClaimStep
<1>5. PICK r \in Record : jobs' = [jobs EXCEPT ![j] = r] /\ r.currentStateChangeId = lastId'
  BY <1>4 DEF Acquired
<1>6. RowsKept
  <2>1. lastId <= lastId' /\ r.currentStateChangeId \in 1 .. lastId'
    BY <1>1, <1>4, <1>5
  <2> QED
    BY <1>3, <1>4, <1>5, <2>1, RowsKeptWritten
<1>7. TypeOK'
  <2>1. pc' \in [Workers -> Points]
    BY <1>1, <1>3 DEF TypeOK, Points
  <2>2. held' \in [Workers -> [job : JobIds \cup {-1}, id : Nat, attempts : Nat]]
    BY <1>1, <1>2, <1>4 DEF TypeOK
  <2> QED
    BY <1>1, <1>3, <1>6, <2>1, <2>2 DEF TypeOK, RowsKept
<1>8. CallInPlace(w)'
  <2>1. /\ pc'[w] = "reloading" /\ held'[w].job = j /\ held'[w].id = lastId'
        /\ jobs'[j] = r /\ since'[w] = since[w] /\ heartbeat'[w] = heartbeat[w]
    BY <1>1, <1>2, <1>3, <1>5 DEF TypeOK, StoreTypeOK
  <2>2. r # NoJob
    BY DEF Record, JobRecords, NoJob, JobStatus
  <2>3. lastId' \in 1 .. lastId'
    BY <1>1, <1>4
  <2>4. heartbeat[w].phase # "sending"
    BY <1>1, <1>3 DEF CallInPlace, HeartbeatInPlace
  <2> QED
    BY <1>1, <1>3, <2>1, <2>2, <2>3, <2>4 DEF CallInPlace, HeartbeatInPlace, Exists
<1>9. \A v \in Workers \ {w} : WorkerSame(v)
  BY <1>1, <1>2, <1>3 DEF WorkerSame, TypeOK
<1> QED
  BY <1>3, <1>6, <1>7, <1>8, <1>9, CallStep

\* The row that is read back may have been taken over: its change id is one of those handed
\* out all the same.
LEMMA ReloadInPlace ==
    ASSUME CallInv, NEW w \in Workers, ReloadClaim(w)
    PROVE  CallInv'
<1> DEFINE j == held[w].job
           copy == CopyOf(j)
<1>1. TypeOK /\ StoreTypeOK /\ CallInPlace(w) /\ now \in Nat /\ lastId \in Nat
  BY CallFacts
<1>2. pc[w] = "reloading" /\ UNCHANGED <<storeVars, now, host, faults>>
  BY DEF ReloadClaim
<1>3. j \in JobIds /\ Exists(j)
  BY <1>1, <1>2 DEF CallInPlace, HasClaim
<1>4. jobs[j] \in Record /\ AttemptCount(jobs[j]) \in Nat
  BY <1>1, <1>3, RowFacts, AttemptCountType
<1>5. /\ copy.job = j /\ copy.id \in 1 .. lastId
      /\ copy \in [job : JobIds \cup {-1}, id : Nat, attempts : Nat]
  <2>1. jobs[j].currentStateChangeId \in 1 .. lastId
    BY <1>3 DEF CallInv, IdsIssued, Stored
  <2> QED
    BY <1>1, <1>3, <1>4, <2>1 DEF CopyOf
<1>6. held' = [held EXCEPT ![w] = copy]
  BY DEF ReloadClaim
<1> HIDE DEF j, copy
<1>7. RowsKept
  BY <1>1, <1>2, RowsKeptUnwritten
<1>8. TypeOK'
  <2>1. held' \in [Workers -> [job : JobIds \cup {-1}, id : Nat, attempts : Nat]]
    BY <1>1, <1>5, <1>6 DEF TypeOK
  <2>2. heartbeat' \in [Workers -> Beats]
    <3>1. EndedBeat \in Beats /\ NextBeat \in Beats /\ heartbeat \in [Workers -> Beats]
      BY <1>1, NextBeatType DEF TypeOK, EndedBeat, Beat, Beats
    <3>2. \E b \in Beats : heartbeat' = [heartbeat EXCEPT ![w] = b]
      BY <3>1 DEF ReloadClaim
    <3> QED
      BY <3>1, <3>2
  <2>3. pc' \in [Workers -> Points] /\ since' \in [Workers -> Nat]
    <3>1. PICK point \in Points : Goto(w, point)
      BY DEF ReloadClaim, Points
    <3> QED
      BY <1>1, <3>1, GotoType
  <2>4. outcome' \in [Workers -> {"none", "succeeded", "failed", "cancelled"}]
    BY <1>1 DEF ReloadClaim, TypeOK
  <2> QED
    BY <1>1, <1>2, <1>7, <2>1, <2>2, <2>3, <2>4 DEF TypeOK, RowsKept, Beats
<1>9. /\ since'[w] = now /\ heartbeat'[w].phase # "sending"
      /\ held'[w] = copy
  BY <1>1, <1>6 DEF ReloadClaim, Goto, TypeOK, NextBeat, EndedBeat, Beat
<1>10. CallInPlace(w)'
  <2>1. jobs' = jobs /\ lastId' = lastId /\ now' = now
    BY <1>2 DEF storeVars
  <2> QED
    BY <1>1, <1>3, <1>5, <1>9, <2>1 DEF CallInPlace, HeartbeatInPlace, Exists
<1>11. \A v \in Workers \ {w} : WorkerSame(v)
  BY <1>1 DEF ReloadClaim, Goto, WorkerSame, TypeOK
<1> QED
  BY <1>2, <1>7, <1>8, <1>10, <1>11, CallStep

LEMMA HeartbeatStepsInPlace ==
    ASSUME CallInv, NEW w \in Workers,
           ReadRenewalClock(w) \/ CancelWait(w) \/ RenewalThrows(w)
    PROVE  CallInv'
<1>1. TypeOK /\ CallInPlace(w) /\ now \in Nat
  BY CallFacts
<1>2. UNCHANGED <<storeVars, now, host, pc, since, held, outcome>>
  BY DEF ReadRenewalClock, CancelWait, RenewalThrows
<1>3. PICK b \in {EndedBeat, Beat("sending", now)} : heartbeat' = [heartbeat EXCEPT ![w] = b]
  BY DEF ReadRenewalClock, CancelWait, RenewalThrows
<1>4. pc[w] \in {"executing", "stopping"}
  BY <1>1 DEF ReadRenewalClock, CancelWait, RenewalThrows, CallInPlace, HeartbeatInPlace
<1>5. faults' \in 0 .. MaxFaults
  BY <1>1, TimeAssumption DEF ReadRenewalClock, CancelWait, RenewalThrows, Fault, TypeOK
<1>6. RowsKept
  BY <1>1, <1>2, RowsKeptUnwritten
<1>7. b \in Beats /\ (b.phase = "sending" => b.at = now)
  BY <1>1 DEF EndedBeat, Beat, Beats
<1>8. TypeOK'
  BY <1>1, <1>2, <1>3, <1>5, <1>6, <1>7 DEF TypeOK, RowsKept, Beats
<1>9. CallInPlace(w)'
  <2>1. heartbeat'[w] = b
    BY <1>1, <1>3 DEF TypeOK
  <2> QED
    BY <1>1, <1>2, <1>4, <1>7, <2>1 DEF CallInPlace, HeartbeatInPlace, Exists, storeVars
<1>10. \A v \in Workers \ {w} : WorkerSame(v)
  BY <1>1, <1>2, <1>3 DEF WorkerSame, TypeOK
<1> QED
  BY <1>2, <1>4, <1>6, <1>8, <1>9, <1>10, CallStep

LEMMA EndInPlace ==
    ASSUME CallInv, NEW w \in Workers, EndExecution(w) \/ StopLeaseRenewal(w)
    PROVE  CallInv'
<1>1. TypeOK /\ CallInPlace(w) /\ now \in Nat /\ lastId \in Nat
  BY CallFacts
<1>2. /\ UNCHANGED <<storeVars, now, host, faults>>
      /\ pc[w] \in {"executing", "stopping"}
  BY DEF EndExecution, StopLeaseRenewal
<1>3. RowsKept
  BY <1>1, <1>2, RowsKeptUnwritten
<1>4. CASE BackTo(w, "exited")
  <2>1. TypeOK'
    BY <1>1, <1>2, <1>4, BackToSafe DEF TypeOK, StoreTypeOK, storeVars
  <2>2. CallInPlace(w)'
    BY <1>1, <1>2, <1>4, BackToInPlace
  <2> QED
    BY <1>1, <1>2, <1>3, <1>4, <2>1, <2>2, BackToSafe, CallStep
<1>5. CASE ~BackTo(w, "exited")
  <2>1. /\ held' = held
        /\ \/ Goto(w, "stopping") /\ heartbeat' = heartbeat
           \/ /\ Goto(w, "completing")
              /\ heartbeat[w].phase # "sending"
              /\ \E b \in {heartbeat[w], Beat("cancelled", 0)} :
                   heartbeat' = [heartbeat EXCEPT ![w] = b]
    BY <1>5 DEF EndExecution, StopLeaseRenewal
  <2>2. outcome' \in [Workers -> {"none", "succeeded", "failed", "cancelled"}]
    BY <1>1, <1>5 DEF EndExecution, StopLeaseRenewal, TypeOK
  <2>3. TypeOK'
    <3>1. heartbeat' \in [Workers -> Beats]
      <4>1. heartbeat \in [Workers -> Beats] /\ Beat("cancelled", 0) \in Beats
        BY <1>1 DEF TypeOK, Beat, Beats
      <4>2. heartbeat' = heartbeat
              \/ \E b \in Beats : heartbeat' = [heartbeat EXCEPT ![w] = b]
        BY <2>1, <4>1
      <4> QED
        BY <4>1, <4>2
    <3>2. pc' \in [Workers -> Points] /\ since' \in [Workers -> Nat]
      <4>1. PICK point \in Points : Goto(w, point)
        BY <2>1 DEF Points
      <4> QED
        BY <1>1, <4>1, GotoType
    <3> QED
      BY <1>1, <1>2, <1>3, <2>1, <2>2, <3>1, <3>2 DEF TypeOK, RowsKept, Beats
  <2>4. CallInPlace(w)'
    <3>1. /\ pc'[w] \in {"stopping", "completing"} /\ since'[w] = now
          /\ heartbeat'[w].phase = "sending"
               => pc'[w] = "stopping" /\ heartbeat'[w] = heartbeat[w]
      BY <1>1, <2>1 DEF TypeOK, Goto, Beat
    <3> QED
      BY <1>1, <1>2, <2>1, <3>1
         DEF CallInPlace, HeartbeatInPlace, HasClaim, Holding, Exists, storeVars
  <2>5. \A v \in Workers \ {w} : WorkerSame(v)
    BY <1>1, <2>1 DEF WorkerSame, TypeOK, Goto
  <2> QED
    BY <1>2, <1>3, <2>3, <2>4, <2>5, CallStep
<1> QED
  BY <1>4, <1>5

LEMMA RenewInPlace ==
    ASSUME CallInv, NEW w \in Workers, Renew(w)
    PROVE  CallInv'
<1> DEFINE j == held[w].job
           lease == heartbeat[w].at + LeaseDuration
<1>1. /\ TypeOK /\ StoreTypeOK /\ CallInPlace(w) /\ lastId \in Nat /\ now \in Nat
      /\ lease \in Nat /\ heartbeat[w].at \in Nat
  BY CallFacts
<1>2. /\ pc[w] \in {"executing", "stopping"} /\ pc[w] \in HasClaim /\ j \in JobIds
  BY <1>1 DEF Renew, CallInPlace, HeartbeatInPlace, HasClaim, Holding
<1>3. UNCHANGED <<now, host, pc, since, held, outcome, faults>>
  BY DEF Renew
<1>4. heartbeat' \in [Workers -> Beats] /\ heartbeat'[w].phase # "sending"
      /\ \A v \in Workers \ {w} : heartbeat'[v] = heartbeat[v]
  <2>1. heartbeat \in [Workers -> Beats]
    BY <1>1 DEF TypeOK, Beats
  <2>2. \E b \in {NextBeat, EndedBeat} : heartbeat' = [heartbeat EXCEPT ![w] = b]
    BY DEF Renew
  <2>3. \A b \in {NextBeat, EndedBeat} : b \in Beats /\ b.phase # "sending"
    BY <1>1, NextBeatType DEF NextBeat, EndedBeat, Beat, Beats
  <2> QED
    BY <2>1, <2>2, <2>3
<1>5. RowsKept
  <2>1. RenewLease(j, held[w].id, heartbeat[w].at, lease)
    BY DEF Renew
  <2> HIDE DEF lease
  <2>2. CASE UNCHANGED storeVars
    BY <1>1, <1>3, <2>2, RowsKeptUnwritten
  <2>3. CASE ~UNCHANGED storeVars
    <3> DEFINE r == [jobs[j] EXCEPT !.leaseExpiresAt = lease]
    <3>1. /\ lastId' = lastId /\ jobs[j] \in Record /\ r \in Record
          /\ jobs' = [jobs EXCEPT ![j] = r]
      BY <1>1, <1>2, <2>1, <2>3, RenewStep, ZenonT(60)
    <3>2. r.currentStateChangeId = jobs[j].currentStateChangeId
      BY <3>1 DEF Record, JobRecords
    <3>3. jobs[j].currentStateChangeId \in 1 .. lastId
      BY <1>1, <1>2, <3>1, RowFacts DEF CallInv, IdsIssued, Stored
    <3> HIDE DEF r
    <3>4. /\ lastId' \in Nat /\ lastId <= lastId' /\ now' = now
          /\ r.currentStateChangeId \in 1 .. lastId'
      BY <1>1, <1>3, <3>1, <3>2, <3>3
    <3> QED
      BY <1>2, <3>1, <3>4, RowsKeptWritten
  <2> QED
    BY <2>2, <2>3
<1>6. TypeOK'
  BY <1>1, <1>3, <1>4, <1>5 DEF TypeOK, RowsKept, Beats
<1>7. WorkerSame(w)
  BY <1>3, <1>4 DEF WorkerSame
<1>8. CallInPlace(w)'
  BY <1>5, <1>7, CallUndisturbed
<1>9. \A v \in Workers \ {w} : WorkerSame(v)
  BY <1>3, <1>4 DEF WorkerSame
<1> QED
  BY <1>2, <1>3, <1>5, <1>6, <1>8, <1>9, CallStep

LEMMA CompleteInPlace ==
    ASSUME CallInv, NEW w \in Workers, Complete(w)
    PROVE  CallInv'
<1> DEFINE j == held[w].job
<1>1. /\ TypeOK /\ StoreTypeOK /\ CallInPlace(w) /\ lastId \in Nat /\ now \in Nat
      /\ since[w] \in Nat
  BY CallFacts
<1>2. /\ pc[w] = "completing" /\ j \in JobIds
      /\ BackTo(w, "idle")
      /\ UNCHANGED <<now, host, faults>>
      /\ CompleteExecution(held[w], outcome[w] = "succeeded", since[w])
  BY <1>1 DEF Complete, HasClaim, Holding, CallInPlace
<1>3. RowsKept
  <2>1. CASE UNCHANGED storeVars
    BY <1>1, <1>2, <2>1, RowsKeptUnwritten
  <2>2. CASE ~UNCHANGED storeVars
    <3>1. /\ lastId' \in Nat /\ lastId' > lastId
          /\ \E r : /\ jobs' = [jobs EXCEPT ![j] = r]
                    /\ Released(r, jobs[j], lastId + 1, lastId')
      BY <1>1, <1>2, <2>2, SettleStep
    <3>2. PICK r \in Record : /\ jobs' = [jobs EXCEPT ![j] = r]
                              /\ r.currentStateChangeId \in lastId + 1 .. lastId'
      BY <3>1 DEF Released
    <3>3. r.currentStateChangeId \in 1 .. lastId' /\ lastId <= lastId'
      BY <1>1, <3>1, <3>2
    <3> QED
      BY <1>2, <3>1, <3>2, <3>3, RowsKeptWritten
  <2> QED
    BY <2>1, <2>2
<1>4. TypeOK'
  BY <1>1, <1>2, <1>3, BackToSafe DEF TypeOK, RowsKept
<1>5. CallInPlace(w)'
  BY <1>1, <1>2, BackToInPlace
<1> QED
  BY <1>1, <1>2, <1>3, <1>4, <1>5, BackToSafe, CallStep

LEMMA EnqueueInPlace ==
    ASSUME CallInv, NEW j \in JobIds, EnqueueJob(j)
    PROVE  CallInv'
<1>1. TypeOK /\ StoreTypeOK /\ lastId \in Nat
  BY DEF CallInv, TypeOK, StoreTypeOK
<1>2. PICK delay \in Nat : Enqueue(j, delay)
  BY TimeAssumption DEF EnqueueJob
<1>3. UNCHANGED <<now, host, pc, since, held, outcome, heartbeat, faults>>
  BY DEF EnqueueJob, workerVars
<1>4. lastId' \in Nat /\ lastId' > lastId
  BY <1>1, <1>2, EnqueueStep
<1>5. PICK r \in Record : jobs' = [jobs EXCEPT ![j] = r] /\ r.currentStateChangeId = lastId'
  BY <1>1, <1>2, EnqueueStep
<1>6. RowsKept
  <2>1. lastId <= lastId' /\ r.currentStateChangeId \in 1 .. lastId'
    BY <1>1, <1>4, <1>5
  <2> QED
    BY <1>3, <1>4, <1>5, <2>1, RowsKeptWritten
<1>7. TypeOK' /\ DownIsExited'
  BY <1>1, <1>3, <1>6 DEF TypeOK, RowsKept, CallInv, DownIsExited
<1>8. \A v \in Workers : CallInPlace(v)'
  BY <1>3, <1>6, CallUndisturbed DEF WorkerSame
<1> QED
  BY <1>6, <1>7, <1>8 DEF CallInv, RowsKept

\* The host, the clock and nobody.
LEMMA OtherInPlace ==
    ASSUME CallInv, RequestStop \/ StopHost \/ Crash \/ Start \/ Tick \/ UNCHANGED vars
    PROVE  CallInv'
<1>1. TypeOK /\ lastId \in Nat /\ now \in Nat
  BY DEF CallInv, TypeOK, StoreTypeOK
<1>2. /\ UNCHANGED <<jobs, lastId>> /\ now' \in {now, now + 1} /\ faults' \in 0 .. MaxFaults
  BY <1>1, TimeAssumption
     DEF RequestStop, StopHost, Crash, Start, Tick, Fault, vars, storeVars, TypeOK
<1>3. RowsKept
  BY <1>1, <1>2, RowsKeptUnwritten DEF storeVars
<1>4. CASE RequestStop \/ StopHost \/ Tick \/ UNCHANGED vars
  <2>1. /\ UNCHANGED <<pc, since, held, outcome, heartbeat>>
        /\ host' = host \/ host' \in {"stopping", "down"}
        /\ host' = "down" => pc = AllExited
    BY <1>4 DEF RequestStop, StopHost, Tick, vars, workerVars, CallInv, DownIsExited
  <2>2. TypeOK' /\ DownIsExited'
    BY <1>1, <1>2, <1>3, <2>1 DEF TypeOK, RowsKept, DownIsExited, AllExited
  <2>3. \A v \in Workers : CallInPlace(v)'
    BY <1>3, <2>1, CallUndisturbed DEF WorkerSame
  <2> QED
    BY <1>3, <2>2, <2>3 DEF CallInv, RowsKept
<1>5. CASE Crash
  <2>1. TypeOK' /\ DownIsExited'
    BY <1>1, <1>2, <1>3, <1>5 DEF Crash, TypeOK, RowsKept, DownIsExited, AllExited, Points,
                                  NoClaim, NoBeat, Beat
  <2>2. ASSUME NEW v \in Workers PROVE CallInPlace(v)'
    <3>1. pc'[v] = "exited" /\ since'[v] = 0 /\ heartbeat'[v] = NoBeat
      BY <1>5 DEF Crash, AllExited
    <3> QED
      BY <1>1, <1>2, <3>1 DEF CallInPlace, HeartbeatInPlace, HasClaim, Holding, NoBeat, Beat
  <2> QED
    BY <1>3, <2>1, <2>2 DEF CallInv, RowsKept
<1>6. CASE Start
  <2>1. /\ pc = AllExited /\ host' = "up" /\ now' = now
        /\ UNCHANGED <<since, held, outcome, heartbeat, faults>>
        /\ pc' = [w \in Workers |-> "idle"]
    BY <1>6 DEF Start, CallInv, DownIsExited
  <2>2. TypeOK' /\ DownIsExited'
    BY <1>1, <1>3, <2>1 DEF TypeOK, RowsKept, DownIsExited, Points
  <2>3. ASSUME NEW v \in Workers PROVE CallInPlace(v)'
    <3>1. pc[v] = "exited" /\ pc'[v] = "idle" /\ CallInPlace(v)
      BY <2>1 DEF AllExited, CallInv
    <3> QED
      BY <2>1, <3>1 DEF CallInPlace, HeartbeatInPlace, HasClaim, Holding
  <2> QED
    BY <1>3, <2>2, <2>3 DEF CallInv, RowsKept
<1> QED
  BY <1>4, <1>5, <1>6

LEMMA InitCallInv == Init => CallInv
<1> SUFFICES ASSUME Init PROVE CallInv
  OBVIOUS
<1>1. TypeOK /\ DownIsExited
  BY InitClaimInv DEF ClaimInv
<1>2. IdsIssued
  BY DEF Init, StoreInit, IdsIssued, Stored, Exists
<1>3. \A w \in Workers : CallInPlace(w)
  BY DEF Init, StoreInit, CallInPlace, HeartbeatInPlace, HasClaim, Holding, NoBeat, Beat
<1> QED
  BY <1>1, <1>2, <1>3 DEF CallInv

LEMMA NextCallInv ==
    ASSUME CallInv, [Next]_vars
    PROVE  CallInv'
<1>1. ASSUME NEW w \in Workers, Work(w) PROVE CallInv'
  BY <1>1, ReadClockInPlace, GiveUpInPlace, CommitInPlace, ReloadInPlace, EndInPlace,
     CompleteInPlace DEF Work
<1>2. ASSUME NEW w \in Workers, KeepAlive(w) \/ CallThrows(w) \/ RenewalThrows(w)
      PROVE  CallInv'
  BY <1>2, HeartbeatStepsInPlace, RenewInPlace, GiveUpInPlace DEF KeepAlive
<1>3. ASSUME NEW j \in JobIds, EnqueueJob(j) PROVE CallInv'
  BY <1>3, EnqueueInPlace
<1>4. CASE RequestStop \/ StopHost \/ Crash \/ Start \/ Tick \/ UNCHANGED vars
  BY <1>4, OtherInPlace
<1> QED
  BY <1>1, <1>2, <1>3, <1>4 DEF Next

\* Whatever the timing, a worker calls the store for a row that exists, with a change id that
\* was handed out and a clock reading of the past, even when the row it read back is not the
\* one it claimed.
THEOREM CallsInPlace == Spec => []CallInv
BY InitCallInv, NextCallInv, PTL DEF Spec

\* Types: every variable of the pool, the rows with their histories included, keeps its
\* range.
THEOREM TypeCorrect == Spec => []TypeOK
<1>1. CallInv => TypeOK
  BY DEF CallInv
<1> QED
  BY <1>1, CallsInPlace, PTL

-----------------------------------------------------------------------------
(* The pool is one of the callers of StoreClients, whatever the timing. *)

Store == INSTANCE StoreClientsProofs WITH Times <- Nat, ChangeIds <- Nat

\* What the modules of StoreClients assume of their constants.
LEMMA StoreAssumptions ==
    /\ Store!NoWorker \notin Workers /\ JobIds \subseteq Nat
    /\ MaxAttempts \in Nat \ {0} /\ RetryDelay \in Nat
    /\ Delays \subseteq Nat /\ LeaseDuration \in Nat
BY WorkersAssumption, JobIdsAssumption, RetryPolicyAssumption, TimeAssumption
   DEF NoWorker, Store!NoWorker

\* Both modules write with the same transitions.
LEMMA SameTransitions ==
    /\ \A job, id, at : /\ Store!Completed(job, id, at) = Completed(job, id, at)
                        /\ Store!Failed(job, id, at) = Failed(job, id, at)
    /\ \A job, id, at, runAt :
         Store!RetryScheduled(job, id, at, runAt) = RetryScheduled(job, id, at, runAt)
    /\ \A job, w, id, at, lease :
         Store!Claimed(job, w, id, at, lease) = Claimed(job, w, id, at, lease)
    /\ \A job, id, at : Store!Requeued(job, id, at) = Requeued(job, id, at)
    /\ \A id, attempts, runAt, at :
         /\ Store!ScheduledJob(id, attempts, runAt, at) = ScheduledJob(id, attempts, runAt, at)
         /\ Store!EnqueuedJob(id, attempts, at) = EnqueuedJob(id, attempts, at)
    /\ \A job : Store!AttemptCount(job) = AttemptCount(job)
<1> USE DEF StateChange, Store!StateChange, NoTime, Store!NoTime, NoWorker, Store!NoWorker,
            SettledChange, Store!SettledChange, ScheduledChange, Store!ScheduledChange,
            QueuedChange, Store!QueuedChange, Unclaimed, Store!Unclaimed
<1>1. \A job, id, at : Store!Completed(job, id, at) = Completed(job, id, at)
  BY DEF Completed, Store!Completed
<1>2. \A job, id, at : Store!Failed(job, id, at) = Failed(job, id, at)
  BY DEF Failed, Store!Failed
<1>3. \A job, id, at, runAt :
        Store!RetryScheduled(job, id, at, runAt) = RetryScheduled(job, id, at, runAt)
  BY DEF RetryScheduled, Store!RetryScheduled
<1>4. \A job, w, id, at, lease :
        Store!Claimed(job, w, id, at, lease) = Claimed(job, w, id, at, lease)
  BY DEF Claimed, Store!Claimed, RunningChange, Store!RunningChange
<1>5. \A job, id, at : Store!Requeued(job, id, at) = Requeued(job, id, at)
  BY DEF Requeued, Store!Requeued
<1>6. \A id, attempts, runAt, at :
        /\ Store!ScheduledJob(id, attempts, runAt, at) = ScheduledJob(id, attempts, runAt, at)
        /\ Store!EnqueuedJob(id, attempts, at) = EnqueuedJob(id, attempts, at)
  BY DEF ScheduledJob, Store!ScheduledJob, EnqueuedJob, Store!EnqueuedJob, NewJob,
         Store!NewJob
<1>7. \A job : Store!AttemptCount(job) = AttemptCount(job)
  BY DEF AttemptCount, Store!AttemptCount, AttemptsIn, Store!AttemptsIn,
         Cardinality, Store!Cardinality
<1> QED
  BY <1>1, <1>2, <1>3, <1>4, <1>5, <1>6, <1>7

\* They look at the rows with the same conditions.
LEMMA SameConditions ==
    /\ \A j : Store!Exists(j) <=> Exists(j)
    /\ \A j, id : Store!IsCurrentClaim(j, id) <=> IsCurrentClaim(j, id)
    /\ \A j, at : Store!IsNextDue(j, at) <=> IsNextDue(j, at)
    /\ \A j, job, n : Store!Write(j, job, n) <=> Write(j, job, n)
    /\ Store!Refused <=> Refused
<1>1. \A j : Store!Exists(j) <=> Exists(j)
  BY DEF Store!Exists, Exists, Store!NoJob, NoJob
<1>2. \A j, id : Store!IsCurrentClaim(j, id) <=> IsCurrentClaim(j, id)
  BY DEF Store!IsCurrentClaim, IsCurrentClaim
<1>3. \A at : Store!Due(at) = Due(at)
  BY DEF Store!Due, Due, Store!IsDue, IsDue, Store!Pending, Pending, Store!NoTime, NoTime
<1>4. \A job : Store!DueTime(job) = DueTime(job)
  BY DEF Store!DueTime, DueTime
<1>5. \A j, at : Store!IsNextDue(j, at) <=> IsNextDue(j, at)
  BY <1>3, <1>4 DEF Store!IsNextDue, IsNextDue
<1>6. \A j, job, n : Store!Write(j, job, n) <=> Write(j, job, n)
  BY DEF Store!Write, Write
<1>7. Store!Refused <=> Refused
  BY DEF Store!Refused, Refused, Store!storeVars, storeVars
<1> QED
  BY <1>1, <1>2, <1>5, <1>6, <1>7

\* So their operations are the same.
LEMMA SameOperations ==
    /\ \A j, delay : Store!Enqueue(j, delay) <=> Enqueue(j, delay)
    /\ \A j, w, at, lease :
         Store!TryClaimNextDueJob(j, w, at, lease) <=> TryClaimNextDueJob(j, w, at, lease)
    /\ \A j, id : Store!MarkCompleted(j, id) <=> MarkCompleted(j, id)
    /\ \A j, id, blank : Store!MarkFailed(j, id, blank) <=> MarkFailed(j, id, blank)
    /\ \A j, id, blank, at :
         Store!ScheduleRetry(j, id, blank, at) <=> ScheduleRetry(j, id, blank, at)
    /\ \A j, id, at, lease : Store!RenewLease(j, id, at, lease) <=> RenewLease(j, id, at, lease)
<1> USE SameTransitions, SameConditions
<1>1. \A j, delay : Store!Enqueue(j, delay) <=> Enqueue(j, delay)
  BY DEF Store!Enqueue, Enqueue, Store!Add, Add
<1>2. \A j, w, at, lease :
        Store!TryClaimNextDueJob(j, w, at, lease) <=> TryClaimNextDueJob(j, w, at, lease)
  BY DEF Store!TryClaimNextDueJob, TryClaimNextDueJob
<1>3. \A j, id : Store!MarkCompleted(j, id) <=> MarkCompleted(j, id)
  BY DEF Store!MarkCompleted, MarkCompleted
<1>4. \A j, id, blank : Store!MarkFailed(j, id, blank) <=> MarkFailed(j, id, blank)
  BY DEF Store!MarkFailed, MarkFailed
<1>5. \A j, id, blank, at :
        Store!ScheduleRetry(j, id, blank, at) <=> ScheduleRetry(j, id, blank, at)
  BY DEF Store!ScheduleRetry, ScheduleRetry
<1>6. \A j, id, at, lease :
        Store!RenewLease(j, id, at, lease) <=> RenewLease(j, id, at, lease)
  BY DEF Store!RenewLease, RenewLease
<1> QED
  BY <1>1, <1>2, <1>3, <1>4, <1>5, <1>6

\* A clock reading of the past is one the callers of the store may have.
LEMMA PastReading ==
    ASSUME CallInv, NEW at \in Nat, at <= now
    PROVE  at \in Store!ClockReadings
BY CallFacts DEF Store!ClockReadings, CallInv, TypeOK, StoreTypeOK

LEMMA IssuedId ==
    ASSUME CallInv, NEW w \in Workers, pc[w] \in HasClaim
    PROVE  held[w].job \in JobIds /\ held[w].id \in Store!Ids
BY CallFacts DEF CallInPlace, Store!Ids

\* Every call of the pool is a call of StoreClients, and every other step is none.
LEMMA StepUsesTheStore ==
    ASSUME CallInv, [Next]_vars
    PROVE  [Store!Next]_(Store!vars)
<1>0. now \in Nat /\ lastId + 1 \in Nat /\ now + 1 \in Nat
  BY DEF CallInv, TypeOK, StoreTypeOK
<1>1. ASSUME NEW j \in JobIds, EnqueueJob(j) PROVE Store!Next
  <2>1. PICK delay \in Delays : Enqueue(j, delay)
    BY <1>1 DEF EnqueueJob
  <2>2. Store!EnqueueJob(j)
    BY <1>0, <1>1, <2>1, SameOperations DEF EnqueueJob, Store!EnqueueJob, Store!Call
  <2> QED
    BY <2>2 DEF Store!Next
<1>2. ASSUME NEW w \in Workers, CommitClaim(w) PROVE Store!Next
  <2>1. PICK j \in JobIds : TryClaimNextDueJob(j, w, since[w], since[w] + LeaseDuration)
    BY <1>2 DEF CommitClaim
  <2>2. since[w] \in Store!ClockReadings
    BY CallFacts, PastReading DEF CallInPlace
  <2>3. Store!ClaimNext(w)
    BY <1>0, <1>2, <2>1, <2>2, SameOperations DEF CommitClaim, Store!ClaimNext, Store!Call
  <2> QED
    BY <2>3 DEF Store!Next
<1>3. ASSUME NEW w \in Workers, Renew(w) PROVE Store!Next
  <2>1. held[w].job \in JobIds /\ held[w].id \in Store!Ids
    BY <1>3, CallFacts, IssuedId DEF Renew, CallInPlace, HeartbeatInPlace, HasClaim, Holding
  <2>2. heartbeat[w].at \in Store!ClockReadings
    BY <1>3, CallFacts, PastReading DEF Renew, CallInPlace
  <2>3. RenewLease(held[w].job, held[w].id, heartbeat[w].at, heartbeat[w].at + LeaseDuration)
        /\ now' = now
    BY <1>3 DEF Renew
  <2>4. Store!RenewJob(held[w].job, held[w].id)
    BY <1>0, <2>2, <2>3, SameOperations DEF Store!RenewJob, Store!Call
  <2> QED
    BY <2>1, <2>4 DEF Store!Next
<1>4. ASSUME NEW w \in Workers, Complete(w) PROVE Store!Next
  <2> DEFINE j == held[w].job
             id == held[w].id
  <2>1. j \in JobIds /\ id \in Store!Ids
    BY <1>4, IssuedId DEF Complete, HasClaim, Holding
  <2>2. since[w] \in Store!ClockReadings
    BY CallFacts, PastReading DEF CallInPlace
  <2>3. now' = now /\ CompleteExecution(held[w], outcome[w] = "succeeded", since[w])
    BY <1>4 DEF Complete
  <2>4. \/ MarkCompleted(j, id)
        \/ ScheduleRetry(j, id, FALSE, since[w] + RetryDelay)
        \/ MarkFailed(j, id, FALSE)
    BY <2>3 DEF CompleteExecution
  <2> HIDE DEF j, id
  <2>5. \/ Store!MarkCompleted(j, id)
        \/ Store!ScheduleRetry(j, id, FALSE, since[w] + RetryDelay)
        \/ Store!MarkFailed(j, id, FALSE)
    BY <2>4, SameOperations
  <2>6. Store!Call
    BY <1>0, <2>3 DEF Store!Call
  <2>7. Store!CompleteJob(j, id) \/ Store!RetryJob(j, id) \/ Store!FailJob(j, id)
    BY <2>2, <2>5, <2>6 DEF Store!CompleteJob, Store!RetryJob, Store!FailJob
  <2> QED
    BY <2>1, <2>7 DEF Store!Next
<1>5. CASE Tick
  <2>1. Store!Tick
    BY <1>0, <1>5 DEF Tick, Store!Tick, Store!storeVars, storeVars
  <2> QED
    BY <2>1 DEF Store!Next
<1>6. ASSUME NEW w \in Workers,
             \/ ReadClock(w) \/ NothingDue(w) \/ ReloadClaim(w) \/ EndExecution(w)
             \/ StopLeaseRenewal(w) \/ ExitLoop(w) \/ ReadRenewalClock(w) \/ CancelWait(w)
             \/ CallThrows(w) \/ RenewalThrows(w)
      PROVE  UNCHANGED Store!vars
  BY <1>6 DEF ReadClock, NothingDue, ReloadClaim, EndExecution, StopLeaseRenewal, ExitLoop,
              ReadRenewalClock, CancelWait, CallThrows, RenewalThrows, storeVars, Store!vars
<1>7. CASE RequestStop \/ StopHost \/ Crash \/ Start \/ UNCHANGED vars
  BY <1>7 DEF RequestStop, StopHost, Crash, Start, vars, storeVars, Store!vars
<1> QED
  BY <1>1, <1>2, <1>3, <1>4, <1>5, <1>6, <1>7 DEF Next, Work, KeepAlive

\* The workers, their heartbeats and the API are callers of the store as StoreClients has them:
\* whatever the store promises to callers that obey nothing, it promises to them, without any
\* bound on the duration of a call, an execution or a timer.
THEOREM PoolUsesTheStore == Spec => Store!Spec
<1>1. Init => Store!Init
  BY DEF Init, StoreInit, Store!Init, Store!StoreInit, NoJob, Store!NoJob
<1>2. CallInv /\ [Next]_vars => [Store!Next]_(Store!vars)
  BY StepUsesTheStore
<1> QED
  BY <1>1, <1>2, CallsInPlace, PTL DEF Spec, Store!Spec

\* What is said of the rows is said of the same rows.
LEMMA SameRowProperties ==
    /\ Store!HistoryLegal <=> HistoryLegal
    /\ Store!RowMatchesHistory <=> RowMatchesHistory
    /\ Store!NeverEarly <=> NeverEarly
    /\ Store!RetriesWithinBudget <=> RetriesWithinBudget
<1>1. Store!Stored = Stored
  BY SameConditions DEF Store!Stored, Stored
<1>2. Store!HistoryLegal <=> HistoryLegal
  BY <1>1 DEF Store!HistoryLegal, HistoryLegal, Store!Steps, Steps,
              Store!LegalSteps, LegalSteps, Store!Pending, Pending
<1>3. Store!RowMatchesHistory <=> RowMatchesHistory
  BY <1>1 DEF Store!RowMatchesHistory, RowMatchesHistory, Store!NoTime, NoTime,
              Store!Pending, Pending
<1>4. Store!NeverEarly <=> NeverEarly
  BY <1>1 DEF Store!NeverEarly, NeverEarly, Store!Steps, Steps
<1>5. \A h : Store!AttemptsIn(h) = AttemptsIn(h)
  BY DEF AttemptsIn, Store!AttemptsIn, Cardinality, Store!Cardinality
<1>6. Store!RetriesWithinBudget <=> RetriesWithinBudget
  BY <1>1, <1>5 DEF Store!RetriesWithinBudget, RetriesWithinBudget, Store!Steps, Steps
<1> QED
  BY <1>2, <1>3, <1>4, <1>6

\* So, with the workers and their heartbeats as they are in the code, and whatever the
\* timing: the histories are legal, the rows say what their histories say, and nothing runs
\* early or more often than its policy allows.
THEOREM PoolKeepsRowsSound ==
    Spec => [](HistoryLegal /\ RowMatchesHistory /\ NeverEarly /\ RetriesWithinBudget)
<1>1. Store!Spec => []Store!HistoryLegal
  BY StoreAssumptions, Store!HistoriesAreLegal
<1>2. Store!Spec => []Store!RowMatchesHistory
  BY StoreAssumptions, Store!RowsMatchHistories
<1>3. Store!Spec => []Store!NeverEarly
  BY StoreAssumptions, Store!NothingStartsEarly
<1>4. Store!Spec => []Store!RetriesWithinBudget
  BY StoreAssumptions, Store!RetriesAreBounded
<1> QED
  BY <1>1, <1>2, <1>3, <1>4, PoolUsesTheStore, SameRowProperties, PTL

\* A worker that lost its claim, or works under one that is not its own, moves no settled
\* job, rewrites no history and takes no running job whose lease is ahead.
THEOREM PoolRespectsRecords ==
    Spec => Store!SettledIsFinal /\ Store!HistoryOnlyGrows /\ Store!LiveLeaseNotTaken
<1>1. Store!Spec => Store!SettledIsFinal
  BY StoreAssumptions, Store!SettledStays
<1>2. Store!Spec => Store!HistoryOnlyGrows
  BY StoreAssumptions, Store!HistoriesGrow
<1>3. Store!Spec => Store!LiveLeaseNotTaken
  BY StoreAssumptions, Store!LiveLeasesHold
<1> QED
  BY <1>1, <1>2, <1>3, PoolUsesTheStore, PTL
=============================================================================
