--------------------------- MODULE StoreClientsProofs ---------------------------
(***************************************************************************)
(* What the store keeps in order whoever calls it, for any jobs, callers,    *)
(* delays and retry policy: the histories, the rows beside them, the retry     *)
(* budget, the attempts that are shown, and what no step may do to a row.    *)
(***************************************************************************)
EXTENDS StoreClients, JobAttempts, JobRecordProofs, SequenceTheorems

-----------------------------------------------------------------------------
(* Histories. *)

Legal(h) ==
    /\ Len(h) \in Nat \ {0}
    /\ h[1].status \in Pending
    /\ \A i \in Steps(h) : <<h[i].status, h[i + 1].status>> \in LegalSteps

OnTime(h) ==
    \A i \in Steps(h) : h[i].status = "Scheduled" => h[i + 1].changedAt >= h[i].scheduledAt

InBudget(h, max) ==
    \A i \in Steps(h) : h[i].status = "Failed" => AttemptsIn(SubSeq(h, 1, i)) < max

SoundHistory(h, max) == h \in Seq(Change) /\ Legal(h) /\ OnTime(h) /\ InBudget(h, max)

\* What a change may follow.
MayFollow(e, h, max) ==
    /\ <<LastOf(h).status, e.status>> \in LegalSteps
    /\ LastOf(h).status = "Scheduled" => e.changedAt >= LastOf(h).scheduledAt
    /\ LastOf(h).status = "Failed" => AttemptsIn(h) < max

\* The beginnings of a history are those of the history it grew from.
LEMMA BeginningsKept ==
    ASSUME NEW old \in Seq(Change), NEW new \in Seq(Change), Len(old) <= Len(new),
           \A i \in 1 .. Len(old) : new[i] = old[i],
           NEW n \in 0 .. Len(old)
    PROVE  SubSeq(new, 1, n) = SubSeq(old, 1, n)
<1>1. Len(old) \in Nat /\ Len(new) \in Nat /\ n \in Int
  OBVIOUS
<1>2. \A i \in 1 .. n : old[i] \in Change /\ new[i] \in Change
  BY <1>1, ElementOfSeq
<1>3. /\ SubSeq(old, 1, n) \in Seq(Change)
      /\ Len(SubSeq(old, 1, n)) = IF 1 <= n THEN n ELSE 0
      /\ \A i \in 1 .. n : SubSeq(old, 1, n)[i] = old[i]
  BY <1>1, <1>2, SubSeqProperties
<1>4. /\ SubSeq(new, 1, n) \in Seq(Change)
      /\ Len(SubSeq(new, 1, n)) = IF 1 <= n THEN n ELSE 0
      /\ \A i \in 1 .. n : SubSeq(new, 1, n)[i] = new[i]
  BY <1>1, <1>2, SubSeqProperties
<1>5. \A i \in 1 .. Len(SubSeq(old, 1, n)) : SubSeq(new, 1, n)[i] = SubSeq(old, 1, n)[i]
  BY <1>1, <1>3, <1>4
<1> QED
  BY <1>3, <1>4, <1>5, SeqEqual

LEMMA AppendSound ==
    ASSUME NEW h, NEW max, SoundHistory(h, max), NEW e \in Change, MayFollow(e, h, max)
    PROVE  SoundHistory(Append(h, e), max)
<1> DEFINE new == Append(h, e)
<1>1. /\ h \in Seq(Change) /\ new \in Seq(Change)
      /\ Len(h) \in Nat \ {0} /\ Len(new) = Len(h) + 1
      /\ \A i \in 1 .. Len(h) : new[i] = h[i]
      /\ new[Len(h) + 1] = e
  BY Appended DEF SoundHistory, Legal, LastOf
<1> HIDE DEF new
<1>2. ASSUME NEW i \in Steps(new)
      PROVE  \/ i \in Steps(h) /\ new[i] = h[i] /\ new[i + 1] = h[i + 1]
             \/ i = Len(h) /\ new[i] = LastOf(h) /\ new[i + 1] = e
  BY <1>1 DEF Steps, LastOf
<1>3. Legal(new)
  <2>1. new[1].status \in Pending
    BY <1>1 DEF SoundHistory, Legal
  <2>2. ASSUME NEW i \in Steps(new)
        PROVE  <<new[i].status, new[i + 1].status>> \in LegalSteps
    BY <1>2 DEF SoundHistory, Legal, MayFollow
  <2> QED
    BY <1>1, <2>1, <2>2 DEF Legal
<1>4. OnTime(new)
  BY <1>2 DEF SoundHistory, OnTime, MayFollow
<1>5. InBudget(new, max)
  <2> SUFFICES ASSUME NEW i \in Steps(new), new[i].status = "Failed"
               PROVE  AttemptsIn(SubSeq(new, 1, i)) < max
    BY DEF InBudget
  <2>1. i \in 0 .. Len(h)
    BY <1>1 DEF Steps
  <2>2. SubSeq(new, 1, i) = SubSeq(h, 1, i)
    BY <1>1, <2>1, BeginningsKept
  <2>3. CASE i \in Steps(h) /\ new[i] = h[i]
    BY <2>2, <2>3 DEF SoundHistory, InBudget
  <2>4. CASE i = Len(h) /\ new[i] = LastOf(h)
    <3>1. SubSeq(h, 1, i) = h
      BY <1>1, <2>4, SubSeqFull
    <3> QED
      BY <2>2, <2>4, <3>1 DEF MayFollow
  <2> QED
    BY <1>2, <2>3, <2>4
<1> QED
  BY <1>1, <1>3, <1>4, <1>5 DEF SoundHistory, new

-----------------------------------------------------------------------------
(* Rows. *)

MatchesHistory(job) ==
    /\ job.currentStateChangeId = LastOf(job.history).id
    /\ job.status = LastOf(job.history).status
    /\ job.claimedBy = LastOf(job.history).by
    /\ (job.leaseExpiresAt # NoTime) <=> (job.status = "Running")
    /\ (job.runAt # NoTime) <=> (job.status \in Pending)
    /\ job.status = "Scheduled" => job.runAt = LastOf(job.history).scheduledAt

Sound(job) ==
    /\ job \in Record
    /\ SoundHistory(job.history, job.maxAttempts)
    /\ MatchesHistory(job)

\* What every write leaves of the old row.
Follows(new, old) ==
    /\ Len(old.history) <= Len(new.history)
    /\ \A i \in 1 .. Len(old.history) : new.history[i] = old.history[i]
    /\ old.acknowledged => new.acknowledged

LEMMA UnclaimedSound ==
    ASSUME NEW job \in Record, SoundHistory(job.history, job.maxAttempts),
           NEW e \in Change, MayFollow(e, job.history, job.maxAttempts),
           e.by = NoWorker, e.status # "Running",
           NEW runAt \in Nat \cup {NoTime},
           (runAt # NoTime) <=> (e.status \in Pending),
           e.status = "Scheduled" => runAt = e.scheduledAt
    PROVE  /\ Sound(Unclaimed(job, e, runAt))
           /\ Follows(Unclaimed(job, e, runAt), job)
           /\ Unclaimed(job, e, runAt).history = Append(job.history, e)
           /\ Unclaimed(job, e, runAt).maxAttempts = job.maxAttempts
<1> DEFINE new == Unclaimed(job, e, runAt)
<1>1. new \in Record
  BY UnclaimedFacts DEF Extended
<1>2. /\ new.status = e.status /\ new.currentStateChangeId = e.id
      /\ new.claimedBy = NoWorker /\ new.leaseExpiresAt = NoTime
      /\ new.runAt = runAt
      /\ new.acknowledged = job.acknowledged /\ new.maxAttempts = job.maxAttempts
      /\ new.history = Append(job.history, e)
  BY DEF Unclaimed, Record, JobRecords
<1> HIDE DEF new
<1>3. job.history \in Seq(Change)
  BY DEF SoundHistory
<1>4. SoundHistory(new.history, new.maxAttempts)
  BY <1>2, AppendSound
<1>5. MatchesHistory(new)
  BY <1>2, <1>3, Appended DEF MatchesHistory
<1>6. Follows(new, job)
  BY <1>2, <1>3, Appended DEF Follows
<1> QED
  BY <1>1, <1>2, <1>4, <1>5, <1>6 DEF Sound, new

LEMMA ClaimedSound ==
    ASSUME NEW job, Sound(job), NEW w \in Workers, NEW id \in Nat,
           NEW at \in Nat, NEW lease \in Nat, job.status \in {"Queued", "Running"}
    PROVE  /\ Sound(Claimed(job, w, id, at, lease))
           /\ Follows(Claimed(job, w, id, at, lease), job)
<1> DEFINE e == RunningChange(id, at, w)
           new == Claimed(job, w, id, at, lease)
<1>0. job \in Record /\ job.history \in Seq(Change)
  BY DEF Sound, SoundHistory
<1>1. new \in Record
  BY <1>0, ClaimedFacts DEF Acquired
<1>2. /\ e \in Change /\ e.status = "Running" /\ e.id = id /\ e.by = w
  BY DEF RunningChange, StateChange, Change, StateChanges, JobStatus, NoTime
<1>3. /\ new.status = "Running" /\ new.currentStateChangeId = id
      /\ new.claimedBy = w /\ new.leaseExpiresAt = lease
      /\ new.runAt = NoTime
      /\ new.acknowledged = job.acknowledged /\ new.maxAttempts = job.maxAttempts
      /\ new.history = Append(job.history, e)
  BY <1>0 DEF Claimed, Record, JobRecords
<1> HIDE DEF new, e
<1>4. MayFollow(e, job.history, job.maxAttempts)
  BY <1>2 DEF Sound, MatchesHistory, MayFollow, LegalSteps
<1>5. SoundHistory(new.history, new.maxAttempts)
  BY <1>2, <1>3, <1>4, AppendSound DEF Sound
<1>6. MatchesHistory(new)
  BY <1>0, <1>2, <1>3, Appended DEF MatchesHistory, NoTime, Pending
<1>7. Follows(new, job)
  BY <1>0, <1>2, <1>3, Appended DEF Follows
<1> QED
  BY <1>1, <1>5, <1>6, <1>7 DEF Sound, new

LEMMA FollowsIsTransitive ==
    ASSUME NEW a, NEW b, NEW c, Len(a.history) \in Nat, Follows(b, a), Follows(c, b),
           Len(b.history) \in Nat, Len(c.history) \in Nat
    PROVE  Follows(c, a)
BY DEF Follows

LEMMA HistoryLength ==
    ASSUME NEW job \in Record
    PROVE  job.history \in Seq(Change) /\ Len(job.history) \in Nat
BY DEF Record, JobRecords, Change

\* A claim queues a Scheduled job on the way, once its time has come.
LEMMA RequeuedClaimedSound ==
    ASSUME NEW job, Sound(job), NEW w \in Workers, NEW id1 \in Nat, NEW id2 \in Nat,
           NEW at \in Nat, NEW lease \in Nat,
           job.status = "Scheduled", job.runAt <= at
    PROVE  /\ Sound(Claimed(Requeued(job, id1, at), w, id2, at, lease))
           /\ Follows(Claimed(Requeued(job, id1, at), w, id2, at, lease), job)
<1> DEFINE e == QueuedChange(id1, at)
           mid == Requeued(job, id1, at)
<1>1. /\ e \in Change /\ e.status = "Queued" /\ e.by = NoWorker /\ e.changedAt = at
  BY DEF QueuedChange, StateChange, Change, StateChanges, JobStatus, NoTime, NoWorker
<1>2. mid = Unclaimed(job, e, at)
  BY DEF Requeued
<1> HIDE DEF e, mid
<1>3. MayFollow(e, job.history, job.maxAttempts)
  BY <1>1 DEF Sound, MatchesHistory, MayFollow, LegalSteps
<1>4. Sound(mid) /\ Follows(mid, job)
  BY <1>1, <1>2, <1>3, UnclaimedSound DEF Sound, Pending, NoTime
<1>5. mid.status = "Queued"
  BY <1>1, <1>2 DEF Unclaimed, Sound, Record, JobRecords
<1>6. /\ Sound(Claimed(mid, w, id2, at, lease))
      /\ Follows(Claimed(mid, w, id2, at, lease), mid)
  BY <1>4, <1>5, ClaimedSound
<1>7. Follows(Claimed(mid, w, id2, at, lease), job)
  <2>1. /\ Len(job.history) \in Nat /\ Len(mid.history) \in Nat
        /\ Len(Claimed(mid, w, id2, at, lease).history) \in Nat
    BY <1>4, <1>6, HistoryLength DEF Sound
  <2> QED
    BY <1>4, <1>6, <2>1, FollowsIsTransitive
<1> QED
  BY <1>6, <1>7 DEF mid

LEMMA SettledChangeFacts ==
    ASSUME NEW id \in Nat, NEW at \in Nat, NEW s \in Terminal
    PROVE  LET e == SettledChange(id, at, s)
           IN  e \in Change /\ e.status = s /\ e.by = NoWorker
BY DEF SettledChange, StateChange, Change, StateChanges, JobStatus, Terminal, NoTime, NoWorker

LEMMA SettledSound ==
    ASSUME NEW job, Sound(job), job.status = "Running",
           NEW id \in Nat, NEW at \in Nat, NEW s \in Terminal
    PROVE  LET new == Unclaimed(job, SettledChange(id, at, s), NoTime)
           IN  Sound(new) /\ Follows(new, job)
<1> DEFINE e == SettledChange(id, at, s)
<1>1. e \in Change /\ e.status = s /\ e.by = NoWorker
  BY SettledChangeFacts
<1> HIDE DEF e
<1>2. MayFollow(e, job.history, job.maxAttempts)
  BY <1>1 DEF Sound, MatchesHistory, MayFollow, LegalSteps, Terminal
<1>3. /\ Sound(Unclaimed(job, e, NoTime))
      /\ Follows(Unclaimed(job, e, NoTime), job)
  BY <1>1, <1>2, UnclaimedSound DEF Sound, Pending, Terminal, NoTime
<1> QED
  BY <1>3 DEF e

\* The failure reason is beside the history.
LEMMA ReasonSound ==
    ASSUME NEW new, Sound(new), NEW job, Follows(new, job)
    PROVE  /\ Sound([new EXCEPT !.failureReason = TRUE])
           /\ Follows([new EXCEPT !.failureReason = TRUE], job)
<1> DEFINE r == [new EXCEPT !.failureReason = TRUE]
<1>1. r \in Record
  BY DEF Sound, Record, JobRecords
<1>2. /\ r.status = new.status /\ r.currentStateChangeId = new.currentStateChangeId
      /\ r.claimedBy = new.claimedBy /\ r.leaseExpiresAt = new.leaseExpiresAt
      /\ r.runAt = new.runAt /\ r.acknowledged = new.acknowledged
      /\ r.maxAttempts = new.maxAttempts /\ r.history = new.history
  BY DEF Sound, Record, JobRecords
<1> HIDE DEF r
<1>3. Sound(r) /\ Follows(r, job)
  BY <1>1, <1>2 DEF Sound, MatchesHistory, Follows
<1> QED
  BY <1>3 DEF r

\* A failure and the retry after it, while there is an attempt left.
LEMMA RetryScheduledSound ==
    ASSUME NEW job, Sound(job), job.status = "Running",
           AttemptCount(job) < job.maxAttempts,
           NEW id \in Nat, NEW at \in Nat, NEW runAt \in Nat
    PROVE  /\ Sound(RetryScheduled(job, id, at, runAt))
           /\ Follows(RetryScheduled(job, id, at, runAt), job)
<1> DEFINE e == SettledChange(id, at, "Failed")
           s == ScheduledChange(id + 1, at, runAt)
           h == Append(job.history, e)
           mid == [job EXCEPT !.history = Append(@, e)]
           new == Unclaimed(mid, s, runAt)
<1>0. job \in Record /\ job.history \in Seq(Change)
  BY HistoryLength DEF Sound
<1>1. e \in Change /\ e.status = "Failed" /\ e.by = NoWorker
  BY SettledChangeFacts DEF Terminal
<1>2. /\ s \in Change /\ s.status = "Scheduled" /\ s.by = NoWorker /\ s.scheduledAt = runAt
  BY DEF ScheduledChange, StateChange, Change, StateChanges, JobStatus, NoWorker
<1>3. RetryScheduled(job, id, at, runAt) = [new EXCEPT !.failureReason = TRUE]
  BY DEF RetryScheduled
<1>4. mid = [job EXCEPT !.history = h]
  OBVIOUS
<1> HIDE DEF e, s, mid
<1>5. MayFollow(e, job.history, job.maxAttempts)
  BY <1>1 DEF Sound, MatchesHistory, MayFollow, LegalSteps
<1>6. SoundHistory(h, job.maxAttempts)
  BY <1>1, <1>5, AppendSound DEF Sound
<1>7. LastOf(h) = e /\ h \in Seq(Change)
  BY <1>0, <1>1, Appended
<1>8. AttemptsIn(h) < job.maxAttempts
  BY <1>0, <1>1, NoAttemptAppended DEF AttemptCount
<1>9. MayFollow(s, h, job.maxAttempts)
  BY <1>1, <1>2, <1>7, <1>8 DEF MayFollow, LegalSteps
<1>10. /\ mid \in Record /\ mid.history = h /\ mid.maxAttempts = job.maxAttempts
       /\ mid.acknowledged = job.acknowledged
  <2> HIDE DEF h
  <2> QED
    BY <1>0, <1>4, <1>7 DEF Record, JobRecords, Change
<1>11. Follows(mid, job)
  BY <1>0, <1>1, <1>10, Appended DEF Follows
<1> HIDE DEF h
<1>12. Sound(new) /\ Follows(new, mid)
  BY <1>2, <1>6, <1>9, <1>10, UnclaimedSound DEF Pending, NoTime
<1> HIDE DEF new
<1>13. Follows(new, job)
  BY <1>0, <1>10, <1>11, <1>12, HistoryLength, FollowsIsTransitive DEF Sound
<1> QED
  BY <1>3, <1>12, <1>13, ReasonSound

LEMMA NewJobSound ==
    ASSUME NEW e \in Change, e.status \in Pending, e.by = NoWorker,
           NEW runAt \in Nat, e.status = "Scheduled" => runAt = e.scheduledAt,
           NEW max \in Nat \ {0}
    PROVE  Sound(NewJob(e, runAt, max))
<1> DEFINE new == NewJob(e, runAt, max)
<1>1. new \in Record
  BY NewJobFacts
<1>2. /\ new.status = e.status /\ new.currentStateChangeId = e.id
      /\ new.claimedBy = NoWorker /\ new.leaseExpiresAt = NoTime
      /\ new.runAt = runAt /\ new.maxAttempts = max /\ new.history = <<e>>
  BY DEF NewJob
<1> HIDE DEF new
<1>3. /\ <<e>> \in Seq(Change) /\ Len(<<e>>) = 1 /\ <<e>>[1] = e
      /\ Steps(<<e>>) = {}
  BY DEF Steps
<1>4. SoundHistory(new.history, new.maxAttempts)
  BY <1>2, <1>3 DEF SoundHistory, Legal, OnTime, InBudget
<1>5. MatchesHistory(new)
  BY <1>2, <1>3 DEF MatchesHistory, LastOf, Pending, NoTime
<1> QED
  BY <1>1, <1>4, <1>5 DEF Sound, new

\* The two single updates.
LEMMA RenewedSound ==
    ASSUME NEW job, Sound(job), job.status = "Running", NEW lease \in Nat
    PROVE  LET new == [job EXCEPT !.leaseExpiresAt = lease]
           IN  Sound(new) /\ Follows(new, job)
<1> DEFINE new == [job EXCEPT !.leaseExpiresAt = lease]
<1>1. new \in Record
  BY DEF Sound, Record, JobRecords
<1>2. /\ new.status = job.status /\ new.currentStateChangeId = job.currentStateChangeId
      /\ new.claimedBy = job.claimedBy /\ new.leaseExpiresAt = lease
      /\ new.runAt = job.runAt /\ new.acknowledged = job.acknowledged
      /\ new.maxAttempts = job.maxAttempts /\ new.history = job.history
  BY DEF Sound, Record, JobRecords
<1> HIDE DEF new
<1>3. Len(job.history) \in Nat
  BY HistoryLength DEF Sound
<1>4. lease # NoTime
  BY DEF NoTime
<1>5. MatchesHistory(new)
  BY <1>2, <1>4 DEF Sound, MatchesHistory
<1>6. Sound(new) /\ Follows(new, job)
  BY <1>1, <1>2, <1>3, <1>5 DEF Sound, Follows
<1> QED
  BY <1>6 DEF new

LEMMA AcknowledgedSound ==
    ASSUME NEW job, Sound(job)
    PROVE  LET new == [job EXCEPT !.acknowledged = TRUE]
           IN  /\ Sound(new) /\ Follows(new, job)
               /\ new.status = job.status
               /\ new.currentStateChangeId = job.currentStateChangeId
               /\ new.history = job.history
<1> DEFINE new == [job EXCEPT !.acknowledged = TRUE]
<1>1. new \in Record
  BY DEF Sound, Record, JobRecords
<1>2. /\ new.status = job.status /\ new.currentStateChangeId = job.currentStateChangeId
      /\ new.claimedBy = job.claimedBy /\ new.leaseExpiresAt = job.leaseExpiresAt
      /\ new.runAt = job.runAt /\ new.acknowledged = TRUE
      /\ new.maxAttempts = job.maxAttempts /\ new.history = job.history
  BY DEF Sound, Record, JobRecords
<1> HIDE DEF new
<1>3. Len(job.history) \in Nat
  BY HistoryLength DEF Sound
<1>4. Sound(new) /\ Follows(new, job)
  BY <1>1, <1>2, <1>3 DEF Sound, MatchesHistory, Follows
<1> QED
  BY <1>2, <1>4 DEF new

-----------------------------------------------------------------------------
(* The invariant, and what a step does to the rows. *)

StoreInv ==
    /\ StoreTypeOK
    /\ \A j \in Stored : Sound(jobs[j])

\* What a step at this time may do to a row.
Evolves(old, new) ==
    /\ old # NoJob => Follows(new, old) /\ new \in Record /\ old \in Record
    /\ old.status \in Terminal =>
         /\ new.status = old.status
         /\ new.currentStateChangeId = old.currentStateChangeId
         /\ new.history = old.history
    /\ old.status = "Running" /\ old.leaseExpiresAt > now /\ new.status = "Running"
         => new.currentStateChangeId = old.currentStateChangeId

RowsEvolve == \A j \in JobIds : Evolves(jobs[j], jobs'[j])

LEMMA NoJobIsNoRecord == NoJob \notin Record /\ NoJob.status = "Absent"
<1>1. DOMAIN NoJob = {"status"}
  BY DEF NoJob
<1>2. \A job \in Record : "history" \in DOMAIN job
  BY DEF Record, JobRecords
<1> QED
  BY <1>1, <1>2 DEF NoJob

LEMMA StoredSound ==
    ASSUME StoreInv, NEW j \in JobIds, jobs[j].status # "Absent"
    PROVE  j \in Stored /\ Sound(jobs[j]) /\ jobs[j] \in Record
BY NoJobIsNoRecord DEF StoreInv, Stored, Exists, Sound

LEMMA RowStays ==
    ASSUME StoreInv, NEW j \in JobIds
    PROVE  Evolves(jobs[j], jobs[j])
<1>1. CASE jobs[j] = NoJob
  BY <1>1, NoJobIsNoRecord DEF Evolves, Terminal
<1>2. CASE jobs[j] # NoJob
  <2>1. Sound(jobs[j])
    BY <1>2 DEF StoreInv, Stored, Exists
  <2>2. jobs[j] \in Record /\ Len(jobs[j].history) \in Nat
    BY <2>1, HistoryLength DEF Sound
  <2> QED
    BY <2>2 DEF Evolves, Follows
<1> QED
  BY <1>1, <1>2

\* One row is written, and the others stay.
LEMMA RowWritten ==
    ASSUME StoreInv, NEW j \in JobIds, NEW new, Sound(new), NEW n \in Nat,
           Write(j, new, n), now' = now, Evolves(jobs[j], new)
    PROVE  StoreInv' /\ RowsEvolve
<1>1. /\ jobs \in [JobIds -> Record \cup {NoJob}]
      /\ jobs' = [jobs EXCEPT ![j] = new] /\ lastId' = lastId + n
      /\ new \in Record /\ lastId \in Nat /\ now \in Nat
  BY DEF StoreInv, StoreTypeOK, Write, Record, Sound
<1>2. jobs'[j] = new /\ \A k \in JobIds : k # j => jobs'[k] = jobs[k]
  BY <1>1
<1>3. StoreTypeOK'
  BY <1>1 DEF StoreTypeOK, Record
<1>4. ASSUME NEW k \in JobIds, jobs'[k] # NoJob
      PROVE  Sound(jobs'[k])
  BY <1>2, <1>4 DEF StoreInv, Stored, Exists
<1>5. StoreInv'
  BY <1>3, <1>4 DEF StoreInv, Stored, Exists
<1>6. ASSUME NEW k \in JobIds
      PROVE  Evolves(jobs[k], jobs'[k])
  BY <1>2, RowStays
<1> QED
  BY <1>5, <1>6 DEF RowsEvolve

LEMMA NothingWritten ==
    ASSUME StoreInv, UNCHANGED storeVars, now' \in Nat
    PROVE  StoreInv' /\ RowsEvolve
<1>1. jobs' = jobs /\ lastId' = lastId
  BY DEF storeVars
<1>2. StoreInv'
  BY <1>1 DEF StoreInv, StoreTypeOK, Stored, Exists
<1>3. RowsEvolve
  BY <1>1, RowStays DEF RowsEvolve
<1> QED
  BY <1>2, <1>3

\* A row that follows another begins with its history.
LEMMA HistoryKept ==
    ASSUME NEW job \in Record, NEW next \in Record, Follows(next, job)
    PROVE  /\ Len(job.history) <= Len(next.history)
           /\ SubSeq(next.history, 1, Len(job.history)) = job.history
<1> DEFINE old == job.history
           new == next.history
<1>1. /\ old \in Seq(Change) /\ new \in Seq(Change)
      /\ Len(old) <= Len(new) /\ Len(old) \in Nat
      /\ \A i \in 1 .. Len(old) : new[i] = old[i]
  BY HistoryLength DEF Follows
<1> HIDE DEF old, new
<1>2. SubSeq(new, 1, Len(old)) = SubSeq(old, 1, Len(old))
  BY <1>1, BeginningsKept
<1>3. SubSeq(old, 1, Len(old)) = old
  BY <1>1, SubSeqFull
<1> QED
  BY <1>1, <1>2, <1>3 DEF old, new

\* A write for whoever holds the current claim: the job runs, and goes on to a
\* status of its own.
LEMMA OwnerWrites ==
    ASSUME StoreInv, NEW j \in JobIds, NEW id, IsCurrentClaim(j, id), NEW n \in Nat,
           NEW new, Sound(new), Follows(new, jobs[j]),
           new.status # "Running" \/ new.currentStateChangeId = id,
           Write(j, new, n), now' = now
    PROVE  StoreInv' /\ RowsEvolve
<1>1. jobs[j].status = "Running" /\ jobs[j].currentStateChangeId = id
  BY DEF IsCurrentClaim
<1>2. jobs[j] \in Record
  BY <1>1, StoredSound
<1>3. Evolves(jobs[j], new)
  BY <1>1, <1>2 DEF Evolves, Terminal, Sound
<1> QED
  BY <1>3, RowWritten

-----------------------------------------------------------------------------
(* One lemma per operation. *)

LEMMA EnqueueSound ==
    ASSUME StoreInv, NEW j \in JobIds, EnqueueJob(j)
    PROVE  StoreInv' /\ RowsEvolve
<1>1. PICK delay \in Delays : Enqueue(j, delay)
  BY DEF EnqueueJob
<1>2. now' = now /\ now \in Nat /\ lastId \in Nat
      /\ delay \in Nat /\ MaxAttempts \in Nat \ {0}
  BY ClientsAssumption, RetryPolicyAssumption
     DEF EnqueueJob, Call, StoreInv, StoreTypeOK
<1> DEFINE new == IF delay > 0
                  THEN ScheduledJob(lastId + 1, MaxAttempts, now + delay, now)
                  ELSE EnqueuedJob(lastId + 1, MaxAttempts, now)
<1>3. ~Exists(j) /\ Write(j, new, 1)
  BY <1>1 DEF Enqueue, Add
<1>4. Sound(new)
  <2>1. LET e == ScheduledChange(lastId + 1, now, now + delay)
        IN  e \in Change /\ e.status = "Scheduled" /\ e.by = NoWorker
            /\ e.scheduledAt = now + delay
    BY <1>2 DEF ScheduledChange, StateChange, Change, StateChanges, JobStatus, NoWorker
  <2>2. LET e == QueuedChange(lastId + 1, now)
        IN  e \in Change /\ e.status = "Queued" /\ e.by = NoWorker
    BY <1>2 DEF QueuedChange, StateChange, Change, StateChanges, JobStatus, NoWorker, NoTime
  <2>3. Sound(ScheduledJob(lastId + 1, MaxAttempts, now + delay, now))
    BY <1>2, <2>1, NewJobSound DEF ScheduledJob, Pending
  <2>4. Sound(EnqueuedJob(lastId + 1, MaxAttempts, now))
    BY <1>2, <2>2, NewJobSound DEF EnqueuedJob, Pending
  <2> QED
    BY <2>3, <2>4
<1> HIDE DEF new
<1>5. Evolves(jobs[j], new)
  BY <1>3, NoJobIsNoRecord DEF Evolves, Exists, Terminal
<1> QED
  BY <1>2, <1>3, <1>4, <1>5, RowWritten

LEMMA ClaimSound ==
    ASSUME StoreInv, NEW w \in Workers, ClaimNext(w)
    PROVE  StoreInv' /\ RowsEvolve
<1>1. PICK j \in JobIds, at \in ClockReadings :
         TryClaimNextDueJob(j, w, at, at + LeaseDuration)
  BY DEF ClaimNext
<1> DEFINE lease == at + LeaseDuration
<1>2. /\ now' = now /\ now \in Nat /\ lastId \in Nat
      /\ at \in Nat /\ at <= now /\ lease \in Nat
  BY ClientsAssumption DEF ClaimNext, Call, ClockReadings, StoreInv, StoreTypeOK
<1> HIDE DEF lease
<1>3. IsDue(jobs[j], at)
  BY <1>1 DEF TryClaimNextDueJob, IsNextDue, Due
<1>4. jobs[j].status # "Absent"
  BY <1>3 DEF IsDue, Pending
<1>5. Sound(jobs[j]) /\ jobs[j] \in Record
  BY <1>4, StoredSound
<1>6. ASSUME NEW new, NEW n \in Nat, Sound(new), Follows(new, jobs[j]), Write(j, new, n)
      PROVE  StoreInv' /\ RowsEvolve
  <2>1. jobs[j].status \notin Terminal
    BY <1>3 DEF IsDue, Pending, Terminal
  <2>2. ~(jobs[j].status = "Running" /\ jobs[j].leaseExpiresAt > now)
    <3>1. jobs[j].leaseExpiresAt \in Nat \cup {NoTime}
      BY <1>5 DEF Record, JobRecords
    <3> QED
      BY <1>2, <1>3, <3>1 DEF IsDue, Pending, NoTime
  <2>3. Evolves(jobs[j], new)
    BY <1>5, <1>6, <2>1, <2>2 DEF Evolves, Sound
  <2> QED
    BY <1>2, <1>6, <2>3, RowWritten
<1>7. CASE /\ jobs[j].status \in {"Running", "Queued"}
           /\ Write(j, Claimed(jobs[j], w, lastId + 1, at, lease), 1)
  <2> DEFINE new == Claimed(jobs[j], w, lastId + 1, at, lease)
  <2>1. Sound(new) /\ Follows(new, jobs[j])
    <3>1. lastId + 1 \in Nat
      BY <1>2
    <3> QED
      BY <1>2, <1>5, <1>7, <3>1, ClaimedSound
  <2>2. Write(j, new, 1)
    BY <1>7
  <2> HIDE DEF new
  <2> QED
    BY <1>6, <2>1, <2>2
<1>8. CASE /\ jobs[j].status = "Scheduled"
           /\ Write(j, Claimed(Requeued(jobs[j], lastId + 1, at),
                               w, lastId + 2, at, lease), 2)
  <2>1. jobs[j].runAt <= at
    BY <1>3, <1>8 DEF IsDue
  <2> DEFINE new == Claimed(Requeued(jobs[j], lastId + 1, at), w, lastId + 2, at, lease)
  <2>2. Sound(new) /\ Follows(new, jobs[j])
    <3>1. lastId + 1 \in Nat /\ lastId + 2 \in Nat
      BY <1>2
    <3> QED
      BY <1>2, <1>5, <1>8, <2>1, <3>1, RequeuedClaimedSound
  <2>3. Write(j, new, 2)
    BY <1>8
  <2> HIDE DEF new
  <2> QED
    BY <1>6, <2>2, <2>3
<1> QED
  BY <1>1, <1>7, <1>8 DEF TryClaimNextDueJob, lease

LEMMA OwnerFacts ==
    ASSUME StoreInv, NEW j \in JobIds, NEW id, IsCurrentClaim(j, id)
    PROVE  Sound(jobs[j]) /\ jobs[j] \in Record /\ jobs[j].status = "Running"
BY StoredSound DEF IsCurrentClaim

LEMMA CompleteSound ==
    ASSUME StoreInv, NEW j \in JobIds, NEW id \in Ids, CompleteJob(j, id)
    PROVE  StoreInv' /\ RowsEvolve
<1>1. now' = now /\ now \in Nat /\ lastId + 1 \in Nat /\ MarkCompleted(j, id)
  BY DEF CompleteJob, Call, StoreInv, StoreTypeOK
<1>2. CASE ~IsCurrentClaim(j, id)
  BY <1>1, <1>2, NothingWritten DEF MarkCompleted, Refused
<1>3. CASE IsCurrentClaim(j, id)
  <2> DEFINE new == Completed(jobs[j], lastId + 1, now)
  <2>1. Sound(new) /\ Follows(new, jobs[j])
    BY <1>1, <1>3, OwnerFacts, SettledSound DEF Completed, Terminal
  <2>2. new.status = "Completed"
    BY <1>3, OwnerFacts
       DEF Completed, Unclaimed, SettledChange, StateChange, Record, JobRecords
  <2>3. Write(j, new, 1)
    BY <1>1, <1>3 DEF MarkCompleted
  <2> HIDE DEF new
  <2> QED
    BY <1>1, <1>3, <2>1, <2>2, <2>3, OwnerWrites
<1> QED
  BY <1>2, <1>3

LEMMA FailSound ==
    ASSUME StoreInv, NEW j \in JobIds, NEW id \in Ids, FailJob(j, id)
    PROVE  StoreInv' /\ RowsEvolve
<1>1. PICK blank \in BOOLEAN : MarkFailed(j, id, blank)
  BY DEF FailJob
<1>2. now' = now /\ now \in Nat /\ lastId + 1 \in Nat
  BY DEF FailJob, Call, StoreInv, StoreTypeOK
<1>3. CASE ~(IsCurrentClaim(j, id) /\ ~blank)
  BY <1>1, <1>2, <1>3, NothingWritten DEF MarkFailed, Refused
<1>4. CASE IsCurrentClaim(j, id) /\ ~blank
  <2> DEFINE mid == Unclaimed(jobs[j], SettledChange(lastId + 1, now, "Failed"), NoTime)
             new == [mid EXCEPT !.failureReason = TRUE]
  <2>1. Sound(mid) /\ Follows(mid, jobs[j])
    BY <1>2, <1>4, OwnerFacts, SettledSound DEF Terminal
  <2>2. mid.status = "Failed"
    BY <1>4, OwnerFacts
       DEF Unclaimed, SettledChange, StateChange, Record, JobRecords
  <2>3. Write(j, new, 1)
    BY <1>1, <1>4 DEF MarkFailed, Failed
  <2> HIDE DEF mid
  <2>4. Sound(new) /\ Follows(new, jobs[j]) /\ new.status = "Failed"
    BY <2>1, <2>2, ReasonSound DEF Sound, Record, JobRecords
  <2> HIDE DEF new
  <2> QED
    BY <1>2, <1>4, <2>3, <2>4, OwnerWrites
<1> QED
  BY <1>3, <1>4

LEMMA RetrySound ==
    ASSUME StoreInv, NEW j \in JobIds, NEW id \in Ids, RetryJob(j, id)
    PROVE  StoreInv' /\ RowsEvolve
<1>1. PICK blank \in BOOLEAN, at \in ClockReadings :
         ScheduleRetry(j, id, blank, at + RetryDelay)
  BY DEF RetryJob
<1>2. /\ now' = now /\ now \in Nat /\ lastId + 1 \in Nat
      /\ at + RetryDelay \in Nat
  BY RetryPolicyAssumption DEF RetryJob, Call, ClockReadings, StoreInv, StoreTypeOK
<1> DEFINE ok == /\ IsCurrentClaim(j, id)
                 /\ AttemptCount(jobs[j]) < jobs[j].maxAttempts
                 /\ ~blank
<1>3. CASE ~ok
  BY <1>1, <1>2, <1>3, NothingWritten DEF ScheduleRetry, Refused
<1>4. CASE ok
  <2> DEFINE runAt == at + RetryDelay
             new == RetryScheduled(jobs[j], lastId + 1, now, runAt)
  <2>1. Write(j, new, 2)
    BY <1>1, <1>4 DEF ScheduleRetry
  <2> HIDE DEF runAt
  <2>2. runAt \in Nat
    BY <1>2 DEF runAt
  <2>3. Sound(new) /\ Follows(new, jobs[j])
    BY <1>2, <1>4, <2>2, OwnerFacts, RetryScheduledSound
  <2>4. new.status = "Scheduled"
    BY <1>4, OwnerFacts
       DEF RetryScheduled, Unclaimed, ScheduledChange, StateChange, Record, JobRecords
  <2> HIDE DEF new
  <2> QED
    BY <1>2, <1>4, <2>1, <2>3, <2>4, OwnerWrites
<1> QED
  BY <1>3, <1>4

LEMMA RenewSound ==
    ASSUME StoreInv, NEW j \in JobIds, NEW id \in Ids, RenewJob(j, id)
    PROVE  StoreInv' /\ RowsEvolve
<1>1. PICK at \in ClockReadings : RenewLease(j, id, at, at + LeaseDuration)
  BY DEF RenewJob
<1> DEFINE lease == at + LeaseDuration
<1>2. now' = now /\ now \in Nat /\ lease \in Nat
  BY ClientsAssumption DEF RenewJob, Call, ClockReadings, StoreInv, StoreTypeOK
<1> DEFINE ok == lease > at /\ IsCurrentClaim(j, id)
<1>3. CASE ~ok
  BY <1>1, <1>2, <1>3, NothingWritten DEF RenewLease, Refused
<1>4. CASE ok
  <2> DEFINE new == [jobs[j] EXCEPT !.leaseExpiresAt = lease]
  <2>1. Write(j, new, 0)
    BY <1>1, <1>4 DEF RenewLease
  <2> HIDE DEF lease
  <2>2. Sound(new) /\ Follows(new, jobs[j])
    BY <1>2, <1>4, OwnerFacts, RenewedSound
  <2>3. new.currentStateChangeId = id
    BY <1>4, OwnerFacts DEF IsCurrentClaim, Record, JobRecords
  <2> HIDE DEF new
  <2> QED
    BY <1>2, <1>4, <2>1, <2>2, <2>3, OwnerWrites
<1> QED
  BY <1>3, <1>4

LEMMA AcknowledgeSound ==
    ASSUME StoreInv, NEW j \in JobIds, AcknowledgeJob(j)
    PROVE  StoreInv' /\ RowsEvolve
<1>1. now' = now /\ now \in Nat /\ Acknowledge(j)
  BY DEF AcknowledgeJob, StoreInv, StoreTypeOK
<1>2. CASE ~Exists(j)
  BY <1>1, <1>2, NothingWritten DEF Acknowledge, Refused
<1>3. CASE Exists(j)
  <2> DEFINE new == [jobs[j] EXCEPT !.acknowledged = TRUE]
  <2>1. Write(j, new, 0)
    BY <1>1, <1>3 DEF Acknowledge
  <2>2. Sound(jobs[j])
    BY <1>3 DEF StoreInv, Stored
  <2>3. /\ Sound(new) /\ Follows(new, jobs[j])
        /\ new.status = jobs[j].status
        /\ new.currentStateChangeId = jobs[j].currentStateChangeId
        /\ new.history = jobs[j].history
    BY <2>2, AcknowledgedSound
  <2> HIDE DEF new
  <2>4. Evolves(jobs[j], new)
    BY <2>2, <2>3 DEF Evolves, Sound
  <2> QED
    BY <1>1, <2>1, <2>3, <2>4, RowWritten
<1> QED
  BY <1>2, <1>3

LEMMA InitSound == Init => StoreInv
BY DEF Init, StoreInit, StoreInv, StoreTypeOK, Stored, Exists

LEMMA StepSound == StoreInv /\ [Next]_vars => StoreInv' /\ RowsEvolve
<1> SUFFICES ASSUME StoreInv, [Next]_vars
             PROVE  StoreInv' /\ RowsEvolve
  OBVIOUS
<1>0. now \in Nat
  BY DEF StoreInv, StoreTypeOK
<1>1. CASE Tick
  BY <1>0, <1>1, NothingWritten DEF Tick
<1>2. CASE UNCHANGED vars
  BY <1>0, <1>2, NothingWritten DEF vars, storeVars
<1>3. CASE Next /\ ~Tick
  BY <1>3, EnqueueSound, ClaimSound, CompleteSound, FailSound, RetrySound, RenewSound,
     AcknowledgeSound DEF Next
<1> QED
  BY <1>1, <1>2, <1>3

-----------------------------------------------------------------------------
(* The attempts that are shown. *)

ScansOf(h, scans) ==
    scans = [n \in 0 .. Len(h) |->
               IF n = 0 THEN Scan(<<>>, NoTime) ELSE ScanChange(scans[n - 1], h[n])]

\* The loop is well-defined: whatever the changes, there is a state after each of them.
LEMMA ScansExist ==
    ASSUME NEW h, Len(h) \in Nat
    PROVE  \E scans : ScansOf(h, scans)
<1> DEFINE UpTo(n, scans) ==
             scans = [i \in 0 .. n |->
                        IF i = 0 THEN Scan(<<>>, NoTime) ELSE ScanChange(scans[i - 1], h[i])]
           Reached == {n \in Nat : \E scans : UpTo(n, scans)}
<1>1. 0 \in Reached
  <2>1. UpTo(0, [i \in 0 .. 0 |-> Scan(<<>>, NoTime)])
    OBVIOUS
  <2> QED
    BY <2>1
<1>2. ASSUME NEW n \in Nat, n \in Reached PROVE n + 1 \in Reached
  <2>1. PICK scans : UpTo(n, scans)
    BY <1>2
  <2> DEFINE longer == [i \in 0 .. n + 1 |->
                          IF i = n + 1 THEN ScanChange(scans[n], h[n + 1]) ELSE scans[i]]
             rhs == [i \in 0 .. n + 1 |->
                        IF i = 0 THEN Scan(<<>>, NoTime) ELSE ScanChange(longer[i - 1], h[i])]
  <2>2. ASSUME NEW i \in 0 .. n + 1 PROVE longer[i] = rhs[i]
    <3>1. CASE i = n + 1
      <4>1. i # 0 /\ i - 1 = n /\ n \in 0 .. n + 1 /\ n # n + 1
        BY <3>1
      <4>2. longer[i - 1] = scans[n]
        BY <4>1
      <4> HIDE DEF longer
      <4>3. rhs[i] = ScanChange(scans[n], h[n + 1])
        BY <3>1, <4>1, <4>2
      <4> QED
        BY <3>1, <4>3 DEF longer
    <3>2. CASE i = 0
      <4>1. scans[0] = Scan(<<>>, NoTime)
        BY <2>1
      <4>2. 0 # n + 1
        OBVIOUS
      <4> QED
        BY <3>2, <4>1, <4>2
    <3>3. CASE i \in 1 .. n
      <4>1. i # n + 1 /\ i # 0 /\ i \in 0 .. n /\ i - 1 \in 0 .. n + 1 /\ i - 1 # n + 1
        BY <3>3
      <4>2. scans[i] = ScanChange(scans[i - 1], h[i])
        BY <2>1, <4>1
      <4>3. longer[i - 1] = scans[i - 1] /\ longer[i] = scans[i]
        BY <4>1
      <4> HIDE DEF longer
      <4>4. rhs[i] = ScanChange(scans[i - 1], h[i])
        BY <4>1, <4>3
      <4> QED
        BY <4>2, <4>3, <4>4
    <3> QED
      BY <3>1, <3>2, <3>3
  <2>3. longer = rhs
    BY <2>2
  <2>4. UpTo(n + 1, longer)
    BY <2>3
  <2> HIDE DEF UpTo
  <2> QED
    BY <2>4
<1> HIDE DEF Reached
<1>3. Len(h) \in Reached
  BY <1>1, <1>2, InductiveSet
<1> QED
  BY <1>3 DEF Reached, ScansOf

LEMMA ScansRecur ==
    ASSUME NEW h \in Seq(Change)
    PROVE  /\ Scans(h)[0] = Scan(<<>>, NoTime)
           /\ \A n \in 1 .. Len(h) : Scans(h)[n] = ScanChange(Scans(h)[n - 1], h[n])
<1>1. Len(h) \in Nat
  OBVIOUS
<1>2. Scans(h) = CHOOSE scans : ScansOf(h, scans)
  BY DEF Scans, ScansOf
<1>3. ScansOf(h, Scans(h))
  BY <1>1, <1>2, ScansExist
<1> DEFINE scans == Scans(h)
<1>4. scans = [n \in 0 .. Len(h) |->
                 IF n = 0 THEN Scan(<<>>, NoTime) ELSE ScanChange(scans[n - 1], h[n])]
  BY <1>3 DEF ScansOf
<1> HIDE DEF scans
<1>5. scans[0] = Scan(<<>>, NoTime)
  BY <1>1, <1>4
<1>6. ASSUME NEW n \in 1 .. Len(h) PROVE scans[n] = ScanChange(scans[n - 1], h[n])
  <2>1. n \in 0 .. Len(h) /\ n # 0
    BY <1>1
  <2> QED
    BY <1>4, <2>1
<1> QED
  BY <1>5, <1>6 DEF scans

\* The final claims among the first n - 1 changes, and their attempts.
ClaimsBefore(h, n) == {i \in FinalClaims(h) : i < n}

AttemptRecords ==
    [number : Nat, status : JobStatus, startedAt : Nat, finishedAt : Nat \cup {NoTime}]

Shown(h, n, attempts) ==
    /\ attempts \in Seq(AttemptRecords)
    /\ Len(attempts) = Cardinality(ClaimsBefore(h, n))
    /\ \A i \in ClaimsBefore(h, n) : attempts[AttemptNumber(h, i)] = AttemptAt(h, i)

LEMMA ClaimsBeforeFacts ==
    ASSUME NEW h \in Seq(Change), NEW n \in Nat
    PROVE  /\ FinalClaims(h) \subseteq 1 .. Len(h)
           /\ IsFiniteSet(ClaimsBefore(h, n)) /\ Cardinality(ClaimsBefore(h, n)) \in Nat
           /\ ClaimsBefore(h, Len(h) + 1) = FinalClaims(h)
<1>1. DOMAIN h = 1 .. Len(h) /\ Len(h) \in Nat
  OBVIOUS
<1>2. FinalClaims(h) \subseteq 1 .. Len(h)
  BY <1>1 DEF FinalClaims
<1>3. IsFiniteSet(1 .. Len(h))
  BY <1>1, FS_Interval
<1>4. IsFiniteSet(ClaimsBefore(h, n))
  BY <1>2, <1>3, FS_Subset DEF ClaimsBefore
<1>5. ClaimsBefore(h, Len(h) + 1) = FinalClaims(h)
  BY <1>1, <1>2 DEF ClaimsBefore
<1> QED
  BY <1>2, <1>4, <1>5, FS_CardinalityType

\* The number of a final claim counts it and those before it.
LEMMA NumberFacts ==
    ASSUME NEW h \in Seq(Change), NEW n \in Nat, n \in FinalClaims(h)
    PROVE  /\ AttemptNumber(h, n) = Cardinality(ClaimsBefore(h, n)) + 1
           /\ Cardinality(ClaimsBefore(h, n + 1)) = Cardinality(ClaimsBefore(h, n)) + 1
           /\ ClaimsBefore(h, n + 1) = ClaimsBefore(h, n) \cup {n}
           /\ \A i \in ClaimsBefore(h, n) : AttemptNumber(h, i) \in 1 .. Cardinality(ClaimsBefore(h, n))
<1>1. FinalClaims(h) \subseteq Int
  BY ClaimsBeforeFacts
<1>2. /\ ClaimsBefore(h, n + 1) = ClaimsBefore(h, n) \cup {n} /\ n \notin ClaimsBefore(h, n)
      /\ {k \in FinalClaims(h) : k <= n} = ClaimsBefore(h, n) \cup {n}
  BY <1>1 DEF ClaimsBefore
<1>3. Cardinality(ClaimsBefore(h, n) \cup {n}) = Cardinality(ClaimsBefore(h, n)) + 1
  BY <1>2, ClaimsBeforeFacts, FS_AddElement
<1>4. ASSUME NEW i \in ClaimsBefore(h, n)
      PROVE  AttemptNumber(h, i) \in 1 .. Cardinality(ClaimsBefore(h, n))
  <2> DEFINE upTo == {k \in FinalClaims(h) : k <= i}
  <2>1. upTo \subseteq ClaimsBefore(h, n) /\ i \in upTo
    BY <1>1 DEF ClaimsBefore
  <2>2. /\ IsFiniteSet(upTo) /\ Cardinality(upTo) <= Cardinality(ClaimsBefore(h, n))
    BY <2>1, ClaimsBeforeFacts, FS_Subset
  <2>3. Cardinality(upTo) \in Nat /\ Cardinality(upTo) # 0
    BY <2>1, <2>2, FS_CardinalityType, FS_EmptySet
  <2>4. AttemptNumber(h, i) = Cardinality(upTo)
    BY DEF AttemptNumber
  <2> QED
    BY <2>2, <2>3, <2>4, ClaimsBeforeFacts
<1> QED
  BY <1>2, <1>3, <1>4 DEF AttemptNumber

LEMMA AttemptShown ==
    ASSUME NEW h \in Seq(Change), NEW n \in Nat, n \in FinalClaims(h),
           NEW attempts, Shown(h, n, attempts)
    PROVE  /\ AttemptNumber(h, n) = Len(attempts) + 1
           /\ Shown(h, n + 1, Append(attempts, AttemptAt(h, n)))
<1> DEFINE a == AttemptAt(h, n)
           new == Append(attempts, a)
<1>1. AttemptNumber(h, n) = Len(attempts) + 1 /\ Len(attempts) \in Nat
  BY NumberFacts DEF Shown
<1>2. a \in AttemptRecords
  <2>1. n \in DOMAIN h /\ DOMAIN h = 1 .. Len(h)
    BY ClaimsBeforeFacts
  <2>2. h[n] \in Change /\ (n + 1 \in DOMAIN h => h[n + 1] \in Change)
    BY <2>1, ElementOfSeq
  <2> QED
    BY <1>1, <2>2 DEF AttemptAt, Attempt, AttemptRecords, Change, StateChanges, JobStatus
<1> HIDE DEF a
<1>3. /\ new \in Seq(AttemptRecords) /\ Len(new) = Len(attempts) + 1
      /\ \A i \in 1 .. Len(attempts) : new[i] = attempts[i]
      /\ new[Len(attempts) + 1] = a
  BY <1>2 DEF Shown
<1> HIDE DEF new
<1>4. Len(new) = Cardinality(ClaimsBefore(h, n + 1))
  BY <1>3, NumberFacts DEF Shown
<1>5. ASSUME NEW i \in ClaimsBefore(h, n + 1) PROVE new[AttemptNumber(h, i)] = AttemptAt(h, i)
  <2>1. CASE i = n
    BY <1>1, <1>3, <2>1 DEF a
  <2>2. CASE i \in ClaimsBefore(h, n)
    BY <1>3, <2>2, NumberFacts DEF Shown
  <2> QED
    BY <2>1, <2>2, NumberFacts
<1> QED
  BY <1>1, <1>3, <1>4, <1>5 DEF Shown, new, a

LEMMA NothingShown ==
    ASSUME NEW h \in Seq(Change), NEW n \in Nat, n \notin FinalClaims(h),
           NEW attempts, Shown(h, n, attempts)
    PROVE  Shown(h, n + 1, attempts)
<1>1. FinalClaims(h) \subseteq Int
  BY ClaimsBeforeFacts
<1>2. ClaimsBefore(h, n + 1) = ClaimsBefore(h, n)
  BY <1>1 DEF ClaimsBefore
<1> QED
  BY <1>2 DEF Shown

\* After n changes the loop holds the attempts of the claims before the n-th change and,
\* if that one is a claim, its start.
Loop(h, n, scan) ==
    /\ Shown(h, n, scan.attempts)
    /\ scan.startedAt = IF n > 0 /\ h[n].status = "Running" THEN h[n].changedAt ELSE NoTime

LEMMA LoopStarts ==
    ASSUME NEW h \in Seq(Change)
    PROVE  Loop(h, 0, Scan(<<>>, NoTime))
<1>0. FinalClaims(h) \subseteq 1 .. Len(h)
  BY ClaimsBeforeFacts
<1>1. ClaimsBefore(h, 0) = {}
  BY <1>0 DEF ClaimsBefore
<1>2. Cardinality({}) = 0
  BY FS_EmptySet
<1>3. <<>> \in Seq(AttemptRecords) /\ Len(<<>>) = 0
  OBVIOUS
<1>4. Shown(h, 0, <<>>)
  BY <1>1, <1>2, <1>3 DEF Shown
<1> QED
  BY <1>4 DEF Loop, Scan

LEMMA LoopStep ==
    ASSUME NEW h \in Seq(Change), Legal(h), NEW n \in Nat, n < Len(h),
           NEW scan, Loop(h, n, scan)
    PROVE  Loop(h, n + 1, ScanChange(scan, h[n + 1]))
<1> DEFINE c == h[n + 1]
<1>1. /\ n + 1 \in DOMAIN h /\ DOMAIN h = 1 .. Len(h) /\ Len(h) \in Nat
      /\ c \in Change /\ c.changedAt \in Nat /\ c.status \in JobStatus
  <2>1. n + 1 \in DOMAIN h /\ DOMAIN h = 1 .. Len(h) /\ Len(h) \in Nat
    OBVIOUS
  <2>2. c \in Change
    BY <2>1, ElementOfSeq
  <2> QED
    BY <2>1, <2>2 DEF Change, StateChanges
<1>2. n = 0 => c.status \in Pending
  BY DEF Legal
<1>3. n > 0 => n \in DOMAIN h /\ <<h[n].status, c.status>> \in LegalSteps
  BY <1>1 DEF Legal, Steps
<1>4. n > 0 => h[n].changedAt \in Nat
  <2> SUFFICES ASSUME n > 0 PROVE h[n].changedAt \in Nat
    OBVIOUS
  <2>1. h[n] \in Change
    BY <1>3, ElementOfSeq
  <2> QED
    BY <2>1 DEF Change, StateChanges
<1>5. n \in FinalClaims(h) <=> n > 0 /\ h[n].status = "Running" /\ c.status # "Running"
  BY <1>1, <1>3 DEF FinalClaims
<1> HIDE DEF c
<1>6. CASE c.status = "Running"
  <2>1. ScanChange(scan, c) = Scan(scan.attempts, c.changedAt)
    BY <1>6 DEF ScanChange, Terminal
  <2>2. Shown(h, n + 1, scan.attempts)
    BY <1>5, <1>6, NothingShown DEF Loop
  <2> QED
    BY <1>6, <2>1, <2>2 DEF Loop, Scan, c
<1>7. CASE c.status \in Terminal
  <2>1. n > 0 /\ h[n].status = "Running"
    BY <1>2, <1>3, <1>7 DEF Pending, Terminal, LegalSteps
  <2>2. scan.startedAt = h[n].changedAt /\ IsOpen(scan)
    BY <1>4, <2>1 DEF Loop, IsOpen, NoTime
  <2>3. c.status # "Running"
    BY <1>7 DEF Terminal
  <2>4. n \in FinalClaims(h)
    BY <1>5, <2>1, <2>3
  <2>5. /\ AttemptNumber(h, n) = Len(scan.attempts) + 1
        /\ Shown(h, n + 1, Append(scan.attempts, AttemptAt(h, n)))
    BY <2>4, AttemptShown DEF Loop
  <2>6. Close(scan, c.status, c.changedAt) = Append(scan.attempts, AttemptAt(h, n))
    BY <1>1, <2>2, <2>5 DEF Close, AttemptAt, c
  <2>7. ScanChange(scan, c) = Scan(Close(scan, c.status, c.changedAt), NoTime)
    BY <1>7, <2>2, <2>3 DEF ScanChange
  <2> QED
    BY <2>3, <2>5, <2>6, <2>7 DEF Loop, Scan, c
<1>8. CASE c.status \in Pending
  <2>1. c.status \notin Terminal /\ c.status # "Running"
    BY <1>8 DEF Pending, Terminal
  <2>2. ~ (n > 0 /\ h[n].status = "Running")
    BY <1>3, <1>8 DEF Pending, LegalSteps
  <2>3. ScanChange(scan, c) = scan
    BY <2>1 DEF ScanChange
  <2>4. Shown(h, n + 1, scan.attempts)
    BY <1>5, <2>2, NothingShown DEF Loop
  <2>5. scan.startedAt = NoTime
    BY <2>2 DEF Loop
  <2> QED
    BY <2>1, <2>3, <2>4, <2>5 DEF Loop, c
<1> QED
  BY <1>1, <1>6, <1>7, <1>8 DEF JobStatus, Pending, Terminal, c

LEMMA LoopEnds ==
    ASSUME NEW h \in Seq(Change), Legal(h)
    PROVE  Loop(h, Len(h), Scans(h)[Len(h)])
<1> DEFINE S == {n \in Nat : n <= Len(h) => Loop(h, n, Scans(h)[n])}
<1>1. 0 \in S
  BY LoopStarts, ScansRecur
<1>2. ASSUME NEW n \in Nat, n \in S PROVE n + 1 \in S
  <2> SUFFICES ASSUME n + 1 <= Len(h) PROVE Loop(h, n + 1, Scans(h)[n + 1])
    OBVIOUS
  <2>1. Len(h) \in Nat /\ n < Len(h) /\ n + 1 \in 1 .. Len(h) /\ (n + 1) - 1 = n
    OBVIOUS
  <2>2. Loop(h, n, Scans(h)[n])
    BY <1>2, <2>1
  <2>3. Scans(h)[n + 1] = ScanChange(Scans(h)[n], h[n + 1])
    BY <2>1, ScansRecur
  <2> QED
    BY <2>1, <2>2, <2>3, LoopStep
<1>3. Len(h) \in Nat
  OBVIOUS
<1> HIDE DEF S
<1>4. Nat \subseteq S
  BY <1>1, <1>2, InductiveSet
<1> QED
  BY <1>3, <1>4 DEF S

LEMMA AttemptsOfLegal ==
    ASSUME NEW h \in Seq(Change), Legal(h)
    PROVE  AreAttemptsOf(BuildAttempts(h), h)
<1> DEFINE scan == Scans(h)[Len(h)]
           n == Len(h)
<1>1. Loop(h, n, scan)
  BY LoopEnds
<1>2. n \in Nat /\ n > 0 /\ DOMAIN h = 1 .. n /\ n + 1 \notin DOMAIN h /\ n \in DOMAIN h
  BY DEF Legal
<1>3. h[n].changedAt \in Nat
  <2>1. h[n] \in Change
    BY <1>2, ElementOfSeq
  <2> QED
    BY <2>1 DEF Change, StateChanges
<1>4. BuildAttempts(h) = IF IsOpen(scan) THEN Close(scan, "Running", NoTime) ELSE scan.attempts
  BY DEF BuildAttempts
<1>5. n \in FinalClaims(h) <=> h[n].status = "Running"
  BY <1>2 DEF FinalClaims
<1> HIDE DEF scan
<1>6. Shown(h, n + 1, BuildAttempts(h))
  <2>1. CASE h[n].status = "Running"
    <3>1. scan.startedAt = h[n].changedAt /\ IsOpen(scan)
      BY <1>1, <1>2, <1>3, <2>1 DEF Loop, IsOpen, NoTime
    <3>2. /\ AttemptNumber(h, n) = Len(scan.attempts) + 1
          /\ Shown(h, n + 1, Append(scan.attempts, AttemptAt(h, n)))
      BY <1>1, <1>2, <1>5, <2>1, AttemptShown DEF Loop
    <3>3. Close(scan, "Running", NoTime) = Append(scan.attempts, AttemptAt(h, n))
      BY <1>2, <3>1, <3>2 DEF Close, AttemptAt
    <3> QED
      BY <1>4, <3>1, <3>2, <3>3
  <2>2. CASE h[n].status # "Running"
    <3>1. ~ IsOpen(scan)
      BY <1>1, <2>2 DEF Loop, IsOpen
    <3> QED
      BY <1>1, <1>2, <1>4, <1>5, <2>2, <3>1, NothingShown DEF Loop
  <2> QED
    BY <2>1, <2>2
<1>7. ClaimsBefore(h, n + 1) = FinalClaims(h)
  BY <1>2, ClaimsBeforeFacts
<1> QED
  BY <1>6, <1>7 DEF Shown, AreAttemptsOf

-----------------------------------------------------------------------------
(* The theorems. *)

LEMMA StoreInvariant == Spec => []StoreInv
<1>1. StoreInv /\ [Next]_vars => StoreInv'
  BY StepSound
<1> QED
  BY InitSound, <1>1, PTL DEF Spec

\* Whoever calls the store, with whatever id and as often as wanted, every history moves
\* along the lifecycle: it starts pending, nothing is settled without having run, and
\* nothing runs again after a failure unless a retry was scheduled (SqliteJobStore.cs).
THEOREM HistoriesAreLegal == Spec => []HistoryLegal
<1>1. StoreInv => HistoryLegal
  BY DEF StoreInv, Sound, SoundHistory, Legal, HistoryLegal
<1> QED
  BY StoreInvariant, <1>1, PTL

\* And every row says what the last change of its history says.
THEOREM RowsMatchHistories == Spec => []RowMatchesHistory
<1>1. StoreInv => RowMatchesHistory
  BY DEF StoreInv, Sound, MatchesHistory, LastOf, RowMatchesHistory
<1> QED
  BY StoreInvariant, <1>1, PTL

\* No delayed job and no retry starts before its time.
THEOREM NothingStartsEarly == Spec => []NeverEarly
<1>1. StoreInv => NeverEarly
  BY DEF StoreInv, Sound, SoundHistory, OnTime, NeverEarly
<1> QED
  BY StoreInvariant, <1>1, PTL

\* Retries stay within the attempts of the job.
THEOREM RetriesAreBounded == Spec => []RetriesWithinBudget
<1>1. StoreInv => RetriesWithinBudget
  BY DEF StoreInv, Sound, SoundHistory, InBudget, RetriesWithinBudget
<1> QED
  BY StoreInvariant, <1>1, PTL

\* The attempts that the API and the pages show of a job are its claims that were not
\* taken over, each with its start and the end that the change after it records, whatever
\* the callers did to the job (JobRecord.BuildAttempts).
THEOREM AttemptsAreShown == Spec => []AttemptsMatchHistory
<1>1. StoreInv => AttemptsMatchHistory
  BY AttemptsOfLegal DEF StoreInv, Sound, SoundHistory, AttemptsMatchHistory
<1> QED
  BY StoreInvariant, <1>1, PTL

\* A settled job is not moved by any call.
THEOREM SettledStays == Spec => SettledIsFinal
<1>1. StoreInv /\ [Next]_vars =>
        [\A j \in JobIds : jobs[j].status \in Terminal =>
           /\ jobs'[j].status = jobs[j].status
           /\ jobs'[j].currentStateChangeId = jobs[j].currentStateChangeId
           /\ jobs'[j].history = jobs[j].history]_vars
  BY StepSound DEF RowsEvolve, Evolves
<1> QED
  BY StoreInvariant, <1>1, PTL DEF Spec, SettledIsFinal

\* No call rewrites what is recorded.
THEOREM HistoriesGrow == Spec => HistoryOnlyGrows
<1>1. ASSUME StoreInv, [Next]_vars, NEW j \in Stored
      PROVE  /\ Len(jobs[j].history) <= Len(jobs'[j].history)
             /\ SubSeq(jobs'[j].history, 1, Len(jobs[j].history)) = jobs[j].history
  BY <1>1, StepSound, HistoryKept DEF RowsEvolve, Evolves, Stored, Exists
<1>2. StoreInv /\ [Next]_vars =>
        [\A j \in Stored :
           LET old == jobs[j].history
               new == jobs'[j].history
           IN  Len(old) <= Len(new) /\ SubSeq(new, 1, Len(old)) = old]_vars
  BY <1>1
<1> QED
  BY StoreInvariant, <1>2, PTL DEF Spec, HistoryOnlyGrows

\* An acknowledgement survives every later operation.
THEOREM AcknowledgementsStick == Spec => AcknowledgementSticks
<1>1. StoreInv /\ [Next]_vars =>
        [\A j \in Stored : jobs[j].acknowledged => jobs'[j].acknowledged]_vars
  BY StepSound DEF RowsEvolve, Evolves, Follows, Stored, Exists
<1> QED
  BY StoreInvariant, <1>1, PTL DEF Spec, AcknowledgementSticks

\* While the lease is ahead of every clock the claim is not taken over.
THEOREM LiveLeasesHold == Spec => LiveLeaseNotTaken
<1>1. StoreInv /\ [Next]_vars =>
        [\A j \in JobIds :
           /\ jobs[j].status = "Running"
           /\ jobs[j].leaseExpiresAt > now
           /\ jobs'[j].status = "Running"
           => jobs'[j].currentStateChangeId = jobs[j].currentStateChangeId]_vars
  BY StepSound DEF RowsEvolve, Evolves
<1> QED
  BY StoreInvariant, <1>1, PTL DEF Spec, LiveLeaseNotTaken
=============================================================================
