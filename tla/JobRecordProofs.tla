---------------------------- MODULE JobRecordProofs ----------------------------
(***************************************************************************)
(* Lemmas about the transitions of a job record, for the proofs about the   *)
(* modules that store such records: what the new record is, that the claims *)
(* in its history stay, and its stage in JobOwnership; and induction over    *)
(* the numbers, for what a loop over a history computes.                    *)
(***************************************************************************)
EXTENDS JobRecord, FiniteSetTheorems, WellFoundedInduction, TLAPS

-----------------------------------------------------------------------------
(* Numbers. *)

\* Every set of numbers that has a member has a least one.
LEMMA LeastNumber ==
    ASSUME NEW S, S \subseteq Nat, S # {}
    PROVE  \E m \in S : \A n \in S : m <= n
<1> DEFINE R == {p \in Nat \X Nat : p[1] < p[2]}
<1>1. IsWellFoundedOn(R, Nat)
  BY NatLessThanWellFounded DEF OpToRel
<1>2. \A m, n \in Nat : <<n, m>> \in R <=> n < m
  OBVIOUS
<1> HIDE DEF R
<1>3. PICK m \in S : \A n \in S : ~ (<<n, m>> \in R)
  BY <1>1, WFMin
<1>4. ASSUME NEW n \in S PROVE m <= n
  <2>1. m \in Nat /\ n \in Nat /\ ~ (n < m)
    BY <1>2, <1>3
  <2> QED
    BY <2>1
<1> QED
  BY <1>4

\* Induction, with the set of the numbers that have the property in place of the property.
LEMMA InductiveSet ==
    ASSUME NEW S, 0 \in S, \A n \in Nat : n \in S => n + 1 \in S
    PROVE  Nat \subseteq S
<1> SUFFICES ASSUME Nat \ S # {} PROVE FALSE
  OBVIOUS
<1>1. PICK m \in Nat \ S : \A n \in Nat \ S : m <= n
  BY LeastNumber
<1>2. m - 1 \in Nat /\ ~ (m <= m - 1)
  BY <1>1
<1>3. m - 1 \in S
  BY <1>1, <1>2
<1> QED
  BY <1>1, <1>2, <1>3

-----------------------------------------------------------------------------
(* Transitions. *)

Record == JobRecords
Change == StateChanges

\* The number of attempts is a number: the history is finite.
LEMMA AttemptCountType ==
    ASSUME NEW job \in Record
    PROVE  AttemptCount(job) \in Nat
<1> DEFINE h == job.history
<1>1. h \in Seq(Change)
  BY DEF Record, JobRecords, Change
<1>2. DOMAIN h = 1 .. Len(h) /\ Len(h) \in Nat
  BY <1>1
<1>3. IsFiniteSet(DOMAIN h)
  BY <1>2, FS_Interval
<1>4. IsFiniteSet({i \in DOMAIN h : h[i].status = "Running"})
  BY <1>3, FS_Subset
<1> QED
  BY <1>4, FS_CardinalityType DEF AttemptCount, AttemptsIn

LastOf(h) == h[Len(h)]

\* A change appended to a history is its last one and leaves the others in place.
LEMMA Appended ==
    ASSUME NEW h \in Seq(Change), NEW e \in Change
    PROVE  /\ Append(h, e) \in Seq(Change)
           /\ Len(h) \in Nat /\ Len(Append(h, e)) = Len(h) + 1
           /\ \A i \in 1 .. Len(h) : Append(h, e)[i] = h[i]
           /\ LastOf(Append(h, e)) = e
BY DEF LastOf

\* A change that is not a claim leaves the number of attempts as it was.
LEMMA NoAttemptAppended ==
    ASSUME NEW h \in Seq(Change), NEW e \in Change, e.status # "Running"
    PROVE  AttemptsIn(Append(h, e)) = AttemptsIn(h)
<1>1. /\ DOMAIN h = 1 .. Len(h) /\ DOMAIN Append(h, e) = 1 .. Len(h) + 1
      /\ Len(h) \in Nat
      /\ \A i \in 1 .. Len(h) : Append(h, e)[i] = h[i]
      /\ Append(h, e)[Len(h) + 1] = e
  OBVIOUS
<1>2. {i \in DOMAIN Append(h, e) : Append(h, e)[i].status = "Running"}
        = {i \in DOMAIN h : h[i].status = "Running"}
  BY <1>1
<1> QED
  BY <1>2 DEF AttemptsIn

\* A claim once written stays in the history that grows.
LEMMA AppendKeepsClaims ==
    ASSUME NEW h \in Seq(Change), NEW e \in Change
    PROVE  /\ Append(h, e) \in Seq(Change)
           /\ \A id, w : WroteClaim(h, id, w) => WroteClaim(Append(h, e), id, w)
           /\ e.status = "Running" => WroteClaim(Append(h, e), e.id, e.by)
<1>1. /\ Append(h, e) \in Seq(Change)
      /\ DOMAIN h = 1 .. Len(h) /\ Len(h) \in Nat
      /\ DOMAIN Append(h, e) = 1 .. Len(h) + 1
      /\ \A i \in 1 .. Len(h) : Append(h, e)[i] = h[i]
      /\ Append(h, e)[Len(h) + 1] = e
  OBVIOUS
<1>2. ASSUME NEW id, NEW w, WroteClaim(h, id, w)
      PROVE  WroteClaim(Append(h, e), id, w)
  BY <1>1, <1>2 DEF WroteClaim
<1>3. e.status = "Running" => WroteClaim(Append(h, e), e.id, e.by)
  BY <1>1 DEF WroteClaim
<1> QED
  BY <1>1, <1>2, <1>3

\* What every transition of a record that appends the change e leaves behind.
Extended(new, job, e) ==
    /\ new \in Record
    /\ new.status = e.status
    /\ new.currentStateChangeId = e.id
    /\ \A id, w : WroteClaim(job.history, id, w) => WroteClaim(new.history, id, w)

\* Unclaimed and the transitions that are Unclaimed with one change.
LEMMA UnclaimedFacts ==
    ASSUME NEW job \in Record, NEW e \in Change, NEW runAt \in Nat \cup {NoTime}
    PROVE  /\ Extended(Unclaimed(job, e, runAt), job, e)
           /\ Unclaimed(job, e, runAt).claimedBy = NoWorker
           /\ Unclaimed(job, e, runAt).leaseExpiresAt = NoTime
<1> DEFINE h == Append(job.history, e)
           new == Unclaimed(job, e, runAt)
<1>1. job.history \in Seq(Change)
  BY DEF Record, JobRecords, Change
<1>2. /\ h \in Seq(Change)
      /\ \A id, w : WroteClaim(job.history, id, w) => WroteClaim(h, id, w)
  BY <1>1, AppendKeepsClaims
<1>3. new.history = h /\ new.status = e.status /\ new.currentStateChangeId = e.id
  BY DEF Record, JobRecords, Unclaimed
<1>4. new \in Record
  <2> HIDE DEF h
  <2>1. new = [job EXCEPT !.status = e.status, !.currentStateChangeId = e.id,
                          !.runAt = runAt, !.claimedBy = NoWorker,
                          !.leaseExpiresAt = NoTime, !.history = h]
    BY DEF Unclaimed, h
  <2>2. e.status \in JobStatus /\ e.id \in Nat
    BY DEF Change, StateChanges
  <2> QED
    BY <2>1, <2>2, <1>2 DEF Record, JobRecords, Change
<1>5. new.claimedBy = NoWorker /\ new.leaseExpiresAt = NoTime
  BY DEF Record, JobRecords, Unclaimed
<1> QED
  BY <1>2, <1>3, <1>4, <1>5 DEF Extended

\* The record of a job that w has claimed, as the change id.
Acquired(new, job, w, id, lease) ==
    /\ new \in Record
    /\ new.status = "Running"
    /\ new.currentStateChangeId = id
    /\ new.claimedBy = w
    /\ new.leaseExpiresAt = lease
    /\ WroteClaim(new.history, id, w)
    /\ \A i, x : WroteClaim(job.history, i, x) => WroteClaim(new.history, i, x)

LEMMA ClaimedFacts ==
    ASSUME NEW job \in Record, NEW w \in Workers, NEW id \in Nat,
           NEW at \in Nat, NEW lease \in Nat
    PROVE  Acquired(Claimed(job, w, id, at, lease), job, w, id, lease)
<1> DEFINE e == RunningChange(id, at, w)
           h == Append(job.history, e)
           new == Claimed(job, w, id, at, lease)
<1>1. job.history \in Seq(Change)
  BY DEF Record, JobRecords, Change
<1>2. e \in Change /\ e.status = "Running" /\ e.id = id /\ e.by = w
  BY DEF RunningChange, StateChange, Change, StateChanges, JobStatus, NoTime
<1>3. /\ h \in Seq(Change)
      /\ \A i, x : WroteClaim(job.history, i, x) => WroteClaim(h, i, x)
      /\ WroteClaim(h, id, w)
  <2> HIDE DEF e
  <2> QED
    BY <1>1, <1>2, AppendKeepsClaims
<1>4. new = [job EXCEPT !.status = "Running", !.currentStateChangeId = id,
                        !.runAt = NoTime, !.claimedBy = w,
                        !.leaseExpiresAt = lease, !.history = h]
  BY DEF Claimed
<1> HIDE DEF e, h, new
<1>5. /\ new.status = "Running" /\ new.currentStateChangeId = id
      /\ new.claimedBy = w /\ new.leaseExpiresAt = lease /\ new.history = h
  BY <1>4 DEF Record, JobRecords
<1>6. new \in Record
  BY <1>3, <1>4 DEF Record, JobRecords, Change, JobStatus
<1> QED
  BY <1>3, <1>5, <1>6 DEF Acquired, new

\* A Scheduled job is queued and claimed in one go.
LEMMA RequeuedClaimedFacts ==
    ASSUME NEW job \in Record, NEW w \in Workers, NEW id1 \in Nat, NEW id2 \in Nat,
           NEW at \in Nat, NEW lease \in Nat
    PROVE  Acquired(Claimed(Requeued(job, id1, at), w, id2, at, lease),
                    job, w, id2, lease)
<1> DEFINE e == QueuedChange(id1, at)
           mid == Requeued(job, id1, at)
<1>1. e \in Change
  BY DEF QueuedChange, StateChange, Change, StateChanges, JobStatus, NoTime, NoWorker
<1>2. Extended(mid, job, e)
  BY <1>1, UnclaimedFacts DEF Requeued
<1> HIDE DEF mid
<1>3. mid \in Record
  BY <1>2 DEF Extended
<1>4. Acquired(Claimed(mid, w, id2, at, lease), mid, w, id2, lease)
  BY <1>3, ClaimedFacts
<1>5. Acquired(Claimed(mid, w, id2, at, lease), job, w, id2, lease)
  BY <1>2, <1>4 DEF Extended, Acquired
<1> QED
  BY <1>5 DEF mid

\* A record without a claim, whose change numbers come from a range of fresh ids.
Released(new, job, first, last) ==
    /\ new \in Record
    /\ new.status \in Pending \cup Terminal
    /\ new.currentStateChangeId \in first .. last
    /\ new.claimedBy = NoWorker
    /\ new.leaseExpiresAt = NoTime
    /\ \A id, w : WroteClaim(job.history, id, w) => WroteClaim(new.history, id, w)

LEMMA SettledChangeType ==
    ASSUME NEW id \in Nat, NEW at \in Nat, NEW s \in Terminal
    PROVE  SettledChange(id, at, s) \in Change /\ SettledChange(id, at, s).id = id
           /\ SettledChange(id, at, s).status = s
BY DEF SettledChange, StateChange, Change, StateChanges, JobStatus, Terminal, NoTime, NoWorker

LEMMA CompletedFacts ==
    ASSUME NEW job \in Record, NEW id \in Nat, NEW at \in Nat
    PROVE  Released(Completed(job, id, at), job, id, id)
<1> DEFINE e == SettledChange(id, at, "Completed")
<1>1. e \in Change /\ e.id = id /\ e.status = "Completed"
  BY SettledChangeType DEF Terminal
<1> HIDE DEF e
<1>2. /\ Extended(Unclaimed(job, e, NoTime), job, e)
      /\ Unclaimed(job, e, NoTime).claimedBy = NoWorker
      /\ Unclaimed(job, e, NoTime).leaseExpiresAt = NoTime
  BY <1>1, UnclaimedFacts
<1>3. Completed(job, id, at) = Unclaimed(job, e, NoTime)
  BY DEF Completed, e
<1> QED
  BY <1>1, <1>2, <1>3 DEF Released, Extended, Terminal

\* Setting the failure reason changes nothing else.
LEMMA FailureReasonFacts ==
    ASSUME NEW new \in Record, NEW job, NEW first \in Nat, NEW last \in Nat,
           Released(new, job, first, last)
    PROVE  Released([new EXCEPT !.failureReason = TRUE], job, first, last)
<1> DEFINE r == [new EXCEPT !.failureReason = TRUE]
<1>1. r \in Record
  BY DEF Record, JobRecords
<1>2. /\ r.status = new.status /\ r.currentStateChangeId = new.currentStateChangeId
      /\ r.claimedBy = new.claimedBy /\ r.leaseExpiresAt = new.leaseExpiresAt
      /\ r.history = new.history
  BY DEF Record, JobRecords
<1> QED
  BY <1>1, <1>2 DEF Released

LEMMA FailedFacts ==
    ASSUME NEW job \in Record, NEW id \in Nat, NEW at \in Nat
    PROVE  Released(Failed(job, id, at), job, id, id)
<1> DEFINE e == SettledChange(id, at, "Failed")
           new == Unclaimed(job, e, NoTime)
<1>1. e \in Change /\ e.id = id /\ e.status = "Failed"
  BY SettledChangeType DEF Terminal
<1> HIDE DEF e
<1>2. /\ Extended(new, job, e)
      /\ new.claimedBy = NoWorker
      /\ new.leaseExpiresAt = NoTime
  BY <1>1, UnclaimedFacts
<1>3. Failed(job, id, at) = [new EXCEPT !.failureReason = TRUE]
  BY DEF Failed, e
<1> HIDE DEF new
<1>4. new \in Record /\ Released(new, job, id, id)
  BY <1>1, <1>2 DEF Released, Extended, Terminal
<1> QED
  BY <1>3, <1>4, FailureReasonFacts

LEMMA RetryScheduledFacts ==
    ASSUME NEW job \in Record, NEW id \in Nat, NEW at \in Nat, NEW runAt \in Nat
    PROVE  Released(RetryScheduled(job, id, at, runAt), job, id, id + 1)
<1> DEFINE e == SettledChange(id, at, "Failed")
           mid == [job EXCEPT !.history = Append(@, e)]
           s == ScheduledChange(id + 1, at, runAt)
           new == Unclaimed(mid, s, runAt)
<1>1. e \in Change
  BY SettledChangeType DEF Terminal
<1>2. s \in Change /\ s.id = id + 1 /\ s.status = "Scheduled"
  BY DEF ScheduledChange, StateChange, Change, StateChanges, JobStatus, NoWorker
<1>3. RetryScheduled(job, id, at, runAt) = [new EXCEPT !.failureReason = TRUE]
  BY DEF RetryScheduled
<1> HIDE DEF e, s
<1>4. job.history \in Seq(Change)
  BY DEF Record, JobRecords, Change
<1>5. /\ Append(job.history, e) \in Seq(Change)
      /\ \A i, w : WroteClaim(job.history, i, w)
                     => WroteClaim(Append(job.history, e), i, w)
  BY <1>1, <1>4, AppendKeepsClaims
<1>6. mid \in Record /\ mid.history = Append(job.history, e)
  BY <1>5 DEF Record, JobRecords, Change
<1> HIDE DEF mid
<1>7. /\ Extended(new, mid, s)
      /\ new.claimedBy = NoWorker
      /\ new.leaseExpiresAt = NoTime
  BY <1>2, <1>6, UnclaimedFacts
<1> HIDE DEF new
<1>8. new \in Record /\ Released(new, job, id, id + 1)
  BY <1>2, <1>5, <1>6, <1>7 DEF Released, Extended, Pending
<1> QED
  BY <1>3, <1>8, FailureReasonFacts

\* A new job.
LEMMA NewJobFacts ==
    ASSUME NEW e \in Change, e.status \in Pending, NEW runAt \in Nat,
           NEW attempts \in Nat \ {0}
    PROVE  LET new == NewJob(e, runAt, attempts)
           IN  /\ new \in Record
               /\ new.status = e.status
               /\ new.currentStateChangeId = e.id
               /\ new.claimedBy = NoWorker
               /\ new.leaseExpiresAt = NoTime
<1>1. e.status \in JobStatus /\ e.id \in Nat
  BY DEF Change, StateChanges
<1>2. <<e>> \in Seq(Change)
  OBVIOUS
<1> QED
  BY <1>1, <1>2 DEF NewJob, Record, JobRecords, Change

-----------------------------------------------------------------------------
(* The stage of a record in JobOwnership. *)

LEMMA StageFacts ==
    ASSUME NEW r \in Record, NEW at \in Nat
    PROVE  /\ r.status \in Pending => StageAt(r, at) = "waiting"
           /\ r.status \in Terminal => StageAt(r, at) = "settled"
           /\ r.status = "Running" /\ r.leaseExpiresAt > at => StageAt(r, at) = "running"
           /\ r.status = "Running" /\ ~(r.leaseExpiresAt > at) => StageAt(r, at) = "lapsed"
<1>1. r.status # "Absent"
  BY DEF Record, JobRecords, JobStatus
<1> QED
  BY <1>1 DEF StageAt, Pending, Terminal

\* As time passes, a lease runs out and nothing else changes.
LEMMA StageAges ==
    ASSUME NEW r \in Record, NEW at \in Nat
    PROVE  \/ StageAt(r, at + 1) = StageAt(r, at)
           \/ StageAt(r, at) = "running" /\ StageAt(r, at + 1) = "lapsed"
<1>1. at + 1 \in Nat /\ r.leaseExpiresAt \in Int /\ r.status \in JobStatus
  BY DEF Record, JobRecords, NoTime
<1>2. CASE r.status \in Pending \cup Terminal
  BY <1>1, <1>2, StageFacts
<1>3. CASE r.status = "Running"
  <2>1. CASE r.leaseExpiresAt > at + 1
    <3>1. r.leaseExpiresAt > at
      BY <1>1, <2>1
    <3> QED
      BY <1>1, <1>3, <2>1, <3>1, StageFacts
  <2>2. CASE ~(r.leaseExpiresAt > at + 1)
    <3>1. StageAt(r, at + 1) = "lapsed"
      BY <1>1, <1>3, <2>2, StageFacts
    <3>2. StageAt(r, at) \in {"running", "lapsed"}
      BY <1>1, <1>3, StageFacts
    <3> QED
      BY <3>1, <3>2
  <2> QED
    BY <2>1, <2>2
<1> QED
  BY <1>1, <1>2, <1>3 DEF JobStatus, Pending, Terminal
=============================================================================
