----------------------------- MODULE MemoryClients -----------------------------
(***************************************************************************)
(* Callers of the in-memory store: clients that enqueue and acknowledge,    *)
(* workers that claim a job and later renew, complete, fail or retry it with  *)
(* the claim they were handed, however late, or forget about it.  It is the   *)
(* store the program's own worker tests run on.                             *)
(***************************************************************************)
EXTENDS InMemoryJobStore

CONSTANTS
    MaxAttempts,    \* RetryPolicy.MaxAttempts
    RetryDelay,     \* RetryPolicy.Delay
    Delays,         \* the delaySeconds a client may ask for
    LeaseDuration,  \* the lease every worker asks for
    Lag,            \* how old the clock reading of a claim may be
    MaxTime,        \* the clock stops here
    MaxChanges      \* nothing is enqueued or claimed once this many changes exist

ASSUME MemoryAssumption ==
    /\ MaxAttempts \in Nat \ {0}
    /\ RetryDelay \in Nat
    /\ Delays \subseteq Nat
    /\ LeaseDuration \in Nat \ {0}
    /\ Lag \in Nat
    /\ MaxTime \in Nat
    /\ MaxChanges \in Nat

VARIABLE held       \* the claim each worker was handed, or NoClaim

vars == <<jobs, pending, lastId, now, held>>

NoClaim == [job |-> -1, id |-> 0]

Init == StoreInit /\ held = [w \in Workers |-> NoClaim]

\* Clocks read shortly before the lock is taken.
ClockReadings == {at \in 0 .. now : now <= at + Lag}

InBounds == lastId < MaxChanges

Drop(w) == held' = [held EXCEPT ![w] = NoClaim]

\* JobLifecycleService.Enqueue over this store.
EnqueueJob(j) ==
    /\ InBounds
    /\ \E delay \in Delays :
         Add(j, IF delay > 0
                THEN ScheduledJob(lastId + 1, MaxAttempts, now + delay, now)
                ELSE EnqueuedJob(lastId + 1, MaxAttempts, now))
    /\ UNCHANGED <<now, held>>

AcknowledgeJob(j) == Acknowledge(j) /\ UNCHANGED <<now, held>>

ClaimNext(w) ==
    /\ InBounds
    /\ held[w] = NoClaim
    /\ \E at \in ClockReadings, j \in JobIds :
         /\ TryClaimNextDueJob(j, w, at, at + LeaseDuration)
         /\ held' = [held EXCEPT ![w] = [job |-> j, id |-> lastId']]
    /\ UNCHANGED now

RenewJob(w) ==
    /\ held[w] # NoClaim
    /\ \E at \in ClockReadings :
         RenewLease(held[w].job, held[w].id, at, at + LeaseDuration)
    /\ UNCHANGED <<now, held>>

CompleteJob(w) ==
    /\ held[w] # NoClaim
    /\ MarkCompleted(held[w].job, held[w].id)
    /\ Drop(w)
    /\ UNCHANGED now

FailJob(w) ==
    /\ held[w] # NoClaim
    /\ \E blank \in BOOLEAN : MarkFailed(held[w].job, held[w].id, blank)
    /\ Drop(w)
    /\ UNCHANGED now

RetryJob(w) ==
    /\ held[w] # NoClaim
    /\ \E blank \in BOOLEAN, at \in ClockReadings :
         ScheduleRetry(held[w].job, held[w].id, blank, at + RetryDelay)
    /\ Drop(w)
    /\ UNCHANGED now

\* An execution that ends without an answer.
ForgetJob(w) == held[w] # NoClaim /\ Drop(w) /\ UNCHANGED <<storeVars, now>>

Tick == now < MaxTime /\ now' = now + 1 /\ UNCHANGED <<storeVars, held>>

Next ==
    \/ \E j \in JobIds : EnqueueJob(j) \/ AcknowledgeJob(j)
    \/ \E w \in Workers :
         \/ ClaimNext(w) \/ RenewJob(w) \/ CompleteJob(w)
         \/ FailJob(w) \/ RetryJob(w) \/ ForgetJob(w)
    \/ Tick

Spec == Init /\ [][Next]_vars

-----------------------------------------------------------------------------
TypeOK ==
    /\ StoreTypeOK
    /\ held \in [Workers -> [job : JobIds, id : Nat] \cup {NoClaim}]

\* The index holds one entry for every pending job, filed under the time the job is
\* to run at, and none for any other: no claim, retry or takeover leaves an entry
\* behind or forgets one.
IndexExact ==
    /\ \A e \in pending :
         /\ jobs[e.job].status \in Pending
         /\ jobs[e.job].runAt = e.runAt
    /\ \A e, f \in pending : e.job = f.job => e = f
    /\ \A j \in JobIds : jobs[j].status \in Pending => \E e \in pending : e.job = j

\* The lifecycle service over the SQLite store, on the records kept here.
Sqlite == INSTANCE JobLifecycleService

\* A claim comes back empty-handed only when the query of the SQLite store would: the
\* head of the index and the scan of the running jobs miss nothing that is due, and
\* never throw.
DueIsFound ==
    \A at \in 0 .. now :
        (\E j \in JobIds : Sqlite!IsDue(jobs[j], at))
          <=> \/ \E j \in JobIds : IsNextExpired(j, at)
              \/ \E e \in pending :
                   IsNextPending(e, at) /\ jobs[e.job].status \in Pending

\* A claim of the SQLite store, but for the choice between jobs due at the same time:
\* it takes the smaller id, this store the one that waits longer.
SqliteClaim(j, w, at) ==
    /\ j \in Sqlite!Due(at)
    /\ \A k \in Sqlite!Due(at) : Sqlite!DueTime(jobs[j]) <= Sqlite!DueTime(jobs[k])
    /\ jobs' = [jobs EXCEPT ![j] =
            IF jobs[j].status = "Scheduled"
            THEN Claimed(Requeued(jobs[j], lastId + 1, at),
                         w, lastId + 2, at, at + LeaseDuration)
            ELSE Claimed(jobs[j], w, lastId + 1, at, at + LeaseDuration)]

\* Whatever a call does to the records here, the SQLite store does the same call.
\* Both implement IJobStore, and the tests of one stand for the other.
AgreesWithSqlite ==
    [][\/ \E j \in JobIds, delay \in Delays : Sqlite!Enqueue(j, delay)
       \/ \E j \in JobIds, w \in Workers, at \in ClockReadings :
            SqliteClaim(j, w, at)
       \/ \E w \in Workers : LET j == held[w].job  id == held[w].id IN
            /\ held[w] # NoClaim
            /\ \/ Sqlite!MarkCompleted(j, id)
               \/ Sqlite!MarkFailed(j, id, FALSE)
               \/ \E at \in ClockReadings :
                    \/ Sqlite!ScheduleRetry(j, id, FALSE, at + RetryDelay)
                    \/ Sqlite!RenewLease(j, id, at, at + LeaseDuration)
       \/ \E j \in JobIds : Sqlite!Acknowledge(j)]_jobs

Ownership == INSTANCE JobOwnership WITH
    Nobody <- NoWorker,
    Nothing <- -1,
    stage <- [j \in JobIds |-> StageAt(jobs[j], now)],
    owner <- [j \in JobIds |-> IF Exists(j) THEN jobs[j].claimedBy ELSE NoWorker],
    claim <- [w \in Workers |-> held[w].job]

\* The in-memory store keeps the same promise as the pool over SQLite: exclusive,
\* lease-bounded ownership of every job.
ImplementsOwnership == Ownership!Spec
=============================================================================
