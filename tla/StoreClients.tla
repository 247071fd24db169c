------------------------------ MODULE StoreClients ------------------------------
(***************************************************************************)
(* The store under callers that obey nothing but its interface: a claim     *)
(* may be dated with any earlier reading of the clock, and a renewal, a      *)
(* completion, a failure or a retry may come from anybody, at any time, as    *)
(* often as wanted, for any change id ever handed out, with or without a      *)
(* reason.  What holds here holds by the store's own conditional updates.    *)
(***************************************************************************)
EXTENDS JobLifecycleService

CONSTANTS
    Delays,         \* the delaySeconds a client may ask for
    LeaseDuration,  \* the lease every caller asks for
    Times,          \* the times the clock may show: Nat, or a beginning of it
    ChangeIds       \* an operation starts while the next change id is one of these

ASSUME ClientsAssumption == Delays \subseteq Nat /\ LeaseDuration \in Nat

vars == <<jobs, lastId, now>>

Ids == 1 .. lastId
ClockReadings == 0 .. now

Init == StoreInit

Call == lastId + 1 \in ChangeIds /\ UNCHANGED now

EnqueueJob(j) == Call /\ \E delay \in Delays : Enqueue(j, delay)

ClaimNext(w) ==
    /\ Call
    /\ \E j \in JobIds, at \in ClockReadings :
         TryClaimNextDueJob(j, w, at, at + LeaseDuration)

\* The owner's operations, by anyone, without and with a reason.
CompleteJob(j, id) == Call /\ MarkCompleted(j, id)

FailJob(j, id) == Call /\ \E blank \in BOOLEAN : MarkFailed(j, id, blank)

RetryJob(j, id) ==
    /\ Call
    /\ \E blank \in BOOLEAN, at \in ClockReadings :
         ScheduleRetry(j, id, blank, at + RetryDelay)

RenewJob(j, id) ==
    /\ Call
    /\ \E at \in ClockReadings : RenewLease(j, id, at, at + LeaseDuration)

AcknowledgeJob(j) == UNCHANGED now /\ Acknowledge(j)

Tick == now + 1 \in Times /\ now' = now + 1 /\ UNCHANGED storeVars

Next ==
    \/ \E j \in JobIds : EnqueueJob(j) \/ AcknowledgeJob(j)
    \/ \E w \in Workers : ClaimNext(w)
    \/ \E j \in JobIds, id \in Ids :
         CompleteJob(j, id) \/ FailJob(j, id) \/ RetryJob(j, id) \/ RenewJob(j, id)
    \/ Tick

Spec == Init /\ [][Next]_vars

-----------------------------------------------------------------------------
(* Properties: those of SqliteJobStore, and what a step may not do. *)

\* A settled job stays settled: whatever stale or repeated call arrives, its status,
\* its current change and its history do not move any more.
SettledIsFinal ==
    [][\A j \in JobIds : jobs[j].status \in Terminal =>
         /\ jobs'[j].status = jobs[j].status
         /\ jobs'[j].currentStateChangeId = jobs[j].currentStateChangeId
         /\ jobs'[j].history = jobs[j].history]_vars

\* History is append-only: no operation rewrites, drops or reorders what was recorded,
\* although each builds the new record from the whole history it loaded.
HistoryOnlyGrows ==
    [][\A j \in Stored :
         LET old == jobs[j].history
             new == jobs'[j].history
         IN  Len(old) <= Len(new) /\ SubSeq(new, 1, Len(old)) = old]_vars

\* An acknowledgement is never lost to a claim, a renewal, a completion or a retry
\* that loaded the job before it.
AcknowledgementSticks ==
    [][\A j \in Stored : jobs[j].acknowledged => jobs'[j].acknowledged]_vars

\* Only the current claim moves on a running job whose lease is ahead of every
\* clock: a change id that was replaced has no power left.
LiveLeaseNotTaken ==
    [][\A j \in JobIds :
         /\ jobs[j].status = "Running"
         /\ jobs[j].leaseExpiresAt > now
         /\ jobs'[j].status = "Running"
         => jobs'[j].currentStateChangeId = jobs[j].currentStateChangeId]_vars
=============================================================================
