------------------------------ MODULE AtomicStore ------------------------------
(***************************************************************************)
(* What IJobStore promises the callers of its mutations: a call takes       *)
(* effect at one instant between the call and its answer, as one operation   *)
(* of SqliteJobStore with the arguments of the call, and the answer says      *)
(* whether it was accepted.  A call that throws took effect once or not at    *)
(* all; a crash ends every call.  SqliteTransactions shows how the code's      *)
(* statements keep this promise.                                              *)
(*                                                                         *)
(* "now" is the clock the store itself reads, inside its operations; the     *)
(* readings its callers took are in the requests.                           *)
(***************************************************************************)
EXTENDS SqliteJobStore

CONSTANTS
    Callers,      \* who may have a call in progress, one each
    MaxAttempts   \* RetryPolicy.MaxAttempts of the job type

VARIABLES
    phase,        \* "idle", "called" or "answered", per caller
    request,      \* the operation and the arguments of its call
    answer        \* and the answer, once there is one

absVars == <<jobs, lastId, now, phase, request, answer>>

Ops == {"Add", "TryClaimNextDueJob", "MarkCompleted", "MarkFailed",
        "ScheduleRetry", "RenewLease", "Acknowledge"}

\* "at" and "until" are the two times a call passes: its clock reading and the
\* expiry of the lease, or the enqueueing and the run time of a new job; ScheduleRetry
\* passes the time of the retry as "until".
Requests ==
    [op : Ops, job : Nat, id : Nat, worker : Workers \cup {NoWorker},
     at : Nat, until : Nat, blank : BOOLEAN]

NoRequest == [op |-> "none"]

\* The record Add is given.
Added(r) ==
    IF r.until > r.at
    THEN ScheduledJob(lastId + 1, MaxAttempts, r.until, r.at)
    ELSE EnqueuedJob(lastId + 1, MaxAttempts, r.at)

\* Whether the store accepts a request in its present state.
Accepts(r) ==
    CASE r.op = "Add" -> TRUE
      [] r.op = "TryClaimNextDueJob" -> Due(r.at) # {}
      [] r.op = "MarkCompleted" -> IsCurrentClaim(r.job, r.id)
      [] r.op = "MarkFailed" -> IsCurrentClaim(r.job, r.id) /\ ~r.blank
      [] r.op = "ScheduleRetry" ->
             /\ IsCurrentClaim(r.job, r.id)
             /\ AttemptCount(jobs[r.job]) < jobs[r.job].maxAttempts
             /\ ~r.blank
      [] r.op = "RenewLease" -> r.until > r.at /\ IsCurrentClaim(r.job, r.id)
      [] r.op = "Acknowledge" -> Exists(r.job)

\* The operation of the store a request stands for.
Performs(r) ==
    \/ r.op = "Add" /\ Add(r.job, Added(r))
    \/ /\ r.op = "TryClaimNextDueJob"
       /\ \/ \E j \in JobIds : TryClaimNextDueJob(j, r.worker, r.at, r.until)
          \/ Due(r.at) = {} /\ Refused
    \/ r.op = "MarkCompleted" /\ MarkCompleted(r.job, r.id)
    \/ r.op = "MarkFailed" /\ MarkFailed(r.job, r.id, r.blank)
    \/ r.op = "ScheduleRetry" /\ ScheduleRetry(r.job, r.id, r.blank, r.until)
    \/ r.op = "RenewLease" /\ RenewLease(r.job, r.id, r.at, r.until)
    \/ r.op = "Acknowledge" /\ Acknowledge(r.job)

-----------------------------------------------------------------------------
Init ==
    /\ StoreInit
    /\ phase = [c \in Callers |-> "idle"]
    /\ request = [c \in Callers |-> NoRequest]
    /\ answer = [c \in Callers |-> FALSE]

Call(c) ==
    /\ phase[c] = "idle"
    /\ phase' = [phase EXCEPT ![c] = "called"]
    /\ request'[c] \in Requests
    /\ request' = [request EXCEPT ![c] = request'[c]]
    /\ UNCHANGED <<jobs, lastId, now, answer>>

TakeEffect(c) ==
    /\ phase[c] = "called"
    /\ Performs(request[c])
    /\ answer' = [answer EXCEPT ![c] = Accepts(request[c])]
    /\ phase' = [phase EXCEPT ![c] = "answered"]
    /\ UNCHANGED <<now, request>>

\* The call returns or throws.
End(c) ==
    /\ phase[c] # "idle"
    /\ phase' = [phase EXCEPT ![c] = "idle"]
    /\ request' = [request EXCEPT ![c] = NoRequest]
    /\ answer' = [answer EXCEPT ![c] = FALSE]
    /\ UNCHANGED <<jobs, lastId, now>>

Crash ==
    /\ phase' = [c \in Callers |-> "idle"]
    /\ request' = [c \in Callers |-> NoRequest]
    /\ answer' = [c \in Callers |-> FALSE]
    /\ UNCHANGED <<jobs, lastId, now>>

ReadClock ==
    /\ now' \in Nat /\ now' >= now
    /\ UNCHANGED <<jobs, lastId, phase, request, answer>>

Next ==
    \/ \E c \in Callers : Call(c) \/ TakeEffect(c) \/ End(c)
    \/ Crash
    \/ ReadClock

Spec == Init /\ [][Next]_absVars
=============================================================================
