------------------------------- MODULE WorkerPool -------------------------------
(***************************************************************************)
(* Jobs/Workers: the worker loops of one host process and the lease        *)
(* heartbeat each of them runs beside an execution, over the job store and  *)
(* the API that enqueues jobs.                                             *)
(*                                                                         *)
(* A worker is at one of the points where the code gives up control or      *)
(* where another worker can get in between:                                 *)
(*   idle        waiting for the next poll                                  *)
(*   claiming    has read the clock, the claim transaction is to commit     *)
(*   reloading   committed, is to read the claimed job back                 *)
(*   executing   runs the handler, the heartbeat beside it                  *)
(*   stopping    waits for the heartbeat to end (StopLeaseRenewal)          *)
(*   completing  has the result, is to store it                             *)
(*   exited      its loop has returned, or the process is down              *)
(*                                                                         *)
(* Time is a discrete clock.  A database call (a claim with its reload, a   *)
(* renewal, a completion) takes at most Lag; SQLite itself waits up to 30    *)
(* seconds for its turn.  A handler takes at most MaxExecution.  A timer     *)
(* fires at most TimerSlack late.                                           *)
(***************************************************************************)
EXTENDS JobLifecycleService

CONSTANTS
    Delays,         \* the delaySeconds a client may ask for
    LeaseDuration,  \* JobWorkerOptions.ValidLeaseDuration
    Lag,            \* longest database call
    TimerSlack,     \* longest delay of a timer or a continuation
    MaxExecution,   \* longest execution of a handler
    MaxFaults       \* how many faults (exceptions, stops and crashes) are explored

ASSUME TimeAssumption ==
    /\ LeaseDuration \in Nat \ {0}
    /\ Lag \in Nat
    /\ TimerSlack \in Nat
    /\ MaxExecution \in Nat
    /\ MaxFaults \in Nat
    /\ Delays \subseteq Nat

VARIABLES
    host,           \* the process: "up", "stopping" (stoppingToken cancelled), "down"
    pc,             \* where each worker is
    since,          \* the clock when it got there; for a claim, the clock it read
    held,           \* its copy of the job it claimed
    outcome,        \* how its execution ended
    heartbeat,      \* RenewLeaseUntilExecutionStops
    faults          \* the faults so far

workerVars == <<pc, since, held, outcome, heartbeat>>
vars == <<jobs, lastId, now, host, workerVars, faults>>

\* Mutation of LeaseRenewalInterval: renew when the lease is over.
LeaseRenewalInterval_Whole == LeaseDuration

LeaseRenewalInterval == IF LeaseDuration \div 2 > 1 THEN LeaseDuration \div 2 ELSE 1

\* The worker's JobRecord: only the id, CurrentStateChangeId and AttemptCount are read.
NoClaim == [job |-> -1, id |-> 0, attempts |-> 0]
CopyOf(j) == [job |-> j, id |-> jobs[j].currentStateChangeId,
              attempts |-> AttemptCount(jobs[j])]

\* The heartbeat: off; waiting until "at"; sending the renewal computed from the
\* clock "at"; ended by itself while the job may still execute; cancelled because
\* the execution is over.
Beat(phase, at) == [phase |-> phase, at |-> at]
NoBeat == Beat("off", 0)
NextBeat == Beat("waiting", now + LeaseRenewalInterval)
EndedBeat == Beat("ended", 0)

Points == {"idle", "claiming", "reloading", "executing", "stopping", "completing",
           "exited"}
Holding == {"executing", "stopping", "completing"}

Init ==
    /\ StoreInit
    /\ host = "up"
    /\ pc = [w \in Workers |-> "idle"]
    /\ since = [w \in Workers |-> 0]
    /\ held = [w \in Workers |-> NoClaim]
    /\ outcome = [w \in Workers |-> "none"]
    /\ heartbeat = [w \in Workers |-> NoBeat]
    /\ faults = 0

Goto(w, point) ==
    /\ pc' = [pc EXCEPT ![w] = point]
    /\ since' = [since EXCEPT ![w] = now]

\* ProcessNextJobAsync returns or throws: the worker keeps nothing.
BackTo(w, point) ==
    /\ pc' = [pc EXCEPT ![w] = point]
    /\ since' = [since EXCEPT ![w] = 0]
    /\ held' = [held EXCEPT ![w] = NoClaim]
    /\ outcome' = [outcome EXCEPT ![w] = "none"]
    /\ heartbeat' = [heartbeat EXCEPT ![w] = NoBeat]

-----------------------------------------------------------------------------
(* Claiming a job. *)

\* Mutation of ReadClock: the loop does not look at the token before it polls.
ReadClock_IgnoresStop(w) ==
    /\ pc[w] = "idle"
    /\ Goto(w, "claiming")
    /\ UNCHANGED <<storeVars, now, host, held, outcome, heartbeat, faults>>

\* The loop starts a round: the clock is read before the claim is dispatched.
ReadClock(w) ==
    /\ host = "up"
    /\ pc[w] = "idle"
    /\ Goto(w, "claiming")
    /\ UNCHANGED <<storeVars, now, host, held, outcome, heartbeat, faults>>

NothingDue(w) ==
    /\ pc[w] = "claiming"
    /\ Due(since[w]) = {}
    /\ BackTo(w, "idle")
    /\ UNCHANGED <<storeVars, now, host, faults>>

\* The claim transaction commits; the worker knows which job and which change.
CommitClaim(w) ==
    /\ pc[w] = "claiming"
    /\ \E j \in JobIds :
         /\ TryClaimNextDueJob(j, w, since[w], since[w] + LeaseDuration)
         /\ held' = [held EXCEPT ![w] = [job |-> j, id |-> lastId', attempts |-> 0]]
    /\ pc' = [pc EXCEPT ![w] = "reloading"]
    /\ UNCHANGED <<now, host, since, outcome, heartbeat, faults>>

\* LoadJob after the commit: the worker takes the row as it is by now, and starts
\* the heartbeat and the execution.  Once the token is cancelled both of their
\* delays throw at once.
ReloadClaim(w) ==
    /\ pc[w] = "reloading"
    /\ held' = [held EXCEPT ![w] = CopyOf(held[w].job)]
    /\ \/ /\ host = "up"
          /\ Goto(w, "executing")
          /\ heartbeat' = [heartbeat EXCEPT ![w] = NextBeat]
          /\ UNCHANGED outcome
       \/ /\ host = "stopping"
          /\ Goto(w, "stopping")
          /\ heartbeat' = [heartbeat EXCEPT ![w] = EndedBeat]
          /\ outcome' = [outcome EXCEPT ![w] = "cancelled"]
    /\ UNCHANGED <<storeVars, now, host, faults>>

-----------------------------------------------------------------------------
(* The heartbeat. *)

HeartbeatDue(w) ==
    heartbeat[w].phase = "waiting" /\ heartbeat[w].at <= now

ReadRenewalClock(w) ==
    /\ pc[w] = "executing"
    /\ HeartbeatDue(w)
    /\ heartbeat' = [heartbeat EXCEPT ![w] = Beat("sending", now)]
    /\ UNCHANGED <<storeVars, now, host, pc, since, held, outcome, faults>>

\* The renewal reaches the store.  Refused, the loop returns; done, it waits again.
Renew(w) ==
    /\ heartbeat[w].phase = "sending"
    /\ RenewLease(held[w].job, held[w].id,
                  heartbeat[w].at, heartbeat[w].at + LeaseDuration)
    /\ heartbeat' = [heartbeat EXCEPT ![w] =
            IF IsCurrentClaim(held[w].job, held[w].id)
            THEN NextBeat ELSE EndedBeat]
    /\ UNCHANGED <<now, host, pc, since, held, outcome, faults>>

\* The heartbeat's token is linked to stoppingToken: a stop ends its wait although
\* the handler may run on.
CancelWait(w) ==
    /\ host = "stopping"
    /\ pc[w] = "executing"
    /\ heartbeat[w].phase = "waiting"
    /\ heartbeat' = [heartbeat EXCEPT ![w] = EndedBeat]
    /\ UNCHANGED <<storeVars, now, host, pc, since, held, outcome, faults>>

-----------------------------------------------------------------------------
(* Executing the job and storing the result. *)

\* The handler returns (an exception of its own counts as a failure), or the delay
\* before it or the handler observes the cancellation of stoppingToken.
EndExecution(w) ==
    /\ pc[w] = "executing"
    /\ \E o \in {"succeeded", "failed", "cancelled"} :
         /\ o = "cancelled" => host = "stopping"
         /\ outcome' = [outcome EXCEPT ![w] = o]
    /\ Goto(w, "stopping")
    /\ UNCHANGED <<storeVars, now, host, held, heartbeat, faults>>

\* StopLeaseRenewal returns once no renewal is in flight.
StopLeaseRenewal(w) ==
    /\ pc[w] = "stopping"
    /\ heartbeat[w].phase # "sending"
    /\ IF outcome[w] = "cancelled"
       THEN BackTo(w, "exited")
       ELSE /\ Goto(w, "completing")
            /\ heartbeat' = [heartbeat EXCEPT ![w] =
                    IF heartbeat[w].phase = "waiting"
                    THEN Beat("cancelled", 0) ELSE @]
            /\ UNCHANGED <<held, outcome>>
    /\ UNCHANGED <<storeVars, now, host, faults>>

Complete(w) ==
    /\ pc[w] = "completing"
    /\ CompleteExecution(held[w], outcome[w] = "succeeded", since[w])
    /\ BackTo(w, "idle")
    /\ UNCHANGED <<now, host, faults>>

-----------------------------------------------------------------------------
(* What goes wrong: a database call throws (nothing of it is committed), the   *)
(* host is asked to stop, the process dies.                                   *)

Fault == faults < MaxFaults /\ faults' = faults + 1

\* The loop catches it and polls again later.  A claim that was committed, or a
\* completion that was not, leaves the job Running.
CallThrows(w) ==
    /\ Fault
    /\ pc[w] \in {"claiming", "reloading", "completing"}
    /\ BackTo(w, "idle")
    /\ UNCHANGED <<storeVars, now, host>>

\* Any exception ends the heartbeat, not the execution.
RenewalThrows(w) ==
    /\ Fault
    /\ heartbeat[w].phase = "sending"
    /\ heartbeat' = [heartbeat EXCEPT ![w] = EndedBeat]
    /\ UNCHANGED <<storeVars, now, host, pc, since, held, outcome>>

RequestStop ==
    /\ Fault
    /\ host = "up"
    /\ host' = "stopping"
    /\ UNCHANGED <<storeVars, now, workerVars>>

\* A loop that waits leaves as soon as the token is cancelled.
ExitLoop(w) ==
    /\ host = "stopping"
    /\ pc[w] = "idle"
    /\ BackTo(w, "exited")
    /\ UNCHANGED <<storeVars, now, host, faults>>

AllExited == [w \in Workers |-> "exited"]

StopHost ==
    /\ host = "stopping"
    /\ pc = AllExited
    /\ host' = "down"
    /\ UNCHANGED <<storeVars, now, workerVars, faults>>

Crash ==
    /\ Fault
    /\ host # "down"
    /\ host' = "down"
    /\ pc' = AllExited
    /\ since' = [w \in Workers |-> 0]
    /\ held' = [w \in Workers |-> NoClaim]
    /\ outcome' = [w \in Workers |-> "none"]
    /\ heartbeat' = [w \in Workers |-> NoBeat]
    /\ UNCHANGED <<storeVars, now>>

Start ==
    /\ host = "down"
    /\ host' = "up"
    /\ pc' = [w \in Workers |-> "idle"]
    /\ UNCHANGED <<storeVars, now, since, held, outcome, heartbeat, faults>>

-----------------------------------------------------------------------------
(* The clients and the clock. *)

EnqueueJob(j) ==
    /\ host # "down"
    /\ \E delay \in Delays : Enqueue(j, delay)
    /\ UNCHANGED <<now, host, workerVars, faults>>

\* No call, timer or execution outlives its bound.
InTime(w) ==
    /\ pc[w] \in {"claiming", "reloading", "completing"} => now < since[w] + Lag
    /\ pc[w] = "executing" => now < since[w] + MaxExecution
    /\ heartbeat[w].phase = "sending" => now < heartbeat[w].at + Lag
    /\ pc[w] = "executing" /\ heartbeat[w].phase = "waiting"
         => now < heartbeat[w].at + TimerSlack
    /\ pc[w] = "stopping" /\ heartbeat[w].phase # "sending"
         => now < since[w] + TimerSlack

\* The time only matters while a deadline lies ahead or somebody is under way.
ClockMatters ==
    \/ \E j \in JobIds : Exists(j) /\ (jobs[j].runAt > now \/ jobs[j].leaseExpiresAt > now)
    \/ \E w \in Workers : pc[w] \in Holding \cup {"reloading"}
    \/ \E w \in Workers : pc[w] = "claiming" /\ Due(since[w]) # {}

Tick ==
    /\ ClockMatters
    /\ \A w \in Workers : InTime(w)
    /\ now' = now + 1
    /\ UNCHANGED <<storeVars, host, workerVars, faults>>

-----------------------------------------------------------------------------
Work(w) ==
    \/ ReadClock(w) \/ NothingDue(w) \/ CommitClaim(w) \/ ReloadClaim(w)
    \/ EndExecution(w) \/ StopLeaseRenewal(w) \/ Complete(w) \/ ExitLoop(w)

KeepAlive(w) == ReadRenewalClock(w) \/ Renew(w) \/ CancelWait(w)

Next ==
    \/ \E w \in Workers : Work(w) \/ KeepAlive(w) \/ CallThrows(w) \/ RenewalThrows(w)
    \/ RequestStop \/ StopHost \/ Crash \/ Start
    \/ \E j \in JobIds : EnqueueJob(j)
    \/ Tick

Spec == Init /\ [][Next]_vars

\* The runtime schedules every continuation, SQLite grants the write lock, time
\* passes and handlers return.  Nobody has to enqueue, to stop or to fail; a process
\* that is down is started again (the operator's part).
Fairness ==
    /\ \A w \in Workers : WF_vars(Work(w)) /\ WF_vars(KeepAlive(w))
    /\ WF_vars(Tick)
    /\ WF_vars(StopHost)
    /\ WF_vars(Start)

FairSpec == Spec /\ Fairness

-----------------------------------------------------------------------------
(* Properties. *)

TypeOK ==
    /\ StoreTypeOK
    /\ host \in {"up", "stopping", "down"}
    /\ pc \in [Workers -> Points]
    /\ since \in [Workers -> Nat]
    /\ held \in [Workers -> [job : JobIds \cup {-1}, id : Nat, attempts : Nat]]
    /\ outcome \in [Workers -> {"none", "succeeded", "failed", "cancelled"}]
    /\ heartbeat \in [Workers -> [phase : {"off", "waiting", "sending", "ended", "cancelled"},
                                  at : Nat]]
    /\ faults \in 0 .. MaxFaults

Owns(w) == IsCurrentClaim(held[w].job, held[w].id)

\* A worker executes, renews and completes under a claim of its own: the change id
\* it holds is that of a Running change it wrote itself.  So no two workers ever
\* hold the same claim, however calls interleave.
ExecutesOwnClaim ==
    \A w \in Workers : pc[w] \in Holding =>
        WroteClaim(jobs[held[w].job].history, held[w].id, w)

\* The heartbeat keeps the lease: as long as it has not ended by itself the worker
\* still owns the running job, to the end of the execution and until its result is
\* stored, however long the handler takes.
HeartbeatProtects ==
    \A w \in Workers :
        heartbeat[w].phase \in {"waiting", "sending", "cancelled"} => Owns(w)

\* A job ends up Failed only when its attempts are used up, and the worker's copy
\* of the job, taken at the claim, is what decides it.
NoAttemptWasted ==
    \A j \in Stored :
        jobs[j].status = "Failed" => AttemptCount(jobs[j]) >= jobs[j].maxAttempts

\* A running job is taken over at the earliest one full lease after the claim that
\* is taken over, by the clocks both claims are dated with.
TakenOverLate ==
    \A j \in Stored : LET h == jobs[j].history IN
        \A i \in Steps(h) :
            h[i].status = "Running" /\ h[i + 1].status = "Running"
              => h[i + 1].changedAt >= h[i].changedAt + LeaseDuration

\* The history of a job is in the order of its dates.  A claim is dated with a clock
\* read before its transaction, a completion with one read inside it.
HistoryChronological ==
    \A j \in Stored : LET h == jobs[j].history IN
        \A i \in Steps(h) : h[i].changedAt <= h[i + 1].changedAt

\* While a claim lasts, its lease moves forward only: an older renewal never
\* overwrites a newer one.
LeaseOnlyExtends ==
    [][\A j \in JobIds :
         /\ jobs[j].status = "Running"
         /\ jobs'[j].status = "Running"
         /\ jobs'[j].currentStateChangeId = jobs[j].currentStateChangeId
         => jobs'[j].leaseExpiresAt >= jobs[j].leaseExpiresAt]_vars

\* What the documentation says of the heartbeat (README.md:12 and :30), with no
\* exception for a renewal that failed: while the host is up, an execution never
\* loses its lease.
RenewedWhileExecuting ==
    \A w \in Workers : host = "up" /\ pc[w] = "executing" => Owns(w)

\* Every job that was accepted is completed or failed in the end, through faults,
\* stops and crashes.
EveryJobSettles ==
    \A j \in JobIds : Exists(j) ~> jobs[j].status \in Terminal

\* A stop is not held up by an execution or by a heartbeat: the process goes down.
StopEnds == host = "stopping" ~> host = "down"
-----------------------------------------------------------------------------
(* The inductive invariant behind ExecutesOwnClaim and ImplementsOwnership (see   *)
(* WorkerPoolProofs).  It rests on calls being shorter than the lease.            *)

HasClaim == Holding \cup {"reloading"}

DownIsExited == host = "down" => pc = AllExited

RowIdsIssued == \A j \in Stored : jobs[j].currentStateChangeId <= lastId

HeldStored(w) ==
    pc[w] \in HasClaim => held[w].job \in JobIds /\ Exists(held[w].job)

NothingHeld(w) == pc[w] \notin HasClaim => held[w] = NoClaim

HeldIdIssued(w) == held[w].id <= lastId

HeartbeatInPlace(w) ==
    heartbeat[w].phase = "sending" => pc[w] \in {"executing", "stopping"}

CallsOnTime(w) ==
    /\ pc[w] \in {"claiming", "reloading"} => since[w] <= now /\ now <= since[w] + Lag
    /\ heartbeat[w].phase = "sending"
         => heartbeat[w].at <= now /\ now <= heartbeat[w].at + Lag

\* A claim that is not read back yet cannot have been taken over.
ClaimIntact(w) ==
    LET job == jobs[held[w].job] IN
    /\ job.status = "Running"
    /\ job.currentStateChangeId = held[w].id
    /\ job.claimedBy = w
    /\ job.leaseExpiresAt = since[w] + LeaseDuration

ReloadSafe(w) == pc[w] = "reloading" => ClaimIntact(w)

ClaimRecorded(w) ==
    pc[w] \in HasClaim => WroteClaim(jobs[held[w].job].history, held[w].id, w)

\* The change id a worker holds and the worker the row names say the same.
ClaimMatchesRow(w) ==
    pc[w] \in HasClaim /\ jobs[held[w].job].status = "Running"
      => (jobs[held[w].job].currentStateChangeId = held[w].id
            <=> jobs[held[w].job].claimedBy = w)

WorkerInv(w) ==
    /\ HeldStored(w) /\ NothingHeld(w) /\ HeldIdIssued(w)
    /\ HeartbeatInPlace(w) /\ CallsOnTime(w)
    /\ ReloadSafe(w) /\ ClaimRecorded(w) /\ ClaimMatchesRow(w)

\* The change ids and the worker columns of the rows agree with what the workers
\* believe, at every point between the claim transaction and the stored result.
ClaimInv ==
    /\ TypeOK /\ DownIsExited /\ RowIdsIssued
    /\ \A w \in Workers : WorkerInv(w)

-----------------------------------------------------------------------------
(* The pool implements JobOwnership: a job runs while the row is Running with   *)
(* its lease ahead, its owner is the worker the row names, and a worker's claim   *)
(* begins with the commit.                                                     *)

OwnerOf(job) == IF job = NoJob THEN NoWorker ELSE job.claimedBy

Ownership == INSTANCE JobOwnership WITH
    Nobody <- NoWorker,
    Nothing <- -1,
    stage <- [j \in JobIds |-> StageAt(jobs[j], now)],
    owner <- [j \in JobIds |-> OwnerOf(jobs[j])],
    claim <- [w \in Workers |-> held[w].job]

\* The claims, renewals and completions that change ids guard amount to exclusive,
\* lease-bounded ownership of every job by one worker: every step is a step of
\* JobOwnership or changes nothing there.
ImplementsOwnership == Ownership!Spec
=============================================================================
