-------------------------------- MODULE PoolStart --------------------------------
(***************************************************************************)
(* Jobs/Workers/JobWorkerPoolHostedService.cs: how the loops get going, wait  *)
(* between polls and end.  ExecuteAsync is called by the host's start, on the  *)
(* host's own thread, and Task.WhenAll calls the loops one by one: each runs   *)
(* on that thread up to its first await that is not complete, and only then    *)
(* is the next one called.  After the last one the host goes on to start the   *)
(* server; the loops continue on the threads of the pool.                      *)
(*                                                                         *)
(* Of the table only the jobs whose time has come are kept, in the order of   *)
(* those times; a job that was taken may come back, as a retry or after its    *)
(* lease, and others arrive without end.  WorkerPool has the rest: what        *)
(* becomes of a job, and clocks that are read before they are used.           *)
(***************************************************************************)
EXTENDS Integers, Sequences

CONSTANTS
    WorkerCount,   \* JobWorkerOptions.WorkerCount, whatever is configured
    PollIntervals, \* the values of ValidPollInterval that are explored
    WorkDurations, \* and of ValidSimulatedWorkDuration
    Jobs,          \* the ids of the jobs
    MaxFaults      \* so many rounds throw

ASSUME StartAssumption ==
    /\ WorkerCount \in Int
    /\ PollIntervals \subseteq Nat /\ WorkDurations \subseteq Nat
    /\ Jobs \subseteq Nat
    /\ MaxFaults \in Nat

VARIABLES
    pollInterval,  \* the configuration of this process
    workDuration,
    due,           \* the jobs that are due, the one that is due the longest first
    faults,        \* the rounds that threw
    stop,          \* stoppingToken is cancelled
    server,        \* the rest of the host: "starting", "up", "down"
    entered,       \* the loop the host's thread is in; behind the last, none
    loop           \* where each loop is

vars == <<pollInterval, workDuration, due, faults, stop, server, entered, loop>>
config == <<pollInterval, workDuration>>

ValidWorkerCount == IF WorkerCount > 1 THEN WorkerCount ELSE 1

Loops == 1 .. ValidWorkerCount

\* The host's thread has left ExecuteAsync.
Started == entered > ValidWorkerCount

-----------------------------------------------------------------------------
(* A loop is new; checking the token; processing a round; suspended in one     *)
(* that found a job (working) or waiting for the next poll; or it has returned. *)

\* The loop gives its thread back; the host's calls the next loop.
Suspend(i, point) ==
    /\ loop' = [loop EXCEPT ![i] = point]
    /\ entered' = IF entered = i THEN i + 1 ELSE entered

Continue(i, point) == loop' = [loop EXCEPT ![i] = point] /\ UNCHANGED entered

\* Mutation of Delay: a poll that follows at once.
Delay_None(i) == Continue(i, "checking")

\* await Task.Delay(ValidPollInterval, stoppingToken): cancelled, it throws; of no
\* length, it is complete already and the loop keeps its thread.
Delay(i) ==
    \/ stop /\ Suspend(i, "returned")
    \/ ~stop /\ pollInterval > 0 /\ Suspend(i, "waiting")
    \/ ~stop /\ pollInterval = 0 /\ Continue(i, "checking")

Enter ==
    /\ ~Started /\ loop[entered] = "new"
    /\ Continue(entered, "checking")
    /\ UNCHANGED <<config, due, faults, stop, server>>

\* Mutation of CheckToken: a cancelled loop goes round instead of returning.
CheckToken_GoesRound(i) ==
    /\ loop[i] = "checking"
    /\ Continue(i, IF stop THEN "checking" ELSE "processing")
    /\ UNCHANGED <<config, due, faults, stop, server>>

CheckToken(i) ==
    /\ loop[i] = "checking"
    /\ \/ stop /\ Suspend(i, "returned")
       \/ ~stop /\ Continue(i, "processing")
    /\ UNCHANGED <<config, due, faults, stop, server>>

Waits(j) == \E n \in DOMAIN due : due[n] = j

Without(j) == LET Other(k) == k # j IN SelectSeq(due, Other)

\* Mutation of IsNextDue: the smallest id first.
IsNextDue_ById(j) == Waits(j) /\ \A k \in Jobs : Waits(k) => j <= k

\* The query of TryClaimNextDueJob: ordered by RunAt or LeaseExpiresAt.
IsNextDue(j) == due # <<>> /\ j = Head(due)

\* A job is claimed.  With the token cancelled the delay before the handler throws.
\* With no delay the handler has run when the heartbeat is cancelled, and whether that
\* cancellation is still going on when it is awaited is up to the pool's threads.
TakeJob(i) ==
    /\ loop[i] = "processing"
    /\ \E j \in Jobs : IsNextDue(j) /\ due' = Without(j)
    /\ \/ stop /\ Suspend(i, "returned")
       \/ ~stop /\ Suspend(i, "working")
       \/ ~stop /\ workDuration = 0 /\ Continue(i, "checking")
    /\ UNCHANGED <<config, faults, stop, server>>

FindNothing(i) ==
    /\ loop[i] = "processing" /\ due = <<>>
    /\ Delay(i)
    /\ UNCHANGED <<config, due, faults, stop, server>>

\* Mutation of RoundThrows: the exception ends the loop.
RoundThrows_LoopEnds(i) ==
    /\ loop[i] = "processing" /\ faults < MaxFaults
    /\ faults' = faults + 1
    /\ Suspend(i, "returned")
    /\ UNCHANGED <<config, due, stop, server>>

\* A call of the round throws, the claim before or after its commit or a later one, and
\* the loop's catch waits before the next poll.
RoundThrows(i) ==
    /\ loop[i] \in {"processing", "working"} /\ faults < MaxFaults
    /\ faults' = faults + 1
    /\ \/ UNCHANGED due
       \/ /\ loop[i] = "processing"
          /\ \E j \in Jobs : IsNextDue(j) /\ due' = Without(j)
    /\ Delay(i)
    /\ UNCHANGED <<config, stop, server>>

\* The delay or the execution is over, or the token ends it.
Resume(i) ==
    /\ loop[i] \in {"waiting", "working"}
    /\ \/ Continue(i, "checking")
       \/ stop /\ Continue(i, "returned")
    /\ UNCHANGED <<config, due, faults, stop, server>>

-----------------------------------------------------------------------------
(* The host, its clients and the clock. *)

\* The services behind this one start; the server is the last.
ServerStarts ==
    /\ server = "starting" /\ Started /\ ~stop
    /\ server' = "up"
    /\ UNCHANGED <<config, due, faults, stop, entered, loop>>

\* A signal cancels the token, also while the host is starting.
RequestStop ==
    /\ ~stop
    /\ stop' = TRUE
    /\ UNCHANGED <<config, due, faults, server, entered, loop>>

HostStops ==
    /\ stop /\ Started /\ server # "down"
    /\ \A i \in Loops : loop[i] = "returned"
    /\ server' = "down"
    /\ UNCHANGED <<config, due, faults, stop, entered, loop>>

\* The time of a job comes: it is enqueued, its delay or the delay of a retry is over,
\* or its lease.  That is later than the times of those that wait already.
BecomesDue(j) ==
    /\ ~Waits(j) /\ server # "down"
    /\ due' = Append(due, j)
    /\ UNCHANGED <<config, faults, stop, server, entered, loop>>

Init ==
    /\ pollInterval \in PollIntervals
    /\ workDuration \in WorkDurations
    /\ due = <<>>
    /\ faults = 0
    /\ stop = FALSE
    /\ server = "starting"
    /\ entered = 1
    /\ loop = [i \in Loops |-> "new"]

Step(i) == CheckToken(i) \/ TakeJob(i) \/ FindNothing(i) \/ RoundThrows(i) \/ Resume(i)

Next ==
    \/ Enter \/ ServerStarts \/ HostStops \/ RequestStop
    \/ \E j \in Jobs : BecomesDue(j)
    \/ \E i \in Loops : Step(i)

Spec == Init /\ [][Next]_vars

\* Threads run, timers fire and executions end; nobody has to stop the host or enqueue.
Fairness ==
    /\ WF_vars(Enter) /\ WF_vars(ServerStarts) /\ WF_vars(HostStops)
    /\ \A i \in Loops : WF_vars(Step(i))

FairSpec == Spec /\ Fairness

-----------------------------------------------------------------------------
\* The start is not held up by the loops, whether they find jobs, find none or throw,
\* when there is an interval between their polls, and the jobs take some time or run
\* out.  With an interval of zero the first loop that finds nothing keeps the host's
\* thread, and so does one that finds jobs without end that take no time; no server starts.
HostStarts ==
    /\ pollInterval > 0
    /\ workDuration > 0 \/ <>[](due = <<>>)
    => <>(server # "starting")

\* A stop ends every loop and then the host, during the start and after it, with and
\* without an interval, whatever a loop is doing.
StopEndsHost == stop ~> server = "down"

\* Every job that is due is taken, unless the host is asked to stop: neither do rounds
\* that throw wear the pool out, nor do other jobs, retried or enqueued again and again,
\* keep one waiting for ever, with as little as one loop that is left.
DueJobsAreTaken == \A j \in Jobs : Waits(j) ~> (~Waits(j) \/ stop)
=============================================================================
