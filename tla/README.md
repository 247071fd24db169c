# Verification of the job scheduler

TLA+ models of the job scheduler in this repository, TLC configurations that check them on
small instances, and proofs that TLAPS checks. Line numbers refer to files under `src/`.

- [The system](#the-system): components, state, operations, what is hard
- [The modules](#the-modules): which module models what, action by action
- [Time, bounds and fairness](#time-bounds-and-fairness)
- [The runs](#the-runs)
- [The proofs](#the-proofs)
- [What the models found](#what-the-models-found)
- [What is not modelled](#what-is-not-modelled)
- [Plan](#plan)

## The system

A client enqueues a job over HTTP. A pool of worker loops in the same process claims due
jobs from a SQLite table, executes their handler and stores the result; a heartbeat beside each
execution renews the lease that keeps other workers away. A job that failed is scheduled again
while it has attempts left. A job whose worker vanished is claimed again when its lease is over.

| Component | State | Operations | Talks to |
|---|---|---|---|
| Job record (`Jobs/Core`) | status, current state-change id, run-at, claim and lease, acknowledgement, the history of state changes; the attempt count is computed from the history | `Enqueue`, `Schedule`, `TransitionTo`, `Claim`, `ReclaimExpiredLease`, `RenewLease`, `ScheduleRetry`, `TransitionToFailed`, `Acknowledge`, `BuildAttempts` | a value: the stores read and replace it |
| SQLite store (`Jobs/Persistence/SqliteJobStore.cs`) | one row per job, its history in a second table | `Add`, `TryClaimNextDueJob`, `MarkCompleted`, `MarkFailed`, `ScheduleRetry`, `RenewLease`, `Acknowledge`, queries | called by the lifecycle service and the actions; transactions with `BEGIN IMMEDIATE` |
| In-memory store (`Jobs/Storage`) | a dictionary and a sorted index of pending jobs, under one lock | the same | tests only at this commit |
| Lifecycle service (`Jobs/Lifecycle`) | none | `Enqueue`, `ClaimNextDueJob`, `RenewLease`, `CompleteExecution` | store, definition registry |
| Worker and heartbeat (`Jobs/Workers/QueuedJobWorker.cs`) | the claimed job's copy, the execution's result, the heartbeat task and its token | `ProcessNextJobAsync`, `RenewLeaseUntilExecutionStops`, `StopLeaseRenewal` | actions, dispatcher |
| Worker pool (`Jobs/Workers/JobWorkerPoolHostedService.cs`) | the loops, `stoppingToken` | start, poll, catch, stop | host, worker |
| Authorized actions, dispatcher (`Jobs/Actions`) | none | `JobAuthorizedAction.ExecuteAsync`: authorize, open the data scope, run, close | HTTP API, worker, services |
| Authorization rules (`Jobs/Authorization`) | none | two passes over the rules of an action; actors and permissions | actions |
| Data-access policies (`Jobs/DataAccess`) | the query filter, compiled into EF Core's model once in a process | build a filter from the rules of an operation | every query and update of the table |
| Data-access scopes (`Jobs/Tenancy`) | actor, scope, operation and cross-tenant depth, `AsyncLocal` | open and close scopes, nested | actions, worker, the filter |
| Definitions, dispatch, handlers | lookup tables | find the definition, run the handler | lifecycle service, worker |
| HTTP API, pages, analyzer, migrations | none | mapping, presentation, a compile-time check | actions |

What is hard here, and what the properties are aimed at (`hazards` in `PROJECT.json` has
the list with lines):

- **Steps that are not atomic.** A worker reads the clock before its claim waits for the
  write lock, and reads the claimed job back after the transaction has committed. Other workers get
  in between both times.
- **Late calls.** A renewal, completion or retry may reach the store after its claim was taken
  over, after the new owner finished, or after a later renewal. Only the change id in the
  `WHERE` clause tells them apart.
- **Partial failure.** Any database call may throw; the heartbeat gives up at its first exception
  while the execution goes on; the process may die between a claim and its result.
- **Stop.** The token ends waits and handlers, and the worker waits for a heartbeat that may be in
  the middle of a renewal.
- **Two clocks in one change.** The date of a failure is read inside the transaction, the time of
  the retry and the date of a claim before it.
- **One write lock for the file.** Each operation is several statements; an early return, an exception
  or a crash between any two must neither leave half a change nor the lock behind.
- **One filter for the process.** EF Core keeps the filter that the first statement built. Actor and scope
  are read anew by each query, the operation is not.
- **Ambient values.** Actor and scope travel in `AsyncLocal` values through flows that run concurrently,
  throw, and start a heartbeat in the middle of a scope.
- **The start.** The loops begin on the thread that starts the host, one behind the other, before there is
  a server.
- **Counting.** An attempt is counted when it starts, so `<` or `<=`, in the service and in the
  store, decides whether the last attempt is lost or one too many is made.

Correctness, per component: the record moves along its lifecycle and history only grows; the
row and the history agree; the store ignores whoever does not hold the current claim; workers
execute only their own claims and the heartbeat keeps them; every job is settled in the end and
a stop ends; a call of the store is atomic; rules decide what their list means; nobody touches a row
without a claim to it, and no scope leaks into another flow; the pool starts and takes what is due.

## The modules

```
JobRecord                 pure: the record, its changes, its transitions
  JobRecordProofs         lemmas about the transitions and their stages
  SqliteJobStore          VARIABLES jobs, lastId, now; one operator per store operation
    JobAttempts           pure: BuildAttempts, and what it should return
    JobLifecycleService   Enqueue, CompleteExecution
      StoreClients        Spec: the store under arbitrary callers      <- MCStoreClients
        StoreClientsProofs    theorems about rows, histories, attempts and steps
      WorkerPool          Spec: host, workers, heartbeats, faults, time <- MCWorkerPool
        WorkerPoolProofs      claims, times, the heartbeat; it implements JobOwnership
                              and, whatever the timing, it is a caller of StoreClients
    AtomicStore           Spec: what the store promises a caller (abstract)
    SqliteTransactions    Spec: the store statement by statement       <- MCSqliteTransactions
      SqliteTransactionsProofs    it implements AtomicStore; what is committed is sound
  InMemoryJobStore        VARIABLES jobs, pending, lastId, now; the other store
    MemoryClients         Spec: its callers                            <- MCMemoryClients
      MemoryClientsProofs     index, due jobs; it agrees with the other store
                              and implements JobOwnership
JobOwnership              Spec: what the scheduler promises (abstract)
PoolStart                 Spec: the loops from the start of the host to its end
RuleEvaluator             Spec: one evaluation of a list of rules      <- MCRuleEvaluator
  RuleEvaluatorProofs         it decides what the list means
DataAccess                pure: permissions, filter, scopes
  AuthorizedActions       Spec: requests, worker loops, heartbeats     <- MCAuthorizedActions
    AuthorizedActionsProofs   contexts stay apart, rows are permitted, none is missed
```

How they fit together. `SqliteJobStore` has each operation of the store as one step; `SqliteTransactions`
shows that the code's statements amount to that, so `WorkerPool` may use the one-step operations.
What the store keeps in order whoever calls it is said of `StoreClients`; `WorkerPool` is proved to be one of its callers,
so it holds of the pool as well, and it is proved of the statements of `SqliteTransactions` by the same lemmas.
`WorkerPool` and `MemoryClients` are both shown to implement `JobOwnership`; `MemoryClients` is also
compared, step by step, with `JobLifecycleService` over `SqliteJobStore`. `AuthorizedActions` has the same
worker and heartbeat as `WorkerPool`, without time and leases but with the authorization, the scope and the filter
each of their calls goes through; `PoolStart` has the same loops as `WorkerPool`, with the
queue of due jobs instead of the table. A property of the one is not affected by what the other leaves out: ownership does not depend
on who may see a row as long as the worker sees what it claimed (`ClaimedJobsAreHeld`).

### JobRecord

One operator per factory and transition of `JobRecord.cs`. State changes carry an id (a
number where the code draws a GUID), a status, a date, and the worker or the scheduled time their
reason names. `Claimed` stands for both `Claim` and `ReclaimExpiredLease`, which build the same
record; the store's guard tells which applies. Left out: what transitions copy and nothing
reads (tenant, owner, type, payload), `ClaimedAt`, the wording of reasons.

### SqliteJobStore and JobLifecycleService

`jobs[j]` is the row of job `j` with its history, or `NoJob`. An operation of the store is one
step: each is a transaction EF Core opens with `BEGIN IMMEDIATE` (no other writer until the commit)
or a single `UPDATE`. That this is right is the subject of `SqliteTransactions`. `IsDue` and `IsNextDue` are the query of `TryClaimNextDueJob`;
`IsCurrentClaim` is the condition of the updates made for the owner of a claim; `Write` is
`TryPersistTransition` with `AppendStateChanges`. When the condition fails the operation
answers false and changes nothing (`Refused`). `CompleteExecution` decides between retry and
failure from the worker's copy of the job, as the service does.

Assumed: every job type has one definition, so the definition is found and `MaxAttempts` and
`RetryDelay` are the same in every call.

### SqliteTransactions and AtomicStore

| Action | Code |
|---|---|
| `Call` | a caller calls an operation with any change id ever handed out |
| `Enter` | the checks before a connection is opened: a blank reason, a lease that ends before it begins |
| `Begin` | `BeginTransaction` or, for `Add`, the transaction of `SaveChanges`: `BEGIN IMMEDIATE` waits for the lock |
| `Query` | the query for the next due job |
| `Load` | `LoadJob`, the checks on the loaded job, the transition of the record with its reading of the clock |
| `Update` | the conditional `ExecuteUpdate`; no row: the transaction is disposed |
| `Insert` | `AppendStateChanges` and `SaveChanges` |
| `Commit` | `Commit`, and the end of the `using` |
| `Autocommit` | the single `UPDATE` of `RenewLease` and of `Acknowledge` |
| `Return`, `Throw`, `TimeOut` | the answer; an exception at any statement; `SQLITE_BUSY` while waiting for the lock |
| `Crash` | the process dies between any two statements of any caller |

`pc[c]` is the next statement of caller `c`, `lock` the caller whose connection holds the write lock, `tx[c]`
the local variables of its call; `tx[c].image` is the row it has written and not committed, seen by nobody
else (EF Core creates the database in WAL mode). `jobs` is what is committed. Every way out of a
transaction goes through `Dispose`.

`AtomicStore` is what a caller of `IJobStore` may rely on: a call takes effect once, at one instant between
the call and its answer, as an operation of `SqliteJobStore`, and the answer says whether it was
accepted; a call that throws took effect once or not at all. `ImplementsAtomicStore` maps a
caller's `pc` to the phase of its call and the store's last reading of the clock to the clock of the
abstract store.

### StoreClients

The store by itself. Any caller uses any change id ever handed out, in any operation, at any
time, any number of times, and a claim or a renewal may be dated with any earlier clock reading. What
holds here needs no assumption about workers, timing or leases.

### JobAttempts

`BuildAttempts` is the loop of `JobRecord.BuildAttempts`: `Scans` is its state after each number of changes, a
recursive function, and `ScanChange` its body. `AttemptsMatchHistory` compares it, on every history that `StoreClients`
can produce, with a definition that does not scan (`AreAttemptsOf`): there are as many attempts as claims that were not
taken over, and each of these claims has its attempt, under the number of its place among them, with the end that
the change after it records.

### InMemoryJobStore and MemoryClients

`jobs` is the dictionary, `pending` the `SortedSet` as the set of its entries: an entry has the time the
job is to run at, the time it was added and the job's id, and `Before` is `CompareTo`. Every operation
runs under one lock, so it is one step, answer included. `IsNextExpired` and `IsNextPending` are
`NextDuePendingOrExpiredRunningJob`. The record of an expired job is found by a scan of the
dictionary and competes with the head of the index.

The callers are the ones the tests have: clients that enqueue and acknowledge, workers that hold the
claim they were handed and renew, complete, fail or retry it, however late, or forget it.

`AgreesWithSqlite` says that a step on the records is a step of the lifecycle service over the SQLite
store, with the same guards, changes and dates. The one difference is stated in `SqliteClaim`: of jobs due at
the same time the SQLite store takes the smallest id, this one the entry added first. `DueIsFound` is
the other half: a claim finds a job exactly when the SQLite query would.

Left out: a claim whose lease does not end after its clock. The store would remove the index entry and then
throw, leaving a pending job without an entry; no caller passes such a lease, which
`JobWorkerOptions` keeps at one second or more.

### WorkerPool

| Action | Code |
|---|---|
| `ReadClock`, `NothingDue` | the loop of `RunWorkerLoopAsync`; the clock of `QueuedJobWorker.cs:98` |
| `CommitClaim` | `ClaimNextDueJobAction` to the commit in `SqliteJobStore.TryClaimNextDueJob` |
| `ReloadClaim` | the `LoadJob` behind the commit (`SqliteJobStore.cs:102`, `:143`), then the start of the heartbeat and the execution |
| `ReadRenewalClock`, `Renew`, `CancelWait` | `RenewLeaseUntilExecutionStops` |
| `EndExecution` | `ExecuteJob`: result, exception of the handler (a failure), or cancellation |
| `StopLeaseRenewal` | `StopLeaseRenewal`: cancel the heartbeat and await it |
| `Complete` | `CompleteJobExecutionAction`, and the return to the loop |
| `CallThrows`, `RenewalThrows` | a database call throws and commits nothing; the loop's and the heartbeat's catch |
| `RequestStop`, `ExitLoop`, `StopHost` | `stoppingToken`, the loops return, `ExecuteAsync` returns |
| `Crash`, `Start` | the process dies and is started again; the table survives |
| `EnqueueJob` | `EnqueueJobAction` |
| `Tick` | time |

A worker is at one of seven points (`pc`): `idle`, `claiming`, `reloading`, `executing`,
`stopping`, `completing`, `exited`. `held` is its copy of the job, of which only the id, the
current change id and the attempt count are read. Its heartbeat is `off`, `waiting`, `sending`,
`ended` (by itself: refused, thrown, stopped) or `cancelled` (by the worker).

### PoolStart

.NET 8 calls `ExecuteAsync` on the thread that starts the host, `Task.WhenAll` enumerates the loops on it, and a
loop gives the thread back at its first `await` that is not complete. The web server is the last hosted service to start.

| Action | Code |
|---|---|
| `Enter` | the next loop is called, on the host's thread |
| `CheckToken` | `while (!stoppingToken.IsCancellationRequested)` |
| `TakeJob` | a round that claims the next due job (`IsNextDue`, the `ORDER BY` of the query); it may run to its end without suspending only if the simulated work takes no time |
| `FindNothing`, `RoundThrows` | the two ways to the delay: no job; the loop's catch, which waits as well, with or without a claim that was committed |
| `Resume` | a timer or an execution is over, or the token ends it |
| `ServerStarts`, `RequestStop`, `HostStops` | the host |
| `BecomesDue` | the time of a job comes: enqueued, delayed, to be retried, or running with its lease over |

`entered` is the loop the host's thread is in. `Suspend` is a loop's `await`: it lets the thread go on
to the next loop if it was the host's; that order is the runtime's, no property is about it.

`due` has the jobs whose time has come in the order of those times (`RunAt`, or `LeaseExpiresAt` of a running job), so a time that
comes now goes behind those that came before. A job may come back without end, which stands for retries, lapsed leases and, there
being finitely many ids, for new jobs. The time of a retry is read shortly before its row is written; the two are one step
here, `WorkerPool` has what lies between.

### RuleEvaluator

One evaluation of `JobAuthorizationRuleEvaluator`: `kind` is the present pass, `index` the rule, `member` the
member of an `AnyOf` rule (another rule is a rule of one member), `anyAllow` the pass's local variable.
`SkipRule`, `EvaluateMember`, `EndDenyPass`, `EndGrantPass` are the bodies and ends of the loops. What a rule
answers is data. `Authorized` says what a list means without passes, order or early ends: nobody denies, and
a `Grant` rule allows.

### DataAccess and AuthorizedActions

`DataAccess` has `JobActor.HasPermission`, the query filter that `DataAccessPolicy` composes from a boundary and the
grants of an operation, and the operations of `DataAccessScopeProvider` on the record of its four `AsyncLocal`
values, `BeginScope` to `EndActorScope`.

In `AuthorizedActions` a flow of control is a request, a worker loop or its heartbeat. Each has its `context` (the
`AsyncLocal` values), `provided` (what the actor provider answers in it), `saved` (what its open handles put
back), `pc`, `call` and `found` (the rows its last statement returned or changed).

| Action | Code |
|---|---|
| `Authorize`, `OpenScope`, `CloseScope` | `JobAuthorizedAction.ExecuteAsync`, for all seven actions |
| `Statement` | `ExecuteAuthorizedAsync` and the store's statements, under the filter |
| `Reject`, `StatementThrows` | `EnqueueJobAction.Validate` refuses; the database throws, before or after the model was built |
| `Receive`, `Respond` | a request |
| `BeginPass`, `FindNothing` | `ProcessNextJobAsync`: the worker's actor scope, the claim, and its end without a job |
| `StartHeartbeat` | the claim is kept; the heartbeat starts in a copy of the worker's context |
| `BeginHandler`, `EndHandler` | the tenant's scope around the dispatch |
| `StopHeartbeat`, `Complete` | `StopLeaseRenewal`, `CompleteJobExecutionAction`, the end of the pass |
| `Beat`, `Beaten` | a renewal through its own action; its answer |

The handles put the values back as the code's `Dispose` does. For values that an async method set itself .NET would do the same
at its return; the model does not rely on it, and `ContextIsOwn` is the stricter for it.

`modelRules` is the operation whose rules the filter was built from: nothing until the first statement of the
process, then that statement's (`RulesInForce`). `serving` becomes true when the pool has come to its first wait or execution, as
in `PoolStart`.

### JobOwnership

What `README.md:10` and `README.md:28` promise, without ids, clocks or transactions: a running job
has one owner; it changes hands only after its lease lapsed; only the owner extends or settles it; a
worker that lost its job can only give up. `WorkerPool!Ownership` maps a row to a stage (a
`Running` row is `running` or `lapsed` by its lease and the clock), the row's `ClaimedBy` to the
owner and a worker's copy to its claim. Change ids do not appear in `JobOwnership`: that they
amount to ownership is what the refinement says.

## Time, bounds and fairness

Time is a discrete clock. In `WorkerPool`, `Tick` is disabled when it would carry a database call beyond `Lag`, a
handler beyond `MaxExecution` or a timer beyond `TimerSlack`. It is also disabled when no deadline
lies ahead and nobody is under way (`ClockMatters`); nothing in the program can tell such an hour
from a minute, and it keeps the state space finite. The code bounds none of the three: SQLite
gives up on a lock after 30 seconds, a handler may take as long as it likes. They are constants
so that a property can say what it depends on:

- Claims stay apart if `Lag < LeaseDuration` (an assumption of every theorem about claims).
- The heartbeat keeps the lease, for any `MaxExecution`, if the lease is longer than two calls,
  one renewal interval and two timer delays (`LeaseOutlasts`). The bound is sharp: with `Lag = 1` and
  `TimerSlack = 0` a lease of 5 (interval 2) holds and a lease of 4 does not; with both 1 a lease of 8 does not. The
  default lease of 60 seconds (`JobWorkerOptions.cs:13`) has an interval of 30, so calls have to stay below 15
  seconds, half of what SQLite waits for the lock before it gives up. A lease of one second, which
  `JobWorkerOptions.cs:22` accepts, has a renewal interval of one second: nothing is left for the call.
- Histories are in the order of their dates if `Lag <= RetryDelay`: a retry is due `RetryDelay` behind a clock that may be
  one call older than the failure appended with it. Sharp as well: with no delay and `Lag = 1` the next
  claim can be dated before the failure.

Bounds of the runs, in their `.cfg` files:

- `PoolSafety`: two workers (the interesting interleavings have an owner and a contender; the theorems are for any
  number), one job, `MaxAttempts` 2 so that there is a retry and a last attempt, a lease of 5 and executions of up
  to 5 so that the lease must be renewed twice or be lost, `Lag` 1, one fault: enough to lose a heartbeat and
  leave a stale worker beside the one that took over. `PoolLiveness`: lease 4, execution 1, a job that is
  delayed, a retry and one fault. The faults bound the history: every attempt beyond `MaxAttempts` costs a
  fault or a lapsed lease.
- `StoreClients`: 7 changes and 3 ticks, enough for schedule, claim, retry, second claim and its end, with any
  id at any point. The bounds are sets, `Times` and `ChangeIds`; the theorems hold for any, and the pool uses
  them with all natural numbers. `TakeoverAttempts` is the same with one attempt.
- `MemoryClients`: two jobs, so that entries and expired claims compete, with delays that make their times
  tie and cross; no claim and no enqueue behind the fifth change.
- `SqliteTransactions`: two callers, one of which is inside a transaction while the other is anywhere; one job, one worker name,
  4 changes and one tick, so that each operation succeeds, is refused if it can be, and finds its row
  moved by the other caller. The theorems are without these bounds.
- `RuleEvaluator`: every list of up to three rules, a `Grant` rule having one or two members: a rule of one kind between
  two of the other is in both passes' way.
- `AuthorizedActions`: two tenants, two jobs, a worker with its heartbeat and one request at a time by any of
  five actors: two owners in one tenant, one with the same id in the other tenant, a manager, and a
  manager who may read all tenants. A request and two more flows are enough for a context to leak.
- `PoolStart`: three loops (one that holds the host's thread, one before it and one behind), poll intervals and work
  durations of zero and more, three jobs that come back without end, so that two can keep the third waiting, and three rounds
  that throw, so that every loop may meet one.

Symmetry permutes workers, in runs of invariants and of boxes only. `CHECK_DEADLOCK FALSE` is given where the
system ends: an evaluation that has decided, a host that is down.

Fairness (`FairSpec`), weak, of each worker's `Work` and `KeepAlive`, of `Tick`, `StopHost` and
`Start`: the runtime schedules every continuation, SQLite grants the write lock, handlers
return, time passes, and a process that is down is started again. The last one is the operator's
part: without it a job waits in the table. Weak fairness is enough because none of these steps is
switched off and on by others for ever, faults being finitely many. Nobody is obliged to enqueue, to
stop or to fail.

`SqliteTransactions` assumes weak fairness of each caller's `Step`: a thread that can run its next statement
does. `TimeOut` is one of these steps, so nobody waits for ever for the lock. `PoolStart`
assumes that threads run and timers fire (`WF` of `Enter`, of the two steps of the host and of each
loop's `Step`); `RoundThrows` is part of a step, but not for ever, as `MaxFaults` bounds it: a
database that throws in every round takes no job. No job is obliged to become due, and none is kept from it.

## The runs

| Run | Question | Instance |
|---|---|---|
| `StoreClients` | Do rows and histories stay legal, consistent, append-only, in budget and in time, settled jobs settled, and the attempts shown true, whoever calls the store? | 2 workers, 1 job, any id, 7 changes, 3 ticks |
| `PoolSafety` | Who owns what: does every worker act under its own claim, does the heartbeat keep the lease, is any attempt wasted, is a takeover early, is it all the ownership of `JobOwnership`? | 2 workers, 1 job, lease 5, execution up to 5, 1 fault |
| `PoolLiveness` | Is every job settled and does every stop end, with takeovers? | 2 workers, 1 delayed job, a retry, 1 fault |
| `PoolStart` | Does the host start, does a stop end it, is every job that is due taken, however many others come back and with rounds that throw? | 3 loops, intervals and durations 0 and 1, 3 jobs, 3 faults |
| `MemoryClients` | Does the in-memory store keep its index, find what is due, act as the SQLite store and keep ownership exclusive? | 2 workers, 2 jobs, 5 changes before the last claim or enqueue, 2 ticks |
| `SqliteTransactions` | Is each call one atomic operation with a true answer, does it overwrite what others committed meanwhile, do rows and histories agree, and does the write lock go back, with exceptions, timeouts and crashes anywhere? | 2 callers, 1 job, 4 changes, 1 tick |
| `RuleEvaluator` | Do the two passes decide what the list means, and when they decide is no objection of a boundary missed? | lists of up to 3 rules |
| `AuthorizedActions` | Does anybody touch a row without a claim to it, does a scope leak, does an owner miss a job or a worker lose one? | 1 worker and heartbeat, 1 request, 2 tenants, 2 jobs, 5 actors |
| `PoolSlowReload` | The claim with a read-back slower than the lease | violation, finding 1 |
| `PoolRenewalThrows` | The documented heartbeat, with a renewal that throws | violation, finding 2 |
| `TakeoverAttempts` | One attempt listed for each one counted | violation, finding 3 |
| `ActionsGlobalRead` | Is who may read every tenant listed the jobs of every tenant? | violation, finding 4 |

The properties, each stated with its meaning in the module it is in:

- `HistoryLegal`, `RowMatchesHistory`, `NeverEarly`, `RetriesWithinBudget` (`SqliteJobStore`);
- `AttemptsMatchHistory` (`JobAttempts`);
- `IndexExact`, `DueIsFound`, `AgreesWithSqlite`, `ImplementsOwnership`, `TypeOK` (`MemoryClients`);
- `SettledIsFinal`, `HistoryOnlyGrows`, `AcknowledgementSticks`, `LiveLeaseNotTaken`
  (`StoreClients`);
- `TypeOK`, `ExecutesOwnClaim`, `HeartbeatProtects`, `NoAttemptWasted`, `TakenOverLate`,
  `HistoryChronological`, `LeaseOnlyExtends`, `ClaimInv`, `ImplementsOwnership`,
  `EveryJobSettles`, `StopEnds` (`WorkerPool`);
- `HostStarts`, `StopEndsHost`, `DueJobsAreTaken` (`PoolStart`);
- `LockHeldByTransaction`, `ImplementsAtomicStore`, `NoUpdateLost`, `LockIsFreed` (`SqliteTransactions`, where `RowMatchesHistory`
  is checked again, of what is committed between any two statements);
- `DecisionIsOfTheList`, `DenyRulesFirst` (`RuleEvaluator`);
- `TouchesOnlyPermitted`, `ContextIsOwn`, `NoScopeRefused`, `OwnJobsAreListed`, `ClaimedJobsAreHeld`
  (`AuthorizedActions`).

The violation runs check `ExecutesOwnClaim` where its assumption fails, `RenewedWhileExecuting`, `OneAttemptPerRun`
and `GlobalReadListsAll`.

Definitions whose names end in a suffix such as `IsDue_LeaseIgnored` are mutations: a plausible
bug in the definition that follows them. `PROJECT.json` names, for each property, a mutation that
breaks it (two for `DueJobsAreTaken`: a loop that ends with its first exception, and a query without its order).

## The proofs

Six modules of theorems, and the lemmas about the record (`JobRecordProofs`) that four of them share. They hold for
every value of the constants that satisfies the named assumptions of the modules: any set of workers, jobs, callers,
requests, tenants and actors, any list of rules, any retry policy, any bound. An assumption about time is a hypothesis of
the theorem that needs it: `Lag < LeaseDuration` for those about claims in the pool and for `MemoryImplementsOwnership`, in
addition `Lag <= RetryDelay` for `HistoriesInOrder`, and `LeaseOutlasts`, from which the first follows, for
`HeartbeatKeepsLease`. The five theorems of the pool marked *any timing* assume nothing of the kind.

| Theorem | Says |
|---|---|
| `ClaimsConsistent`, `ClaimsAreOwn` (`WorkerPool`) | `Spec => []ClaimInv`, `Spec => []ExecutesOwnClaim` |
| `PoolImplementsOwnership` (`WorkerPool`) | `Spec => ImplementsOwnership` |
| `TimesConsistent` (`WorkerPool`) | `Spec => [](ClaimInv /\ TimesInv)` |
| `AttemptsAreUsed`, `TakeoversAreLate` (`WorkerPool`) | `Spec => []NoAttemptWasted`, `Spec => []TakenOverLate` |
| `LeasesOnlyExtend` (`WorkerPool`) | `Spec => LeaseOnlyExtends` |
| `HistoriesInOrder`, `HeartbeatKeepsLease` (`WorkerPool`) | `Spec => []HistoryChronological`, `Spec => []HeartbeatProtects` |
| `TypeCorrect`, `CallsInPlace` (`WorkerPool`, any timing) | `Spec => []TypeOK`, `Spec => []CallInv` |
| `PoolUsesTheStore` (`WorkerPool`, any timing) | `Spec => Store!Spec`, the specification of `StoreClients` |
| `PoolKeepsRowsSound` (`WorkerPool`, any timing) | `Spec => [](HistoryLegal /\ RowMatchesHistory /\ NeverEarly /\ RetriesWithinBudget)` |
| `PoolRespectsRecords` (`WorkerPool`, any timing) | `Spec => Store!SettledIsFinal`, and so on for `HistoryOnlyGrows`, `LiveLeaseNotTaken` |
| `MemoryTypeCorrect`, `IndexAlwaysExact`, `DueJobsAreFound` (`MemoryClients`) | `Spec => []TypeOK`, and so on for `IndexExact`, `DueIsFound` |
| `StoresAgree`, `MemoryImplementsOwnership` (`MemoryClients`) | `Spec => AgreesWithSqlite`, `Spec => ImplementsOwnership` |
| `HistoriesAreLegal`, `RowsMatchHistories` (`StoreClients`) | `Spec => []HistoryLegal`, `Spec => []RowMatchesHistory` |
| `NothingStartsEarly`, `RetriesAreBounded` (`StoreClients`) | `Spec => []NeverEarly`, `Spec => []RetriesWithinBudget` |
| `AttemptsAreShown` (`StoreClients`, `JobAttempts`) | `Spec => []AttemptsMatchHistory` |
| `SettledStays`, `HistoriesGrow`, `AcknowledgementsStick`, `LiveLeasesHold` (`StoreClients`) | `Spec => SettledIsFinal`, and so on for `HistoryOnlyGrows`, `AcknowledgementSticks`, `LiveLeaseNotTaken` |
| `LockFollowsTransaction` (`SqliteTransactions`) | `Spec => []LockHeldByTransaction` |
| `OperationsAreAtomic` (`SqliteTransactions`) | `Spec => ImplementsAtomicStore` |
| `CommittedRowsAreSound` (`SqliteTransactions`) | `Spec => [](HistoryLegal /\ RowMatchesHistory /\ NeverEarly /\ RetriesWithinBudget)` |
| `CommitsRespectRows` (`SqliteTransactions`) | `Spec => Rows!SettledIsFinal`, and so on for `HistoryOnlyGrows`, `AcknowledgementSticks`, `LiveLeaseNotTaken` |
| `UpdatesAreKept` (`SqliteTransactions`) | `Spec => NoUpdateLost` |
| `EvaluatorDecides`, `DenyRulesAreFirst` (`RuleEvaluator`) | `Spec => [](TypeOK /\ DecisionIsOfTheList)`, `Spec => []DenyRulesFirst` |
| `ContextsStayApart`, `ScopesAreGranted` (`AuthorizedActions`) | `Spec => []ContextIsOwn`, `Spec => []NoScopeRefused` |
| `OnlyPermittedRowsAreTouched` (`AuthorizedActions`) | `Spec => []TouchesOnlyPermitted` |
| `OwnersFindTheirJobs`, `ClaimsStayInReach` (`AuthorizedActions`) | `Spec => OwnJobsAreListed`, `Spec => ClaimedJobsAreHeld` |

`ExecutesOwnClaim` is not inductive: nothing in it keeps the row from moving on between the commit of
a claim and its read-back. `ClaimInv` adds what does, per worker (`WorkerInv`):

- `CallsOnTime`: a claim or a read-back under way is at most `Lag` old;
- `ClaimIntact`: until it is read back, the row is as the claim wrote it, with the lease that starts at
  the clock the worker read. A takeover needs `leaseExpiresAt <= at` for a clock `at` another
  worker read, `at <= now <= since + Lag < since + LeaseDuration`: impossible. This is where
  the assumption is used and `PoolSlowReload` shows that it is needed;
- `ClaimRecorded`: the id a worker holds is the id of a `Running` change in that job's history written
  by this worker; histories only grow;
- `ClaimMatchesRow`: for a running job, holding the current change id and being the worker the row names
  are the same. New ids are above every id held (`HeldIdIssued`, `RowIdsIssued`), so a takeover
  changes both sides at once.

`WorkerPoolProofs` proves that `Init` implies `ClaimInv` and that each action preserves each part. The
store's writes are dealt with once: lemmas say what each transition does to the fields the
invariant reads and that every worker other than the writer keeps its part.
The refinement then takes `ClaimMatchesRow` to turn `IsCurrentClaim` into `IsOwner`, and goes
action by action: a claim is `Grant`, an accepted renewal `Extend`, an accepted completion, failure or retry
`Settle`, a refused one `GiveUp`, a tick `Lapse` for the leases that just ran out, and
everything inside the worker stutters.

Then what the dates say. `TimesInv` is inductive relative to `ClaimInv`: a row's lease lies between
the date of its last claim and the clock, each moved by `LeaseDuration`; a takeover in a history is a full lease behind the claim before it; a
Failed job has used its attempts (`Timed`). What a worker carries agrees with it: its copy counts the attempts of
the row while it owns it (`CopyFresh`, hence no attempt is wasted), and a renewal under way is computed from a later clock
than the lease it replaces (`RenewalAhead`, hence leases only extend). `OrderInv` adds that a history is in order, that a pending job is due
no earlier than its last change (where `Lag <= RetryDelay` comes in), and that a completion is at most `Lag` behind its clock.
`HeartbeatProtects` says nothing about how far the lease is ahead and is therefore far from inductive; `ProtectInv` says it for each
place the heartbeat can be in (`LeaseAhead`): waiting for a timer that is due at `at`, the lease reaches at least to
`at + LeaseDuration` less one interval and one call; sending with the clock `at`, less a timer delay as well; cancelled, ahead of the completion by what is then left. `BeatPlaced` says
which places go with which of the worker's, and how late a timer may be. With it no other worker's clock reaches the lease before the next
renewal, and `LeaseOutlasts` is the sum of the terms.

The last part of `WorkerPoolProofs` is about what needs no bound on time. `CallInv` is inductive by itself: whatever a worker or its
heartbeat will pass to the store names a row that exists, a change id that was handed out and a clock reading of the past. That
is all `StoreClients` asks of a caller, so every step of the pool is one of its steps or none, with all natural numbers
for its two bounds (`StepUsesTheStore`; `SameTransitions`, `SameConditions` and `SameOperations` say that both read the same
store). The theorems of `StoreClientsProofs` then hold of the pool, also where `PoolSlowReload` shows the claims of two workers
confused: finding 1 has an attempt executed by two workers at a time, and never an illegal history, a row at odds with it,
an early start or a retry too many.

`IndexExact` together with `TypeOK` is inductive. The argument is by what a write does to the pending
state of its job: it stays as it was (`IndexKept`: reclaim, completion, renewal, acknowledgement), the job
becomes pending and its entry is added (`IndexAdded`: enqueue, retry) or the entry goes and the job runs
(`IndexRemoved`). What has to be shown of the code is that the entry is filed under the record's `RunAt`,
although `JobQueueEntry.From` computes it from the history: `NewJobEntry` for the first change,
`RetryEntry` because the last `Scheduled` change of a retry is the one just appended. The lemmas about the
record's transitions (`JobRecordProofs`) are shared with the pool.

The other theorems about `MemoryClients` follow from it. `DueIsFound`: the head of the index exists by well-founded induction on its times
(`LeastNumber`), and is due if anything pending is, since the index has every pending job under its `RunAt`. `AgreesWithSqlite` compares the two
stores operation by operation; where this one takes the entry added first, among jobs due at the same time, `SqliteClaim` allows
it. `MemoryImplementsOwnership` needs the claims as well (`ClaimsFit`): no row and no claim has an id that was not issued, and
the job whose current change is the one a worker holds names this worker. A row is rewritten under a new id or keeps
its claim (`FreshOrSame`), so every step leaves that true (`RewrittenFits`). Here a claim is one lock section, with nothing between its clock and
its write that could take a lease: `Lag < LeaseDuration` is only needed for the new lease to be ahead of the present clock.

`StoreClientsProofs`. One invariant (`StoreInv`): every stored row is `Sound`. That joins the properties, which need each
other: whether a change may follow the last one of a history (`MayFollow`) is decided by the code from the row's columns, so the
history can only be kept legal, in time and in budget while the row agrees with its last change; for a Scheduled job this
includes that `RunAt` is the time that change names. `AppendSound` is the lemma about histories: what may follow, appended, leaves
every beginning of the history, and so the attempts counted in it, as it was. Each transition is then an `Append` of a change
that may follow, two of them for a retry and for the claim of a Scheduled job. `Evolves` says what a step may do to a row;
the action properties are read off it.

`AttemptsAreShown` follows from `Sound` alone, for histories of any length. The loop's invariant (`Loop`) says after `n` changes that
the attempts so far are those of the final claims before change `n`, that an attempt is open exactly if change `n` is a
claim, and when it began. The induction is on `n`, and with it the existence of the recursive function
(`ScansExist`). The induction theorems of the library take an operator as a parameter, which the installed provers cannot
instantiate; the induction is therefore done on the *set* of the numbers up to which the invariant holds (`InductiveSet`), by
the least number outside of it (`LeastNumber`, both in `JobRecordProofs`).

`SqliteTransactionsProofs`. The invariant (`IInv`; `StoreInvariant` is `Spec => []IInv`) joins `TypeOK` and
`LockHeldByTransaction` with:

- `RequestsFit`: at each statement the request is one that gets there, and has passed the checks behind it;
- `TransactionsFit`: `Working` says, statement by statement, what the local variables and the uncommitted row of an open
  transaction are, in terms of the *committed* table, the last id and the last reading of the clock. It survives
  the steps of the others because they cannot commit while the lock is taken; this is all the lock is for;
- `NewJobsApart`: until `Add` commits, nobody has stored a job under its id.

What it comes to is one lemma, `RowBecomesNext`: the row the `UPDATE` sets, with the changes the `INSERT`s append
behind its history, is the record the transition computed from the loaded job, column by column. With it a commit is the operation of
`SqliteJobStore` with the same arguments (`CommitIsPerformed`), and the refinement goes statement by statement: a
commit, a single update and every refusal are `TakeEffect`, `Load` is `ReadClock`, `Return`, `Throw` and
`TimeOut` are `End`, the rest stutters.

What is committed is sound by the lemmas of `StoreClientsProofs`: the record that a commit writes is one of the transitions there,
applied to a row that was sound when it was loaded and is still the committed one (`Working`). The invariant adds only that a claim
is dated with a clock reading of the past (`PastClaims`). `UpdatesAreKept` is read off it, as `CommitsRespectRows` is: the copy a
call loaded is the committed row until its own commit, so its `UPDATE` takes nothing back that was stored after `Load`. There is no theorem that this module implements `StoreClients`, as the pool
does: an operation takes effect at its commit, with a reading of the clock that a statement before it took, while an operation of
`StoreClients` reads the clock when it takes effect. The properties do not depend on the difference.

`RuleEvaluatorProofs`. `DenyRulesFirst` is an invariant of its own as soon as a pass remembers what it has seen
(`LoopsCount`): no member behind the loop's position has denied, and `anyAllow` and `memberAllows` say whether one has
allowed.

`AuthorizedActionsProofs`. One invariant per flow (`FlowInv`): its step is one its kind of flow has and its action is
authorized for the actor it acts for (`StepIsLegal`), its open handles hold the values it had before
(`HandlesHoldBase`), its context is its own (`ContextFits`), what it found its actor may touch (`FoundIsPermitted`), and
a claimed job is stored (`ClaimIsStored`). A step changes the variables of one flow, or of a worker and its
heartbeat, and rows keep their tenant and owner (`RowsKept`), so every other flow keeps its part.
`TouchesOnlyPermitted` holds whichever rules the filter was built from (`VisibleIsPermitted`): finding 4 hides rows, it does not show
any. Nor does it hide these two kinds: an owner's rows in the own tenant pass the filter of every operation
(`OwnersFindTheirJobs`), and what a claim returned has passed the filter that the process keeps from then on
(`FilterInForce`). The second needs an invariant over the flows, `HoldInv`: a loop's completion and its heartbeat ask for the job that was claimed
(`LoopInv`); a held job is stored, running and visible to the workers' actor (`Reachable`); no two workers hold the
same job, so nobody else's completion takes it out of `running`. This is for any number of workers, the run has one.

Only model-checked: liveness, which is out of the prover's reach (`EveryJobSettles`, `StopEnds`, `HostStarts`, `StopEndsHost`,
`DueJobsAreTaken`, `LockIsFreed`). Every invariant and every action property that a passing run checks, and each of the
three refinements, is a theorem.

## What the models found

1. **A claim that is read back too late** (`PoolSlowReload`). `TryClaimNextDueJob` commits and then
   returns whatever row it reads (`SqliteJobStore.cs:102`, `:143`). If the lease lapsed meanwhile and
   another worker took over, the first worker gets the other's change id, and the conditional
   updates cannot tell the two apart any more. It takes a read-back as slow as the lease.
   `SqliteJobStoreTests.cs:608` expects one worker to get the claim.
2. **The heartbeat does not survive an exception** (`PoolRenewalThrows`). `QueuedJobWorker.cs:281`:
   one failed renewal ends the heartbeat for the rest of the execution. `README.md:12`: "How lease
   renewal/heartbeat protects long-running execution."
3. **A taken-over attempt is counted but not listed** (`TakeoverAttempts`). `BuildAttempts` forgets a
   `Running` change when another follows (`JobRecord.cs:436`), so `Pages/Jobs/Details.cshtml:35` shows "2 of 3" above a list of
   one, and the numbers in the list are off. `AttemptsMatchHistory` says that the list is right otherwise.
   The same trace starts a second attempt of a maximum of one: a reclaim does not look at `MaxAttempts`
   (`SqliteJobStore.cs:75`), and the page shows "2 of 1".
4. **Who may read every tenant is not listed its jobs** (`ActionsGlobalRead`). `DataAccessPolicy.BuildFilter` reads the
   operation of the statement that happens to be the first in the process (`DataAccessPolicy.cs:18`), and
   the model keeps that filter. The pool starts before the server, so the first statement is a claim, and the
   filter has the rules for mutations: `GlobalReadGrantRule` is never in it. `JobsApiTests.cs:297` expects the jobs of
   every tenant, in a host whose first statement is a read. The mirror image: if the first claim throws before the
   model is built and a read builds it, the filter has no `ExecuteGrantRule` and a worker without another grant finds no job
   until the process restarts.

Noted while modelling, without a run: a handler that fails with a blank reason has its failure
refused by the store (`SqliteJobStore.cs:207`), which the worker takes for a lost lease, so the job
runs again after every lease; `MarkCompleted` keeps the reason of an earlier failure
(`SqliteJobStore.cs:165`). With `PollIntervalSeconds = 0` the first loop that finds nothing never gives its thread back;
during the start that is the host's, and no server starts until a job or a stop comes. A loop that finds one due job after another
keeps the thread as well, if the simulated work takes no time (`WorkDurations` 0). `HostStarts` is therefore stated for an
interval above zero, and for jobs that take some time or run out; `StopEndsHost` and `DueJobsAreTaken` hold for zero as well.

## What is not modelled

- **A second process on the same database file.** Its workers would be more workers to the store (any
  number, in the proofs; more callers in `SqliteTransactions`), but would stop and crash on their own, and
  worker ids would repeat (`JobWorkerPoolHostedService.cs:71`): `ClaimedBy` would then name two workers.
- **Handlers, definitions and registries** (`Jobs/Definitions`, `Jobs/Dispatching`, `Jobs/Handlers`): lookup tables filled at the start and one
  handler that logs. The pool sees them as an execution that succeeds, fails, throws or is cancelled.
- **HTTP mapping and pages**: they map requests to actions and records to views. Two lines of them are quoted
  by findings.
- **The mutation boundary analyzer**: a compile-time check of constructor parameters over Roslyn's symbols; it has no
  run-time state.
- **Migrations and assets**: generated, or third-party.
- **`DataAccessScopedJobStore`**: not registered in the container at this commit.
- **Corrupt rows**: the store's checks for statuses or times that its own writes never leave are not reachable
  and are left out.
- **The validation of requests**: abstracted to the set of accepted delays (`WorkerPool`) and to `Reject`
  (`AuthorizedActions`).

What the models take from libraries and do not verify: SQLite in WAL mode (one writer, snapshots of what is committed,
rollback of an open transaction by dispose or by the next open), EF Core (a transaction around `SaveChanges`, one model in a process,
filter parameters read per query), the .NET 8 host (the order of the services, `BackgroundService`), `AsyncLocal`
(an async method's assignments end with it; a started task gets a copy).

## Plan

1. Done: `JobRecord`, `SqliteJobStore`, `JobLifecycleService`, `StoreClients`, `JobOwnership`, `WorkerPool`,
   `JobAttempts`, `InMemoryJobStore`, `MemoryClients`, their runs, `JobRecordProofs`, `WorkerPoolProofs`,
   `StoreClientsProofs`, `MemoryClientsProofs`.
2. Done: `SqliteTransactions`, `AtomicStore`, the refinement between them, checked and proved; the committed rows.
3. Done: `RuleEvaluator`, `DataAccess`, `AuthorizedActions`, with their proofs.
4. Done: `PoolStart`.
5. Done: the pool over `StoreClients`, without assumptions on time.
6. Left, models: a second process.
