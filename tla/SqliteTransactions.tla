--------------------------- MODULE SqliteTransactions ---------------------------
(***************************************************************************)
(* Jobs/Persistence/SqliteJobStore.cs statement by statement: what each     *)
(* mutation does on its own connection, with the write lock that BEGIN       *)
(* IMMEDIATE takes, the conditional UPDATE of the row, the INSERTs of the     *)
(* state changes, the commit, and every return that leaves the transaction    *)
(* to be rolled back when it is disposed.  Any statement may throw (the lock  *)
(* is not granted in time, the disk fails) and the process may die.          *)
(*                                                                         *)
(* Writes of an open transaction are visible to it alone (the database is   *)
(* in WAL mode, as EF Core creates it): they are kept in tx[c].image.  "jobs"  *)
(* is what is committed.                                                    *)
(***************************************************************************)
EXTENDS SqliteJobStore

CONSTANTS
    Callers,      \* threads that call the store, each with its own connection
    MaxAttempts,  \* RetryPolicy.MaxAttempts of the job type
    Delays,       \* delays a client or a retry may ask for
    LeaseDuration,
    MaxTime,      \* the clock stops here
    MaxChanges    \* no call is made once this many changes exist

NoCaller == "no caller"

ASSUME CallersAssumption == NoCaller \notin Callers
ASSUME BoundsAssumption ==
    /\ MaxAttempts \in Nat \ {0}
    /\ Delays \subseteq Nat
    /\ LeaseDuration \in Nat \ {0}
    /\ MaxTime \in Nat /\ MaxChanges \in Nat

VARIABLES
    lock,         \* the caller whose connection holds the write lock
    pc,           \* the next statement of each caller
    request,      \* the operation and the arguments of its call
    tx,           \* the local variables of the call and its uncommitted writes
    answer,       \* the answer it is about to return
    stamp         \* the store's own last reading of DateTimeOffset.UtcNow

vars == <<jobs, lastId, now, lock, pc, request, tx, answer, stamp>>

Request(op, j, id, worker, at, until, blank) ==
    [op |-> op, job |-> j, id |-> id, worker |-> worker,
     at |-> at, until |-> until, blank |-> blank]

Requests ==
    [op : {"Add", "TryClaimNextDueJob", "MarkCompleted", "MarkFailed",
           "ScheduleRetry", "RenewLease", "Acknowledge"},
     job : Nat, id : Nat, worker : Workers \cup {NoWorker},
     at : Nat, until : Nat, blank : BOOLEAN]

NoRequest == [op |-> "none"]
NoId == 0
NoTx == [job |-> NoId]

InTransaction == {"query", "load", "update", "insert", "commit"}

-----------------------------------------------------------------------------
(* The pieces of an operation. *)

\* The record Add inserts.
Added(r) ==
    IF r.until > r.at
    THEN ScheduledJob(lastId + 1, MaxAttempts, r.until, r.at)
    ELSE EnqueuedJob(lastId + 1, MaxAttempts, r.at)

\* The record a transaction computes from the job it loaded, at a reading of the clock.
Successor(r, job, at) ==
    CASE r.op = "TryClaimNextDueJob" ->
             IF job.status = "Scheduled"
             THEN Claimed(Requeued(job, lastId + 1, r.at),
                          r.worker, lastId + 2, r.at, r.until)
             ELSE Claimed(job, r.worker, lastId + 1, r.at, r.until)
      [] r.op = "MarkCompleted" -> Completed(job, lastId + 1, at)
      [] r.op = "MarkFailed" -> Failed(job, lastId + 1, at)
      [] r.op = "ScheduleRetry" -> RetryScheduled(job, lastId + 1, at, r.until)

\* What an operation refuses before it opens a connection.
Invalid(r) ==
    \/ r.op \in {"MarkFailed", "ScheduleRetry"} /\ r.blank
    \/ r.op = "RenewLease" /\ r.until <= r.at

\* What an operation refuses once it has loaded the job.
Refuses(r, job) ==
    /\ r.op # "TryClaimNextDueJob"
    /\ job.status = "Running" =>
         r.op = "ScheduleRetry" /\ AttemptCount(job) >= job.maxAttempts

\* Mutation of RowMatches: the claim the caller holds is not compared.
RowMatches_AnyClaim(r, loaded, row) == row.status = loaded.status

\* The condition of the UPDATE: a claim expects the row it loaded, the other
\* operations expect the claim the caller passed.
RowMatches(r, loaded, row) ==
    IF r.op = "TryClaimNextDueJob"
    THEN /\ row.status = loaded.status
         /\ row.currentStateChangeId = loaded.currentStateChangeId
    ELSE row.status = "Running" /\ row.currentStateChangeId = r.id

\* Mutation of Updated: an operation that ends a claim leaves its lease in the row.
Updated_LeaseKept(r, row, job) ==
    [row EXCEPT !.status = job.status,
                !.currentStateChangeId = job.currentStateChangeId,
                !.runAt = job.runAt,
                !.claimedBy = job.claimedBy,
                !.leaseExpiresAt = IF r.op = "TryClaimNextDueJob" THEN job.leaseExpiresAt ELSE @,
                !.failureReason = IF r.op \in {"MarkFailed", "ScheduleRetry"}
                                  THEN job.failureReason ELSE @]

\* The columns the UPDATE sets, on the row as it is.
Updated(r, row, job) ==
    [row EXCEPT !.status = job.status,
                !.currentStateChangeId = job.currentStateChangeId,
                !.runAt = job.runAt,
                !.claimedBy = job.claimedBy,
                !.leaseExpiresAt = job.leaseExpiresAt,
                !.failureReason = IF r.op \in {"MarkFailed", "ScheduleRetry"}
                                  THEN job.failureReason ELSE @]

\* AppendStateChanges: the changes behind those of the loaded history.
NewChanges(loaded, job) ==
    SubSeq(job.history, Len(loaded.history) + 1, Len(job.history))

-----------------------------------------------------------------------------
(* Steps of a call.  Answer ends the work of a call; a transaction that is    *)
(* still open is disposed with it, which rolls it back and frees the lock.     *)

At(c, statement) == pc[c] = statement
GoTo(c, statement) == pc' = [pc EXCEPT ![c] = statement]

\* Mutation of Dispose: the lock stays with a connection whose call has returned.
Dispose_LockKept(c) == tx' = [tx EXCEPT ![c] = NoTx] /\ UNCHANGED lock

Dispose(c) ==
    /\ lock' = IF lock = c THEN NoCaller ELSE lock
    /\ tx' = [tx EXCEPT ![c] = NoTx]

Answer(c, b) ==
    /\ GoTo(c, "return")
    /\ answer' = [answer EXCEPT ![c] = b]
    /\ Dispose(c)

Enter(c) ==
    /\ At(c, "enter")
    /\ \/ /\ Invalid(request[c])
          /\ Answer(c, FALSE)
       \/ /\ ~Invalid(request[c])
          /\ GoTo(c, IF request[c].op \in {"RenewLease", "Acknowledge"}
                     THEN "autocommit" ELSE "begin")
          /\ UNCHANGED <<lock, tx, answer>>
    /\ UNCHANGED <<jobs, lastId, now, request, stamp>>

\* The first statement of a transaction, and the local variables it starts with; of
\* Add these are the record, whose row is inserted first and whose history follows.
FirstStatement(r) ==
    CASE r.op = "Add" -> "insert"
      [] r.op = "TryClaimNextDueJob" -> "query"
      [] OTHER -> "load"

Opened(r) ==
    IF r.op # "Add" THEN [job |-> r.job]
    ELSE LET row == [Added(r) EXCEPT !.history = <<>>]
         IN  [job |-> r.job, loaded |-> row, next |-> Added(r), image |-> row]

\* Mutation of Begin: the transaction takes no lock before it reads.
Begin_Deferred(c) ==
    /\ At(c, "begin")
    /\ GoTo(c, FirstStatement(request[c]))
    /\ tx' = [tx EXCEPT ![c] = Opened(request[c])]
    /\ UNCHANGED <<jobs, lastId, now, lock, request, answer, stamp>>

\* BEGIN IMMEDIATE, by BeginTransaction or, for Add, by SaveChanges.
Begin(c) ==
    /\ At(c, "begin") /\ lock = NoCaller
    /\ lock' = c
    /\ GoTo(c, FirstStatement(request[c]))
    /\ tx' = [tx EXCEPT ![c] = Opened(request[c])]
    /\ UNCHANGED <<jobs, lastId, now, request, answer, stamp>>

\* The query of TryClaimNextDueJob.
Query(c) ==
    /\ At(c, "query")
    /\ \/ Due(request[c].at) = {} /\ Answer(c, FALSE)
       \/ /\ \E j \in JobIds : /\ IsNextDue(j, request[c].at)
                               /\ tx' = [tx EXCEPT ![c] = [job |-> j]]
          /\ GoTo(c, "load")
          /\ UNCHANGED <<lock, answer>>
    /\ UNCHANGED <<jobs, lastId, now, request, stamp>>

\* LoadJob and the transition of the record, with the clock read for its changes.
Load(c) ==
    /\ At(c, "load")
    /\ LET r == request[c]
           job == jobs[tx[c].job]
       IN  \/ Refuses(r, job) /\ Answer(c, FALSE) /\ UNCHANGED stamp
           \/ /\ ~Refuses(r, job)
              /\ GoTo(c, "update")
              /\ tx' = [tx EXCEPT ![c] = [job |-> @.job, loaded |-> job,
                                          next |-> Successor(r, job, now)]]
              /\ stamp' = IF r.op = "TryClaimNextDueJob" THEN stamp ELSE now
              /\ UNCHANGED <<lock, answer>>
    /\ UNCHANGED <<jobs, lastId, now, request>>

\* The conditional UPDATE; no row means a rollback and a refusal.
Update(c) ==
    /\ At(c, "update")
    /\ LET t == tx[c]
           row == jobs[t.job]
       IN  \/ ~RowMatches(request[c], t.loaded, row) /\ Answer(c, FALSE)
           \/ /\ RowMatches(request[c], t.loaded, row)
              /\ GoTo(c, "insert")
              /\ tx' = [tx EXCEPT ![c] =
                          [job |-> t.job, loaded |-> t.loaded, next |-> t.next,
                           image |-> Updated(request[c], row, t.next)]]
              /\ UNCHANGED <<lock, answer>>
    /\ UNCHANGED <<jobs, lastId, now, request, stamp>>

\* SaveChanges: the INSERTs of the state changes.
Insert(c) ==
    /\ At(c, "insert")
    /\ GoTo(c, "commit")
    /\ tx' = [tx EXCEPT ![c].image.history = @ \o NewChanges(tx[c].loaded, tx[c].next)]
    /\ UNCHANGED <<jobs, lastId, now, lock, request, answer, stamp>>

Commit(c) ==
    /\ At(c, "commit")
    /\ Write(tx[c].job, tx[c].image, Len(NewChanges(tx[c].loaded, tx[c].next)))
    /\ Answer(c, TRUE)
    /\ UNCHANGED <<now, request, stamp>>

\* The single UPDATE of RenewLease and Acknowledge; it waits for the lock.
Autocommit(c) ==
    /\ At(c, "autocommit") /\ lock = NoCaller
    /\ LET r == request[c]
       IN  \/ /\ r.op = "RenewLease" /\ IsCurrentClaim(r.job, r.id)
              /\ Write(r.job, [jobs[r.job] EXCEPT !.leaseExpiresAt = r.until], 0)
              /\ Answer(c, TRUE)
           \/ /\ r.op = "Acknowledge" /\ Exists(r.job)
              /\ Write(r.job, [jobs[r.job] EXCEPT !.acknowledged = TRUE], 0)
              /\ Answer(c, TRUE)
           \/ /\ \/ r.op = "RenewLease" /\ ~IsCurrentClaim(r.job, r.id)
                 \/ r.op = "Acknowledge" /\ ~Exists(r.job)
              /\ UNCHANGED storeVars
              /\ Answer(c, FALSE)
    /\ UNCHANGED <<now, request, stamp>>

\* The call is over: it returned its answer, or a statement of it threw.
End(c) ==
    /\ GoTo(c, "idle")
    /\ request' = [request EXCEPT ![c] = NoRequest]
    /\ answer' = [answer EXCEPT ![c] = FALSE]
    /\ Dispose(c)
    /\ UNCHANGED <<jobs, lastId, now, stamp>>

\* A claim reads its job back before it returns it.
Return(c) == At(c, "return") /\ End(c)

Throw(c) == ~At(c, "idle") /\ End(c)

\* SQLITE_BUSY, once the command timeout is over.
TimeOut(c) == pc[c] \in {"begin", "autocommit"} /\ lock # NoCaller /\ End(c)

\* The process dies; what was not committed is gone when the file is opened again.
Crash ==
    /\ lock' = NoCaller
    /\ pc' = [c \in Callers |-> "idle"]
    /\ request' = [c \in Callers |-> NoRequest]
    /\ answer' = [c \in Callers |-> FALSE]
    /\ tx' = [c \in Callers |-> NoTx]
    /\ UNCHANGED <<jobs, lastId, now, stamp>>

Tick ==
    /\ now < MaxTime
    /\ now' = now + 1
    /\ UNCHANGED <<jobs, lastId, lock, pc, request, tx, answer, stamp>>

-----------------------------------------------------------------------------
(* The calls that are made: any operation on any job, for any change id ever  *)
(* handed out; a new job has an id nobody has used (Guid.NewGuid).            *)

Unused(j) == ~Exists(j) /\ \A d \in Callers : request[d].op = "Add" => request[d].job # j

Calls ==
    UNION {
      {Request("Add", j, NoId, NoWorker, now, now + d, FALSE) :
          j \in {i \in JobIds : Unused(i)}, d \in Delays},
      {Request("TryClaimNextDueJob", NoId, NoId, w, now, now + LeaseDuration, FALSE) :
          w \in Workers},
      {Request("MarkCompleted", j, id, NoWorker, 0, 0, FALSE) :
          j \in JobIds, id \in 1 .. lastId},
      {Request("MarkFailed", j, id, NoWorker, 0, 0, blank) :
          j \in JobIds, id \in 1 .. lastId, blank \in BOOLEAN},
      {Request("ScheduleRetry", j, id, NoWorker, 0, now + d, blank) :
          j \in JobIds, id \in 1 .. lastId, d \in Delays, blank \in BOOLEAN},
      {Request("RenewLease", j, id, NoWorker, now, now + d, FALSE) :
          j \in JobIds, id \in 1 .. lastId, d \in {0, LeaseDuration}},
      {Request("Acknowledge", j, NoId, NoWorker, 0, 0, FALSE) : j \in JobIds}}

Call(c) ==
    /\ At(c, "idle") /\ lastId < MaxChanges
    /\ \E r \in Calls : request' = [request EXCEPT ![c] = r]
    /\ GoTo(c, "enter")
    /\ UNCHANGED <<jobs, lastId, now, lock, tx, answer, stamp>>

Init ==
    /\ StoreInit
    /\ stamp = 0
    /\ lock = NoCaller
    /\ pc = [c \in Callers |-> "idle"]
    /\ request = [c \in Callers |-> NoRequest]
    /\ tx = [c \in Callers |-> NoTx]
    /\ answer = [c \in Callers |-> FALSE]

\* The next statement of a call.
Step(c) ==
    \/ Enter(c) \/ Begin(c) \/ Query(c) \/ Load(c) \/ Update(c) \/ Insert(c)
    \/ Commit(c) \/ Autocommit(c) \/ Return(c) \/ TimeOut(c)

Next ==
    \/ \E c \in Callers : Call(c) \/ Step(c) \/ Throw(c)
    \/ Crash
    \/ Tick

\* A thread that can run its next statement runs it; nobody has to call, to throw or
\* to crash.
Fairness == \A c \in Callers : WF_vars(Step(c))

Spec == Init /\ [][Next]_vars

FairSpec == Spec /\ Fairness

-----------------------------------------------------------------------------
TypeOK ==
    /\ StoreTypeOK
    /\ stamp \in 0 .. now
    /\ lock \in Callers \cup {NoCaller}
    /\ pc \in [Callers -> {"idle", "enter", "begin", "autocommit", "return"} \cup InTransaction]
    /\ request \in [Callers -> Requests \cup {NoRequest}]
    /\ answer \in [Callers -> BOOLEAN]

\* The lock belongs to the one call whose transaction is open: no return, refusal or
\* exception of the code leaves it behind on a connection that nobody uses any more.
LockHeldByTransaction ==
    \A c \in Callers : (lock = c) <=> (pc[c] \in InTransaction)

\* What is committed while a call works on a copy it loaded before is not overwritten by
\* its UPDATE: an acknowledgement stays, the changes committed so far stay at the front of
\* the history, and a running job whose lease is ahead of the clock (a renewal may have
\* put it there a moment ago) keeps its claim until that claim itself settles it.
NoUpdateLost ==
    [][\A j \in JobIds : Exists(j) => LET row == jobs[j]  next == jobs'[j] IN
         /\ row.acknowledged => next.acknowledged
         /\ SubSeq(next.history, 1, Len(row.history)) = row.history
         /\ row.status = "Running" /\ next.status = "Running" /\ row.leaseExpiresAt > now
              => next.currentStateChangeId = row.currentStateChangeId]_jobs

\* A transaction that is open is closed: the lock goes back whatever the calls find.
LockIsFreed == \A c \in Callers : (lock = c) ~> (lock # c)

\* Where a call stands, for AtomicStore.
Phase == [c \in Callers |-> CASE pc[c] = "idle" -> "idle"
                             [] pc[c] = "return" -> "answered"
                             [] OTHER -> "called"]

\* Each call is atomic, takes effect at most once, and answers truthfully.
Abstract == INSTANCE AtomicStore WITH now <- stamp, phase <- Phase

ImplementsAtomicStore == Abstract!Spec
=============================================================================
