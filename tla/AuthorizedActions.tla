--------------------------- MODULE AuthorizedActions ---------------------------
(***************************************************************************)
(* The action path of Jobs/Actions: every request, of the API or of a worker,  *)
(* is authorized, opens a data-access scope, runs its statements under the     *)
(* query filter and closes the scope (JobAuthorizedAction.ExecuteAsync).       *)
(* Requests, worker loops and their heartbeats run concurrently, each in a     *)
(* flow with AsyncLocal values of its own; a heartbeat starts with a copy of   *)
(* its worker's (QueuedJobWorker.ProcessNextJobAsync).                         *)
(*                                                                         *)
(* EF Core builds the model, and in it the query filter, once in a process:    *)
(* at the first statement.  DataAccessPolicy.BuildFilter reads the operation   *)
(* then and picks its rules; the actor and the scope are read by every query.  *)
(*                                                                         *)
(* Time, leases and the transactions are the subject of WorkerPool and of      *)
(* SqliteTransactions: here a statement sees and changes rows in one step, and  *)
(* every queued row is due.                                                  *)
(***************************************************************************)
EXTENDS DataAccess

CONSTANTS
    JobIds,
    Requests,     \* HTTP requests that may be in progress, one flow each
    Actors,       \* who may send them
    WorkerActor,  \* WorkerActorOptions.ToActor
    Workers,      \* worker loops
    Configured    \* the actor configured for flows without a request

ActorType == [id : STRING, tenant : Tenants, permissions : SUBSET Permissions]

Heartbeat(w) == <<"heartbeat", w>>
Heartbeats == {Heartbeat(w) : w \in Workers}
Flows == Requests \cup Workers \cup Heartbeats

ASSUME FlowsAssumption ==
    /\ Requests \cap Workers = {}
    /\ Heartbeats \cap (Requests \cup Workers) = {}

ASSUME ActorsAssumption == Actors \cup {WorkerActor, Configured} \subseteq ActorType

VARIABLES
    rows,         \* the table of jobs
    modelRules,   \* the operation whose rules the query filter was built from
    serving,      \* the server accepts requests
    context,      \* the AsyncLocal values of each flow
    provided,     \* what the actor provider answers in each flow
    saved,        \* the values captured by the open handles of each flow
    pc,           \* the step of each flow
    call,         \* the action it executes
    found,        \* the rows the last statement returned or changed
    claimed       \* the job a worker loop holds

vars == <<rows, modelRules, serving, context, provided, saved, pc, call, found, claimed>>

NoRow == [status |-> "absent"]
NoJob == 0

ASSUME JobIdsAssumption == JobIds \subseteq Nat \ {NoJob}

Row(tenant, owner, status) == [tenant |-> tenant, owner |-> owner, status |-> status]
Stored == {j \in JobIds : rows[j] # NoRow}

NoCall == [name |-> "none"]
Call(name, job, actor) ==
    [name |-> name, job |-> job, actor |-> actor, threw |-> FALSE]

-----------------------------------------------------------------------------
(* The seven actions. *)

RequestActions == {"ListJobs", "GetJobById", "AcknowledgeJob", "EnqueueJob"}
WorkerActions == {"ClaimNextDueJob", "RenewJobLease", "CompleteJobExecution"}

\* BuildAuthorizationRules: one permission rule each.
Required(name) ==
    CASE name \in {"ListJobs", "GetJobById"} -> "EmailRead"
      [] name = "AcknowledgeJob" -> "EmailManage"
      [] name = "EnqueueJob" -> "EmailEnqueue"
      [] name \in WorkerActions -> "Execute"

\* Mutations of ScopeOf: acknowledging asks for all tenants whoever acknowledges; an
\* execution is completed in the tenant of the worker.
ScopeOf_AcknowledgeEverywhere(name, actor) ==
    IF \/ name \in WorkerActions \cup {"AcknowledgeJob"}
       \/ name \in {"ListJobs", "GetJobById"} /\ HasPermission(actor, "GlobalRead")
    THEN AllTenants
    ELSE actor.tenant

ScopeOf_CompleteInOwnTenant(name, actor) ==
    IF \/ name \in WorkerActions \ {"CompleteJobExecution"}
       \/ name \in {"ListJobs", "GetJobById", "AcknowledgeJob"}
            /\ HasPermission(actor, "GlobalRead")
    THEN AllTenants
    ELSE actor.tenant

\* BuildDataAccessScope
ScopeOf(name, actor) ==
    IF \/ name \in WorkerActions
       \/ name \in {"ListJobs", "GetJobById", "AcknowledgeJob"}
            /\ HasPermission(actor, "GlobalRead")
    THEN AllTenants
    ELSE actor.tenant

OperationOf(name) == IF name \in {"ListJobs", "GetJobById"} THEN "Read" ELSE "Mutate"

\* A handle per using declaration: JobAuthorizedAction's scope, the worker's actor scope
\* and the scope around its handler.
NoHandles == [action |-> NoContext, actor |-> NoContext, handler |-> NoContext]

GoTo(f, step) == pc' = [pc EXCEPT ![f] = step]

\* Mutation of SetContext: the values live in fields of the singleton provider.
SetContext_Shared(f, c) == context' = [g \in Flows |-> c]

SetContext(f, c) == context' = [context EXCEPT ![f] = c]

Save(f, handle) == saved' = [saved EXCEPT ![f][handle] = context[f]]

Execute(f, name, job) ==
    /\ call' = [call EXCEPT ![f] = Call(name, job, NoActor)]
    /\ found' = [found EXCEPT ![f] = {}]
    /\ GoTo(f, "authorize")

-----------------------------------------------------------------------------
(* JobAuthorizedAction.ExecuteAsync *)

Authorize(f) ==
    /\ pc[f] = "authorize"
    /\ LET actor == CurrentActor(context[f], provided[f])
       IN  /\ call' = [call EXCEPT ![f].actor = actor]
           /\ GoTo(f, IF HasPermission(actor, Required(call[f].name))
                      THEN "scope" ELSE "denied")
    /\ UNCHANGED <<rows, modelRules, serving, context, provided, saved, found, claimed>>

\* Both ways to begin the scope throw when the provider refuses; that ends the action.
OpenScope(f) ==
    /\ pc[f] = "scope"
    /\ LET scope == ScopeOf(call[f].name, call[f].actor)
           operation == OperationOf(call[f].name)
           crossing == scope = AllTenants
           allowed == IF crossing THEN MayCrossTenants(context[f], provided[f])
                                  ELSE MayBeginScope(context[f], scope)
       IN  IF allowed
           THEN /\ Save(f, "action")
                /\ SetContext(f, IF crossing
                                 THEN BeginCrossTenantScope(context[f], operation)
                                 ELSE BeginScope(context[f], scope, operation))
                /\ GoTo(f, "statement")
           ELSE GoTo(f, "refused") /\ UNCHANGED <<context, saved>>
    /\ UNCHANGED <<rows, modelRules, serving, provided, call, found, claimed>>

\* OnModelCreating, at the first statement of the process only.
RulesInForce(f) ==
    IF modelRules = NoOperation THEN CurrentOperation(context[f]) ELSE modelRules

Visible(f) ==
    {j \in Stored :
        Filter(RulesInForce(f), CurrentActor(context[f], provided[f]),
               CurrentScope(context[f], provided[f]), rows[j])}

SetStatus(j, status) == rows' = [rows EXCEPT ![j].status = status]

\* ExecuteAuthorizedAsync and the statements under it.  The filter applies to what a
\* statement reads or updates; it does not apply to an INSERT.
Performs(f) ==
    LET name == call[f].name
        job == call[f].job
        actor == call[f].actor
        queued == {j \in Visible(f) : rows[j].status = "queued"}
        held == {job} \cap {j \in Visible(f) : rows[j].status = "running"}
    IN  \/ /\ name = "ListJobs"
           /\ found' = [found EXCEPT ![f] = Visible(f)]
           /\ UNCHANGED rows
        \/ /\ name \in {"GetJobById", "AcknowledgeJob"}
           /\ found' = [found EXCEPT ![f] = {job} \cap Visible(f)]
           /\ UNCHANGED rows
        \/ /\ name = "EnqueueJob"
           /\ \E new \in JobIds \ Stored :
                /\ rows' = [rows EXCEPT ![new] = Row(actor.tenant, actor.id, "queued")]
                /\ found' = [found EXCEPT ![f] = {new}]
        \/ /\ name = "ClaimNextDueJob"
           /\ \/ queued = {} /\ UNCHANGED <<rows, found>>
              \/ \E j \in queued :
                   /\ SetStatus(j, "running")
                   /\ found' = [found EXCEPT ![f] = {j}]
        \/ /\ name = "RenewJobLease"
           /\ found' = [found EXCEPT ![f] = held]
           /\ UNCHANGED rows
        \/ /\ name = "CompleteJobExecution"
           /\ found' = [found EXCEPT ![f] = held]
           /\ IF held = {}
              THEN UNCHANGED rows
              ELSE \E status \in {"queued", "finished"} : SetStatus(job, status)

Statement(f) ==
    /\ pc[f] = "statement"
    /\ Performs(f)
    /\ modelRules' = RulesInForce(f)
    /\ GoTo(f, "close")
    /\ UNCHANGED <<serving, context, provided, saved, call, claimed>>

\* EnqueueJobAction.Validate rejects the request; the store is not called.
Reject(f) ==
    /\ pc[f] = "statement" /\ call[f].name = "EnqueueJob"
    /\ GoTo(f, "close")
    /\ UNCHANGED <<rows, modelRules, serving, context, provided, saved, call, found, claimed>>

\* The database throws, before the model was built or after.
StatementThrows(f) ==
    /\ pc[f] = "statement"
    /\ modelRules' \in {modelRules, RulesInForce(f)}
    /\ GoTo(f, "close")
    /\ call' = [call EXCEPT ![f].threw = TRUE]
    /\ UNCHANGED <<rows, serving, context, provided, saved, found, claimed>>

\* The using declaration disposes the handle, after an exception as well.
CloseScope(f) ==
    /\ pc[f] = "close"
    /\ SetContext(f, EndScope(context[f], saved[f].action))
    /\ saved' = [saved EXCEPT ![f].action = NoContext]
    /\ GoTo(f, "done")
    /\ UNCHANGED <<rows, modelRules, serving, provided, call, found, claimed>>

ActionEnds == {"done", "denied", "refused"}

ActionStep(f) ==
    \/ Authorize(f) \/ OpenScope(f) \/ Statement(f) \/ Reject(f) \/ StatementThrows(f)
    \/ CloseScope(f)

-----------------------------------------------------------------------------
(* HTTP requests. *)

Receive(f) ==
    /\ serving /\ pc[f] = "idle"
    /\ \E actor \in Actors, name \in RequestActions, job \in JobIds :
         /\ provided' = [provided EXCEPT ![f] = actor]
         /\ Execute(f, name, job)
    /\ SetContext(f, NoContext)
    /\ UNCHANGED <<rows, modelRules, serving, saved, claimed>>

Respond(f) ==
    /\ pc[f] \in ActionEnds
    /\ GoTo(f, "idle")
    /\ call' = [call EXCEPT ![f] = NoCall]
    /\ found' = [found EXCEPT ![f] = {}]
    /\ UNCHANGED <<rows, modelRules, serving, context, provided, saved, claimed>>

-----------------------------------------------------------------------------
(* A worker loop (QueuedJobWorker.ProcessNextJobAsync) and its heartbeat.  *)

BeginPass(w) ==
    /\ pc[w] = "idle"
    /\ Save(w, "actor")
    /\ SetContext(w, BeginActorScope(context[w], WorkerActor))
    /\ Execute(w, "ClaimNextDueJob", NoJob)
    /\ UNCHANGED <<rows, modelRules, serving, provided, claimed>>

\* The actor scope is disposed with the method.
EndPass(w) ==
    /\ SetContext(w, EndActorScope(context[w], saved[w].actor))
    /\ saved' = [saved EXCEPT ![w].actor = NoContext]
    /\ claimed' = [claimed EXCEPT ![w] = NoJob]
    /\ call' = [call EXCEPT ![w] = NoCall]
    /\ found' = [found EXCEPT ![w] = {}]
    /\ GoTo(w, "idle")

\* No job, no permission or an exception: the loop waits for its poll interval.  The
\* host starts the pool up to its first wait before it starts the server.
FindNothing(w) ==
    /\ pc[w] \in ActionEnds /\ call[w].name # "CompleteJobExecution" /\ claimed[w] = NoJob
    /\ call[w].name = "ClaimNextDueJob" /\ pc[w] = "done" => found[w] = {}
    /\ EndPass(w)
    /\ serving' = TRUE
    /\ UNCHANGED <<rows, modelRules, provided>>

\* The heartbeat is started: it runs in a copy of the worker's context.
StartHeartbeat(w) ==
    /\ pc[w] = "done" /\ call[w].name = "ClaimNextDueJob" /\ found[w] # {}
    /\ \E job \in found[w] : claimed' = [claimed EXCEPT ![w] = job]
    /\ pc' = [pc EXCEPT ![w] = "claimed", ![Heartbeat(w)] = "beating"]
    /\ context' = [context EXCEPT ![Heartbeat(w)] = context[w]]
    /\ provided' = [provided EXCEPT ![Heartbeat(w)] = provided[w]]
    /\ serving' = TRUE
    /\ UNCHANGED <<rows, modelRules, saved, call, found>>

\* BeginScope(Tenant(job.TenantId)) around the handler.
BeginHandler(w) ==
    /\ pc[w] = "claimed"
    /\ Save(w, "handler")
    /\ SetContext(w, BeginScope(context[w], rows[claimed[w]].tenant, "Read"))
    /\ GoTo(w, "handling")
    /\ UNCHANGED <<rows, modelRules, serving, provided, call, found, claimed>>

EndHandler(w) ==
    /\ pc[w] = "handling"
    /\ SetContext(w, EndScope(context[w], saved[w].handler))
    /\ saved' = [saved EXCEPT ![w].handler = NoContext]
    /\ GoTo(w, "stopping")
    /\ UNCHANGED <<rows, modelRules, serving, provided, call, found, claimed>>

\* StopLeaseRenewal waits for the heartbeat's call, if one is in progress.
StopHeartbeat(w) ==
    /\ pc[w] = "stopping" /\ pc[Heartbeat(w)] \in {"beating", "stopped"}
    /\ call' = [call EXCEPT ![w] = Call("CompleteJobExecution", claimed[w], NoActor)]
    /\ found' = [found EXCEPT ![w] = {}]
    /\ pc' = [pc EXCEPT ![w] = "authorize", ![Heartbeat(w)] = "idle"]
    /\ UNCHANGED <<rows, modelRules, serving, context, provided, saved, claimed>>

Complete(w) ==
    /\ pc[w] \in ActionEnds /\ claimed[w] # NoJob
    /\ EndPass(w)
    /\ UNCHANGED <<rows, modelRules, serving, provided>>

Beat(w) ==
    /\ pc[Heartbeat(w)] = "beating"
    /\ Execute(Heartbeat(w), "RenewJobLease", claimed[w])
    /\ UNCHANGED <<rows, modelRules, serving, context, provided, saved, claimed>>

\* The lease was renewed and the next beat is awaited, or the heartbeat ends.
Beaten(w) ==
    LET h == Heartbeat(w)
    IN  /\ pc[h] \in ActionEnds
        /\ GoTo(h, IF pc[h] = "done" /\ ~call[h].threw /\ found[h] # {}
                   THEN "beating" ELSE "stopped")
        /\ call' = [call EXCEPT ![h] = NoCall]
        /\ found' = [found EXCEPT ![h] = {}]
        /\ UNCHANGED <<rows, modelRules, serving, context, provided, saved, claimed>>

-----------------------------------------------------------------------------
Init ==
    /\ rows = [j \in JobIds |-> NoRow]
    /\ modelRules = NoOperation
    /\ serving = FALSE
    /\ context = [f \in Flows |-> NoContext]
    /\ provided = [f \in Flows |-> Configured]
    /\ saved = [f \in Flows |-> NoHandles]
    /\ pc = [f \in Flows |-> "idle"]
    /\ call = [f \in Flows |-> NoCall]
    /\ found = [f \in Flows |-> {}]
    /\ claimed = [w \in Workers |-> NoJob]

Next ==
    \/ \E f \in Flows : ActionStep(f)
    \/ \E f \in Requests : Receive(f) \/ Respond(f)
    \/ \E w \in Workers :
         \/ BeginPass(w) \/ FindNothing(w) \/ StartHeartbeat(w) \/ BeginHandler(w)
         \/ EndHandler(w) \/ StopHeartbeat(w) \/ Complete(w) \/ Beat(w) \/ Beaten(w)

Spec == Init /\ [][Next]_vars

-----------------------------------------------------------------------------
Steps ==
    {"idle", "authorize", "scope", "statement", "close", "claimed", "handling",
     "stopping", "beating", "stopped"} \cup ActionEnds

TypeOK ==
    /\ \A j \in Stored : /\ rows[j].tenant \in Tenants
                         /\ rows[j].status \in {"queued", "running", "finished"}
    /\ modelRules \in Operations \cup {NoOperation}
    /\ serving \in BOOLEAN
    /\ pc \in [Flows -> Steps]
    /\ found \in [Flows -> SUBSET Stored]
    /\ claimed \in [Workers -> JobIds \cup {NoJob}]

Crosses(actor) == HasPermission(actor, "GlobalRead") \/ HasPermission(actor, "Execute")

\* Whatever the other flows do, and whichever rules the filter was built from, the rows
\* a statement returns or changes are ones its actor has a claim to: in the actor's own
\* tenant, unless a permission reaches across tenants, and owned by the actor, unless
\* a permission reaches other people's jobs.
TouchesOnlyPermitted ==
    \A f \in Flows : \A j \in found[f] :
        LET actor == call[f].actor IN
        /\ rows[j].tenant = actor.tenant \/ Crosses(actor)
        /\ \/ rows[j].owner = actor.id
           \/ HasPermission(actor, "EmailManage")
           \/ Crosses(actor)

\* What a flow's own open handles say its AsyncLocal values are.
OwnContext(f) ==
    LET acting == IF f \in Requests \/ pc[f] = "idle"
                  THEN NoContext
                  ELSE BeginActorScope(NoContext, WorkerActor)
        scope == ScopeOf(call[f].name, call[f].actor)
        operation == OperationOf(call[f].name)
    IN  CASE pc[f] = "handling" ->
               BeginScope(acting, rows[claimed[f]].tenant, "Read")
          [] pc[f] \in {"statement", "close"} ->
               IF scope = AllTenants THEN BeginCrossTenantScope(acting, operation)
                                     ELSE BeginScope(acting, scope, operation)
          [] OTHER -> acting

\* A flow is never left with a scope that is closed, a closed scope's permission to
\* cross tenants, or values of another flow: not after an exception, not by a heartbeat
\* that outlives the step it was started in.
ContextIsOwn ==
    \A f \in Flows : (f \in Heartbeats => pc[f] # "idle") => context[f] = OwnContext(f)

\* A provider that is asked for a scope never refuses: each action asks only for what
\* its authorization rules have established.
NoScopeRefused == \A f \in Flows : pc[f] # "refused"

Statements(f) == pc[f] = "statement" /\ pc'[f] = "close" /\ ~call'[f].threw

\* Who enqueues a job, and may read jobs at all, finds it: a list contains every job of
\* the actor's own in its tenant.
OwnJobsAreListed ==
    [][\A f \in Requests :
          Statements(f) /\ call[f].name = "ListJobs" =>
              {j \in Stored : /\ rows[j].owner = call[f].actor.id
                              /\ rows[j].tenant = call[f].actor.tenant} \subseteq found'[f]]_vars

\* What a worker claimed it can renew and finish, through its own flow and through its
\* heartbeat's, wherever the job belongs.
ClaimedJobsAreHeld ==
    [][\A w \in Workers :
          /\ Statements(w) /\ call[w].name = "CompleteJobExecution"
               => found'[w] = {claimed[w]}
          /\ Statements(Heartbeat(w)) /\ pc[w] # "idle"
               => found'[Heartbeat(w)] = {claimed[w]}]_vars

\* The test GetJobsAndGetJobSupportGlobalReadAcrossTenantsWithSqliteStore: who may read
\* everywhere is listed the jobs of every tenant.
GlobalReadListsAll ==
    [][\A f \in Requests :
          Statements(f) /\ call[f].name = "ListJobs"
            /\ HasPermission(call[f].actor, "GlobalRead") => found'[f] = Stored]_vars
=============================================================================
