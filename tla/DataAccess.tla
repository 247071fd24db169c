------------------------------ MODULE DataAccess ------------------------------
(***************************************************************************)
(* Who may touch which row: Jobs/DataAccess (the policy and its rules), the  *)
(* scopes of Jobs/Tenancy/DataAccessScopeProvider.cs and the permissions of   *)
(* Jobs/Authorization, as pure operators.  The four AsyncLocal values of the   *)
(* provider are a record, the "context" of a flow of control.               *)
(***************************************************************************)
EXTENDS Integers, FiniteSets

CONSTANT Tenants

AllTenants == "all tenants"
NoScope == "no scope"

ASSUME TenantsAssumption == AllTenants \notin Tenants /\ NoScope \notin Tenants

Permissions ==
    {"All", "GlobalRead", "EmailRead", "EmailEnqueue", "EmailManage", "Execute"}

Operations == {"Read", "Mutate"}

NoActor == [id |-> "no actor"]
NoOperation == "no operation"

\* JobActor.HasPermission
HasPermission(actor, permission) ==
    "All" \in actor.permissions \/ permission \in actor.permissions

-----------------------------------------------------------------------------
(* JobDataAccessPolicy: one boundary and, per operation, the grants any one of  *)
(* which suffices.                                                          *)

GrantRules(operation) ==
    CASE operation = "Read" -> {"Owner", "EmailManage", "GlobalRead"}
      [] operation = "Mutate" -> {"Owner", "EmailManage", "Execute"}

Granted(rule, actor, row) ==
    IF rule = "Owner" THEN row.owner = actor.id ELSE HasPermission(actor, rule)

InBoundary(scope, row) == scope = AllTenants \/ row.tenant = scope

\* Mutations of Filter: every grant must hold; a grant is enough without the boundary.
Filter_AllGrants(operation, actor, scope, row) ==
    /\ InBoundary(scope, row)
    /\ \A rule \in GrantRules(operation) : Granted(rule, actor, row)

Filter_GrantOrBoundary(operation, actor, scope, row) ==
    \/ InBoundary(scope, row)
    \/ \E rule \in GrantRules(operation) : Granted(rule, actor, row)

\* The query filter the composer builds from the rules of an operation.
Filter(operation, actor, scope, row) ==
    /\ InBoundary(scope, row)
    /\ \E rule \in GrantRules(operation) : Granted(rule, actor, row)

-----------------------------------------------------------------------------
(* DataAccessScopeProvider.  "provided" is what the IJobActorProvider answers  *)
(* in the flow: the actor of its request, or the configured one.              *)

NoContext ==
    [actor |-> NoActor, scope |-> NoScope, operation |-> NoOperation, depth |-> 0]

CurrentActor(context, provided) ==
    IF context.actor = NoActor THEN provided ELSE context.actor

CurrentScope(context, provided) ==
    IF context.scope = NoScope THEN CurrentActor(context, provided).tenant
                               ELSE context.scope

CurrentOperation(context) ==
    IF context.operation = NoOperation THEN "Read" ELSE context.operation

\* BeginScope throws for all tenants outside of a cross-tenant scope.
MayBeginScope(context, scope) == scope = AllTenants => context.depth > 0

BeginScope(context, scope, operation) ==
    [context EXCEPT !.scope = scope, !.operation = operation]

\* BeginCrossTenantScope throws for an actor who may not, for both operations alike.
MayCrossTenants(context, provided) ==
    LET actor == CurrentActor(context, provided)
    IN  HasPermission(actor, "GlobalRead") \/ HasPermission(actor, "Execute")

BeginCrossTenantScope(context, operation) ==
    BeginScope([context EXCEPT !.depth = @ + 1], AllTenants, operation)

BeginActorScope(context, actor) == [context EXCEPT !.actor = actor]

\* Disposing the handle of a scope puts back the values captured when it began; of a
\* plain scope the depth was not touched in between.
EndScope(context, previous) ==
    [context EXCEPT !.scope = previous.scope, !.operation = previous.operation,
                    !.depth = previous.depth]

EndActorScope(context, previous) == [context EXCEPT !.actor = previous.actor]
=============================================================================
